---------------------------- MODULE GeocodersProofs ----------------------------
(***************************************************************************)
(* Theorems about module Geocoders, for every list of options, every list  *)
(* of columns, and lists of addresses and replies of every length.         *)
(*                                                                         *)
(* The layers are described once by constants: what the skipper, the cache *)
(* and the second geocoder make of the addresses and the answers, position *)
(* by position, with the rank of a position among those that are left in   *)
(* place of the loops that count.  The invariant says at each stage of a   *)
(* call that it has what the layers before have made of its addresses, and *)
(* the properties follow from it and from what the layers make.            *)
(***************************************************************************)
EXTENDS Geocoders, PositionsProofs

\* A row is taken apart again where it was joined.
ComesApart(r, s, n, t) == SubSeq(r, 1, n) = s /\ SubSeq(r, n + 1, Len(r)) = t

LEMMA TakenApart ==
    ASSUME NEW n \in Nat, NEW m \in Nat, NEW s, NEW t, NEW r, IsJoin(r, s, n, t, m)
    PROVE  ComesApart(r, s, n, t)
<1> DEFINE k == n + m
<1>0. k \in Nat
  OBVIOUS
<1>1. /\ IsRow(r, k) /\ IsRow(s, n) /\ IsRow(t, m)
      /\ \A j \in 1..n : r[j] = s[j]
      /\ \A j \in 1..m : r[n + j] = t[j]
  BY DEF IsJoin
<1> HIDE DEF k
<1> DEFINE A == {r[j] : j \in 1..k}
<1>2. r \in Seq(A) /\ Len(r) = k
  BY <1>0, <1>1, RowLength
<1> HIDE DEF A
<1>3. SubSeq(r, 1, n) = s
  <2>1. SubSeq(r, 1, n) = [i \in 1..n |-> r[i]]
    BY <1>2
  <2> QED
    BY <1>1, <2>1 DEF IsRow
<1>4. SubSeq(r, n + 1, n + m) = t
  <2>1. SubSeq(r, n + 1, n + m) = [i \in 1..m |-> r[n + i]]
    <3>1. SubSeq(r, n + 1, n + m) = [i \in 1..((n + m) - (n + 1) + 1) |-> r[(n + 1) + i - 1]]
      BY <1>2
    <3>2. (n + m) - (n + 1) + 1 = m /\ \A i \in 1..m : (n + 1) + i - 1 = n + i
      OBVIOUS
    <3> QED
      BY <3>1, <3>2
  <2> QED
    BY <1>1, <2>1 DEF IsRow
<1>5. Len(r) = n + m
  BY DEF IsJoin
<1> QED
  BY <1>3, <1>4, <1>5 DEF ComesApart

\* Lists one after the other are one list.
LEMMA Flattened ==
    ASSUME NEW n \in Nat, NEW seqs, IsRow(seqs, n),
           \A i \in 1..n : \E m \in Nat : IsRow(seqs[i], m)
    PROVE  \E k \in Nat : IsRow(FlattenSeq(seqs), k)
<1>1. Len(seqs) = n
  BY RowLength
<1>2. CASE n = 0
  BY <1>1, <1>2 DEF FlattenSeq
<1>3. CASE n # 0
  <2> DEFINE F(m, f) == f = [i \in 1..m |-> IF i = 1 THEN seqs[i] ELSE f[i - 1] \o seqs[i]]
             S == {m \in Nat : \E f : F(m, f)}
             flatten == CHOOSE f : F(n, f)
  <2>1. 0 \in S
    <3>1. F(0, <<>>)
      OBVIOUS
    <3> QED
      BY <3>1
  <2>2. ASSUME NEW m \in Nat, m \in S
        PROVE  m + 1 \in S
    <3>1. PICK f : F(m, f)
      BY <2>2
    <3> DEFINE g == [i \in 1..(m + 1) |->
                        IF i = m + 1 THEN IF i = 1 THEN seqs[i] ELSE f[i - 1] \o seqs[i]
                        ELSE f[i]]
    <3>2. \A i \in 1..m : f[i] = IF i = 1 THEN seqs[i] ELSE f[i - 1] \o seqs[i]
      BY <3>1
    <3>3. \A i \in 1..m : g[i] = f[i]
      OBVIOUS
    <3>4. \A i \in 1..(m + 1) : g[i] = IF i = 1 THEN seqs[i] ELSE g[i - 1] \o seqs[i]
      <4> TAKE i \in 1..(m + 1)
      <4>1. i # 1 => i - 1 \in 1..m
        OBVIOUS
      <4>2. CASE i = m + 1
        BY <3>3, <4>1, <4>2
      <4>3. CASE i # m + 1
        <5>1. i \in 1..m
          BY <4>3
        <5> QED
          BY <3>2, <3>3, <4>1, <5>1
      <4> QED
        BY <4>2, <4>3
    <3>5. g = [i \in 1..(m + 1) |-> g[i]]
      OBVIOUS
    <3> HIDE DEF g
    <3>6. F(m + 1, g)
      BY <3>4, <3>5
    <3> HIDE DEF F
    <3> QED
      BY <3>6
  <2>3. \E f : F(n, f)
    <3> HIDE DEF S
    <3>1. n \in S
      BY <2>1, <2>2, Induction
    <3> QED
      BY <3>1 DEF S
  <2>4. F(n, flatten)
    BY <2>3
  <2>5. FlattenSeq(seqs) = flatten[n]
    BY <1>1, <1>3 DEF FlattenSeq
  <2> HIDE DEF flatten
  <2> DEFINE T == {i \in Nat : i \in 1..n => \E k \in Nat : IsRow(flatten[i], k)}
  <2>6. 0 \in T
    OBVIOUS
  <2>7. ASSUME NEW i \in Nat, i \in T
        PROVE  i + 1 \in T
    <3> SUFFICES ASSUME i + 1 \in 1..n
                 PROVE  \E k \in Nat : IsRow(flatten[i + 1], k)
      OBVIOUS
    <3>1. PICK m \in Nat : IsRow(seqs[i + 1], m)
      OBVIOUS
    <3>2. CASE i = 0
      <4>1. flatten[1] = seqs[1]
        BY <2>4, <3>2
      <4> QED
        BY <3>1, <3>2, <4>1
    <3>3. CASE i # 0
      <4>1. flatten[i + 1] = flatten[i] \o seqs[i + 1]
        <5>1. (i + 1) - 1 = i /\ i + 1 # 1
          BY <3>3
        <5> QED
          BY <2>4, <5>1
      <4>2. PICK k \in Nat : IsRow(flatten[i], k)
        BY <2>7, <3>3
      <4>3. IsRow(flatten[i] \o seqs[i + 1], k + m)
        BY <3>1, <4>2, Joined DEF IsJoin
      <4> QED
        BY <4>1, <4>3
    <3> QED
      BY <3>2, <3>3
  <2>8. n \in T
    <3> HIDE DEF T
    <3> QED
      BY <2>6, <2>7, Induction
  <2> QED
    BY <1>3, <2>5, <2>8
<1> QED
  BY <1>2, <1>3

-------------------------------------------------------------------------------
\* The columns.

\* How many columns the geocoder has, and with that of the cache.
Wide(o) == IF o.geocoder = "smarty" THEN Len(Structure) ELSE Len(Components)
HasKey(o) == o.cache /\ o.outputKeys
BaseWide(o) == IF HasKey(o) THEN Wide(o) + 1 ELSE Wide(o)

LEMMA StructureIsRow == Len(Structure) \in Nat /\ IsRow(Structure, Len(Structure))
<1> DEFINE wanted(keys) == Selected(keys, {j \in DOMAIN keys : keys[j].value = "true"})
           paths(k) ==
               CASE k.value = "true" -> <<<<k.key>>>>
                 [] k.value = "false" -> <<>>
                 [] k.value = "object" ->
                        [j \in DOMAIN wanted(k.keys) |-> <<k.key, wanted(k.keys)[j].key>>]
           seqs == [i \in DOMAIN COMPLETE |-> paths(COMPLETE[i])]
           n == Len(COMPLETE)
<1>1. n \in Nat /\ DOMAIN COMPLETE = 1..n
      /\ \A i \in 1..n : COMPLETE[i] \in Leaf \cup [key : STRING, value : {"object"}, keys : Seq(Leaf)]
  BY CompleteAssumption, LenProperties, ElementOfSeq
<1>2. ASSUME NEW keys \in Seq(Leaf)
      PROVE  \E m \in Nat : DOMAIN wanted(keys) = 1..m
  <2>1. {j \in DOMAIN keys : keys[j].value = "true"} \subseteq DOMAIN keys
    OBVIOUS
  <2> QED
    BY <2>1, SelectedListed
<1> HIDE DEF wanted
<1>3. ASSUME NEW i \in 1..n
      PROVE  \E m \in Nat : IsRow(paths(COMPLETE[i]), m)
  <2>1. \/ COMPLETE[i].value = "true" \/ COMPLETE[i].value = "false"
        \/ COMPLETE[i].value = "object" /\ COMPLETE[i].keys \in Seq(Leaf)
    BY <1>1 DEF Leaf
  <2>2. CASE COMPLETE[i].value = "true"
    <3>1. paths(COMPLETE[i]) = <<<<COMPLETE[i].key>>>>
      BY <2>2
    <3>2. IsRow(<<<<COMPLETE[i].key>>>>, 1)
      BY DEF IsRow
    <3> QED
      BY <3>1, <3>2
  <2>3. CASE COMPLETE[i].value = "false"
    <3>1. paths(COMPLETE[i]) = <<>>
      BY <2>3
    <3>2. IsRow(<<>>, 0)
      BY DEF IsRow
    <3> QED
      BY <3>1, <3>2
  <2>4. CASE COMPLETE[i].value = "object" /\ COMPLETE[i].keys \in Seq(Leaf)
    <3>1. PICK m \in Nat : DOMAIN wanted(COMPLETE[i].keys) = 1..m
      BY <1>2, <2>4
    <3>2. paths(COMPLETE[i]) = [j \in DOMAIN wanted(COMPLETE[i].keys) |->
                                  <<COMPLETE[i].key, wanted(COMPLETE[i].keys)[j].key>>]
      BY <2>4
    <3>3. IsRow(paths(COMPLETE[i]), m)
      BY <3>1, <3>2 DEF IsRow
    <3> QED
      BY <3>3
  <2> QED
    BY <2>1, <2>2, <2>3, <2>4
<1>4. Structure = FlattenSeq(seqs)
  BY DEF Structure, Traverse, wanted
<1> HIDE DEF paths, n
<1>5. IsRow(seqs, n) /\ \A i \in 1..n : \E m \in Nat : IsRow(seqs[i], m)
  BY <1>1, <1>3 DEF IsRow
<1>6. \E k \in Nat : IsRow(Structure, k)
  <2> HIDE DEF seqs
  <2> QED
    BY <1>1, <1>4, <1>5, Flattened
<1> QED
  BY <1>6, RowLength

LEMMA ComponentsAre ==
    /\ Len(Components) = 11 /\ DOMAIN Components = 1..11 /\ IsRow(Components, 11)
    /\ \A i, j \in 1..11 : Components[i] = Components[j] => i = j
    /\ \A i \in 1..11 : Components[i] # "cache_key"
BY DEF Components, IsRow

LEMMA InnerColumnsAre ==
    ASSUME NEW o \in Options
    PROVE  /\ Wide(o) \in Nat /\ IsRow(InnerColumns[o], Wide(o))
           /\ \A j \in 1..Wide(o) : \E x : InnerColumns[o][j] = <<x>>
           /\ \A j \in 1..Wide(o) : InnerColumns[o][j] # KeyColumn
           /\ \A j, k \in 1..Wide(o) : InnerColumns[o][j] = InnerColumns[o][k] => j = k
<1>1. CASE o.geocoder = "smarty"
  <2>1. InnerColumns[o] = SmartyColumns /\ Wide(o) = Len(Structure)
    BY <1>1 DEF InnerColumns, Wide
  <2>2. Len(Structure) \in Nat /\ DOMAIN Structure = 1..Len(Structure)
    BY StructureIsRow, RowLength
  <2>3. SmartyColumns = [j \in 1..Len(Structure) |-> <<Last(Structure[j])>>]
    BY <2>2 DEF SmartyColumns
  <2>4. IsRow(SmartyColumns, Len(Structure)) /\ \A j \in 1..Len(Structure) : \E x : SmartyColumns[j] = <<x>>
    BY <2>3 DEF IsRow
  <2>5. \A j \in 1..Len(Structure) : SmartyColumns[j] # KeyColumn
    BY <2>3, ColumnAssumption DEF ToSet
  <2>6. \A j, k \in 1..Len(Structure) : SmartyColumns[j] = SmartyColumns[k] => j = k
    BY <2>3, ColumnAssumption DEF IsInjective
  <2> QED
    BY <2>1, <2>2, <2>4, <2>5, <2>6
<1>2. CASE o.geocoder # "smarty"
  <2>1. InnerColumns[o] = LibpostalColumns /\ Wide(o) = 11
    BY <1>2, ComponentsAre DEF InnerColumns, Wide
  <2>2. LibpostalColumns = [j \in 1..11 |-> <<Components[j]>>]
    BY ComponentsAre DEF LibpostalColumns
  <2>3. IsRow(LibpostalColumns, 11) /\ \A j \in 1..11 : \E x : LibpostalColumns[j] = <<x>>
    BY <2>2 DEF IsRow
  <2>4. \A j \in 1..11 : LibpostalColumns[j] # KeyColumn
    BY <2>2, ComponentsAre DEF KeyColumn
  <2>5. \A j, k \in 1..11 : LibpostalColumns[j] = LibpostalColumns[k] => j = k
    BY <2>2, ComponentsAre
  <2> QED
    BY <2>1, <2>3, <2>4, <2>5
<1> QED
  BY <1>1, <1>2

LEMMA BaseColumnsAre ==
    ASSUME NEW o \in Options
    PROVE  /\ BaseWide(o) \in Nat /\ IsRow(BaseColumns[o], BaseWide(o))
           /\ \A j \in 1..Wide(o) : BaseColumns[o][j] = InnerColumns[o][j]
           /\ HasKey(o) => BaseColumns[o][Wide(o) + 1] = KeyColumn
           /\ \A j \in 1..BaseWide(o) : \E x : BaseColumns[o][j] = <<x>>
           /\ \A j, k \in 1..BaseWide(o) : BaseColumns[o][j] = BaseColumns[o][k] => j = k
<1> DEFINE w == Wide(o)
           inner == InnerColumns[o]
<1>1. /\ w \in Nat /\ IsRow(inner, w)
      /\ \A j \in 1..w : \E x : inner[j] = <<x>>
      /\ \A j \in 1..w : inner[j] # KeyColumn
      /\ \A j, k \in 1..w : inner[j] = inner[k] => j = k
  BY InnerColumnsAre
<1>2. CASE HasKey(o)
  <2>1. BaseColumns[o] = inner \o <<KeyColumn>> /\ BaseWide(o) = w + 1
    BY <1>2 DEF BaseColumns, BaseWide, HasKey
  <2>2. IsRow(<<KeyColumn>>, 1) /\ <<KeyColumn>>[1] = KeyColumn
    BY DEF IsRow
  <2> HIDE DEF w, inner
  <2>3. IsJoin(BaseColumns[o], inner, w, <<KeyColumn>>, 1)
    BY <1>1, <2>1, <2>2, Joined
  <2>4. /\ IsRow(BaseColumns[o], w + 1) /\ BaseColumns[o][w + 1] = KeyColumn
        /\ \A j \in 1..w : BaseColumns[o][j] = inner[j]
    BY <2>2, <2>3 DEF IsJoin
  <2>5. \A j \in 1..(w + 1) : j \in 1..w \/ j = w + 1
    BY <1>1
  <2>6. \A j \in 1..BaseWide(o) : \E x : BaseColumns[o][j] = <<x>>
    BY <1>1, <2>1, <2>4, <2>5 DEF KeyColumn
  <2>7. \A j, k \in 1..BaseWide(o) : BaseColumns[o][j] = BaseColumns[o][k] => j = k
    BY <1>1, <2>1, <2>4, <2>5
  <2>8. BaseWide(o) \in Nat /\ IsRow(BaseColumns[o], BaseWide(o)) /\ BaseColumns[o][w + 1] = KeyColumn
    BY <1>1, <2>1, <2>4
  <2> QED
    BY <2>4, <2>6, <2>7, <2>8 DEF w, inner
<1>3. CASE ~HasKey(o)
  <2>1. BaseColumns[o] = inner \o <<>> /\ BaseWide(o) = w
    BY <1>3 DEF BaseColumns, BaseWide, HasKey
  <2>2. IsRow(<<>>, 0)
    BY DEF IsRow
  <2> HIDE DEF w, inner
  <2>3. IsJoin(inner \o <<>>, inner, w, <<>>, 0)
    BY <1>1, <2>2, Joined
  <2>4. IsRow(BaseColumns[o], w) /\ \A j \in 1..w : BaseColumns[o][j] = inner[j]
    BY <1>1, <2>1, <2>3 DEF IsJoin
  <2> QED
    BY <1>1, <1>3, <2>1, <2>4 DEF w, inner
<1> QED
  BY <1>2, <1>3

\* The columns of the second geocoder.
Labelled == [i \in DOMAIN Components |-> <<"libpostal", Components[i]>>]

LEMMA AnnouncedAre ==
    ASSUME NEW o \in Options
    PROVE  /\ o.includeLibpostal => IsJoin(Announced[o], BaseColumns[o], BaseWide(o), Labelled, 11)
           /\ ~o.includeLibpostal => Announced[o] = BaseColumns[o]
           /\ Len(Announced[o]) \in Nat /\ IsRow(Announced[o], Len(Announced[o]))
           /\ Len(Announced[o]) = IF o.includeLibpostal THEN BaseWide(o) + 11 ELSE BaseWide(o)
           /\ \A j, k \in 1..Len(Announced[o]) : Announced[o][j] = Announced[o][k] => j = k
<1> DEFINE b == BaseWide(o)
           base == BaseColumns[o]
<1>1. /\ b \in Nat /\ IsRow(base, b)
      /\ \A j \in 1..b : \E x : base[j] = <<x>>
      /\ \A j, k \in 1..b : base[j] = base[k] => j = k
  BY BaseColumnsAre
<1>2. CASE o.includeLibpostal
  <2>1. Announced[o] = base \o Labelled
    BY <1>2 DEF Announced, Labelled
  <2>2. IsRow(Labelled, 11) /\ \A j \in 1..11 : Labelled[j] = <<"libpostal", Components[j]>>
    BY ComponentsAre DEF Labelled, IsRow
  <2> HIDE DEF b, base
  <2>3. IsJoin(Announced[o], base, b, Labelled, 11)
    BY <1>1, <2>1, <2>2, Joined
  <2>4. /\ IsRow(Announced[o], b + 11) /\ Len(Announced[o]) = b + 11
        /\ \A j \in 1..b : Announced[o][j] = base[j]
        /\ \A j \in 1..11 : Announced[o][b + j] = <<"libpostal", Components[j]>>
    BY <2>2, <2>3 DEF IsJoin
  <2>5. \A j \in 1..(b + 11) : j \in 1..b \/ \E i \in 1..11 : j = b + i
    <3> TAKE j \in 1..(b + 11)
    <3>1. CASE j <= b
      BY <1>1, <3>1
    <3>2. CASE ~(j <= b)
      <4>1. j - b \in 1..11 /\ j = b + (j - b)
        BY <1>1, <3>2
      <4> QED
        BY <4>1
    <3> QED
      BY <3>1, <3>2
  <2>6. ASSUME NEW j \in 1..(b + 11), NEW k \in 1..(b + 11), Announced[o][j] = Announced[o][k]
        PROVE  j = k
    <3>1. CASE j \in 1..b /\ k \in 1..b
      BY <1>1, <2>4, <2>6, <3>1
    <3>2. CASE \E i \in 1..11, l \in 1..11 : j = b + i /\ k = b + l
      <4>1. PICK i \in 1..11, l \in 1..11 : j = b + i /\ k = b + l
        BY <3>2
      <4>2. <<"libpostal", Components[i]>> = <<"libpostal", Components[l]>>
        BY <2>4, <2>6, <4>1
      <4> QED
        BY <4>1, <4>2, ComponentsAre
    <3>3. ASSUME NEW i \in 1..b, NEW l \in 1..11
          PROVE  Announced[o][i] # Announced[o][b + l]
      <4>1. PICK x : base[i] = <<x>>
        BY <1>1
      <4>2. <<x>> # <<"libpostal", Components[l]>>
        OBVIOUS
      <4> QED
        BY <2>4, <4>1, <4>2
    <3> QED
      BY <2>5, <2>6, <3>1, <3>2, <3>3
  <2>7. Len(Announced[o]) \in Nat /\ IsRow(Announced[o], Len(Announced[o]))
        /\ \A j, k \in 1..Len(Announced[o]) : Announced[o][j] = Announced[o][k] => j = k
    BY <1>1, <2>4, <2>6
  <2> QED
    BY <1>2, <2>3, <2>4, <2>7 DEF b, base
<1>3. CASE ~o.includeLibpostal
  <2>1. Announced[o] = base \o <<>>
    BY <1>3 DEF Announced
  <2>2. IsRow(<<>>, 0)
    BY DEF IsRow
  <2> HIDE DEF b, base
  <2>3. IsJoin(base \o <<>>, base, b, <<>>, 0)
    BY <1>1, <2>2, Joined
  <2>4. IsRow(Announced[o], b) /\ Len(Announced[o]) = b /\ \A j \in 1..b : Announced[o][j] = base[j]
    BY <1>1, <2>1, <2>3 DEF IsJoin
  <2>5. Announced[o] = base
    BY <1>1, <2>4 DEF IsRow
  <2> QED
    BY <1>1, <1>3, <2>4, <2>5 DEF b, base
<1> QED
  BY <1>2, <1>3

-------------------------------------------------------------------------------
\* What the layers do to the list of results, position by position.

\* What is asked for each of the addresses.
Wishes(o, as) == [i \in DOMAIN as |-> Wanted(o, as[i])]

\* The valid addresses that the cache does not have, by their numbers, and as
\* they are asked for.
MissedOf(h) == {k \in DOMAIN h : h[k] = {}}
MissesOf(cu, h) == Selected(ValidAddresses(cu), MissedOf(h))

\* What the cache may have.
CachedRows(o, a) ==
    IF o.geocoder = "libpostal" THEN {Parsed(a)}
    ELSE {None} \cup
         {ValueColumns(f, a) : f \in {g \in Answer : Range(g) \subseteq {"text", "empty"}}}

\* The lists cu and h are as long as the code makes them.
HitsOf(o, cu, h) ==
    /\ DOMAIN h = 1..Cardinality(Valid(cu))
    /\ \A k \in DOMAIN h :
           \/ h[k] = {}
           \/ \E row \in CachedRows(o, cu[Positions(Valid(cu))[k]]) : h[k] = {row}

\* The row of the k-th valid address, when g are the answers to the misses.
InnerRow(h, g, k) ==
    IF h[k] # {} THEN CHOOSE row \in h[k] : TRUE
    ELSE IF Rank(MissedOf(h), k) \in DOMAIN g THEN g[Rank(MissedOf(h), k)] ELSE None
Keyed(o, a, row) ==
    IF o.cache /\ o.outputKeys /\ row # None THEN Append(row, <<a, KeyColumn>>) ELSE row
BaseRow(o, cu, h, g, i) ==
    IF i \notin Valid(cu) THEN None
    ELSE Keyed(o, cu[i], InnerRow(h, g, Rank(Valid(cu), i)))

LEMMA PutBackIs ==
    ASSUME NEW n \in Nat, NEW S, S \subseteq 1..n, NEW g, DOMAIN g \subseteq 1..Cardinality(S)
    PROVE  PutBack(n, Positions(S), g) =
               [i \in 1..n |-> IF i \in S /\ Rank(S, i) \in DOMAIN g THEN g[Rank(S, i)] ELSE None]
<1> DEFINE at(i) == {k \in DOMAIN g : Positions(S)[k] = i}
           value(i) == IF i \in S /\ Rank(S, i) \in DOMAIN g THEN g[Rank(S, i)] ELSE None
<1>1. /\ \A k \in DOMAIN g : Positions(S)[k] \in S /\ Rank(S, Positions(S)[k]) = k
      /\ \A i \in S : Positions(S)[Rank(S, i)] = i
  BY PositionsListed
<1>2. PutBack(n, Positions(S), g) =
          [i \in 1..n |-> IF at(i) = {} THEN None ELSE g[CHOOSE k \in at(i) : TRUE]]
  BY DEF PutBack
<1>3. ASSUME NEW i \in 1..n
      PROVE  (IF at(i) = {} THEN None ELSE g[CHOOSE k \in at(i) : TRUE]) = value(i)
  <2>1. CASE i \in S /\ Rank(S, i) \in DOMAIN g
    <3>1. at(i) = {Rank(S, i)}
      BY <1>1, <2>1
    <3> QED
      BY <2>1, <3>1
  <2>2. CASE ~(i \in S /\ Rank(S, i) \in DOMAIN g)
    <3>1. at(i) = {}
      BY <1>1, <2>2
    <3> QED
      BY <2>2, <3>1
  <2> QED
    BY <2>1, <2>2
<1> HIDE DEF at, value
<1>4. PutBack(n, Positions(S), g) = [i \in 1..n |-> value(i)]
  BY <1>2, <1>3
<1> QED
  BY <1>4 DEF value

\* The list r has g at the positions in S, and None at the others.
IsSpread(r, n, S, g) ==
    /\ IsRow(r, n)
    /\ \A i \in 1..n :
           r[i] = IF i \in S /\ Rank(S, i) \in DOMAIN g THEN g[Rank(S, i)] ELSE None

LEMMA PutBackRow ==
    ASSUME NEW n \in Nat, NEW S, S \subseteq 1..n, NEW g, DOMAIN g \subseteq 1..Cardinality(S)
    PROVE  IsSpread(PutBack(n, Positions(S), g), n, S, g)
BY PutBackIs DEF IsSpread, IsRow

\* The valid addresses and, of these, the misses.
Split(n, cu, h) ==
    /\ Valid(cu) \subseteq 1..n /\ Cardinality(Valid(cu)) \in 0..n
    /\ IsRow(ValidAddresses(cu), Cardinality(Valid(cu)))
    /\ \A k \in 1..Cardinality(Valid(cu)) :
           /\ Positions(Valid(cu))[k] \in Valid(cu)
           /\ ValidAddresses(cu)[k] = cu[Positions(Valid(cu))[k]]
    /\ MissedOf(h) \subseteq 1..Cardinality(Valid(cu))
    /\ Cardinality(MissedOf(h)) \in 0..n
    /\ IsRow(MissesOf(cu, h), Cardinality(MissedOf(h)))
    /\ \A m \in 1..Cardinality(MissedOf(h)) :
           MissesOf(cu, h)[m] = cu[Positions(Valid(cu))[Positions(MissedOf(h))[m]]]

LEMMA MissesAre ==
    ASSUME NEW n \in Nat, NEW cu, IsRow(cu, n), NEW h, DOMAIN h = 1..Cardinality(Valid(cu))
    PROVE  Split(n, cu, h)
<1> DEFINE S == Valid(cu)
           v == Cardinality(S)
           M == MissedOf(h)
<1>1. cu \in Seq({cu[j] : j \in 1..n}) /\ DOMAIN cu = 1..n /\ Len(cu) = n
  BY RowLength
<1>2. S \subseteq 1..n /\ IsFiniteSet(1..n) /\ Cardinality(1..n) = n
  BY <1>1, FS_Interval DEF Valid
<1>3. v \in Nat /\ v <= n
  BY <1>2, FS_Subset, FS_CardinalityType
<1>4. Positions(S) \in [1..v -> S]
  BY <1>2, PositionsListed
<1>5. ValidAddresses(cu) = [k \in 1..v |-> cu[Positions(S)[k]]]
  BY DEF ValidAddresses, Selected
<1>6. M \subseteq 1..v /\ IsFiniteSet(1..v) /\ Cardinality(1..v) = v
  <2>1. M \subseteq 1..v
    BY DEF MissedOf
  <2> HIDE DEF v
  <2> QED
    BY <1>3, <2>1, FS_Interval
<1>7. Cardinality(M) \in Nat /\ Cardinality(M) <= v
  BY <1>6, FS_Subset, FS_CardinalityType
<1>8. Positions(M) \in [1..Cardinality(M) -> M]
  BY <1>3, <1>6, PositionsListed
<1>9. MissesOf(cu, h) = [m \in 1..Cardinality(M) |-> ValidAddresses(cu)[Positions(M)[m]]]
  BY DEF MissesOf, Selected
<1> HIDE DEF S, v, M
<1>10. IsRow(ValidAddresses(cu), v) /\ \A k \in 1..v : Positions(S)[k] \in S /\ ValidAddresses(cu)[k] = cu[Positions(S)[k]]
  BY <1>4, <1>5 DEF IsRow
<1>11. ASSUME NEW m \in 1..Cardinality(M)
       PROVE  MissesOf(cu, h)[m] = cu[Positions(S)[Positions(M)[m]]]
  <2>1. Positions(M)[m] \in 1..v
    BY <1>6, <1>8
  <2> QED
    BY <1>9, <1>10, <2>1
<1>12. IsRow(MissesOf(cu, h), Cardinality(M))
  BY <1>9 DEF IsRow
<1>13. v \in 0..n /\ Cardinality(M) \in 0..n
  BY <1>3, <1>7
<1> QED
  BY <1>2, <1>6, <1>10, <1>11, <1>12, <1>13 DEF S, v, M, Split

LEMMA CacheResultsAre ==
    ASSUME NEW c \in Calls, NEW n \in Nat, IsRow(current[c], n),
           DOMAIN hits[c] = 1..Cardinality(Valid(current[c])),
           NEW g, DOMAIN g \subseteq 1..Cardinality(MissedOf(hits[c]))
    PROVE  Restore(current[c], CacheResults(c, g)) =
               [i \in 1..n |-> BaseRow(options, current[c], hits[c], g, i)]
<1> DEFINE cu == current[c]
           h == hits[c]
           S == Valid(cu)
           v == Cardinality(S)
           M == MissedOf(h)
           answers == PutBack(v, Positions(M), g)
           row(k) == IF h[k] = {} THEN answers[k] ELSE CHOOSE r \in h[k] : TRUE
           as == ValidAddresses(cu)
           X == CacheResults(c, g)
<1>1. /\ S \subseteq 1..n /\ v \in Nat /\ IsRow(as, v) /\ M \subseteq 1..v
      /\ \A k \in 1..v : Positions(S)[k] \in S /\ as[k] = cu[Positions(S)[k]]
      /\ Len(cu) = n
  <2>1. Split(n, current[c], hits[c])
    BY MissesAre
  <2>2. v \in 0..n => v \in Nat
    OBVIOUS
  <2> QED
    BY <2>1, <2>2, RowLength DEF Split
<1>2. DOMAIN as = 1..v /\ Len(as) = v
  BY <1>1, RowLength
<1>3. X = [k \in 1..v |-> Keyed(options, as[k], row(k))]
  <2>1. Missed(c) = M
    BY DEF Missed, MissedOf
  <2> QED
    BY <1>2, <2>1 DEF CacheResults, MissOffsets, Keyed
<1>4. \A k \in 1..v : answers[k] =
          IF k \in M /\ Rank(M, k) \in DOMAIN g THEN g[Rank(M, k)] ELSE None
  <2>1. DOMAIN g \subseteq 1..Cardinality(M)
    OBVIOUS
  <2> HIDE DEF M, v
  <2>2. IsSpread(answers, v, M, g)
    BY <1>1, <2>1, PutBackRow
  <2> QED
    BY <2>2 DEF IsSpread
<1>5. \A k \in 1..v : row(k) = InnerRow(h, g, k)
  <2>1. \A k \in 1..v : h[k] = {} <=> k \in M
    BY DEF MissedOf
  <2> HIDE DEF answers, M
  <2> QED
    BY <1>4, <2>1 DEF InnerRow, M
<1> HIDE DEF row
<1>6. DOMAIN X = 1..v /\ \A k \in 1..v : X[k] = Keyed(options, as[k], InnerRow(h, g, k))
  BY <1>3, <1>5
<1> HIDE DEF X, as, v, S
<1>7. Restore(cu, X) = PutBack(n, Positions(S), X)
  BY <1>1 DEF Restore, OriginalIndices, S
<1>8. /\ IsRow(PutBack(n, Positions(S), X), n)
      /\ \A i \in 1..n : PutBack(n, Positions(S), X)[i] =
             IF i \in S /\ Rank(S, i) \in DOMAIN X THEN X[Rank(S, i)] ELSE None
  <2>1. DOMAIN X \subseteq 1..Cardinality(S)
    BY <1>6 DEF v
  <2>2. IsSpread(PutBack(n, Positions(S), X), n, S, X)
    BY <1>1, <2>1, PutBackRow
  <2> QED
    BY <2>2 DEF IsSpread
<1>9. ASSUME NEW i \in 1..n
      PROVE  PutBack(n, Positions(S), X)[i] = BaseRow(options, cu, h, g, i)
  <2>1. CASE i \in S
    <3>1. Rank(S, i) \in 1..v /\ Positions(S)[Rank(S, i)] = i
      BY <1>1, <2>1, PositionsListed DEF v
    <3> QED
      BY <1>1, <1>6, <1>8, <2>1, <3>1 DEF BaseRow, S
  <2>2. CASE i \notin S
    BY <1>8, <2>2 DEF BaseRow, S
  <2> QED
    BY <2>1, <2>2
<1> QED
  BY <1>7, <1>8, <1>9 DEF X, IsRow

\* The results of the base geocoder for a list of n addresses.
AreRows(o, n, cu, h, g, r) == r = [i \in 1..n |-> BaseRow(o, cu, h, g, i)]

LEMMA NothingAsked ==
    ASSUME NEW o, NEW n \in Nat, NEW cu, IsRow(cu, n), Valid(cu) = {}, NEW h, NEW g
    PROVE  AreRows(o, n, cu, h, g, Restore(cu, <<>>))
<1>1. Len(cu) = n
  BY RowLength
<1>2. DOMAIN <<>> = {}
  OBVIOUS
<1>3. Restore(cu, <<>>) = [i \in 1..n |-> None]
  BY <1>1, <1>2 DEF Restore, PutBack
<1> QED
  BY <1>3 DEF AreRows, BaseRow

-------------------------------------------------------------------------------
\* What a row says, and for which address.

LEMMA Appended ==
    ASSUME NEW n \in Nat, NEW row, IsRow(row, n), NEW x
    PROVE  IsJoin(Append(row, x), row, n, <<x>>, 1)
<1> DEFINE A == {row[j] : j \in 1..n} \cup {x}
<1>1. \A j \in 1..n : row[j] \in A
  OBVIOUS
<1> HIDE DEF A
<1>2. row \in [1..n -> A]
  BY <1>1 DEF IsRow
<1>3. row \in Seq(A) /\ x \in A
  BY <1>2, IsASeq DEF A
<1>4. Append(row, x) = row \o <<x>>
  BY <1>3, AppendIsConcat
<1>5. IsRow(<<x>>, 1)
  BY DEF IsRow
<1> QED
  BY <1>4, <1>5, Joined

\* A row of Smarty or libpostal for the address a.
IsInner(o, row, a) ==
    /\ IsRow(row, Wide(o))
    /\ \A j \in 1..Wide(o) :
           IF o.geocoder = "smarty" THEN row[j] \in {Blank, <<a, SmartyColumns[j]>>}
           ELSE row[j] = Parsed(a)[j]

LEMMA ValueColumnsInner ==
    ASSUME NEW o, o.geocoder = "smarty", NEW f, NEW a
    PROVE  IsInner(o, ValueColumns(f, a), a)
<1>1. DOMAIN Structure = 1..Len(Structure)
  BY StructureIsRow, RowLength
<1>2. ValueColumns(f, a) = [j \in 1..Len(Structure) |->
          IF f[Structure[j]] = "text" THEN <<a, SmartyColumns[j]>> ELSE Blank]
  BY <1>1 DEF ValueColumns
<1>3. IsRow(ValueColumns(f, a), Len(Structure))
  BY <1>2 DEF IsRow
<1> QED
  BY <1>2, <1>3 DEF IsInner, Wide

LEMMA ParsedInner ==
    ASSUME NEW a
    PROVE  IsRow(Parsed(a), 11) /\ \A o : o.geocoder # "smarty" => IsInner(o, Parsed(a), a)
<1>1. IsRow(Parsed(a), 11)
  BY ComponentsAre DEF Parsed, IsRow
<1> QED
  BY <1>1, ComponentsAre DEF IsInner, Wide

\* With the cache key there is the same row in the inner columns.
IsKeyed(o, a, row, keyed) ==
    \/ keyed = None /\ row = None
    \/ /\ row # None /\ keyed # None /\ IsRow(keyed, BaseWide(o)) /\ IsBaseRow(o, keyed, a)
       /\ \A j \in 1..Wide(o) : keyed[j] = row[j]

LEMMA KeyedIs ==
    ASSUME NEW o \in Options, NEW a, NEW row, row = None \/ IsInner(o, row, a)
    PROVE  IsKeyed(o, a, row, Keyed(o, a, row))
<1> DEFINE r == Keyed(o, a, row)
           w == Wide(o)
<1>1. CASE row = None
  BY <1>1 DEF Keyed, IsKeyed
<1>2. CASE row # None
  <2>1. /\ w \in Nat /\ IsRow(row, w) /\ BaseWide(o) \in Nat
        /\ IsRow(BaseColumns[o], BaseWide(o))
        /\ \A j \in 1..w : BaseColumns[o][j] # KeyColumn
        /\ \A j \in 1..w : IF o.geocoder = "smarty" THEN row[j] \in {Blank, <<a, SmartyColumns[j]>>}
                           ELSE row[j] = Parsed(a)[j]
    BY <1>2, InnerColumnsAre, BaseColumnsAre DEF IsInner
  <2>2. r # None /\ IsRow(r, BaseWide(o)) /\ (\A j \in 1..w : r[j] = row[j])
        /\ (HasKey(o) => BaseWide(o) = w + 1 /\ r[w + 1] = <<a, KeyColumn>> /\ BaseColumns[o][w + 1] = KeyColumn)
        /\ (~HasKey(o) => BaseWide(o) = w)
    <3>1. CASE HasKey(o)
      <4>1. r = Append(row, <<a, KeyColumn>>) /\ BaseWide(o) = w + 1
        BY <1>2, <3>1 DEF Keyed, HasKey, BaseWide
      <4> HIDE DEF r, w
      <4>2. IsJoin(r, row, w, <<<<a, KeyColumn>>>>, 1)
        BY <2>1, <4>1, Appended
      <4>3. IsRow(r, w + 1) /\ (\A j \in 1..w : r[j] = row[j]) /\ r[w + 1] = <<a, KeyColumn>>
        BY <4>2 DEF IsJoin
      <4>4. BaseColumns[o][w + 1] = KeyColumn
        BY <3>1, BaseColumnsAre DEF w
      <4>5. r # None
        <5>1. DOMAIN r = 1..(w + 1) /\ w + 1 \in 1..(w + 1)
          BY <2>1, <4>3 DEF IsRow
        <5> QED
          BY <5>1 DEF None
      <4> QED
        BY <3>1, <4>1, <4>3, <4>4, <4>5
    <3>2. CASE ~HasKey(o)
      BY <1>2, <2>1, <3>2 DEF Keyed, HasKey, BaseWide
    <3> QED
      BY <3>1, <3>2
  <2>3. DOMAIN r = 1..BaseWide(o) /\ DOMAIN BaseColumns[o] = 1..BaseWide(o)
    <3> HIDE DEF r
    <3> QED
      BY <2>1, <2>2, RowLength
  <2>4. \A j \in 1..BaseWide(o) : j \in 1..w \/ (HasKey(o) /\ j = w + 1)
    BY <2>1, <2>2
  <2> HIDE DEF r, w
  <2>5. IsBaseRow(o, r, a)
    <3> SUFFICES ASSUME NEW j \in 1..BaseWide(o)
                 PROVE  CASE BaseColumns[o][j] = KeyColumn -> r[j] = <<a, KeyColumn>>
                          [] BaseColumns[o][j] # KeyColumn /\ o.geocoder = "smarty" ->
                                 r[j] \in {Blank, <<a, SmartyColumns[j]>>}
                          [] OTHER -> r[j] = Parsed(a)[j]
      BY <2>3 DEF IsBaseRow
    <3>1. CASE j \in 1..w
      BY <2>1, <2>2, <3>1
    <3>2. CASE HasKey(o) /\ j = w + 1
      BY <2>2, <3>2
    <3> QED
      BY <2>4, <3>1, <3>2
  <2> QED
    BY <1>2, <2>2, <2>5 DEF r, w, IsKeyed
<1> QED
  BY <1>1, <1>2

\* The answers to the misses: none, those of libpostal, or Smarty's.
Given(o, cu, h, he, g) ==
    \/ he = <<>> /\ g = <<>>
    \/ /\ o.geocoder = "libpostal" /\ he = <<>>
       /\ g = [m \in DOMAIN MissesOf(cu, h) |-> Parsed(MissesOf(cu, h)[m])]
    \/ /\ o.geocoder = "smarty" /\ Cardinality(MissedOf(h)) \in 1..(2 * GEOCODE_SIZE)
       /\ he \in Usable[Cardinality(MissedOf(h))]
       /\ g = SmartyResults(he, MissesOf(cu, h))

LEMMA GivenDomain ==
    ASSUME NEW n \in Nat, NEW o, NEW cu, NEW h, NEW he, NEW g, Split(n, cu, h), Given(o, cu, h, he, g)
    PROVE  DOMAIN g \subseteq 1..Cardinality(MissedOf(h))
<1>1. DOMAIN MissesOf(cu, h) = 1..Cardinality(MissedOf(h))
  <2>1. Cardinality(MissedOf(h)) \in Nat /\ IsRow(MissesOf(cu, h), Cardinality(MissedOf(h)))
    BY DEF Split
  <2> QED
    BY <2>1, RowLength
<1>2. DOMAIN <<>> = {}
  OBVIOUS
<1> QED
  BY <1>1, <1>2 DEF Given, SmartyResults

\* The i-th address, when it is valid and missed, is the one that was asked for.
LEMMA MissOf ==
    ASSUME NEW n \in Nat, NEW cu, NEW h, Split(n, cu, h), NEW i \in Valid(cu),
           Rank(Valid(cu), i) \in MissedOf(h)
    PROVE  /\ Rank(MissedOf(h), Rank(Valid(cu), i)) \in 1..Cardinality(MissedOf(h))
           /\ MissesOf(cu, h)[Rank(MissedOf(h), Rank(Valid(cu), i))] = cu[i]
<1> DEFINE S == Valid(cu)
           M == MissedOf(h)
           k == Rank(S, i)
           m == Rank(M, k)
<1>1. S \subseteq 1..n /\ M \subseteq 1..Cardinality(S) /\ Cardinality(S) \in Nat
  BY DEF Split
<1>2. Positions(S)[k] = i
  BY <1>1, PositionsListed
<1>3. m \in 1..Cardinality(M) /\ Positions(M)[m] = k
  BY <1>1, PositionsListed
<1>4. MissesOf(cu, h)[m] = cu[Positions(S)[Positions(M)[m]]]
  BY <1>3 DEF Split
<1> QED
  BY <1>2, <1>3, <1>4

LEMMA InnerRowIs ==
    ASSUME NEW o \in Options, NEW n \in Nat, NEW cu, NEW h, NEW he, NEW g,
           Split(n, cu, h), HitsOf(o, cu, h), Given(o, cu, h, he, g), NEW i \in Valid(cu)
    PROVE  \/ InnerRow(h, g, Rank(Valid(cu), i)) = None
           \/ IsInner(o, InnerRow(h, g, Rank(Valid(cu), i)), cu[i])
<1> DEFINE S == Valid(cu)
           M == MissedOf(h)
           k == Rank(S, i)
           m == Rank(M, k)
<1>1. k \in DOMAIN h /\ Positions(S)[k] = i
  <2>1. S \subseteq 1..n
    BY DEF Split
  <2> QED
    BY <2>1, PositionsListed DEF HitsOf
<1>2. CASE h[k] # {}
  <2>1. PICK row \in CachedRows(o, cu[i]) : h[k] = {row}
    BY <1>1, <1>2 DEF HitsOf
  <2>2. InnerRow(h, g, k) = row
    BY <1>2, <2>1 DEF InnerRow
  <2>3. row = None \/ IsInner(o, row, cu[i])
    <3>1. CASE o.geocoder = "libpostal"
      BY <2>1, <3>1, ParsedInner DEF CachedRows
    <3>2. CASE o.geocoder # "libpostal"
      <4>1. o.geocoder = "smarty"
        BY <3>2, OptionAssumption DEF Opt
      <4> QED
        BY <2>1, <3>2, <4>1, ValueColumnsInner DEF CachedRows
    <3> QED
      BY <3>1, <3>2
  <2> QED
    BY <2>2, <2>3
<1>3. CASE h[k] = {} /\ m \in DOMAIN g
  <2>1. InnerRow(h, g, k) = g[m]
    BY <1>3 DEF InnerRow
  <2>2. MissesOf(cu, h)[m] = cu[i] /\ m \in 1..Cardinality(M)
    <3>1. k \in M
      BY <1>1, <1>3 DEF MissedOf
    <3> QED
      BY <3>1, MissOf
  <2>3. CASE o.geocoder = "libpostal" /\ g = [j \in DOMAIN MissesOf(cu, h) |-> Parsed(MissesOf(cu, h)[j])]
    <3>1. g[m] = Parsed(cu[i])
      BY <1>3, <2>2, <2>3
    <3> QED
      BY <2>1, <2>3, <3>1, ParsedInner
  <2>4. CASE o.geocoder = "smarty" /\ g = SmartyResults(he, MissesOf(cu, h))
    <3>1. g[m] = None \/ \E f : g[m] = ValueColumns(f, MissesOf(cu, h)[m])
      BY <1>3, <2>4 DEF SmartyResults
    <3> QED
      BY <2>1, <2>2, <2>4, <3>1, ValueColumnsInner
  <2>5. g # <<>>
    BY <1>3
  <2> QED
    BY <2>3, <2>4, <2>5 DEF Given
<1>4. CASE h[k] = {} /\ m \notin DOMAIN g
  BY <1>4 DEF InnerRow
<1> QED
  BY <1>2, <1>3, <1>4

LEMMA BaseRowIs ==
    ASSUME NEW o \in Options, NEW n \in Nat, NEW cu, NEW h, NEW he, NEW g,
           Split(n, cu, h), HitsOf(o, cu, h), Given(o, cu, h, he, g), NEW i \in 1..n
    PROVE  \/ BaseRow(o, cu, h, g, i) = None
           \/ IsRow(BaseRow(o, cu, h, g, i), BaseWide(o)) /\ IsBaseRow(o, BaseRow(o, cu, h, g, i), cu[i])
<1>1. CASE i \in Valid(cu)
  <2> DEFINE row == InnerRow(h, g, Rank(Valid(cu), i))
  <2>1. row = None \/ IsInner(o, row, cu[i])
    BY <1>1, InnerRowIs
  <2>2. BaseRow(o, cu, h, g, i) = Keyed(o, cu[i], row)
    BY <1>1 DEF BaseRow
  <2> HIDE DEF row
  <2> QED
    BY <2>1, <2>2, KeyedIs DEF IsKeyed
<1>2. CASE i \notin Valid(cu)
  BY <1>2 DEF BaseRow
<1> QED
  BY <1>1, <1>2


\* What `combine_geocoder_results` makes of two results, and what the whole stack
\* answers to the addresses as.
Combined(o, fst, snd) ==
    IF fst = None THEN Empty(BaseColumns[o]) \o snd ELSE fst \o snd
FinalRow(o, as, cu, h, g, i) ==
    IF o.includeLibpostal THEN Combined(o, BaseRow(o, cu, h, g, i), Parsed(as[i]))
    ELSE BaseRow(o, cu, h, g, i)

\* The part of a combined row that the base geocoder has.
BasePart(o, row) == IF row = None THEN Empty(BaseColumns[o]) ELSE row

LEMMA EmptyRow ==
    ASSUME NEW o \in Options
    PROVE  IsRow(Empty(BaseColumns[o]), BaseWide(o))
           /\ \A j \in 1..BaseWide(o) : Empty(BaseColumns[o])[j] = Blank
<1>1. DOMAIN BaseColumns[o] = 1..BaseWide(o)
  BY BaseColumnsAre, RowLength
<1> QED
  BY <1>1 DEF Empty, IsRow

LEMMA CombinedIs ==
    ASSUME NEW o \in Options, NEW row, row = None \/ IsRow(row, BaseWide(o)), NEW a
    PROVE  IsJoin(Combined(o, row, Parsed(a)), BasePart(o, row), BaseWide(o), Parsed(a), 11)
<1>1. BaseWide(o) \in Nat
  BY BaseColumnsAre
<1>2. IsRow(BasePart(o, row), BaseWide(o))
  BY EmptyRow DEF BasePart
<1>3. IsRow(Parsed(a), 11)
  BY ParsedInner
<1>4. Combined(o, row, Parsed(a)) = BasePart(o, row) \o Parsed(a)
  BY DEF Combined, BasePart
<1> HIDE DEF BasePart, Combined
<1>5. IsJoin(BasePart(o, row) \o Parsed(a), BasePart(o, row), BaseWide(o), Parsed(a), 11)
  BY <1>1, <1>2, <1>3, Joined
<1> QED
  BY <1>4, <1>5

\* A result that the stack may give for the address a, as wide as its columns.
GoodRow(o, row, a) ==
    IsResultFor(o, row, a) /\ (row = None \/ IsRow(row, Len(Announced[o])))

LEMMA FinalRowIs ==
    ASSUME NEW o \in Options, NEW n \in Nat, NEW as, IsRow(as, n),
           NEW h, NEW he, NEW g, Split(n, Wishes(o, as), h),
           HitsOf(o, Wishes(o, as), h), Given(o, Wishes(o, as), h, he, g), NEW i \in 1..n
    PROVE  GoodRow(o, FinalRow(o, as, Wishes(o, as), h, g, i), as[i])
<1> DEFINE base == BaseRow(o, Wishes(o, as), h, g, i)
           b == BaseWide(o)
           row == FinalRow(o, as, Wishes(o, as), h, g, i)
<1>1. base = None \/ (IsRow(base, b) /\ IsBaseRow(o, base, Wanted(o, as[i])))
  <2>1. Wishes(o, as)[i] = Wanted(o, as[i])
    <3>1. DOMAIN as = 1..n
      BY RowLength
    <3> QED
      BY <3>1 DEF Wishes
  <2> HIDE DEF base
  <2>2. base = None \/ (IsRow(base, b) /\ IsBaseRow(o, base, Wishes(o, as)[i]))
    BY BaseRowIs DEF base
  <2> QED
    BY <2>1, <2>2
<1>2. b \in Nat /\ IsRow(BaseColumns[o], b) /\ Len(BaseColumns[o]) = b
  BY BaseColumnsAre, RowLength
<1>3. CASE ~o.includeLibpostal
  <2>1. row = base /\ Len(Announced[o]) = b
    BY <1>3, AnnouncedAre DEF FinalRow
  <2> HIDE DEF row, base
  <2> QED
    BY <1>1, <1>3, <2>1 DEF GoodRow, IsResultFor, row
<1>4. CASE o.includeLibpostal
  <2>1. row = Combined(o, base, Parsed(as[i])) /\ Len(Announced[o]) = b + 11
    BY <1>4, AnnouncedAre DEF FinalRow
  <2> HIDE DEF row, base, b
  <2>2. IsJoin(row, BasePart(o, base), b, Parsed(as[i]), 11)
    BY <1>1, <2>1, CombinedIs DEF b
  <2>3. SubSeq(row, 1, b) = BasePart(o, base) /\ SubSeq(row, b + 1, Len(row)) = Parsed(as[i])
    <3>1. ComesApart(row, BasePart(o, base), b, Parsed(as[i]))
      BY <1>2, <2>2, TakenApart
    <3> QED
      BY <3>1 DEF ComesApart
  <2>4. IsRow(row, b + 11) /\ Len(row) = b + 11
    BY <2>2 DEF IsJoin
  <2>5. IsBaseRow(o, SubSeq(row, 1, b), Wanted(o, as[i])) \/ SubSeq(row, 1, b) = Empty(BaseColumns[o])
    BY <1>1, <2>3 DEF BasePart
  <2>6. IsResultFor(o, row, as[i])
    BY <1>2, <1>4, <2>1, <2>3, <2>4, <2>5 DEF IsResultFor
  <2> QED
    BY <2>1, <2>4, <2>6 DEF GoodRow, row
<1> QED
  BY <1>3, <1>4

-------------------------------------------------------------------------------
\* What is sent, and what becomes of the answers.

\* The addresses that have a street and are not in the cache, and the number of
\* answers that are about the i-th one.
SentOf(cu, h) == {i \in Valid(cu) : Rank(Valid(cu), i) \in MissedOf(h)}
AboutOf(cu, h, he, i) ==
    {j \in DOMAIN he : i \in SentOf(cu, h) /\ he[j].input_index = Rank(SentOf(cu, h), i) - 1}
FoundOf(cu, h, i) == IF i \in Valid(cu) THEN h[Rank(Valid(cu), i)] \ {None} ELSE {}
KnownOf(cu, h, he, i) ==
    {ValueColumns(he[j].fields, cu[i]) : j \in AboutOf(cu, h, he, i)} \cup FoundOf(cu, h, i)

\* The misses are the addresses at these positions, and the m-th of them is about
\* the m-th position.
Sends(cu, h) ==
    /\ DOMAIN Positions(SentOf(cu, h)) = 1..Cardinality(MissedOf(h))
    /\ MissesOf(cu, h) = [k \in DOMAIN Positions(SentOf(cu, h)) |-> cu[Positions(SentOf(cu, h))[k]]]
    /\ \A i \in SentOf(cu, h) : Rank(SentOf(cu, h), i) = Rank(MissedOf(h), Rank(Valid(cu), i))

LEMMA SentIs ==
    ASSUME NEW n \in Nat, NEW cu, NEW h, Split(n, cu, h)
    PROVE  Sends(cu, h)
<1> DEFINE S == Valid(cu)
           M == MissedOf(h)
           T == SentOf(cu, h)
           m == Cardinality(M)
<1>1. S \subseteq 1..n /\ M \subseteq 1..Cardinality(S) /\ T = {i \in S : Rank(S, i) \in M}
  BY DEF Split, SentOf
<1>2. IsRow(MissesOf(cu, h), m) /\ \A k \in 1..m : MissesOf(cu, h)[k] = cu[Positions(S)[Positions(M)[k]]]
  BY DEF Split
<1> HIDE DEF S, M, T, m
<1>3. /\ DOMAIN Positions(T) = 1..m /\ \A k \in 1..m : Positions(T)[k] = Positions(S)[Positions(M)[k]]
      /\ \A i \in T : Rank(T, i) = Rank(M, Rank(S, i))
  <2>1. Composed(S, M, T)
    BY <1>1, PositionsComposed
  <2> QED
    BY <2>1 DEF Composed, m
<1>5. MissesOf(cu, h) = [k \in 1..m |-> cu[Positions(T)[k]]]
  BY <1>2, <1>3 DEF IsRow
<1> QED
  BY <1>3, <1>5 DEF S, M, T, m, Sends

\* At most one answer is about an address: `unpack_vec` refuses a second one.
LEMMA OneAnswer ==
    ASSUME NEW o, NEW n \in Nat, NEW cu, NEW h, NEW he, NEW g, Split(n, cu, h), Given(o, cu, h, he, g),
           NEW i
    PROVE  \/ AboutOf(cu, h, he, i) = {}
           \/ /\ o.geocoder = "smarty" /\ i \in SentOf(cu, h)
              /\ \E j \in Nat : AboutOf(cu, h, he, i) = {j}
<1> SUFFICES ASSUME NEW j \in AboutOf(cu, h, he, i)
             PROVE  /\ o.geocoder = "smarty" /\ i \in SentOf(cu, h)
                    /\ \E k \in Nat : AboutOf(cu, h, he, i) = {k}
  OBVIOUS
<1>1. j \in DOMAIN he /\ i \in SentOf(cu, h)
  BY DEF AboutOf
<1>2. he # <<>>
  BY <1>1
<1>3. o.geocoder = "smarty" /\ he \in Usable[Cardinality(MissedOf(h))]
      /\ Cardinality(MissedOf(h)) \in 1..(2 * GEOCODE_SIZE)
  BY <1>2 DEF Given
<1> DEFINE m == Cardinality(MissedOf(h))
<1>4. he \in Replies[m] /\ ~UnpackFails(he, m)
  BY <1>3 DEF Usable
<1>5. \E l \in 0..MaxReply : he \in [1..l -> [input_index : 0..m, fields : Answer]]
  BY <1>3, <1>4 DEF Replies, BoundedSeq, SeqOf
<1>6. DOMAIN he \subseteq Nat /\ \A k \in DOMAIN he : k >= 1
  BY <1>5, SizeAssumption
<1>7. ASSUME NEW k \in AboutOf(cu, h, he, i), NEW l \in AboutOf(cu, h, he, i), k < l
      PROVE  FALSE
  <2>1. k \in DOMAIN he /\ l \in DOMAIN he /\ he[k].input_index = he[l].input_index
    BY DEF AboutOf
  <2>2. k \in 1..(l - 1)
    BY <1>6, <1>7, <2>1
  <2> QED
    BY <1>4, <2>1, <2>2 DEF UnpackFails
<1>8. \A k \in AboutOf(cu, h, he, i) : k = j
  <2> TAKE k \in AboutOf(cu, h, he, i)
  <2>1. k \in Nat /\ j \in Nat
    BY <1>6 DEF AboutOf
  <2>2. ~(k < j) /\ ~(j < k)
    BY <1>7
  <2> QED
    BY <2>1, <2>2
<1>9. j \in Nat
  BY <1>1, <1>6
<1> QED
  BY <1>1, <1>3, <1>8, <1>9

LEMMA InnerKnown ==
    ASSUME NEW o \in Options, o.geocoder = "smarty", NEW n \in Nat, NEW cu, NEW h, NEW he, NEW g,
           Split(n, cu, h), HitsOf(o, cu, h), Given(o, cu, h, he, g), NEW i \in Valid(cu)
    PROVE  /\ KnownOf(cu, h, he, i) = {} => InnerRow(h, g, Rank(Valid(cu), i)) = None
           /\ \A x \in KnownOf(cu, h, he, i) :
                  InnerRow(h, g, Rank(Valid(cu), i)) = x /\ IsInner(o, x, cu[i])
<1> DEFINE S == Valid(cu)
           M == MissedOf(h)
           k == Rank(S, i)
           m == Rank(M, k)
           About == AboutOf(cu, h, he, i)
<1>1. k \in DOMAIN h /\ Positions(S)[k] = i
  <2>1. S \subseteq 1..n
    BY DEF Split
  <2> QED
    BY <2>1, PositionsListed DEF HitsOf
<1>2. CASE h[k] # {}
  <2>1. PICK row \in CachedRows(o, cu[i]) : h[k] = {row}
    BY <1>1, <1>2 DEF HitsOf
  <2>2. InnerRow(h, g, k) = row
    BY <1>2, <2>1 DEF InnerRow
  <2>3. row = None \/ IsInner(o, row, cu[i])
    BY <2>1, ValueColumnsInner DEF CachedRows
  <2>4. About = {}
    BY <1>2 DEF AboutOf, SentOf, MissedOf
  <2>5. KnownOf(cu, h, he, i) = {row} \ {None}
    <3> HIDE DEF About, k
    <3>1. FoundOf(cu, h, i) = {row} \ {None}
      BY <2>1 DEF FoundOf, k
    <3> QED
      BY <2>4, <3>1 DEF KnownOf, About
  <2> QED
    BY <2>2, <2>3, <2>5
<1>3. CASE h[k] = {}
  <2>1. k \in M /\ i \in SentOf(cu, h) /\ FoundOf(cu, h, i) = {}
    BY <1>1, <1>3 DEF MissedOf, SentOf, FoundOf
  <2>2. m = Rank(SentOf(cu, h), i)
    <3>1. Sends(cu, h)
      BY SentIs
    <3> QED
      BY <2>1, <3>1 DEF Sends
  <2>3. m \in 1..Cardinality(M) /\ MissesOf(cu, h)[m] = cu[i]
    BY <2>1, MissOf
  <2>4. DOMAIN MissesOf(cu, h) = 1..Cardinality(M)
    <3>1. Cardinality(M) \in Nat /\ IsRow(MissesOf(cu, h), Cardinality(M))
      BY DEF Split
    <3> QED
      BY <3>1, RowLength
  <2>5. About = {j \in DOMAIN he : he[j].input_index = m - 1}
    BY <2>1, <2>2 DEF AboutOf
  <2>6. KnownOf(cu, h, he, i) = {ValueColumns(he[j].fields, cu[i]) : j \in About}
    BY <2>1 DEF KnownOf
  <2>7. InnerRow(h, g, k) = IF m \in DOMAIN g THEN g[m] ELSE None
    BY <1>3 DEF InnerRow
  <2>8. g = SmartyResults(he, MissesOf(cu, h)) =>
          /\ m \in DOMAIN g
          /\ g[m] = IF About = {} THEN None
                    ELSE ValueColumns(he[CHOOSE j \in About : \A l \in About : l <= j].fields, cu[i])
    <3> HIDE DEF m, M, k
    <3> QED
      BY <2>3, <2>4, <2>5 DEF SmartyResults
  <2> HIDE DEF About, k, m
  <2>9. CASE About = {}
    <3>1. KnownOf(cu, h, he, i) = {}
      BY <2>6, <2>9
    <3>2. g = <<>> => m \notin DOMAIN g
      OBVIOUS
    <3>3. InnerRow(h, g, k) = None
      BY <2>7, <2>8, <2>9, <3>2 DEF Given
    <3> QED
      BY <3>1, <3>3 DEF k
  <2>10. CASE About # {}
    <3>1. PICK j \in Nat : About = {j}
      BY <2>10, OneAnswer DEF About
    <3>2. (CHOOSE l \in About : \A x \in About : x <= l) = j
      BY <3>1
    <3>3. he # <<>>
      <4>1. j \in DOMAIN he
        BY <3>1, <2>5
      <4> QED
        BY <4>1
    <3>4. g = SmartyResults(he, MissesOf(cu, h))
      BY <3>3 DEF Given
    <3>5. InnerRow(h, g, k) = ValueColumns(he[j].fields, cu[i])
      BY <2>7, <2>8, <2>10, <3>2, <3>4
    <3>6. KnownOf(cu, h, he, i) = {ValueColumns(he[j].fields, cu[i])}
      BY <2>6, <3>1
    <3> QED
      BY <3>5, <3>6, ValueColumnsInner DEF k
  <2> QED
    BY <2>9, <2>10
<1> QED
  BY <1>2, <1>3

\* The cells of Smarty's columns, in a result of the whole stack.
CellsOf(row) == [j \in DOMAIN SmartyColumns \cap DOMAIN row |-> row[j]]

\* These are the cells of base.
CellsFrom(o, base, row) ==
    /\ base = None => ToSet(CellsOf(row)) \subseteq {Blank}
    /\ base # None => CellsOf(row) = [j \in 1..Wide(o) |-> base[j]]

LEMMA CellsAre ==
    ASSUME NEW o \in Options, o.geocoder = "smarty", NEW base, NEW a, NEW row,
           base = None \/ IsRow(base, BaseWide(o)),
           row = IF o.includeLibpostal THEN Combined(o, base, Parsed(a)) ELSE base
    PROVE  CellsFrom(o, base, row)
<1> DEFINE w == Wide(o)
           b == BaseWide(o)
<1>1. w \in Nat /\ b \in Nat /\ 1..w \subseteq 1..b
  <2>1. w \in Nat /\ (b = w \/ b = w + 1)
    BY InnerColumnsAre DEF BaseWide
  <2> QED
    BY <2>1
<1>2. DOMAIN SmartyColumns = 1..w
  <2>1. DOMAIN Structure = 1..Len(Structure)
    BY StructureIsRow, RowLength
  <2> QED
    BY <2>1 DEF SmartyColumns, Wide
<1>3. CASE o.includeLibpostal
  <2>1. IsJoin(row, BasePart(o, base), b, Parsed(a), 11)
    BY <1>3, CombinedIs
  <2> HIDE DEF b, w
  <2>2. IsRow(row, b + 11) /\ \A j \in 1..b : row[j] = BasePart(o, base)[j]
    BY <2>1 DEF IsJoin
  <2>3. DOMAIN row = 1..(b + 11)
    BY <2>2 DEF IsRow
  <2>4. 1..w \subseteq 1..(b + 11)
    BY <1>1
  <2>5. CellsOf(row) = [j \in 1..w |-> BasePart(o, base)[j]]
    BY <1>1, <1>2, <2>2, <2>3, <2>4 DEF CellsOf
  <2>6. CASE base = None
    <3>1. \A j \in 1..w : BasePart(o, base)[j] = Blank
      BY <1>1, <2>6, EmptyRow DEF BasePart, b
    <3>2. DOMAIN CellsOf(row) = 1..w /\ \A j \in 1..w : CellsOf(row)[j] = Blank
      BY <2>5, <3>1
    <3> QED
      BY <2>6, <3>2 DEF ToSet, CellsFrom
  <2>7. CASE base # None
    BY <2>5, <2>7 DEF BasePart, w, CellsFrom
  <2> QED
    BY <2>6, <2>7
<1>4. CASE ~o.includeLibpostal
  <2>1. row = base
    BY <1>4
  <2>2. CASE base = None
    <3>1. DOMAIN row = {}
      BY <2>1, <2>2 DEF None
    <3>2. DOMAIN CellsOf(row) = {}
      BY <3>1 DEF CellsOf
    <3> QED
      BY <2>2, <3>2 DEF ToSet, CellsFrom
  <2>3. CASE base # None
    <3>1. DOMAIN base = 1..b
      BY <2>3 DEF IsRow
    <3> HIDE DEF w, b
    <3>2. DOMAIN SmartyColumns \cap DOMAIN row = 1..w
      BY <1>1, <1>2, <2>1, <3>1
    <3> QED
      BY <2>1, <2>3, <3>2 DEF CellsOf, w, CellsFrom
  <2> QED
    BY <2>2, <2>3
<1> QED
  BY <1>3, <1>4

\* What the i-th result says, of all that is known of the address.
LEMMA AnswerKept ==
    ASSUME NEW o \in Options, o.geocoder = "smarty", NEW n \in Nat, NEW as, NEW cu, NEW h, NEW he, NEW g,
           Split(n, cu, h), HitsOf(o, cu, h), Given(o, cu, h, he, g), NEW i \in 1..n
    PROVE  /\ KnownOf(cu, h, he, i) = {} => ToSet(CellsOf(FinalRow(o, as, cu, h, g, i))) \subseteq {Blank}
           /\ \A x \in KnownOf(cu, h, he, i) : CellsOf(FinalRow(o, as, cu, h, g, i)) = x
<1> DEFINE base == BaseRow(o, cu, h, g, i)
           row == FinalRow(o, as, cu, h, g, i)
           inner == InnerRow(h, g, Rank(Valid(cu), i))
<1>1. base = None \/ IsRow(base, BaseWide(o))
  BY BaseRowIs
<1>2. /\ base = None => ToSet(CellsOf(row)) \subseteq {Blank}
      /\ base # None => CellsOf(row) = [j \in 1..Wide(o) |-> base[j]]
  <2>1. row = IF o.includeLibpostal THEN Combined(o, base, Parsed(as[i])) ELSE base
    BY DEF FinalRow
  <2> HIDE DEF row, base
  <2>2. CellsFrom(o, base, row)
    BY <1>1, <2>1, CellsAre
  <2> QED
    BY <2>2 DEF CellsFrom
<1>3. CASE i \notin Valid(cu)
  <2>1. KnownOf(cu, h, he, i) = {} /\ base = None
    BY <1>3 DEF KnownOf, AboutOf, SentOf, FoundOf, BaseRow
  <2> QED
    BY <1>2, <2>1
<1>4. CASE i \in Valid(cu)
  <2>1. /\ KnownOf(cu, h, he, i) = {} => inner = None
        /\ \A x \in KnownOf(cu, h, he, i) : inner = x /\ IsInner(o, x, cu[i])
    BY <1>4, InnerKnown
  <2>2. base = Keyed(o, cu[i], inner) /\ (inner = None \/ IsInner(o, inner, cu[i]))
    BY <1>4, InnerRowIs DEF BaseRow
  <2> HIDE DEF base, inner, row
  <2>3. IsKeyed(o, cu[i], inner, base)
    BY <2>2, KeyedIs
  <2>4. CASE KnownOf(cu, h, he, i) = {}
    <3>1. base = None
      BY <2>1, <2>2, <2>4 DEF Keyed
    <3> QED
      BY <1>2, <2>4, <3>1 DEF row
  <2>5. ASSUME NEW x \in KnownOf(cu, h, he, i)
        PROVE  CellsOf(row) = x
    <3>1. inner = x /\ IsRow(x, Wide(o))
      BY <2>1 DEF IsInner
    <3>2. CASE inner # None
      <4>1. base = Keyed(o, cu[i], inner) /\ base # None
        BY <2>2, <2>3, <3>2 DEF IsKeyed
      <4>2. \A j \in 1..Wide(o) : base[j] = x[j]
        BY <2>3, <3>1, <3>2 DEF IsKeyed
      <4> QED
        BY <1>2, <3>1, <4>1, <4>2 DEF IsRow
    <3>3. CASE inner = None
      <4>1. base = None /\ x = <<>>
        BY <2>2, <3>1, <3>3 DEF Keyed, None
      <4>2. DOMAIN x = 1..Wide(o) /\ DOMAIN x = {} /\ Wide(o) \in Nat
        BY <3>1, <4>1, InnerColumnsAre DEF IsRow
      <4>3. DOMAIN SmartyColumns = {}
        <5>1. DOMAIN Structure = 1..Len(Structure)
          BY StructureIsRow, RowLength
        <5> QED
          BY <4>2, <5>1 DEF SmartyColumns, Wide
      <4>4. CellsOf(row) = <<>>
        BY <4>3 DEF CellsOf
      <4> QED
        BY <4>1, <4>4
    <3> QED
      BY <3>2, <3>3
  <2> QED
    BY <2>4, <2>5 DEF row
<1> QED
  BY <1>3, <1>4

-------------------------------------------------------------------------------
\* The invariant: main has stacked the columns of the layers that are there so
\* far, and a call has, at each of its stages, what the layers before it made of
\* its addresses.

\* The cell for call c is all that distinguishes g from f.
IsFun(f) == f = [c \in Calls |-> f[c]]
Put(f, g, c) == IsFun(g) /\ \A d \in Calls \ {c} : g[d] = f[d]

BootStages ==
    {"arguments", "spec", "metrics", "geocoder", "cache", "skipper",
     "normalizer", "paired", "command", "serve", "running", "report", "exited"}
PendingStages == {"idle", "normalize", "skip", "ask", "asked", "pair"}
Stages == PendingStages \cup {"done", "failed", "dropped", "responded"}

GoodBoot(o, b, names) ==
    /\ b \in BootStages
    /\ b = "cache" => o.cache /\ names = InnerColumns[o]
    /\ b \in {"skipper", "normalizer", "paired"} => names = BaseColumns[o]
    /\ b = "paired" => o.includeLibpostal
    /\ b \in {"command", "serve", "running", "report"} => names = Announced[o]

\* What the layers may have answered, those below the second geocoder or all.
OfBase(o, as, cu, h, he, r) ==
    /\ HitsOf(o, cu, h)
    /\ \E g : /\ Given(o, cu, h, he, g)
              /\ r = [i \in DOMAIN as |-> BaseRow(o, cu, h, g, i)]
OfStack(o, as, cu, h, he, r) ==
    /\ HitsOf(o, cu, h)
    /\ \E g : /\ Given(o, cu, h, he, g)
              /\ r = [i \in DOMAIN as |-> FinalRow(o, as, cu, h, g, i)]

Shape(as, cu, h, he, r, s) ==
    /\ as \in Requests \cup {<<>>} /\ IsRow(cu, Len(as))
    /\ Len(h) \in {0, Cardinality(Valid(cu))}
    /\ Len(he) <= MaxReply
    /\ Len(r) \in {0, Len(as)}
    /\ s \in {0, 200, 400, 413, 415, 422, 500}

GoodCall(o, st, as, cu, h, he, r, s) ==
    /\ Shape(as, cu, h, he, r, s) /\ st \in Stages
    /\ st = "idle" => as = <<>> /\ cu = <<>>
    /\ st = "normalize" => o.normalize /\ cu = as
    /\ st \in {"skip", "ask", "asked", "pair", "done"} \/ s = 200 => cu = Wishes(o, as)
    /\ st \in {"idle", "normalize", "skip"} => h = <<>>
    /\ st \in {"ask", "asked"} => HitsOf(o, cu, h)
    /\ st \in {"idle", "normalize", "skip", "ask", "asked"} => he = <<>> /\ r = <<>>
    /\ st = "asked" => o.geocoder = "smarty" /\ MissedOf(h) # {}
    /\ st = "pair" => o.includeLibpostal /\ OfBase(o, as, cu, h, he, r)
    /\ st = "done" \/ s = 200 => OfStack(o, as, cu, h, he, r)
    /\ s = 0 <=> st # "responded"
    /\ st = "responded" => o.server

\* Calls come when main is done with its preparations, and a server never ends.
InTime(o, b, st) ==
    st # "idle" => b \in {"running", "report", "exited"} /\ (o.server => b = "running")

FunInv ==
    /\ IsFun(stage) /\ IsFun(addresses) /\ IsFun(current) /\ IsFun(hits)
    /\ IsFun(heard) /\ IsFun(results) /\ IsFun(status)

CallOK(c) ==
    /\ GoodCall(options, stage[c], addresses[c], current[c], hits[c], heard[c],
                results[c], status[c])
    /\ InTime(options, boot, stage[c])

IInv ==
    /\ options \in Options /\ GoodBoot(options, boot, columns)
    /\ tokens \in 0..BucketSize
    /\ FunInv /\ \A c \in Calls : CallOK(c)

-------------------------------------------------------------------------------
\* What the invariant gives about a call.

LEMMA RequestIsRow ==
    ASSUME NEW r, r \in Requests \cup {<<>>}
    PROVE  Len(r) \in Nat /\ Len(r) <= 2 * GEOCODE_SIZE /\ IsRow(r, Len(r)) /\ DOMAIN r = 1..Len(r)
<1> DEFINE A == [street : Seq(STRING), city : Seq(STRING), state : Seq(STRING), zipcode : Seq(STRING)]
<1>1. r \in Seq(A) /\ Len(r) <= 2 * GEOCODE_SIZE
  <2>1. CASE r \in Requests
    BY <2>1, RequestAssumption
  <2>2. CASE r = <<>>
    BY <2>2, SizeAssumption
  <2> QED
    BY <2>1, <2>2
<1> HIDE DEF A
<1> QED
  BY <1>1, ListIsRow, LenProperties

LEMMA WishesIsRow ==
    ASSUME NEW o, NEW as, as \in Requests \cup {<<>>}
    PROVE  IsRow(Wishes(o, as), Len(as))
<1>1. DOMAIN as = 1..Len(as)
  BY RequestIsRow
<1> QED
  BY <1>1 DEF Wishes, IsRow

\* The list that the skipper gets, and its parts.
LEMMA CallSplit ==
    ASSUME NEW as, NEW cu, NEW h, as \in Requests \cup {<<>>}, IsRow(cu, Len(as)),
           DOMAIN h = 1..Cardinality(Valid(cu))
    PROVE  Split(Len(as), cu, h)
BY RequestIsRow, MissesAre

LEMMA HitsLength ==
    ASSUME NEW o, NEW as, NEW cu, NEW h, as \in Requests \cup {<<>>}, IsRow(cu, Len(as)), HitsOf(o, cu, h)
    PROVE  Split(Len(as), cu, h)
BY CallSplit DEF HitsOf

\* There are as many results as addresses.
AsMany(r, as) ==
    IsRow(r, Len(as)) /\ DOMAIN r = DOMAIN as /\ DOMAIN as = 1..Len(as) /\ Len(r) = Len(as)

LEMMA AnsweredIsRow ==
    ASSUME NEW o, NEW as, NEW cu, NEW h, NEW he, NEW r, as \in Requests \cup {<<>>},
           OfBase(o, as, cu, h, he, r) \/ OfStack(o, as, cu, h, he, r)
    PROVE  AsMany(r, as)
<1>1. Len(as) \in Nat /\ DOMAIN as = 1..Len(as)
  BY RequestIsRow
<1>2. IsRow(r, Len(as))
  BY <1>1 DEF OfBase, OfStack, IsRow
<1> QED
  BY <1>1, <1>2, RowLength DEF AsMany

LEMMA EmptyList == /\ Len(<<>>) = 0 /\ DOMAIN <<>> = {} /\ IsRow(<<>>, 0)
                   /\ Valid(<<>>) = {} /\ Cardinality({}) = 0
<1>1. Valid(<<>>) = {}
  BY DEF Valid
<1> QED
  BY <1>1, FS_EmptySet DEF IsRow

LEMMA Bucket ==
    ASSUME options \in Options
    PROVE  /\ options.limit \in Nat /\ BucketSize \in Nat
           /\ InitialTokens \in 0..BucketSize
<1> DEFINE S == {options.limit, GEOCODE_SIZE}
<1>1. options.limit \in Nat /\ GEOCODE_SIZE \in Nat
  BY OptionAssumption, SizeAssumption DEF Opt
<1>2. \E x \in S : \A y \in S : x >= y
  BY <1>1
<1>3. Max(S) \in S
  BY <1>2 DEF Max
<1> QED
  BY <1>1, <1>3 DEF InitialTokens, BucketSize

LEMMA Refilled ==
    ASSUME options \in Options, tokens \in 0..BucketSize
    PROVE  Min({tokens + options.limit, BucketSize}) \in 0..BucketSize
<1> DEFINE S == {tokens + options.limit, BucketSize}
<1>1. options.limit \in Nat /\ BucketSize \in Nat
  BY Bucket
<1> HIDE DEF BucketSize
<1>2. \E x \in S : \A y \in S : x <= y
  BY <1>1
<1>3. Min(S) \in S /\ \A y \in S : Min(S) <= y
  BY <1>2 DEF Min
<1> QED
  BY <1>1, <1>3

-------------------------------------------------------------------------------
\* main.

LEMMA StackedKey ==
    ASSUME NEW o \in Options
    PROVE  BaseColumns[o] = IF HasKey(o) THEN Append(InnerColumns[o], KeyColumn) ELSE InnerColumns[o]
<1> DEFINE w == Wide(o)
           inner == InnerColumns[o]
<1>1. w \in Nat /\ IsRow(inner, w)
  BY InnerColumnsAre
<1>2. /\ IsRow(BaseColumns[o], BaseWide(o))
      /\ \A j \in 1..w : BaseColumns[o][j] = inner[j]
      /\ HasKey(o) => BaseColumns[o][w + 1] = KeyColumn
  BY BaseColumnsAre
<1>3. BaseWide(o) = IF HasKey(o) THEN w + 1 ELSE w
  BY DEF BaseWide
<1> HIDE DEF w, inner
<1>4. CASE HasKey(o)
  <2> DEFINE r == Append(inner, KeyColumn)
  <2>1. IsJoin(r, inner, w, <<KeyColumn>>, 1)
    BY <1>1, Appended
  <2>2. IsRow(r, w + 1) /\ (\A j \in 1..w : r[j] = inner[j]) /\ r[w + 1] = KeyColumn
    <3>1. <<KeyColumn>>[1] = KeyColumn /\ 1 \in 1..1
      OBVIOUS
    <3> HIDE DEF r
    <3> QED
      BY <2>1, <3>1 DEF IsJoin
  <2> HIDE DEF r
  <2>3. \A j \in 1..(w + 1) : j \in 1..w \/ j = w + 1
    BY <1>1
  <2>4. \A j \in 1..(w + 1) : r[j] = BaseColumns[o][j]
    BY <1>2, <1>4, <2>2, <2>3
  <2>5. r = BaseColumns[o]
    BY <1>2, <1>3, <1>4, <2>2, <2>4 DEF IsRow
  <2> QED
    BY <1>4, <2>5 DEF r, inner
<1>5. CASE ~HasKey(o)
  BY <1>1, <1>2, <1>3, <1>5 DEF IsRow, inner
<1> QED
  BY <1>4, <1>5

\* What no step of main changes.
LEMMA MainKeepsCalls ==
    ASSUME Main
    PROVE  UNCHANGED <<options, perCall>>
BY DEF Main, Boot, ParseArguments, UsageError, ReadSpec, InstallMetrics, NewSmarty, InnermostStacked,
       NoCredentials, NewLibPostal, NewCache, NewSkipper, NewNormalizer, NewPaired, Prime,
       RunCommand, StartFails, ListenFails, Finish, Report

LEMMA MainBoots ==
    ASSUME IInv, Main
    PROVE  /\ GoodBoot(options, boot', columns') /\ tokens' \in 0..BucketSize
           /\ \A c \in Calls : InTime(options, boot', stage[c])
<1>1. options \in Options /\ GoodBoot(options, boot, columns) /\ tokens \in 0..BucketSize
      /\ \A c \in Calls : InTime(options, boot, stage[c])
  BY DEF IInv, CallOK
<1>2. options.geocoder \in {"smarty", "libpostal"}
  BY <1>1, OptionAssumption DEF Opt
<1>3. 0 \in 0..BucketSize /\ InitialTokens \in 0..BucketSize
  <2>1. BucketSize \in Nat
    BY <1>1, Bucket
  <2> HIDE DEF BucketSize
  <2> QED
    BY <1>1, <2>1, Bucket
<1>4. \A c \in Calls : boot \notin {"running", "report", "exited"} => stage[c] = "idle"
  BY <1>1 DEF InTime
<1>5. CASE ParseArguments \/ UsageError \/ ReadSpec \/ InstallMetrics \/ NoCredentials
  <2>1. boot \in {"arguments", "spec", "metrics", "geocoder"} /\ UNCHANGED tokens
        /\ boot' \in {"spec", "metrics", "geocoder", "exited"}
    BY <1>5 DEF ParseArguments, UsageError, ReadSpec, InstallMetrics, NoCredentials, Boot
  <2> QED
    BY <1>1, <1>4, <2>1 DEF GoodBoot, BootStages, InTime
<1>6. CASE NewSmarty \/ NewLibPostal
  <2>1. boot = "geocoder" /\ boot' = (IF options.cache THEN "cache" ELSE "skipper")
        /\ columns' = InnerColumns[options] /\ tokens' \in {0, InitialTokens}
    BY <1>1, <1>6 DEF NewSmarty, NewLibPostal, InnermostStacked, Boot, InnerColumns
  <2>2. ~options.cache => BaseColumns[options] = InnerColumns[options]
    BY <1>1, StackedKey DEF HasKey
  <2> QED
    BY <1>1, <1>3, <1>4, <2>1, <2>2 DEF GoodBoot, BootStages, InTime
<1>7. CASE NewCache
  <2>1. boot = "cache" /\ boot' = "skipper" /\ UNCHANGED tokens
        /\ columns' = IF options.outputKeys THEN Append(columns, KeyColumn) ELSE columns
    BY <1>7 DEF NewCache, Boot
  <2>2. options.cache /\ columns = InnerColumns[options]
    BY <1>1, <2>1 DEF GoodBoot
  <2>3. columns' = BaseColumns[options]
    BY <1>1, <2>1, <2>2, StackedKey DEF HasKey
  <2> QED
    BY <1>1, <1>4, <2>1, <2>3 DEF GoodBoot, BootStages, InTime
<1>8. CASE NewSkipper \/ NewNormalizer
  <2>1. boot \in {"skipper", "normalizer"} /\ UNCHANGED <<tokens, columns>>
        /\ boot' \in {"normalizer", "paired", "command"}
        /\ (boot' = "paired" => options.includeLibpostal)
        /\ (boot' = "command" => ~options.includeLibpostal)
    BY <1>8 DEF NewSkipper, NewNormalizer, Boot
  <2>2. columns = BaseColumns[options]
    BY <1>1, <2>1 DEF GoodBoot
  <2>3. ~options.includeLibpostal => Announced[options] = BaseColumns[options]
    BY <1>1, AnnouncedAre
  <2> QED
    BY <1>1, <1>4, <2>1, <2>2, <2>3 DEF GoodBoot, BootStages, InTime
<1>9. CASE NewPaired
  <2>1. boot = "paired" /\ boot' = "command" /\ UNCHANGED tokens
        /\ columns' = columns \o [i \in DOMAIN Components |-> <<"libpostal", Components[i]>>]
    BY <1>9 DEF NewPaired, Boot
  <2>2. options.includeLibpostal /\ columns = BaseColumns[options]
    BY <1>1, <2>1 DEF GoodBoot
  <2>3. columns' = Announced[options]
    BY <1>1, <2>1, <2>2 DEF Announced
  <2> QED
    BY <1>1, <1>4, <2>1, <2>3 DEF GoodBoot, BootStages, InTime
<1>10. CASE Prime \/ RunCommand \/ StartFails \/ ListenFails
  <2>1. /\ boot \in {"spec", "metrics", "cache", "command", "serve"}
        /\ UNCHANGED <<tokens, columns>>
        /\ boot' = "exited" \/ (boot \in {"command", "serve"} /\ boot' \in {"serve", "running", "report"})
    BY <1>10 DEF Prime, RunCommand, StartFails, ListenFails, Boot
  <2>2. boot' # "exited" => columns = Announced[options]
    BY <1>1, <2>1 DEF GoodBoot
  <2> QED
    BY <1>1, <1>4, <2>1, <2>2 DEF GoodBoot, BootStages, InTime
<1>11. CASE Finish
  <2>1. boot = "running" /\ boot' = "report" /\ UNCHANGED <<tokens, columns>> /\ ~options.server
    BY <1>11 DEF Finish, Boot
  <2> QED
    BY <1>1, <2>1 DEF GoodBoot, BootStages, InTime
<1>12. CASE Report
  <2>1. boot = "report" /\ boot' = "exited" /\ UNCHANGED <<tokens, columns>>
    BY <1>12 DEF Report, Boot
  <2> QED
    BY <1>1, <2>1 DEF GoodBoot, BootStages, InTime
<1> QED
  BY <1>5, <1>6, <1>7, <1>8, <1>9, <1>10, <1>11, <1>12 DEF Main

-------------------------------------------------------------------------------
\* The steps of a call: what they leave alone, and what the call has after them.

Frame(c) ==
    /\ UNCHANGED <<options, boot, columns>>
    /\ Put(stage, stage', c) /\ Put(addresses, addresses', c) /\ Put(current, current', c)
    /\ Put(hits, hits', c) /\ Put(heard, heard', c) /\ Put(results, results', c)
    /\ Put(status, status', c)

\* How a call may go on.
Turns(st, st2, r, r2, s2) ==
    \/ st \in PendingStages /\ st2 \in PendingStages \cup {"done", "failed", "dropped"}
    \/ st = "idle" /\ st2 = "responded" /\ s2 >= 400
    \/ st = "done" /\ st2 = "responded" /\ s2 = 200 /\ r2 = r
    \/ st = "failed" /\ st2 = "responded" /\ s2 = 500

Moves(c) ==
    /\ GoodCall(options, stage'[c], addresses'[c], current'[c], hits'[c], heard'[c],
                results'[c], status'[c])
    /\ Turns(stage[c], stage'[c], results[c], results'[c], status'[c])
    /\ stage[c] = "idle" => boot = "running"
    /\ \/ addresses' = addresses
       \/ /\ stage[c] = "idle" /\ stage'[c] \in PendingStages /\ addresses[c] = <<>>
          /\ \E r \in Requests : addresses' = [addresses EXCEPT ![c] = r]

LEMMA PutSet ==
    ASSUME NEW f, NEW g, IsFun(f), NEW c \in Calls, NEW v, g = [f EXCEPT ![c] = v]
    PROVE  Put(f, g, c) /\ g[c] = v
BY DEF IsFun, Put

LEMMA PutSame ==
    ASSUME NEW f, IsFun(f), NEW c
    PROVE  Put(f, f, c)
BY DEF Put

\* A step that only moves on, or that sets one more variable.
LEMMA FrameGoto ==
    ASSUME FunInv, NEW c \in Calls, NEW s, Goto(c, s)
    PROVE  Put(stage, stage', c) /\ stage'[c] = s
BY PutSet DEF FunInv, Goto

LEMMA FailFrame ==
    ASSUME FunInv, NEW c \in Calls,
           Fail(c) \/ Drop(c)
    PROVE  /\ Frame(c) /\ stage'[c] \in {"failed", "dropped"} /\ UNCHANGED tokens
           /\ UNCHANGED <<addresses, current, hits, heard, results, status>>
<1>1. /\ stage' = [stage EXCEPT ![c] = stage'[c]] /\ stage'[c] \in {"failed", "dropped"}
      /\ UNCHANGED <<options, boot, columns, tokens, addresses, current, hits, heard, results, status>>
  <2>1. Goto(c, "failed") \/ Goto(c, "dropped")
    BY DEF Fail, Drop
  <2>2. stage'[c] \in {"failed", "dropped"}
    BY <2>1, FrameGoto
  <2> QED
    BY <2>1, <2>2, FrameGoto DEF Fail, Drop, program, Goto
<1> QED
  BY <1>1, PutSet, PutSame DEF Frame, FunInv

\* A call that fails or is dropped was pending.
LEMMA FailMoves ==
    ASSUME IInv, NEW c \in Calls, Fail(c) \/ Drop(c), stage[c] \in PendingStages \ {"idle"}
    PROVE  Frame(c) /\ Moves(c) /\ UNCHANGED tokens
<1>1. /\ Frame(c) /\ stage'[c] \in {"failed", "dropped"} /\ UNCHANGED tokens
      /\ UNCHANGED <<addresses, current, hits, heard, results, status>>
  BY FailFrame DEF IInv
<1>2. GoodCall(options, stage[c], addresses[c], current[c], hits[c], heard[c], results[c], status[c])
  BY DEF IInv, CallOK
<1>3. Shape(addresses[c], current[c], hits[c], heard[c], results[c], status[c]) /\ status[c] = 0
  BY <1>2 DEF GoodCall, PendingStages
<1>4. GoodCall(options, stage'[c], addresses[c], current[c], hits[c], heard[c], results[c], status[c])
  BY <1>1, <1>3 DEF GoodCall, Stages
<1> QED
  BY <1>1, <1>4 DEF Moves, Turns

\* The results of the base geocoder are there.
LEMMA BaseAnswered ==
    ASSUME NEW o \in Options, NEW as, as \in Requests \cup {<<>>}, NEW cu, NEW h, NEW he, NEW g, NEW r,
           HitsOf(o, cu, h), Given(o, cu, h, he, g),
           r = [i \in 1..Len(as) |-> BaseRow(o, cu, h, g, i)]
    PROVE  /\ OfBase(o, as, cu, h, he, r)
           /\ ~o.includeLibpostal => OfStack(o, as, cu, h, he, r)
<1>1. DOMAIN as = 1..Len(as)
  BY RequestIsRow
<1>2. r = [i \in DOMAIN as |-> BaseRow(o, cu, h, g, i)]
  BY <1>1
<1>3. OfBase(o, as, cu, h, he, r)
  BY <1>2 DEF OfBase
<1>4. CASE ~o.includeLibpostal
  <2>1. r = [i \in DOMAIN as |-> FinalRow(o, as, cu, h, g, i)]
    BY <1>2, <1>4 DEF FinalRow
  <2>2. OfStack(o, as, cu, h, he, r)
    BY <2>1 DEF OfStack
  <2> QED
    BY <1>3, <2>2
<1> QED
  BY <1>3, <1>4

\* And those of the second geocoder.
LEMMA PairAnswered ==
    ASSUME NEW o \in Options, o.includeLibpostal, NEW as, as \in Requests \cup {<<>>},
           NEW cu, NEW h, NEW he, NEW r, NEW r2,
           OfBase(o, as, cu, h, he, r),
           r2 = [i \in DOMAIN r |-> Combined(o, r[i], Parsed(as[i]))]
    PROVE  OfStack(o, as, cu, h, he, r2)
<1>1. DOMAIN r = DOMAIN as
  <2>1. AsMany(r, as)
    BY AnsweredIsRow
  <2> QED
    BY <2>1 DEF AsMany
<1>2. PICK g : Given(o, cu, h, he, g) /\ r = [i \in DOMAIN as |-> BaseRow(o, cu, h, g, i)]
  BY DEF OfBase
<1>3. \A i \in DOMAIN as : r[i] = BaseRow(o, cu, h, g, i)
  BY <1>2
<1>4. r2 = [i \in DOMAIN as |-> FinalRow(o, as, cu, h, g, i)]
  BY <1>1, <1>3 DEF FinalRow
<1> QED
  BY <1>2, <1>4 DEF OfStack, OfBase

\* The steps that return: the hits and answers g are put where they belong.
LEMMA ReturnMoves ==
    ASSUME IInv, NEW c \in Calls, stage[c] \in {"skip", "ask", "asked"},
           stage'[c] = IF options.includeLibpostal THEN "pair" ELSE "done",
           NEW he, NEW g, Len(he) <= MaxReply,
           HitsOf(options, current[c], hits[c]), Given(options, current[c], hits[c], he, g),
           UNCHANGED <<options, addresses, current, hits, status>>, heard'[c] = he,
           results'[c] = [i \in 1..Len(addresses[c]) |-> BaseRow(options, current[c], hits[c], g, i)]
    PROVE  Moves(c)
<1>1. PICK o, as, cu, h, st, r, s :
          /\ o = options /\ as = addresses[c] /\ cu = current[c] /\ h = hits[c]
          /\ st = stage'[c] /\ r = results'[c] /\ s = status[c]
  OBVIOUS
<1>2. o \in Options /\ GoodCall(o, stage[c], as, cu, h, heard[c], results[c], s)
  BY <1>1 DEF IInv, CallOK
<1>3. /\ as \in Requests \cup {<<>>} /\ IsRow(cu, Len(as)) /\ cu = Wishes(o, as) /\ s = 0
      /\ Len(h) \in {0, Cardinality(Valid(cu))}
  BY <1>2 DEF GoodCall, Shape
<1>4. HitsOf(o, cu, h) /\ Given(o, cu, h, he, g) /\ r = [i \in 1..Len(as) |-> BaseRow(o, cu, h, g, i)]
  BY <1>1
<1>5. /\ OfBase(o, as, cu, h, he, r)
      /\ ~o.includeLibpostal => OfStack(o, as, cu, h, he, r)
  BY <1>2, <1>3, <1>4, BaseAnswered
<1>6. Len(r) = Len(as)
  <2>1. AsMany(r, as)
    BY <1>3, <1>5, AnsweredIsRow
  <2> QED
    BY <2>1 DEF AsMany
<1>7. Shape(as, cu, h, he, r, s)
  BY <1>3, <1>6 DEF Shape
<1>8. st = IF o.includeLibpostal THEN "pair" ELSE "done"
  BY <1>1
<1>9. GoodCall(o, st, as, cu, h, he, r, s)
  <2>1. CASE o.includeLibpostal
    <3>1. st = "pair"
      BY <1>8, <2>1
    <3>2. OfBase(o, as, cu, h, he, r)
      BY <1>5
    <3>3. st = "pair" => o.includeLibpostal /\ OfBase(o, as, cu, h, he, r)
      BY <2>1, <3>2
    <3>4. st \in Stages /\ st \notin {"idle", "normalize", "skip", "ask", "asked", "done", "responded"}
      BY <3>1 DEF Stages, PendingStages
    <3>5. s # 200 /\ (s = 0 <=> st # "responded") /\ cu = Wishes(o, as)
      BY <1>3, <3>1
    <3> QED
      BY <1>7, <3>3, <3>4, <3>5 DEF GoodCall
  <2>2. CASE ~o.includeLibpostal
    <3>1. st = "done"
      BY <1>8, <2>2
    <3> QED
      BY <1>3, <1>5, <1>7, <2>2, <3>1 DEF GoodCall, Stages, PendingStages
  <2> QED
    BY <2>1, <2>2
<1>10. Turns(stage[c], stage'[c], results[c], results'[c], status'[c])
  BY DEF Turns, PendingStages
<1> QED
  BY <1>1, <1>9, <1>10 DEF Moves

\* What a call is about, before a step.
LEMMA Known ==
    ASSUME IInv, NEW c \in Calls
    PROVE  /\ FunInv /\ options \in Options /\ tokens \in 0..BucketSize
           /\ GoodCall(options, stage[c], addresses[c], current[c], hits[c], heard[c],
                       results[c], status[c])
           /\ Shape(addresses[c], current[c], hits[c], heard[c], results[c], status[c])
           /\ addresses[c] \in Requests \cup {<<>>} /\ IsRow(current[c], Len(addresses[c]))
BY DEF IInv, CallOK, GoodCall, Shape

LEMMA ArriveMoves ==
    ASSUME IInv, NEW c \in Calls, Arrive(c)
    PROVE  Frame(c) /\ Moves(c) /\ UNCHANGED tokens
<1>0. FunInv
  BY Known
<1>1. /\ GoodCall(options, stage[c], addresses[c], current[c], hits[c], heard[c],
                   results[c], status[c])
  BY Known
<1>2. PICK r \in Requests : /\ addresses' = [addresses EXCEPT ![c] = r]
                            /\ current' = [current EXCEPT ![c] = r]
  BY DEF Arrive
<1>3. /\ stage[c] = "idle" /\ boot = "running"
      /\ stage' = [stage EXCEPT ![c] = IF options.normalize THEN "normalize" ELSE "skip"]
      /\ UNCHANGED <<options, boot, columns, tokens, hits, heard, results, status>>
  BY DEF Arrive, Goto, program
<1>4. /\ Frame(c) /\ addresses'[c] = r /\ current'[c] = r
      /\ stage'[c] = IF options.normalize THEN "normalize" ELSE "skip"
  BY <1>0, <1>2, <1>3 DEF Frame, FunInv, Put, IsFun
<1>5. hits[c] = <<>> /\ heard[c] = <<>> /\ results[c] = <<>> /\ status[c] = 0 /\ addresses[c] = <<>>
  BY <1>1, <1>3 DEF GoodCall
<1>6. IsRow(r, Len(r))
  BY RequestIsRow
<1>7. Shape(r, r, <<>>, <<>>, <<>>, 0)
  BY <1>6, EmptyList, SizeAssumption DEF Shape
<1>8. ~options.normalize => r = Wishes(options, r)
  <2>1. DOMAIN r = 1..Len(r)
    BY RequestIsRow
  <2> QED
    BY <1>6, <2>1 DEF Wishes, Wanted, IsRow
<1>9. GoodCall(options, stage'[c], r, r, <<>>, <<>>, <<>>, 0)
  <2>1. CASE options.normalize
    <3>1. stage'[c] = "normalize"
      BY <1>4, <2>1
    <3> QED
      BY <1>7, <2>1, <3>1 DEF GoodCall, Stages, PendingStages
  <2>2. CASE ~options.normalize
    <3>1. stage'[c] = "skip"
      BY <1>4, <2>2
    <3> QED
      BY <1>7, <1>8, <2>2, <3>1 DEF GoodCall, Stages, PendingStages
  <2> QED
    BY <2>1, <2>2
<1>10. Turns(stage[c], stage'[c], results[c], results'[c], status'[c]) /\ stage'[c] \in PendingStages
  BY <1>3, <1>4 DEF Turns, PendingStages
<1> QED
  BY <1>2, <1>3, <1>4, <1>5, <1>9, <1>10 DEF Moves

RefusalCodes == {400, 413, 415, 422}

LEMMA BadRequestMoves ==
    ASSUME IInv, NEW c \in Calls, BadRequest(c)
    PROVE  Frame(c) /\ Moves(c) /\ UNCHANGED tokens
<1>0. FunInv
  BY Known
<1>1. /\ GoodCall(options, stage[c], addresses[c], current[c], hits[c], heard[c],
                   results[c], status[c])
      /\ Shape(addresses[c], current[c], hits[c], heard[c], results[c], status[c])
  BY Known
<1>2. PICK s \in RefusalCodes : status' = [status EXCEPT ![c] = s]
  <2>1. PICK contentType \in ContentTypes, body \in Bodies :
            status' = [status EXCEPT ![c] = Refusal(contentType, body)]
    BY DEF BadRequest
  <2>2. Refusal(contentType, body) \in RefusalCodes
    BY DEF Refusal, RefusalCodes
  <2> QED
    BY <2>1, <2>2
<1>3. /\ stage[c] = "idle" /\ boot = "running" /\ options.server
      /\ stage' = [stage EXCEPT ![c] = "responded"]
      /\ UNCHANGED <<options, boot, columns, tokens, addresses, current, hits, heard, results>>
  BY DEF BadRequest, Goto, program
<1>4. Frame(c) /\ status'[c] = s /\ stage'[c] = "responded"
  <2>1. Put(status, status', c) /\ status'[c] = s
    BY <1>0, <1>2, PutSet DEF FunInv
  <2>2. Put(stage, stage', c) /\ stage'[c] = "responded"
    BY <1>0, FrameGoto DEF BadRequest
  <2> QED
    BY <1>0, <1>3, <2>1, <2>2, PutSame DEF Frame, FunInv
<1>5. Shape(addresses[c], current[c], hits[c], heard[c], results[c], s)
  BY <1>1, <1>2 DEF Shape, RefusalCodes
<1>6. GoodCall(options, "responded", addresses[c], current[c], hits[c], heard[c], results[c], s)
  BY <1>2, <1>3, <1>5 DEF RefusalCodes, GoodCall, Stages
<1>7. Turns(stage[c], stage'[c], results[c], results'[c], status'[c])
  BY <1>2, <1>3, <1>4 DEF Turns, RefusalCodes
<1> QED
  BY <1>3, <1>4, <1>6, <1>7 DEF Moves

LEMMA NormalizeMoves ==
    ASSUME IInv, NEW c \in Calls, Normalize(c)
    PROVE  Frame(c) /\ Moves(c) /\ UNCHANGED tokens
<1>0. FunInv
  BY Known
<1>1. /\ GoodCall(options, stage[c], addresses[c], current[c], hits[c], heard[c],
                   results[c], status[c])
      /\ Shape(addresses[c], current[c], hits[c], heard[c], results[c], status[c])
      /\ addresses[c] \in Requests \cup {<<>>}
  BY Known
<1>2. PICK cu : /\ cu = [i \in DOMAIN current[c] |-> NormalizedToAddress(Parsed(current[c][i]))]
                /\ current' = [current EXCEPT ![c] = cu]
  BY DEF Normalize
<1>3. /\ stage[c] = "normalize" /\ stage' = [stage EXCEPT ![c] = "skip"]
      /\ UNCHANGED <<options, boot, columns, tokens, addresses, hits, heard, results, status>>
  BY DEF Normalize, Goto, program
<1>4. Frame(c) /\ current'[c] = cu /\ stage'[c] = "skip"
  BY <1>0, <1>2, <1>3 DEF Frame, FunInv, Put, IsFun
<1>5. /\ hits[c] = <<>> /\ heard[c] = <<>> /\ results[c] = <<>> /\ status[c] = 0
      /\ options.normalize /\ current[c] = addresses[c]
  BY <1>1, <1>3 DEF GoodCall
<1>6. cu = Wishes(options, addresses[c])
  BY <1>2, <1>5 DEF Wishes, Wanted
<1>7. IsRow(cu, Len(addresses[c]))
  BY <1>1, <1>6, WishesIsRow
<1>8. Shape(addresses[c], cu, <<>>, <<>>, <<>>, 0)
  BY <1>1, <1>7, EmptyList, SizeAssumption DEF Shape
<1>9. GoodCall(options, "skip", addresses[c], cu, <<>>, <<>>, <<>>, 0)
  BY <1>6, <1>8 DEF GoodCall, Stages, PendingStages
<1>10. Turns(stage[c], stage'[c], results[c], results'[c], status'[c])
  BY <1>3, <1>4 DEF Turns, PendingStages
<1> QED
  BY <1>3, <1>4, <1>5, <1>9, <1>10 DEF Moves

LEMMA LookupMoves ==
    ASSUME IInv, NEW c \in Calls, Lookup(c)
    PROVE  Frame(c) /\ Moves(c) /\ UNCHANGED tokens
<1> DEFINE as == ValidAddresses(current[c])
           v == Cardinality(Valid(current[c]))
<1>0. FunInv
  BY Known
<1>1. /\ GoodCall(options, stage[c], addresses[c], current[c], hits[c], heard[c],
                   results[c], status[c])
      /\ Shape(addresses[c], current[c], hits[c], heard[c], results[c], status[c])
      /\ addresses[c] \in Requests \cup {<<>>} /\ IsRow(current[c], Len(addresses[c]))
  BY Known
<1>2. PICK h : /\ h \in (IF options.cache THEN Lookups(as) ELSE {[k \in DOMAIN as |-> {}]})
               /\ hits' = [hits EXCEPT ![c] = h]
  BY DEF Lookup
<1>3. /\ stage[c] = "skip" /\ stage' = [stage EXCEPT ![c] = "ask"]
      /\ UNCHANGED <<options, boot, columns, tokens, addresses, current, heard, results, status>>
  BY DEF Lookup, Goto, program
<1>4. Frame(c) /\ hits'[c] = h /\ stage'[c] = "ask"
  BY <1>0, <1>2, <1>3 DEF Frame, FunInv, Put, IsFun
<1>5. /\ heard[c] = <<>> /\ results[c] = <<>> /\ status[c] = 0
      /\ current[c] = Wishes(options, addresses[c])
  BY <1>1, <1>3 DEF GoodCall
<1>6. /\ v \in Nat /\ DOMAIN as = 1..v
      /\ \A k \in 1..v : as[k] = current[c][Positions(Valid(current[c]))[k]]
  <2>1. Len(addresses[c]) \in Nat
    BY <1>1, RequestIsRow
  <2>2. DOMAIN [k \in 1..v |-> {}] = 1..v
    OBVIOUS
  <2>3. Split(Len(addresses[c]), current[c], [k \in 1..v |-> {}])
    <3> DEFINE e == [k \in 1..v |-> {}]
    <3> HIDE DEF e
    <3>1. DOMAIN e = 1..v
      BY <2>2 DEF e
    <3>2. Split(Len(addresses[c]), current[c], e)
      BY <1>1, <3>1, CallSplit
    <3> QED
      BY <3>2 DEF e
  <2>4. v \in 0..Len(addresses[c]) /\ IsRow(as, v)
        /\ \A k \in 1..v : as[k] = current[c][Positions(Valid(current[c]))[k]]
    BY <2>3 DEF Split
  <2>5. v \in Nat
    BY <2>1, <2>4
  <2> HIDE DEF v, as
  <2> QED
    BY <2>4, <2>5, RowLength
<1>7. HitsOf(options, current[c], h)
  <2>1. CASE options.cache
    <3> DEFINE found == {{row} : row \in UNION {MayBeCached(a) : a \in ToSet(as)}}
    <3>1. h \in [DOMAIN as -> found \cup {{}}] /\ \A k \in DOMAIN as : h[k] \subseteq MayBeCached(as[k])
      BY <1>2, <2>1 DEF Lookups
    <3>2. \A k \in DOMAIN as : MayBeCached(as[k]) = CachedRows(options, as[k])
      BY DEF MayBeCached, CachedRows
    <3> HIDE DEF as, v
    <3>3. \A k \in 1..v : h[k] = {} \/ \E row \in CachedRows(options, as[k]) : h[k] = {row}
      <4> TAKE k \in 1..v
      <4>1. h[k] \in found \cup {{}} /\ h[k] \subseteq CachedRows(options, as[k])
        <5>1. k \in DOMAIN as
          BY <1>6
        <5>2. MayBeCached(as[k]) = CachedRows(options, as[k])
          BY <3>2, <5>1
        <5> HIDE DEF found
        <5>3. h[k] \in found \cup {{}} /\ h[k] \subseteq MayBeCached(as[k])
          BY <3>1, <5>1
        <5> QED
          BY <5>2, <5>3
      <4>2. CASE h[k] \in found
        <5>1. PICK row : h[k] = {row}
          BY <4>2
        <5> QED
          BY <4>1, <5>1
      <4> QED
        BY <4>1, <4>2
    <3> QED
      BY <1>6, <3>1, <3>3 DEF HitsOf, v
  <2>2. CASE ~options.cache
    <3>1. h = [k \in 1..v |-> {}]
      BY <1>2, <1>6, <2>2
    <3> QED
      BY <3>1 DEF HitsOf
  <2> QED
    BY <2>1, <2>2
<1>8. Len(h) = v
  <2>1. h = [k \in 1..v |-> h[k]]
    <3>1. DOMAIN h = 1..v
      BY <1>7 DEF HitsOf
    <3>2. CASE options.cache
      BY <1>2, <1>6, <3>2 DEF Lookups
    <3>3. CASE ~options.cache
      BY <1>2, <1>6, <3>3
    <3> QED
      BY <3>2, <3>3
  <2> HIDE DEF v
  <2> QED
    BY <1>6, <2>1, RowLength DEF IsRow
<1>9. Shape(addresses[c], current[c], h, <<>>, <<>>, 0)
  BY <1>1, <1>8, EmptyList, SizeAssumption DEF Shape
<1>10. GoodCall(options, "ask", addresses[c], current[c], h, <<>>, <<>>, 0)
  BY <1>5, <1>7, <1>9 DEF GoodCall, Stages, PendingStages
<1>11. Turns(stage[c], stage'[c], results[c], results'[c], status'[c])
  BY <1>3, <1>4 DEF Turns, PendingStages
<1> QED
  BY <1>3, <1>4, <1>5, <1>10, <1>11 DEF Moves

\* The steps that return have results for every address, from the answers g.
LEMMA ReturnFrame ==
    ASSUME IInv, NEW c \in Calls, Return(c), NEW r, results' = [results EXCEPT ![c] = r],
           UNCHANGED <<program, tokens, addresses, current, hits, heard, status>>
    PROVE  /\ Frame(c) /\ results'[c] = r
           /\ stage'[c] = IF options.includeLibpostal THEN "pair" ELSE "done"
<1>1. FunInv
  BY Known
<1>2. Put(stage, stage', c) /\ stage'[c] = IF options.includeLibpostal THEN "pair" ELSE "done"
  BY <1>1, FrameGoto DEF Return
<1>3. Put(results, results', c) /\ results'[c] = r
  BY <1>1, PutSet DEF FunInv
<1> QED
  BY <1>1, <1>2, <1>3, PutSame DEF Frame, FunInv, program

LEMMA SkipAllMoves ==
    ASSUME IInv, NEW c \in Calls, SkipAll(c)
    PROVE  Frame(c) /\ Moves(c) /\ UNCHANGED tokens
<1>1. /\ GoodCall(options, stage[c], addresses[c], current[c], hits[c], heard[c],
                  results[c], status[c])
      /\ addresses[c] \in Requests \cup {<<>>} /\ IsRow(current[c], Len(addresses[c]))
  BY Known
<1>2. /\ stage[c] = "skip" /\ Valid(current[c]) = {} /\ Return(c)
      /\ results' = [results EXCEPT ![c] = Restore(current[c], <<>>)]
      /\ UNCHANGED <<program, tokens, addresses, current, hits, heard, status>>
  BY DEF SkipAll
<1>3. /\ Frame(c) /\ results'[c] = Restore(current[c], <<>>)
      /\ stage'[c] = IF options.includeLibpostal THEN "pair" ELSE "done"
  BY <1>2, ReturnFrame
<1>4. hits[c] = <<>> /\ heard[c] = <<>>
  BY <1>1, <1>2 DEF GoodCall
<1>5. HitsOf(options, current[c], hits[c])
  <2>1. 1..0 = {}
    OBVIOUS
  <2> QED
    BY <1>2, <1>4, <2>1, EmptyList DEF HitsOf
<1>6. Restore(current[c], <<>>) =
          [i \in 1..Len(addresses[c]) |-> BaseRow(options, current[c], hits[c], <<>>, i)]
  <2>1. Len(addresses[c]) \in Nat
    BY <1>1, RequestIsRow
  <2>2. Valid(current[c]) = {}
    BY <1>2
  <2>3. AreRows(options, Len(addresses[c]), current[c], hits[c], <<>>, Restore(current[c], <<>>))
    BY <1>1, <2>1, <2>2, NothingAsked
  <2> QED
    BY <2>3 DEF AreRows
<1>7. Given(options, current[c], hits[c], heard[c], <<>>) /\ Len(heard[c]) <= MaxReply
  BY <1>4, EmptyList, SizeAssumption DEF Given
<1>8. UNCHANGED <<options, addresses, current, hits, status>> /\ heard'[c] = heard[c]
  BY <1>2 DEF program
<1>9. Moves(c)
  BY <1>2, <1>3, <1>5, <1>6, <1>7, <1>8, ReturnMoves
<1> QED
  BY <1>2, <1>3, <1>9

\* The hits and the answers to the misses.
LEMMA RestoredIs ==
    ASSUME IInv, NEW c \in Calls, HitsOf(options, current[c], hits[c]), NEW he, NEW g,
           Given(options, current[c], hits[c], he, g)
    PROVE  Restore(current[c], CacheResults(c, g)) =
               [i \in 1..Len(addresses[c]) |-> BaseRow(options, current[c], hits[c], g, i)]
<1>1. addresses[c] \in Requests \cup {<<>>} /\ IsRow(current[c], Len(addresses[c]))
  BY Known
<1>2. Len(addresses[c]) \in Nat
  BY <1>1, RequestIsRow
<1>3. Split(Len(addresses[c]), current[c], hits[c])
  BY <1>1, HitsLength
<1>4. DOMAIN g \subseteq 1..Cardinality(MissedOf(hits[c]))
  BY <1>2, <1>3, GivenDomain
<1>5. DOMAIN hits[c] = 1..Cardinality(Valid(current[c]))
  BY DEF HitsOf
<1> QED
  BY <1>1, <1>2, <1>4, <1>5, CacheResultsAre

LEMMA MissesOfCall ==
    ASSUME NEW c \in Calls
    PROVE  Missed(c) = MissedOf(hits[c]) /\ CacheMisses(c) = MissesOf(current[c], hits[c])
BY DEF Missed, MissedOf, CacheMisses, MissesOf

LEMMA AnswerFromCacheMoves ==
    ASSUME IInv, NEW c \in Calls, AnswerFromCache(c)
    PROVE  Frame(c) /\ Moves(c) /\ UNCHANGED tokens
<1>1. GoodCall(options, stage[c], addresses[c], current[c], hits[c], heard[c],
               results[c], status[c])
  BY Known
<1>2. /\ stage[c] = "ask" /\ Return(c)
      /\ results' = [results EXCEPT ![c] = Restore(current[c], CacheResults(c, <<>>))]
      /\ UNCHANGED <<program, tokens, addresses, current, hits, heard, status>>
  BY DEF AnswerFromCache
<1>3. /\ Frame(c) /\ results'[c] = Restore(current[c], CacheResults(c, <<>>))
      /\ stage'[c] = IF options.includeLibpostal THEN "pair" ELSE "done"
  BY <1>2, ReturnFrame
<1>4. HitsOf(options, current[c], hits[c]) /\ heard[c] = <<>>
  BY <1>1, <1>2 DEF GoodCall
<1>5. Given(options, current[c], hits[c], heard[c], <<>>) /\ Len(heard[c]) <= MaxReply
  BY <1>4, EmptyList, SizeAssumption DEF Given
<1>6. Restore(current[c], CacheResults(c, <<>>)) =
          [i \in 1..Len(addresses[c]) |-> BaseRow(options, current[c], hits[c], <<>>, i)]
  BY <1>4, <1>5, RestoredIs
<1>7. UNCHANGED <<options, addresses, current, hits, status>> /\ heard'[c] = heard[c]
  BY <1>2 DEF program
<1>8. Moves(c)
  BY <1>2, <1>3, <1>4, <1>5, <1>6, <1>7, ReturnMoves
<1> QED
  BY <1>2, <1>3, <1>8

LEMMA ParseValidMoves ==
    ASSUME IInv, NEW c \in Calls, ParseValid(c)
    PROVE  Frame(c) /\ Moves(c) /\ UNCHANGED tokens
<1>1. GoodCall(options, stage[c], addresses[c], current[c], hits[c], heard[c],
               results[c], status[c])
  BY Known
<1>2. PICK g : g = [k \in DOMAIN CacheMisses(c) |-> Parsed(CacheMisses(c)[k])]
  OBVIOUS
<1>3. /\ stage[c] = "ask" /\ options.geocoder = "libpostal" /\ Return(c)
      /\ results' = [results EXCEPT ![c] = Restore(current[c], CacheResults(c, g))]
      /\ UNCHANGED <<program, tokens, addresses, current, hits, heard, status>>
  BY <1>2 DEF ParseValid, Asks
<1>4. /\ Frame(c) /\ results'[c] = Restore(current[c], CacheResults(c, g))
      /\ stage'[c] = IF options.includeLibpostal THEN "pair" ELSE "done"
  BY <1>3, ReturnFrame
<1>5. HitsOf(options, current[c], hits[c]) /\ heard[c] = <<>>
  BY <1>1, <1>3 DEF GoodCall
<1>6. Given(options, current[c], hits[c], heard[c], g) /\ Len(heard[c]) <= MaxReply
  BY <1>2, <1>3, <1>5, EmptyList, SizeAssumption, MissesOfCall DEF Given
<1>7. Restore(current[c], CacheResults(c, g)) =
          [i \in 1..Len(addresses[c]) |-> BaseRow(options, current[c], hits[c], g, i)]
  BY <1>5, <1>6, RestoredIs
<1>8. UNCHANGED <<options, addresses, current, hits, status>> /\ heard'[c] = heard[c]
  BY <1>3 DEF program
<1>9. Moves(c)
  BY <1>3, <1>4, <1>5, <1>6, <1>7, <1>8, ReturnMoves
<1> QED
  BY <1>3, <1>4, <1>9

\* How many addresses are missed.
LEMMA MissedCount ==
    ASSUME IInv, NEW c \in Calls, stage[c] \in {"ask", "asked"}
    PROVE  /\ Cardinality(Missed(c)) \in 0..(2 * GEOCODE_SIZE)
           /\ Missed(c) # {} => Cardinality(Missed(c)) \in 1..(2 * GEOCODE_SIZE)
<1>1. /\ GoodCall(options, stage[c], addresses[c], current[c], hits[c], heard[c],
                  results[c], status[c])
      /\ addresses[c] \in Requests \cup {<<>>} /\ IsRow(current[c], Len(addresses[c]))
  BY Known
<1>2. HitsOf(options, current[c], hits[c])
  BY <1>1 DEF GoodCall
<1>3. Split(Len(addresses[c]), current[c], hits[c])
  BY <1>1, <1>2, HitsLength
<1> DEFINE M == MissedOf(hits[c])
           n == Len(addresses[c])
<1>4. n \in Nat /\ n <= 2 * GEOCODE_SIZE
  BY <1>1, RequestIsRow
<1>5. /\ Cardinality(M) \in 0..n /\ M \subseteq 1..Cardinality(Valid(current[c]))
      /\ Cardinality(Valid(current[c])) \in 0..n
  BY <1>3 DEF Split
<1>6. M # {} => Cardinality(M) # 0
  <2> DEFINE v == Cardinality(Valid(current[c]))
  <2>1. v \in Nat
    BY <1>4, <1>5
  <2>2. M \subseteq 1..v
    BY <1>5
  <2> HIDE DEF v, M
  <2>3. IsFiniteSet(M)
    BY <2>1, <2>2, RankType
  <2> QED
    BY <2>3, FS_EmptySet
<1> HIDE DEF n
<1>7. Cardinality(M) \in 0..(2 * GEOCODE_SIZE)
  BY <1>4, <1>5, SizeAssumption
<1>8. M # {} => Cardinality(M) \in 1..(2 * GEOCODE_SIZE)
  BY <1>6, <1>7, SizeAssumption
<1> QED
  BY <1>7, <1>8, MissesOfCall

LEMMA SendMoves ==
    ASSUME IInv, NEW c \in Calls, Send(c)
    PROVE  Frame(c) /\ Moves(c) /\ tokens' \in 0..BucketSize
<1>0. FunInv
  BY Known
<1>1. /\ GoodCall(options, stage[c], addresses[c], current[c], hits[c], heard[c],
                  results[c], status[c])
      /\ options \in Options /\ tokens \in 0..BucketSize
      /\ Shape(addresses[c], current[c], hits[c], heard[c], results[c], status[c])
  BY Known
<1>2. /\ stage[c] = "ask" /\ options.geocoder = "smarty" /\ Missed(c) # {} /\ Goto(c, "asked")
      /\ UNCHANGED <<options, boot, columns, addresses, current, hits, heard, results, status>>
  BY DEF Send, Asks, program
<1>3. Frame(c) /\ stage'[c] = "asked"
  <2>1. Put(stage, stage', c) /\ stage'[c] = "asked"
    BY <1>0, <1>2, FrameGoto
  <2> QED
    BY <1>0, <1>2, <2>1, PutSame DEF Frame, FunInv
<1>4. tokens' \in 0..BucketSize
  <2> DEFINE n == Cardinality(Missed(c))
  <2>1. n \in 0..(2 * GEOCODE_SIZE)
    BY <1>2, MissedCount
  <2>2. BucketSize \in Nat
    BY <1>1, Bucket
  <2>3. \/ tokens' = tokens
        \/ tokens >= n /\ tokens' = tokens - n
    BY DEF Send
  <2> HIDE DEF n, BucketSize
  <2> QED
    BY <1>1, <2>1, <2>2, <2>3, SizeAssumption
<1>5. /\ HitsOf(options, current[c], hits[c]) /\ heard[c] = <<>> /\ results[c] = <<>> /\ status[c] = 0
      /\ current[c] = Wishes(options, addresses[c])
  BY <1>1, <1>2 DEF GoodCall
<1>6. GoodCall(options, "asked", addresses[c], current[c], hits[c], heard[c], results[c], status[c])
  BY <1>1, <1>2, <1>5, MissesOfCall DEF GoodCall, Stages, PendingStages
<1>7. Turns(stage[c], stage'[c], results[c], results'[c], status'[c])
  BY <1>2, <1>3 DEF Turns, PendingStages
<1> QED
  BY <1>2, <1>3, <1>4, <1>6, <1>7 DEF Moves

LEMMA ReplyMoves ==
    ASSUME IInv, NEW c \in Calls, Reply(c)
    PROVE  Frame(c) /\ Moves(c) /\ UNCHANGED tokens
<1>0. FunInv
  BY Known
<1>1. GoodCall(options, stage[c], addresses[c], current[c], hits[c], heard[c],
               results[c], status[c])
  BY Known
<1>2. PICK reply \in Usable[Cardinality(Missed(c))] :
        /\ heard' = [heard EXCEPT ![c] = reply]
        /\ results' = [results EXCEPT ![c] =
               Restore(current[c], CacheResults(c, SmartyResults(reply, CacheMisses(c))))]
  BY DEF Reply
<1>3. PICK g, r : /\ g = SmartyResults(reply, CacheMisses(c))
                  /\ r = Restore(current[c], CacheResults(c, g))
  OBVIOUS
<1>12. results' = [results EXCEPT ![c] = r]
  BY <1>2, <1>3
<1>4. /\ stage[c] = "asked" /\ Return(c)
      /\ UNCHANGED <<options, boot, columns, tokens, addresses, current, hits, status>>
  BY DEF Reply, program
<1>5. HitsOf(options, current[c], hits[c]) /\ options.geocoder = "smarty" /\ Missed(c) # {}
  BY <1>1, <1>4, MissesOfCall DEF GoodCall
<1>6. Cardinality(Missed(c)) \in 1..(2 * GEOCODE_SIZE)
  BY <1>4, <1>5, MissedCount
<1>7. /\ Frame(c) /\ heard'[c] = reply /\ results'[c] = Restore(current[c], CacheResults(c, g))
      /\ stage'[c] = IF options.includeLibpostal THEN "pair" ELSE "done"
  <2>1. Put(stage, stage', c) /\ stage'[c] = IF options.includeLibpostal THEN "pair" ELSE "done"
    BY <1>0, <1>4, FrameGoto DEF Return
  <2>2. Put(heard, heard', c) /\ heard'[c] = reply
    BY <1>0, <1>2, PutSet DEF FunInv
  <2>3. Put(results, results', c) /\ results'[c] = r
    BY <1>0, <1>12, PutSet DEF FunInv
  <2> QED
    BY <1>0, <1>3, <1>4, <2>1, <2>2, <2>3, PutSame DEF Frame, FunInv
<1>8. Given(options, current[c], hits[c], reply, g)
  BY <1>2, <1>3, <1>5, <1>6, MissesOfCall DEF Given
<1>9. Len(reply) <= MaxReply
  <2> DEFINE m == Cardinality(Missed(c))
  <2>1. reply \in Replies[m]
    BY <1>2, <1>6 DEF Usable
  <2>2. PICK l \in 0..MaxReply : reply \in [1..l -> [input_index : 0..m, fields : Answer]]
    BY <1>6, <2>1 DEF Replies, BoundedSeq, SeqOf
  <2>3. IsRow(reply, l) /\ l \in Nat
    BY <2>2, SizeAssumption DEF IsRow
  <2>4. Len(reply) = l
    BY <2>3, RowLength
  <2> QED
    BY <2>2, <2>4, SizeAssumption
<1>10. Restore(current[c], CacheResults(c, g)) =
          [i \in 1..Len(addresses[c]) |-> BaseRow(options, current[c], hits[c], g, i)]
  BY <1>5, <1>8, RestoredIs
<1>11. Moves(c)
  BY <1>4, <1>5, <1>7, <1>8, <1>9, <1>10, ReturnMoves
<1> QED
  BY <1>4, <1>7, <1>11

LEMMA PairMoves ==
    ASSUME IInv, NEW c \in Calls, Pair(c)
    PROVE  Frame(c) /\ Moves(c) /\ UNCHANGED tokens
<1>0. FunInv
  BY Known
<1>1. /\ GoodCall(options, stage[c], addresses[c], current[c], hits[c], heard[c],
                  results[c], status[c])
      /\ Shape(addresses[c], current[c], hits[c], heard[c], results[c], status[c])
      /\ options \in Options /\ addresses[c] \in Requests \cup {<<>>}
  BY Known
<1>2. PICK r : /\ r = [i \in DOMAIN results[c] |->
                          Combined(options, results[c][i], Parsed(addresses[c][i]))]
               /\ results' = [results EXCEPT ![c] = r]
  BY DEF Pair, Combine, Combined
<1>3. /\ stage[c] = "pair" /\ Goto(c, "done")
      /\ UNCHANGED <<options, boot, columns, tokens, addresses, current, hits, heard, status>>
  BY DEF Pair, program
<1>4. Frame(c) /\ stage'[c] = "done" /\ results'[c] = r
  <2>1. Put(stage, stage', c) /\ stage'[c] = "done"
    BY <1>0, <1>3, FrameGoto
  <2>2. results' = [results EXCEPT ![c] = r]
    BY <1>2
  <2>3. Put(results, results', c) /\ results'[c] = r
    BY <1>0, <2>2, PutSet DEF FunInv
  <2> QED
    BY <1>0, <1>3, <2>1, <2>3, PutSame DEF Frame, FunInv
<1>5. /\ options.includeLibpostal /\ status[c] = 0 /\ current[c] = Wishes(options, addresses[c])
      /\ OfBase(options, addresses[c], current[c], hits[c], heard[c], results[c])
  BY <1>1, <1>3 DEF GoodCall
<1>6. OfStack(options, addresses[c], current[c], hits[c], heard[c], r)
  BY <1>1, <1>2, <1>5, PairAnswered
<1>7. AsMany(r, addresses[c])
  BY <1>1, <1>6, AnsweredIsRow
<1>8. Shape(addresses[c], current[c], hits[c], heard[c], r, status[c])
  BY <1>1, <1>7 DEF Shape, AsMany
<1>9. GoodCall(options, "done", addresses[c], current[c], hits[c], heard[c], r, status[c])
  BY <1>5, <1>6, <1>8 DEF GoodCall, Stages, PendingStages
<1>10. Turns(stage[c], stage'[c], results[c], results'[c], status'[c])
  BY <1>3, <1>4 DEF Turns, PendingStages
<1> QED
  BY <1>3, <1>4, <1>9, <1>10 DEF Moves

LEMMA RespondMoves ==
    ASSUME IInv, NEW c \in Calls, Respond(c) \/ RespondError(c)
    PROVE  Frame(c) /\ Moves(c) /\ UNCHANGED tokens
<1>0. FunInv
  BY Known
<1>1. /\ GoodCall(options, stage[c], addresses[c], current[c], hits[c], heard[c],
                  results[c], status[c])
      /\ Shape(addresses[c], current[c], hits[c], heard[c], results[c], status[c])
  BY Known
<1>2. /\ Goto(c, "responded") /\ options.server
      /\ UNCHANGED <<options, boot, columns, tokens, addresses, current, hits, heard, results>>
      /\ \/ stage[c] = "done" /\ status' = [status EXCEPT ![c] = 200]
         \/ stage[c] = "failed" /\ status' = [status EXCEPT ![c] = 500]
  BY DEF Respond, RespondError, program
<1>3. Put(stage, stage', c) /\ stage'[c] = "responded"
  BY <1>0, <1>2, FrameGoto
<1>4. /\ Put(status, status', c)
      /\ \/ stage[c] = "done" /\ status'[c] = 200
         \/ stage[c] = "failed" /\ status'[c] = 500
  BY <1>0, <1>2, PutSet DEF FunInv
<1>5. Frame(c)
  BY <1>0, <1>2, <1>3, <1>4, PutSame DEF Frame, FunInv
<1>6. stage[c] = "done" => /\ current[c] = Wishes(options, addresses[c])
                           /\ OfStack(options, addresses[c], current[c], hits[c], heard[c], results[c])
  BY <1>1 DEF GoodCall
<1>7. Shape(addresses[c], current[c], hits[c], heard[c], results[c], status'[c])
  BY <1>1, <1>4 DEF Shape
<1>8. GoodCall(options, "responded", addresses[c], current[c], hits[c], heard[c], results[c], status'[c])
  BY <1>2, <1>4, <1>6, <1>7 DEF GoodCall, Stages
<1>9. Turns(stage[c], stage'[c], results[c], results'[c], status'[c])
  BY <1>2, <1>3, <1>4 DEF Turns
<1>10. stage[c] # "idle"
  BY <1>4
<1> QED
  BY <1>2, <1>3, <1>5, <1>8, <1>9, <1>10 DEF Moves

LEMMA FailingMoves ==
    ASSUME IInv, NEW c \in Calls,
           \/ NormalizeFails(c) \/ CacheFails(c) \/ ParseFails(c) \/ RequestFails(c)
           \/ BadReply(c) \/ PairFails(c) \/ Drop(c)
    PROVE  Frame(c) /\ Moves(c) /\ UNCHANGED tokens
<1>1. Fail(c) \/ Drop(c)
  BY DEF NormalizeFails, CacheFails, ParseFails, RequestFails, BadReply, PairFails
<1>2. stage[c] \in PendingStages \ {"idle"}
  BY DEF NormalizeFails, CacheFails, ParseFails, RequestFails, BadReply, PairFails, Drop, Asks,
         PendingStages
<1> QED
  BY <1>1, <1>2, FailMoves

\* Every step of a call.
CallStep(c) == Arrive(c) \/ BadRequest(c) \/ Proceed(c) \/ Drop(c)

LEMMA CallMoves ==
    ASSUME IInv, NEW c \in Calls, CallStep(c)
    PROVE  Frame(c) /\ Moves(c) /\ tokens' \in 0..BucketSize
<1>1. tokens \in 0..BucketSize
  BY Known
<1>2. CASE Arrive(c)
  BY <1>1, <1>2, ArriveMoves
<1>3. CASE BadRequest(c)
  BY <1>1, <1>3, BadRequestMoves
<1>4. CASE Normalize(c)
  BY <1>1, <1>4, NormalizeMoves
<1>5. CASE SkipAll(c)
  BY <1>1, <1>5, SkipAllMoves
<1>6. CASE Lookup(c)
  BY <1>1, <1>6, LookupMoves
<1>7. CASE AnswerFromCache(c)
  BY <1>1, <1>7, AnswerFromCacheMoves
<1>8. CASE ParseValid(c)
  BY <1>1, <1>8, ParseValidMoves
<1>9. CASE Send(c)
  BY <1>9, SendMoves
<1>10. CASE Reply(c)
  BY <1>1, <1>10, ReplyMoves
<1>11. CASE Pair(c)
  BY <1>1, <1>11, PairMoves
<1>12. CASE Respond(c) \/ RespondError(c)
  BY <1>1, <1>12, RespondMoves
<1>13. CASE \/ NormalizeFails(c) \/ CacheFails(c) \/ ParseFails(c) \/ RequestFails(c)
            \/ BadReply(c) \/ PairFails(c) \/ Drop(c)
  BY <1>1, <1>13, FailingMoves
<1> QED
  BY <1>2, <1>3, <1>4, <1>5, <1>6, <1>7, <1>8, <1>9, <1>10, <1>11, <1>12, <1>13 DEF CallStep, Proceed

LEMMA StepKeeps ==
    ASSUME IInv, NEW c \in Calls, Frame(c), Moves(c), tokens' \in 0..BucketSize
    PROVE  IInv'
<1>1. UNCHANGED <<options, boot, columns>>
  BY DEF Frame
<1>2. options' \in Options /\ GoodBoot(options', boot', columns')
  BY <1>1 DEF IInv
<1>3. BucketSize' = BucketSize
  BY <1>1 DEF BucketSize, InitialTokens
<1>4. FunInv'
  BY DEF Frame, Put, FunInv
<1>5. ASSUME NEW d \in Calls
      PROVE  CallOK(d)'
  <2>1. CASE d = c
    <3>1. InTime(options, boot, stage'[c])
      BY DEF Moves, IInv, CallOK, InTime
    <3> QED
      BY <1>1, <2>1, <3>1 DEF Moves, CallOK
  <2>2. CASE d # c
    <3>1. /\ stage'[d] = stage[d] /\ addresses'[d] = addresses[d] /\ current'[d] = current[d]
          /\ hits'[d] = hits[d] /\ heard'[d] = heard[d] /\ results'[d] = results[d]
          /\ status'[d] = status[d]
      BY <2>2 DEF Frame, Put
    <3>2. CallOK(d)
      BY DEF IInv
    <3> QED
      BY <1>1, <3>1, <3>2 DEF CallOK
  <2> QED
    BY <2>1, <2>2
<1> HIDE DEF BucketSize
<1> QED
  BY <1>2, <1>3, <1>4, <1>5 DEF IInv

LEMMA InitGood == Init => IInv
<1> SUFFICES ASSUME Init
             PROVE  IInv
  OBVIOUS
<1>1. options \in Options /\ GoodBoot(options, boot, columns)
  BY DEF Init, GoodBoot, BootStages
<1>2. tokens \in 0..BucketSize
  <2>1. BucketSize \in Nat
    BY <1>1, Bucket
  <2> HIDE DEF BucketSize
  <2> QED
    BY <2>1 DEF Init
<1>3. FunInv
  BY DEF Init, FunInv, IsFun
<1>4. Shape(<<>>, <<>>, <<>>, <<>>, <<>>, 0)
  BY EmptyList, SizeAssumption DEF Shape
<1>5. ASSUME NEW o
      PROVE  GoodCall(o, "idle", <<>>, <<>>, <<>>, <<>>, <<>>, 0)
  BY <1>4 DEF GoodCall, Stages, PendingStages
<1>6. ASSUME NEW c \in Calls
      PROVE  CallOK(c)
  <2>1. /\ stage[c] = "idle" /\ addresses[c] = <<>> /\ current[c] = <<>> /\ hits[c] = <<>>
        /\ heard[c] = <<>> /\ results[c] = <<>> /\ status[c] = 0
    BY DEF Init
  <2> QED
    BY <1>5, <2>1 DEF CallOK, InTime
<1> QED
  BY <1>1, <1>2, <1>3, <1>6 DEF IInv

LEMMA MainKeeps ==
    ASSUME IInv, Main \/ Refill
    PROVE  IInv' /\ UNCHANGED <<options, perCall>>
<1>1. UNCHANGED <<options, perCall>>
  BY MainKeepsCalls DEF Refill
<1>2. /\ GoodBoot(options, boot', columns') /\ tokens' \in 0..BucketSize
      /\ \A c \in Calls : InTime(options, boot', stage[c])
  <2>1. CASE Main
    BY <2>1, MainBoots
  <2>2. CASE Refill
    <3>1. tokens' = Min({tokens + options.limit, BucketSize}) /\ UNCHANGED <<boot, columns>>
      BY <2>2 DEF Refill
    <3>2. Min({tokens + options.limit, BucketSize}) \in 0..BucketSize
      BY Refilled DEF IInv
    <3> HIDE DEF BucketSize
    <3> QED
      BY <3>1, <3>2 DEF IInv, CallOK
  <2> QED
    BY <2>1, <2>2
<1>3. BucketSize' = BucketSize
  BY <1>1 DEF BucketSize, InitialTokens
<1>4. FunInv'
  BY <1>1 DEF IInv, FunInv, perCall
<1>5. ASSUME NEW c \in Calls
      PROVE  CallOK(c)'
  BY <1>1, <1>2 DEF IInv, CallOK, perCall
<1> HIDE DEF BucketSize
<1>6. options' \in Options /\ options' = options
  BY <1>1 DEF IInv
<1> QED
  BY <1>1, <1>2, <1>3, <1>4, <1>5, <1>6 DEF IInv

LEMMA StutterKeeps ==
    ASSUME IInv, UNCHANGED vars
    PROVE  IInv'
<1>1. UNCHANGED <<options, boot, columns, tokens>> /\ UNCHANGED perCall
  BY DEF vars
<1>2. BucketSize' = BucketSize
  BY <1>1 DEF BucketSize, InitialTokens
<1>3. FunInv' /\ \A c \in Calls : CallOK(c)'
  BY <1>1 DEF IInv, FunInv, CallOK, perCall
<1> HIDE DEF BucketSize
<1> QED
  BY <1>1, <1>2, <1>3 DEF IInv

\* How a step comes about.
LEMMA Steps ==
    ASSUME [Next]_vars
    PROVE  \/ Main \/ Refill
           \/ \E c \in Calls : CallStep(c)
           \/ UNCHANGED vars
BY DEF Next, CallStep, AllEnded

\* The invariant holds in every state: each layer has the addresses and answers
\* that belong to it, and main announces the columns of all of them.
THEOREM Invariance == Spec => []IInv
<1>1. ASSUME IInv, [Next]_vars
      PROVE  IInv'
  <2>1. CASE Main \/ Refill
    BY <1>1, <2>1, MainKeeps
  <2>2. ASSUME NEW c \in Calls, CallStep(c)
        PROVE  IInv'
    BY <1>1, <2>2, CallMoves, StepKeeps
  <2>3. CASE UNCHANGED vars
    BY <1>1, <2>3, StutterKeeps
  <2> QED
    BY <1>1, <2>1, <2>2, <2>3, Steps
<1> QED
  BY <1>1, InitGood, PTL DEF Spec

-------------------------------------------------------------------------------
\* The properties.

\* The variables have the values the code gives them, whatever the options and the
\* lists are: the permits stay within the bucket, hits and results are as many as
\* the addresses they belong to, and main has the columns of all geocoders.
THEOREM Typed == Spec => []TypeOK
<1>1. ASSUME IInv
      PROVE  TypeOK
  <2>1. options \in Options /\ tokens \in 0..BucketSize /\ GoodBoot(options, boot, columns)
    BY <1>1 DEF IInv
  <2>2. /\ boot \in BootStages
        /\ boot \in {"command", "serve", "running", "report"} => columns = Announced[options]
    BY <2>1 DEF GoodBoot
  <2>3. ASSUME NEW c \in Calls
        PROVE  /\ stage[c] \in Stages
               /\ addresses[c] \in Requests \cup {<<>>}
               /\ DOMAIN current[c] = DOMAIN addresses[c]
               /\ Len(hits[c]) \in {0, Cardinality(Valid(current[c]))}
               /\ Len(heard[c]) <= MaxReply
               /\ Len(results[c]) \in {0, Len(addresses[c])}
               /\ status[c] \in {0, 200, 400, 413, 415, 422, 500}
    <3>1. GoodCall(options, stage[c], addresses[c], current[c], hits[c], heard[c],
                   results[c], status[c])
      BY <1>1, Known
    <3>2. /\ Shape(addresses[c], current[c], hits[c], heard[c], results[c], status[c])
          /\ stage[c] \in Stages
      BY <3>1 DEF GoodCall
    <3>3. DOMAIN current[c] = DOMAIN addresses[c]
      BY <3>2, RequestIsRow DEF Shape, IsRow
    <3> QED
      BY <3>2, <3>3 DEF Shape
  <2>4. stage \in [Calls -> Stages]
    <3>1. stage = [c \in Calls |-> stage[c]]
      BY <1>1 DEF IInv, FunInv, IsFun
    <3> QED
      BY <2>3, <3>1
  <2> HIDE DEF BucketSize
  <2> QED
    BY <2>1, <2>2, <2>3, <2>4 DEF TypeOK, BootStages, Stages, PendingStages
<1> QED
  BY <1>1, Invariance, PTL

\* The properties count positions of addresses, the invariant those of the lists
\* that the layers have: these are the same.
Matched(c) ==
    /\ current[c] = Wishes(options, addresses[c])
    /\ \A i \in 1..Len(addresses[c]) :
        /\ current[c][i] = Wanted(options, addresses[c][i])
        /\ HasStreet(c, i) <=> i \in Valid(current[c])
        /\ HasStreet(c, i) => HitFor(c, i) = hits[c][Rank(Valid(current[c]), i)]
        /\ ToBeSent(c, i) <=> i \in SentOf(current[c], hits[c])
        /\ Cardinality({k \in 1..i : ToBeSent(c, k)}) = Rank(SentOf(current[c], hits[c]), i)
    /\ {i \in DOMAIN addresses[c] : ToBeSent(c, i)} = SentOf(current[c], hits[c])

LEMMA MatchedIs ==
    ASSUME IInv, NEW c \in Calls, stage[c] \in {"asked", "done"}
    PROVE  /\ Matched(c) /\ HitsOf(options, current[c], hits[c])
           /\ Split(Len(addresses[c]), current[c], hits[c])
<1>1. PICK n : n = Len(addresses[c])
  OBVIOUS
<1>2. GoodCall(options, stage[c], addresses[c], current[c], hits[c], heard[c], results[c], status[c])
      /\ addresses[c] \in Requests \cup {<<>>} /\ IsRow(current[c], n)
  BY <1>1, Known
<1>3. current[c] = Wishes(options, addresses[c]) /\ HitsOf(options, current[c], hits[c])
  BY <1>2 DEF GoodCall, OfStack
<1>4. Split(n, current[c], hits[c])
  BY <1>1, <1>2, <1>3, HitsLength
<1>5. n \in Nat /\ DOMAIN addresses[c] = 1..n
  BY <1>1, <1>2, RequestIsRow
<1>6. \A i \in 1..n : current[c][i] = Wanted(options, addresses[c][i])
  BY <1>3, <1>5 DEF Wishes
<1>7. DOMAIN current[c] = 1..n
  BY <1>2 DEF IsRow
<1>8. \A i \in 1..n : HasStreet(c, i) <=> i \in Valid(current[c])
  BY <1>6, <1>7 DEF HasStreet, Valid, IsValid
<1>9. ASSUME NEW i \in 1..n, HasStreet(c, i)
      PROVE  HitFor(c, i) = hits[c][Rank(Valid(current[c]), i)]
  <2>1. Valid(current[c]) \subseteq 1..n /\ i \in Valid(current[c])
    BY <1>4, <1>8, <1>9 DEF Split
  <2>2. {k \in 1..i : HasStreet(c, k)} = {k \in Valid(current[c]) : k <= i}
    <3>1. \A k \in 1..i : k \in 1..n
      BY <1>5
    <3> QED
      BY <1>5, <1>8, <2>1, <3>1
  <2>3. Rank(Valid(current[c]), i) \in DOMAIN hits[c]
    BY <1>3, <1>5, <2>1, PositionsListed DEF HitsOf
  <2> QED
    BY <2>2, <2>3 DEF HitFor, Rank
<1>10. \A i \in 1..n : ToBeSent(c, i) <=> i \in SentOf(current[c], hits[c])
  <2> TAKE i \in 1..n
  <2>1. CASE HasStreet(c, i)
    <3>1. i \in Valid(current[c]) /\ HitFor(c, i) = hits[c][Rank(Valid(current[c]), i)]
      BY <1>8, <1>9, <2>1
    <3>2. Rank(Valid(current[c]), i) \in DOMAIN hits[c]
      <4>1. Valid(current[c]) \subseteq 1..n
        BY <1>4 DEF Split
      <4> QED
        BY <1>3, <1>5, <3>1, <4>1, PositionsListed DEF HitsOf
    <3> QED
      BY <2>1, <3>1, <3>2 DEF ToBeSent, SentOf, MissedOf
  <2>2. CASE ~HasStreet(c, i)
    BY <1>8, <2>2 DEF ToBeSent, SentOf
  <2> QED
    BY <2>1, <2>2
<1>11. SentOf(current[c], hits[c]) \subseteq 1..n
  BY <1>4 DEF SentOf, Split
<1>12. ASSUME NEW i \in 1..n
       PROVE  Cardinality({k \in 1..i : ToBeSent(c, k)}) = Rank(SentOf(current[c], hits[c]), i)
  <2>1. \A k \in 1..i : k \in 1..n
    BY <1>5
  <2>2. {k \in 1..i : ToBeSent(c, k)} = {k \in SentOf(current[c], hits[c]) : k <= i}
    BY <1>5, <1>10, <1>11, <2>1
  <2> QED
    BY <2>2 DEF Rank
<1>13. {i \in DOMAIN addresses[c] : ToBeSent(c, i)} = SentOf(current[c], hits[c])
  BY <1>5, <1>10, <1>11
<1>14. Matched(c)
  BY <1>1, <1>3, <1>6, <1>8, <1>9, <1>10, <1>12, <1>13 DEF Matched
<1> QED
  BY <1>1, <1>3, <1>4, <1>14

\* For lists of every length, what is sent to Smarty is, in order, the normalized
\* form of the addresses that then have a street and are not in the cache.
THEOREM Sent == Spec => []SentHaveStreets
<1>1. ASSUME IInv, NEW c \in Calls, stage[c] = "asked"
      PROVE  LET sent == Positions({i \in DOMAIN addresses[c] : ToBeSent(c, i)})
             IN  CacheMisses(c)
                     = [k \in DOMAIN sent |-> Wanted(options, addresses[c][sent[k]])]
  <2>1. PICK n, as, cu, h, S :
            n = Len(addresses[c]) /\ as = addresses[c] /\ cu = current[c] /\ h = hits[c] /\ S = SentOf(cu, h)
    OBVIOUS
  <2>2. Matched(c) /\ Split(n, cu, h)
    BY <1>1, <2>1, MatchedIs
  <2>3. Sends(cu, h) /\ n \in Nat
    <3>1. n \in Nat
      BY <1>1, <2>1, Known, RequestIsRow
    <3> QED
      BY <2>2, <3>1, SentIs
  <2>4. CacheMisses(c) = MissesOf(cu, h)
    BY <2>1, MissesOfCall
  <2>5. {i \in DOMAIN addresses[c] : ToBeSent(c, i)} = S
    BY <2>1, <2>2 DEF Matched
  <2>6. CacheMisses(c) = [k \in DOMAIN Positions(S) |-> cu[Positions(S)[k]]]
    BY <2>1, <2>3, <2>4 DEF Sends
  <2>7. \A k \in DOMAIN Positions(S) : cu[Positions(S)[k]] = Wanted(options, as[Positions(S)[k]])
    <3>1. S \subseteq 1..n
      BY <2>1, <2>2 DEF SentOf, Split
    <3>2. \A k \in DOMAIN Positions(S) : Positions(S)[k] \in 1..n
      <4>1. Positions(S) \in [1..Cardinality(S) -> S]
        BY <2>3, <3>1, PositionsListed
      <4> QED
        BY <3>1, <4>1
    <3> QED
      BY <2>1, <2>2, <3>2 DEF Matched
  <2>8. CacheMisses(c) = [k \in DOMAIN Positions(S) |-> Wanted(options, as[Positions(S)[k]])]
    BY <2>6, <2>7
  <2> QED
    BY <2>1, <2>5, <2>8
<1>2. IInv => SentHaveStreets
  BY <1>1 DEF SentHaveStreets
<1> QED
  BY <1>2, Invariance, PTL

\* No answer is lost, overwritten or given to another address, whatever the list,
\* the hits and the order of the answers are: each result has, under Smarty's
\* columns, what the cache or else the reply says of its address.
THEOREM AnswersKept == Spec => []EveryAnswerKept
<1>1. ASSUME IInv, NEW c \in Calls, stage[c] = "done", options.geocoder = "smarty",
             NEW i \in DOMAIN addresses[c]
      PROVE  LET a == Wanted(options, addresses[c][i])
                 position == Cardinality({k \in 1..i : ToBeSent(c, k)}) - 1
                 about == {j \in DOMAIN heard[c] :
                     ToBeSent(c, i) /\ heard[c][j].input_index = position}
                 row == results[c][i]
                 cells == [j \in DOMAIN SmartyColumns \cap DOMAIN row |-> row[j]]
                 known == {ValueColumns(heard[c][j].fields, a) : j \in about} \cup
                          (IF HasStreet(c, i) THEN HitFor(c, i) \ {None} ELSE {})
             IN  /\ Cardinality(about) <= 1
                 /\ known = {} => ToSet(cells) \subseteq {Blank}
                 /\ \A k \in known : cells = k
  <2> DEFINE about == {j \in DOMAIN heard[c] :
                 /\ ToBeSent(c, i)
                 /\ heard[c][j].input_index = Cardinality({k \in 1..i : ToBeSent(c, k)}) - 1}
             a == Wanted(options, addresses[c][i])
             known == {ValueColumns(heard[c][j].fields, a) : j \in about} \cup
                          (IF HasStreet(c, i) THEN HitFor(c, i) \ {None} ELSE {})
             cells == CellsOf(results[c][i])
  <2>1. PICK n, o, as, cu, h, he, r :
            /\ n = Len(addresses[c]) /\ o = options /\ as = addresses[c] /\ cu = current[c]
            /\ h = hits[c] /\ he = heard[c] /\ r = results[c]
    OBVIOUS
  <2>2. Matched(c) /\ HitsOf(o, cu, h) /\ Split(n, cu, h)
    BY <1>1, <2>1, MatchedIs
  <2>3. /\ GoodCall(o, stage[c], as, cu, h, he, r, status[c]) /\ o \in Options
        /\ as \in Requests \cup {<<>>}
    BY <1>1, <2>1, Known
  <2>4. n \in Nat /\ i \in 1..n
    BY <1>1, <2>1, <2>3, RequestIsRow
  <2>5. PICK g : Given(o, cu, h, he, g) /\ r = [k \in DOMAIN as |-> FinalRow(o, as, cu, h, g, k)]
    BY <1>1, <2>3 DEF GoodCall, OfStack
  <2>6. /\ cu[i] = a /\ (HasStreet(c, i) <=> i \in Valid(cu))
        /\ HasStreet(c, i) => HitFor(c, i) = h[Rank(Valid(cu), i)]
        /\ ToBeSent(c, i) <=> i \in SentOf(cu, h)
        /\ Cardinality({k \in 1..i : ToBeSent(c, k)}) = Rank(SentOf(cu, h), i)
    BY <2>1, <2>2, <2>4 DEF Matched
  <2>7. about = AboutOf(cu, h, he, i)
    BY <2>1, <2>6 DEF AboutOf
  <2> HIDE DEF about
  <2>8. known = KnownOf(cu, h, he, i)
    BY <2>1, <2>6, <2>7 DEF KnownOf, FoundOf
  <2>9. Cardinality(about) <= 1
    <3>1. AboutOf(cu, h, he, i) = {} \/ \E j \in Nat : AboutOf(cu, h, he, i) = {j}
      BY <2>2, <2>4, <2>5, OneAnswer
    <3>2. CASE about = {}
      BY <3>2, FS_EmptySet
    <3>3. ASSUME NEW j, about = {j}
          PROVE  Cardinality(about) <= 1
      <4>1. Cardinality({j}) = 1
        BY FS_Singleton
      <4> QED
        BY <3>3, <4>1
    <3> QED
      BY <2>7, <3>1, <3>2, <3>3
  <2>10. results[c][i] = FinalRow(o, as, cu, h, g, i)
    BY <1>1, <2>1, <2>5
  <2> HIDE DEF known
  <2>11. /\ known = {} => ToSet(cells) \subseteq {Blank}
         /\ \A k \in known : cells = k
    <3>1. o.geocoder = "smarty"
      BY <1>1, <2>1
    <3>2. /\ KnownOf(cu, h, he, i) = {} => ToSet(CellsOf(FinalRow(o, as, cu, h, g, i))) \subseteq {Blank}
          /\ \A x \in KnownOf(cu, h, he, i) : CellsOf(FinalRow(o, as, cu, h, g, i)) = x
      BY <2>2, <2>3, <2>4, <2>5, <3>1, AnswerKept
    <3> QED
      BY <2>8, <2>10, <3>2
  <2> QED
    BY <2>9, <2>11 DEF known, about, CellsOf
<1>2. IInv => EveryAnswerKept
  BY <1>1 DEF EveryAnswerKept
<1> QED
  BY <1>2, Invariance, PTL

\* A row of one value for each of the columns has, by its names, all of them.
NamesAll(o, row, map) ==
    /\ DOMAIN map = ToSet(Announced[o])
    /\ [j \in DOMAIN Announced[o] |-> map[Announced[o][j]]] = row

LEMMA HashIs ==
    ASSUME NEW o \in Options, columns = Announced[o], NEW row, IsRow(row, Len(Announced[o]))
    PROVE  NamesAll(o, row, HashFromGeocoded(row))
<1> DEFINE n == Len(Announced[o])
           names == Announced[o]
           map == HashFromGeocoded(row)
<1>1. /\ n \in Nat /\ IsRow(names, n)
      /\ \A j, k \in 1..n : names[j] = names[k] => j = k
  BY AnnouncedAre
<1> HIDE DEF n
<1>2. DOMAIN names = 1..n /\ DOMAIN row = 1..n
  BY <1>1 DEF IsRow, n
<1>3. DOMAIN row \cap DOMAIN columns = 1..n
  BY <1>2
<1>4. map = [name \in {names[j] : j \in 1..n} |-> row[Max({j \in 1..n : names[j] = name})]]
  BY <1>3 DEF HashFromGeocoded
<1>5. DOMAIN map = ToSet(names)
  BY <1>2, <1>4 DEF ToSet
<1>6. ASSUME NEW j \in 1..n
      PROVE  map[names[j]] = row[j]
  <2>1. {k \in 1..n : names[k] = names[j]} = {j}
    BY <1>1
  <2>2. Max({j}) = j
    BY <1>1 DEF Max
  <2> HIDE DEF names
  <2> QED
    BY <1>4, <2>1, <2>2
<1>7. [j \in DOMAIN names |-> map[names[j]]] = row
  <2> HIDE DEF map
  <2>1. row = [j \in 1..n |-> row[j]]
    BY DEF IsRow, n
  <2> QED
    BY <1>2, <1>6, <2>1
<1> QED
  BY <1>5, <1>7 DEF NamesAll

\* With all options and for lists of every length, the response has for each
\* address a value under each name, and the value is the one that the geocoders
\* gave it.
THEOREM Named == Spec => []ResponseNamesValues
<1>1. ASSUME IInv, NEW c \in Calls, status[c] = 200
      PROVE  /\ Len(Body(c)) = Len(addresses[c])
             /\ \A i \in DOMAIN addresses[c] : \A map \in Body(c)[i] :
                 LET names == Announced[options]
                 IN  /\ DOMAIN map = ToSet(names)
                     /\ IsResultFor(options, [j \in DOMAIN names |-> map[names[j]]],
                                    addresses[c][i])
  <2>1. PICK n, o, as, cu, h, he, r :
            /\ n = Len(addresses[c]) /\ o = options /\ as = addresses[c] /\ cu = current[c]
            /\ h = hits[c] /\ he = heard[c] /\ r = results[c]
    OBVIOUS
  <2>2. /\ GoodCall(o, stage[c], as, cu, h, he, r, status[c]) /\ o \in Options
        /\ as \in Requests \cup {<<>>}
    BY <1>1, <2>1, Known
  <2>3. OfStack(o, as, cu, h, he, r) /\ cu = Wishes(o, as) /\ IsRow(cu, n)
        /\ stage[c] = "responded" /\ o.server
    BY <1>1, <2>1, <2>2 DEF GoodCall, Shape
  <2>4. n \in Nat /\ DOMAIN as = 1..n /\ IsRow(as, n)
    BY <2>1, <2>2, RequestIsRow
  <2>5. HitsOf(o, cu, h) /\ Split(n, cu, h)
    <3>1. HitsOf(o, cu, h)
      BY <2>3 DEF OfStack
    <3> QED
      BY <2>1, <2>2, <2>3, <3>1, HitsLength
  <2>6. PICK g : Given(o, cu, h, he, g) /\ r = [k \in DOMAIN as |-> FinalRow(o, as, cu, h, g, k)]
    BY <2>3 DEF OfStack
  <2>7. columns = Announced[o]
    <3>1. GoodBoot(o, boot, columns) /\ InTime(o, boot, stage[c])
      BY <1>1, <2>1 DEF IInv, CallOK
    <3>2. boot = "running"
      BY <2>3, <3>1 DEF InTime
    <3> QED
      BY <3>1, <3>2 DEF GoodBoot
  <2>8. DOMAIN r = 1..n
    BY <2>4, <2>6
  <2>9. Len(Body(c)) = Len(addresses[c])
    <3>1. IsRow(Body(c), n)
      BY <2>1, <2>8 DEF Body, IsRow
    <3> QED
      BY <2>1, <2>4, <3>1, RowLength
  <2>10. ASSUME NEW i \in DOMAIN addresses[c], NEW map \in Body(c)[i]
         PROVE  /\ DOMAIN map = ToSet(Announced[o])
                /\ IsResultFor(o, [j \in DOMAIN Announced[o] |-> map[Announced[o][j]]], as[i])
    <3>1. i \in 1..n
      BY <2>1, <2>4
    <3>2. r[i] # None /\ map = HashFromGeocoded(r[i])
      BY <2>1, <2>8, <3>1 DEF Body
    <3>3. GoodRow(o, r[i], as[i])
      <4>1. GoodRow(o, FinalRow(o, as, Wishes(o, as), h, g, i), as[i])
        BY <2>2, <2>3, <2>4, <2>5, <2>6, <3>1, FinalRowIs
      <4>2. r[i] = FinalRow(o, as, cu, h, g, i)
        BY <2>4, <2>6, <3>1
      <4> QED
        BY <2>3, <4>1, <4>2
    <3>4. IsRow(r[i], Len(Announced[o])) /\ IsResultFor(o, r[i], as[i])
      BY <3>2, <3>3 DEF GoodRow
    <3>5. NamesAll(o, r[i], map)
      BY <2>2, <2>7, <3>2, <3>4, HashIs
    <3> QED
      BY <3>4, <3>5 DEF NamesAll
  <2> QED
    BY <2>1, <2>9, <2>10
<1>2. IInv => ResponseNamesValues
  BY <1>1 DEF ResponseNamesValues
<1> QED
  BY <1>2, Invariance, PTL

-------------------------------------------------------------------------------
\* The promise of the trait.

\* How a call has ended, when it is at stage st with results r and status s.
OutcomeOf(st, r, s) ==
    CASE st = "done" \/ s = 200 -> [kind |-> "ok", results |-> r]
      [] st = "failed" \/ s >= 400 -> [kind |-> "error", results |-> <<>>]
      [] st = "dropped" -> [kind |-> "dropped", results |-> <<>>]
      [] OTHER -> [kind |-> "pending", results |-> <<>>]

AnswersAll(o, r, as) == DOMAIN r = DOMAIN as /\ \A i \in DOMAIN r : IsResultFor(o, r[i], as[i])

LEMMA OutcomeIs ==
    ASSUME NEW r, NEW s, s \in {0, 200, 400, 413, 415, 422, 500}
    PROVE  /\ \A st \in PendingStages : s = 0 => OutcomeOf(st, r, s) = Contract!Pending
           /\ s = 0 => OutcomeOf("done", r, s) = [kind |-> "ok", results |-> r]
           /\ s = 0 => OutcomeOf("failed", r, s) = Contract!Error
           /\ s = 0 => OutcomeOf("dropped", r, s) = Contract!Dropped
           /\ s = 200 => OutcomeOf("responded", r, s) = [kind |-> "ok", results |-> r]
           /\ s >= 400 => OutcomeOf("responded", r, s) = Contract!Error
<1>1. s = 0 => s # 200 /\ ~(s >= 400)
  OBVIOUS
<1>2. ASSUME NEW st \in PendingStages, s = 0
      PROVE  OutcomeOf(st, r, s) = Contract!Pending
  <2>1. st \notin {"done", "failed", "dropped"}
    BY DEF PendingStages
  <2> QED
    BY <1>1, <1>2, <2>1 DEF OutcomeOf, Contract!Pending
<1>3. s = 0 => OutcomeOf("done", r, s) = [kind |-> "ok", results |-> r]
  BY <1>1 DEF OutcomeOf
<1>4. s = 0 => OutcomeOf("failed", r, s) = Contract!Error
  BY <1>1 DEF OutcomeOf, Contract!Error
<1>5. s = 0 => OutcomeOf("dropped", r, s) = Contract!Dropped
  BY <1>1 DEF OutcomeOf, Contract!Dropped
<1>6. s = 200 => OutcomeOf("responded", r, s) = [kind |-> "ok", results |-> r]
  BY DEF OutcomeOf
<1>7. s >= 400 => s # 200
  OBVIOUS
<1>8. s >= 400 => OutcomeOf("responded", r, s) = Contract!Error
  BY <1>7 DEF OutcomeOf, Contract!Error
<1> QED
  BY <1>2, <1>3, <1>4, <1>5, <1>6, <1>8

LEMMA StackAnswers ==
    ASSUME NEW o \in Options, NEW as, NEW cu, NEW h, NEW he, NEW r, NEW s,
           GoodCall(o, "done", as, cu, h, he, r, s)
    PROVE  AnswersAll(o, r, as)
<1>1. /\ as \in Requests \cup {<<>>} /\ OfStack(o, as, cu, h, he, r)
      /\ cu = Wishes(o, as) /\ IsRow(cu, Len(as))
  BY DEF GoodCall, Shape
<1>2. PICK n : n = Len(as)
  OBVIOUS
<1>3. n \in Nat /\ DOMAIN as = 1..n /\ IsRow(as, n)
  BY <1>1, <1>2, RequestIsRow
<1>4. HitsOf(o, cu, h)
  BY <1>1 DEF OfStack
<1>5. Split(n, cu, h)
  BY <1>1, <1>2, <1>4, HitsLength
<1>6. PICK g : Given(o, cu, h, he, g) /\ r = [k \in DOMAIN as |-> FinalRow(o, as, cu, h, g, k)]
  BY <1>1 DEF OfStack
<1>7. ASSUME NEW i \in 1..n
      PROVE  IsResultFor(o, r[i], as[i])
  <2>1. GoodRow(o, FinalRow(o, as, Wishes(o, as), h, g, i), as[i])
    BY <1>1, <1>3, <1>4, <1>5, <1>6, FinalRowIs
  <2>2. r[i] = FinalRow(o, as, cu, h, g, i)
    BY <1>3, <1>6
  <2> QED
    BY <1>1, <2>1, <2>2 DEF GoodRow
<1> QED
  BY <1>3, <1>6, <1>7 DEF AnswersAll

\* A step of a call is one of the contract, or none.
Promised(c) == Contract!Ask(c) \/ Contract!End(c) \/ UNCHANGED Contract!vars

LEMMA CallPromised ==
    ASSUME IInv, NEW c \in Calls, Frame(c), Moves(c)
    PROVE  Promised(c)
<1> DEFINE out == [d \in Calls |-> Outcome(d)]
<1>1. PICK st, st2, r, r2, s, s2, o :
          /\ st = stage[c] /\ st2 = stage'[c] /\ r = results[c] /\ r2 = results'[c]
          /\ s = status[c] /\ s2 = status'[c] /\ o = options
  OBVIOUS
<1>2. /\ Shape(addresses[c], current[c], hits[c], heard[c], r, s)
      /\ s = 0 <=> st # "responded"
      /\ o \in Options
  BY <1>1, Known DEF GoodCall
<1>3. /\ GoodCall(o, st2, addresses'[c], current'[c], hits'[c], heard'[c], r2, s2)
      /\ Turns(st, st2, r, r2, s2)
  BY <1>1 DEF Moves
<1>4. /\ s \in {0, 200, 400, 413, 415, 422, 500} /\ s2 \in {0, 200, 400, 413, 415, 422, 500}
      /\ s2 = 0 <=> st2 # "responded"
  BY <1>2, <1>3 DEF GoodCall, Shape
<1>5. out[c] = OutcomeOf(st, r, s) /\ out'[c] = OutcomeOf(st2, r2, s2)
  BY <1>1 DEF Outcome, OutcomeOf
<1>6. \A d \in Calls \ {c} : out'[d] = out[d]
  <2> TAKE d \in Calls \ {c}
  <2>1. stage'[d] = stage[d] /\ results'[d] = results[d] /\ status'[d] = status[d]
    BY DEF Frame, Put
  <2>2. Outcome(d)' = Outcome(d)
    BY <2>1 DEF Outcome
  <2> QED
    BY <2>2
<1>7. UNCHANGED options /\ out' = [d \in Calls |-> out'[d]] /\ out = [d \in Calls |-> out[d]]
  BY DEF Frame
<1> HIDE DEF out
<1>8. st \in PendingStages => out[c] = Contract!Pending
  BY <1>2, <1>4, <1>5, OutcomeIs DEF PendingStages
<1>9. CASE st \in PendingStages /\ st2 \in PendingStages
  <2>1. out'[c] = Contract!Pending
    BY <1>4, <1>5, <1>9, OutcomeIs DEF PendingStages
  <2>2. out' = out
    BY <1>6, <1>7, <1>8, <1>9, <2>1
  <2>3. CASE addresses' = addresses
    BY <1>7, <2>2, <2>3 DEF Promised, Contract!vars, out
  <2>4. CASE addresses' # addresses
    <3>1. addresses[c] = <<>> /\ \E q \in Requests : addresses' = [addresses EXCEPT ![c] = q]
      BY <2>4 DEF Moves
    <3> QED
      BY <1>7, <1>8, <1>9, <2>2, <3>1 DEF Promised, Contract!Ask, out
  <2> QED
    BY <2>3, <2>4
<1>10. CASE ~(st \in PendingStages /\ st2 \in PendingStages)
  <2>1. addresses' = addresses
    BY <1>1, <1>10 DEF Moves, PendingStages
  <2>2. CASE st \in PendingStages /\ (st2 \in {"failed", "dropped"} \/ (st2 = "responded" /\ s2 >= 400))
    <3>1. out'[c] \in {Contract!Error, Contract!Dropped}
      BY <1>4, <1>5, <2>2, OutcomeIs
    <3> QED
      BY <1>6, <1>7, <1>8, <2>1, <2>2, <3>1 DEF Promised, Contract!End, out
  <2>3. CASE st \in PendingStages /\ st2 = "done"
    <3>1. AnswersAll(o, r2, addresses'[c])
      BY <1>2, <1>3, <2>3, StackAnswers
    <3>2. out'[c] = [kind |-> "ok", results |-> r2]
      BY <1>4, <1>5, <2>3, OutcomeIs
    <3>3. out'[c].kind = "ok" /\ Contract!Answers(out'[c].results, addresses[c])
      BY <1>1, <2>1, <3>1, <3>2 DEF AnswersAll, Contract!Answers
    <3> QED
      BY <1>6, <1>7, <1>8, <2>1, <2>3, <3>3 DEF Promised, Contract!End, out
  <2>4. CASE st \in {"done", "failed"} /\ st2 = "responded"
    <3>1. out'[c] = out[c]
      <4>1. CASE st = "done"
        <5>1. s2 = 200 /\ r2 = r /\ s = 0
          BY <1>2, <1>3, <4>1, <2>4 DEF Turns, PendingStages
        <5> QED
          BY <1>4, <1>5, <2>4, <4>1, <5>1, OutcomeIs
      <4>2. CASE st = "failed"
        <5>1. s2 = 500 /\ s = 0
          BY <1>2, <1>3, <4>2, <2>4 DEF Turns, PendingStages
        <5> QED
          BY <1>4, <1>5, <2>4, <4>2, <5>1, OutcomeIs
      <4> QED
        BY <2>4, <4>1, <4>2
    <3>2. out' = out
      BY <1>6, <1>7, <3>1
    <3> QED
      BY <1>7, <2>1, <3>2 DEF Promised, Contract!vars, out
  <2>5. \/ st \in PendingStages /\ (st2 \in {"failed", "dropped"} \/ (st2 = "responded" /\ s2 >= 400))
        \/ st \in PendingStages /\ st2 = "done"
        \/ st \in {"done", "failed"} /\ st2 = "responded"
    BY <1>3, <1>10 DEF Turns, PendingStages
  <2> QED
    BY <2>2, <2>3, <2>4, <2>5
<1> QED
  BY <1>9, <1>10

LEMMA InitPromised == Init => Contract!Init
<1> SUFFICES ASSUME Init
             PROVE  Contract!Init
  OBVIOUS
<1>1. ASSUME NEW c \in Calls
      PROVE  Outcome(c) = Contract!Pending
  BY DEF Init, Outcome, Contract!Pending
<1> QED
  BY <1>1 DEF Init, Contract!Init

\* The stack keeps the promise of the trait Geocoder, for every way to build it and
\* for any number of concurrent calls: a call ends once, with an error or with a
\* result for each of its addresses in its place.
THEOREM Honoured == Spec => HonoursContract
<1>1. ASSUME IInv, [Next]_vars
      PROVE  [Contract!Next]_Contract!vars
  <2>1. CASE Main \/ Refill \/ UNCHANGED vars
    <3>1. UNCHANGED <<options, stage, addresses, results, status>>
      BY <1>1, <2>1, MainKeeps DEF perCall, vars
    <3>2. [c \in Calls |-> Outcome(c)]' = [c \in Calls |-> Outcome(c)]
      BY <3>1 DEF Outcome
    <3> QED
      BY <3>1, <3>2 DEF Contract!vars
  <2>2. ASSUME NEW c \in Calls, CallStep(c)
        PROVE  [Contract!Next]_Contract!vars
    <3>1. Promised(c)
      BY <1>1, <2>2, CallMoves, CallPromised
    <3> QED
      BY <3>1 DEF Promised, Contract!Next
  <2> QED
    BY <1>1, <2>1, <2>2, Steps
<1> QED
  BY <1>1, InitPromised, Invariance, PTL DEF Spec, HonoursContract, Contract!Spec
===============================================================================
