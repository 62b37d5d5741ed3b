------------------------------ MODULE RowsProofs ------------------------------
(***************************************************************************)
(* Proofs about Rows: for every table, specification and answer of the     *)
(* geocoder, every cell that is written stands under its own column, no    *)
(* column of the file is lost, the header has no duplicates unless asked   *)
(* for, and a chunk fits in GEOCODE_SIZE.                                  *)
(*                                                                         *)
(* The invariant follows the two things the code keeps apart, the header   *)
(* and the rows.  HeaderIs gives the place of every announced column in    *)
(* the header, and Filled says that the n-th row, as far as it is laid     *)
(* out, has in each place a cell for the name that the header has there.   *)
(* They meet in SamePlace: what `convert_to_indices` finds in the columns  *)
(* that remain is, in a row without the removed cells, what the name       *)
(* stands for in the row as it was read.                                   *)
(***************************************************************************)
EXTENDS Rows, PositionsProofs

-------------------------------------------------------------------------------
\* The texts of an address.

Joins(joined, s) == IF IsSuffix(s, joined) THEN joined ELSE joined \o s

\* The folding of texts, over the sets in T.
Folds(texts, T, f) ==
    f = [s \in T |-> IF s = {} THEN <<>> ELSE Joins(f[Before(s)], texts[Max(s)])]

LEMMA FoldExists ==
    ASSUME NEW n \in Nat, NEW texts
    PROVE  \E f : Folds(texts, SUBSET (1..n), f)
<1> DEFINE S == 1..n
           T == {m \in Nat : \E f : Folds(texts, UpTo(S, m), f)}
<1>1. \A m \in Nat : \A s \in UpTo(S, m) :
          /\ s \in UpTo(S, m + 1)
          /\ m = 0 => s = {}
          /\ s # {} => \A k \in Nat : m = k + 1 => Before(s) \in UpTo(S, k)
  BY UpToIs
<1>2. Cardinality(S) \in Nat /\ UpTo(S, Cardinality(S)) = SUBSET S
  BY AllUpTo
<1> HIDE DEF S
<1>3. 0 \in T
  <2>1. \A s \in UpTo(S, 0) : s = {}
    BY <1>1
  <2>2. Folds(texts, UpTo(S, 0), [s \in UpTo(S, 0) |-> <<>>])
    BY <2>1 DEF Folds
  <2> QED
    BY <2>2
<1>4. ASSUME NEW m \in Nat, m \in T
      PROVE  m + 1 \in T
  <2>1. PICK f : Folds(texts, UpTo(S, m), f)
    BY <1>4
  <2> DEFINE g == [s \in UpTo(S, m + 1) |->
                      IF s = {} THEN <<>> ELSE Joins(f[Before(s)], texts[Max(s)])]
  <2>2. \A s \in UpTo(S, m) : g[s] = f[s]
    BY <1>1, <2>1 DEF Folds
  <2>3. \A s \in UpTo(S, m + 1) : s # {} => Before(s) \in UpTo(S, m)
    BY <1>1
  <2>4. g = [s \in UpTo(S, m + 1) |-> IF s = {} THEN <<>> ELSE Joins(g[Before(s)], texts[Max(s)])]
    BY <2>2, <2>3
  <2> HIDE DEF g
  <2>5. Folds(texts, UpTo(S, m + 1), g)
    BY <2>4 DEF Folds
  <2> QED
    BY <2>5
<1>5. Cardinality(S) \in T
  <2> HIDE DEF T
  <2> QED
    BY <1>2, <1>3, <1>4, Induction
<1> QED
  BY <1>2, <1>5 DEF S

\* Joining texts gives a text.
LEMMA JoinType ==
    ASSUME NEW W, NEW texts \in Seq(Seq(W))
    PROVE  Join(texts) \in Seq(W)
<1> DEFINE S == DOMAIN texts
           n == Len(texts)
           iter == CHOOSE f : Folds(texts, SUBSET S, f)
           U == {m \in Nat : \A s \in UpTo(S, m) : iter[s] \in Seq(W)}
<1>1. Join(texts) = iter[S]
  BY DEF Join, FoldLeft, MapThenFoldSet, Joins, Folds, Before
<1>2. n \in Nat /\ S = 1..n
  BY LenProperties
<1>3. \A k \in S : texts[k] \in Seq(W)
  BY <1>2, ElementOfSeq
<1> HIDE DEF n, S
<1>4. \A m \in Nat : \A s \in UpTo(S, m) :
          /\ m = 0 => s = {}
          /\ s # {} => Max(s) \in S /\ \A k \in Nat : m = k + 1 => Before(s) \in UpTo(S, k)
  BY <1>2, UpToIs
<1>5. Cardinality(S) \in Nat /\ UpTo(S, Cardinality(S)) = SUBSET S
  BY <1>2, AllUpTo
<1>6. Folds(texts, SUBSET S, iter)
  BY <1>2, FoldExists
<1> HIDE DEF iter
<1>7. ASSUME NEW m \in Nat, NEW s \in UpTo(S, m)
      PROVE  iter[s] = IF s = {} THEN <<>> ELSE Joins(iter[Before(s)], texts[Max(s)])
  <2>1. s \in SUBSET S
    BY DEF UpTo
  <2> QED
    BY <1>6, <2>1 DEF Folds
<1>8. 0 \in U
  <2>1. \A s \in UpTo(S, 0) : iter[s] = <<>>
    BY <1>4, <1>7
  <2>2. <<>> \in Seq(W)
    OBVIOUS
  <2>3. \A s \in UpTo(S, 0) : iter[s] \in Seq(W)
    BY <2>1, <2>2
  <2> QED
    BY <2>3
<1>9. ASSUME NEW m \in Nat, m \in U
      PROVE  m + 1 \in U
  <2>1. ASSUME NEW s \in UpTo(S, m + 1)
        PROVE  iter[s] \in Seq(W)
    <3>1. iter[s] = IF s = {} THEN <<>> ELSE Joins(iter[Before(s)], texts[Max(s)])
      BY <1>7
    <3>2. CASE s # {}
      <4>1. Max(s) \in S /\ Before(s) \in UpTo(S, m)
        BY <1>4, <3>2
      <4>2. iter[Before(s)] \in Seq(W) /\ texts[Max(s)] \in Seq(W)
        BY <1>3, <1>9, <4>1
      <4>3. Joins(iter[Before(s)], texts[Max(s)]) \in Seq(W)
        BY <4>2, ConcatProperties DEF Joins
      <4> QED
        BY <3>1, <3>2, <4>3
    <3> QED
      BY <3>1, <3>2
  <2> QED
    BY <2>1
<1>10. Cardinality(S) \in U
  <2> HIDE DEF U
  <2> QED
    BY <1>5, <1>8, <1>9, Induction
<1> QED
  BY <1>1, <1>5, <1>10

-------------------------------------------------------------------------------
\* The specification.

\* What a run of the program is about.
Table == policy \in OnDuplicateColumns /\ file \in SpecFiles /\ header \in Headers

LEMMA HeaderIsRow ==
    ASSUME Table
    PROVE  /\ Len(header) \in Nat /\ IsRow(header, Len(header)) /\ DOMAIN header = 1..Len(header)
           /\ \A i \in 1..Len(header) : header[i] \in Names
           /\ \A line \in Lines : \A i \in 1..Len(header) : line[i] \in Seq(Words)
<1>1. header \in Seq(Names)
  BY TableAssumption DEF Table
<1>2. Len(header) \in Nat /\ IsRow(header, Len(header)) /\ DOMAIN header = 1..Len(header)
      /\ \A i \in 1..Len(header) : header[i] \in Names
  BY <1>1, ListIsRow, LenProperties
<1>3. ASSUME NEW line \in Lines, NEW i \in 1..Len(header)
      PROVE  line[i] \in Seq(Words)
  <2>1. line \in Seq(Seq(Words)) /\ Len(header) <= Len(line)
    BY TableAssumption DEF Table
  <2>2. Len(line) \in Nat /\ \A j \in 1..Len(line) : line[j] \in Seq(Words)
    BY <2>1, ListIsRow
  <2>3. i \in 1..Len(line)
    BY <1>2, <2>1, <2>2
  <2> QED
    BY <2>2, <2>3
<1> QED
  BY <1>2, <1>3

LEMMA ValueNames ==
    ASSUME NEW v \in Values
    PROVE  v.names \in Seq(Names)
<1>1. CASE v.names \in [{1} -> Names]
  <2>1. {1} = 1..1
    OBVIOUS
  <2>2. IsRow(v.names, 1) /\ \A j \in 1..1 : v.names[j] \in Names
    BY <1>1, <2>1 DEF IsRow
  <2> QED
    BY <2>2, RowType
<1>2. CASE v.names \in Seq(Names)
  BY <1>2
<1>3. CASE v.names = <<>>
  BY <1>3
<1>4. v.names \in [{1} -> Names] \/ v.names \in Seq(Names) \/ v.names = <<>>
  BY DEF Values
<1> QED
  BY <1>1, <1>2, <1>3, <1>4

\* The columns of a prefix are those that its last member in the file names.
SpecGood ==
    /\ DOMAIN spec \subseteq AllPrefixes
    /\ \A p \in DOMAIN spec : DOMAIN spec[p] = Fields
    /\ \A p \in DOMAIN spec, f \in Fields :
           spec[p][f] \in Seq(Names) /\ spec[p][f] = NamesFor(p, f)

LEMMA SpecIsGood ==
    ASSUME Table, spec = AddressColumnSpec(file)
    PROVE  SpecGood
<1>1. /\ Len(file) \in Nat /\ DOMAIN file = 1..Len(file)
      /\ \A i \in DOMAIN file :
             file[i].prefix \in AllPrefixes /\ file[i].fields \in Seq([name : STRING, value : Values])
  <2> DEFINE A == [prefix : AllPrefixes, fields : Seq([name : STRING, value : Values])]
  <2>1. file \in Seq(A)
    BY FileAssumption DEF Table
  <2>2. \A x \in A : x.prefix \in AllPrefixes /\ x.fields \in Seq([name : STRING, value : Values])
    OBVIOUS
  <2> HIDE DEF A
  <2>3. Len(file) \in Nat /\ IsRow(file, Len(file)) /\ \A i \in 1..Len(file) : file[i] \in A
    BY <2>1, ListIsRow
  <2> QED
    BY <2>2, <2>3 DEF IsRow
<1>2. DOMAIN spec = {file[i].prefix : i \in DOMAIN file}
  BY DEF AddressColumnSpec
<1>3. ASSUME NEW p \in DOMAIN spec
      PROVE  /\ DOMAIN spec[p] = Fields
             /\ \A f \in Fields : spec[p][f] \in Seq(Names) /\ spec[p][f] = NamesFor(p, f)
  <2> DEFINE members == {i \in DOMAIN file : file[i].prefix = p}
             L1 == CHOOSE i \in DOMAIN file :
                       /\ file[i].prefix = p
                       /\ \A k \in DOMAIN file : file[k].prefix = p => k <= i
             L2 == CHOOSE i \in members : \A k \in members : k <= i
  <2>1. \E i \in members : \A k \in members : k <= i
    <3>1. members # {} /\ members \subseteq 1..Len(file)
      BY <1>1, <1>2
    <3> HIDE DEF members
    <3> QED
      BY <1>1, <3>1, LastPosition
  <2>2. L1 \in members /\ \A k \in members : k <= L1
    BY <2>1
  <2>3. L2 \in members /\ \A k \in members : k <= L2
    BY <2>1
  <2> HIDE DEF L1, L2
  <2>4. L1 = L2 /\ L1 \in DOMAIN file
    BY <1>1, <2>2, <2>3
  <2>5. spec[p] = AddressColumnKeys(file[L1].fields)
    BY <1>2 DEF AddressColumnSpec, L1
  <2>6. ASSUME NEW f \in Fields
        PROVE  spec[p][f] \in Seq(Names) /\ spec[p][f] = NamesFor(p, f)
    <3> DEFINE fields == file[L1].fields
    <3>1. fields \in Seq([name : STRING, value : Values])
      BY <1>1, <2>4
    <3>2. spec[p][f] = IF Given(fields, f) = {} THEN <<>>
                       ELSE fields[CHOOSE j \in Given(fields, f) : TRUE].value.names
      BY <2>5 DEF AddressColumnKeys
    <3>3. NamesFor(p, f) = IF Given(fields, f) = {} THEN <<>>
                           ELSE fields[CHOOSE j \in Given(fields, f) : TRUE].value.names
      BY <2>4 DEF NamesFor, Given, L2
    <3>4. ASSUME Given(fields, f) # {}
          PROVE  fields[CHOOSE j \in Given(fields, f) : TRUE].value.names \in Seq(Names)
      <4> DEFINE j == CHOOSE j \in Given(fields, f) : TRUE
      <4>1. j \in DOMAIN fields
        BY <3>4 DEF Given
      <4> HIDE DEF j
      <4>2. fields[j] \in [name : STRING, value : Values]
        BY <3>1, <4>1, LenProperties, ElementOfSeq
      <4> QED
        BY <4>2, ValueNames DEF j
    <3> QED
      BY <3>2, <3>3, <3>4
  <2> QED
    BY <2>5, <2>6 DEF AddressColumnKeys
<1> QED
  BY <1>1, <1>2, <1>3 DEF SpecGood

-------------------------------------------------------------------------------
\* The columns that are announced.

Width == Len(ColumnNames)
Count == Len(SpecPrefixes)

LEMMA AnnouncedIs ==
    ASSUME NEW p \in AllPrefixes
    PROVE  /\ Width \in Nat /\ DOMAIN ColumnNames = 1..Width /\ IsRow(Announced(p), Width)
           /\ \A c \in 1..Width : /\ Announced(p)[c] = FullName(p, ColumnNames[c])
                                  /\ Announced(p)[c] \in Names
           /\ ToSet(Announced(p)) = {FullName(p, ColumnNames[c]) : c \in 1..Width}
<1>1. Width \in Nat /\ DOMAIN ColumnNames = 1..Width
  BY ColumnAssumption, LenProperties DEF Width
<1>2. \A c \in 1..Width : ColumnNames[c] \in ToSet(ColumnNames)
  BY <1>1 DEF ToSet
<1>3. Announced(p) = [c \in 1..Width |-> FullName(p, ColumnNames[c])]
  BY <1>1 DEF Announced
<1>4. \A c \in 1..Width : Announced(p)[c] \in Names
  <2> TAKE c \in 1..Width
  <2>1. FullName(p, ColumnNames[c]) \in Names
    BY <1>2, ColumnAssumption
  <2> QED
    BY <1>3, <2>1
<1> QED
  BY <1>1, <1>3, <1>4 DEF IsRow, ToSet

\* The prefixes of the specification, each once.
LEMMA PrefixesAre ==
    ASSUME SpecGood
    PROVE  /\ Count \in Nat /\ DOMAIN SpecPrefixes = 1..Count
           /\ \A m \in 1..Count : SpecPrefixes[m] \in DOMAIN spec
           /\ \A p \in DOMAIN spec : \E m \in 1..Count : SpecPrefixes[m] = p
           /\ \A l, m \in 1..Count : SpecPrefixes[l] = SpecPrefixes[m] => l = m
<1> DEFINE n == Len(PrefixOrder)
           S == {i \in DOMAIN PrefixOrder : PrefixOrder[i] \in DOMAIN spec}
           m == Cardinality(S)
<1>1. n \in Nat /\ DOMAIN PrefixOrder = 1..n /\ PrefixOrder \in Seq(STRING)
  BY ColumnAssumption, LenProperties
<1>2. S \subseteq 1..n /\ S \subseteq DOMAIN PrefixOrder /\ SpecPrefixes = Selected(PrefixOrder, S)
  BY <1>1 DEF SpecPrefixes
<1>3. \A i \in DOMAIN PrefixOrder : i \in S <=> PrefixOrder[i] \in DOMAIN spec
  OBVIOUS
<1> HIDE DEF n, S
<1>4. IsPart(SpecPrefixes, PrefixOrder, S)
  BY <1>1, <1>2, SelectedIs
<1>5. /\ Len(SpecPrefixes) = m /\ m \in Nat /\ DOMAIN SpecPrefixes = 1..m
      /\ \A k \in 1..m : /\ Positions(S)[k] \in S /\ Rank(S, Positions(S)[k]) = k
                         /\ SpecPrefixes[k] = PrefixOrder[Positions(S)[k]]
      /\ \A i \in S : Rank(S, i) \in 1..m /\ SpecPrefixes[Rank(S, i)] = PrefixOrder[i]
  BY <1>4 DEF IsPart, IsRow
<1>6. \A k \in 1..m : SpecPrefixes[k] \in DOMAIN spec
  BY <1>2, <1>3, <1>5
<1>7. ASSUME NEW p \in DOMAIN spec
      PROVE  \E k \in 1..m : SpecPrefixes[k] = p
  <2>1. p \in ToSet(PrefixOrder)
    BY DEF SpecGood, AllPrefixes
  <2>2. PICK i \in DOMAIN PrefixOrder : PrefixOrder[i] = p
    BY <2>1 DEF ToSet
  <2>3. i \in S
    BY <1>3, <2>2
  <2> QED
    BY <1>5, <2>2, <2>3
<1>8. ASSUME NEW k \in 1..m, NEW l \in 1..m, SpecPrefixes[k] = SpecPrefixes[l]
      PROVE  k = l
  <2> DEFINE i == Positions(S)[k]
             j == Positions(S)[l]
  <2>1. i \in DOMAIN PrefixOrder /\ j \in DOMAIN PrefixOrder /\ PrefixOrder[i] = PrefixOrder[j]
    BY <1>2, <1>5, <1>8
  <2> HIDE DEF i, j
  <2>2. i = j
    BY <2>1, ColumnAssumption DEF IsInjective
  <2>3. Positions(S)[k] = Positions(S)[l]
    BY <2>2 DEF i, j
  <2> QED
    BY <1>5, <2>3
<1>9. Count = m
  BY <1>5 DEF Count
<1> HIDE DEF m
<1> QED
  BY <1>5, <1>6, <1>7, <1>8, <1>9

-------------------------------------------------------------------------------
\* The columns that stay.

\* A list as long as the header, without the columns that `removed` flags.
Kept(removed) == {i \in 1..Len(header) : ~removed[i]}
Rest == Cardinality(Kept(Flags))

LEMMA WithoutIs ==
    ASSUME Table, NEW s, IsRow(s, Len(header)), NEW removed
    PROVE  IsPart(Without(s, removed), s, Kept(removed))
<1>1. Len(header) \in Nat
  BY HeaderIsRow
<1>2. DOMAIN s = 1..Len(header)
  BY DEF IsRow
<1>3. Without(s, removed) = Selected(s, Kept(removed)) /\ Kept(removed) \subseteq 1..Len(header)
  BY <1>2 DEF Without, Kept
<1> QED
  BY <1>1, <1>3, SelectedIs

LEMMA RemainingIs ==
    ASSUME Table
    PROVE  /\ IsPart(Remaining, header, Kept(Flags)) /\ Rest \in Nat /\ IsRow(Remaining, Rest)
           /\ Len(Remaining) = Rest /\ DOMAIN Remaining = 1..Rest
           /\ \A j \in 1..Rest : Remaining[j] \in Names
<1>1. IsRow(header, Len(header)) /\ \A i \in 1..Len(header) : header[i] \in Names
  BY HeaderIsRow
<1>2. IsPart(Remaining, header, Kept(Flags))
  BY <1>1, WithoutIs DEF Remaining
<1>3. \A j \in 1..Rest : Remaining[j] \in Names
  BY <1>1, <1>2 DEF IsPart, Rest, Kept
<1> QED
  BY <1>2, <1>3 DEF IsPart, IsRow, Rest

\* The column of a name has one position, in the header and in what stays of it.
SamePlace(nm) ==
    /\ Position(Remaining, nm) \in 1..Rest
    /\ Position(header, nm) \in 1..Len(header)
    /\ \A row : IsRow(row, Len(header)) =>
           Without(row, Flags)[Position(Remaining, nm)] = row[Position(header, nm)]

LEMMA PlacesAre ==
    ASSUME Table, IsInjective(Remaining), NEW nm \in ToSet(Remaining)
    PROVE  SamePlace(nm)
<1> DEFINE K == Kept(Flags)
           i == Position(Remaining, nm)
           j == Position(header, nm)
           at == Positions(K)[i]
<1>1. /\ IsPart(Remaining, header, K) /\ DOMAIN Remaining = 1..Rest
      /\ Len(header) \in Nat /\ DOMAIN header = 1..Len(header)
  BY RemainingIs, HeaderIsRow
<1>2. i \in 1..Rest /\ Remaining[i] = nm
  <2>1. \E k \in DOMAIN Remaining : Remaining[k] = nm
    BY DEF ToSet
  <2> QED
    BY <1>1, <2>1 DEF Position
<1> HIDE DEF i
<1>3. /\ \A k \in 1..Rest : /\ Positions(K)[k] \in K /\ Rank(K, Positions(K)[k]) = k
                          /\ Remaining[k] = header[Positions(K)[k]]
      /\ \A k \in K : Rank(K, k) \in 1..Rest /\ Remaining[Rank(K, k)] = header[k]
  BY <1>1 DEF IsPart, Rest
<1>4. at \in K /\ Rank(K, at) = i /\ header[at] = nm
  BY <1>2, <1>3
<1> HIDE DEF at
<1>5. at \in 1..Len(header) /\ K \subseteq 1..Len(header)
  BY <1>4 DEF Kept
<1>6. j \in 1..Len(header) /\ header[j] = nm
  BY <1>1, <1>4, <1>5 DEF Position
<1> HIDE DEF j
<1>7. j \in K
  <2>1. ~Flags[at]
    BY <1>4 DEF Kept
  <2>2. Flags[j] <=> Flags[at]
    BY <1>1, <1>4, <1>5, <1>6 DEF Flags, Duplicates
  <2> QED
    BY <1>6, <2>1, <2>2 DEF Kept
<1>8. j = at
  <2>1. Rank(K, j) \in 1..Rest /\ Remaining[Rank(K, j)] = Remaining[i]
    BY <1>2, <1>3, <1>6, <1>7
  <2>2. Rank(K, j) = i
    BY <1>1, <1>2, <2>1 DEF IsInjective
  <2>3. Positions(K)[Rank(K, j)] = j
    BY <1>1, <1>7 DEF IsPart
  <2> QED
    BY <2>2, <2>3 DEF at
<1>9. ASSUME NEW row, IsRow(row, Len(header))
      PROVE  Without(row, Flags)[i] = row[j]
  <2>1. IsPart(Without(row, Flags), row, K)
    BY <1>9, WithoutIs
  <2>2. Without(row, Flags)[i] = row[Positions(K)[i]]
    BY <1>2, <2>1 DEF IsPart, Rest
  <2> QED
    BY <1>8, <2>2 DEF at
<1> QED
  BY <1>2, <1>6, <1>9 DEF SamePlace, i, j

\* What is known when the header is accepted.
Accepted ==
    /\ Table /\ SpecGood /\ ~Refused
    /\ flags = Flags /\ indices = [p \in DOMAIN spec |-> ToIndices(Remaining, spec[p])]

LEMMA AcceptedPlaces ==
    ASSUME Accepted, NEW p \in DOMAIN spec, NEW f \in Fields
    PROVE  /\ DOMAIN spec[p][f] = 1..Len(spec[p][f]) /\ Len(spec[p][f]) \in Nat
           /\ \A k \in DOMAIN spec[p][f] : SamePlace(spec[p][f][k])
           /\ indices[p][f] = [k \in DOMAIN spec[p][f] |-> Position(Remaining, spec[p][f][k])]
<1>1. Table /\ IsInjective(Remaining) /\ Known(Remaining, spec[p])
  BY DEF Accepted, Refused, DuplicateHeader
<1>2. DOMAIN spec[p] = Fields /\ spec[p][f] \in Seq(Names)
  BY DEF Accepted, SpecGood
<1>3. DOMAIN spec[p][f] = 1..Len(spec[p][f]) /\ Len(spec[p][f]) \in Nat
  BY <1>2, LenProperties
<1>4. ASSUME NEW k \in DOMAIN spec[p][f]
      PROVE  SamePlace(spec[p][f][k])
  <2>1. spec[p][f][k] \in ToSet(Remaining)
    BY <1>1, <1>2 DEF Known, ToSet
  <2> QED
    BY <1>1, <2>1, PlacesAre
<1>5. indices[p][f] = [k \in DOMAIN spec[p][f] |-> Position(Remaining, spec[p][f][k])]
  BY <1>2 DEF Accepted, ToIndices
<1> QED
  BY <1>3, <1>4, <1>5

-------------------------------------------------------------------------------
\* The inductive invariant.

\* The columns before those of the m-th prefix.
HeadLen(m) == Rest + (m - 1) * Width

\* The header with the columns of the first m - 1 prefixes.
HeaderIs(h, m) ==
    /\ IsRow(h, HeadLen(m)) /\ Len(h) = HeadLen(m)
    /\ \A j \in 1..Rest : h[j] = Remaining[j]
    /\ \A q \in 1..(m - 1), c \in 1..Width :
           /\ HeadLen(q) + c \in 1..HeadLen(m)
           /\ h[HeadLen(q) + c] = FullName(SpecPrefixes[q], ColumnNames[c])
    /\ \A j \in 1..HeadLen(m) :
           j \in 1..Rest \/ \E q \in 1..(m - 1), c \in 1..Width : j = HeadLen(q) + c

\* The first w cells of the n-th row of the output.
Cell == FileCells \cup OutCells \cup {NoMatch}
Filled(row, n, w) ==
    /\ IsRow(row, w) /\ Len(row) = w
    /\ \A j \in 1..w : row[j] \in Cell /\ Belongs(row[j], n, outHeader[j])

\* The n-th row as it was read.
Recorded(n) == IsRow(read[n], Len(header)) /\ \A i \in 1..Len(header) : read[n][i] \in FileCells

\* What the geocoder may answer for a column of an address of the n-th row.
Answer(cell, n, p, c) == cell = NoMatch \/ cell = OutCell(NamedAddress(n, p), c)

\* The answers g for a chunk of k rows, after o that are written.
Answered(g, k, o) ==
    /\ Len(g) = Count * k
    /\ \A m \in 1..Count, r \in 1..k :
           /\ (m - 1) * k + r \in 1..Len(g)
           /\ IsRow(g[(m - 1) * k + r], Width)
           /\ \A c \in 1..Width : Answer(g[(m - 1) * k + r][c], o + r, SpecPrefixes[m], c)

Announcing == IF phase = "header" THEN next ELSE Count + 1
Serving == phase \in {"rows", "send", "layout", "done"}

Started ==
    /\ phase \in {"spec", "start"} => next = 1
    /\ phase = "start" => spec = AddressColumnSpec(file)
    /\ phase \in {"spec", "start", "header"} =>
           read = <<>> /\ rows = <<>> /\ geocoded = <<>> /\ out = <<>> /\ ~eof
HeaderKnown ==
    phase = "header" \/ Serving =>
        Accepted /\ Announcing \in 1..(Count + 1) /\ HeaderIs(outHeader, Announcing)
RowsRead == \A n \in 1..Len(read) : Recorded(n)
RowsWritten ==
    /\ Len(out) <= Len(read)
    /\ \A n \in 1..Len(out) : Filled(out[n], n, Len(outHeader))
RowsCounted == Serving => Len(read) = Len(out) + Len(rows)
ChunkTaken ==
    phase \in {"rows", "send"} =>
        /\ next = 1 /\ geocoded = <<>> /\ Len(rows) <= ChunkSize
        /\ \A r \in 1..Len(rows) : rows[r] = Without(read[Len(out) + r], flags)
        /\ phase = "rows" => ~eof /\ Len(rows) < ChunkSize
ChunkLaidOut ==
    phase = "layout" =>
        /\ next \in 1..(Count + 1) /\ Len(rows) # 0
        /\ \A r \in 1..Len(rows) : Filled(rows[r], Len(out) + r, HeadLen(next))
        /\ Answered(geocoded, Len(rows), Len(out))
AllWritten == phase = "done" => rows = <<>>

IInv ==
    /\ TypeOK /\ Table
    /\ Started /\ HeaderKnown
    /\ RowsRead /\ RowsWritten /\ RowsCounted
    /\ ChunkTaken /\ ChunkLaidOut /\ AllWritten

-------------------------------------------------------------------------------
\* What a step leaves.

LEMMA SameTable ==
    ASSUME UNCHANGED inputVars
    PROVE  /\ Table' <=> Table
           /\ Flags' = Flags /\ Remaining' = Remaining /\ Rest' = Rest
           /\ SpecPrefixes' = SpecPrefixes /\ Count' = Count /\ ChunkSize' = ChunkSize
           /\ Refused' <=> Refused
           /\ SpecGood' <=> SpecGood
           /\ \A m : HeadLen(m)' = HeadLen(m)
<1>1. policy' = policy /\ file' = file /\ spec' = spec /\ header' = header
  BY DEF inputVars
<1>2. Table' <=> Table
  BY <1>1 DEF Table
<1>3. Flags' = Flags
  BY <1>1 DEF Flags, Duplicates, OutNames
<1>4. Remaining' = Remaining
  BY <1>1, <1>3 DEF Remaining, Without
<1>5. Rest' = Rest
  BY <1>1, <1>3 DEF Rest, Kept
<1>6. SpecPrefixes' = SpecPrefixes
  BY <1>1 DEF SpecPrefixes
<1>7. Count' = Count
  BY <1>6 DEF Count
<1>8. ChunkSize' = ChunkSize
  BY <1>6 DEF ChunkSize
<1>9. Refused' <=> Refused
  BY <1>1, <1>4 DEF Refused, NamesCollide, Duplicates, OutNames, DuplicateHeader
<1>10. SpecGood' <=> SpecGood
  <2>1. \A p, f : NamesFor(p, f)' = NamesFor(p, f)
    BY <1>1 DEF NamesFor
  <2> QED
    BY <1>1, <2>1 DEF SpecGood
<1>11. \A m : HeadLen(m)' = HeadLen(m)
  BY <1>5 DEF HeadLen
<1> QED
  BY <1>2, <1>3, <1>4, <1>5, <1>6, <1>7, <1>8, <1>9, <1>10, <1>11

LEMMA SameRow ==
    ASSUME UNCHANGED inputVars, NEW n, read'[n] = read[n]
    PROVE  /\ \A cell, nm : Belongs(cell, n, nm)' <=> Belongs(cell, n, nm)
           /\ \A cell, p, c : Answer(cell, n, p, c)' <=> Answer(cell, n, p, c)
<1>1. policy' = policy /\ file' = file /\ spec' = spec /\ header' = header
  BY DEF inputVars
<1>2. \A p, f : NamesFor(p, f)' = NamesFor(p, f)
  BY <1>1 DEF NamesFor
<1>3. \A names : NamedText(n, names)' = NamedText(n, names)
  BY <1>1 DEF NamedText
<1>4. \A p : NamedAddress(n, p)' = NamedAddress(n, p)
  BY <1>2, <1>3 DEF NamedAddress
<1>5. ASSUME NEW cell, NEW nm
      PROVE  Belongs(cell, n, nm)' <=> Belongs(cell, n, nm)
  <2>1. (\E i \in DOMAIN header : header[i] = nm /\ cell = read[n][i])'
            <=> \E i \in DOMAIN header : header[i] = nm /\ cell = read[n][i]
    BY <1>1
  <2>2. (\E p \in DOMAIN spec, c \in DOMAIN ColumnNames :
             FullName(p, ColumnNames[c]) = nm
             /\ (cell = NoMatch \/ cell = OutCell(NamedAddress(n, p), c)))'
            <=> \E p \in DOMAIN spec, c \in DOMAIN ColumnNames :
                    FullName(p, ColumnNames[c]) = nm
                    /\ (cell = NoMatch \/ cell = OutCell(NamedAddress(n, p), c))
    BY <1>1, <1>4
  <2> QED
    BY <2>1, <2>2 DEF Belongs
<1>6. \A cell, p, c : Answer(cell, n, p, c)' <=> Answer(cell, n, p, c)
  BY <1>4 DEF Answer
<1> QED
  BY <1>5, <1>6

LEMMA SameFilled ==
    ASSUME UNCHANGED inputVars, UNCHANGED outHeader, NEW n, read'[n] = read[n],
           NEW row, NEW w, Filled(row, n, w)
    PROVE  Filled(row, n, w)'
<1>1. \A j \in 1..w : Belongs(row[j], n, outHeader[j])'
  <2>1. \A cell, nm : Belongs(cell, n, nm)' <=> Belongs(cell, n, nm)
    BY SameRow
  <2> QED
    BY <2>1 DEF Filled
<1> QED
  BY <1>1 DEF Filled

LEMMA SameAnswered ==
    ASSUME UNCHANGED inputVars, UNCHANGED read, NEW g, NEW k, NEW o
    PROVE  Answered(g, k, o)' <=> Answered(g, k, o)
<1>1. SpecPrefixes' = SpecPrefixes /\ Count' = Count
  BY SameTable
<1>2. \A n : read'[n] = read[n]
  OBVIOUS
<1>3. \A cell, n, p, c : Answer(cell, n, p, c)' <=> Answer(cell, n, p, c)
  BY <1>2, SameRow
<1>4. (\A m \in 1..Count, r \in 1..k :
           /\ (m - 1) * k + r \in 1..Len(g)
           /\ IsRow(g[(m - 1) * k + r], Width)
           /\ \A c \in 1..Width : Answer(g[(m - 1) * k + r][c], o + r, SpecPrefixes[m], c))'
      <=> \A m \in 1..Count, r \in 1..k :
           /\ (m - 1) * k + r \in 1..Len(g)
           /\ IsRow(g[(m - 1) * k + r], Width)
           /\ \A c \in 1..Width : Answer(g[(m - 1) * k + r][c], o + r, SpecPrefixes[m], c)
  BY <1>1, <1>3
<1> QED
  BY <1>1, <1>4 DEF Answered

LEMMA SameHeader ==
    ASSUME UNCHANGED inputVars, NEW h, NEW m
    PROVE  HeaderIs(h, m)' <=> HeaderIs(h, m)
<1>1. /\ Remaining' = Remaining /\ Rest' = Rest /\ SpecPrefixes' = SpecPrefixes
      /\ \A l : HeadLen(l)' = HeadLen(l)
  BY SameTable
<1>2. (IsRow(h, HeadLen(m)) /\ Len(h) = HeadLen(m))'
          <=> IsRow(h, HeadLen(m)) /\ Len(h) = HeadLen(m)
  BY <1>1
<1>3. (\A j \in 1..Rest : h[j] = Remaining[j])' <=> \A j \in 1..Rest : h[j] = Remaining[j]
  BY <1>1
<1>4. (\A q \in 1..(m - 1), c \in 1..Width :
           /\ HeadLen(q) + c \in 1..HeadLen(m)
           /\ h[HeadLen(q) + c] = FullName(SpecPrefixes[q], ColumnNames[c]))'
          <=> \A q \in 1..(m - 1), c \in 1..Width :
                  /\ HeadLen(q) + c \in 1..HeadLen(m)
                  /\ h[HeadLen(q) + c] = FullName(SpecPrefixes[q], ColumnNames[c])
  BY <1>1
<1>5. (\A j \in 1..HeadLen(m) :
           j \in 1..Rest \/ \E q \in 1..(m - 1), c \in 1..Width : j = HeadLen(q) + c)'
          <=> \A j \in 1..HeadLen(m) :
                  j \in 1..Rest \/ \E q \in 1..(m - 1), c \in 1..Width : j = HeadLen(q) + c
  BY <1>1
<1> QED
  BY <1>2, <1>3, <1>4, <1>5 DEF HeaderIs

LEMMA SameAccepted ==
    ASSUME UNCHANGED inputVars, UNCHANGED <<flags, indices>>
    PROVE  Accepted' <=> Accepted
<1>1. spec' = spec /\ flags' = flags /\ indices' = indices
  BY DEF inputVars
<1>2. /\ Table' <=> Table
      /\ Flags' = Flags /\ Remaining' = Remaining
      /\ Refused' <=> Refused
      /\ SpecGood' <=> SpecGood
  BY SameTable
<1> QED
  BY <1>1, <1>2 DEF Accepted

-------------------------------------------------------------------------------
\* Places in the header and in the list of addresses.

LEMMA ProductIsNat ==
    ASSUME NEW a \in Nat, NEW b \in Nat
    PROVE  a * b \in Nat
OBVIOUS

LEMMA HeadLenIs ==
    ASSUME Table, SpecGood
    PROVE  /\ Rest \in Nat /\ Width \in Nat /\ HeadLen(1) = Rest
           /\ \A m \in Nat \ {0} : HeadLen(m) \in Nat /\ HeadLen(m + 1) = HeadLen(m) + Width
<1>1. Rest \in Nat
  BY RemainingIs
<1>2. Width \in Nat
  <2>1. ColumnNames \in Seq(STRING)
    BY ColumnAssumption
  <2> QED
    BY <2>1, LenProperties DEF Width
<1> HIDE DEF Rest, Width
<1>3. HeadLen(1) = Rest
  BY <1>1, <1>2 DEF HeadLen
<1>4. ASSUME NEW m \in Nat \ {0}
      PROVE  HeadLen(m) \in Nat /\ HeadLen(m + 1) = HeadLen(m) + Width
  <2>1. (m - 1) * Width \in Nat
    <3>1. m - 1 \in Nat
      OBVIOUS
    <3> QED
      BY <1>2, <3>1, ProductIsNat
  <2>2. ((m + 1) - 1) * Width = (m - 1) * Width + Width
    BY <1>2
  <2> QED
    BY <1>1, <1>2, <2>1, <2>2 DEF HeadLen
<1> QED
  BY <1>1, <1>2, <1>3, <1>4

\* The address a is that of row r for prefix m.
LEMMA PlaceOf ==
    ASSUME NEW n \in Nat \ {0}, NEW C \in Nat, NEW a \in 1..(C * n)
    PROVE  /\ ((a - 1) % n) + 1 \in 1..n
           /\ ((a - 1) \div n) + 1 \in 1..C
<1> DEFINE d == (a - 1) \div n
           e == (a - 1) % n
<1>1. C * n \in Nat
  BY ProductIsNat
<1>2. a - 1 \in Nat /\ a - 1 < C * n
  BY <1>1
<1>3. d \in Int /\ e \in 0..(n - 1) /\ a - 1 = d * n + e
  <2> DEFINE b == a - 1
  <2>1. b \in Nat
    BY <1>2
  <2> HIDE DEF b
  <2>2. b \div n \in Int /\ b % n \in 0..(n - 1) /\ b = (b \div n) * n + (b % n)
    BY <2>1
  <2> QED
    BY <2>2 DEF b
<1> HIDE DEF d, e
<1>4. d >= 0
  <2> SUFFICES ASSUME d <= -1 PROVE FALSE
    BY <1>3
  <2>1. d * n <= (-1) * n
    BY <1>3
  <2> QED
    BY <1>2, <1>3, <2>1
<1>5. d < C
  <2> SUFFICES ASSUME C <= d PROVE FALSE
    BY <1>3
  <2>1. C * n <= d * n
    BY <1>3
  <2> QED
    BY <1>1, <1>2, <1>3, <2>1
<1> QED
  BY <1>3, <1>4, <1>5 DEF d, e

LEMMA PlaceIs ==
    ASSUME NEW n \in Nat \ {0}, NEW C \in Nat, NEW m \in 1..C, NEW r \in 1..n
    PROVE  /\ (m - 1) * n + r \in 1..(C * n)
           /\ ((((m - 1) * n + r) - 1) % n) + 1 = r
           /\ ((((m - 1) * n + r) - 1) \div n) + 1 = m
<1> DEFINE k == m - 1
           s == r - 1
           b == k * n + s
<1>1. k \in Nat /\ k + 1 <= C /\ s \in 0..(n - 1) /\ m = k + 1 /\ r = s + 1
  OBVIOUS
<1> HIDE DEF k, s
<1>2. k * n \in Nat /\ C * n \in Nat
  BY <1>1, ProductIsNat
<1>3. (k + 1) * n <= C * n
  <2>1. C - (k + 1) \in Nat
    BY <1>1
  <2>2. (C - (k + 1)) * n \in Nat
    BY <2>1, ProductIsNat
  <2> QED
    BY <1>1, <1>2, <2>2
<1>4. (k + 1) * n = k * n + n
  BY <1>1
<1>5. b \in Nat
  BY <1>1, <1>2
<1>6. b \div n = k /\ b % n = s
  <2>1. b \div n \in Int /\ b % n \in 0..(n - 1) /\ b = (b \div n) * n + (b % n)
    <3> HIDE DEF b
    <3> QED
      BY <1>5
  <2> DEFINE d == b \div n
             e == b % n
  <2>2. d \in Int /\ e \in 0..(n - 1) /\ k * n + s = d * n + e
    BY <2>1
  <2> HIDE DEF d, e
  <2>3. ~(d >= k + 1)
    <3> SUFFICES ASSUME d >= k + 1 PROVE FALSE
      OBVIOUS
    <3>1. (d - (k + 1)) * n \in Nat
      <4>1. d - (k + 1) \in Nat
        BY <1>1, <2>2
      <4> QED
        BY <4>1, ProductIsNat
    <3>2. (d - (k + 1)) * n = d * n - (k * n + n)
      BY <1>1, <2>2
    <3>3. d * n \in Int /\ k * n \in Int
      BY <1>1, <2>2
    <3> QED
      BY <1>1, <2>2, <3>1, <3>2, <3>3
  <2>4. ~(d <= k - 1)
    <3> SUFFICES ASSUME d <= k - 1 PROVE FALSE
      OBVIOUS
    <3>1. (k - (d + 1)) * n \in Nat
      <4>1. k - (d + 1) \in Nat
        BY <1>1, <2>2
      <4> QED
        BY <4>1, ProductIsNat
    <3>2. (k - (d + 1)) * n = k * n - (d * n + n)
      BY <1>1, <2>2
    <3>3. d * n \in Int /\ k * n \in Int
      BY <1>1, <2>2
    <3> QED
      BY <1>1, <2>2, <3>1, <3>2, <3>3
  <2>5. d = k
    BY <1>1, <2>2, <2>3, <2>4
  <2>6. e = s
    BY <1>1, <1>2, <2>2, <2>5
  <2> QED
    BY <2>5, <2>6 DEF d, e
<1>7. ((m - 1) * n + r) - 1 = b
  BY <1>1, <1>2 DEF k
<1>8. (m - 1) * n + r \in 1..(C * n)
  BY <1>1, <1>2, <1>3, <1>4 DEF k
<1> HIDE DEF b
<1> QED
  BY <1>1, <1>6, <1>7, <1>8

-------------------------------------------------------------------------------
\* The addresses of a chunk.

LEMMA TextIs ==
    ASSUME Accepted, NEW n, Recorded(n), NEW p \in DOMAIN spec, NEW f \in Fields
    PROVE  /\ Text(Without(read[n], flags), indices[p][f]) = NamedText(n, NamesFor(p, f))
           /\ NamedText(n, NamesFor(p, f)) \in Seq(Seq(Words))
<1> DEFINE names == spec[p][f]
           row == Without(read[n], Flags)
           l == Len(names)
<1>1. /\ names = NamesFor(p, f) /\ flags = Flags
      /\ DOMAIN names = 1..l /\ l \in Nat
      /\ indices[p][f] = [k \in DOMAIN names |-> Position(Remaining, names[k])]
  BY AcceptedPlaces DEF Accepted, SpecGood
<1>2. \A k \in DOMAIN names : SamePlace(names[k])
  BY AcceptedPlaces
<1> HIDE DEF l, names
<1>3. ASSUME NEW k \in DOMAIN names
      PROVE  /\ row[Position(Remaining, names[k])].text = read[n][Position(header, names[k])].text
             /\ read[n][Position(header, names[k])].text \in Seq(Words)
  <2>1. SamePlace(names[k])
    BY <1>2
  <2>2. row[Position(Remaining, names[k])] = read[n][Position(header, names[k])]
    BY <2>1 DEF SamePlace, Recorded
  <2>3. read[n][Position(header, names[k])] \in FileCells
    BY <2>1 DEF SamePlace, Recorded
  <2> QED
    BY <2>2, <2>3 DEF FileCells
<1> HIDE DEF row
<1>4. Text(row, indices[p][f])
        = [k \in DOMAIN names |-> row[Position(Remaining, names[k])].text]
  BY <1>1 DEF Text
<1>5. [k \in DOMAIN names |-> row[Position(Remaining, names[k])].text] = NamedText(n, names)
  BY <1>3 DEF NamedText
<1>6. NamedText(n, names) \in Seq(Seq(Words))
  <2>1. NamedText(n, names) \in [1..l -> Seq(Words)]
    BY <1>1, <1>3 DEF NamedText
  <2> QED
    BY <1>1, <2>1, IsASeq
<1> QED
  BY <1>1, <1>4, <1>5, <1>6 DEF row

AddressType ==
    [street : Seq(Words), city : Seq(Seq(Words)), state : Seq(Seq(Words)), zipcode : Seq(Seq(Words))]

\* The address of a row in the chunk is the one that the specification names.
LEMMA AddressIs ==
    ASSUME Accepted, NEW n, Recorded(n), NEW p \in DOMAIN spec
    PROVE  /\ Address(Without(read[n], flags), indices[p]) = NamedAddress(n, p)
           /\ NamedAddress(n, p) \in AddressType
<1> DEFINE row == Without(read[n], flags)
           named(f) == NamedText(n, NamesFor(p, f))
<1>1. \A f \in Fields : Text(row, indices[p][f]) = named(f)
  BY TextIs
<1>2. \A f \in Fields : named(f) \in Seq(Seq(Words))
  BY TextIs
<1> HIDE DEF row, named
<1>3. Address(row, indices[p]) = [f \in Fields |-> IF f = "street" THEN Join(named(f)) ELSE named(f)]
  BY <1>1 DEF Address
<1>4. NamedAddress(n, p) = [f \in Fields |-> IF f = "street" THEN Join(named(f)) ELSE named(f)]
  BY DEF NamedAddress, named
<1>5. Join(named("street")) \in Seq(Words)
  BY <1>2, JoinType DEF Fields
<1>6. NamedAddress(n, p) \in AddressType
  <2> DEFINE a == NamedAddress(n, p)
  <2>1. a = [f \in {"street", "city", "state", "zipcode"} |-> a[f]]
    BY <1>4 DEF Fields, Optional
  <2>2. a["street"] \in Seq(Words)
    BY <1>4, <1>5 DEF Fields
  <2>3. a["city"] \in Seq(Seq(Words)) /\ a["state"] \in Seq(Seq(Words)) /\ a["zipcode"] \in Seq(Seq(Words))
    BY <1>2, <1>4 DEF Fields, Optional
  <2> HIDE DEF a
  <2>4. a \in AddressType
    BY <2>1, <2>2, <2>3 DEF AddressType
  <2> QED
    BY <2>4 DEF a
<1> QED
  BY <1>3, <1>4, <1>6 DEF row

\* The list of them is ordered by prefix, and then by row.
LEMMA AddressesAre ==
    ASSUME SpecGood, Len(rows) \in Nat \ {0}
    PROVE  /\ DOMAIN Addresses = 1..(Count * Len(rows))
           /\ \A m \in 1..Count, r \in 1..Len(rows) :
                  /\ (m - 1) * Len(rows) + r \in 1..(Count * Len(rows))
                  /\ Addresses[(m - 1) * Len(rows) + r] = Address(rows[r], indices[SpecPrefixes[m]])
           /\ \A a \in 1..(Count * Len(rows)) :
                  \E m \in 1..Count, r \in 1..Len(rows) :
                      Addresses[a] = Address(rows[r], indices[SpecPrefixes[m]])
<1> DEFINE n == Len(rows)
           Nth(m, r) == Address(rows[r], indices[SpecPrefixes[m]])
<1>1. Count \in Nat
  BY PrefixesAre
<1>2. Addresses = [a \in 1..(Count * n) |-> Nth(((a - 1) \div n) + 1, ((a - 1) % n) + 1)]
  BY DEF Addresses, Count
<1>3. n \in Nat \ {0}
  OBVIOUS
<1> HIDE DEF n, Nth
<1>4. ASSUME NEW m \in 1..Count, NEW r \in 1..n
      PROVE  (m - 1) * n + r \in 1..(Count * n) /\ Addresses[(m - 1) * n + r] = Nth(m, r)
  <2> DEFINE a == (m - 1) * n + r
  <2>1. a \in 1..(Count * n) /\ ((a - 1) % n) + 1 = r /\ ((a - 1) \div n) + 1 = m
    BY <1>1, <1>3, PlaceIs
  <2> HIDE DEF a
  <2>2. Addresses[a] = Nth(m, r)
    BY <1>2, <2>1
  <2> QED
    BY <2>1, <2>2 DEF a
<1>5. ASSUME NEW a \in 1..(Count * n)
      PROVE  \E m \in 1..Count, r \in 1..n : Addresses[a] = Nth(m, r)
  <2> DEFINE r == ((a - 1) % n) + 1
             m == ((a - 1) \div n) + 1
  <2>1. r \in 1..n /\ m \in 1..Count
    BY <1>1, <1>3, PlaceOf
  <2>2. Addresses[a] = Nth(m, r)
    BY <1>2
  <2> HIDE DEF r, m
  <2> QED
    BY <2>1, <2>2
<1>6. DOMAIN Addresses = 1..(Count * n)
  BY <1>2
<1> QED
  BY <1>4, <1>5, <1>6 DEF n, Nth

-------------------------------------------------------------------------------
\* The header that is written.

LEMMA HeaderStarts ==
    ASSUME Table, SpecGood
    PROVE  HeaderIs(Remaining, 1)
<1>1. Table /\ SpecGood
  OBVIOUS
<1>2. HeadLen(1) = Rest /\ Rest \in Nat
  BY <1>1, HeadLenIs
<1>3. IsRow(Remaining, Rest) /\ Len(Remaining) = Rest
  BY <1>1, RemainingIs
<1> HIDE DEF Rest, Remaining
<1>4. \A q \in 1..(1 - 1) : FALSE
  OBVIOUS
<1>5. \A j \in 1..HeadLen(1) : j \in 1..Rest
  BY <1>2
<1> QED
  BY <1>2, <1>3, <1>4, <1>5 DEF HeaderIs

LEMMA HeaderGrows ==
    ASSUME Table, SpecGood, NEW m \in 1..Count, NEW h, HeaderIs(h, m)
    PROVE  HeaderIs(h \o Announced(SpecPrefixes[m]), m + 1)
<1> DEFINE cols == Announced(SpecPrefixes[m])
           g == h \o cols
           n == HeadLen(m)
           w == HeadLen(m + 1)
<1>1. Table /\ SpecGood
  OBVIOUS
<1>2. Count \in Nat /\ SpecPrefixes[m] \in AllPrefixes
  BY <1>1, PrefixesAre DEF SpecGood
<1>3. /\ Width \in Nat /\ IsRow(cols, Width)
      /\ \A c \in 1..Width : cols[c] = FullName(SpecPrefixes[m], ColumnNames[c])
  BY <1>2, AnnouncedIs
<1>4. Rest \in Nat /\ n \in Nat /\ w = n + Width
  <2>1. m \in Nat \ {0}
    BY <1>2
  <2> QED
    BY <1>1, <2>1, HeadLenIs
<1>5. /\ IsRow(h, n) /\ Len(h) = n
      /\ \A j \in 1..Rest : h[j] = Remaining[j]
      /\ \A q \in 1..(m - 1), c \in 1..Width :
             /\ HeadLen(q) + c \in 1..n
             /\ h[HeadLen(q) + c] = FullName(SpecPrefixes[q], ColumnNames[c])
      /\ \A j \in 1..n : j \in 1..Rest \/ \E q \in 1..(m - 1), c \in 1..Width : j = HeadLen(q) + c
  BY DEF HeaderIs
<1>6. Rest <= n
  <2>1. n = Rest + (m - 1) * Width /\ m - 1 \in Nat
    BY <1>2 DEF HeadLen
  <2>2. (m - 1) * Width \in Nat
    BY <1>3, <2>1, ProductIsNat
  <2> QED
    BY <1>4, <2>1, <2>2
<1> HIDE DEF cols, n, w
<1>7. IsJoin(g, h, n, cols, Width)
  BY <1>3, <1>4, <1>5, Joined
<1> HIDE DEF g
<1>8. /\ IsRow(g, w) /\ Len(g) = w
      /\ \A j \in 1..n : g[j] = h[j]
      /\ \A j \in 1..Width : g[n + j] = cols[j]
  BY <1>4, <1>7 DEF IsJoin
<1>9. \A j \in 1..Rest : g[j] = Remaining[j]
  BY <1>4, <1>5, <1>6, <1>8
<1>10. ASSUME NEW q \in 1..m, NEW c \in 1..Width
       PROVE  /\ HeadLen(q) + c \in 1..w
              /\ g[HeadLen(q) + c] = FullName(SpecPrefixes[q], ColumnNames[c])
  <2>1. CASE q = m
    <3>1. HeadLen(q) + c = n + c
      BY <2>1 DEF n
    <3>2. n + c \in 1..w
      BY <1>3, <1>4
    <3>3. g[n + c] = FullName(SpecPrefixes[q], ColumnNames[c])
      BY <1>3, <1>8, <2>1
    <3> QED
      BY <3>1, <3>2, <3>3
  <2>2. CASE q # m
    <3>1. q \in 1..(m - 1)
      BY <1>2, <2>2
    <3>2. /\ HeadLen(q) + c \in 1..n
          /\ h[HeadLen(q) + c] = FullName(SpecPrefixes[q], ColumnNames[c])
      BY <1>5, <3>1
    <3> QED
      BY <1>3, <1>4, <1>8, <3>2
  <2> QED
    BY <2>1, <2>2
<1>11. ASSUME NEW j \in 1..w
       PROVE  j \in 1..Rest \/ \E q \in 1..m, c \in 1..Width : j = HeadLen(q) + c
  <2>1. CASE j <= n
    <3>1. j \in 1..n
      BY <1>4, <2>1
    <3>2. \A q \in 1..(m - 1) : q \in 1..m
      BY <1>2
    <3> QED
      BY <1>5, <3>1, <3>2
  <2>2. CASE ~(j <= n)
    <3>1. j - n \in 1..Width /\ j = n + (j - n) /\ m \in 1..m
      BY <1>2, <1>3, <1>4, <2>2
    <3> QED
      BY <3>1 DEF n
  <2> QED
    BY <2>1, <2>2
<1>12. (m + 1) - 1 = m
  BY <1>2
<1>13. HeaderIs(g, m + 1)
  BY <1>8, <1>9, <1>10, <1>11, <1>12 DEF HeaderIs, w
<1> QED
  BY <1>13 DEF g, cols

\* What the complete header is.
LEMMA HeaderComplete ==
    ASSUME Accepted, NEW h, HeaderIs(h, Count + 1)
    PROVE  /\ Count \in Nat /\ (Count + 1) - 1 = Count
           /\ Rest \in Nat /\ HeadLen(Count + 1) \in Nat
           /\ DOMAIN h = 1..HeadLen(Count + 1) /\ Len(h) = HeadLen(Count + 1)
           /\ \A j \in 1..Rest : j \in DOMAIN h /\ h[j] = Remaining[j]
           /\ \A q \in 1..Count, c \in 1..Width :
                  /\ HeadLen(q) + c \in DOMAIN h
                  /\ h[HeadLen(q) + c] = FullName(SpecPrefixes[q], ColumnNames[c])
           /\ \A j \in DOMAIN h :
                  j \in 1..Rest \/ \E q \in 1..Count, c \in 1..Width : j = HeadLen(q) + c
<1>1. Table /\ SpecGood
  BY DEF Accepted
<1>2. Count \in Nat
  BY <1>1, PrefixesAre
<1>3. (Count + 1) - 1 = Count
  BY <1>2
<1>4. Rest \in Nat /\ Width \in Nat /\ HeadLen(Count + 1) \in Nat
  <2>1. Count + 1 \in Nat \ {0}
    BY <1>2
  <2> QED
    BY <1>1, <2>1, HeadLenIs
<1>5. DOMAIN h = 1..HeadLen(Count + 1) /\ Len(h) = HeadLen(Count + 1)
  BY DEF HeaderIs, IsRow
<1>6. Rest <= HeadLen(Count + 1)
  <2>1. HeadLen(Count + 1) = Rest + Count * Width
    BY <1>3 DEF HeadLen
  <2>2. Count * Width \in Nat
    BY <1>2, <1>4, ProductIsNat
  <2> QED
    BY <1>4, <2>1, <2>2
<1>7. \A j \in 1..Rest : j \in DOMAIN h /\ h[j] = Remaining[j]
  <2>1. \A j \in 1..Rest : h[j] = Remaining[j]
    BY DEF HeaderIs
  <2>2. \A j \in 1..Rest : j \in DOMAIN h
    BY <1>4, <1>5, <1>6
  <2> QED
    BY <2>1, <2>2
<1>8. \A q \in 1..Count, c \in 1..Width :
          /\ HeadLen(q) + c \in DOMAIN h
          /\ h[HeadLen(q) + c] = FullName(SpecPrefixes[q], ColumnNames[c])
  BY <1>3, <1>5 DEF HeaderIs
<1>9. \A j \in DOMAIN h :
          j \in 1..Rest \/ \E q \in 1..Count, c \in 1..Width : j = HeadLen(q) + c
  BY <1>3, <1>5 DEF HeaderIs
<1> QED
  BY <1>2, <1>3, <1>4, <1>5, <1>7, <1>8, <1>9

LEMMA NamesKept ==
    ASSUME Accepted, NEW h, HeaderIs(h, Count + 1)
    PROVE  ToSet(header) \subseteq ToSet(h)
<1> DEFINE K == Kept(Flags)
<1>1. Table /\ SpecGood /\ DOMAIN header = 1..Len(header)
  BY HeaderIsRow DEF Accepted
<1>2. SUFFICES ASSUME NEW i \in DOMAIN header
               PROVE  \E j \in DOMAIN h : h[j] = header[i]
  BY DEF ToSet
<1>3. /\ \A j \in 1..Rest : j \in DOMAIN h /\ h[j] = Remaining[j]
      /\ \A q \in 1..Count, c \in 1..Width :
             /\ HeadLen(q) + c \in DOMAIN h
             /\ h[HeadLen(q) + c] = FullName(SpecPrefixes[q], ColumnNames[c])
  BY HeaderComplete
<1>4. CASE i \in K
  <2>1. IsPart(Remaining, header, K)
    BY <1>1, RemainingIs
  <2>2. Rank(K, i) \in 1..Rest /\ Remaining[Rank(K, i)] = header[i]
    BY <1>4, <2>1 DEF IsPart, Rest
  <2> QED
    BY <1>3, <2>2
<1>5. CASE i \notin K
  <2>1. Flags[i]
    BY <1>1, <1>5 DEF Kept
  <2>2. header[i] \in OutNames
    BY <2>1 DEF Flags, Duplicates
  <2>3. PICK p \in DOMAIN spec : header[i] \in ToSet(Announced(p))
    BY <2>2 DEF OutNames
  <2>4. p \in AllPrefixes
    BY <1>1 DEF SpecGood
  <2>5. PICK c \in 1..Width : header[i] = FullName(p, ColumnNames[c])
    BY <2>3, <2>4, AnnouncedIs
  <2>6. PICK q \in 1..Count : SpecPrefixes[q] = p
    BY <1>1, PrefixesAre
  <2>7. h[HeadLen(q) + c] = header[i] /\ HeadLen(q) + c \in DOMAIN h
    BY <1>3, <2>5, <2>6
  <2> QED
    BY <2>7
<1> QED
  BY <1>4, <1>5

\* The names a specification announces are distinct, and a column that stays has none
\* of them when the output must not have two columns of one name.
LEMMA NamesApart ==
    ASSUME Accepted
    PROVE  /\ \A q, r \in 1..Count, c, d \in 1..Width :
                  FullName(SpecPrefixes[q], ColumnNames[c]) = FullName(SpecPrefixes[r], ColumnNames[d])
                      => q = r /\ c = d
           /\ policy # "append" =>
                  \A j \in 1..Rest, q \in 1..Count, c \in 1..Width :
                      Remaining[j] # FullName(SpecPrefixes[q], ColumnNames[c])
<1>1. Table /\ SpecGood /\ ~Refused
  BY DEF Accepted
<1>2. /\ Count \in Nat
      /\ \A m \in 1..Count : SpecPrefixes[m] \in DOMAIN spec
      /\ \A l, m \in 1..Count : SpecPrefixes[l] = SpecPrefixes[m] => l = m
  BY <1>1, PrefixesAre
<1>3. \A p \in DOMAIN spec : p \in AllPrefixes
  BY <1>1 DEF SpecGood
<1>4. /\ Width \in Nat /\ DOMAIN ColumnNames = 1..Width
      /\ \A c \in 1..Width : ColumnNames[c] \in ToSet(ColumnNames)
  <2>1. ColumnNames \in Seq(STRING)
    BY ColumnAssumption
  <2>2. Width \in Nat /\ DOMAIN ColumnNames = 1..Width
    BY <2>1, LenProperties DEF Width
  <2> QED
    BY <2>2 DEF ToSet
<1>5. \A p \in DOMAIN spec, c \in 1..Width : FullName(p, ColumnNames[c]) \in ToSet(Announced(p))
  <2> TAKE p \in DOMAIN spec, c \in 1..Width
  <2>1. ToSet(Announced(p)) = {FullName(p, ColumnNames[k]) : k \in 1..Width}
    BY <1>3, AnnouncedIs
  <2> QED
    BY <2>1
<1>6. ASSUME NEW q \in 1..Count, NEW r \in 1..Count, NEW c \in 1..Width, NEW d \in 1..Width,
             FullName(SpecPrefixes[q], ColumnNames[c]) = FullName(SpecPrefixes[r], ColumnNames[d])
      PROVE  q = r /\ c = d
  <2> DEFINE p == SpecPrefixes[q]
             o == SpecPrefixes[r]
  <2>1. p \in DOMAIN spec /\ o \in DOMAIN spec
    BY <1>2
  <2> HIDE DEF p, o
  <2>2. FullName(p, ColumnNames[c]) \in ToSet(Announced(p)) \cap ToSet(Announced(o))
    BY <1>5, <1>6, <2>1 DEF p, o
  <2>3. p = o
    BY <1>1, <2>1, <2>2 DEF Refused, NamesCollide
  <2>4. spec # <<>>
    BY <2>1
  <2>5. IsInjective(ColumnNames)
    BY <1>1, <2>4 DEF Refused, NamesCollide
  <2>6. ColumnNames[c] = ColumnNames[d]
    <3>1. FullName(p, ColumnNames[c]) = FullName(p, ColumnNames[d])
      BY <1>6, <2>3 DEF p, o
    <3> QED
      BY <1>3, <1>4, <2>1, <3>1, ColumnAssumption
  <2>7. c = d
    BY <1>4, <2>5, <2>6 DEF IsInjective
  <2>8. q = r
    BY <1>2, <2>3 DEF p, o
  <2> QED
    BY <2>7, <2>8
<1>7. ASSUME policy # "append",
             NEW j \in 1..Rest, NEW q \in 1..Count, NEW c \in 1..Width,
             Remaining[j] = FullName(SpecPrefixes[q], ColumnNames[c])
      PROVE  FALSE
  <2> DEFINE K == Kept(Flags)
             i == Positions(K)[j]
  <2>1. IsPart(Remaining, header, K) /\ DOMAIN header = 1..Len(header)
    BY <1>1, RemainingIs, HeaderIsRow
  <2>2. i \in K /\ Remaining[j] = header[i]
    BY <2>1 DEF IsPart, Rest
  <2> HIDE DEF i
  <2>3. i \in DOMAIN header /\ ~Flags[i]
    BY <2>1, <2>2 DEF Kept
  <2>4. header[i] \in OutNames
    <3>1. SpecPrefixes[q] \in DOMAIN spec
      BY <1>2
    <3>2. header[i] \in ToSet(Announced(SpecPrefixes[q]))
      BY <1>5, <1>7, <2>2, <3>1
    <3> QED
      BY <3>1, <3>2 DEF OutNames
  <2>5. i \in Duplicates
    BY <2>3, <2>4 DEF Duplicates
  <2>6. policy # "replace" /\ policy # "error"
    BY <1>1, <2>3, <2>5 DEF Flags, Refused
  <2> QED
    BY <1>1, <1>7, <2>6 DEF Table, OnDuplicateColumns
<1> QED
  BY <1>6, <1>7

LEMMA NamesDiffer ==
    ASSUME Accepted, NEW h, HeaderIs(h, Count + 1), policy # "append"
    PROVE  IsInjective(h)
<1>1. /\ \A j \in 1..Rest : j \in DOMAIN h /\ h[j] = Remaining[j]
      /\ \A q \in 1..Count, c \in 1..Width :
             /\ HeadLen(q) + c \in DOMAIN h
             /\ h[HeadLen(q) + c] = FullName(SpecPrefixes[q], ColumnNames[c])
      /\ \A j \in DOMAIN h :
             j \in 1..Rest \/ \E q \in 1..Count, c \in 1..Width : j = HeadLen(q) + c
  BY HeaderComplete
<1>2. /\ \A q, r \in 1..Count, c, d \in 1..Width :
             FullName(SpecPrefixes[q], ColumnNames[c]) = FullName(SpecPrefixes[r], ColumnNames[d])
                 => q = r /\ c = d
      /\ \A j \in 1..Rest, q \in 1..Count, c \in 1..Width :
             Remaining[j] # FullName(SpecPrefixes[q], ColumnNames[c])
  BY NamesApart
<1>3. IsInjective(Remaining) /\ DOMAIN Remaining = 1..Rest
  <2>1. Table
    BY DEF Accepted
  <2> QED
    BY <2>1, RemainingIs DEF Accepted, Refused, DuplicateHeader
<1>4. ASSUME NEW i \in DOMAIN h, NEW j \in DOMAIN h, h[i] = h[j]
      PROVE  i = j
  <2>1. CASE i \in 1..Rest /\ j \in 1..Rest
    BY <1>1, <1>3, <1>4, <2>1 DEF IsInjective
  <2>2. CASE i \in 1..Rest /\ j \notin 1..Rest
    BY <1>1, <1>2, <1>4, <2>2
  <2>3. CASE i \notin 1..Rest /\ j \in 1..Rest
    BY <1>1, <1>2, <1>4, <2>3
  <2>4. CASE i \notin 1..Rest /\ j \notin 1..Rest
    <3>1. PICK q \in 1..Count, c \in 1..Width : i = HeadLen(q) + c
      BY <1>1, <2>4
    <3>2. PICK r \in 1..Count, d \in 1..Width : j = HeadLen(r) + d
      BY <1>1, <2>4
    <3>3. FullName(SpecPrefixes[q], ColumnNames[c]) = FullName(SpecPrefixes[r], ColumnNames[d])
      BY <1>1, <1>4, <3>1, <3>2
    <3>4. q = r /\ c = d
      BY <1>2, <3>3
    <3> QED
      BY <3>1, <3>2, <3>4
  <2> QED
    BY <2>1, <2>2, <2>3, <2>4
<1> QED
  BY <1>4 DEF IsInjective

-------------------------------------------------------------------------------
\* The rows that are written.

LEMMA RowStarts ==
    ASSUME Accepted, HeaderIs(outHeader, Count + 1), NEW n, Recorded(n)
    PROVE  Filled(Without(read[n], flags), n, HeadLen(1))
<1> DEFINE K == Kept(Flags)
           row == Without(read[n], flags)
<1>1. Table /\ SpecGood /\ flags = Flags
  BY DEF Accepted
<1>2. /\ IsRow(read[n], Len(header)) /\ DOMAIN header = 1..Len(header)
      /\ \A i \in 1..Len(header) : read[n][i] \in FileCells
  BY <1>1, HeaderIsRow DEF Recorded
<1>3. IsPart(row, read[n], K) /\ IsPart(Remaining, header, K)
  BY <1>1, <1>2, WithoutIs, RemainingIs
<1>4. HeadLen(1) = Rest
  BY <1>1, HeadLenIs
<1>5. \A j \in 1..Rest : outHeader[j] = Remaining[j]
  BY HeaderComplete
<1> HIDE DEF row
<1>6. /\ IsRow(row, Rest) /\ Len(row) = Rest
      /\ \A j \in 1..Rest : /\ Positions(K)[j] \in K
                            /\ row[j] = read[n][Positions(K)[j]]
                            /\ Remaining[j] = header[Positions(K)[j]]
  BY <1>3 DEF IsPart, Rest
<1>7. ASSUME NEW j \in 1..Rest
      PROVE  row[j] \in Cell /\ Belongs(row[j], n, outHeader[j])
  <2> DEFINE i == Positions(K)[j]
  <2>1. i \in K /\ row[j] = read[n][i] /\ outHeader[j] = header[i]
    BY <1>5, <1>6
  <2> HIDE DEF i
  <2>2. i \in 1..Len(header)
    BY <2>1 DEF Kept
  <2>3. row[j] \in Cell
    BY <1>2, <2>1, <2>2 DEF Cell
  <2>4. \E k \in DOMAIN header : header[k] = outHeader[j] /\ row[j] = read[n][k]
    BY <1>2, <2>1, <2>2
  <2>5. Belongs(row[j], n, outHeader[j])
    BY <2>4 DEF Belongs
  <2> QED
    BY <2>3, <2>5
<1>8. Filled(row, n, Rest)
  BY <1>6, <1>7 DEF Filled
<1> QED
  BY <1>4, <1>8 DEF row

LEMMA RowGrows ==
    ASSUME Accepted, HeaderIs(outHeader, Count + 1), NEW n, Recorded(n),
           NEW m \in 1..Count, NEW row, Filled(row, n, HeadLen(m)),
           NEW cells, IsRow(cells, Width),
           \A c \in 1..Width : Answer(cells[c], n, SpecPrefixes[m], c)
    PROVE  Filled(row \o cells, n, HeadLen(m + 1))
<1> DEFINE g == row \o cells
           w == HeadLen(m)
<1>1. Table /\ SpecGood
  BY DEF Accepted
<1>2. m \in Nat \ {0} /\ SpecPrefixes[m] \in DOMAIN spec
  BY <1>1, PrefixesAre
<1>3. Width \in Nat /\ w \in Nat /\ HeadLen(m + 1) = w + Width
  BY <1>1, <1>2, HeadLenIs
<1>4. \A c \in 1..Width : outHeader[w + c] = FullName(SpecPrefixes[m], ColumnNames[c])
  BY HeaderComplete
<1>5. /\ IsRow(row, w)
      /\ \A j \in 1..w : row[j] \in Cell /\ Belongs(row[j], n, outHeader[j])
  BY DEF Filled
<1>6. NamedAddress(n, SpecPrefixes[m]) \in AddressType
  BY <1>2, AddressIs
<1>7. DOMAIN ColumnNames = 1..Width
  <2>1. ColumnNames \in Seq(STRING)
    BY ColumnAssumption
  <2> QED
    BY <2>1, LenProperties DEF Width
<1> HIDE DEF w
<1>8. IsJoin(g, row, w, cells, Width)
  BY <1>3, <1>5, Joined
<1> HIDE DEF g
<1>9. /\ IsRow(g, w + Width) /\ Len(g) = w + Width
      /\ \A j \in 1..w : g[j] = row[j]
      /\ \A j \in 1..Width : g[w + j] = cells[j]
  BY <1>8 DEF IsJoin
<1>10. ASSUME NEW c \in 1..Width
       PROVE  g[w + c] \in Cell /\ Belongs(g[w + c], n, outHeader[w + c])
  <2> DEFINE cell == cells[c]
  <2>1. g[w + c] = cell /\ outHeader[w + c] = FullName(SpecPrefixes[m], ColumnNames[c])
    BY <1>4, <1>9
  <2>2. cell = NoMatch \/ cell = OutCell(NamedAddress(n, SpecPrefixes[m]), c)
    BY DEF Answer
  <2> HIDE DEF cell
  <2>3. OutCell(NamedAddress(n, SpecPrefixes[m]), c) \in OutCells
    <3>1. c \in DOMAIN ColumnNames
      BY <1>7
    <3> QED
      BY <1>6, <3>1 DEF OutCell, OutCells, AddressType
  <2>4. cell \in Cell
    BY <2>2, <2>3 DEF Cell
  <2>5. Belongs(cell, n, FullName(SpecPrefixes[m], ColumnNames[c]))
    BY <1>2, <1>7, <2>2 DEF Belongs
  <2> QED
    BY <2>1, <2>4, <2>5
<1>11. ASSUME NEW j \in 1..(w + Width)
       PROVE  g[j] \in Cell /\ Belongs(g[j], n, outHeader[j])
  <2>1. CASE j <= w
    <3>1. j \in 1..w
      BY <1>3, <2>1
    <3> QED
      BY <1>5, <1>9, <3>1
  <2>2. CASE ~(j <= w)
    <3>1. j - w \in 1..Width /\ w + (j - w) = j
      BY <1>3, <2>2
    <3> QED
      BY <1>10, <3>1
  <2> QED
    BY <2>1, <2>2
<1>12. Filled(g, n, HeadLen(m + 1))
  BY <1>3, <1>9, <1>11 DEF Filled
<1> QED
  BY <1>12 DEF g

\* What `Geocode` gets for the chunk.
LEMMA AnswersAre ==
    ASSUME Accepted, Len(rows) \in Nat \ {0}, Len(out) \in Nat,
           \A r \in 1..Len(rows) : /\ Recorded(Len(out) + r)
                                   /\ rows[r] = Without(read[Len(out) + r], flags),
           NEW found, NEW g, g = [a \in DOMAIN Addresses |-> Geocoded(Addresses[a], found[a])]
    PROVE  Answered(g, Len(rows), Len(out)) /\ g \in Seq(Row)
<1> DEFINE k == Len(rows)
           n == Count * k
           o == Len(out)
<1>1. SpecGood
  BY DEF Accepted
<1>2. /\ Count \in Nat
      /\ \A m \in 1..Count : SpecPrefixes[m] \in DOMAIN spec
  BY <1>1, PrefixesAre
<1>3. /\ DOMAIN Addresses = 1..n
      /\ \A m \in 1..Count, r \in 1..k :
             /\ (m - 1) * k + r \in 1..n
             /\ Addresses[(m - 1) * k + r] = Address(rows[r], indices[SpecPrefixes[m]])
      /\ \A a \in 1..n : \E m \in 1..Count, r \in 1..k :
             Addresses[a] = Address(rows[r], indices[SpecPrefixes[m]])
  BY <1>1, AddressesAre
<1>4. n \in Nat
  BY <1>2, ProductIsNat
<1>5. ASSUME NEW m \in 1..Count, NEW r \in 1..k
      PROVE  /\ Address(rows[r], indices[SpecPrefixes[m]]) = NamedAddress(o + r, SpecPrefixes[m])
             /\ NamedAddress(o + r, SpecPrefixes[m]) \in AddressType
  <2>1. Recorded(o + r) /\ rows[r] = Without(read[o + r], flags)
    OBVIOUS
  <2>2. SpecPrefixes[m] \in DOMAIN spec
    BY <1>2
  <2> HIDE DEF o
  <2> DEFINE l == o + r
  <2>3. Recorded(l) /\ rows[r] = Without(read[l], flags)
    BY <2>1
  <2> HIDE DEF l
  <2>4. /\ Address(Without(read[l], flags), indices[SpecPrefixes[m]]) = NamedAddress(l, SpecPrefixes[m])
        /\ NamedAddress(l, SpecPrefixes[m]) \in AddressType
    BY <2>2, <2>3, AddressIs
  <2> QED
    BY <2>3, <2>4 DEF l
<1> HIDE DEF k, n, o
<1>6. \A a \in 1..n : Addresses[a] \in AddressType
  BY <1>3, <1>5
<1>7. DOMAIN ColumnNames = 1..Width /\ Width \in Nat
  <2>1. ColumnNames \in Seq(STRING)
    BY ColumnAssumption
  <2> QED
    BY <2>1, LenProperties DEF Width
<1>8. ASSUME NEW a \in 1..n
      PROVE  /\ IsRow(g[a], Width)
             /\ \A c \in 1..Width : g[a][c] = NoMatch \/ g[a][c] = OutCell(Addresses[a], c)
  <2>1. g[a] = Geocoded(Addresses[a], found[a])
    BY <1>3
  <2>2. g[a] = [c \in 1..Width |-> IF found[a] THEN OutCell(Addresses[a], c) ELSE NoMatch]
    BY <1>7, <2>1 DEF Geocoded
  <2> QED
    BY <2>2 DEF IsRow
<1>9. ASSUME NEW a \in 1..n
      PROVE  g[a] \in Row
  <2>1. \A c \in 1..Width : OutCell(Addresses[a], c) \in OutCells
    BY <1>6, <1>7 DEF OutCell, OutCells, AddressType
  <2>2. \A c \in 1..Width : g[a][c] \in Cell
    BY <1>8, <2>1 DEF Cell
  <2>3. g[a] \in Seq(Cell)
    BY <1>7, <1>8, <2>2, RowType
  <2> QED
    BY <2>3 DEF Row, Cell
<1>10. IsRow(g, n)
  BY <1>3 DEF IsRow
<1>11. Len(g) = n /\ g \in Seq(Row)
  BY <1>4, <1>9, <1>10, RowLength, RowType
<1>12. ASSUME NEW m \in 1..Count, NEW r \in 1..k
       PROVE  /\ (m - 1) * k + r \in 1..n
              /\ IsRow(g[(m - 1) * k + r], Width)
              /\ \A c \in 1..Width : Answer(g[(m - 1) * k + r][c], o + r, SpecPrefixes[m], c)
  <2> DEFINE a == (m - 1) * k + r
  <2>1. a \in 1..n /\ Addresses[a] = NamedAddress(o + r, SpecPrefixes[m])
    BY <1>3, <1>5
  <2> HIDE DEF a
  <2>2. IsRow(g[a], Width) /\ \A c \in 1..Width : Answer(g[a][c], o + r, SpecPrefixes[m], c)
    BY <1>8, <2>1 DEF Answer
  <2> QED
    BY <2>1, <2>2 DEF a
<1> QED
  BY <1>11, <1>12 DEF Answered, k, n, o

-------------------------------------------------------------------------------
\* Every step preserves the invariant.

LEMMA ChunkSizeType == ASSUME SpecGood PROVE ChunkSize \in Nat \ {0}
<1>1. Count \in Nat
  BY PrefixesAre
<1>2. Larger(Count, 1) \in Nat \ {0}
  BY <1>1 DEF Larger
<1>3. GEOCODE_SIZE \div Larger(Count, 1) \in Int
  BY <1>2, SizeAssumption
<1>4. Larger(1, GEOCODE_SIZE \div Larger(Count, 1)) \in Nat \ {0}
  BY <1>3 DEF Larger
<1> QED
  BY <1>4 DEF ChunkSize, Count

LEMMA Appended ==
    ASSUME NEW A, NEW s \in Seq(A), NEW x \in A
    PROVE  /\ Append(s, x) \in Seq(A) /\ Len(Append(s, x)) = Len(s) + 1
           /\ \A i \in 1..Len(s) : Append(s, x)[i] = s[i]
           /\ Append(s, x)[Len(s) + 1] = x
BY AppendProperties

\* What stays when neither the header nor the rows that were read or written change.
LEMMA RecordStays ==
    ASSUME RowsRead, RowsWritten, UNCHANGED <<inputVars, outHeader, read, out>>
    PROVE  RowsRead' /\ RowsWritten'
<1>1. /\ UNCHANGED inputVars /\ UNCHANGED outHeader
      /\ header' = header /\ outHeader' = outHeader /\ read' = read /\ out' = out
  BY DEF inputVars
<1>2. RowsRead'
  BY <1>1 DEF RowsRead, Recorded
<1>3. ASSUME NEW n \in 1..Len(out)
      PROVE  Filled(out[n], n, Len(outHeader))'
  <2>1. PICK row : row = out[n]
    OBVIOUS
  <2>2. PICK w : w = Len(outHeader)
    OBVIOUS
  <2>3. Filled(row, n, w) /\ read'[n] = read[n]
    BY <1>1, <2>1, <2>2 DEF RowsWritten
  <2>4. Filled(row, n, w)'
    BY <1>1, <2>3, SameFilled
  <2> QED
    BY <1>1, <2>1, <2>2, <2>4
<1>4. RowsWritten'
  BY <1>1, <1>3 DEF RowsWritten
<1> QED
  BY <1>2, <1>4

LEMMA HeaderStays ==
    ASSUME HeaderKnown, phase = "header" \/ Serving, UNCHANGED <<inputVars, headerVars>>,
           Announcing' = Announcing
    PROVE  HeaderKnown'
<1>1. PICK h : h = outHeader
  OBVIOUS
<1>2. PICK m : m = Announcing
  OBVIOUS
<1>3. /\ UNCHANGED inputVars /\ UNCHANGED <<flags, indices>>
      /\ outHeader' = h /\ Announcing' = m
  BY <1>1, <1>2 DEF headerVars, shared
<1>4. Accepted /\ m \in 1..(Count + 1) /\ HeaderIs(h, m)
  BY <1>1, <1>2 DEF HeaderKnown
<1>5. Accepted' /\ Count' = Count /\ HeaderIs(h, m)'
  BY <1>3, <1>4, SameAccepted, SameTable, SameHeader
<1> QED
  BY <1>3, <1>4, <1>5 DEF HeaderKnown

\* While rows are read and written.
LEMMA ServingKnows ==
    ASSUME IInv, Serving
    PROVE  /\ Table /\ SpecGood /\ Accepted /\ HeaderIs(outHeader, Count + 1)
           /\ Announcing = Count + 1
           /\ Len(outHeader) = HeadLen(Count + 1) /\ HeadLen(Count + 1) \in Nat
           /\ Len(read) \in Nat /\ Len(rows) \in Nat /\ Len(out) \in Nat
           /\ Len(read) = Len(out) + Len(rows)
           /\ Count \in Nat /\ (rows = <<>> <=> Len(rows) = 0)
           /\ DOMAIN rows = 1..Len(rows)
<1>1. Announcing = Count + 1
  BY DEF Announcing, Serving
<1>2. Table /\ SpecGood /\ Accepted /\ HeaderIs(outHeader, Count + 1)
  BY <1>1 DEF IInv, HeaderKnown, Accepted
<1>3. Len(outHeader) = HeadLen(Count + 1) /\ HeadLen(Count + 1) \in Nat /\ Count \in Nat
  BY <1>2, HeaderComplete
<1>4. read \in Seq(Seq(FileCells)) /\ rows \in Seq(Row) /\ out \in Seq(Row)
  BY DEF IInv, TypeOK
<1>5. Len(read) \in Nat /\ Len(rows) \in Nat /\ Len(out) \in Nat /\ DOMAIN rows = 1..Len(rows)
  BY <1>4, LenProperties
<1>6. rows = <<>> <=> Len(rows) = 0
  BY <1>4, EmptySeq
<1>7. Len(read) = Len(out) + Len(rows)
  BY DEF IInv, RowsCounted
<1> QED
  BY <1>1, <1>2, <1>3, <1>5, <1>6, <1>7

\* The variables of the table and of the header keep their types.
TypesKept ==
    /\ flags' \in [DOMAIN header' -> BOOLEAN]
    /\ \A p \in DOMAIN indices' : indices'[p] \in Keys(DOMAIN Without(header', flags'))
    /\ outHeader' \in Seq(Names)

LEMMA TypesStay ==
    ASSUME TypeOK, UNCHANGED <<header, headerVars>>
    PROVE  TypesKept
<1>1. header' = header /\ flags' = flags /\ indices' = indices /\ outHeader' = outHeader
  BY DEF headerVars, shared
<1> QED
  BY <1>1 DEF TypeOK, TypesKept

LEMMA InitInv == ASSUME Init PROVE IInv
<1>1. /\ phase = "spec" /\ next = 1 /\ ~Serving /\ ~eof
      /\ read = <<>> /\ rows = <<>> /\ geocoded = <<>> /\ out = <<>>
  BY DEF Init, Serving
<1>2. Table
  BY DEF Init, Table
<1>3. Len(read) = 0 /\ Len(out) = 0
  BY <1>1
<1>4. TypeOK
  <2>1. flags \in [DOMAIN header -> BOOLEAN] /\ indices = <<>> /\ outHeader = <<>> /\ sent = FALSE /\ eof = FALSE
    BY DEF Init
  <2>2. DOMAIN indices = {}
    BY <2>1
  <2>3. <<>> \in Seq(Names) /\ <<>> \in Seq(Seq(FileCells)) /\ <<>> \in Seq(Row)
    BY EmptySeq
  <2>4. outHeader \in Seq(Names) /\ read \in Seq(Seq(FileCells))
    BY <1>1, <2>1, <2>3
  <2>5. rows \in Seq(Row) /\ geocoded \in Seq(Row) /\ out \in Seq(Row)
    BY <1>1, <2>3
  <2>6. \A p \in DOMAIN indices : indices[p] \in Keys(DOMAIN Without(header, flags))
    BY <2>2
  <2>7. /\ phase \in {"spec", "start", "header", "rows", "send", "layout", "done", "err", "panic"}
        /\ next \in Nat \ {0}
    BY <1>1
  <2>8. sent \in BOOLEAN /\ eof \in BOOLEAN
    BY <2>1, Zenon
  <2> QED
    BY <2>1, <2>4, <2>5, <2>6, <2>7, <2>8 DEF TypeOK
<1>5. Started /\ HeaderKnown /\ RowsCounted /\ ChunkTaken /\ ChunkLaidOut /\ AllWritten
  BY <1>1 DEF Started, HeaderKnown, RowsCounted, ChunkTaken, ChunkLaidOut, AllWritten
<1>6. RowsRead /\ RowsWritten
  BY <1>3 DEF RowsRead, RowsWritten
<1> QED
  BY <1>2, <1>4, <1>5, <1>6 DEF IInv

LEMMA StopKeeps ==
    ASSUME IInv, NEW how \in {"err", "panic"}, Stop(how)
    PROVE  IInv'
<1>1. /\ phase' = how /\ UNCHANGED <<inputVars, headerVars>>
      /\ next' = next /\ read' = read /\ rows' = rows /\ sent' = sent /\ eof' = eof
      /\ geocoded' = geocoded /\ out' = out
  BY DEF Stop
<1>2. header' = header /\ outHeader' = outHeader /\ UNCHANGED inputVars
  BY <1>1 DEF inputVars, headerVars, shared
<1>3. ~Serving' /\ phase' \notin {"spec", "start", "header"}
  BY <1>1 DEF Serving
<1>4. Table'
  BY <1>1, SameTable DEF IInv
<1>5. TypeOK'
  <2>1. TypesKept
    BY <1>1, <1>2, TypesStay DEF IInv
  <2> QED
    BY <1>1, <2>1 DEF TypeOK, TypesKept, IInv
<1>6. RowsRead' /\ RowsWritten'
  BY <1>1, <1>2, RecordStays DEF IInv
<1>7. Started' /\ HeaderKnown' /\ RowsCounted' /\ ChunkTaken' /\ ChunkLaidOut' /\ AllWritten'
  BY <1>1, <1>3 DEF Started, HeaderKnown, RowsCounted, ChunkTaken, ChunkLaidOut, AllWritten, Serving
<1> QED
  BY <1>4, <1>5, <1>6, <1>7 DEF IInv

LEMMA FromPathKeeps == ASSUME IInv, FromPath PROVE IInv'
<1>1. /\ phase = "spec" /\ phase' = "start" /\ spec' = AddressColumnSpec(file)
      /\ policy' = policy /\ file' = file /\ header' = header /\ UNCHANGED headerVars
      /\ next' = next /\ read' = read /\ rows' = rows /\ sent' = sent /\ eof' = eof
      /\ geocoded' = geocoded /\ out' = out
  BY DEF FromPath
<1>2. /\ next = 1 /\ ~eof
      /\ read = <<>> /\ rows = <<>> /\ geocoded = <<>> /\ out = <<>>
  BY <1>1 DEF IInv, Started
<1>3. ~Serving'
  BY <1>1 DEF Serving
<1>4. Table'
  BY <1>1 DEF IInv, Table
<1>5. TypeOK'
  <2>1. TypesKept
    BY <1>1, TypesStay DEF IInv
  <2> QED
    BY <1>1, <2>1 DEF TypeOK, TypesKept, IInv
<1>6. RowsRead' /\ RowsWritten'
  <2>1. Len(read') = 0 /\ Len(out') = 0
    BY <1>1, <1>2
  <2> QED
    BY <2>1 DEF RowsRead, RowsWritten
<1>7. Started'
  <2>1. AddressColumnSpec(file)' = AddressColumnSpec(file)
    BY <1>1 DEF AddressColumnSpec
  <2> QED
    BY <1>1, <1>2, <2>1 DEF Started
<1>8. HeaderKnown' /\ RowsCounted' /\ ChunkTaken' /\ ChunkLaidOut' /\ AllWritten'
  BY <1>1, <1>3 DEF HeaderKnown, RowsCounted, ChunkTaken, ChunkLaidOut, AllWritten
<1> QED
  BY <1>4, <1>5, <1>6, <1>7, <1>8 DEF IInv

LEMMA IndicesType ==
    ASSUME Table, SpecGood, ~Refused, NEW p \in DOMAIN spec
    PROVE  ToIndices(Remaining, spec[p]) \in Keys(DOMAIN Remaining)
<1>1. Known(Remaining, spec[p]) /\ DOMAIN spec[p] = Fields
  BY DEF Refused, SpecGood
<1>2. ASSUME NEW f \in Fields
      PROVE  [k \in DOMAIN spec[p][f] |-> Position(Remaining, spec[p][f][k])] \in Seq(DOMAIN Remaining)
  <2> DEFINE names == spec[p][f]
  <2>1. names \in Seq(Names) /\ ToSet(names) \subseteq ToSet(Remaining)
    BY <1>1 DEF SpecGood, Known
  <2> HIDE DEF names
  <2>2. Len(names) \in Nat /\ DOMAIN names = 1..Len(names)
    BY <2>1, LenProperties
  <2>3. ASSUME NEW k \in DOMAIN names
        PROVE  Position(Remaining, names[k]) \in DOMAIN Remaining
    <3>1. \E i \in DOMAIN Remaining : Remaining[i] = names[k]
      BY <2>1 DEF ToSet
    <3> QED
      BY <3>1 DEF Position
  <2>4. [k \in DOMAIN names |-> Position(Remaining, names[k])] \in Seq(DOMAIN Remaining)
    BY <2>2, <2>3, IsASeq
  <2> QED
    BY <2>4 DEF names
<1> QED
  BY <1>1, <1>2 DEF ToIndices, Keys

LEMMA ReadHeaderKeeps == ASSUME IInv, ReadHeader PROVE IInv'
<1>1. /\ phase = "start" /\ phase' = "header" /\ ~Refused
      /\ flags' = Flags /\ outHeader' = Remaining
      /\ indices' = [p \in DOMAIN spec |-> ToIndices(Remaining, spec[p])]
      /\ UNCHANGED inputVars
      /\ next' = next /\ read' = read /\ rows' = rows /\ sent' = sent /\ eof' = eof
      /\ geocoded' = geocoded /\ out' = out
  BY DEF ReadHeader
<1>2. /\ next = 1 /\ ~eof
      /\ read = <<>> /\ rows = <<>> /\ geocoded = <<>> /\ out = <<>>
      /\ Table /\ spec = AddressColumnSpec(file)
  BY <1>1 DEF IInv, Started
<1>3. header' = header /\ spec' = spec
  BY <1>1 DEF inputVars
<1>4. SpecGood
  BY <1>2, SpecIsGood
<1>5. /\ Table' /\ SpecGood' /\ ~Refused' /\ Flags' = Flags /\ Remaining' = Remaining
      /\ Count' = Count
  BY <1>1, <1>2, <1>4, SameTable
<1>6. /\ Len(header) \in Nat /\ DOMAIN header = 1..Len(header)
  BY <1>2, HeaderIsRow
<1>7. TypeOK'
  <2>1. flags' \in [DOMAIN header' -> BOOLEAN]
    BY <1>1, <1>3 DEF Flags
  <2>2. ASSUME NEW p \in DOMAIN indices'
        PROVE  indices'[p] \in Keys(DOMAIN Without(header', flags'))
    <3>1. p \in DOMAIN spec /\ indices'[p] = ToIndices(Remaining, spec[p])
      BY <1>1
    <3>2. ToIndices(Remaining, spec[p]) \in Keys(DOMAIN Remaining)
      BY <1>1, <1>2, <1>4, <3>1, IndicesType
    <3>3. Without(header', flags') = Remaining
      BY <1>1, <1>3 DEF Remaining
    <3> QED
      BY <3>1, <3>2, <3>3
  <2>3. Remaining \in Seq(Names)
    BY <1>2, RemainingIs, RowType
  <2> QED
    BY <1>1, <2>1, <2>2, <2>3 DEF TypeOK, IInv
<1>8. HeaderKnown'
  <2>1. PICK h : h = Remaining
    OBVIOUS
  <2>2. HeaderIs(h, 1)
    BY <1>2, <1>4, <2>1, HeaderStarts
  <2>3. HeaderIs(h, 1)'
    BY <1>1, <2>2, SameHeader
  <2>4. outHeader' = h /\ Announcing' = 1
    BY <1>1, <1>2, <2>1 DEF Announcing
  <2>5. Accepted'
    BY <1>1, <1>3, <1>5 DEF Accepted
  <2>6. 1 \in 1..(Count' + 1)
    <3>1. Count \in Nat
      BY <1>4, PrefixesAre
    <3> QED
      BY <1>5, <3>1
  <2> QED
    BY <2>3, <2>4, <2>5, <2>6 DEF HeaderKnown
<1>9. RowsRead' /\ RowsWritten'
  <2>1. Len(read') = 0 /\ Len(out') = 0
    BY <1>1, <1>2
  <2> QED
    BY <2>1 DEF RowsRead, RowsWritten
<1>10. Started' /\ RowsCounted' /\ ChunkTaken' /\ ChunkLaidOut' /\ AllWritten'
  BY <1>1, <1>2 DEF Started, RowsCounted, ChunkTaken, ChunkLaidOut, AllWritten, Serving
<1> QED
  BY <1>5, <1>7, <1>8, <1>9, <1>10 DEF IInv

LEMMA AddHeaderColumnsKeeps == ASSUME IInv, AddHeaderColumns PROVE IInv'
<1>1. /\ phase = "header" /\ phase' = "header" /\ next \in DOMAIN SpecPrefixes
      /\ outHeader' = outHeader \o Announced(SpecPrefixes[next]) /\ next' = next + 1
      /\ UNCHANGED inputVars /\ flags' = flags /\ indices' = indices
      /\ read' = read /\ rows' = rows /\ sent' = sent /\ eof' = eof
      /\ geocoded' = geocoded /\ out' = out
  BY DEF AddHeaderColumns
<1>2. /\ ~eof /\ Announcing = next
      /\ read = <<>> /\ rows = <<>> /\ geocoded = <<>> /\ out = <<>>
  BY <1>1 DEF IInv, Started, Announcing
<1>3. Table /\ SpecGood /\ Accepted /\ next \in 1..(Count + 1) /\ HeaderIs(outHeader, next)
  BY <1>1, <1>2 DEF IInv, HeaderKnown, Accepted
<1>4. Count \in Nat /\ next \in 1..Count /\ SpecPrefixes[next] \in AllPrefixes
  BY <1>1, <1>3, PrefixesAre DEF SpecGood
<1>5. header' = header
  BY <1>1 DEF inputVars
<1>6. PICK m : m = next
  OBVIOUS
<1>7. PICK h : h = outHeader \o Announced(SpecPrefixes[next])
  OBVIOUS
<1>8. HeaderIs(h, m + 1)
  BY <1>3, <1>4, <1>6, <1>7, HeaderGrows
<1>9. HeaderIs(h, m + 1)'
  BY <1>1, <1>8, SameHeader
<1>10. Table' /\ Accepted' /\ Count' = Count
  BY <1>1, <1>3, SameTable, SameAccepted
<1>11. HeaderKnown'
  <2>1. Announcing' = m + 1 /\ outHeader' = h
    BY <1>1, <1>6, <1>7 DEF Announcing
  <2>2. m + 1 \in 1..(Count' + 1)
    BY <1>4, <1>6, <1>10
  <2> QED
    BY <1>9, <1>10, <2>1, <2>2 DEF HeaderKnown
<1>12. TypeOK'
  <2>1. outHeader \in Seq(Names)
    BY DEF IInv, TypeOK
  <2>2. Announced(SpecPrefixes[next]) \in Seq(Names)
    <3>1. PICK c : c = Announced(SpecPrefixes[next])
      OBVIOUS
    <3>2. Width \in Nat /\ IsRow(c, Width) /\ \A j \in 1..Width : c[j] \in Names
      BY <1>4, <3>1, AnnouncedIs
    <3> QED
      BY <3>1, <3>2, RowType
  <2>3. outHeader' \in Seq(Names)
    BY <1>1, <2>1, <2>2, ConcatProperties
  <2>4. next' \in Nat \ {0}
    BY <1>1, <1>4
  <2> QED
    BY <1>1, <1>5, <2>3, <2>4 DEF TypeOK, IInv
<1>13. RowsRead' /\ RowsWritten'
  <2>1. Len(read') = 0 /\ Len(out') = 0
    BY <1>1, <1>2
  <2> QED
    BY <2>1 DEF RowsRead, RowsWritten
<1>14. Started' /\ RowsCounted' /\ ChunkTaken' /\ ChunkLaidOut' /\ AllWritten'
  BY <1>1, <1>2 DEF Started, RowsCounted, ChunkTaken, ChunkLaidOut, AllWritten, Serving
<1> QED
  BY <1>10, <1>11, <1>12, <1>13, <1>14 DEF IInv

LEMMA HeaderReadyKeeps == ASSUME IInv, HeaderReady PROVE IInv'
<1>1. /\ phase = "header" /\ phase' = "rows" /\ next \notin DOMAIN SpecPrefixes /\ next' = 1
      /\ UNCHANGED <<inputVars, headerVars>>
      /\ read' = read /\ rows' = rows /\ sent' = sent /\ eof' = eof
      /\ geocoded' = geocoded /\ out' = out
  BY DEF HeaderReady
<1>2. /\ ~eof /\ Announcing = next
      /\ read = <<>> /\ rows = <<>> /\ geocoded = <<>> /\ out = <<>>
  BY <1>1 DEF IInv, Started, Announcing
<1>3. Table /\ SpecGood /\ next \in 1..(Count + 1)
  BY <1>1, <1>2 DEF IInv, HeaderKnown, Accepted
<1>4. Count \in Nat /\ next = Count + 1
  BY <1>1, <1>3, PrefixesAre
<1>5. header' = header
  BY <1>1 DEF inputVars
<1>6. Table' /\ Count' = Count /\ ChunkSize' = ChunkSize
  BY <1>1, <1>3, SameTable
<1>7. HeaderKnown'
  <2>1. Announcing' = Announcing
    BY <1>1, <1>2, <1>4, <1>6 DEF Announcing
  <2> QED
    BY <1>1, <2>1, HeaderStays DEF IInv
<1>8. TypeOK'
  <2>1. TypesKept
    BY <1>1, <1>5, TypesStay DEF IInv
  <2> QED
    BY <1>1, <2>1 DEF TypeOK, TypesKept, IInv
<1>9. Len(read') = 0 /\ Len(out') = 0 /\ Len(rows') = 0
  BY <1>1, <1>2
<1>10. RowsRead' /\ RowsWritten' /\ RowsCounted'
  BY <1>9 DEF RowsRead, RowsWritten, RowsCounted
<1>11. ChunkTaken'
  <2>1. ChunkSize \in Nat \ {0}
    BY <1>3, ChunkSizeType
  <2> QED
    BY <1>1, <1>2, <1>6, <1>9, <2>1 DEF ChunkTaken
<1>12. Started' /\ ChunkLaidOut' /\ AllWritten'
  BY <1>1 DEF Started, ChunkLaidOut, AllWritten
<1> QED
  BY <1>6, <1>7, <1>8, <1>10, <1>11, <1>12 DEF IInv

LEMMA ReadRowKeeps == ASSUME IInv, ReadRow PROVE IInv'
<1>1. PICK line \in Lines :
          LET row == [i \in DOMAIN header |-> FileCell(Len(read) + 1, i, line[i])]
              fill == Append(rows, Without(row, flags))
          IN  /\ read' = Append(read, row)
              /\ rows' = fill
              /\ phase' = IF Len(fill) >= ChunkSize THEN "send" ELSE "rows"
  BY DEF ReadRow
<1>2. PICK row : row = [i \in DOMAIN header |-> FileCell(Len(read) + 1, i, line[i])]
  OBVIOUS
<1>3. /\ read' = Append(read, row) /\ rows' = Append(rows, Without(row, flags))
      /\ phase' = IF Len(rows') >= ChunkSize THEN "send" ELSE "rows"
  BY <1>1, <1>2
<1>4. /\ phase = "rows" /\ UNCHANGED <<inputVars, headerVars>>
      /\ next' = next /\ sent' = sent /\ eof' = eof /\ geocoded' = geocoded /\ out' = out
  BY DEF ReadRow
<1>5. /\ Serving /\ Serving' /\ phase' \in {"rows", "send"}
      /\ UNCHANGED inputVars /\ UNCHANGED outHeader /\ header' = header /\ flags' = flags
  BY <1>3, <1>4 DEF Serving, inputVars, headerVars, shared
<1>6. /\ Table /\ SpecGood /\ Accepted /\ HeaderIs(outHeader, Count + 1)
      /\ Announcing = Count + 1
      /\ Len(read) \in Nat /\ Len(rows) \in Nat /\ Len(out) \in Nat
      /\ Len(read) = Len(out) + Len(rows)
  BY <1>5, ServingKnows
<1>7. /\ next = 1 /\ geocoded = <<>> /\ ~eof /\ Len(rows) < ChunkSize
      /\ \A r \in 1..Len(rows) : rows[r] = Without(read[Len(out) + r], flags)
  BY <1>4 DEF IInv, ChunkTaken
<1>8. Table' /\ Count' = Count /\ ChunkSize' = ChunkSize
  BY <1>5, <1>6, SameTable
<1>9. HeaderKnown'
  <2>1. Announcing' = Announcing
    BY <1>4, <1>5, <1>8 DEF Announcing
  <2> QED
    BY <1>4, <1>5, <2>1, HeaderStays DEF IInv
<1>10. /\ Len(header) \in Nat /\ DOMAIN header = 1..Len(header)
       /\ \A i \in 1..Len(header) : line[i] \in Seq(Words)
  BY <1>6, HeaderIsRow
<1>11. IsRow(row, Len(header)) /\ \A i \in 1..Len(header) : row[i] \in FileCells
  <2>1. IsRow(row, Len(header))
    BY <1>2, <1>10 DEF IsRow
  <2>2. ASSUME NEW i \in 1..Len(header)
        PROVE  row[i] \in FileCells
    <3>1. row[i] = FileCell(Len(read) + 1, i, line[i])
      BY <1>2, <1>10
    <3>2. Len(read) + 1 \in Nat /\ i \in Nat /\ line[i] \in Seq(Words)
      BY <1>6, <1>10
    <3> QED
      BY <3>1, <3>2 DEF FileCell, FileCells
  <2> QED
    BY <2>1, <2>2
<1>12. row \in Seq(FileCells)
  BY <1>10, <1>11, RowType
<1>13. PICK kept : kept = Without(row, flags)
  OBVIOUS
<1>14. kept \in Row
  <2>1. IsPart(kept, row, Kept(flags))
    BY <1>6, <1>11, <1>13, WithoutIs
  <2>2. PICK n : n = Cardinality(Kept(flags))
    OBVIOUS
  <2>3. n \in Nat /\ IsRow(kept, n) /\ \A j \in 1..n : Positions(Kept(flags))[j] \in Kept(flags)
                                           /\ kept[j] = row[Positions(Kept(flags))[j]]
    BY <2>1, <2>2 DEF IsPart
  <2>4. \A j \in 1..n : kept[j] \in Cell
    BY <1>11, <2>3 DEF Kept, Cell
  <2>5. kept \in Seq(Cell)
    BY <2>3, <2>4, RowType
  <2> QED
    BY <2>5 DEF Row, Cell
<1>15. /\ read' \in Seq(Seq(FileCells)) /\ Len(read') = Len(read) + 1
       /\ \A n \in 1..Len(read) : read'[n] = read[n]
       /\ read'[Len(read) + 1] = row
  <2>1. read \in Seq(Seq(FileCells))
    BY DEF IInv, TypeOK
  <2> QED
    BY <1>3, <1>12, <2>1, Appended
<1>16. /\ rows' \in Seq(Row) /\ Len(rows') = Len(rows) + 1
       /\ \A r \in 1..Len(rows) : rows'[r] = rows[r]
       /\ rows'[Len(rows) + 1] = kept
  <2>1. rows \in Seq(Row) /\ rows' = Append(rows, kept)
    BY <1>3, <1>13 DEF IInv, TypeOK
  <2> HIDE DEF Row
  <2> QED
    BY <1>14, <2>1, Appended
<1>17. TypeOK'
  <2>1. TypesKept
    BY <1>4, <1>5, TypesStay DEF IInv
  <2>2. phase' \in {"spec", "start", "header", "rows", "send", "layout", "done", "err", "panic"}
    BY <1>5
  <2> QED
    BY <1>4, <1>15, <1>16, <2>1, <2>2 DEF TypeOK, TypesKept, IInv
<1>18. RowsRead'
  <2>1. ASSUME NEW n \in 1..Len(read')
        PROVE  IsRow(read'[n], Len(header')) /\ \A i \in 1..Len(header') : read'[n][i] \in FileCells
    <3>1. CASE n \in 1..Len(read)
      <4>1. Recorded(n)
        BY <3>1 DEF IInv, RowsRead
      <4> QED
        BY <1>5, <1>15, <3>1, <4>1 DEF Recorded
    <3>2. CASE n \notin 1..Len(read)
      <4>1. n = Len(read) + 1
        <5>1. PICK l : l = Len(read)
          OBVIOUS
        <5>2. Len(read') = l + 1
          BY <1>15, <5>1
        <5>3. n \in 1..(l + 1) /\ l \in Nat /\ n \notin 1..l
          BY <1>6, <3>2, <5>1, <5>2
        <5> QED
          BY <5>1, <5>3
      <4> QED
        BY <1>5, <1>11, <1>15, <4>1
    <3> QED
      BY <3>1, <3>2
  <2> QED
    BY <2>1 DEF RowsRead, Recorded
<1>19. RowsWritten'
  <2>1. ASSUME NEW n \in 1..Len(out)
        PROVE  Filled(out[n], n, Len(outHeader))'
    <3>1. PICK o : o = out[n]
      OBVIOUS
    <3>2. PICK w : w = Len(outHeader)
      OBVIOUS
    <3>3. Filled(o, n, w)
      BY <3>1, <3>2 DEF IInv, RowsWritten
    <3>4. read'[n] = read[n]
      BY <1>6, <1>15
    <3>5. Filled(o, n, w)'
      BY <1>5, <3>3, <3>4, SameFilled
    <3> QED
      BY <1>4, <1>5, <3>1, <3>2, <3>5
  <2>2. Len(out') <= Len(read')
    BY <1>4, <1>6, <1>15
  <2> QED
    BY <1>4, <2>1, <2>2 DEF RowsWritten
<1>20. RowsCounted'
  BY <1>4, <1>6, <1>15, <1>16 DEF RowsCounted
<1>21. ChunkTaken'
  <2>1. ChunkSize \in Nat
    BY <1>6, ChunkSizeType
  <2>2. ASSUME NEW r \in 1..Len(rows')
        PROVE  rows'[r] = Without(read'[Len(out') + r], flags')
    <3>1. \A s : Without(s, flags') = Without(s, flags)
      BY <1>5
    <3>2. CASE r \in 1..Len(rows)
      <4>1. Len(out) + r \in 1..Len(read)
        BY <1>6, <3>2
      <4> QED
        BY <1>4, <1>5, <1>7, <1>15, <1>16, <3>2, <4>1
    <3>3. CASE r \notin 1..Len(rows)
      <4>1. r = Len(rows) + 1 /\ Len(out) + r = Len(read) + 1
        BY <1>6, <1>16, <3>3
      <4> QED
        BY <1>4, <1>5, <1>13, <1>15, <1>16, <4>1
    <3> QED
      BY <3>2, <3>3
  <2>3. Len(rows') <= ChunkSize' /\ (phase' = "rows" => Len(rows') < ChunkSize')
    BY <1>3, <1>6, <1>7, <1>8, <1>16, <2>1
  <2> QED
    BY <1>4, <1>7, <2>2, <2>3 DEF ChunkTaken
<1>22. Started' /\ ChunkLaidOut' /\ AllWritten'
  BY <1>5 DEF Started, ChunkLaidOut, AllWritten
<1> QED
  BY <1>8, <1>9, <1>17, <1>18, <1>19, <1>20, <1>21, <1>22 DEF IInv

LEMMA EndOfFileKeeps == ASSUME IInv, EndOfFile PROVE IInv'
<1>1. /\ phase = "rows" /\ eof' = TRUE
      /\ phase' = IF ~sent \/ rows # <<>> THEN "send" ELSE "done"
      /\ UNCHANGED <<inputVars, headerVars>>
      /\ next' = next /\ read' = read /\ rows' = rows /\ sent' = sent
      /\ geocoded' = geocoded /\ out' = out
  BY DEF EndOfFile
<1>2. /\ Serving /\ Serving' /\ phase' \in {"send", "done"}
      /\ phase' = "done" => rows = <<>>
  BY <1>1 DEF Serving
<1>3. /\ UNCHANGED inputVars /\ UNCHANGED outHeader /\ header' = header /\ flags' = flags
  BY <1>1 DEF inputVars, headerVars, shared
<1>4. Table /\ Announcing = Count + 1 /\ Len(read) = Len(out) + Len(rows)
  BY <1>2, ServingKnows
<1>5. /\ next = 1 /\ geocoded = <<>> /\ Len(rows) <= ChunkSize
      /\ \A r \in 1..Len(rows) : rows[r] = Without(read[Len(out) + r], flags)
  BY <1>1 DEF IInv, ChunkTaken
<1>6. Table' /\ Count' = Count /\ ChunkSize' = ChunkSize
  BY <1>3, <1>4, SameTable
<1>7. HeaderKnown'
  <2>1. Announcing' = Announcing
    BY <1>1, <1>2, <1>4, <1>6 DEF Announcing
  <2> QED
    BY <1>1, <1>2, <2>1, HeaderStays DEF IInv
<1>8. TypeOK'
  <2>1. TypesKept
    BY <1>1, <1>3, TypesStay DEF IInv
  <2>2. phase' \in {"spec", "start", "header", "rows", "send", "layout", "done", "err", "panic"}
    BY <1>2
  <2>3. eof' \in BOOLEAN
    BY <1>1, Zenon
  <2> QED
    BY <1>1, <2>1, <2>2, <2>3 DEF TypeOK, TypesKept, IInv
<1>9. RowsRead' /\ RowsWritten'
  BY <1>1, <1>3, RecordStays DEF IInv
<1>10. RowsCounted' /\ AllWritten'
  BY <1>1, <1>2, <1>4 DEF RowsCounted, AllWritten
<1>11. ChunkTaken'
  <2>1. \A s : Without(s, flags') = Without(s, flags)
    BY <1>3
  <2>2. phase' # "rows"
    BY <1>2
  <2> QED
    BY <1>1, <1>3, <1>5, <1>6, <2>1, <2>2 DEF ChunkTaken
<1>12. Started' /\ ChunkLaidOut'
  BY <1>2 DEF Started, ChunkLaidOut
<1> QED
  BY <1>6, <1>7, <1>8, <1>9, <1>10, <1>11, <1>12 DEF IInv

LEMMA GeocodeKeeps == ASSUME IInv, Geocode PROVE IInv'
<1>1. PICK found \in [DOMAIN Addresses -> BOOLEAN] :
          geocoded' = [a \in DOMAIN Addresses |-> Geocoded(Addresses[a], found[a])]
  BY DEF Geocode
<1>2. /\ phase = "send" /\ rows # <<>> /\ phase' = "layout" /\ sent' = TRUE
      /\ UNCHANGED <<inputVars, headerVars>>
      /\ next' = next /\ read' = read /\ rows' = rows /\ eof' = eof /\ out' = out
  BY DEF Geocode
<1>3. /\ Serving /\ Serving'
      /\ UNCHANGED inputVars /\ UNCHANGED outHeader /\ UNCHANGED read /\ header' = header
  BY <1>2 DEF Serving, inputVars, headerVars, shared
<1>4. /\ Table /\ SpecGood /\ Accepted /\ HeaderIs(outHeader, Count + 1)
      /\ Announcing = Count + 1 /\ Count \in Nat
      /\ Len(read) \in Nat /\ Len(rows) \in Nat \ {0} /\ Len(out) \in Nat
      /\ Len(read) = Len(out) + Len(rows)
  BY <1>2, <1>3, ServingKnows
<1>5. /\ next = 1
      /\ \A r \in 1..Len(rows) : rows[r] = Without(read[Len(out) + r], flags)
  BY <1>2 DEF IInv, ChunkTaken
<1>6. Table' /\ Count' = Count
  BY <1>3, <1>4, SameTable
<1>7. HeaderKnown'
  <2>1. Announcing' = Announcing
    BY <1>2, <1>4, <1>6 DEF Announcing
  <2> QED
    BY <1>2, <1>3, <2>1, HeaderStays DEF IInv
<1>8. \A r \in 1..Len(rows) : Recorded(Len(out) + r)
  <2> TAKE r \in 1..Len(rows)
  <2>1. Len(out) + r \in 1..Len(read)
    BY <1>4
  <2> QED
    BY <2>1 DEF IInv, RowsRead
<1>9. PICK g : g = [a \in DOMAIN Addresses |-> Geocoded(Addresses[a], found[a])]
  OBVIOUS
<1>10. Answered(g, Len(rows), Len(out)) /\ g \in Seq(Row)
  BY <1>4, <1>5, <1>8, <1>9, AnswersAre
<1>11. TypeOK'
  <2>1. TypesKept
    BY <1>2, <1>3, TypesStay DEF IInv
  <2>2. sent' \in BOOLEAN
    BY <1>2, Zenon
  <2>3. geocoded' \in Seq(Row)
    BY <1>1, <1>9, <1>10
  <2> QED
    BY <1>2, <2>1, <2>2, <2>3 DEF TypeOK, TypesKept, IInv
<1>12. RowsRead' /\ RowsWritten'
  BY <1>2, <1>3, RecordStays DEF IInv
<1>13. ChunkLaidOut'
  <2>1. PICK k : k = Len(rows)
    OBVIOUS
  <2>2. PICK o : o = Len(out)
    OBVIOUS
  <2>3. Answered(geocoded, Len(rows), Len(out))'
    <3>1. Answered(g, k, o)'
      BY <1>3, <1>10, <2>1, <2>2, SameAnswered
    <3> QED
      BY <1>1, <1>2, <1>9, <2>1, <2>2, <3>1
  <2>4. ASSUME NEW r \in 1..Len(rows)
        PROVE  Filled(rows[r], Len(out) + r, HeadLen(next))'
    <3>1. PICK row : row = rows[r]
      OBVIOUS
    <3>2. PICK n : n = o + r
      OBVIOUS
    <3>3. PICK w : w = HeadLen(1)
      OBVIOUS
    <3>4. Recorded(n) /\ row = Without(read[n], flags)
      BY <1>5, <1>8, <2>2, <3>1, <3>2
    <3>5. Filled(row, n, w)
      BY <1>4, <3>3, <3>4, RowStarts
    <3>6. Filled(row, n, w)'
      BY <1>3, <3>5, SameFilled
    <3>7. HeadLen(next)' = w
      <4>1. \A m : HeadLen(m)' = HeadLen(m)
        BY <1>3, SameTable
      <4> QED
        BY <1>2, <1>5, <3>3, <4>1
    <3> QED
      BY <1>2, <2>2, <3>1, <3>2, <3>6, <3>7
  <2>5. next' \in 1..(Count' + 1) /\ Len(rows') # 0
    BY <1>2, <1>4, <1>5, <1>6
  <2> QED
    BY <1>2, <2>3, <2>4, <2>5 DEF ChunkLaidOut
<1>14. RowsCounted' /\ Started' /\ ChunkTaken' /\ AllWritten'
  BY <1>2, <1>4 DEF RowsCounted, Started, ChunkTaken, AllWritten
<1> QED
  BY <1>6, <1>7, <1>11, <1>12, <1>13, <1>14 DEF IInv

LEMMA AddColumnsKeeps == ASSUME IInv, AddColumns PROVE IInv'
<1>1. /\ phase = "layout" /\ phase' = "layout" /\ SliceStart < Len(geocoded)
      /\ rows' = [r \in DOMAIN rows |-> rows[r] \o geocoded[SliceStart + r]]
      /\ next' = next + 1 /\ UNCHANGED <<inputVars, headerVars>>
      /\ read' = read /\ sent' = sent /\ eof' = eof /\ geocoded' = geocoded /\ out' = out
  BY DEF AddColumns
<1>2. /\ Serving /\ Serving'
      /\ UNCHANGED inputVars /\ UNCHANGED outHeader /\ UNCHANGED read /\ header' = header
  BY <1>1 DEF Serving, inputVars, headerVars, shared
<1>3. /\ Table /\ SpecGood /\ Accepted /\ HeaderIs(outHeader, Count + 1)
      /\ Announcing = Count + 1 /\ Count \in Nat
      /\ Len(read) \in Nat /\ Len(rows) \in Nat /\ Len(out) \in Nat
      /\ Len(read) = Len(out) + Len(rows) /\ DOMAIN rows = 1..Len(rows)
  BY <1>2, ServingKnows
<1>4. /\ next \in 1..(Count + 1) /\ Len(rows) # 0
      /\ \A r \in 1..Len(rows) : Filled(rows[r], Len(out) + r, HeadLen(next))
      /\ Answered(geocoded, Len(rows), Len(out))
  BY <1>1 DEF IInv, ChunkLaidOut
<1>5. PICK k : k = Len(rows)
  OBVIOUS
<1>6. PICK o : o = Len(out)
  OBVIOUS
<1>7. PICK m : m = next
  OBVIOUS
<1>8. PICK g : g = geocoded
  OBVIOUS
<1>9. k \in Nat \ {0} /\ o \in Nat /\ m \in 1..(Count + 1)
  BY <1>3, <1>4, <1>5, <1>6, <1>7
<1>10. m \in 1..Count
  <2>1. (m - 1) * k < Count * k
    BY <1>1, <1>4, <1>5, <1>7 DEF SliceStart, Answered
  <2>2. m # Count + 1
    <3>1. SUFFICES ASSUME m = Count + 1 PROVE FALSE
      OBVIOUS
    <3>2. m - 1 = Count
      BY <1>3, <3>1
    <3>3. Count * k < Count * k /\ Count * k \in Nat
      BY <1>3, <1>9, <2>1, <3>2, ProductIsNat
    <3> QED
      BY <3>3
  <2> QED
    BY <1>3, <1>9, <2>2
<1>11. Table' /\ Count' = Count
  BY <1>2, <1>3, SameTable
<1>12. HeaderKnown'
  <2>1. Announcing' = Announcing
    BY <1>1, <1>3, <1>11 DEF Announcing
  <2> QED
    BY <1>1, <1>2, <2>1, HeaderStays DEF IInv
<1>13. ASSUME NEW r \in 1..k
       PROVE  /\ rows'[r] = rows[r] \o g[(m - 1) * k + r]
              /\ Filled(rows'[r], o + r, HeadLen(m + 1))
  <2>1. PICK n : n = o + r
    OBVIOUS
  <2>2. PICK row : row = rows[r]
    OBVIOUS
  <2>3. PICK cells : cells = g[(m - 1) * k + r]
    OBVIOUS
  <2>4. Filled(row, n, HeadLen(m))
    BY <1>4, <1>5, <1>6, <1>7, <2>1, <2>2
  <2>5. IsRow(cells, Width) /\ \A c \in 1..Width : Answer(cells[c], n, SpecPrefixes[m], c)
    <3>1. Answered(g, k, o)
      BY <1>4, <1>5, <1>6, <1>8
    <3> QED
      BY <1>10, <2>1, <2>3, <3>1 DEF Answered
  <2>6. Recorded(n)
    <3>1. n \in 1..Len(read)
      BY <1>3, <1>5, <1>6, <1>9, <2>1
    <3> QED
      BY <3>1 DEF IInv, RowsRead
  <2>7. Filled(row \o cells, n, HeadLen(m + 1))
    BY <1>3, <1>10, <2>4, <2>5, <2>6, RowGrows
  <2>8. rows'[r] = row \o cells
    BY <1>1, <1>3, <1>5, <1>7, <1>8, <2>2, <2>3 DEF SliceStart
  <2> QED
    BY <2>1, <2>2, <2>3, <2>7, <2>8
<1>14. IsRow(rows', k) /\ Len(rows') = k
  <2>1. IsRow(rows', k)
    <3>1. DOMAIN rows = 1..k
      BY <1>3, <1>5
    <3> QED
      BY <1>1, <3>1 DEF IsRow
  <2>2. PICK s : s = rows'
    OBVIOUS
  <2> QED
    BY <1>9, <2>1, <2>2, RowLength
<1>15. rows' \in Seq(Row)
  <2>1. HeadLen(m + 1) \in Nat
    <3>1. m + 1 \in Nat \ {0}
      BY <1>3, <1>10
    <3> QED
      BY <1>3, <3>1, HeadLenIs
  <2>2. ASSUME NEW r \in 1..k
        PROVE  rows'[r] \in Row
    <3>1. PICK row : row = rows'[r]
      OBVIOUS
    <3>2. PICK w : w = HeadLen(m + 1)
      OBVIOUS
    <3>3. w \in Nat /\ IsRow(row, w) /\ \A j \in 1..w : row[j] \in Cell
      BY <1>13, <2>1, <3>1, <3>2 DEF Filled
    <3>4. row \in Seq(Cell)
      BY <3>3, RowType
    <3> QED
      BY <3>1, <3>4 DEF Row, Cell
  <2>3. PICK s : s = rows'
    OBVIOUS
  <2> HIDE DEF Row
  <2>4. s \in Seq(Row)
    BY <1>9, <1>14, <2>2, <2>3, RowType
  <2> QED
    BY <2>3, <2>4
<1>16. TypeOK'
  <2>1. TypesKept
    BY <1>1, <1>2, TypesStay DEF IInv
  <2>2. next' \in Nat \ {0}
    BY <1>1, <1>3, <1>7, <1>10
  <2> QED
    BY <1>1, <1>15, <2>1, <2>2 DEF TypeOK, TypesKept, IInv
<1>17. RowsRead' /\ RowsWritten'
  BY <1>1, <1>2, RecordStays DEF IInv
<1>18. ChunkLaidOut'
  <2>1. Answered(geocoded, Len(rows), Len(out))'
    <3>1. Answered(g, k, o)
      BY <1>4, <1>5, <1>6, <1>8
    <3>2. Answered(g, k, o)'
      BY <1>2, <3>1, SameAnswered
    <3> QED
      BY <1>1, <1>6, <1>8, <1>14, <3>2
  <2>2. ASSUME NEW r \in 1..k
        PROVE  Filled(rows[r], Len(out) + r, HeadLen(next))'
    <3>1. PICK row : row = rows'[r]
      OBVIOUS
    <3>2. PICK n : n = o + r
      OBVIOUS
    <3>3. PICK w : w = HeadLen(m + 1)
      OBVIOUS
    <3>4. Filled(row, n, w)
      BY <1>13, <3>1, <3>2, <3>3
    <3>5. Filled(row, n, w)'
      BY <1>2, <3>4, SameFilled
    <3>6. HeadLen(next)' = w
      <4>1. \A l : HeadLen(l)' = HeadLen(l)
        BY <1>2, SameTable
      <4> QED
        BY <1>1, <1>7, <3>3, <4>1
    <3> QED
      BY <1>1, <1>6, <3>1, <3>2, <3>5, <3>6
  <2>3. next' \in 1..(Count' + 1) /\ Len(rows') # 0
    BY <1>1, <1>3, <1>7, <1>9, <1>10, <1>11, <1>14
  <2> QED
    BY <1>1, <1>14, <2>1, <2>2, <2>3 DEF ChunkLaidOut
<1>19. RowsCounted'
  BY <1>1, <1>3, <1>5, <1>14 DEF RowsCounted
<1>20. Started' /\ ChunkTaken' /\ AllWritten'
  BY <1>1 DEF Started, ChunkTaken, AllWritten
<1> QED
  BY <1>11, <1>12, <1>16, <1>17, <1>18, <1>19, <1>20 DEF IInv

LEMMA WriteChunkKeeps == ASSUME IInv, WriteChunk PROVE IInv'
<1>1. /\ phase = "layout" /\ phase' = (IF eof THEN "done" ELSE "rows")
      /\ SliceStart >= Len(geocoded)
      /\ out' = out \o rows /\ rows' = <<>> /\ geocoded' = <<>> /\ next' = 1
      /\ UNCHANGED <<inputVars, headerVars>>
      /\ read' = read /\ sent' = sent /\ eof' = eof
  BY DEF WriteChunk
<1>2. /\ Serving /\ Serving' /\ phase' \in {"rows", "done"} /\ (phase' = "rows" => ~eof)
      /\ UNCHANGED inputVars /\ UNCHANGED outHeader /\ outHeader' = outHeader
      /\ UNCHANGED read /\ header' = header
  BY <1>1 DEF Serving, inputVars, headerVars, shared
<1>3. /\ Table /\ SpecGood /\ Announcing = Count + 1 /\ Count \in Nat
      /\ Len(outHeader) = HeadLen(Count + 1)
      /\ Len(read) \in Nat /\ Len(rows) \in Nat /\ Len(out) \in Nat
      /\ Len(read) = Len(out) + Len(rows)
  BY <1>2, ServingKnows
<1>4. /\ next \in 1..(Count + 1) /\ Len(rows) # 0
      /\ \A r \in 1..Len(rows) : Filled(rows[r], Len(out) + r, HeadLen(next))
      /\ Answered(geocoded, Len(rows), Len(out))
  BY <1>1 DEF IInv, ChunkLaidOut
<1>5. next = Count + 1
  <2>1. PICK k : k = Len(rows)
    OBVIOUS
  <2>2. PICK m : m = next
    OBVIOUS
  <2>3. PICK C : C = Count
    OBVIOUS
  <2>4. k \in Nat \ {0} /\ m \in 1..(C + 1) /\ C \in Nat
    BY <1>3, <1>4, <2>1, <2>2, <2>3
  <2>5. (m - 1) * k >= C * k
    BY <1>1, <1>4, <2>1, <2>2, <2>3 DEF SliceStart, Answered
  <2>6. m = C + 1
    <3>1. SUFFICES ASSUME m <= C PROVE FALSE
      BY <2>4
    <3>2. (C - m) * k \in Nat /\ m * k \in Nat
      <4>1. C - m \in Nat /\ m \in Nat
        BY <2>4, <3>1
      <4> QED
        BY <2>4, <4>1, ProductIsNat
    <3>3. (C - m) * k = C * k - m * k /\ (m - 1) * k = m * k - k
      BY <2>4
    <3> QED
      BY <2>4, <2>5, <3>2, <3>3
  <2> QED
    BY <2>2, <2>3, <2>6
<1>6. Table' /\ Count' = Count /\ ChunkSize' = ChunkSize
  BY <1>2, <1>3, SameTable
<1>7. HeaderKnown'
  <2>1. Announcing' = Announcing
    BY <1>2, <1>3, <1>6 DEF Announcing
  <2> QED
    BY <1>1, <1>2, <2>1, HeaderStays DEF IInv
<1>8. PICK k : k = Len(rows)
  OBVIOUS
<1>9. PICK o : o = Len(out)
  OBVIOUS
<1>10. k \in Nat /\ o \in Nat
  BY <1>3, <1>8, <1>9
<1>11. /\ out' \in Seq(Row) /\ Len(out') = o + k
       /\ \A n \in 1..o : out'[n] = out[n]
       /\ \A r \in 1..k : out'[o + r] = rows[r]
  <2>1. out \in Seq(Row) /\ rows \in Seq(Row)
    BY DEF IInv, TypeOK
  <2> HIDE DEF Row
  <2>2. IsRow(out, o) /\ IsRow(rows, k)
    BY <1>8, <1>9, <2>1, ListIsRow
  <2>3. PICK s : s = out
    OBVIOUS
  <2>4. PICK t : t = rows
    OBVIOUS
  <2>5. IsJoin(s \o t, s, o, t, k)
    BY <1>10, <2>2, <2>3, <2>4, Joined
  <2>6. out \o rows \in Seq(Row)
    BY <2>1, ConcatProperties
  <2> QED
    BY <1>1, <2>3, <2>4, <2>5, <2>6 DEF IsJoin
<1>12. Len(rows') = 0 /\ <<>> \in Seq(Row)
  <2> HIDE DEF Row
  <2> QED
    BY <1>1, EmptySeq
<1>13. TypeOK'
  <2>1. TypesKept
    BY <1>1, <1>2, TypesStay DEF IInv
  <2>2. phase' \in {"spec", "start", "header", "rows", "send", "layout", "done", "err", "panic"}
    BY <1>2
  <2>3. rows' \in Seq(Row) /\ geocoded' \in Seq(Row) /\ next' \in Nat \ {0}
    BY <1>1, <1>12
  <2> QED
    BY <1>1, <1>11, <2>1, <2>2, <2>3 DEF TypeOK, TypesKept, IInv
<1>14. RowsRead'
  BY <1>1, <1>2 DEF RowsRead, Recorded, IInv
<1>15. RowsWritten'
  <2>1. ASSUME NEW n \in 1..(o + k)
        PROVE  Filled(out'[n], n, Len(outHeader))
    <3>1. CASE n \in 1..o
      BY <1>9, <1>11, <3>1 DEF IInv, RowsWritten
    <3>2. CASE n \notin 1..o
      <4>1. PICK r : r = n - o
        OBVIOUS
      <4>2. r \in 1..k /\ n = o + r
        BY <1>10, <3>2, <4>1
      <4>3. Filled(rows[r], o + r, HeadLen(next))
        BY <1>4, <1>8, <1>9, <4>2
      <4> QED
        BY <1>3, <1>5, <1>11, <4>2, <4>3
    <3> QED
      BY <3>1, <3>2
  <2>2. ASSUME NEW n \in 1..(o + k)
        PROVE  Filled(out[n], n, Len(outHeader))'
    <3>1. PICK row : row = out'[n]
      OBVIOUS
    <3>2. PICK w : w = Len(outHeader)
      OBVIOUS
    <3>3. Filled(row, n, w) /\ read'[n] = read[n]
      BY <1>1, <2>1, <3>1, <3>2
    <3>4. Filled(row, n, w)'
      BY <1>2, <3>3, SameFilled
    <3> QED
      BY <1>2, <3>1, <3>2, <3>4
  <2>3. Len(out') <= Len(read')
    BY <1>1, <1>3, <1>8, <1>9, <1>10, <1>11
  <2> QED
    BY <1>11, <2>2, <2>3 DEF RowsWritten
<1>16. RowsCounted'
  BY <1>1, <1>3, <1>8, <1>9, <1>10, <1>11, <1>12 DEF RowsCounted
<1>17. ChunkTaken'
  <2>1. ChunkSize \in Nat \ {0}
    BY <1>3, ChunkSizeType
  <2> QED
    BY <1>1, <1>2, <1>6, <1>12, <2>1 DEF ChunkTaken
<1>18. Started' /\ ChunkLaidOut' /\ AllWritten'
  BY <1>1, <1>2 DEF Started, ChunkLaidOut, AllWritten
<1> QED
  BY <1>6, <1>7, <1>13, <1>14, <1>15, <1>16, <1>17, <1>18 DEF IInv

LEMMA StutterKeeps == ASSUME IInv, UNCHANGED vars PROVE IInv'
<1>1. /\ phase' = phase /\ UNCHANGED <<inputVars, headerVars>>
      /\ next' = next /\ read' = read /\ rows' = rows /\ sent' = sent /\ eof' = eof
      /\ geocoded' = geocoded /\ out' = out
  BY DEF vars
<1>2. /\ UNCHANGED inputVars /\ UNCHANGED outHeader /\ UNCHANGED read
      /\ header' = header /\ file' = file /\ spec' = spec /\ flags' = flags
  BY <1>1 DEF inputVars, headerVars, shared
<1>3. Serving' <=> Serving
  BY <1>1 DEF Serving
<1>4. Table' /\ Count' = Count /\ ChunkSize' = ChunkSize
  BY <1>2, SameTable DEF IInv
<1>5. TypeOK'
  <2>1. TypesKept
    BY <1>1, <1>2, TypesStay DEF IInv
  <2> QED
    BY <1>1, <2>1 DEF TypeOK, TypesKept, IInv
<1>6. RowsRead' /\ RowsWritten'
  BY <1>1, <1>2, RecordStays DEF IInv
<1>7. HeaderKnown'
  <2>1. CASE phase = "header" \/ Serving
    <3>1. Announcing' = Announcing
      BY <1>1, <1>4 DEF Announcing
    <3> QED
      BY <1>1, <2>1, <3>1, HeaderStays DEF IInv
  <2>2. CASE ~(phase = "header" \/ Serving)
    BY <1>1, <1>3, <2>2 DEF HeaderKnown
  <2> QED
    BY <2>1, <2>2
<1>8. Started'
  <2>1. AddressColumnSpec(file)' = AddressColumnSpec(file)
    BY <1>2 DEF AddressColumnSpec
  <2> QED
    BY <1>1, <1>2, <2>1 DEF IInv, Started
<1>9. RowsCounted' /\ AllWritten'
  BY <1>1, <1>3 DEF IInv, RowsCounted, AllWritten
<1>10. ChunkTaken'
  <2>1. \A s : Without(s, flags') = Without(s, flags)
    BY <1>2
  <2> QED
    BY <1>1, <1>4, <2>1 DEF IInv, ChunkTaken
<1>11. ChunkLaidOut'
  <2>1. CASE phase = "layout"
    <3>1. /\ next \in 1..(Count + 1) /\ Len(rows) # 0
          /\ \A r \in 1..Len(rows) : Filled(rows[r], Len(out) + r, HeadLen(next))
          /\ Answered(geocoded, Len(rows), Len(out))
      BY <2>1 DEF IInv, ChunkLaidOut
    <3>2. Answered(geocoded, Len(rows), Len(out))'
      <4>1. PICK g : g = geocoded
        OBVIOUS
      <4>2. PICK k : k = Len(rows)
        OBVIOUS
      <4>3. PICK o : o = Len(out)
        OBVIOUS
      <4>4. Answered(g, k, o)'
        BY <1>2, <3>1, <4>1, <4>2, <4>3, SameAnswered
      <4> QED
        BY <1>1, <4>1, <4>2, <4>3, <4>4
    <3>3. ASSUME NEW r \in 1..Len(rows)
          PROVE  Filled(rows[r], Len(out) + r, HeadLen(next))'
      <4>1. PICK row : row = rows[r]
        OBVIOUS
      <4>2. PICK n : n = Len(out) + r
        OBVIOUS
      <4>3. PICK w : w = HeadLen(next)
        OBVIOUS
      <4>4. Filled(row, n, w) /\ read'[n] = read[n]
        BY <1>1, <3>1, <4>1, <4>2, <4>3
      <4>5. Filled(row, n, w)'
        BY <1>2, <4>4, SameFilled
      <4>6. HeadLen(next)' = w
        <5>1. \A m : HeadLen(m)' = HeadLen(m)
          BY <1>2, SameTable
        <5> QED
          BY <1>1, <4>3, <5>1
      <4> QED
        BY <1>1, <4>1, <4>2, <4>5, <4>6
    <3> QED
      BY <1>1, <1>4, <3>1, <3>2, <3>3 DEF ChunkLaidOut
  <2>2. CASE phase # "layout"
    BY <1>1, <2>2 DEF ChunkLaidOut
  <2> QED
    BY <2>1, <2>2
<1> QED
  BY <1>4, <1>5, <1>6, <1>7, <1>8, <1>9, <1>10, <1>11 DEF IInv

LEMMA NextKeeps == ASSUME IInv, [Next]_vars PROVE IInv'
<1>1. CASE FromPath
  BY <1>1, FromPathKeeps
<1>2. CASE FromPathFails
  BY <1>2, StopKeeps DEF FromPathFails
<1>3. CASE RefuseHeader
  BY <1>3, StopKeeps DEF RefuseHeader
<1>4. CASE ReadHeader
  BY <1>4, ReadHeaderKeeps
<1>5. CASE AddHeaderColumns
  BY <1>5, AddHeaderColumnsKeeps
<1>6. CASE HeaderReady
  BY <1>6, HeaderReadyKeeps
<1>7. CASE ReadRow
  BY <1>7, ReadRowKeeps
<1>8. CASE ReadError
  BY <1>8, StopKeeps DEF ReadError
<1>9. CASE EndOfFile
  BY <1>9, EndOfFileKeeps
<1>10. CASE Geocode
  BY <1>10, GeocodeKeeps
<1>11. CASE GeocodeEmpty
  BY <1>11, StopKeeps DEF GeocodeEmpty
<1>12. CASE GeocodeError
  BY <1>12, StopKeeps DEF GeocodeError
<1>13. CASE AddColumns
  BY <1>13, AddColumnsKeeps
<1>14. CASE WriteChunk
  BY <1>14, WriteChunkKeeps
<1>15. CASE UNCHANGED vars
  BY <1>15, StutterKeeps
<1> QED
  BY <1>1, <1>2, <1>3, <1>4, <1>5, <1>6, <1>7, <1>8, <1>9, <1>10, <1>11, <1>12, <1>13, <1>14, <1>15
     DEF Next, Terminated

\* The invariant holds of every table and header, whatever the geocoder finds.
THEOREM Invariance == Spec => []IInv
<1>1. Init => IInv
  BY InitInv
<1>2. IInv /\ [Next]_vars => IInv'
  BY NextKeeps
<1> QED
  BY <1>1, <1>2, PTL DEF Spec

-------------------------------------------------------------------------------
\* What follows.

\* The indices that `convert_to_indices` looks up stay within the rows they are used
\* on, and what is read, geocoded and written keeps its type.
THEOREM Typed == Spec => []TypeOK
<1>1. IInv => TypeOK
  BY DEF IInv
<1> QED
  BY <1>1, Invariance, PTL

\* Every cell that is written stands under its own column, about its own row: the
\* removal of columns, the indices and the places of the answers agree.
THEOREM CellsPlaced == Spec => []CellsUnderHeaders
<1>1. ASSUME IInv
      PROVE  CellsUnderHeaders
  <2>1. /\ Len(out) <= Len(read)
        /\ \A n \in 1..Len(out) : Filled(out[n], n, Len(outHeader))
    BY <1>1 DEF IInv, RowsWritten
  <2>2. DOMAIN out = 1..Len(out) /\ DOMAIN outHeader = 1..Len(outHeader)
    <3>1. out \in Seq(Row) /\ outHeader \in Seq(Names)
      BY <1>1 DEF IInv, TypeOK
    <3> HIDE DEF Row
    <3> QED
      BY <3>1, LenProperties
  <2>3. \A n \in DOMAIN out :
            /\ Len(out[n]) = Len(outHeader)
            /\ \A j \in DOMAIN outHeader : Belongs(out[n][j], n, outHeader[j])
    BY <2>1, <2>2 DEF Filled
  <2>4. phase = "done" => Len(out) = Len(read)
    <3>1. SUFFICES ASSUME phase = "done" PROVE Len(out) = Len(read)
      OBVIOUS
    <3>2. Serving /\ rows = <<>>
      BY <1>1, <3>1 DEF IInv, AllWritten, Serving
    <3>3. Len(read) = Len(out) + Len(rows) /\ Len(rows) = 0 /\ Len(out) \in Nat
      BY <1>1, <3>2, ServingKnows
    <3> QED
      BY <3>3
  <2> QED
    BY <2>1, <2>3, <2>4 DEF CellsUnderHeaders
<1> QED
  BY <1>1, Invariance, PTL

\* No column of the file gets lost from the header.
THEOREM NamesStay == Spec => []HeaderKeepsNames
<1>1. ASSUME IInv
      PROVE  HeaderKeepsNames
  <2>1. SUFFICES ASSUME Serving PROVE ToSet(header) \subseteq ToSet(outHeader)
    BY DEF HeaderKeepsNames, Serving
  <2>2. Accepted /\ HeaderIs(outHeader, Count + 1)
    BY <1>1, <2>1, ServingKnows
  <2> QED
    BY <2>2, NamesKept
<1> QED
  BY <1>1, Invariance, PTL

\* Unless duplicates are asked for, the header that is written has none.
THEOREM ColumnsDiffer == Spec => []NoDuplicateColumns
<1>1. ASSUME IInv
      PROVE  NoDuplicateColumns
  <2>1. SUFFICES ASSUME Serving, policy # "append" PROVE IsInjective(outHeader)
    BY DEF NoDuplicateColumns, Serving
  <2>2. Accepted /\ HeaderIs(outHeader, Count + 1)
    BY <1>1, <2>1, ServingKnows
  <2> QED
    BY <2>1, <2>2, NamesDiffer
<1> QED
  BY <1>1, Invariance, PTL

\* What a chunk sends fits in GEOCODE_SIZE, but for a row that does not by itself.
THEOREM ChunksFit == Spec => []BatchFits
<1>1. ASSUME IInv
      PROVE  BatchFits
  <2>1. SUFFICES ASSUME phase = "send" PROVE Len(Addresses) <= GEOCODE_SIZE \/ Len(rows) = 1
    BY DEF BatchFits
  <2>2. Serving
    BY <2>1 DEF Serving
  <2>3. SpecGood /\ Len(rows) \in Nat /\ Count \in Nat
    BY <1>1, <2>2, ServingKnows
  <2>4. Len(rows) <= ChunkSize
    BY <1>1, <2>1 DEF IInv, ChunkTaken
  <2>5. Len(Addresses) = Count * Len(rows)
    <3>1. PICK n : n = Count * Len(rows)
      OBVIOUS
    <3>2. PICK s : s = Addresses
      OBVIOUS
    <3>3. s = [a \in 1..n |-> s[a]]
      BY <3>1, <3>2 DEF Addresses, Count
    <3>4. IsRow(s, n)
      BY <3>3 DEF IsRow
    <3>5. n \in Nat
      BY <2>3, <3>1, ProductIsNat
    <3> QED
      BY <3>1, <3>2, <3>4, <3>5, RowLength
  <2>6. PICK k : k = Len(rows)
    OBVIOUS
  <2>7. PICK C : C = Count
    OBVIOUS
  <2>8. PICK q : q = GEOCODE_SIZE \div Larger(C, 1)
    OBVIOUS
  <2>9. k \in Nat /\ C \in Nat /\ k <= Larger(1, q) /\ GEOCODE_SIZE \in Nat \ {0}
    BY <2>3, <2>4, <2>6, <2>7, <2>8, SizeAssumption DEF ChunkSize, Count
  <2>10. C * k <= GEOCODE_SIZE \/ k = 1
    <3>1. CASE C = 0
      <4>1. C * k = 0
        BY <2>9, <3>1
      <4> QED
        BY <2>9, <4>1
    <3>2. CASE C # 0
      <4>1. C \in Nat \ {0} /\ q = GEOCODE_SIZE \div C
        BY <2>8, <2>9, <3>2 DEF Larger
      <4>2. q \in Int /\ C * q <= GEOCODE_SIZE
        BY <2>9, <4>1
      <4>3. CASE q <= 1
        <5>1. k = 1 \/ k = 0
          BY <2>9, <4>2, <4>3 DEF Larger
        <5>2. k = 0 => C * k = 0
          BY <2>9
        <5> QED
          BY <2>9, <5>1, <5>2
      <4>4. CASE ~(q <= 1)
        <5>1. k <= q
          BY <2>9, <4>2, <4>4 DEF Larger
        <5>2. C * (q - k) \in Nat
          <6>1. q - k \in Nat
            BY <2>9, <4>2, <5>1
          <6> QED
            BY <2>9, <6>1, ProductIsNat
        <5>3. C * (q - k) = C * q - C * k /\ C * k \in Nat /\ C * q \in Int
          BY <2>9, <4>2, ProductIsNat
        <5> QED
          BY <2>9, <4>2, <5>2, <5>3
      <4> QED
        BY <4>3, <4>4
    <3> QED
      BY <3>1, <3>2
  <2> QED
    BY <2>5, <2>6, <2>7, <2>10
<1> QED
  BY <1>1, Invariance, PTL
===============================================================================
