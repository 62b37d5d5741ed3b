--------------------------------- MODULE Rows ---------------------------------
(***************************************************************************)
(* What becomes of a row: the columns that `read_csv_from_stdin` removes,  *)
(* looks up and announces in the header, the addresses `geocode_chunk`     *)
(* takes from each row, and where it puts what the geocoder returns        *)
(* (src/src/pipeline.rs and src/src/addresses.rs).                         *)
(*                                                                         *)
(* One table is followed from its specification and its header to its last *)
(* row.  Chunks are taken one after the other: Pipeline is about their     *)
(* concurrency.  A cell says where it comes from; the text of an input     *)
(* cell is a sequence of words.  A specification file is a sequence of its *)
(* members, [prefix, fields], in which the fields are a sequence of        *)
(* [name, value] and a value is a column name, a list of them or null.     *)
(***************************************************************************)
EXTENDS Integers, Positions, SequencesExt

CONSTANTS
    Names,         \* column names
    Headers,       \* the headers a file may have
    Words, Lines,  \* the words, and the texts of a row (as many as needed)
    PrefixOrder,   \* all prefixes, in the order of `sort_unstable`
    ColumnNames,   \* `geocoder.column_names()`
    FullName(_, _), \* `prefix_column_name`, for each prefix and column
    SpecFiles,     \* the files of --spec, see FileAssumption
    GEOCODE_SIZE,
    MaxRows        \* bound on the rows of the input, for TLC

AllPrefixes == ToSet(PrefixOrder)

\* The columns of one address: no, one or, for the street, any number of columns.
Optional == {"city", "state", "zipcode"}
Fields == {"street"} \cup Optional
Keys(K) == [Fields -> Seq(K)]

ASSUME TableAssumption ==
    /\ Headers \subseteq Seq(Names)
    /\ \A line \in Lines : line \in Seq(Seq(Words)) /\ \A h \in Headers : Len(h) <= Len(line)
    /\ MaxRows \in Nat
ASSUME ColumnAssumption ==
    /\ PrefixOrder \in Seq(STRING) /\ IsInjective(PrefixOrder)
    /\ ColumnNames \in Seq(STRING)
    /\ \A p \in AllPrefixes, c \in ToSet(ColumnNames) : FullName(p, c) \in Names
    \* The prefix, an underscore and the column.
    /\ \A p \in AllPrefixes : \A c, d \in ToSet(ColumnNames) :
           FullName(p, c) = FullName(p, d) => c = d
ASSUME SizeAssumption == GEOCODE_SIZE \in Nat \ {0}

Values ==
    [kind : {"name"}, names : [{1} -> Names]]
        \cup [kind : {"list"}, names : Seq(Names)]
        \cup [kind : {"null"}, names : {<<>>}]

ASSUME FileAssumption ==
    \A f \in SpecFiles :
        f \in Seq([prefix : AllPrefixes, fields : Seq([name : STRING, value : Values])])

\* Cells: from the file, from the geocoder, or empty because there is no match.
FileCell(row, col, text) == [from |-> "file", row |-> row, col |-> col, text |-> text]
OutCell(address, column) == [from |-> "geocoder", address |-> address, column |-> column]
NoMatch == [from |-> "nothing"]

VARIABLES
    phase,      \* what is being done
    policy,     \* --on-duplicate-columns
    file,       \* the specification file
    spec,       \* the specification, with names
    header,     \* the file's header
    flags,      \* `remove_column_flags`
    indices,    \* the specification, with indices
    outHeader,  \* `out_headers`
    next,       \* the next prefix to announce, or the next slice to lay out
    read,       \* the rows of the file read so far
    rows,       \* the chunk
    sent,       \* whether a chunk was sent, `sent_chunk`
    eof,        \* whether the file ended
    geocoded,   \* what the geocoder returned for the chunk
    out         \* the rows written

inputVars == <<policy, file, spec, header>>
shared == <<indices, outHeader>>  \* what every chunk refers to
headerVars == <<flags, shared>>
vars == <<phase, inputVars, headerVars, next, read, rows, sent, eof, geocoded, out>>

OnDuplicateColumns == {"error", "replace", "append"}

Init ==
    /\ phase = "spec"
    /\ policy \in OnDuplicateColumns
    /\ file \in SpecFiles /\ spec = <<>>
    /\ header \in Headers
    /\ flags = [i \in DOMAIN header |-> FALSE]
    /\ indices = <<>> /\ outHeader = <<>>
    /\ next = 1
    /\ read = <<>> /\ rows = <<>>
    /\ sent = FALSE /\ eof = FALSE
    /\ geocoded = <<>> /\ out = <<>>

Stop(how) == phase' = how /\ UNCHANGED <<inputVars, headerVars, next, read, rows, sent, eof, geocoded, out>>

-------------------------------------------------------------------------------
\* The specification.

\* The field that a name stands for: serde's aliases.
Aliases ==
    [street |-> {"street", "house_number_and_street", "address", "glob"},
     city |-> {"city"}, state |-> {"state"}, zipcode |-> {"zipcode", "postcode"}]
Given(fields, f) == {j \in DOMAIN fields : fields[j].name \in Aliases[f]}

\* No unknown field, each at most once, the street in any case, and a list only
\* there.
IsKeys(fields) ==
    /\ \A j \in DOMAIN fields : \E f \in Fields : j \in Given(fields, f)
    /\ \A f \in Fields : \A i, j \in Given(fields, f) : i = j
    /\ \E j \in Given(fields, "street") : fields[j].value.kind # "null"
    /\ \A f \in Optional : \A j \in Given(fields, f) : fields[j].value.kind # "list"

AddressColumnKeys(fields) ==
    [f \in Fields |->
        IF Given(fields, f) = {} THEN <<>>
        ELSE fields[CHOOSE j \in Given(fields, f) : TRUE].value.names]

\* A prefix that comes again replaces what it had.
AddressColumnSpec(members) ==
    [p \in {members[i].prefix : i \in DOMAIN members} |->
        LET last == CHOOSE i \in DOMAIN members :
                /\ members[i].prefix = p
                /\ \A k \in DOMAIN members : members[k].prefix = p => k <= i
        IN  AddressColumnKeys(members[last].fields)]

ParseError(members) == \E i \in DOMAIN members : ~IsKeys(members[i].fields)

\* `AddressColumnSpec::from_path`.
FromPath ==
    /\ phase = "spec" /\ ~ParseError(file)
    /\ phase' = "start"
    /\ spec' = AddressColumnSpec(file)
    /\ UNCHANGED <<policy, file, header, headerVars, next, read, rows, sent, eof, geocoded, out>>

FromPathFails == phase = "spec" /\ ParseError(file) /\ Stop("err")

-------------------------------------------------------------------------------
\* The header.

\* Sorted, whatever the order of the hash map.
SpecPrefixes ==
    Selected(PrefixOrder, {i \in DOMAIN PrefixOrder : PrefixOrder[i] \in DOMAIN spec})

Announced(p) == [c \in DOMAIN ColumnNames |-> FullName(p, ColumnNames[c])]
OutNames == UNION {ToSet(Announced(p)) : p \in DOMAIN spec}
NamesCollide ==
    \/ ~IsInjective(ColumnNames) /\ spec # <<>>
    \/ \E p, q \in DOMAIN spec : p # q /\ ToSet(Announced(p)) \cap ToSet(Announced(q)) # {}

\* Faulty: the names are compared without their prefix, too.
FaultyDuplicates == {i \in DOMAIN header : header[i] \in OutNames \cup ToSet(ColumnNames)}
Duplicates == {i \in DOMAIN header : header[i] \in OutNames}

Without(s, removed) == Selected(s, {i \in DOMAIN s : ~removed[i]})

Flags == [i \in DOMAIN header |-> policy = "replace" /\ i \in Duplicates]
Remaining == Without(header, Flags)

\* `convert_to_indices`: where the named columns are in `names`.
Position(names, n) == CHOOSE i \in DOMAIN names : names[i] = n
ToIndices(names, keys) ==
    [f \in DOMAIN keys |-> [k \in DOMAIN keys[f] |-> Position(names, keys[f][k])]]
Known(names, keys) == \A f \in DOMAIN keys : ToSet(keys[f]) \subseteq ToSet(names)

\* `convert_to_indices_using_headers` takes no header with a repeated column.
DuplicateHeader == ~IsInjective(Remaining)

\* Faulty: a header with a repeated column is taken.
FaultyRefused ==
    \/ NamesCollide
    \/ policy = "error" /\ Duplicates # {}
    \/ \E p \in DOMAIN spec : ~Known(Remaining, spec[p])

Refused ==
    \/ NamesCollide
    \/ policy = "error" /\ Duplicates # {}
    \/ DuplicateHeader
    \/ \E p \in DOMAIN spec : ~Known(Remaining, spec[p])

RefuseHeader == phase = "start" /\ Refused /\ Stop("err")

\* Faulty: the columns are looked up before some are removed.
FaultyReadHeader ==
    /\ phase = "start" /\ ~Refused
    /\ phase' = "header"
    /\ flags' = Flags
    /\ outHeader' = Remaining
    /\ indices' = [p \in DOMAIN spec |-> ToIndices(header, spec[p])]
    /\ UNCHANGED <<inputVars, next, read, rows, sent, eof, geocoded, out>>

ReadHeader ==
    /\ phase = "start" /\ ~Refused
    /\ phase' = "header"
    /\ flags' = Flags
    /\ outHeader' = Remaining
    /\ indices' = [p \in DOMAIN spec |-> ToIndices(Remaining, spec[p])]
    /\ UNCHANGED <<inputVars, next, read, rows, sent, eof, geocoded, out>>

\* `add_header_columns` for the next prefix.
AddHeaderColumns ==
    /\ phase = "header" /\ next \in DOMAIN SpecPrefixes
    /\ outHeader' = outHeader \o Announced(SpecPrefixes[next])
    /\ next' = next + 1
    /\ UNCHANGED <<phase, inputVars, flags, indices, read, rows, sent, eof, geocoded, out>>

HeaderReady ==
    /\ phase = "header" /\ next \notin DOMAIN SpecPrefixes
    /\ phase' = "rows"
    /\ next' = 1
    /\ UNCHANGED <<inputVars, headerVars, read, rows, sent, eof, geocoded, out>>

-------------------------------------------------------------------------------
\* The rows.

Larger(a, b) == IF a < b THEN b ELSE a

\* Faulty: a row is taken for one address.
FaultyChunkSize == GEOCODE_SIZE
ChunkSize == Larger(1, GEOCODE_SIZE \div Larger(Len(SpecPrefixes), 1))

\* A record is as wide as the header, or the CSV library reports an error.
ReadRow ==
    /\ phase = "rows" /\ Len(read) < MaxRows
    /\ \E line \in Lines :
           LET row == [i \in DOMAIN header |-> FileCell(Len(read) + 1, i, line[i])]
               fill == Append(rows, Without(row, flags))
           IN
           /\ read' = Append(read, row)
           /\ rows' = fill
           /\ phase' = IF Len(fill) >= ChunkSize THEN "send" ELSE "rows"
    /\ UNCHANGED <<inputVars, headerVars, next, sent, eof, geocoded, out>>

ReadError == phase = "rows" /\ Stop("err")

EndOfFile ==
    /\ phase = "rows"
    /\ eof' = TRUE
    /\ phase' = IF ~sent \/ rows # <<>> THEN "send" ELSE "done"
    /\ UNCHANGED <<inputVars, headerVars, next, read, rows, sent, geocoded, out>>

\* Texts joined by a space, but for one that what was joined already ends with.
Join(texts) ==
    FoldLeft(LAMBDA joined, s : IF IsSuffix(s, joined) THEN joined ELSE joined \o s,
             <<>>, texts)
Text(row, f) == [k \in DOMAIN f |-> row[f[k]].text]
Address(row, keys) ==
    [f \in Fields |->
        IF f = "street" THEN Join(Text(row, keys[f])) ELSE Text(row, keys[f])]

\* All the addresses of the first prefix, then all those of the second, ...
Addresses ==
    LET n == Len(rows) IN
    [a \in 1..(Len(SpecPrefixes) * n) |->
        Address(rows[((a - 1) % n) + 1], indices[SpecPrefixes[((a - 1) \div n) + 1]])]

Geocoded(address, found) ==
    [c \in DOMAIN ColumnNames |-> IF found THEN OutCell(address, c) ELSE NoMatch]

\* The geocoder answers for each address, in order; with no rows,
\* `geocoded.chunks(0)` panics.
Geocode ==
    /\ phase = "send" /\ rows # <<>>
    /\ \E found \in [DOMAIN Addresses -> BOOLEAN] :
           geocoded' = [a \in DOMAIN Addresses |-> Geocoded(Addresses[a], found[a])]
    /\ phase' = "layout"
    /\ sent' = TRUE
    /\ UNCHANGED <<inputVars, headerVars, next, read, rows, eof, out>>

GeocodeEmpty == phase = "send" /\ rows = <<>> /\ Stop("panic")

GeocodeError == phase = "send" /\ rows # <<>> /\ Stop("err")

SliceStart == (next - 1) * Len(rows)

\* Faulty: the answers are taken to come row by row.
FaultyAddColumns ==
    /\ phase = "layout" /\ SliceStart < Len(geocoded)
    /\ rows' = [r \in DOMAIN rows |-> rows[r] \o geocoded[(r - 1) * Len(SpecPrefixes) + next]]
    /\ next' = next + 1
    /\ UNCHANGED <<phase, inputVars, headerVars, read, sent, eof, geocoded, out>>

\* The next slice of answers, one for each row, is added to the rows.
AddColumns ==
    /\ phase = "layout" /\ SliceStart < Len(geocoded)
    /\ rows' = [r \in DOMAIN rows |-> rows[r] \o geocoded[SliceStart + r]]
    /\ next' = next + 1
    /\ UNCHANGED <<phase, inputVars, headerVars, read, sent, eof, geocoded, out>>

WriteChunk ==
    /\ phase = "layout" /\ SliceStart >= Len(geocoded)
    /\ out' = out \o rows
    /\ rows' = <<>> /\ geocoded' = <<>>
    /\ next' = 1
    /\ phase' = IF eof THEN "done" ELSE "rows"
    /\ UNCHANGED <<inputVars, headerVars, read, sent, eof>>

Terminated == phase \in {"done", "err", "panic"} /\ UNCHANGED vars

Next ==
    \/ FromPath \/ FromPathFails \/ RefuseHeader \/ ReadHeader \/ AddHeaderColumns \/ HeaderReady
    \/ ReadRow \/ ReadError \/ EndOfFile
    \/ Geocode \/ GeocodeEmpty \/ GeocodeError \/ AddColumns \/ WriteChunk
    \/ Terminated

Spec == Init /\ [][Next]_vars

-------------------------------------------------------------------------------
\* Properties.

FileCells == [from : {"file"}, row : Nat, col : Nat, text : Seq(Words)]
OutCells ==
    [from : {"geocoder"}, column : DOMAIN ColumnNames,
     address : [street : Seq(Words), city : Seq(Seq(Words)),
                state : Seq(Seq(Words)), zipcode : Seq(Seq(Words))]]
Row == Seq(FileCells \cup OutCells \cup {NoMatch})

\* The indices of the specification are within the rows they are used on.
TypeOK ==
    /\ phase \in {"spec", "start", "header", "rows", "send", "layout", "done", "err", "panic"}
    /\ flags \in [DOMAIN header -> BOOLEAN]
    /\ \A p \in DOMAIN indices : indices[p] \in Keys(DOMAIN Without(header, flags))
    /\ outHeader \in Seq(Names)
    /\ next \in Nat \ {0}
    /\ read \in Seq(Seq(FileCells))
    /\ rows \in Seq(Row) /\ geocoded \in Seq(Row) /\ out \in Seq(Row)
    /\ sent \in BOOLEAN /\ eof \in BOOLEAN

\* The columns the file names for a field of a prefix, by any of its names.
NamesFor(p, f) ==
    LET members == {i \in DOMAIN file : file[i].prefix = p}
        last == CHOOSE i \in members : \A k \in members : k <= i
        named == {j \in DOMAIN file[last].fields : file[last].fields[j].name \in Aliases[f]}
    IN  IF named = {} THEN <<>>
        ELSE file[last].fields[CHOOSE j \in named : TRUE].value.names

\* The address that the specification asks for, by the names of the columns.
NamedText(n, names) == [k \in DOMAIN names |-> read[n][Position(header, names[k])].text]
NamedAddress(n, p) ==
    [f \in Fields |->
        LET text == NamedText(n, NamesFor(p, f))
        IN  IF f = "street" THEN Join(text) ELSE text]

\* A cell of the n-th row under the name it should stand under.
Belongs(cell, n, name) ==
    \/ \E i \in DOMAIN header : header[i] = name /\ cell = read[n][i]
    \/ \E p \in DOMAIN spec, c \in DOMAIN ColumnNames :
           /\ FullName(p, ColumnNames[c]) = name
           /\ cell = NoMatch \/ cell = OutCell(NamedAddress(n, p), c)

\* Every cell of the output stands under its own column: an input cell under the
\* name it had in the file, a geocoded one under its prefix and column, and about
\* the address that the specification names in that very row; rows are complete
\* and keep their order.  Columns are removed from header and rows apart, indices
\* are looked up after that (pipeline.rs:274-277), and the answers are laid out
\* by their position in a list ordered by prefix, then by row (lines 419-432 and
\* 467-477).
CellsUnderHeaders ==
    /\ Len(out) <= Len(read)
    /\ \A n \in DOMAIN out :
           /\ Len(out[n]) = Len(outHeader)
           /\ \A j \in DOMAIN outHeader : Belongs(out[n][j], n, outHeader[j])
    /\ phase = "done" => Len(out) = Len(read)

\* No column of the file gets lost: what is removed comes back as a column of the
\* geocoder (addresses.rs:284-291), and unless asked to append, the output has no
\* two columns of one name.
HeaderKeepsNames ==
    phase \in {"rows", "send", "layout", "done"} => ToSet(header) \subseteq ToSet(outHeader)
NoDuplicateColumns ==
    phase \in {"rows", "send", "layout", "done"} /\ policy # "append" => IsInjective(outHeader)

\* "We want to geocode no more `GEOCODE`-size addresses at a time, and each input
\* row may generate up to `spec.prefix_count()` addresses" (pipeline.rs:279-281):
\* what is sent to the geocoder fits, but for a row that does not by itself.
BatchFits ==
    phase = "send" => Len(Addresses) <= GEOCODE_SIZE \/ Len(rows) = 1
===============================================================================
