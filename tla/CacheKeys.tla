------------------------------ MODULE CacheKeys -------------------------------
(***************************************************************************)
(* The keys under which src/src/geocoders/cache/mod.rs saves what it gets  *)
(* from a geocoder: which addresses, and which geocoders, share a key.     *)
(*                                                                         *)
(* A text is a sequence of characters, or of longer words where nothing    *)
(* depends on their characters.  The letters A and B stand for all upper   *)
(* case letters.                                                           *)
(***************************************************************************)
EXTENDS Naturals, Sequences, SequencesExt

CONSTANT
    Hash(_)  \* the first two bytes of a SHA-256, in hexadecimal

-------------------------------------------------------------------------------
\* Addresses.  An optional text is a sequence of at most one text.

Str(field) == IF field = <<>> THEN <<>> ELSE Head(field)

ToLower == [A |-> "a", B |-> "b"]
LowerCase(text) ==
    [i \in DOMAIN text |->
        IF text[i] \in DOMAIN ToLower THEN ToLower[text[i]] ELSE text[i]]

EqIgnoreAsciiCase(a, b) ==
    /\ LowerCase(a.street) = LowerCase(b.street)
    /\ \A field \in {"city", "state", "zipcode"} :
           LowerCase(Str(a[field])) = LowerCase(Str(b[field]))

-------------------------------------------------------------------------------
\* Geocoders: a tag, the names of their columns, and their configuration.

MatchStrategy == {"strict", "range", "invalid", "enhanced"}

Smarty(columns, strategy, license) ==
    [tag |-> "sm", columns |-> columns, configuration |-> <<strategy, ":">> \o license]
LibPostal(columns) ==
    [tag |-> "lp", columns |-> columns, configuration |-> <<"default">>]

\* What is hashed: each name with a byte 0 after it, then the configuration.
Hashed(g) ==
    FlattenSeq([i \in DOMAIN g.columns |-> Append(g.columns[i], "0")])
        \o g.configuration

CachePrefix(g) == <<g.tag, ":">> \o Hash(Hashed(g))

-------------------------------------------------------------------------------
\* Keys.

\* Faulty: the backslash that escapes is not escaped itself.
FaultyEscapeColons(text) ==
    FlattenSeq([i \in DOMAIN text |->
        IF text[i] = ":" THEN <<"\\", text[i]>> ELSE <<text[i]>>])

EscapeColons(text) ==
    FlattenSeq([i \in DOMAIN text |->
        IF text[i] \in {":", "\\"} THEN <<"\\", text[i]>> ELSE <<text[i]>>])

CacheKey(g, a) ==
    LowerCase(<<"gcsv", ":">> \o CachePrefix(g)
        \o <<":">> \o EscapeColons(Str(a.state))
        \o <<":">> \o EscapeColons(Str(a.city))
        \o <<":">> \o EscapeColons(Str(a.zipcode))
        \o <<":">> \o EscapeColons(a.street))
==============================================================================
