-------------------------------- MODULE MCRows --------------------------------
(***************************************************************************)
(* Instances of Rows for TLC.  The prefixes "h" and "h_x" with the columns *)
(* "x_c" and "c" make two announced names collide; the headers have output *)
(* columns before, between and after the input columns, repeated ones and  *)
(* one named like a column without prefix; one specification has no        *)
(* prefix, one names a column that may get removed, one has a prefix       *)
(* twice, and five are refused.                                            *)
(***************************************************************************)
EXTENDS Rows

MCPrefixOrder == <<"h", "w", "x">>
MCColumnNames == <<"c", "d">>
MCFullName(p, c) ==
    CASE <<p, c>> = <<"h", "c">> -> "h_c" [] <<p, c>> = <<"h", "d">> -> "h_d"
      [] <<p, c>> = <<"w", "c">> -> "w_c" [] <<p, c>> = <<"w", "d">> -> "w_d"
      [] <<p, c>> = <<"x", "c">> -> "h_d" [] <<p, c>> = <<"x", "d">> -> "x_d"
MCNames == {"a", "b", "c", "h_c", "h_d", "w_c", "w_d", "x_d"}
MCHeaders == {<<"a", "b", "c">>, <<"h_c", "a", "b">>, <<"a", "w_d", "b", "h_c">>,
              <<"a", "a", "b">>, <<"h_c", "h_c", "b", "a">>, <<"b", "a", "w_c">>}

Name(n) == [kind |-> "name", names |-> <<n>>]
List(ns) == [kind |-> "list", names |-> ns]
Null == [kind |-> "null", names |-> <<>>]
Field(name, value) == [name |-> name, value |-> value]
Member(prefix, fields) == [prefix |-> prefix, fields |-> fields]

MCSpecFiles == {
    << Member("w", <<Field("address", List(<<"b", "a">>)), Field("state", Name("a")),
                     Field("city", Null)>>),
       Member("h", <<Field("city", Name("b")), Field("street", Name("a"))>>) >>,
    << Member("w", <<Field("street", Name("a"))>>),
       Member("w", <<Field("glob", Name("b")), Field("postcode", Name("a"))>>) >>,
    << Member("h", <<Field("street", Name("b"))>>),
       Member("x", <<Field("street", List(<<"a">>))>>) >>,
    << Member("h", <<Field("house_number_and_street", List(<<"h_c", "b">>))>>) >>,
    <<>>,
    << Member("h", <<Field("city", Name("b"))>>) >>,
    << Member("h", <<Field("street", Null)>>) >>,
    << Member("h", <<Field("street", Name("a")), Field("glob", Name("b"))>>) >>,
    << Member("h", <<Field("street", Name("a")), Field("city", List(<<"b">>))>>) >>,
    << Member("h", <<Field("street", Name("a")), Field("zip", Name("b"))>>) >> }

MCWords == {"1", "main"}
MCLines == {<< <<"1">>, <<"main">>, <<>>, <<"1">> >>,
            << <<>>, <<"1", "main">>, <<"main">>, <<>> >>,
            << <<"main">>, <<"main">>, <<"1">>, <<"1">> >>}
===============================================================================
