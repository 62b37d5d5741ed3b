----------------------------- MODULE MCGeocoders ------------------------------
(***************************************************************************)
(* An instance of Geocoders for TLC: two calls that share the limiter, and *)
(* addresses that normalization gives a street, takes it from, or reorders *)
(***************************************************************************)
EXTENDS Geocoders

\* What each word is, to libpostal.
KindOf ==
    [n12 |-> "house_number", main |-> "road", bel |-> "suburb", air |-> "city",
     ny |-> "state", z10 |-> "postcode", top |-> "level", nul |-> "house"]

MCParse(text, component) ==
    SelectSeq(text, LAMBDA word : KindOf[word] = component)

Address(street, city) ==
    [street |-> street, city |-> city, state |-> <<>>, zipcode |-> <<>>]

Proper == Address(<<"n12", "main">>, <<"air", "bel">>)
StreetInCity == Address(<<>>, <<"main", "n12", "top">>)
CityInStreet == Address(<<"air", "ny">>, <<>>)
Nothing == Address(<<>>, <<"z10">>)
WithNul == Address(<<"nul">>, <<>>)

MCRequests ==
    {<<Nothing, StreetInCity>>, <<CityInStreet, Proper>>,
     <<Nothing, StreetInCity, Proper>>, <<Proper, StreetInCity>>,
     <<WithNul, Proper>>, <<>>}

\* Of the command lines, those in which every layer is there or not.
Option(geocoder, layers, limit, server) ==
    [geocoder |-> geocoder, cache |-> "cache" \in layers,
     outputKeys |-> "keys" \in layers, hitsOnly |-> "hits only" \in layers,
     normalize |-> "normalize" \in layers,
     includeLibpostal |-> "pair" \in layers, limit |-> limit, server |-> server]

MCOptions ==
    {Option("smarty", {"normalize", "pair"}, 1, FALSE),
     Option("smarty", {"cache", "keys", "normalize"}, 0, TRUE),
     Option("smarty", {"cache", "hits only", "pair"}, 0, TRUE),
     Option("libpostal", {"cache", "keys", "normalize", "pair"}, 0, TRUE),
     Option("libpostal", {}, 0, FALSE)}

\* Columns at the top of an answer and below another key, and one left out.
MCComplete ==
    <<[key |-> "delivery_line_1", value |-> "true"],
      [key |-> "metadata", value |-> "object",
       keys |-> <<[key |-> "rdi", value |-> "false"],
                  [key |-> "precision", value |-> "true"]>>]>>

Fields(line, precision) ==
    (<<"delivery_line_1">> :> line) @@ (<<"metadata", "precision">> :> precision)

MCAnswer ==
    {Fields("text", "text"), Fields("text", "empty"),
     Fields("null byte", "text"), Fields("text", "nested")}
==============================================================================
