----------------------------- MODULE MCParsers -----------------------------
(***************************************************************************)
(* The instance of Parsers for TLC.                                        *)
(***************************************************************************)
EXTENDS Parsers

TextLengths == [uri |-> 9, list |-> 8, json |-> 8, request |-> 7]

Good(n) == [name |-> n, more |-> FALSE, colon |-> TRUE, value |-> "good", odd |-> FALSE]

\* Among them Connection: keep-alive, Upgrade-Insecure-Requests, Hostname, empty
\* values, an Upgrade without a colon and a field that ends the others early.
SomeFields ==
    {Good("Host"), Good("Upgrade"), Good("Connection"), Good("other"),
     [Good("Host") EXCEPT !.value = "empty"], [Good("Host") EXCEPT !.more = TRUE],
     [Good("Upgrade") EXCEPT !.value = "bad", !.more = TRUE],
     [Good("Upgrade") EXCEPT !.colon = FALSE],
     [Good("Connection") EXCEPT !.value = "bad"],
     [Good("Connection") EXCEPT !.value = "empty"],
     [Good("other") EXCEPT !.odd = TRUE]}
=============================================================================
