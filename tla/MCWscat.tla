------------------------------ MODULE MCWscat ------------------------------
(***************************************************************************)
(* Instances of Wscat for TLC.                                             *)
(***************************************************************************)
EXTENDS Wscat

\* wscat ws://host, and the options that differ from it.
Plain == [tls |-> FALSE, json |-> FALSE, no_handshake |-> FALSE,
          idle |-> FALSE, ping |-> -1, repeat |-> -1]

CommandLines ==
    {Plain,
     [Plain EXCEPT !.idle = TRUE, !.ping = 1],
     [Plain EXCEPT !.tls = TRUE],
     [Plain EXCEPT !.json = TRUE, !.idle = TRUE, !.repeat = 2],
     [Plain EXCEPT !.repeat = 2],
     [Plain EXCEPT !.no_handshake = TRUE, !.repeat = 1]}

Repeating == {[Plain EXCEPT !.repeat = 2]}
=============================================================================
