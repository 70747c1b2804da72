----------------------------- MODULE MCStartup -----------------------------
(***************************************************************************)
(* The instance of Startup for TLC.                                        *)
(***************************************************************************)
EXTENDS Startup

\* wsd -p /path started by root, and command lines that differ from it.
ByRoot == [pidfile |-> "abs", user |-> "wsd", no_fork |-> FALSE, by |-> "root"]

SomeCommandLines ==
    {ByRoot,
     [ByRoot EXCEPT !.pidfile = "none"],
     [ByRoot EXCEPT !.pidfile = "rel", !.by = "wsd"],
     [ByRoot EXCEPT !.by = "other"],
     [ByRoot EXCEPT !.user = "root", !.no_fork = TRUE],
     [ByRoot EXCEPT !.no_fork = TRUE, !.by = "wsd"]}
=============================================================================
