--------------------------- MODULE WschildClaims ---------------------------
(***************************************************************************)
(* What the repository says about the daemon and the daemon of Wschild     *)
(* does not do.                                                            *)
(***************************************************************************)
EXTENDS MCWschild

\* work_list is the "List of work pending" (types.h), of sockets that exist:
\* pp2_recv asserts AN(pp2sk) of the socket try_recv calls it for.
WorkListNotFreed == Freed \notin work_list

=============================================================================
