------------------------------ MODULE Startup ------------------------------
(***************************************************************************)
(* wsd from main to the event loop and from there to exit (wsd.c), for     *)
(* several instances that are started, stopped and killed on one host with *)
(* one listening port and one pid file.  Every system call that another    *)
(* instance can observe, or that can fail, is a step.                      *)
(*                                                                         *)
(* Abstraction.  A forked child goes on as the instance that forked it;    *)
(* what the pid file holds is whose process id it is, if any.  The kernel  *)
(* is modelled from how it is used: with SO_REUSEADDR, several sockets may *)
(* be bound to a port on which nobody listens, but only one can listen.    *)
(***************************************************************************)
EXTENDS Integers

CONSTANTS
    Instances,  \* processes that are started, in any order
    CommandLines,
    None

\* How wsd may be started: -p with an absolute or a relative path, -u, -d, by whom.
Options == [pidfile : {"none", "abs", "rel"}, user : {"wsd", "root"},
            no_fork : BOOLEAN, by : {"root", "wsd", "other"}]

ASSUME StartupAssumption ==
    /\ CommandLines \subseteq Options
    /\ None \notin [of : Instances, written : BOOLEAN]

VARIABLES
    opt,        \* opt[i]: the command line of instance i
    pc,         \* pc[i]: what it does next
    uid,        \* uid[i]: on whose behalf
    file,       \* the pid file: None, or whose it is and whether that is written
    writable    \* may the daemon's user remove files from its directory?

vars == <<opt, pc, uid, file, writable>>

Ended == {"stopped", "failed"}

Init ==
    /\ opt \in [Instances -> CommandLines]
    /\ pc = [i \in Instances |-> "getpwnam"]
    /\ uid = [i \in Instances |-> opt[i].by]
    /\ file = None
    /\ writable \in BOOLEAN

Listening == {i \in Instances : pc[i] \in {"serving", "close"}}

HasFile(i) == opt[i].pidfile # "none"

\* Instance i goes on at one of next; file and uid are left to the caller.
Goto(i, next) ==
    /\ \E n \in next : pc' = [pc EXCEPT ![i] = n]
    /\ UNCHANGED <<opt, writable>>

At(i, here) == pc[i] = here

-----------------------------------------------------------------------------
(* main                                                                    *)

\* "daemon user can't be root".
CheckUser(i) ==
    /\ At(i, "getpwnam")
    /\ Goto(i, {IF opt[i].user = "root" THEN "failed" ELSE "open"})
    /\ UNCHANGED <<uid, file>>

\* Mutation of OpenPidfile: without O_EXCL.
M_OpenPidfile(i) ==
    /\ At(i, "open")
    /\ IF ~HasFile(i) THEN Goto(i, {"fork"}) /\ UNCHANGED file
       ELSE Goto(i, {"fchown"}) /\ file' = [of |-> i, written |-> FALSE]
    /\ UNCHANGED uid

\* open with O_CREAT and O_EXCL.
OpenPidfile(i) ==
    /\ At(i, "open")
    /\ IF ~HasFile(i) THEN Goto(i, {"fork"}) /\ UNCHANGED file
       ELSE IF file # None THEN Goto(i, {"failed"}) /\ UNCHANGED file
       ELSE Goto(i, {"fchown"}) /\ file' = [of |-> i, written |-> FALSE]
    /\ UNCHANGED uid

\* The file is given to the daemon's user: root may do that, and that user itself.
Fchown(i) ==
    /\ At(i, "fchown")
    /\ Goto(i, {IF uid[i] = "other" THEN "failed" ELSE "fork"})
    /\ UNCHANGED <<uid, file>>

\* The child, or with -d the process itself, goes on; setsid and chdir("/").
Fork(i) ==
    /\ At(i, "fork")
    /\ Goto(i, {"write"} \cup (IF opt[i].no_fork THEN {} ELSE {"failed"}))
    /\ UNCHANGED <<uid, file>>

\* Its process id is written.  If that fails the file is unlinked, which has no
\* effect if the path is relative.
WritePid(i) ==
    /\ At(i, "write")
    /\ \/ /\ Goto(i, {"bind"})
          /\ file' = IF HasFile(i) THEN [of |-> i, written |-> TRUE] ELSE file
       \/ /\ HasFile(i)
          /\ Goto(i, {"failed"})
          /\ file' = IF opt[i].pidfile = "abs" THEN None ELSE file
    /\ UNCHANGED uid

\* listen_sk_bind: AZ(bind) fails while someone listens.
listen_sk_bind(i) ==
    /\ At(i, "bind")
    /\ Goto(i, {IF Listening # {} THEN "failed" ELSE "drop_priv"})
    /\ UNCHANGED <<uid, file>>

\* Mutation of drop_priv: a failure is not noticed.
M_drop_priv(i) ==
    /\ At(i, "drop_priv")
    /\ \/ uid' = [uid EXCEPT ![i] = IF @ = "root" THEN opt[i].user ELSE @]
       \/ UNCHANGED uid
    /\ Goto(i, {"listen"})
    /\ UNCHANGED file

\* Only root changes to the daemon's user; anybody else stays who he is.
drop_priv(i) ==
    /\ At(i, "drop_priv")
    /\ \/ /\ uid' = [uid EXCEPT ![i] = IF @ = "root" THEN opt[i].user ELSE @]
          /\ Goto(i, {"listen"})
       \/ /\ uid[i] = "root"
          /\ Goto(i, {"failed"})
          /\ UNCHANGED uid
    /\ UNCHANGED file

\* wschild_main returns at once if there is no memory; AZ(listen) fails if someone
\* else listens already.
Listen(i) ==
    /\ At(i, "listen")
    /\ Goto(i, {"unlink", IF Listening # {} THEN "failed" ELSE "serving"})
    /\ UNCHANGED <<uid, file>>

\* SIGTERM ends the event loop.
Sigterm(i) ==
    /\ At(i, "serving")
    /\ Goto(i, {"close"})
    /\ UNCHANGED <<uid, file>>

CloseListening(i) ==
    /\ At(i, "close")
    /\ Goto(i, {"unlink"})
    /\ UNCHANGED <<uid, file>>

\* Mutation of Unlink: its return value is ignored.
M_Unlink(i) ==
    /\ At(i, "unlink")
    /\ IF HasFile(i) /\ opt[i].pidfile = "abs" /\ writable
       THEN file' = None ELSE UNCHANGED file
    /\ Goto(i, {"free"})
    /\ UNCHANGED uid

\* AZ(unlink(pidfilename)), now from "/" and as the daemon's user: a relative path
\* names another file there, which is taken not to exist.
Unlink(i) ==
    /\ At(i, "unlink")
    /\ IF ~HasFile(i) THEN Goto(i, {"free"}) /\ UNCHANGED file
       ELSE IF opt[i].pidfile = "abs" /\ writable
       THEN Goto(i, {"free"}) /\ file' = None
       ELSE Goto(i, {"failed"}) /\ UNCHANGED file
    /\ UNCHANGED uid

\* free(cfg.fhostname[0]) frees an argument or a literal: whether that is noticed
\* is up to the library.
Free(i) ==
    /\ At(i, "free")
    /\ Goto(i, {"stopped", "failed"})
    /\ UNCHANGED <<uid, file>>

\* The instance is killed, or fails one of the assertions of wschild_main.
Killed(i) ==
    /\ pc[i] \notin Ended
    /\ Goto(i, {"failed"})
    /\ UNCHANGED <<uid, file>>

Next == \E i \in Instances :
            \/ CheckUser(i) \/ OpenPidfile(i) \/ Fchown(i) \/ Fork(i)
            \/ WritePid(i) \/ listen_sk_bind(i) \/ drop_priv(i) \/ Listen(i)
            \/ Sigterm(i) \/ CloseListening(i) \/ Unlink(i) \/ Free(i) \/ Killed(i)

Spec == Init /\ [][Next]_vars

-----------------------------------------------------------------------------
(* Properties                                                              *)

\* The event loop is never entered on behalf of root, whoever started wsd and
\* whichever step failed.
NeverServesAsRoot == \A i \in Instances : pc[i] = "serving" => uid[i] # "root"

\* Between open and exit: the instances for which the pid file stands.
Holders == {i \in Instances : /\ HasFile(i)
                              /\ pc[i] \notin Ended \cup {"getpwnam", "open", "free"}}

\* At most one instance started with -p is past open, and the file is its own: no
\* other one overwrites or removes it, and while it serves its process id is there.
PidFileHeld ==
    \A i \in Holders : /\ Holders = {i}
                       /\ file # None /\ file.of = i
                       /\ pc[i] = "serving" => file.written

\* A stop that gets to its end leaves no pid file, which would keep every later
\* instance from starting: one that may not remove it ends in failure instead.
StopLeavesNoFile ==
    \A i \in Instances :
        pc[i] \in {"free", "stopped"} => (file = None \/ file.of # i)

=============================================================================
