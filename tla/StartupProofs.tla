--------------------------- MODULE StartupProofs ---------------------------
(***************************************************************************)
(* The properties of Startup, for any set of instances and command lines.  *)
(***************************************************************************)
EXTENDS Startup, TLAPS

-----------------------------------------------------------------------------
(* The inductive invariant                                                 *)

Steps == {"getpwnam", "open", "fchown", "fork", "write", "bind", "drop_priv",
          "listen", "serving", "close", "unlink", "free"} \cup Ended

\* The types of the variables.
Typed ==
    /\ opt \in [Instances -> Options]
    /\ pc \in [Instances -> Steps]
    /\ uid \in [Instances -> {"root", "wsd", "other"}]
    /\ file \in {None} \cup [of : Instances, written : BOOLEAN]
    /\ writable \in BOOLEAN

\* An instance that got past the check of the user is not to become root.
UserChecked ==
    \A i \in Instances : pc[i] \notin {"getpwnam", "failed"} => opt[i].user # "root"

\* Privileges are gone before listen is called.
Dropped ==
    \A i \in Instances :
        pc[i] \in {"listen", "serving", "close"} => uid[i] # "root"

\* Between open and unlink the file is there, the instance's own, and written from
\* write on.
FileOwned ==
    \A i \in Instances :
        /\ HasFile(i) /\ pc[i] \in {"fchown", "fork", "write", "bind", "drop_priv",
                                    "listen", "serving", "close", "unlink"}
        => /\ file # None
           /\ file.of = i
           /\ pc[i] \notin {"fchown", "fork", "write"} => file.written

\* An instance that has removed its file, or never makes one, has none.
FileRemoved ==
    \A i \in Instances :
        (pc[i] \in {"free", "stopped"} \/ ~HasFile(i)) /\ file # None => file.of # i

Inv == Typed /\ UserChecked /\ Dropped /\ FileOwned /\ FileRemoved

-----------------------------------------------------------------------------
\* The invariant holds when no instance has been started.
LEMMA InvInit == Init => Inv
  BY StartupAssumption
     DEF Init, Inv, Typed, UserChecked, Dropped, FileOwned,
         FileRemoved, Steps, Ended, Options, HasFile

\* A step of instance i from here leaves the program counters of others alone.
LEMMA Moves ==
    ASSUME Typed, NEW i \in Instances, NEW next, next \subseteq Steps, Goto(i, next)
    PROVE  /\ pc' \in [Instances -> Steps]
           /\ pc'[i] \in next
           /\ \A j \in Instances \ {i} : pc'[j] = pc[j]
           /\ opt' = opt /\ writable' = writable
           /\ \A j \in Instances : HasFile(j)' <=> HasFile(j)
  BY DEF Typed, Goto, HasFile

\* Every step of main preserves the invariant.
LEMMA InvNext == Inv /\ [Next]_vars => Inv'
<1> SUFFICES ASSUME Inv, [Next]_vars PROVE Inv'
  OBVIOUS
<1> USE DEF Inv, Typed, UserChecked, Dropped, FileOwned, FileRemoved, At
<1>1. ASSUME NEW i \in Instances, CheckUser(i) PROVE Inv'
  BY <1>1, Moves DEF CheckUser, Steps, Ended
<1>2. ASSUME NEW i \in Instances, OpenPidfile(i) PROVE Inv'
  <2>1. CASE Goto(i, {"fork"}) /\ UNCHANGED <<uid, file>> /\ ~HasFile(i)
    BY <1>2, <2>1, Moves DEF OpenPidfile, Steps, Ended
  <2>2. CASE Goto(i, {"failed"}) /\ UNCHANGED <<uid, file>>
    BY <1>2, <2>2, Moves DEF OpenPidfile, Steps, Ended
  <2>3. CASE /\ Goto(i, {"fchown"}) /\ UNCHANGED uid
             /\ file = None /\ HasFile(i)
             /\ file' = [of |-> i, written |-> FALSE]
    <3>1. file' \in [of : Instances, written : BOOLEAN] /\ file' # None /\ file'.of = i
      <4>1. /\ [of |-> i, written |-> FALSE] \in [of : Instances, written : BOOLEAN]
            /\ [of |-> i, written |-> FALSE].of = i
        OBVIOUS
      <4> QED BY <2>3, <4>1, StartupAssumption, Zenon
    <3>2. /\ pc' \in [Instances -> Steps] /\ pc'[i] = "fchown"
          /\ \A j \in Instances \ {i} : pc'[j] = pc[j]
          /\ opt' = opt /\ writable' = writable
          /\ \A j \in Instances : HasFile(j)' <=> HasFile(j)
      BY <2>3, Moves DEF Steps
    <3>3. \A j \in Instances \ {i} : HasFile(j) =>
              pc[j] \notin {"fchown", "fork", "write", "bind", "drop_priv",
                            "listen", "serving", "close", "unlink"}
      BY <2>3
    <3> QED BY <1>2, <2>3, <3>1, <3>2, <3>3 DEF OpenPidfile
  <2> QED BY <1>2, <2>1, <2>2, <2>3 DEF OpenPidfile
<1>3. ASSUME NEW i \in Instances, Fchown(i) PROVE Inv'
  BY <1>3, Moves DEF Fchown, Steps, Ended
<1>4. ASSUME NEW i \in Instances, Fork(i) PROVE Inv'
  BY <1>4, Moves DEF Fork, Steps, Ended
<1>5. ASSUME NEW i \in Instances, WritePid(i) PROVE Inv'
  <2>1. CASE Goto(i, {"bind"}) /\ UNCHANGED <<uid, file>> /\ ~HasFile(i)
    BY <1>5, <2>1, Moves DEF WritePid, Steps, Ended
  <2>2. CASE /\ Goto(i, {"bind"}) /\ UNCHANGED uid /\ HasFile(i)
             /\ file' = [of |-> i, written |-> TRUE]
    <3>1. /\ file' \in [of : Instances, written : BOOLEAN]
          /\ file' # None /\ file'.of = i /\ file'.written
      <4>1. /\ [of |-> i, written |-> TRUE] \in [of : Instances, written : BOOLEAN]
            /\ [of |-> i, written |-> TRUE].of = i /\ [of |-> i, written |-> TRUE].written
        OBVIOUS
      <4> QED BY <2>2, <4>1, StartupAssumption, Zenon
    <3>2. /\ pc' \in [Instances -> Steps] /\ pc'[i] = "bind"
          /\ \A j \in Instances \ {i} : pc'[j] = pc[j]
          /\ opt' = opt /\ writable' = writable
          /\ \A j \in Instances : HasFile(j)' <=> HasFile(j)
      BY <2>2, Moves DEF Steps
    <3> QED BY <1>5, <2>2, <3>1, <3>2 DEF WritePid
  <2>3. CASE /\ Goto(i, {"failed"}) /\ UNCHANGED uid /\ HasFile(i)
             /\ file' = None \/ UNCHANGED file
    BY <1>5, <2>3, Moves DEF WritePid, Steps, Ended
  <2> QED BY <1>5, <2>1, <2>2, <2>3 DEF WritePid
<1>6. ASSUME NEW i \in Instances, listen_sk_bind(i) PROVE Inv'
  BY <1>6, Moves DEF listen_sk_bind, Steps, Ended
<1>7. ASSUME NEW i \in Instances, drop_priv(i) PROVE Inv'
  <2>1. CASE /\ uid' = [uid EXCEPT ![i] = IF @ = "root" THEN opt[i].user ELSE @]
             /\ Goto(i, {"listen"})
    <3>1. opt[i].user = "wsd"
      BY <1>7 DEF drop_priv, Options
    <3>2. /\ uid' \in [Instances -> {"root", "wsd", "other"}]
          /\ uid'[i] # "root"
          /\ \A j \in Instances \ {i} : uid'[j] = uid[j]
      BY <2>1, <3>1
    <3> QED BY <1>7, <2>1, <3>2, Moves DEF drop_priv, Steps, Ended
  <2>2. CASE Goto(i, {"failed"}) /\ UNCHANGED uid
    BY <1>7, <2>2, Moves DEF drop_priv, Steps, Ended
  <2> QED BY <1>7, <2>1, <2>2 DEF drop_priv
<1>8. ASSUME NEW i \in Instances, Listen(i) PROVE Inv'
  BY <1>8, Moves DEF Listen, Listening, Steps, Ended
<1>9. ASSUME NEW i \in Instances, Sigterm(i) \/ CloseListening(i) PROVE Inv'
  BY <1>9, Moves DEF Sigterm, CloseListening, Steps, Ended
<1>10. ASSUME NEW i \in Instances, Unlink(i) PROVE Inv'
  BY <1>10, Moves DEF Unlink, Steps, Ended
<1>11. ASSUME NEW i \in Instances, Free(i) \/ Killed(i) PROVE Inv'
  BY <1>11, Moves DEF Free, Killed, Steps, Ended
<1>12. CASE UNCHANGED vars
  BY <1>12 DEF vars, HasFile
<1> QED BY <1>1, <1>2, <1>3, <1>4, <1>5, <1>6, <1>7, <1>8, <1>9, <1>10, <1>11,
           <1>12 DEF Next

\* The invariant holds throughout.
THEOREM Invariance == Spec => []Inv
  BY InvInit, InvNext, PTL DEF Spec

-----------------------------------------------------------------------------
(* The properties                                                          *)

\* No instance enters the event loop as root, whoever started it and whether or
\* not setuid fails.
THEOREM NeverServesAsRootProved == Spec => []NeverServesAsRoot
<1>1. Inv => NeverServesAsRoot
  BY DEF Inv, Dropped, NeverServesAsRoot
<1> QED BY <1>1, Invariance, PTL

\* The pid file belongs to the one instance that is between open and unlink, and
\* holds its process id while it serves.
THEOREM PidFileHeldProved == Spec => []PidFileHeld
<1>1. Inv => PidFileHeld
  <2> SUFFICES ASSUME Inv, NEW i \in Holders
               PROVE  /\ Holders = {i}
                      /\ file # None /\ file.of = i
                      /\ pc[i] = "serving" => file.written
    BY DEF PidFileHeld
  <2>1. ASSUME NEW j \in Holders
        PROVE  /\ file # None /\ file.of = j
               /\ pc[j] = "serving" => file.written
    BY <2>1 DEF Inv, Typed, FileOwned, Holders, Steps, Ended
  <2> QED BY <2>1
<1> QED BY <1>1, Invariance, PTL

\* An instance that has come to the end of an orderly stop has left no pid file.
THEOREM StopLeavesNoFileProved == Spec => []StopLeavesNoFile
<1>1. Inv => StopLeavesNoFile
  BY DEF Inv, FileRemoved, StopLeavesNoFile
<1> QED BY <1>1, Invariance, PTL

=============================================================================
