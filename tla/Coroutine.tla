----------------------------- MODULE Coroutine ------------------------------
(***************************************************************************)
(* What a Thread promises the object that owns it, one coroutine per       *)
(* owner: it runs from Start until it leaves its loop, it leaves only when *)
(* it is told to or decides to, and once Stop has returned it is gone.     *)
(***************************************************************************)
CONSTANT Threads

VARIABLES
  place,    \* of the coroutine: "none", "created", "running" or "done"
  loop,     \* it may go on
  owner     \* "free", or "stopping" inside Stop

vars == <<place, loop, owner>>

\* An owner may be looked at from before or from just after Start.
Init ==
  /\ place \in [Threads -> {"none", "created"}]
  /\ loop = [t \in Threads |-> place[t] = "created"]
  /\ owner = [t \in Threads |-> "free"]

Start(t) ==
  /\ owner[t] = "free" /\ place[t] = "none"
  /\ place' = [place EXCEPT ![t] = "created"]
  /\ loop' = [loop EXCEPT ![t] = TRUE]
  /\ UNCHANGED owner

\* A coroutine that is stopped before it was scheduled does no work.
Begin(t) ==
  /\ place[t] = "created"
  /\ place' = [place EXCEPT ![t] = IF loop[t] THEN "running" ELSE "done"]
  /\ UNCHANGED <<loop, owner>>

\* The coroutine decides to end.
StopLoop(t) ==
  /\ place[t] = "running" /\ loop[t]
  /\ loop' = [loop EXCEPT ![t] = FALSE]
  /\ UNCHANGED <<place, owner>>

Leave(t) ==
  /\ place[t] = "running"
  /\ place' = [place EXCEPT ![t] = "done"]
  /\ loop' = [loop EXCEPT ![t] = FALSE]
  /\ UNCHANGED owner

Stop(t) ==
  /\ owner[t] = "free" /\ place[t] # "none"
  /\ owner' = [owner EXCEPT ![t] = "stopping"]
  /\ loop' = [loop EXCEPT ![t] = FALSE]
  /\ UNCHANGED place

Stopped(t) ==
  /\ owner[t] = "stopping" /\ place[t] = "done"
  /\ owner' = [owner EXCEPT ![t] = "free"]
  /\ place' = [place EXCEPT ![t] = "none"]
  /\ UNCHANGED loop

Next ==
  \E t \in Threads :
    Start(t) \/ Begin(t) \/ StopLoop(t) \/ Leave(t) \/ Stop(t) \/ Stopped(t)

Safety == Init /\ [][Next]_vars
=============================================================================
