------------------------------- MODULE Thread -------------------------------
(***************************************************************************)
(* common/thread.cpp: internal::Thread, the object that owns a coroutine   *)
(* of State Threads, starts it, and stops it.                              *)
(*                                                                         *)
(* A coroutine runs until it blocks, so an action is what one runs between *)
(* two blocking calls.  Start never blocks: cid_ is -1 or an id of         *)
(* GenerateID, never the 0 it waits for.  When st_thread_create fails,     *)
(* Start leaves everything as it was.  interval_us_ is 0, and nobody       *)
(* overrides OnbeforeCycle or OnEndCycle.                                  *)
(***************************************************************************)
EXTENDS Integers

CONSTANTS Threads,      \* the Thread objects
          Joinable,     \* those whose owner stops them
          MaxStarts     \* coroutines one object creates in its life

ASSUME ThreadAssumption == Joinable \subseteq Threads /\ MaxStarts \in Nat

VARIABLES
  st_,                  \* the coroutine st_ points to, by number; 0 is null
  loop_,
  can_run_,
  really_terminated_,
  disposed_,
  starts,               \* coroutines created so far; the last one's number
  co,                   \* place of each: "none", "created", "cycle" or "done"
  owner                 \* "free", or "stopping" in Stop, blocked in Dispose

threadVars == <<st_, loop_, can_run_, really_terminated_, disposed_, starts, co, owner>>

Runs    == 1 .. MaxStarts
CoPlace == {"none", "created", "cycle", "done"}

ThreadInit ==
  /\ st_ = [t \in Threads |-> 0]
  /\ loop_ = [t \in Threads |-> FALSE]
  /\ can_run_ = [t \in Threads |-> FALSE]
  /\ really_terminated_ = [t \in Threads |-> FALSE]
  /\ disposed_ = [t \in Threads |-> FALSE]
  /\ starts = [t \in Threads |-> 0]
  /\ co = [t \in Threads |-> [k \in Runs |-> "none"]]
  /\ owner = [t \in Threads |-> "free"]

MoveTo(t, k, place) == co' = [co EXCEPT ![t][k] = place]
-----------------------------------------------------------------------------
(***************************************************************************)
(* The owner.  Every one calls Start on an object that has no coroutine.   *)
(***************************************************************************)

\* Mutant: Start does not clear disposed_.
StartKeepsDisposed(t) ==
  /\ owner[t] = "free" /\ st_[t] = 0 /\ starts[t] < MaxStarts
  /\ starts' = [starts EXCEPT ![t] = @ + 1]
  /\ st_' = [st_ EXCEPT ![t] = starts[t] + 1]
  /\ MoveTo(t, starts[t] + 1, "created")
  /\ loop_' = [loop_ EXCEPT ![t] = TRUE]
  /\ can_run_' = [can_run_ EXCEPT ![t] = TRUE]
  /\ UNCHANGED <<disposed_, really_terminated_, owner>>

Start(t) ==
  /\ owner[t] = "free" /\ st_[t] = 0 /\ starts[t] < MaxStarts
  /\ starts' = [starts EXCEPT ![t] = @ + 1]
  /\ st_' = [st_ EXCEPT ![t] = starts[t] + 1]
  /\ MoveTo(t, starts[t] + 1, "created")
  /\ disposed_' = [disposed_ EXCEPT ![t] = FALSE]
  /\ loop_' = [loop_ EXCEPT ![t] = TRUE]
  /\ can_run_' = [can_run_ EXCEPT ![t] = TRUE]
  /\ UNCHANGED <<really_terminated_, owner>>

\* What Stop does after Dispose.
Release(t) ==
  /\ st_' = [st_ EXCEPT ![t] = 0]
  /\ can_run_' = [can_run_ EXCEPT ![t] = FALSE]

\* Mutant: loop_ is cleared only after Dispose.
StopKeepsLoop(t) ==
  /\ t \in Joinable /\ owner[t] = "free" /\ st_[t] # 0
  /\ IF disposed_[t]
     THEN Release(t) /\ UNCHANGED owner
     ELSE owner' = [owner EXCEPT ![t] = "stopping"] /\ UNCHANGED <<st_, can_run_>>
  /\ UNCHANGED <<loop_, really_terminated_, disposed_, starts, co>>

(***************************************************************************)
(* Stop up to the join of Dispose.  Only its destructor stops the thread   *)
(* of a Connection, which is not joinable, and nobody deletes one.         *)
(***************************************************************************)
Stop(t) ==
  /\ t \in Joinable /\ owner[t] = "free" /\ st_[t] # 0
  /\ loop_' = [loop_ EXCEPT ![t] = FALSE]
  /\ IF disposed_[t]
     THEN Release(t) /\ UNCHANGED owner
     ELSE owner' = [owner EXCEPT ![t] = "stopping"] /\ UNCHANGED <<st_, can_run_>>
  /\ UNCHANGED <<really_terminated_, disposed_, starts, co>>

\* The join returns, the wait for really_terminated_ ends, and so does Stop.
Dispose(t) ==
  /\ owner[t] = "stopping"
  /\ co[t][st_[t]] = "done" /\ really_terminated_[t]
  /\ disposed_' = [disposed_ EXCEPT ![t] = TRUE]
  /\ Release(t)
  /\ owner' = [owner EXCEPT ![t] = "free"]
  /\ UNCHANGED <<loop_, really_terminated_, starts, co>>
-----------------------------------------------------------------------------
(***************************************************************************)
(* The coroutine.                                                          *)
(***************************************************************************)

\* Mutant: a coroutine stopped before it ran does not say that it terminated.
DispatchSilent(t, k) ==
  /\ co[t][k] = "created"
  /\ can_run_[t] \/ ~loop_[t]
  /\ really_terminated_' = [really_terminated_ EXCEPT ![t] = FALSE]
  /\ MoveTo(t, k, IF loop_[t] THEN "cycle" ELSE "done")
  /\ UNCHANGED <<st_, loop_, can_run_, disposed_, starts, owner>>

\* Dispatch up to the first Cycle, or to its end if loop_ is already cleared.
Dispatch(t, k) ==
  /\ co[t][k] = "created"
  /\ can_run_[t] \/ ~loop_[t]
  /\ really_terminated_' = [really_terminated_ EXCEPT ![t] = ~loop_[t]]
  /\ MoveTo(t, k, IF loop_[t] THEN "cycle" ELSE "done")
  /\ UNCHANGED <<st_, loop_, can_run_, disposed_, starts, owner>>

\* Cycle calls StopLoop: RTMPRecvThread on an error, Connection at its end.
StopLoop(t, k) ==
  /\ co[t][k] = "cycle" /\ loop_[t]
  /\ loop_' = [loop_ EXCEPT ![t] = FALSE]
  /\ UNCHANGED <<st_, can_run_, really_terminated_, disposed_, starts, co, owner>>

\* Cycle returns with loop_ cleared; while loop_ is set it is called again.
CycleEnds(t, k) ==
  /\ co[t][k] = "cycle" /\ ~loop_[t]
  /\ really_terminated_' = [really_terminated_ EXCEPT ![t] = TRUE]
  /\ MoveTo(t, k, "done")
  /\ UNCHANGED <<st_, loop_, can_run_, disposed_, starts, owner>>
-----------------------------------------------------------------------------
ThreadNext ==
  \E t \in Threads :
    \/ Start(t) \/ Stop(t) \/ Dispose(t)
    \/ \E k \in Runs : Dispatch(t, k) \/ StopLoop(t, k) \/ CycleEnds(t, k)

ThreadSpec == ThreadInit /\ [][ThreadNext]_threadVars
-----------------------------------------------------------------------------
ThreadTypeOK ==
  /\ st_ \in [Threads -> 0 .. MaxStarts] /\ starts \in [Threads -> 0 .. MaxStarts]
  /\ loop_ \in [Threads -> BOOLEAN] /\ can_run_ \in [Threads -> BOOLEAN]
  /\ really_terminated_ \in [Threads -> BOOLEAN] /\ disposed_ \in [Threads -> BOOLEAN]
  /\ co \in [Threads -> [Runs -> CoPlace]]
  /\ owner \in [Threads -> {"free", "stopping"}]

Alive(t, k) == co[t][k] \in {"created", "cycle"}

(***************************************************************************)
(* A coroutine that has still to run or runs is the one st_ points to: two *)
(* never serve one handler, and none is left when Stop has returned, so    *)
(* the owner may destroy the handler.                                      *)
(***************************************************************************)
OnlyCurrentAlive == \A t \in Threads, k \in Runs : Alive(t, k) => k = st_[t]

(***************************************************************************)
(* A join that returns finds really_terminated_ set, whatever an earlier   *)
(* run left there and also when the coroutine had not run yet: Stop does   *)
(* not hang in the loop that follows the join.                             *)
(***************************************************************************)
DisposeReturns ==
  \A t \in Threads :
    owner[t] = "stopping" /\ co[t][st_[t]] = "done" => really_terminated_[t]

(***************************************************************************)
(* The object keeps the promise of a Coroutine.                            *)
(***************************************************************************)
Place(t) ==
  IF st_[t] = 0 THEN "none"
  ELSE IF co[t][st_[t]] = "cycle" THEN "running" ELSE co[t][st_[t]]

Promise ==
  INSTANCE Coroutine WITH place <- [t \in Threads |-> Place(t)], loop <- loop_

\* Start, Dispatch, StopLoop and Stop of a Thread are steps of a Coroutine.
KeepsPromise == Promise!Safety
=============================================================================
