-------------------------- MODULE StatusSnapshot --------------------------
(***************************************************************************)
(* read_status_snapshot: coroutines that wait for the next heartbeat with  *)
(* one shared attribute, _snapshot_future, tested on bleak's thread and    *)
(* resolved on the loop.  asyncio's futures, wait_for and callbacks are    *)
(* modelled as Python 3.12 runs them: a timer that fires cancels the very  *)
(* future that is awaited, whoever else awaits it.                         *)
(***************************************************************************)
EXTENDS Naturals, Sequences

CONSTANTS
  Calls,     \* the calls of read_status_snapshot, each made once
  MaxBeats,  \* bound: heartbeats
  None

ASSUME SnapshotAssumption ==
  /\ None \notin Calls
  /\ MaxBeats \in Nat

VARIABLES
  pc,       \* pc[t]: the await call t is at
  slot,     \* _snapshot_future: the future object in it
  awaited,  \* awaited[t]: the future that t awaits
  future,   \* future[f]: the state of a future object
  holds,    \* holds[f]: the heartbeat it was resolved with
  loopQ,    \* set_result callbacks given to call_soon_threadsafe, not run yet
  beats,    \* external: heartbeats dispatched so far
  since,    \* since[t]: history, the heartbeats dispatched when t was called
  together, \* history: a call was made while another ran
  outcome,  \* outcome[t]: how t returned or raised
  status    \* status[t]: the heartbeat it returned

futureVars == <<future, holds>>
historyVars == <<since, together>>
resultVars == <<outcome, status>>
vars == <<pc, slot, awaited, futureVars, loopQ, beats, historyVars, resultVars>>

Futures == Calls

Init ==
  /\ pc = [t \in Calls |-> "idle"]
  /\ slot = None
  /\ awaited = [t \in Calls |-> None]
  /\ future = [f \in Futures |-> "new"]
  /\ holds = [f \in Futures |-> 0]
  /\ loopQ = << >>
  /\ beats = 0
  /\ since = [t \in Calls |-> 0]
  /\ together = FALSE
  /\ outcome = [t \in Calls |-> "none"]
  /\ status = [t \in Calls |-> 0]

-----------------------------------------------------------------------------
Goto(t, label) == pc' = [pc EXCEPT ![t] = label]

\* The way out, through the `finally` once the future was created.
Finish(t, how) ==
  /\ Goto(t, "done")
  /\ slot' = None
  /\ outcome' = [outcome EXCEPT ![t] = how]

\* Faulty variant: one future for the life of the client.
OneFuture(t) == CHOOSE f \in Futures : TRUE

\* create_future: an object of the call's own.
FutureOf(t) == t

CallSnapshot(t) ==
  /\ pc[t] = "idle"
  /\ since' = [since EXCEPT ![t] = beats]
  /\ together' = (together \/ \E u \in Calls : pc[u] \notin {"idle", "done"})
  /\ Goto(t, "subscribing")
  /\ UNCHANGED <<slot, awaited, futureVars, loopQ, beats, resultVars>>

\* _ensure_notify returned False: no heartbeat can be heard.
NoStream(t) ==
  /\ pc[t] = "subscribing"
  /\ Goto(t, "done")
  /\ outcome' = [outcome EXCEPT ![t] = "nothing"]
  /\ UNCHANGED <<slot, awaited, futureVars, loopQ, beats, historyVars, status>>

\* It returned True; the handshake is sent, with its own timers and re-sends.
Nudge(t) ==
  /\ pc[t] = "subscribing"
  /\ Goto(t, "nudging")
  /\ slot' = FutureOf(t)
  /\ future' = IF future[FutureOf(t)] = "new"
               THEN [future EXCEPT ![FutureOf(t)] = "pending"] ELSE future
  /\ UNCHANGED <<awaited, holds, loopQ, beats, historyVars, resultVars>>

\* The handshake was confirmed, or not.  What is awaited is read from the
\* attribute only now, and wait_for(None) raises TypeError.
Await(t) ==
  /\ pc[t] = "nudging"
  /\ \/ /\ slot # None
        /\ awaited' = [awaited EXCEPT ![t] = slot]
        /\ Goto(t, "waiting")
        /\ UNCHANGED <<slot, outcome>>
     \/ /\ slot = None
        /\ Finish(t, "type error")
        /\ UNCHANGED awaited
  /\ UNCHANGED <<futureVars, loopQ, beats, historyVars, status>>

Return(t) ==
  /\ pc[t] = "waiting"
  /\ future[awaited[t]] = "resolved"
  /\ Finish(t, "status")
  /\ status' = [status EXCEPT ![t] = holds[awaited[t]]]
  /\ UNCHANGED <<awaited, futureVars, loopQ, beats, historyVars>>

\* Faulty variant: the wait has no timer.
NoTimer(t) == FALSE /\ UNCHANGED vars

\* The timer of wait_for cancels the awaited future, if it is not done.
TimerFires(t) ==
  /\ pc[t] = "waiting"
  /\ Goto(t, "timedout")
  /\ future' = IF future[awaited[t]] = "pending"
               THEN [future EXCEPT ![awaited[t]] = "cancelled"] ELSE future
  /\ UNCHANGED <<slot, awaited, holds, loopQ, beats, historyVars, resultVars>>

TimedOut(t) ==
  /\ pc[t] = "timedout"
  /\ Finish(t, "nothing")
  /\ UNCHANGED <<awaited, futureVars, loopQ, beats, historyVars, status>>

\* Another call's timer cancelled the future: CancelledError goes through.
Cancelled(t) ==
  /\ pc[t] = "waiting"
  /\ future[awaited[t]] = "cancelled"
  /\ Finish(t, "cancelled")
  /\ UNCHANGED <<awaited, futureVars, loopQ, beats, historyVars, status>>

-----------------------------------------------------------------------------
\* _on_frame, on bleak's thread: a heartbeat is left to the loop for the future
\* in the attribute, if that is not done.
Heartbeat ==
  /\ beats < MaxBeats
  /\ beats' = beats + 1
  /\ loopQ' = IF slot # None /\ future[slot] = "pending"
              THEN Append(loopQ, [future |-> slot, beat |-> beats + 1]) ELSE loopQ
  /\ UNCHANGED <<pc, slot, awaited, futureVars, historyVars, resultVars>>

\* set_result, on the loop; it raises InvalidStateError into the loop's handler
\* when the future was resolved or cancelled since.
RunCallback ==
  /\ loopQ # << >>
  /\ loopQ' = Tail(loopQ)
  /\ LET f == Head(loopQ).future IN
       \/ /\ future[f] = "pending"
          /\ future' = [future EXCEPT ![f] = "resolved"]
          /\ holds' = [holds EXCEPT ![f] = Head(loopQ).beat]
       \/ /\ future[f] # "pending"
          /\ UNCHANGED futureVars
  /\ UNCHANGED <<pc, slot, awaited, beats, historyVars, resultVars>>

-----------------------------------------------------------------------------
Run(t) ==
  \/ NoStream(t) \/ Nudge(t) \/ Await(t) \/ Return(t)
  \/ TimerFires(t) \/ TimedOut(t) \/ Cancelled(t)

Next == (\E t \in Calls : CallSnapshot(t) \/ Run(t)) \/ Heartbeat \/ RunCallback

Spec == Init /\ [][Next]_vars

\* Timers fire, and a coroutine whose await is over runs.
FairSpec == Spec /\ \A t \in Calls : WF_vars(Run(t))

-----------------------------------------------------------------------------
(* Properties *)

\* A snapshot returns a status, or None when no heartbeat came in time: it does
\* not raise over an open connection.
StatusOrNothing == \A t \in Calls : outcome[t] \in {"none", "status", "nothing"}

\* None raises as long as no two calls overlap.
AloneNeverRaises == ~together => StatusOrNothing

\* The status returned was heard after the call was made, never one left over
\* from an earlier call.
FreshStatus == \A t \in Calls : outcome[t] = "status" => status[t] > since[t]

\* Every call ends, with or without heartbeats, and whatever other calls do.
SnapshotsEnd == \A t \in Calls : pc[t] = "subscribing" ~> pc[t] = "done"
=============================================================================
