------------------------ MODULE StatusSnapshotProofs ------------------------
(***************************************************************************)
(* For any number of calls and heartbeats: a snapshot is fresh, however    *)
(* the calls overlap (FreshStatus); and one call at a time never raises    *)
(* (AloneNeverRaises).                                                     *)
(***************************************************************************)
EXTENDS StatusSnapshot, Integers, TLAPS

PCs      == {"idle", "subscribing", "nudging", "waiting", "timedout", "done"}
States   == {"new", "pending", "resolved", "cancelled"}
Outcomes == {"none", "status", "nothing", "type error", "cancelled"}
Callback == [future : Futures, beat : Nat]

Typed ==
  /\ pc \in [Calls -> PCs]
  /\ slot \in Futures \union {None}
  /\ awaited \in [Calls -> Futures \union {None}]
  /\ future \in [Futures -> States]
  /\ holds \in [Futures -> Nat]
  /\ loopQ \in Seq(Callback)
  /\ beats \in Nat
  /\ since \in [Calls -> Nat]
  /\ outcome \in [Calls -> Outcomes]
  /\ status \in [Calls -> Nat]

\* Nothing is known of a future before its call creates it.
Unborn ==
  \A t \in Calls : pc[t] \in {"idle", "subscribing"} =>
    /\ future[t] = "new"
    /\ slot # t
    /\ outcome[t] = "none"
    /\ \A i \in 1..Len(loopQ) : loopQ[i].future # t

SinceHeard == \A t \in Calls : since[t] <= beats

\* What f is, or will be, resolved with was heard after t was called.
Newer(f, t) ==
  /\ future[f] = "resolved" => holds[f] > since[t]
  /\ \A i \in 1..Len(loopQ) : loopQ[i].future = f => loopQ[i].beat > since[t]

\* The attribute holds no future older than a call that created its own.
SlotNewer == \A t \in Calls : pc[t] = "nudging" /\ slot # None => Newer(slot, t)

AwaitedNewer == \A t \in Calls : pc[t] = "waiting" => awaited[t] \in Futures /\ Newer(awaited[t], t)

Fresh ==
  /\ Typed
  /\ Unborn
  /\ SinceHeard
  /\ SlotNewer
  /\ AwaitedNewer
  /\ FreshStatus

-----------------------------------------------------------------------------
\* What an append adds to the callbacks.
LEMMA Enqueue ==
  ASSUME NEW S, NEW q \in Seq(S), NEW e \in S
  PROVE  /\ Append(q, e) \in Seq(S)
         /\ \A i \in 1..Len(Append(q, e)) :
              \/ i \in 1..Len(q) /\ Append(q, e)[i] = q[i]
              \/ Append(q, e)[i] = e
  OBVIOUS

\* The oldest callback and those behind it.
LEMMA Dequeue ==
  ASSUME NEW S, NEW q \in Seq(S), q # << >>
  PROVE  /\ Head(q) \in S /\ Head(q) = q[1] /\ 1 \in 1..Len(q)
         /\ Tail(q) \in Seq(S)
         /\ \A i \in 1..Len(Tail(q)) : i + 1 \in 1..Len(q) /\ Tail(q)[i] = q[i + 1]
  OBVIOUS

\* The calls begin with nothing heard and no future created.
LEMMA FreshInit == Init => Fresh
  BY SnapshotAssumption
  DEF Init, Fresh, Typed, Unborn, SinceHeard, SlotNewer, AwaitedNewer, FreshStatus,
      PCs, States, Outcomes, Callback, Futures

\* One action of one call, or of the notification thread or the loop.
LEMMA FreshNext == Fresh /\ [Next]_vars => Fresh'
<1> SUFFICES ASSUME Fresh, [Next]_vars
             PROVE  Fresh'
  OBVIOUS
<1> USE SnapshotAssumption DEF Fresh, Futures, historyVars
<1>1. ASSUME NEW t \in Calls, CallSnapshot(t)
      PROVE  Fresh'
  <2>1. /\ pc[t] = "idle"
        /\ pc' = [pc EXCEPT ![t] = "subscribing"]
        /\ since' = [since EXCEPT ![t] = beats]
        /\ UNCHANGED <<slot, awaited, future, holds, loopQ, beats, outcome, status>>
    BY <1>1 DEF CallSnapshot, Goto, futureVars, resultVars
  <2>2. Typed'
    BY <2>1 DEF Typed, PCs
  <2>3. Unborn' /\ SinceHeard' /\ FreshStatus'
    BY <2>1 DEF Typed, Unborn, SinceHeard, FreshStatus
  <2>4. SlotNewer' /\ AwaitedNewer'
    BY <2>1 DEF Typed, SlotNewer, AwaitedNewer, Newer
  <2> QED
    BY <2>2, <2>3, <2>4
<1>2. ASSUME NEW t \in Calls, NoStream(t)
      PROVE  Fresh'
  BY <1>2
  DEF NoStream, Goto, Typed, Unborn, SinceHeard, SlotNewer, AwaitedNewer, Newer,
      FreshStatus, PCs, Outcomes, futureVars
<1>3. ASSUME NEW t \in Calls, Nudge(t)
      PROVE  Fresh'
  <2>1. Typed'
    BY <1>3 DEF Nudge, Goto, FutureOf, futureVars, resultVars, Typed, PCs, States
  <2>2. Unborn'
    BY <1>3 DEF Nudge, Goto, FutureOf, futureVars, resultVars, Typed, Unborn
  <2>3. SinceHeard'
    BY <1>3 DEF Nudge, Goto, FutureOf, futureVars, resultVars, Typed, SinceHeard
  <2>4. SlotNewer'
    BY <1>3 DEF Nudge, Goto, FutureOf, futureVars, resultVars, Typed, Unborn, SlotNewer, Newer, PCs, States
  <2>5. AwaitedNewer'
    BY <1>3 DEF Nudge, Goto, FutureOf, futureVars, resultVars, Typed, AwaitedNewer, Newer, PCs, States
  <2>6. FreshStatus'
    BY <1>3 DEF Nudge, Goto, FutureOf, futureVars, resultVars, Typed, FreshStatus
  <2> QED
    BY <2>1, <2>2, <2>3, <2>4, <2>5, <2>6
<1>4. ASSUME NEW t \in Calls, Await(t)
      PROVE  Fresh'
  <2>1. /\ pc[t] = "nudging"
        /\ UNCHANGED <<future, holds, loopQ, beats, since, status>>
    BY <1>4 DEF Await, futureVars
  <2>2. CASE /\ slot # None
             /\ awaited' = [awaited EXCEPT ![t] = slot]
             /\ pc' = [pc EXCEPT ![t] = "waiting"]
             /\ UNCHANGED <<slot, outcome>>
    <3>1. \A u \in Calls : pc'[u] = "waiting" =>
            \/ u = t /\ awaited'[u] = slot /\ pc[u] = "nudging"
            \/ awaited'[u] = awaited[u] /\ pc[u] = "waiting"
      BY <2>1, <2>2 DEF Typed
    <3>2. AwaitedNewer'
      BY <2>1, <2>2, <3>1 DEF Typed, SlotNewer, AwaitedNewer, Newer
    <3> QED
      BY <2>1, <2>2, <3>2 DEF Typed, Unborn, SinceHeard, SlotNewer, Newer, FreshStatus, PCs
  <2>3. CASE /\ pc' = [pc EXCEPT ![t] = "done"]
             /\ slot' = None
             /\ outcome' = [outcome EXCEPT ![t] = "type error"]
             /\ UNCHANGED awaited
    BY <2>1, <2>3
    DEF Typed, Unborn, SinceHeard, SlotNewer, AwaitedNewer, Newer, FreshStatus, PCs, Outcomes
  <2> QED
    BY <1>4, <2>2, <2>3 DEF Await, Finish, Goto
<1>5. ASSUME NEW t \in Calls, Return(t)
      PROVE  Fresh'
  BY <1>5
  DEF Return, Finish, Goto, Typed, Unborn, SinceHeard, SlotNewer, AwaitedNewer, Newer,
      FreshStatus, PCs, Outcomes, futureVars
<1>6. ASSUME NEW t \in Calls, TimerFires(t)
      PROVE  Fresh'
  BY <1>6
  DEF TimerFires, Goto, Typed, Unborn, SinceHeard, SlotNewer, AwaitedNewer, Newer,
      FreshStatus, PCs, States, resultVars
<1>7. ASSUME NEW t \in Calls, TimedOut(t)
      PROVE  Fresh'
  BY <1>7
  DEF TimedOut, Finish, Goto, Typed, Unborn, SinceHeard, SlotNewer, AwaitedNewer, Newer,
      FreshStatus, PCs, Outcomes, futureVars
<1>8. ASSUME NEW t \in Calls, Cancelled(t)
      PROVE  Fresh'
  BY <1>8
  DEF Cancelled, Finish, Goto, Typed, Unborn, SinceHeard, SlotNewer, AwaitedNewer, Newer,
      FreshStatus, PCs, Outcomes, futureVars
<1>9. CASE Heartbeat
  <2> DEFINE note == [future |-> slot, beat |-> beats + 1]
  <2>1. \/ loopQ' = loopQ
        \/ slot \in Futures /\ note \in Callback /\ loopQ' = Append(loopQ, note)
    BY <1>9 DEF Heartbeat, Typed, Callback
  <2>2. loopQ' \in Seq(Callback)
    <3>1. loopQ \in Seq(Callback)
      BY DEF Typed
    <3>2. ASSUME NEW e \in Callback
          PROVE  Append(loopQ, e) \in Seq(Callback)
      BY <3>1, Enqueue
    <3> QED
      BY <2>1, <3>1, <3>2
  <2>3. \A i \in 1..Len(loopQ') :
          \/ i \in 1..Len(loopQ) /\ loopQ'[i] = loopQ[i]
          \/ slot \in Futures /\ loopQ'[i] = note
    <3>1. CASE loopQ' = loopQ
      BY <3>1
    <3>2. CASE slot \in Futures /\ note \in Callback /\ loopQ' = Append(loopQ, note)
      BY <3>2, Enqueue DEF Typed
    <3> QED
      BY <2>1, <3>1, <3>2
  <2>4. note.future = slot /\ note.beat = beats + 1
    OBVIOUS
  <2> HIDE DEF note
  <2>5. Typed'
    BY <1>9, <2>2 DEF Heartbeat, futureVars, resultVars, Typed
  <2>6. Unborn'
    BY <1>9, <2>3, <2>4 DEF Heartbeat, futureVars, resultVars, Unborn
  <2>7. SinceHeard'
    BY <1>9 DEF Heartbeat, futureVars, resultVars, Typed, SinceHeard
  <2>8. ASSUME NEW f \in Futures, NEW t \in Calls, Newer(f, t)
        PROVE  Newer(f, t)'
    <3>1. future' = future /\ holds' = holds /\ since' = since
      BY <1>9 DEF Heartbeat, futureVars, historyVars
    <3>2. note.beat > since[t]
      BY <2>4 DEF Typed, SinceHeard
    <3>3. \A i \in 1..Len(loopQ') : loopQ'[i].future = f => loopQ'[i].beat > since[t]
      BY <2>3, <2>8, <3>2 DEF Newer
    <3> QED
      BY <2>8, <3>1, <3>3 DEF Newer
  <2>9. SlotNewer' /\ AwaitedNewer'
    BY <1>9, <2>8 DEF Heartbeat, futureVars, resultVars, Typed, SlotNewer, AwaitedNewer
  <2>10. FreshStatus'
    BY <1>9 DEF Heartbeat, futureVars, resultVars, FreshStatus
  <2> QED
    BY <2>5, <2>6, <2>7, <2>9, <2>10
<1>10. CASE RunCallback
  <2> DEFINE f == Head(loopQ).future
  <2>1. /\ loopQ' \in Seq(Callback)
        /\ f \in Futures /\ Head(loopQ).beat \in Nat
        /\ Head(loopQ) = loopQ[1] /\ 1 \in 1..Len(loopQ)
        /\ \A i \in 1..Len(loopQ') : i + 1 \in 1..Len(loopQ) /\ loopQ'[i] = loopQ[i + 1]
    <3>1. loopQ \in Seq(Callback) /\ loopQ # << >> /\ loopQ' = Tail(loopQ)
      BY <1>10 DEF RunCallback, Typed
    <3>2. \A c \in Callback : c.future \in Futures /\ c.beat \in Nat
      BY DEF Callback
    <3> QED
      BY <3>1, <3>2, Dequeue
  <2>2. \/ /\ future[f] = "pending"
           /\ future' = [future EXCEPT ![f] = "resolved"]
           /\ holds' = [holds EXCEPT ![f] = Head(loopQ).beat]
        \/ UNCHANGED <<future, holds>>
    BY <1>10 DEF RunCallback, futureVars
  <2>3. UNCHANGED <<pc, slot, awaited, beats, since, outcome, status>>
    BY <1>10 DEF RunCallback, resultVars
  <2> HIDE DEF f
  <2>4. Typed'
    BY <2>1, <2>2, <2>3 DEF Typed, States
  <2>5. Unborn'
    <3> SUFFICES ASSUME NEW t \in Calls, pc[t] \in {"idle", "subscribing"}
                 PROVE  /\ future'[t] = "new"
                        /\ slot # t /\ outcome[t] = "none"
                        /\ \A i \in 1..Len(loopQ') : loopQ'[i].future # t
      BY <2>3 DEF Unborn
    <3>1. /\ future[t] = "new" /\ slot # t /\ outcome[t] = "none"
          /\ \A i \in 1..Len(loopQ) : loopQ[i].future # t
      BY DEF Unborn
    <3>2. f # t
      BY <2>1, <3>1 DEF f
    <3>3. future'[t] = "new"
      BY <2>2, <3>1, <3>2 DEF Typed
    <3> QED
      BY <2>1, <3>1, <3>3
  <2>6. SinceHeard' /\ FreshStatus'
    BY <2>3 DEF SinceHeard, FreshStatus
  <2>7. ASSUME NEW g \in Futures, NEW t \in Calls, Newer(g, t)
        PROVE  Newer(g, t)'
    <3>1. \A i \in 1..Len(loopQ') : loopQ'[i].future = g => loopQ'[i].beat > since'[t]
      BY <2>1, <2>3, <2>7 DEF Newer
    <3>2. f = g => Head(loopQ).beat > since[t]
      BY <2>1, <2>7 DEF Newer, f
    <3>3. future'[g] = "resolved" => holds'[g] > since'[t]
      BY <2>1, <2>2, <2>3, <2>7, <3>2 DEF Typed, Newer
    <3> QED
      BY <3>1, <3>3 DEF Newer
  <2>8. SlotNewer' /\ AwaitedNewer'
    BY <2>3, <2>7 DEF Typed, SlotNewer, AwaitedNewer
  <2> QED
    BY <2>4, <2>5, <2>6, <2>8
<1>11. CASE UNCHANGED vars
  BY <1>11
  DEF vars, Typed, Unborn, SinceHeard, SlotNewer, AwaitedNewer, Newer,
      FreshStatus, futureVars, resultVars
<1> QED
  BY <1>1, <1>2, <1>3, <1>4, <1>5, <1>6, <1>7, <1>8, <1>9, <1>10, <1>11 DEF Next, Run

\* read_status_snapshot returns a heartbeat heard after it was called, whatever
\* other calls do to the attribute it shares with them.
THEOREM SnapshotIsFresh == Spec => []FreshStatus
<1>1. Fresh => FreshStatus
  BY DEF Fresh
<1> QED
  BY FreshInit, FreshNext, <1>1, PTL DEF Spec

-----------------------------------------------------------------------------
(* One call at a time *)

Running(t) == pc[t] \notin {"idle", "done"}

OneRuns == \A t, u \in Calls : Running(t) /\ Running(u) => t = u

\* The call that runs finds its own future in the attribute, and nobody else's
\* timer has cancelled it.
OwnFuture ==
  \A t \in Calls :
    /\ pc[t] \in {"nudging", "waiting", "timedout"} => slot = t
    /\ pc[t] \in {"nudging", "waiting"} => future[t] # "cancelled"
    /\ pc[t] = "waiting" => awaited[t] = t

Alone ==
  /\ OneRuns
  /\ OwnFuture
  /\ StatusOrNothing

\* Before any call none runs.
LEMMA AloneInit == Init => Alone
  BY DEF Init, Alone, OneRuns, Running, OwnFuture, StatusOrNothing

\* A call starts only when no other runs, and what it then does is its own.
LEMMA AloneNext == ~together' /\ Fresh /\ Alone /\ [Next]_vars => Alone'
<1> SUFFICES ASSUME ~together', Fresh, Alone, [Next]_vars
             PROVE  Alone'
  OBVIOUS
<1> USE SnapshotAssumption DEF Fresh, Alone, Futures, historyVars
<1>1. ASSUME NEW t \in Calls, CallSnapshot(t)
      PROVE  Alone'
  <2>1. OneRuns'
    BY <1>1 DEF CallSnapshot, Goto, futureVars, resultVars, Typed, OneRuns, Running, PCs
  <2>2. OwnFuture'
    BY <1>1 DEF CallSnapshot, Goto, futureVars, resultVars, Typed, OneRuns, Running, OwnFuture, PCs
  <2>3. StatusOrNothing'
    BY <1>1 DEF CallSnapshot, Goto, futureVars, resultVars, Typed, OwnFuture, StatusOrNothing
  <2> QED
    BY <2>1, <2>2, <2>3
<1>2. ASSUME NEW t \in Calls, NoStream(t)
      PROVE  Alone'
  <2>1. OneRuns'
    BY <1>2 DEF NoStream, Goto, futureVars, Typed, OneRuns, Running, PCs
  <2>2. OwnFuture'
    BY <1>2 DEF NoStream, Goto, futureVars, Typed, OneRuns, Running, OwnFuture, PCs
  <2>3. StatusOrNothing'
    BY <1>2 DEF NoStream, Goto, futureVars, Typed, OwnFuture, StatusOrNothing
  <2> QED
    BY <2>1, <2>2, <2>3
<1>3. ASSUME NEW t \in Calls, Nudge(t)
      PROVE  Alone'
  <2>1. OneRuns'
    BY <1>3 DEF Nudge, Goto, FutureOf, resultVars, Typed, OneRuns, Running, PCs
  <2>2. OwnFuture'
    BY <1>3 DEF Nudge, Goto, FutureOf, resultVars, Unborn, States, Typed, OneRuns, Running, OwnFuture, PCs
  <2>3. StatusOrNothing'
    BY <1>3 DEF Nudge, Goto, FutureOf, resultVars, Typed, OwnFuture, StatusOrNothing
  <2> QED
    BY <2>1, <2>2, <2>3
<1>4. ASSUME NEW t \in Calls, Await(t)
      PROVE  Alone'
  <2>1. OneRuns'
    BY <1>4 DEF Await, Finish, Goto, futureVars, Typed, OneRuns, Running, PCs
  <2>2. OwnFuture'
    BY <1>4 DEF Await, Finish, Goto, futureVars, Typed, OneRuns, Running, OwnFuture, PCs
  <2>3. StatusOrNothing'
    BY <1>4 DEF Await, Finish, Goto, futureVars, Typed, OwnFuture, StatusOrNothing
  <2> QED
    BY <2>1, <2>2, <2>3
<1>5. ASSUME NEW t \in Calls, Return(t)
      PROVE  Alone'
  <2>1. OneRuns'
    BY <1>5 DEF Return, Finish, Goto, futureVars, Typed, OneRuns, Running, PCs
  <2>2. OwnFuture'
    BY <1>5 DEF Return, Finish, Goto, futureVars, Typed, OneRuns, Running, OwnFuture, PCs
  <2>3. StatusOrNothing'
    BY <1>5 DEF Return, Finish, Goto, futureVars, Typed, OwnFuture, StatusOrNothing
  <2> QED
    BY <2>1, <2>2, <2>3
<1>6. ASSUME NEW t \in Calls, TimerFires(t)
      PROVE  Alone'
  <2>1. OneRuns'
    BY <1>6 DEF TimerFires, Goto, resultVars, Typed, OneRuns, Running, PCs
  <2>2. OwnFuture'
    BY <1>6 DEF TimerFires, Goto, resultVars, States, Typed, OneRuns, Running, OwnFuture, PCs
  <2>3. StatusOrNothing'
    BY <1>6 DEF TimerFires, Goto, resultVars, Typed, OwnFuture, StatusOrNothing
  <2> QED
    BY <2>1, <2>2, <2>3
<1>7. ASSUME NEW t \in Calls, TimedOut(t)
      PROVE  Alone'
  <2>1. OneRuns'
    BY <1>7 DEF TimedOut, Finish, Goto, futureVars, Typed, OneRuns, Running, PCs
  <2>2. OwnFuture'
    BY <1>7 DEF TimedOut, Finish, Goto, futureVars, Typed, OneRuns, Running, OwnFuture, PCs
  <2>3. StatusOrNothing'
    BY <1>7 DEF TimedOut, Finish, Goto, futureVars, Typed, OwnFuture, StatusOrNothing
  <2> QED
    BY <2>1, <2>2, <2>3
<1>8. ASSUME NEW t \in Calls, Cancelled(t)
      PROVE  Alone'
  <2>1. OneRuns'
    BY <1>8 DEF Cancelled, Finish, Goto, futureVars, Typed, OneRuns, Running, PCs
  <2>2. OwnFuture'
    BY <1>8 DEF Cancelled, Finish, Goto, futureVars, Typed, OneRuns, Running, OwnFuture, PCs
  <2>3. StatusOrNothing'
    BY <1>8 DEF Cancelled, Finish, Goto, futureVars, Typed, OwnFuture, StatusOrNothing
  <2> QED
    BY <2>1, <2>2, <2>3
<1>9. CASE Heartbeat
  BY <1>9
  DEF Heartbeat, futureVars, resultVars, Typed, OneRuns, Running, OwnFuture, StatusOrNothing, PCs
<1>10. CASE RunCallback
  BY <1>10
  DEF RunCallback, futureVars, resultVars, Typed, OneRuns, Running, OwnFuture, StatusOrNothing, PCs
<1>11. CASE UNCHANGED vars
  BY <1>11
  DEF vars, futureVars, resultVars, Typed, OneRuns, Running, OwnFuture, StatusOrNothing, PCs
<1> QED
  BY <1>1, <1>2, <1>3, <1>4, <1>5, <1>6, <1>7, <1>8, <1>9, <1>10, <1>11 DEF Next, Run

\* Calls that once overlapped did.
LEMMA TogetherStays == [Next]_vars /\ ~together' => ~together
  BY DEF Next, Run, CallSnapshot, NoStream, Nudge, Await, Return, TimerFires, TimedOut,
         Cancelled, Heartbeat, RunCallback, vars, historyVars

\* read_status_snapshot returns a status or None, and raises nothing, as long as
\* no two calls overlap.
THEOREM SnapshotRaisesNothing == Spec => []AloneNeverRaises
<1>1. Init => (~together => Alone)
  BY AloneInit
<1>2. Fresh /\ (~together => Alone) /\ [Next]_vars => (~together => Alone)'
  BY AloneNext, TogetherStays
<1>3. (~together => Alone) => AloneNeverRaises
  BY DEF Alone, AloneNeverRaises
<1> QED
  BY FreshInit, FreshNext, <1>1, <1>2, <1>3, PTL DEF Spec
=============================================================================
