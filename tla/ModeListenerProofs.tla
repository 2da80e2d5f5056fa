------------------------ MODULE ModeListenerProofs ------------------------
(***************************************************************************)
(* Proofs about ModeListener, for any number of sessions, calls of stop()  *)
(* and sends: types, what _client holds, that no session is orphaned       *)
(* unless start() slips in between the end of a task and its stop(), and   *)
(* that a lost link is announced only over a link that was lost.           *)
(*                                                                         *)
(* Then two histories, each with an invariant of its own: what a host has  *)
(* heard of one session when it is at a given await (Story), and what the  *)
(* machine holds and started while a brew is between steps (OwnRecipe).    *)
(***************************************************************************)
EXTENDS ModeListener, SequenceTheorems, TLAPS

-----------------------------------------------------------------------------
(* Types *)

LEMMA TypeInit == Init => TypeOK
<1> SUFFICES ASSUME Init PROVE TypeOK
  OBVIOUS
<1> USE DEF Init
<1>1. SharedOK
  BY DEF SharedOK
<1>2. SessionsOK
  <2>1. << >> \in Seq(Phases)
    OBVIOUS
  <2> QED BY <2>1 DEF SessionsOK
<1>3. StopsOK
  BY DEF StopsOK
<1>4. SendsOK
  BY DEF SendsOK, Outcomes
<1>5. MachineOK
  BY DEF MachineOK
<1>6. HistoryOK
  BY DEF HistoryOK
<1> QED BY <1>1, <1>2, <1>3, <1>4, <1>5, <1>6 DEF TypeOK

\* A part whose variables a step leaves alone keeps its type.
LEMMA TypeSame ==
  /\ SharedOK /\ UNCHANGED sharedVars => SharedOK'
  /\ SessionsOK /\ UNCHANGED sessionVars => SessionsOK'
  /\ StopsOK /\ UNCHANGED stopVars => StopsOK'
  /\ SendsOK /\ UNCHANGED sendVars => SendsOK'
  /\ MachineOK /\ UNCHANGED machineVars => MachineOK'
  /\ HistoryOK /\ UNCHANGED historyVars => HistoryOK'
<1>1. SharedOK /\ UNCHANGED sharedVars => SharedOK'
  BY DEF SharedOK, sharedVars
<1>2. SessionsOK /\ UNCHANGED sessionVars => SessionsOK'
  BY DEF SessionsOK, sessionVars
<1>3. StopsOK /\ UNCHANGED stopVars => StopsOK'
  BY DEF StopsOK, stopVars
<1>4. SendsOK /\ UNCHANGED sendVars => SendsOK'
  BY DEF SendsOK, sendVars
<1>5. MachineOK /\ UNCHANGED machineVars => MachineOK'
  BY DEF MachineOK, machineVars
<1>6. HistoryOK /\ UNCHANGED historyVars => HistoryOK'
  BY DEF HistoryOK, historyVars
<1> QED BY <1>1, <1>2, <1>3, <1>4, <1>5, <1>6

\* start() and stop() keep the types.
LEMMA TypeStart ==
  ASSUME TypeOK, NEW s \in Sessions, Start(s)
  PROVE  TypeOK'
<1>1. SharedOK'
  BY DEF Start, ClearReason, TypeOK, SharedOK
<1>2. SessionsOK'
  BY DEF Start, TypeOK, SessionsOK, Awaits
<1>3. HistoryOK'
  BY DEF Start, TypeOK, HistoryOK
<1> QED BY <1>1, <1>2, <1>3, TypeSame DEF Start, TypeOK

LEMMA TypeStop ==
  ASSUME TypeOK, NEW k \in Stops, CallStop(k) \/ StopTimer(k) \/ StopReturns(k)
  PROVE  TypeOK'
<1>1. CASE CallStop(k)
  <2>1. SharedOK'
    BY <1>1 DEF CallStop, Finish, TypeOK, SharedOK
  <2>2. CASE AwaitsTask
    <3>1. StopsOK'
      BY <1>1, <2>2 DEF CallStop, AwaitsTask, IsRunning, TypeOK, StopsOK, SharedOK
    <3> QED BY <1>1, <2>1, <3>1, TypeSame DEF CallStop, TypeOK
  <2>3. CASE ~AwaitsTask
    <3>1. StopsOK'
      BY <1>1, <2>3 DEF CallStop, Finish, TypeOK, StopsOK
    <3> QED BY <1>1, <2>1, <3>1, TypeSame DEF CallStop, TypeOK
  <2> QED BY <2>2, <2>3
<1>2. CASE StopTimer(k)
  <2>1. SessionsOK'
    BY <1>2 DEF StopTimer, TypeOK, SessionsOK
  <2>2. StopsOK'
    BY <1>2 DEF StopTimer, TypeOK, StopsOK
  <2> QED BY <1>2, <2>1, <2>2, TypeSame DEF StopTimer, TypeOK
<1>3. CASE StopReturns(k)
  <2>1. SharedOK'
    BY <1>3 DEF StopReturns, Finish, TypeOK, SharedOK
  <2>2. StopsOK'
    BY <1>3 DEF StopReturns, Finish, TypeOK, StopsOK
  <2> QED BY <1>3, <2>1, <2>2, TypeSame DEF StopReturns, TypeOK
<1> QED BY <1>1, <1>2, <1>3

\* What a session announces is a phase.
LEMMA TypeSay ==
  ASSUME SessionsOK, NEW s \in Sessions, NEW phase \in Phases, Say(s, phase)
  PROVE  said' \in [Sessions -> Seq(Phases)]
<1>1. Append(said[s], phase) \in Seq(Phases)
  BY DEF SessionsOK
<1> QED BY <1>1 DEF Say, SessionsOK

LEMMA TypeLeave ==
  ASSUME SharedOK, SessionsOK, NEW s \in Sessions, Leave(s)
  PROVE  /\ pc' \in [Sessions -> Awaits \union Over \union {"unborn"}]
         /\ held' \in Sessions \union {None}
BY DEF Leave, Goto, ClearHeld, SharedOK, SessionsOK, Awaits, Over

\* The steps of a session keep the types.
LEMMA TypeRun ==
  ASSUME TypeOK, NEW s \in Sessions, Run(s)
  PROVE  TypeOK'
<1> USE DEF TypeOK
<1>1. CASE ResolveFinds(s)
  <2>1. SessionsOK'
    BY <1>1 DEF ResolveFinds, Goto, SessionsOK, Awaits
  <2> QED BY <1>1, <2>1, TypeSame DEF ResolveFinds
<1>2. CASE ResolveFails(s)
  <2>1. said' \in [Sessions -> Seq(Phases)]
    BY <1>2, TypeSay DEF ResolveFails, SessionsOK, Phases
  <2>2. SessionsOK'
    BY <1>2, <2>1 DEF ResolveFails, Goto, SessionsOK, Over
  <2> QED BY <1>2, <2>2, TypeSame DEF ResolveFails
<1>3. CASE SlowConnect(s)
  <2>1. said' \in [Sessions -> Seq(Phases)]
    BY <1>3, TypeSay DEF SlowConnect, Phases
  <2>2. SessionsOK'
    BY <1>3, <2>1 DEF SlowConnect, SessionsOK
  <2> QED BY <1>3, <2>2, TypeSame DEF SlowConnect
<1>4. CASE Connects(s)
  <2>1. link' \in [Sessions -> {"up", "dead", "down"}]
    BY <1>4 DEF Connects, SessionsOK
  <2>2. SessionsOK'
    BY <1>4, <2>1 DEF Connects, Goto, CancelSlow, SessionsOK, Awaits
  <2>3. SharedOK'
    BY <1>4 DEF Connects, SharedOK
  <2> QED BY <1>4, <2>2, <2>3, TypeSame DEF Connects
<1>5. CASE ConnectFails(s)
  <2>1. said' \in [Sessions -> Seq(Phases)]
    BY <1>5, TypeSay DEF ConnectFails, Phases
  <2>2. SessionsOK'
    BY <1>5, <2>1 DEF ConnectFails, Goto, CancelSlow, SessionsOK, Over
  <2>3. SharedOK'
    BY <1>5 DEF ConnectFails, ClearHeld, SharedOK
  <2> QED BY <1>5, <2>2, <2>3, TypeSame DEF ConnectFails
<1>6. CASE Subscribes(s)
  <2>1. said' \in [Sessions -> Seq(Phases)]
    BY <1>6, TypeSay DEF Subscribes, SessionsOK, Phases
  <2>2. /\ pc' \in [Sessions -> Awaits \union Over \union {"unborn"}]
        /\ held' \in Sessions \union {None}
    BY <1>6, TypeLeave DEF Subscribes, Goto, SharedOK, SessionsOK, Awaits
  <2>3. SessionsOK' /\ SharedOK'
    BY <1>6, <2>1, <2>2 DEF Subscribes, SessionsOK, SharedOK
  <2> QED BY <1>6, <2>3, TypeSame DEF Subscribes
<1>7. CASE Ready(s)
  <2>1. said' \in [Sessions -> Seq(Phases)]
    BY <1>7, TypeSay DEF Ready, Phases
  <2>2. /\ pc' \in [Sessions -> Awaits \union Over \union {"unborn"}]
        /\ held' \in Sessions \union {None}
    BY <1>7, TypeLeave DEF Ready, Goto, SharedOK, SessionsOK, Awaits
  <2>3. SessionsOK' /\ SharedOK'
    BY <1>7, <2>1, <2>2 DEF Ready, SessionsOK, SharedOK
  <2> QED BY <1>7, <2>3, TypeSame DEF Ready
<1>8. CASE Tick(s)
  <2>1. said' \in [Sessions -> Seq(Phases)]
    BY <1>8, TypeSay DEF Tick, SessionsOK, Phases
  <2>2. /\ pc' \in [Sessions -> Awaits \union Over \union {"unborn"}]
        /\ held' \in Sessions \union {None}
    BY <1>8, TypeLeave DEF Tick, SharedOK, SessionsOK
  <2>3. linkLost' \in BOOLEAN
    BY <1>8 DEF Tick, FoundLost, Claims, SharedOK
  <2>4. SessionsOK' /\ SharedOK'
    BY <1>8, <2>1, <2>2, <2>3 DEF Tick, SessionsOK, SharedOK
  <2>5. HistoryOK'
    BY <1>8 DEF Tick, HistoryOK
  <2> QED BY <1>8, <2>4, <2>5, TypeSame DEF Tick
<1>9. CASE IdleTick(s)
  <2>1. said' \in [Sessions -> Seq(Phases)]
    BY <1>9, TypeSay DEF IdleTick, Phases
  <2>2. /\ pc' \in [Sessions -> Awaits \union Over \union {"unborn"}]
        /\ held' \in Sessions \union {None}
    BY <1>9, TypeLeave DEF IdleTick
  <2>3. SessionsOK' /\ SharedOK'
    BY <1>9, <2>1, <2>2 DEF IdleTick, SessionsOK, SharedOK
  <2> QED BY <1>9, <2>3, TypeSame DEF IdleTick
<1>10. CASE Closes(s)
  <2>1. said' \in [Sessions -> Seq(Phases)]
    BY <1>10, TypeSay DEF Closes, SessionsOK, Phases
  <2>2. SessionsOK'
    BY <1>10, <2>1 DEF Closes, Goto, SessionsOK, Over
  <2>3. SharedOK' /\ HistoryOK'
    BY <1>10 DEF Closes, ClearHeld, SharedOK, HistoryOK
  <2> QED BY <1>10, <2>2, <2>3, TypeSame DEF Closes
<1>11. CASE NoticesCancel(s)
  <2>1. /\ pc' \in [Sessions -> Awaits \union Over \union {"unborn"}]
        /\ held' \in Sessions \union {None}
    BY <1>11, TypeLeave DEF NoticesCancel, Goto, ClearHeld, SharedOK, SessionsOK, Over
  <2>2. SessionsOK' /\ SharedOK'
    BY <1>11, <2>1 DEF NoticesCancel, SessionsOK, SharedOK
  <2>3. HistoryOK'
    BY <1>11 DEF NoticesCancel, HistoryOK
  <2> QED BY <1>11, <2>2, <2>3, TypeSame DEF NoticesCancel
<1> QED
  BY <1>1, <1>2, <1>3, <1>4, <1>5, <1>6, <1>7, <1>8, <1>9, <1>10, <1>11 DEF Run

\* A step of a call begins over the client that is there, or ends the call.
LEMMA TypeBegin ==
  ASSUME TypeOK, NEW c \in Sends, NEW n \in Nat \ {0}, Begin(c, n)
  PROVE  SendsOK' /\ took' \in [Sends -> BOOLEAN]
<1>1. CASE held # None
  BY <1>1 DEF Begin, End, TypeOK, SharedOK, SendsOK, MachineOK
<1>2. CASE held = None
  BY <1>2 DEF Begin, End, TypeOK, SendsOK, MachineOK, Outcomes
<1> QED BY <1>1, <1>2

\* So do the sends.
LEMMA TypeSend ==
  ASSUME TypeOK, NEW c \in Sends, Send(c)
  PROVE  TypeOK'
<1> USE DEF TypeOK
<1>1. CASE CallSend(c)
  <2>1. SendsOK' /\ MachineOK'
    BY <1>1, TypeBegin DEF CallSend, MachineOK
  <2> QED BY <1>1, <2>1, TypeSame DEF CallSend
<1>2. CASE NextStep(c)
  <2>1. step[c] + 1 \in Nat \ {0}
    BY DEF SendsOK
  <2>2. SendsOK' /\ MachineOK'
    BY <1>2, <2>1, TypeBegin DEF NextStep, MachineOK
  <2> QED BY <1>2, <2>2, TypeSame DEF NextStep
<1>3. CASE MachineTakes(c)
  <2>1. MachineOK'
    BY <1>3 DEF MachineTakes, MachineOK
  <2> QED BY <1>3, <2>1, TypeSame DEF MachineTakes
<1>4. CASE Accepted(c)
  <2>1. SendsOK'
    BY <1>4 DEF Accepted, Advance, End, SendsOK, Outcomes
  <2> QED BY <1>4, <2>1, TypeSame DEF Accepted
<1>5. CASE Refused(c)
  <2>1. SendsOK'
    BY <1>5 DEF Refused, End, SendsOK, Outcomes
  <2> QED BY <1>5, <2>1, TypeSame DEF Refused
<1>6. CASE Unanswered(c)
  <2>1. SendsOK'
    BY <1>6 DEF Unanswered, EndUnanswered, End, SendsOK, Outcomes
  <2> QED BY <1>6, <2>1, TypeSame DEF Unanswered
<1>7. CASE WriteFails(c)
  <2>1. SendsOK'
    BY <1>7 DEF WriteFails, End, SendsOK, Outcomes
  <2>2. SharedOK'
    BY <1>7 DEF WriteFails, SharedOK
  <2>3. stray' \in BOOLEAN
    BY <1>7 DEF WriteFails, IsRunning, Running, HistoryOK
  <2>4. HistoryOK'
    BY <1>7, <2>3 DEF WriteFails, HistoryOK
  <2> QED BY <1>7, <2>1, <2>2, <2>4, TypeSame DEF WriteFails
<1> QED
  BY <1>1, <1>2, <1>3, <1>4, <1>5, <1>6, <1>7 DEF Send

\* And so does the link.
LEMMA TypeLink ==
  ASSUME TypeOK, NEW s \in Sessions, LinkDrops(s) \/ LinkDies(s)
  PROVE  TypeOK'
<1>1. SessionsOK'
  BY DEF LinkDrops, LinkDies, TypeOK, SessionsOK
<1> QED BY <1>1, TypeSame DEF LinkDrops, LinkDies, TypeOK

LEMMA TypeNext == TypeOK /\ [Next]_vars => TypeOK'
<1> SUFFICES ASSUME TypeOK, [Next]_vars PROVE TypeOK'
  OBVIOUS
<1>1. CASE UNCHANGED vars
  BY <1>1, TypeSame DEF TypeOK, vars
<1>2. CASE Next
  BY <1>2, TypeStart, TypeStop, TypeRun, TypeSend, TypeLink DEF Next
<1> QED BY <1>1, <1>2

\* Every attribute, await and record of the listener keeps its type.
THEOREM ListenerTypes == Spec => []TypeOK
  BY TypeInit, TypeNext, PTL DEF Spec

-----------------------------------------------------------------------------
(* One session, and what _client holds *)

\* A link that claims to be up belongs to a session inside its `async with`, or
\* to one whose disconnect was cut short.
LinkWithin ==
  \A s \in Sessions : Claims(s) => pc[s] \in InBody \/ (pc[s] \in Over /\ unclean[s])

HeldInBody == held # None => pc[held] \in InBody

HeldIfInBody == ~raced => \A s \in Sessions : pc[s] \in InBody => held = s

\* A stop() waits for the task in _task, or another one has cleared it.
TargetIsTask ==
  ~raced => \A k \in Stops :
    stop[k] \in {"waiting", "timedout"} => target[k] = task \/ task = None

Inv ==
  /\ LinkWithin
  /\ HeldInBody
  /\ HeldIfInBody
  /\ NoOrphanUnlessRaced
  /\ TargetIsTask

LEMMA InvInit == Init => Inv
  BY ListenerAssumption DEF Init, Inv, LinkWithin, HeldInBody, HeldIfInBody,
     NoOrphanUnlessRaced, HeldOnlyWhileStarted, TargetIsTask, Running, Claims, InBody, Awaits

\* What a step of a session may do to its await, to _client and to its link.
Moves(s) ==
  /\ UNCHANGED <<task, stop, target, raced>>
  /\ \A r \in Sessions : r # s => pc'[r] = pc[r]
  /\ pc'[s] \in Awaits \union Over
  /\ Running(s)
  /\ \/ pc'[s] \in InBody /\ pc[s] \in InBody /\ UNCHANGED held
     \/ pc'[s] \in InBody /\ held' = s
     \/ pc'[s] \in Over /\ held' = None
     \/ pc'[s] \notin InBody /\ pc[s] \notin InBody /\ UNCHANGED held
  /\ \A r \in Sessions : Claims(r)' => Claims(r) \/ (r = s /\ pc'[s] \in InBody)
  /\ pc'[s] \in Over => (Claims(s)' => unclean'[s])
  /\ \A r \in Sessions : unclean[r] => unclean'[r]

LEMMA RunMoves ==
  ASSUME TypeOK, LinkWithin, NEW s \in Sessions, Run(s)
  PROVE  Moves(s) \/ UNCHANGED <<task, stop, target, raced, pc, held, link, unclean>>
<1> USE DEF TypeOK, SessionsOK, HistoryOK, Moves, Running, Claims, Awaits, Over, InBody,
        sharedVars, stopVars, historyVars
<1>1. CASE ResolveFinds(s)
  BY <1>1 DEF ResolveFinds, Goto
<1>2. CASE ResolveFails(s)
  BY <1>2 DEF ResolveFails, Goto, Claims, LinkWithin
<1>3. CASE SlowConnect(s)
  BY <1>3 DEF SlowConnect
<1>4. CASE Connects(s)
  <2>1. \A r \in Sessions : Claims(r)' => Claims(r) \/ r = s
    BY <1>4 DEF Connects, Claims
  <2> QED BY <1>4, <2>1 DEF Connects, Goto
<1>5. CASE ConnectFails(s)
  BY <1>5 DEF ConnectFails, Goto, ClearHeld, Claims, LinkWithin
<1>6. CASE Subscribes(s)
  BY <1>6 DEF Subscribes, Goto, Leave, ClearHeld, Claims
<1>7. CASE Ready(s)
  BY <1>7 DEF Ready, Goto, Leave, ClearHeld, Claims
<1>8. CASE Tick(s)
  BY <1>8 DEF Tick, Goto, Leave, ClearHeld, Claims
<1>9. CASE IdleTick(s)
  BY <1>9 DEF IdleTick, Goto, Leave, ClearHeld, Claims
<1>10. CASE Closes(s)
  BY <1>10 DEF Closes, Goto, ClearHeld, Claims
<1>11. CASE NoticesCancel(s)
  BY <1>11 DEF NoticesCancel, Goto, Leave, ClearHeld, Claims, LinkWithin
<1> QED
  BY <1>1, <1>2, <1>3, <1>4, <1>5, <1>6, <1>7, <1>8, <1>9, <1>10, <1>11 DEF Run

LEMMA InvMoves ==
  ASSUME TypeOK, Inv, NEW s \in Sessions, Moves(s)
  PROVE  Inv'
<1> USE DEF TypeOK, SessionsOK, SharedOK, Moves, Inv
<1>1. \A r \in Sessions : r # s => pc'[r] = pc[r]
  OBVIOUS
<1>2. LinkWithin'
  BY <1>1 DEF LinkWithin, InBody, Awaits, Over, Running
<1>3. HeldInBody'
  BY <1>1, ListenerAssumption DEF HeldInBody
<1>4. NoOrphanUnlessRaced'
  BY <1>1 DEF NoOrphanUnlessRaced, HeldOnlyWhileStarted, Running
<1>5. HeldIfInBody'
  <2> SUFFICES ASSUME ~raced, NEW r \in Sessions, pc'[r] \in InBody PROVE held' = r
    BY DEF HeldIfInBody
  <2>1. CASE r = s
    BY <2>1 DEF HeldIfInBody, InBody, Awaits, Over
  <2>2. CASE r # s
    <3>1. Running(r) /\ Running(s)
      BY <1>1, <2>2 DEF Running, InBody
    <3> QED BY <3>1, <2>2 DEF NoOrphanUnlessRaced, HeldOnlyWhileStarted
  <2> QED BY <2>1, <2>2
<1>6. TargetIsTask'
  BY DEF TargetIsTask
<1> QED BY <1>2, <1>3, <1>4, <1>5, <1>6

LEMMA InvStart ==
  ASSUME TypeOK, Inv, NEW s \in Sessions, Start(s)
  PROVE  Inv'
<1> USE DEF TypeOK, SessionsOK, SharedOK, HistoryOK, Inv, Start
<1>1. pc' = [pc EXCEPT ![s] = "resolving"] /\ pc[s] = "unborn"
  OBVIOUS
<1>2. LinkWithin'
  BY <1>1 DEF LinkWithin, Claims, InBody, Awaits, Over
<1>3. HeldInBody'
  BY <1>1 DEF HeldInBody, InBody, Awaits
<1>4. NoOrphanUnlessRaced'
  <2> SUFFICES ASSUME ~raced, NEW r \in Sessions, Running(r)' PROVE r = s
    BY DEF NoOrphanUnlessRaced, HeldOnlyWhileStarted
  <2>1. r # s => Running(r)
    BY <1>1 DEF Running
  <2>2. Running(r) => IsRunning
    BY ListenerAssumption DEF NoOrphanUnlessRaced, HeldOnlyWhileStarted, IsRunning, Sessions
  <2> QED BY <2>1, <2>2 DEF MayStart
<1>5. HeldIfInBody'
  BY <1>1 DEF HeldIfInBody, InBody, Awaits
<1>6. TargetIsTask'
  BY DEF TargetIsTask, stopVars
<1> QED BY <1>2, <1>3, <1>4, <1>5, <1>6

LEMMA InvStop ==
  ASSUME TypeOK, Inv, NEW k \in Stops, CallStop(k) \/ StopTimer(k) \/ StopReturns(k)
  PROVE  Inv'
<1> USE DEF TypeOK, SessionsOK, SharedOK, StopsOK, Inv
<1>1. UNCHANGED <<pc, held, link, raced, unclean>>
  BY DEF CallStop, StopTimer, StopReturns, sharedVars, sessionVars, historyVars
<1>2. LinkWithin' /\ HeldInBody' /\ HeldIfInBody'
  BY <1>1 DEF LinkWithin, HeldInBody, HeldIfInBody, Claims
<1>3. ASSUME ~raced PROVE \A r \in Sessions : Running(r) => task' = r
  <2> SUFFICES ASSUME NEW r \in Sessions, Running(r) PROVE task' = r
    OBVIOUS
  <2>1. task = r /\ IsRunning
    BY <1>3, ListenerAssumption DEF NoOrphanUnlessRaced, HeldOnlyWhileStarted, IsRunning, Sessions
  <2>2. CASE CallStop(k)
    BY <2>1, <2>2 DEF CallStop, AwaitsTask
  <2>3. CASE StopTimer(k)
    BY <2>1, <2>3 DEF StopTimer, sharedVars
  <2>4. CASE StopReturns(k)
    <3>1. target[k] = r
      BY <1>3, <2>1, <2>4, ListenerAssumption DEF StopReturns, TargetIsTask, Sessions
    <3> QED BY <2>4, <3>1 DEF StopReturns, Running, Awaits, Over
  <2> QED BY <2>2, <2>3, <2>4
<1>4. NoOrphanUnlessRaced'
  BY <1>1, <1>3 DEF NoOrphanUnlessRaced, HeldOnlyWhileStarted, Running
<1>5. TargetIsTask'
  <2> SUFFICES ASSUME ~raced PROVE \A j \in Stops :
        stop'[j] \in {"waiting", "timedout"} => target'[j] = task' \/ task' = None
    BY <1>1 DEF TargetIsTask
  <2>1. CASE CallStop(k)
    <3>1. CASE AwaitsTask
      BY <2>1, <3>1 DEF CallStop, TargetIsTask
    <3>2. CASE ~AwaitsTask
      BY <2>1, <3>2 DEF CallStop, Finish, TargetIsTask
    <3> QED BY <3>1, <3>2
  <2>2. CASE StopTimer(k)
    BY <2>2 DEF StopTimer, TargetIsTask, sharedVars
  <2>3. CASE StopReturns(k)
    BY <2>3 DEF StopReturns, Finish, TargetIsTask
  <2> QED BY <2>1, <2>2, <2>3
<1> QED BY <1>2, <1>4, <1>5

\* Sends and the link do not touch what the invariant speaks of, but for a link
\* that goes down.
LEMMA InvOthers ==
  ASSUME TypeOK, Inv,
         UNCHANGED <<pc, held, task, stop, target, raced, unclean>>,
         \A s \in Sessions : Claims(s)' => Claims(s)
  PROVE  Inv'
BY DEF Inv, LinkWithin, HeldInBody, HeldIfInBody, NoOrphanUnlessRaced, HeldOnlyWhileStarted,
       TargetIsTask, Running

LEMMA InvNext == TypeOK /\ Inv /\ [Next]_vars => Inv'
<1> SUFFICES ASSUME TypeOK, Inv, [Next]_vars PROVE Inv'
  OBVIOUS
<1> USE DEF sharedVars, sessionVars, stopVars, historyVars
<1>1. CASE UNCHANGED vars
  BY <1>1, InvOthers DEF vars, Claims
<1>2. ASSUME NEW s \in Sessions, Start(s) PROVE Inv'
  BY <1>2, InvStart
<1>3. ASSUME NEW s \in Sessions, Run(s) PROVE Inv'
  <2>1. CASE Moves(s)
    BY <2>1, InvMoves
  <2>2. CASE UNCHANGED <<task, stop, target, raced, pc, held, link, unclean>>
    BY <2>2, InvOthers DEF Claims
  <2> QED BY <1>3, <2>1, <2>2, RunMoves DEF Inv
<1>4. ASSUME NEW s \in Sessions, LinkDrops(s) \/ LinkDies(s) PROVE Inv'
  <2>1. \A r \in Sessions : Claims(r)' => Claims(r)
    BY <1>4 DEF LinkDrops, LinkDies, Claims, TypeOK, SessionsOK
  <2> QED BY <1>4, <2>1, InvOthers DEF LinkDrops, LinkDies
<1>5. ASSUME NEW k \in Stops, CallStop(k) \/ StopTimer(k) \/ StopReturns(k) PROVE Inv'
  BY <1>5, InvStop
<1>6. ASSUME NEW c \in Sends, Send(c) PROVE Inv'
  <2>1. UNCHANGED <<pc, held, task, stop, target, raced, unclean, link>>
    BY <1>6 DEF Send, CallSend, NextStep, MachineTakes, Accepted, Refused, Unanswered, WriteFails
  <2> QED BY <2>1, InvOthers DEF Claims
<1> QED BY <1>1, <1>2, <1>3, <1>4, <1>5, <1>6 DEF Next

LEMMA InvAlways == Spec => []Inv
  BY InvInit, InvNext, ListenerTypes, PTL DEF Spec

\* As long as no start() slips in between the end of a task and the stop() that
\* waits for it, the task in _task is the only one that runs.
THEOREM NoOrphan == Spec => []NoOrphanUnlessRaced
<1>1. Inv => NoOrphanUnlessRaced
  BY DEF Inv
<1> QED BY <1>1, InvAlways, PTL

\* What _client holds is the client of the session inside its `async with`.
THEOREM ClientOfTheSession == Spec => []HeldByTheSession
<1>1. Inv => HeldByTheSession
  BY DEF Inv, HeldInBody, HeldIfInBody, HeldByTheSession
<1> QED BY <1>1, InvAlways, PTL

\* A session that is over left its link closed, unless its disconnect was cut
\* short.
THEOREM ClosedWhenOver == Spec => []OverMeansClosed
<1>1. Inv => OverMeansClosed
  BY DEF Inv, LinkWithin, OverMeansClosed, InBody, Awaits, Over
<1> QED BY <1>1, InvAlways, PTL
-----------------------------------------------------------------------------
(* What a session says of its link *)

\* A send writes with the client of a session that was inside its `async with`.
ViaWithin == \A c \in Sends : call[c] = "awaiting" => pc[via[c]] \in InBody \union Over

\* _link_lost is about the session that runs.
LostIsLost ==
  ~raced /\ ~stray /\ linkLost =>
    \A s \in Sessions : Running(s) => pc[s] \in InBody /\ link[s] # "up"

Truth == ViaWithin /\ LostIsLost /\ LostMeansLost

LEMMA TruthInit == Init => Truth
  BY DEF Init, Truth, ViaWithin, LostIsLost, LostMeansLost

\* What no step of a session but a tick changes; only a connect gives a link.
LEMMA RunTells ==
  ASSUME TypeOK, NEW s \in Sessions, Run(s)
  PROVE  /\ UNCHANGED <<raced, stray, call, via>>
         /\ ~Tick(s) => UNCHANGED <<linkLost, misjudged>>
         /\ \A r \in Sessions : link'[r] = "up" => link[r] = "up" \/ pc[s] = "connecting"
<1> USE DEF TypeOK, SessionsOK, sharedVars, sendVars, historyVars
<1>1. CASE ResolveFinds(s) \/ ResolveFails(s) \/ SlowConnect(s)
  BY <1>1 DEF ResolveFinds, ResolveFails, SlowConnect
<1>2. CASE Connects(s)
  BY <1>2 DEF Connects
<1>3. CASE ConnectFails(s) \/ Subscribes(s) \/ Ready(s)
  BY <1>3 DEF ConnectFails, Subscribes, Ready
<1>4. CASE Tick(s)
  BY <1>4 DEF Tick
<1>5. CASE IdleTick(s) \/ NoticesCancel(s)
  BY <1>5 DEF IdleTick, NoticesCancel
<1>6. CASE Closes(s)
  BY <1>6 DEF Closes
<1> QED BY <1>1, <1>2, <1>3, <1>4, <1>5, <1>6 DEF Run

\* A tick that finds the link lost looks at its own, and finds it so.
LEMMA TickIsRight ==
  ASSUME TypeOK, Inv, Truth, NEW s \in Sessions, Tick(s), ~raced, ~stray, FoundLost
  PROVE  link[s] # "up" /\ \A r \in Sessions : Running(r) => r = s
<1>1. pc[s] = "holding" /\ Running(s) /\ pc[s] \in InBody
  BY DEF Tick, Running, InBody, Awaits
<1>2. held = s
  BY <1>1 DEF Inv, HeldIfInBody
<1>3. link[s] # "up"
  <2>1. CASE linkLost
    BY <1>1, <2>1 DEF Truth, LostIsLost
  <2>2. CASE ~Claims(held)
    BY <1>2, <2>2 DEF Claims
  <2> QED BY <2>1, <2>2 DEF FoundLost
<1> QED BY <1>1, <1>3 DEF Inv, NoOrphanUnlessRaced, HeldOnlyWhileStarted

LEMMA RunTruth ==
  ASSUME TypeOK, Inv, Truth, NEW s \in Sessions, Run(s)
  PROVE  Truth'
<1>0. UNCHANGED <<raced, stray, call, via>>
  BY RunTells
<1>1. Moves(s) \/ UNCHANGED pc
  BY RunMoves DEF Inv
<1>2. ViaWithin'
  <2> SUFFICES ASSUME NEW c \in Sends, call[c] = "awaiting" PROVE pc'[via[c]] \in InBody \union Over
    BY <1>0 DEF ViaWithin
  <2>1. via[c] \in Sessions /\ pc[via[c]] \in InBody \union Over
    BY DEF Truth, ViaWithin, TypeOK, SendsOK
  <2> QED BY <1>1, <2>1 DEF Moves, Running, InBody, Awaits, Over
<1>3. \A r \in Sessions : Running(r)' => Running(r)
  BY <1>1 DEF Moves, Running
<1>4. \A r \in Sessions : pc[r] \in InBody => pc'[r] \in InBody \union Over
  BY <1>1 DEF Moves, InBody, Awaits, Over
<1>5. CASE Tick(s)
  <2>1. LostMeansLost'
    BY <1>0, <1>5, TickIsRight DEF Tick, Truth, LostMeansLost
  <2>2. ASSUME ~raced, ~stray, linkLost', NEW r \in Sessions, Running(r)'
        PROVE  pc'[r] \in InBody /\ link'[r] # "up"
    <3>1. FoundLost /\ pc[s] = "holding"
      BY <1>5, <2>2 DEF Tick
    <3>2. r = s /\ link[s] # "up"
      BY <1>3, <1>5, <2>2, <3>1, TickIsRight
    <3>3. link'[r] # "up"
      BY <1>5, <3>2 DEF Tick
    <3>4. pc'[r] \in InBody \union Over
      BY <1>4, <3>1, <3>2 DEF InBody, Awaits
    <3> QED BY <2>2, <3>3, <3>4 DEF Running, Awaits, Over
  <2> QED BY <1>0, <1>2, <2>1, <2>2 DEF Truth, LostIsLost
<1>6. CASE ~Tick(s)
  <2>1. UNCHANGED <<linkLost, misjudged>>
    BY <1>6, RunTells
  <2>2. ASSUME ~raced, ~stray, linkLost, NEW r \in Sessions, Running(r)'
        PROVE  pc'[r] \in InBody /\ link'[r] # "up"
    <3>1. \A q \in Sessions : Running(q) => pc[q] \in InBody /\ link[q] # "up"
      BY <2>2 DEF Truth, LostIsLost
    <3>2. pc[s] # "connecting"
      BY <3>1 DEF Running, InBody, Awaits
    <3>3. pc[r] \in InBody /\ link[r] # "up"
      BY <1>3, <2>2, <3>1
    <3>4. link'[r] # "up"
      BY <3>2, <3>3, RunTells
    <3> QED BY <1>4, <2>2, <3>3, <3>4 DEF Running, Awaits, Over
  <2> QED BY <1>0, <1>2, <2>1, <2>2 DEF Truth, LostIsLost, LostMeansLost
<1> QED BY <1>5, <1>6

LEMMA SendTruth ==
  ASSUME TypeOK, Inv, Truth, NEW c \in Sends, Send(c)
  PROVE  Truth'
<1>0. UNCHANGED <<pc, link, task, raced, misjudged>>
  BY DEF Send, CallSend, NextStep, MachineTakes, Accepted, Refused, Unanswered, WriteFails,
         sharedVars, sessionVars, historyVars
<1>1. ViaWithin'
  <2>1. ASSUME NEW n \in Nat, Begin(c, n) PROVE ViaWithin'
    <3>1. CASE held # None
      BY <1>0, <2>1, <3>1 DEF Begin, End, Truth, ViaWithin, Inv, HeldInBody, TypeOK, SendsOK
    <3>2. CASE held = None
      BY <1>0, <2>1, <3>2 DEF Begin, End, Truth, ViaWithin, TypeOK, SendsOK
    <3> QED BY <3>1, <3>2
  <2>2. CASE CallSend(c)
    BY <2>1, <2>2 DEF CallSend
  <2>3. CASE NextStep(c)
    BY <2>1, <2>3 DEF NextStep, TypeOK, SendsOK
  <2>4. CASE MachineTakes(c)
    BY <1>0, <2>4 DEF MachineTakes, sendVars, Truth, ViaWithin
  <2>5. ASSUME NEW how, End(c, how) PROVE ViaWithin'
    BY <1>0, <2>5 DEF End, Truth, ViaWithin, TypeOK, SendsOK
  <2>6. CASE Accepted(c)
    <3>1. CASE call' = [call EXCEPT ![c] = "settling"] /\ UNCHANGED via
      BY <1>0, <3>1 DEF Truth, ViaWithin, TypeOK, SendsOK
    <3> QED BY <2>5, <2>6, <3>1 DEF Accepted, Advance
  <2>7. CASE Refused(c) \/ Unanswered(c) \/ WriteFails(c)
    BY <2>5, <2>7 DEF Refused, Unanswered, EndUnanswered, WriteFails
  <2> QED BY <2>2, <2>3, <2>4, <2>6, <2>7 DEF Send
<1>2. CASE WriteFails(c)
  <2>1. stray' = (stray \/ (IsRunning /\ task # via[c])) /\ link[via[c]] # "up"
    BY <1>2 DEF WriteFails
  <2>2. via[c] \in Sessions /\ pc[via[c]] \in InBody \union Over
    BY <1>2 DEF WriteFails, Truth, ViaWithin, TypeOK, SendsOK
  <2>3. ASSUME ~raced, ~stray', NEW r \in Sessions, Running(r)
        PROVE  pc[r] \in InBody /\ link[r] # "up"
    <3>1. task = r
      BY <2>3 DEF Inv, NoOrphanUnlessRaced, HeldOnlyWhileStarted
    <3>2. IsRunning
      BY <2>3, <3>1, ListenerAssumption DEF IsRunning, Sessions
    <3>3. via[c] = r
      BY <2>1, <2>3, <3>1, <3>2
    <3> QED BY <2>1, <2>2, <2>3, <3>3 DEF Running, Awaits, Over
  <2>4. LostIsLost'
    BY <1>0, <2>3 DEF LostIsLost, Running
  <2>5. LostMeansLost'
    BY <1>0, <2>1 DEF Truth, LostMeansLost
  <2> QED BY <1>1, <2>4, <2>5 DEF Truth
<1>3. CASE ~WriteFails(c)
  <2>1. UNCHANGED <<linkLost, stray>>
    BY <1>3 DEF Send, CallSend, NextStep, MachineTakes, Accepted, Refused, Unanswered,
                sharedVars, historyVars
  <2> QED BY <1>0, <1>1, <2>1 DEF Truth, LostIsLost, LostMeansLost, Running
<1> QED BY <1>2, <1>3

LEMMA TruthNext == TypeOK /\ Inv /\ Truth /\ [Next]_vars => Truth'
<1> SUFFICES ASSUME TypeOK, Inv, Truth, [Next]_vars PROVE Truth'
  OBVIOUS
<1> USE DEF sharedVars, sessionVars, stopVars, sendVars, historyVars
<1>1. CASE UNCHANGED vars
  BY <1>1 DEF vars, Truth, ViaWithin, LostIsLost, LostMeansLost, Running
<1>2. ASSUME NEW s \in Sessions, Start(s) PROVE Truth'
  <2>1. /\ linkLost' = FALSE /\ (raced => raced') /\ UNCHANGED <<call, via, stray, misjudged>>
        /\ pc' = [pc EXCEPT ![s] = "resolving"] /\ pc[s] = "unborn"
    BY <1>2 DEF Start, ClearReason
  <2>2. ViaWithin'
    BY <2>1 DEF Truth, ViaWithin, TypeOK, SessionsOK, SendsOK, InBody, Awaits, Over
  <2> QED BY <2>1, <2>2 DEF Truth, LostIsLost, LostMeansLost
<1>3. ASSUME NEW s \in Sessions, LinkDrops(s) \/ LinkDies(s) PROVE Truth'
  <2>1. /\ UNCHANGED <<pc, call, via, linkLost, raced, stray, misjudged>>
        /\ \A r \in Sessions : link'[r] = "up" => link[r] = "up"
    BY <1>3 DEF LinkDrops, LinkDies, TypeOK, SessionsOK
  <2> QED BY <2>1 DEF Truth, ViaWithin, LostIsLost, LostMeansLost, Running
<1>4. ASSUME NEW k \in Stops, CallStop(k) \/ StopTimer(k) \/ StopReturns(k) PROVE Truth'
  <2>1. UNCHANGED <<pc, call, via, link, linkLost, raced, stray, misjudged>>
    BY <1>4 DEF CallStop, StopTimer, StopReturns
  <2> QED BY <2>1 DEF Truth, ViaWithin, LostIsLost, LostMeansLost, Running
<1> QED BY <1>1, <1>2, <1>3, <1>4, RunTruth, SendTruth DEF Next

LEMMA TruthAlways == Spec => []Truth
  BY TruthInit, TruthNext, ListenerTypes, InvAlways, PTL DEF Spec

\* The hold loop of _run announces a lost link only over a link that was lost,
\* unless a send failed over the client of a session already replaced, or two
\* sessions ran at once.
THEOREM LostIsTold == Spec => []LostMeansLost
<1>1. Truth => LostMeansLost
  BY DEF Truth
<1> QED BY <1>1, TruthAlways, PTL
-----------------------------------------------------------------------------
(* What a host hears of one session *)

\* Short sequences, put together from either end.
LEMMA ShortSequences ==
  ASSUME NEW x, NEW y
  PROVE  /\ Append(<< >>, x) = <<x>>
         /\ Append(<<x>>, y) = <<x, y>>
         /\ << >> \o << >> \o << >> = << >>
         /\ <<x>> \o << >> \o << >> = <<x>>
         /\ << >> \o <<x>> \o << >> = <<x>>
         /\ <<x>> \o <<y>> = <<x, y>>
<1>1. /\ <<x>> \in Seq({x, y}) /\ <<y>> \in Seq({x, y}) /\ <<x, y>> \in Seq({x, y})
      /\ Len(<<x>>) = 1 /\ <<x>>[1] = x
      /\ Len(<<x, y>>) = 2 /\ <<x, y>>[1] = x /\ <<x, y>>[2] = y
  OBVIOUS
<1>2. /\ Append(<<x>>, y) \in Seq({x, y}) /\ Len(Append(<<x>>, y)) = 2
      /\ Append(<<x>>, y)[1] = x /\ Append(<<x>>, y)[2] = y
  BY <1>1, AppendProperties
<1>3. \A i \in 1..2 : Append(<<x>>, y)[i] = <<x, y>>[i]
  BY <1>1, <1>2
<1>4. Append(<<x>>, y) = <<x, y>>
  BY <1>1, <1>2, <1>3, SeqEqual
<1>5. <<x>> \o <<y>> = <<x, y>>
  BY <1>1, <1>4, AppendIsConcat
<1>6. Append(<< >>, x) = <<x>>
  OBVIOUS
<1>7. /\ << >> \o << >> \o << >> = << >>
      /\ <<x>> \o << >> \o << >> = <<x>>
  OBVIOUS
<1>8. << >> \o <<x>> \o << >> = <<x>>
  OBVIOUS
<1> QED BY <1>4, <1>5, <1>6, <1>7, <1>8

LEMMA ThreeParts ==
  ASSUME NEW A, NEW B, NEW E, NEW a \in A, NEW b \in B, NEW e \in E
  PROVE  a \o b \o e \in {x \o y \o z : x \in A, y \in B, z \in E}
OBVIOUS

LEMMA ThreePartsOf ==
  ASSUME NEW A, NEW B, NEW E, NEW W, W = {x \o y \o z : x \in A, y \in B, z \in E},
         NEW a \in A, NEW b \in B, NEW e \in E
  PROVE  a \o b \o e \in W
BY ThreeParts

LEMMA Announced ==
  ASSUME NEW a \in {<< >>, <<"connecting">>}, NEW b \in {<< >>, <<"ready">>},
         NEW e \in {<< >>, <<"failed">>, <<"auto_stopped">>}
  PROVE  a \o b \o e \in Announcements
<1> DEFINE A == {<< >>, <<"connecting">>}
           B == {<< >>, <<"ready">>}
           E == {<< >>, <<"failed">>, <<"auto_stopped">>}
<1>1. Announcements = {x \o y \o z : x \in A, y \in B, z \in E}
  BY DEF Announcements
<1>2. a \in A /\ b \in B /\ e \in E
  OBVIOUS
<1> HIDE DEF A, B, E
<1> QED BY <1>1, <1>2, ThreePartsOf

\* What was said before "ready", and with it.
Opened  == {<< >>, <<"connecting">>}
Readied == {<<"ready">>, <<"connecting", "ready">>}

\* What the phases said so far may be followed by.
LEMMA Stories ==
  /\ Opened \subseteq Announcements /\ Readied \subseteq Announcements
  /\ << >> \in Opened /\ Append(<< >>, "connecting") \in Opened
  /\ \A a \in Opened :
       Append(a, "ready") \in Readied /\ Append(a, "failed") \in Announcements
  /\ \A a \in Readied :
       Append(a, "failed") \in Announcements /\ Append(a, "auto_stopped") \in Announcements
<1>1. \A a \in {<< >>, <<"connecting">>}, b \in {<< >>, <<"ready">>},
         e \in {<< >>, <<"failed">>, <<"auto_stopped">>} : a \o b \o e \in Announcements
  BY Announced
<1>2. /\ << >> \o << >> \o << >> = << >>
      /\ <<"connecting">> \o << >> \o << >> = <<"connecting">>
      /\ << >> \o <<"ready">> \o << >> = <<"ready">>
      /\ <<"connecting">> \o <<"ready">> = <<"connecting", "ready">>
      /\ <<"connecting", "ready">> \o << >> = <<"connecting", "ready">>
  <2>1. \A x, y : <<x, y>> \o << >> = <<x, y>>
    OBVIOUS
  <2> QED BY <2>1, ShortSequences
<1>3. /\ << >> \o << >> \o <<"failed">> = Append(<< >>, "failed")
      /\ <<"connecting">> \o << >> \o <<"failed">> = Append(<<"connecting">>, "failed")
  OBVIOUS
<1>4. /\ << >> \o <<"ready">> \o <<"failed">> = Append(<<"ready">>, "failed")
      /\ << >> \o <<"ready">> \o <<"auto_stopped">> = Append(<<"ready">>, "auto_stopped")
  OBVIOUS
<1>5. /\ <<"connecting">> \o <<"ready">> \o <<"failed">>
           = Append(<<"connecting", "ready">>, "failed")
      /\ <<"connecting">> \o <<"ready">> \o <<"auto_stopped">>
           = Append(<<"connecting", "ready">>, "auto_stopped")
  OBVIOUS
<1>6. /\ Append(<< >>, "connecting") = <<"connecting">>
      /\ Append(<< >>, "ready") = <<"ready">>
      /\ Append(<<"connecting">>, "ready") = <<"connecting", "ready">>
  BY ShortSequences
<1>7. Opened \subseteq Announcements /\ Readied \subseteq Announcements
  BY <1>1, <1>2 DEF Opened, Readied
<1>8. \A a \in Opened : Append(a, "ready") \in Readied
  BY <1>6 DEF Opened, Readied
<1>9. \A a \in Opened : Append(a, "failed") \in Announcements
  BY <1>1, <1>3 DEF Opened
<1>10. \A a \in Readied :
         Append(a, "failed") \in Announcements /\ Append(a, "auto_stopped") \in Announcements
  BY <1>1, <1>4, <1>5 DEF Readied
<1> QED BY <1>6, <1>7, <1>8, <1>9, <1>10 DEF Opened

\* What a session said by the await it is at.  The slow-connect timer is armed
\* only while it connects, or once a cancel ended it there.
StoryOf(s) ==
  /\ slow[s] = "armed" => pc[s] \in {"connecting", "done"} /\ said[s] = << >>
  /\ pc[s] \in {"unborn", "resolving"} => slow[s] = "none" /\ said[s] = << >>
  /\ pc[s] \in {"connecting", "subscribing", "reading"} => said[s] \in Opened
  /\ pc[s] = "holding" => said[s] \in Readied
  /\ pc[s] = "closing" => said[s] \in Announcements
  /\ pc[s] \in Over =>
       \/ said[s] \in Announcements
       \/ unclean[s] /\ \E a \in Announcements : said[s] = Append(a, "failed")

Story == \A s \in Sessions : StoryOf(s)

LEMMA StoryInit == Init => Story
  BY DEF Init, Story, StoryOf, Over

\* What happens to one session is no part of another's story.
LEMMA OtherStories ==
  ASSUME Story, NEW s \in Sessions, StoryOf(s)',
         \A r \in Sessions \ {s} :
           /\ slow'[r] = slow[r] /\ pc'[r] = pc[r] /\ said'[r] = said[r]
           /\ unclean'[r] = unclean[r]
  PROVE  Story'
<1> SUFFICES ASSUME NEW r \in Sessions PROVE StoryOf(r)'
  BY DEF Story
<1>1. CASE r = s
  BY <1>1
<1>2. CASE r # s
  BY <1>2 DEF Story, StoryOf
<1> QED BY <1>1, <1>2

\* A step that leaves `async with` at the end of what it says.
LEMMA LeaveStory ==
  ASSUME TypeOK, NEW s \in Sessions, Leave(s), slow[s] # "armed", slow' = slow,
         said'[s] \in Announcements
  PROVE  StoryOf(s)'
<1>1. pc'[s] \in {"closing", "done"}
  BY DEF Leave, Goto, TypeOK, SessionsOK
<1> QED BY <1>1 DEF StoryOf, Over

LEMMA RunStory ==
  ASSUME TypeOK, Story, NEW s \in Sessions, Run(s)
  PROVE  Story'
<1>0. StoryOf(s)
  BY DEF Story
<1> SUFFICES StoryOf(s)' /\ \A r \in Sessions \ {s} :
           /\ slow'[r] = slow[r] /\ pc'[r] = pc[r] /\ said'[r] = said[r]
           /\ unclean'[r] = unclean[r]
  BY OtherStories
<1> USE DEF TypeOK, SessionsOK, HistoryOK, historyVars
<1>1. CASE ResolveFinds(s)
  BY <1>0, <1>1, Stories DEF ResolveFinds, Goto, StoryOf, Over
<1>2. CASE ResolveFails(s)
  <2>1. UNCHANGED <<slow, unclean>> /\ slow[s] = "none" /\ said[s] \in Opened
    BY <1>0, <1>2, Stories DEF ResolveFails, StoryOf
  <2>2. said'[s] \in Announcements /\ \A r \in Sessions \ {s} : said'[r] = said[r]
    BY <1>2, <2>1, Stories DEF ResolveFails, Say
  <2>3. pc'[s] \in Over /\ \A r \in Sessions \ {s} : pc'[r] = pc[r]
    BY <1>2 DEF ResolveFails, Goto, Over
  <2> QED BY <2>1, <2>2, <2>3 DEF StoryOf, Over
<1>3. CASE SlowConnect(s)
  BY <1>0, <1>3, Stories DEF SlowConnect, Say, StoryOf, Over
<1>4. CASE Connects(s)
  BY <1>0, <1>4 DEF Connects, Goto, CancelSlow, StoryOf, Over
<1>5. CASE ConnectFails(s)
  BY <1>0, <1>5, Stories DEF ConnectFails, Goto, CancelSlow, Say, StoryOf, Over
<1>6. CASE Subscribes(s)
  <2>1. CASE Goto(s, "reading") /\ UNCHANGED said
    BY <1>0, <1>6, <2>1 DEF Subscribes, Goto, StoryOf, Over
  <2>2. CASE Leave(s) /\ Say(s, "failed")
    <3>1. said'[s] \in Announcements
      BY <1>0, <1>6, <2>2, Stories DEF Subscribes, Say, StoryOf
    <3>2. StoryOf(s)'
      BY <1>0, <1>6, <2>2, <3>1, LeaveStory DEF Subscribes, StoryOf
    <3> QED BY <1>6, <2>2, <3>2 DEF Subscribes, Leave, Goto, Say
  <2> QED BY <1>6, <2>1, <2>2 DEF Subscribes
<1>7. CASE Ready(s)
  <2>1. said'[s] \in Readied
    BY <1>0, <1>7, Stories DEF Ready, Say, StoryOf
  <2>2. CASE Goto(s, "holding")
    BY <1>0, <1>7, <2>1, <2>2 DEF Ready, Goto, Say, StoryOf, Over
  <2>3. CASE Leave(s)
    <3>1. StoryOf(s)'
      BY <1>0, <1>7, <2>1, <2>3, LeaveStory, Stories DEF Ready, StoryOf
    <3> QED BY <1>7, <2>3, <3>1 DEF Ready, Leave, Goto, Say
  <2> QED BY <1>7, <2>2, <2>3 DEF Ready
<1>8. CASE Tick(s)
  <2>1. UNCHANGED <<slow, unclean>> /\ slow[s] # "armed" /\ said[s] \in Readied
    BY <1>0, <1>8 DEF Tick, StoryOf
  <2>2. CASE Say(s, "failed") /\ Leave(s)
    <3>1. StoryOf(s)'
      BY <2>1, <2>2, LeaveStory, Stories DEF Say
    <3> QED BY <2>1, <2>2, <3>1 DEF Leave, Goto, Say
  <2>3. CASE Leave(s) /\ UNCHANGED said
    <3>1. StoryOf(s)'
      BY <2>1, <2>3, LeaveStory, Stories
    <3> QED BY <2>1, <2>3, <3>1 DEF Leave, Goto
  <2>4. CASE UNCHANGED <<pc, said>>
    BY <1>0, <2>1, <2>4 DEF StoryOf
  <2> QED BY <1>8, <2>2, <2>3, <2>4 DEF Tick
<1>9. CASE IdleTick(s)
  <2>1. slow[s] # "armed" /\ said[s] \in Readied
    BY <1>0, <1>9 DEF IdleTick, StoryOf
  <2>2. StoryOf(s)'
    BY <1>9, <2>1, LeaveStory, Stories DEF IdleTick, Say
  <2> QED BY <1>9, <2>2 DEF IdleTick, Leave, Goto, Say
<1>10. CASE Closes(s)
  BY <1>0, <1>10 DEF Closes, Goto, Say, StoryOf, Over
<1>11. CASE NoticesCancel(s)
  <2>1. UNCHANGED <<slow, said>>
    BY <1>11 DEF NoticesCancel
  <2>2. CASE pc[s] \in InBody \ {"closing"} /\ Leave(s) /\ UNCHANGED unclean
    <3>1. slow[s] # "armed" /\ said[s] \in Announcements
      BY <1>0, <2>2, Stories DEF StoryOf, InBody, Awaits
    <3>2. StoryOf(s)'
      BY <2>1, <2>2, <3>1, LeaveStory
    <3> QED BY <2>1, <2>2, <3>2 DEF Leave, Goto
  <2>3. CASE /\ pc[s] \in {"resolving", "connecting", "closing"}
             /\ Goto(s, "done")
             /\ unclean' = unclean \/ unclean' = [unclean EXCEPT ![s] = TRUE]
    BY <1>0, <2>1, <2>3, Stories DEF Goto, StoryOf, Over
  <2> QED BY <1>11, <2>2, <2>3 DEF NoticesCancel
<1> QED
  BY <1>1, <1>2, <1>3, <1>4, <1>5, <1>6, <1>7, <1>8, <1>9, <1>10, <1>11 DEF Run

LEMMA StoryNext == TypeOK /\ Story /\ [Next]_vars => Story'
<1> SUFFICES ASSUME TypeOK, Story, [Next]_vars PROVE Story'
  OBVIOUS
<1>1. CASE UNCHANGED <<slow, pc, said, unclean>>
  BY <1>1 DEF Story, StoryOf
<1>2. ASSUME NEW s \in Sessions, Start(s) PROVE Story'
  <2>1. /\ UNCHANGED <<slow, said, unclean>> /\ pc[s] = "unborn"
        /\ pc' = [pc EXCEPT ![s] = "resolving"]
    BY <1>2 DEF Start
  <2>2. StoryOf(s)'
    BY <2>1 DEF Story, StoryOf, Over, TypeOK, SessionsOK
  <2> QED BY <2>1, <2>2, OtherStories DEF TypeOK, SessionsOK
<1>3. ASSUME NEW k \in Stops, CallStop(k) \/ StopTimer(k) \/ StopReturns(k) PROVE Story'
  BY <1>1, <1>3 DEF CallStop, StopTimer, StopReturns, sessionVars, historyVars
<1>4. ASSUME NEW c \in Sends, Send(c) PROVE Story'
  BY <1>1, <1>4 DEF Send, CallSend, NextStep, MachineTakes, Accepted, Refused, Unanswered,
     WriteFails, sessionVars, historyVars
<1>5. ASSUME NEW s \in Sessions, LinkDrops(s) \/ LinkDies(s) PROVE Story'
  BY <1>1, <1>5 DEF LinkDrops, LinkDies, historyVars
<1> QED BY <1>1, <1>2, <1>3, <1>4, <1>5, RunStory DEF Next, vars, sessionVars, historyVars

\* A host hears of one session of _run perhaps that it is connecting, perhaps
\* that it is ready, then at most one end; a second one only if disconnect()
\* raised.
THEOREM ToldInOrder == Spec => []LifecycleInOrder
<1>1. TypeOK /\ Story => LifecycleInOrder
  <2> SUFFICES ASSUME TypeOK, NEW s \in Sessions, StoryOf(s)
               PROVE  \/ said[s] \in Announcements
                      \/ unclean[s] /\ \E a \in Announcements : said[s] = Append(a, "failed")
    BY DEF Story, LifecycleInOrder
  <2> QED BY Stories DEF StoryOf, TypeOK, SessionsOK, Awaits, Over
<1> QED BY <1>1, StoryInit, StoryNext, ListenerTypes, PTL DEF Spec

-----------------------------------------------------------------------------
(* Whose recipe a brew starts *)

\* A call writes one of its steps, and settles after one the machine took.
WithinSteps ==
  \A c \in Sends :
    /\ call[c] = "idle" => step[c] = 1 /\ ~took[c]
    /\ call[c] \in {"awaiting", "settling"} => step[c] \in 1..Len(Steps(c))
    /\ call[c] = "settling" => step[c] < Len(Steps(c)) /\ (Kind[c] = "live" \/ took[c])

\* The one call that sends recipes.
Alone(c) == Kind[c] = "brew" /\ \A d \in Sends \ {c} : ~Brewing(d)

\* The machine took step n of call c.
Past(c, n) == step[c] > n \/ (step[c] = n /\ took[c])

\* From the step that sends the recipe on, the machine holds it.
OwnLoaded ==
  \A c \in Sends : Alone(c) =>
    \A n \in 1..Len(Prepare) : Prepare[n] = "recipe" /\ Past(c, n) => loaded = c

OwnStarted == \A c \in started : Alone(c) => brewed[c] = c

OwnRecipe == WithinSteps /\ OwnLoaded /\ OwnStarted

\* A call has a step; one that is alone has those of Prepare and then execute.
LEMMA StepsOf ==
  ASSUME NEW c \in Sends
  PROVE  /\ Len(Prepare) \in Nat
         /\ Len(Steps(c)) \in Nat \ {0}
         /\ ~Brewing(c) => Steps(c) = <<"command">>
         /\ Kind[c] = "brew" =>
              /\ Len(Steps(c)) = Len(Prepare) + 1
              /\ Steps(c)[Len(Prepare) + 1] = "execute"
              /\ \A n \in 1..Len(Prepare) :
                   Steps(c)[n] = Prepare[n] /\ Prepare[n] # "execute"
<1> DEFINE All == {"bypass", "cup", "recipe", "execute"}
<1>1. /\ Prepare \in Seq(All) /\ "execute" \in All
      /\ \A n \in 1..Len(Prepare) : Prepare[n] # "execute"
      /\ Len(Prepare) \in Nat \ {0}
  BY ListenerAssumption
<1>2. /\ Len(Append(Prepare, "execute")) = Len(Prepare) + 1
      /\ Append(Prepare, "execute")[Len(Prepare) + 1] = "execute"
      /\ \A n \in 1..Len(Prepare) : Append(Prepare, "execute")[n] = Prepare[n]
  BY <1>1, AppendProperties
<1>3. Kind[c] \in {"live", "confirmed", "prepare", "start", "brew"}
  BY ListenerAssumption
<1>4. CASE Kind[c] = "brew"
  BY <1>1, <1>2, <1>4 DEF Steps, Brewing
<1>5. CASE Kind[c] = "prepare"
  BY <1>1, <1>5 DEF Steps, Brewing
<1>6. CASE Kind[c] = "start"
  BY <1>1, <1>6 DEF Steps, Brewing
<1>7. CASE Kind[c] \in {"live", "confirmed"}
  BY <1>1, <1>7 DEF Steps, Brewing
<1> QED BY <1>3, <1>4, <1>5, <1>6, <1>7

LEMMA OwnInit == Init => OwnRecipe
<1> SUFFICES ASSUME Init PROVE OwnRecipe
  OBVIOUS
<1>1. WithinSteps /\ OwnStarted
  BY DEF Init, WithinSteps, OwnStarted
<1>2. OwnLoaded
  BY DEF Init, OwnLoaded, Past
<1> QED BY <1>1, <1>2 DEF OwnRecipe

\* A step that begins is not past yet, and the one before it was.
LEMMA OwnBegin ==
  ASSUME TypeOK, OwnRecipe, NEW c \in Sends, NEW n \in Nat \ {0}, Begin(c, n),
         n \in 1..Len(Steps(c)), n = 1 \/ Past(c, n - 1), UNCHANGED <<loaded, started, brewed>>
  PROVE  OwnRecipe'
<1> USE DEF TypeOK, SendsOK, MachineOK
<1>1. /\ step' = [step EXCEPT ![c] = n] /\ took' = [took EXCEPT ![c] = FALSE]
      /\ \A d \in Sends \ {c} : call'[d] = call[d]
      /\ call'[c] \in {"awaiting", "done"}
  BY DEF Begin, End
<1>2. WithinSteps'
  BY <1>1 DEF OwnRecipe, WithinSteps
<1>3. OwnLoaded'
  <2> SUFFICES ASSUME NEW d \in Sends, Alone(d), NEW m \in 1..Len(Prepare),
                      Prepare[m] = "recipe", Past(d, m)'
               PROVE  loaded = d
    BY DEF OwnLoaded
  <2>1. Past(d, m)
    <3>1. CASE d = c
      BY <1>1, <3>1 DEF Past
    <3>2. CASE d # c
      BY <1>1, <3>2 DEF Past
    <3> QED BY <3>1, <3>2
  <2> QED BY <2>1 DEF OwnRecipe, OwnLoaded
<1>4. OwnStarted'
  BY DEF OwnRecipe, OwnStarted
<1> QED BY <1>2, <1>3, <1>4 DEF OwnRecipe

\* The machine takes a step.
LEMMA OwnTaken ==
  ASSUME TypeOK, OwnRecipe, NEW c \in Sends, MachineTakes(c)
  PROVE  OwnRecipe'
<1> USE DEF TypeOK, SendsOK, MachineOK
<1>1. /\ call[c] = "awaiting" /\ step[c] \in 1..Len(Steps(c))
      /\ UNCHANGED <<call, step>> /\ took' = [took EXCEPT ![c] = TRUE]
      /\ loaded' = IF Steps(c)[step[c]] = "recipe" THEN c ELSE loaded
  BY DEF MachineTakes, sendVars, OwnRecipe, WithinSteps
<1>2. WithinSteps'
  BY <1>1 DEF OwnRecipe, WithinSteps
<1>3. ASSUME NEW d \in Sends, d # c, Alone(d)
      PROVE  loaded' = loaded /\ UNCHANGED <<started, brewed>>
  <2>1. Steps(c) = <<"command">>
    BY <1>3, StepsOf DEF Alone
  <2>2. Steps(c)[step[c]] = "command"
    BY <1>1, <2>1
  <2> QED BY <1>1, <2>2 DEF MachineTakes
<1>4. OwnLoaded'
  <2> SUFFICES ASSUME NEW d \in Sends, Alone(d), NEW n \in 1..Len(Prepare),
                      Prepare[n] = "recipe", Past(d, n)'
               PROVE  loaded' = d
    BY DEF OwnLoaded
  <2>1. CASE d # c
    BY <1>1, <1>3, <2>1 DEF Past, OwnRecipe, OwnLoaded
  <2>2. CASE d = c /\ step[c] = n
    BY <1>1, <2>2, StepsOf DEF Alone
  <2>3. CASE d = c /\ step[c] # n
    BY <1>1, <2>3 DEF Past, OwnRecipe, OwnLoaded
  <2> QED BY <2>1, <2>2, <2>3
<1>5. OwnStarted'
  <2> SUFFICES ASSUME NEW d \in started', Alone(d) PROVE brewed'[d] = d
    BY DEF OwnStarted
  <2>0. d \in Sends
    BY DEF MachineTakes
  <2>1. CASE d # c
    BY <1>3, <2>0, <2>1 DEF OwnRecipe, OwnStarted
  <2>2. CASE d = c /\ Steps(c)[step[c]] = "execute"
    <3>0. Kind[c] = "brew" /\ Len(Prepare) \in Nat
      BY <2>2, StepsOf DEF Alone
    <3>1. step[c] = Len(Prepare) + 1
      <4>1. step[c] \in 1..(Len(Prepare) + 1)
        BY <1>1, <3>0, StepsOf
      <4>2. step[c] \notin 1..Len(Prepare)
        BY <2>2, <3>0, StepsOf
      <4> QED BY <3>0, <4>1, <4>2
    <3>2. PICK n \in 1..Len(Prepare) : Prepare[n] = "recipe"
      BY ListenerAssumption
    <3>3. Past(c, n)
      BY <3>0, <3>1 DEF Past
    <3>4. loaded = c
      BY <2>2, <3>2, <3>3 DEF OwnRecipe, OwnLoaded
    <3> QED BY <2>2, <3>4 DEF MachineTakes
  <2>3. CASE d = c /\ Steps(c)[step[c]] # "execute"
    BY <2>3 DEF MachineTakes, OwnRecipe, OwnStarted
  <2> QED BY <2>1, <2>2, <2>3
<1> QED BY <1>2, <1>4, <1>5 DEF OwnRecipe

\* A call that goes on settles after a step the machine took, or is done.
LEMMA OwnGoesOn ==
  ASSUME TypeOK, OwnRecipe, NEW c \in Sends, UNCHANGED <<step, machineVars>>,
         \/ /\ call' = [call EXCEPT ![c] = "settling"] /\ call[c] = "awaiting"
            /\ step[c] < Len(Steps(c)) /\ (Kind[c] = "live" \/ took[c])
         \/ call' = [call EXCEPT ![c] = "done"]
         \/ UNCHANGED call
  PROVE  OwnRecipe'
<1>1. WithinSteps'
  BY DEF TypeOK, SendsOK, machineVars, OwnRecipe, WithinSteps
<1>2. OwnLoaded' /\ OwnStarted'
  BY DEF machineVars, OwnRecipe, OwnLoaded, OwnStarted, Past
<1> QED BY <1>1, <1>2 DEF OwnRecipe

LEMMA OwnNext == TypeOK /\ OwnRecipe /\ [Next]_vars => OwnRecipe'
<1> SUFFICES ASSUME TypeOK, OwnRecipe, [Next]_vars PROVE OwnRecipe'
  OBVIOUS
<1>1. CASE UNCHANGED <<call, step, machineVars>>
  BY <1>1 DEF machineVars, OwnRecipe, WithinSteps, OwnLoaded, OwnStarted, Past
<1>2. ASSUME NEW c \in Sends, Send(c) PROVE OwnRecipe'
  <2>1. CASE CallSend(c)
    <3>1. 1 \in 1..Len(Steps(c))
      BY StepsOf
    <3> QED BY <2>1, <3>1, OwnBegin DEF CallSend
  <2>2. CASE NextStep(c)
    <3>1. step[c] \in Nat \ {0} /\ step[c] < Len(Steps(c)) /\ Len(Steps(c)) \in Nat
      BY <2>2, StepsOf DEF NextStep, OwnRecipe, WithinSteps, TypeOK, SendsOK
    <3>2. took[c]
      <4>1. ASSUME Kind[c] = "live" PROVE FALSE
        <5>1. Steps(c) = <<"command">>
          BY <4>1, StepsOf DEF Brewing
        <5>2. Len(Steps(c)) = 1
          BY <5>1
        <5> QED BY <3>1, <5>2
      <4>2. Kind[c] # "live"
        BY <4>1
      <4> QED BY <2>2, <4>2 DEF NextStep, OwnRecipe, WithinSteps
    <3>3. step[c] + 1 \in 1..Len(Steps(c)) /\ Past(c, (step[c] + 1) - 1)
      BY <3>1, <3>2 DEF Past
    <3> QED BY <2>2, <3>1, <3>3, OwnBegin DEF NextStep
  <2>3. CASE MachineTakes(c)
    BY <2>3, OwnTaken
  <2>4. CASE Accepted(c)
    BY <2>4, OwnGoesOn DEF Accepted, Advance, End
  <2>5. CASE Refused(c) \/ Unanswered(c) \/ WriteFails(c)
    BY <2>5, OwnGoesOn DEF Refused, Unanswered, EndUnanswered, WriteFails, End
  <2> QED BY <1>2, <2>1, <2>2, <2>3, <2>4, <2>5 DEF Send
<1>3. ASSUME NEW s \in Sessions, Start(s) \/ LinkDrops(s) \/ LinkDies(s) PROVE OwnRecipe'
  BY <1>1, <1>3 DEF Start, LinkDrops, LinkDies, sendVars
<1>4. ASSUME NEW s \in Sessions, Run(s) PROVE OwnRecipe'
  BY <1>1, <1>4 DEF Run, ResolveFinds, ResolveFails, SlowConnect, Connects, ConnectFails,
     Subscribes, Ready, Tick, IdleTick, Closes, NoticesCancel, sendVars
<1>5. ASSUME NEW k \in Stops, CallStop(k) \/ StopTimer(k) \/ StopReturns(k) PROVE OwnRecipe'
  BY <1>1, <1>5 DEF CallStop, StopTimer, StopReturns, sendVars
<1> QED BY <1>1, <1>2, <1>3, <1>4, <1>5 DEF Next, vars, sendVars

\* The execute of a send_brew starts the recipe that same call sent, whatever
\* sessions came and went between its steps, as long as no other call sends
\* recipes or starts them.
THEOREM OwnRecipeStarted == Spec => []StartsOwnRecipe
<1>1. OwnRecipe => StartsOwnRecipe
  BY DEF OwnRecipe, OwnStarted, StartsOwnRecipe, Alone
<1> QED BY <1>1, OwnInit, OwnNext, ListenerTypes, PTL DEF Spec
=============================================================================
