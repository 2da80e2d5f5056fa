------------------------- MODULE SendConfirmProofs --------------------------
(***************************************************************************)
(* What SendConfirm guarantees for every set of calls, every script, every *)
(* number of attempts and every machine that answers RESEND_MEANS_TAKEN    *)
(* only after taking the command.  The invariant follows a verdict on its  *)
(* whole way, from the machine through the notification queue, the loop's  *)
(* callback and the _Reply to the call that acts on it.                    *)
(*                                                                         *)
(* The last part assumes that the codes on one link tell the steps apart,  *)
(* which is what the client relies on: a reply carries nothing but a code. *)
(* Then the layer implements BrewContract, a call never loses its waiter,  *)
(* and the first answer to a command is the one that counts.               *)
(***************************************************************************)
EXTENDS SendConfirmRefines, TLAPS

-----------------------------------------------------------------------------
(* Queues *)

\* What the oldest element and the rest of a queue are.
LEMMA QueueTail ==
  ASSUME NEW S, NEW q \in Seq(S), q # << >>
  PROVE  /\ Len(q) \in Nat /\ Len(q) > 0
         /\ Head(q) = q[1] /\ Head(q) \in S
         /\ Tail(q) \in Seq(S)
         /\ Len(Tail(q)) = Len(q) - 1
         /\ \A k \in 1..Len(Tail(q)) : Tail(q)[k] = q[k + 1]
  OBVIOUS

\* What an append adds.
LEMMA QueueAppend ==
  ASSUME NEW S, NEW q \in Seq(S), NEW e \in S
  PROVE  /\ Append(q, e) \in Seq(S)
         /\ Len(Append(q, e)) = Len(q) + 1
         /\ \A k \in 1..Len(Append(q, e)) :
              Append(q, e)[k] = IF k = Len(q) + 1 THEN e ELSE q[k]
  OBVIOUS

\* An element of a concatenation is an element of one of its parts.
LEMMA QueueConcat ==
  ASSUME NEW S, NEW q \in Seq(S), NEW r \in Seq(S)
  PROVE  /\ q \o r \in Seq(S)
         /\ \A k \in 1..Len(q \o r) :
              \/ k \in 1..Len(q) /\ (q \o r)[k] = q[k]
              \/ k - Len(q) \in 1..Len(r) /\ (q \o r)[k] = r[k - Len(q)]
  OBVIOUS

-----------------------------------------------------------------------------
(* Slots *)

\* Every call has a step, and may write it at least once.
LEMMA CallFacts ==
  ASSUME NEW t \in Calls
  PROVE  /\ Script[t] \in Seq(Codes)
         /\ Len(Script[t]) \in Nat /\ Len(Script[t]) > 0
         /\ MaxAttempts[t] \in Nat /\ MaxAttempts[t] > 0
  <1>1. Script[t] \in Seq(Codes)
    BY CallsAssumption
  <1>2. Len(Script[t]) > 0
    BY CallsAssumption
  <1>3. MaxAttempts[t] \in Nat \ {0}
    BY CallsAssumption
  <1> QED
    BY <1>1, <1>2, <1>3

\* A slot is a call and one of its steps, and has a command code.
LEMMA SlotFacts ==
  ASSUME NEW s \in Slots
  PROVE  /\ s[1] \in Calls
         /\ s[2] \in 1..Len(Script[s[1]])
         /\ CodeOf(s) \in Codes
         /\ CodeOf(s) \in FrameCodes
  <1>1. PICK t \in Calls : s \in {t} \X (1..Len(Script[t]))
    BY DEF Slots
  <1>2. s[1] = t /\ s[2] \in 1..Len(Script[t])
    BY <1>1
  <1>3. Script[t] \in Seq(Codes)
    BY CallsAssumption
  <1> QED
    BY <1>2, <1>3 DEF CodeOf, FrameCodes

\* A call that is not past its last step has a slot.
LEMMA CurrentSlot ==
  ASSUME NEW t \in Calls, step[t] \in 1..Len(Script[t])
  PROVE  /\ Slot(t) \in Slots
         /\ Slot(t)[1] = t /\ Slot(t)[2] = step[t]
  BY DEF Slot, Slots

-----------------------------------------------------------------------------
(* Type correctness *)

\* A call that has not ended and is not between two steps is at one of them.
AtAStep ==
  \A t \in Calls : pc[t] \notin {"pausing", "done"} => step[t] <= Len(Script[t])

TypeInv == TypeOK /\ AtAStep

\* A call at a step has a slot for it.
LEMMA AtAStepFacts ==
  ASSUME TypeInv, NEW t \in Calls, pc[t] \notin {"pausing", "done"}
  PROVE  /\ step[t] \in 1..Len(Script[t])
         /\ step[t] \in Nat /\ Len(Script[t]) \in Nat
         /\ Slot(t) \in Slots
         /\ CodeOf(Slot(t)) \in Codes
  <1>1. step[t] <= Len(Script[t])
    BY DEF TypeInv, AtAStep
  <1>2. step \in [Calls -> Nat \ {0}]
    BY DEF TypeInv, TypeOK
  <1>3. step[t] \in Nat /\ step[t] # 0
    BY <1>2
  <1>4. Len(Script[t]) \in Nat
    BY CallFacts
  <1>5. step[t] \in 1..Len(Script[t])
    BY <1>1, <1>3, <1>4
  <1> QED
    BY <1>3, <1>4, <1>5, CurrentSlot, SlotFacts

\* The initial states are typed, and every call is at a step.
LEMMA InitTyped == Init => TypeInv
  <1> SUFFICES ASSUME Init PROVE TypeInv
    OBVIOUS
  <1> USE CallsAssumption, VerdictAssumption DEF Init
  <1>1. \A t \in Calls : /\ Len(Script[t]) \in Nat /\ Len(Script[t]) > 0
                          /\ MaxAttempts[t] \in Nat /\ MaxAttempts[t] > 0
    BY CallFacts
  <1>2. pc \in [Calls -> PCs] /\ outcome \in [Calls -> Outcomes \union {None}]
    BY DEF PCs
  <1>3. /\ step \in [Calls -> Nat \ {0}]
        /\ \A t \in Calls : step[t] <= Len(Script[t]) + 1
        /\ attempt \in [Calls -> Nat \ {0}]
        /\ \A t \in Calls : attempt[t] <= MaxAttempts[t]
        /\ AtAStep
    BY <1>1 DEF AtAStep
  <1>4. loopQ \in Seq(Callbacks) /\ air \in Seq(Slots) /\ notif \in Seq(Frames)
    OBVIOUS
  <1> QED
    BY <1>2, <1>3, <1>4 DEF TypeInv, TypeOK

\* The waiter, the attempt and the label of a call that enters write_confirmed.
LEMMA EnterTyped ==
  ASSUME TypeOK, NEW t \in Calls, step[t] <= Len(Script[t]), Enter(t)
  PROVE  /\ echoWaiters' \in [FrameCodes -> Slots \union {None}]
         /\ attempt' \in [Calls -> Nat \ {0}]
         /\ \A u \in Calls : attempt'[u] <= MaxAttempts[u]
         /\ pc' = [pc EXCEPT ![t] = "writing"] /\ pc' \in [Calls -> PCs]
  <1>1. step[t] \in 1..Len(Script[t])
    BY CallsAssumption DEF TypeOK
  <1>2. Slot(t) \in Slots /\ CodeOf(Slot(t)) \in FrameCodes
    BY <1>1, CurrentSlot, SlotFacts
  <1>3. attempt' = [attempt EXCEPT ![t] = 1]
    BY DEF Enter
  <1>4. /\ attempt' \in [Calls -> Nat \ {0}]
        /\ \A u \in Calls : attempt'[u] <= MaxAttempts[u]
    BY <1>3, CallFacts DEF TypeOK
  <1>5. echoWaiters' \in [FrameCodes -> Slots \union {None}]
    BY <1>2 DEF Enter, TypeOK
  <1>6. pc' = [pc EXCEPT ![t] = "writing"] /\ pc' \in [Calls -> PCs]
    BY DEF Enter, Goto, TypeOK, PCs, InStep
  <1> QED
    BY <1>4, <1>5, <1>6

\* Popping a waiter keeps the domain of the waiters.
LEMMA UnregisterTyped ==
  ASSUME TypeOK, NEW t \in Calls, Unregister(t)
  PROVE  echoWaiters' \in [FrameCodes -> Slots \union {None}]
  BY DEF TypeOK, Unregister

\* What _ensure_notify leads to.
LEMMA ProceedTyped ==
  ASSUME TypeInv, NEW t \in Calls, pc[t] \in {"subscribing", "settling"}, Proceed(t)
  PROVE  /\ echoWaiters' \in [FrameCodes -> Slots \union {None}]
         /\ attempt' \in [Calls -> Nat \ {0}]
         /\ \A u \in Calls : attempt'[u] <= MaxAttempts[u]
         /\ \E l \in PCs : pc' = [pc EXCEPT ![t] = l]
         /\ pc' \in [Calls -> PCs]
         /\ outcome' \in [Calls -> Outcomes \union {None}]
  <1>0. step[t] <= Len(Script[t])
    BY DEF TypeInv, AtAStep
  <1>1. CASE Enter(t) /\ UNCHANGED outcome
    BY <1>0, <1>1, EnterTyped DEF TypeInv, TypeOK, PCs, InStep
  <1>2. CASE Return(t, "unanswered") /\ UNCHANGED <<attempt, echoWaiters>>
    BY <1>2 DEF TypeInv, TypeOK, Return, Goto, PCs, Outcomes
  <1>3. CASE Goto(t, "degraded") /\ UNCHANGED <<attempt, outcome, echoWaiters>>
    BY <1>3 DEF TypeInv, TypeOK, Goto, PCs
  <1> QED
    BY <1>1, <1>2, <1>3 DEF Proceed

\* Steps of one call keep the types: each conjunct that the step can disturb.
LEMMA RunTyped ==
  ASSUME TypeInv, NEW t \in Calls, Call(t) \/ Run(t)
  PROVE  TypeInv'
  <1> USE CallFacts
  <1>1. CASE CallBrew(t)
    BY <1>1 DEF CallBrew, TypeInv, TypeOK, AtAStep, PCs, InStep, Outcomes, Goto, Return, trackVars, machineVars
  <1>2. CASE CallSend(t)
    <2>1. step[t] <= Len(Script[t])
      BY <1>2 DEF CallSend, TypeInv, AtAStep
    <2>2. CASE notifyActive /\ Enter(t)
      BY <1>2, <2>1, <2>2, EnterTyped DEF CallSend, TypeInv, TypeOK, AtAStep, PCs, InStep, Outcomes, Goto, Return, trackVars, machineVars
    <2>3. CASE Goto(t, "subscribing") /\ UNCHANGED <<attempt, echoWaiters>>
      BY <1>2, <2>3 DEF CallSend, TypeInv, TypeOK, AtAStep, PCs, InStep, Outcomes, Goto, Return, trackVars, machineVars
    <2> QED
      BY <1>2, <2>2, <2>3 DEF CallSend
  <1>3. CASE SubscribeOK(t)
    BY <1>3 DEF SubscribeOK, TypeInv, TypeOK, AtAStep, PCs, InStep, Outcomes, Goto, Return, trackVars, machineVars
  <1>4. CASE SubscribeFails(t)
    BY <1>4, ProceedTyped DEF SubscribeFails, TypeInv, TypeOK, AtAStep, PCs, InStep, Outcomes, Goto, Return, trackVars, machineVars
  <1>5. CASE Settled(t)
    BY <1>5, ProceedTyped DEF Settled, TypeInv, TypeOK, AtAStep, PCs, InStep, Outcomes, Goto, Return, trackVars, machineVars
  <1>6. CASE DegradedWrite(t)
    <2>1. Slot(t) \in Slots
      BY <1>6, AtAStepFacts DEF DegradedWrite
    <2>2. Append(air, Slot(t)) \in Seq(Slots)
      BY <2>1, QueueAppend DEF TypeInv, TypeOK
    <2> QED
      BY <1>6, <2>2 DEF DegradedWrite, TypeInv, TypeOK, AtAStep, PCs, InStep, Outcomes, Goto, Return, trackVars, machineVars
  <1>7. CASE Write(t)
    <2>1. Slot(t) \in Slots
      BY <1>7, AtAStepFacts DEF Write
    <2>2. Append(air, Slot(t)) \in Seq(Slots)
      BY <2>1, QueueAppend DEF TypeInv, TypeOK
    <2> QED
      BY <1>7, <2>2 DEF Write, TypeInv, TypeOK, AtAStep, PCs, InStep, Outcomes, Goto, Return, trackVars, machineVars
  <1>8. CASE WriteFails(t)
    BY <1>8, UnregisterTyped DEF WriteFails, TypeInv, TypeOK, AtAStep, PCs, InStep, Outcomes, Goto, Return, trackVars, machineVars
  <1>9. CASE Accept(t)
    <2>1. /\ step' \in [Calls -> Nat \ {0}]
          /\ \A u \in Calls : step'[u] <= Len(Script[u]) + 1
      <3>1. step[t] <= Len(Script[t]) /\ step[t] \in Nat /\ Len(Script[t]) \in Nat
        BY <1>9, AtAStepFacts DEF Accept
      <3>2. /\ step \in [Calls -> Nat \ {0}]
            /\ \A u \in Calls : step[u] <= Len(Script[u]) + 1
        BY DEF TypeInv, TypeOK
      <3>3. step' = [step EXCEPT ![t] = step[t] + 1]
        BY <1>9 DEF Accept
      <3>4. step[t] + 1 \in Nat \ {0} /\ step[t] + 1 <= Len(Script[t]) + 1
        BY <3>1
      <3> QED
        BY <3>2, <3>3, <3>4
    <2>2. /\ pc' \in [Calls -> PCs] /\ outcome' \in [Calls -> Outcomes \union {None}]
          /\ pc'[t] \in {"pausing", "done"}
          /\ \A u \in Calls : u # t => pc'[u] = pc[u] /\ step'[u] = step[u]
      BY <1>9 DEF Accept, TypeInv, TypeOK, PCs, Outcomes, Goto, Return
    <2>3. AtAStep'
      BY <2>2 DEF TypeInv, AtAStep
    <2> QED
      BY <1>9, <2>1, <2>2, <2>3, UnregisterTyped
      DEF Accept, TypeInv, TypeOK, trackVars, machineVars
  <1>10. CASE Refused(t)
    BY <1>10, UnregisterTyped DEF Refused, TypeInv, TypeOK, AtAStep, PCs, InStep, Outcomes, Goto, Return, trackVars, machineVars
  <1>11. CASE TimerFires(t)
    BY <1>11 DEF TimerFires, TypeInv, TypeOK, AtAStep, PCs, InStep, Outcomes, Goto, Return, trackVars, machineVars
  <1>12. CASE Retry(t)
    BY <1>12 DEF Retry, CanRetry, TypeInv, TypeOK, AtAStep, PCs, InStep, Outcomes, Goto, Return, trackVars, machineVars
  <1>13. CASE GiveUp(t)
    BY <1>13, UnregisterTyped DEF GiveUp, TypeInv, TypeOK, AtAStep, PCs, InStep, Outcomes, Goto, Return, trackVars, machineVars
  <1>14. CASE NextStep(t)
    <2>1. CASE step[t] <= Len(Script[t]) /\ Enter(t) /\ UNCHANGED outcome
      BY <1>14, <2>1, EnterTyped DEF NextStep, TypeInv, TypeOK, AtAStep, PCs, InStep, Outcomes, Goto, Return, trackVars, machineVars
    <2>2. CASE Return(t, IF link THEN "sent" ELSE "raised") /\ UNCHANGED <<attempt, echoWaiters>>
      BY <1>14, <2>2 DEF NextStep, TypeInv, TypeOK, AtAStep, PCs, InStep, Outcomes, Goto, Return, trackVars, machineVars
    <2> QED
      BY <1>14, <2>1, <2>2 DEF NextStep
  <1> QED
    BY <1>1, <1>2, <1>3, <1>4, <1>5, <1>6, <1>7, <1>8, <1>9, <1>10, <1>11, <1>12, <1>13, <1>14
    DEF Call, Run, Subscribing, InWriteConfirmed

\* The notification thread and the loop's callback keep the types.
LEMMA ReplyTyped ==
  ASSUME TypeInv, NoteReply \/ RunCallback
  PROVE  TypeInv'
  <1>1. CASE NoteReply
    <2>1. Head(notif) \in Frames /\ Tail(notif) \in Seq(Frames)
      BY <1>1, QueueTail DEF NoteReply, TypeInv, TypeOK
    <2>2. loopQ' \in Seq(Callbacks)
      <3>1. CASE echoWaiters[Head(notif).code] = None
        BY <1>1, <3>1 DEF NoteReply, TypeInv, TypeOK
      <3>2. CASE echoWaiters[Head(notif).code] # None
        <4> DEFINE cb == [slot |-> echoWaiters[Head(notif).code], verdict |-> Head(notif).verdict]
        <4>1. cb \in Callbacks
          BY <2>1, <3>2 DEF Callbacks, Frames, TypeInv, TypeOK
        <4>2. loopQ' = Append(loopQ, cb)
          BY <1>1, <3>2 DEF NoteReply
        <4> QED
          BY <4>1, <4>2, QueueAppend DEF TypeInv, TypeOK
      <3> QED
        BY <3>1, <3>2
    <2>3. sleeping' \in BOOLEAN
      BY <1>1 DEF NoteReply, TypeInv, TypeOK
    <2> QED
      BY <1>1, <2>1, <2>2, <2>3
      DEF NoteReply, TypeInv, TypeOK, AtAStep, clientVars, machineVars
  <1>2. CASE RunCallback
    <2>1. Head(loopQ) \in Callbacks /\ Tail(loopQ) \in Seq(Callbacks)
      BY <1>2, QueueTail DEF RunCallback, TypeInv, TypeOK
    <2>2. answers' \in [Slots -> Verdicts \union {None}]
      BY <1>2, <2>1 DEF RunCallback, Callbacks, Answered, TypeInv, TypeOK
    <2> QED
      BY <1>2, <2>1, <2>2 DEF RunCallback, TypeInv, TypeOK, AtAStep, machineVars
  <1> QED
    BY <1>1, <1>2

\* What the machine emits is a queue of frames.
LEMMA EmitTyped ==
  ASSUME TypeInv, NEW fs \in Seq(Frames), Emit(fs)
  PROVE  notif' \in Seq(Frames)
  BY QueueConcat DEF Emit, TypeInv, TypeOK

\* The machine and the link keep the types.
LEMMA EnvironmentTyped ==
  ASSUME TypeInv, Environment
  PROVE  TypeInv'
  <1> USE VerdictAssumption
  <1>1. \A c \in FrameCodes, v \in Verdicts : Frame(c, v) \in Frames
    BY DEF Frame, Frames
  <1>2. OK \in Verdicts /\ Awake \in FrameCodes /\ Sleeping \in FrameCodes
    BY DEF Verdicts, FrameCodes
  <1>3. ASSUME air # << >>
        PROVE  /\ Tail(air) \in Seq(Slots)
               /\ CodeOf(Head(air)) \in Codes /\ CodeOf(Head(air)) \in FrameCodes
    BY <1>3, QueueTail, SlotFacts DEF TypeInv, TypeOK
  <1>4. CASE MachineTakes
    <2> DEFINE c == CodeOf(Head(air))
               fs == IF asleep THEN <<Frame(Awake, OK), Frame(c, OK)>> ELSE <<Frame(c, OK)>>
    <2>1. c \in Codes /\ fs \in Seq(Frames)
      BY <1>1, <1>2, <1>3, <1>4 DEF MachineTakes
    <2>2. Emit(fs) /\ firstVerdict' = [firstVerdict EXCEPT ![c] = IF @ = None THEN OK ELSE @]
      BY <1>4 DEF MachineTakes, Reply
    <2>3. notif' \in Seq(Frames)
      BY <2>1, <2>2, EmitTyped
    <2>4. firstVerdict' \in [Codes -> Verdicts \union {None}]
      BY <1>2, <2>1, <2>2 DEF TypeInv, TypeOK
    <2>5. taken' \in [Codes -> Nat]
      BY <1>4, <2>1 DEF MachineTakes, TypeInv, TypeOK
    <2> QED
      BY <1>3, <1>4, <2>3, <2>4, <2>5
      DEF MachineTakes, TypeInv, TypeOK, AtAStep, clientVars, trackVars
  <1>5. CASE MachineRefuses
    <2> DEFINE c == CodeOf(Head(air))
    <2>1. PICK r \in Refusals : Reply(c, r, <<Frame(c, r)>>)
      BY <1>5 DEF MachineRefuses
    <2>2. c \in Codes /\ r \in Verdicts /\ <<Frame(c, r)>> \in Seq(Frames)
      BY <1>1, <1>3, <1>5 DEF MachineRefuses, Verdicts
    <2>3. notif' \in Seq(Frames)
      BY <2>1, <2>2, EmitTyped DEF Reply
    <2>4. firstVerdict' \in [Codes -> Verdicts \union {None}]
      BY <2>1, <2>2 DEF Reply, TypeInv, TypeOK
    <2> QED
      BY <1>3, <1>5, <2>3, <2>4
      DEF MachineRefuses, TypeInv, TypeOK, AtAStep, clientVars, trackVars
  <1>6. CASE MachineMisses
    <2>1. <<Frame(Awake, OK)>> \in Seq(Frames)
      BY <1>1, <1>2
    <2>2. notif' \in Seq(Frames) /\ asleep' \in BOOLEAN
      BY <1>6, <2>1, EmitTyped DEF MachineMisses, TypeInv, TypeOK
    <2> QED
      BY <1>3, <1>6, <2>2 DEF MachineMisses, TypeInv, TypeOK, AtAStep, clientVars, trackVars
  <1>7. CASE MachineSleeps
    <2>1. <<Frame(Sleeping, OK)>> \in Seq(Frames)
      BY <1>1, <1>2
    <2>2. notif' \in Seq(Frames)
      BY <1>7, <2>1, EmitTyped DEF MachineSleeps
    <2> QED
      BY <1>7, <2>2 DEF MachineSleeps, TypeInv, TypeOK, AtAStep, clientVars, trackVars
  <1>8. CASE MachineWakes
    <2>1. <<Frame(Awake, OK)>> \in Seq(Frames)
      BY <1>1, <1>2
    <2>2. notif' \in Seq(Frames)
      BY <1>8, <2>1, EmitTyped DEF MachineWakes
    <2> QED
      BY <1>8, <2>2 DEF MachineWakes, TypeInv, TypeOK, AtAStep, clientVars, trackVars
  <1>9. CASE LinkDrops
    <2>1. air' \in Seq(Slots) /\ notif' \in Seq(Frames)
      BY <1>9 DEF LinkDrops
    <2> QED
      BY <1>9, <2>1 DEF LinkDrops, TypeInv, TypeOK, AtAStep, clientVars, trackVars, machineVars
  <1> QED
    BY <1>4, <1>5, <1>6, <1>7, <1>8, <1>9 DEF Environment

\* Every step of the system, and a stutter, keeps the types.
LEMMA TypedStep == TypeInv /\ [Next]_vars => TypeInv'
  <1>1. ASSUME TypeInv, UNCHANGED vars
        PROVE  TypeInv'
    BY <1>1 DEF vars, clientVars, trackVars, machineVars, TypeInv, TypeOK, AtAStep
  <1> QED
    BY <1>1, RunTyped, ReplyTyped, EnvironmentTyped DEF Next

\* Every variable of the send-and-confirm layer stays in its domain, for any
\* set of calls: no call goes past its last step, none writes a step more than
\* max_attempts times, and every callback names a step of a call.
THEOREM TypeCorrect == Spec => []TypeOK
  <1>1. TypeInv => TypeOK
    BY DEF TypeInv
  <1> QED
    BY <1>1, InitTyped, TypedStep, PTL DEF Spec

-----------------------------------------------------------------------------
(* What a verdict proves *)

\* The verdicts that can count as acceptance, and what one of them on code c
\* has to say: the machine took a copy of c.
Favourable == ResendMeansTaken \union {OK}
Truthful(c, v) == v \in Favourable => taken[c] > 0

\* Every verdict on its way is truthful: on the air, handed to the loop, and in
\* the _Reply; and an answer is only ever routed to a step with its code.
RoutedByCode ==
  \A c \in FrameCodes : echoWaiters[c] # None => CodeOf(echoWaiters[c]) = c
TruthfulNotif ==
  \A k \in 1..Len(notif) :
    notif[k].code \in Codes => Truthful(notif[k].code, notif[k].verdict)
TruthfulLoopQ ==
  \A k \in 1..Len(loopQ) : Truthful(CodeOf(loopQ[k].slot), loopQ[k].verdict)
TruthfulAnswers ==
  \A s \in Slots : answers[s] # None => Truthful(CodeOf(s), answers[s])

Inv ==
  /\ TypeInv
  /\ RoutedByCode /\ TruthfulNotif /\ TruthfulLoopQ /\ TruthfulAnswers
  /\ AcceptedMeansTaken /\ SentInOrder

\* The inductive invariant holds before anything was sent.
LEMMA InitInv == Init => Inv
  <1> SUFFICES ASSUME Init PROVE Inv
    OBVIOUS
  <1>1. TypeInv
    BY InitTyped
  <1>2. RoutedByCode /\ TruthfulAnswers
    BY DEF Init, RoutedByCode, TruthfulAnswers
  <1>3. Len(notif) = 0 /\ Len(loopQ) = 0 /\ Len(air) = 0
    BY DEF Init
  <1>4. TruthfulNotif /\ TruthfulLoopQ /\ SentInOrder
    BY <1>3 DEF TruthfulNotif, TruthfulLoopQ, SentInOrder
  <1>5. AcceptedMeansTaken
    BY DEF Init, AcceptedMeansTaken
  <1> QED
    BY <1>1, <1>2, <1>4, <1>5 DEF Inv

\* The invariant but for its types, when no copy is un-taken: what a step has
\* to show about the variables it changes.
LEMMA TakenGrows ==
  ASSUME Inv, TypeInv', \A c \in Codes : taken'[c] >= taken[c]
  PROVE  /\ UNCHANGED echoWaiters => RoutedByCode'
         /\ UNCHANGED notif => TruthfulNotif'
         /\ UNCHANGED loopQ => TruthfulLoopQ'
         /\ UNCHANGED answers => TruthfulAnswers'
         /\ UNCHANGED step => AcceptedMeansTaken'
         /\ UNCHANGED air => SentInOrder'
         /\ \A c \in Codes : taken[c] > 0 => taken'[c] > 0
  <1>1. \A c \in Codes : taken[c] \in Nat /\ taken'[c] \in Nat
    BY DEF Inv, TypeInv, TypeOK
  <1>2. \A c \in Codes : taken[c] > 0 => taken'[c] > 0
    BY <1>1
  <1>4. UNCHANGED echoWaiters => RoutedByCode'
    BY DEF Inv, RoutedByCode, CodeOf
  <1>5. UNCHANGED notif => TruthfulNotif'
    BY <1>2 DEF Inv, TruthfulNotif, Truthful
  <1>6. UNCHANGED loopQ => TruthfulLoopQ'
    <2> SUFFICES ASSUME UNCHANGED loopQ, NEW k \in 1..Len(loopQ)
                 PROVE  Truthful(CodeOf(loopQ[k].slot), loopQ[k].verdict)'
      BY DEF TruthfulLoopQ
    <2>0. loopQ[k] \in Callbacks
      BY DEF Inv, TypeInv, TypeOK
    <2>1. loopQ[k].slot \in Slots
      BY <2>0 DEF Callbacks
    <2>2. CodeOf(loopQ[k].slot) \in Codes
      BY <2>1, SlotFacts
    <2> QED
      BY <1>2, <2>2 DEF Inv, TruthfulLoopQ, Truthful, CodeOf
  <1>7. UNCHANGED answers => TruthfulAnswers'
    BY <1>2, SlotFacts DEF Inv, TruthfulAnswers, Truthful
  <1>8. \A t \in Calls : \A i \in 1..Len(Script[t]) : Script[t][i] \in Codes
    BY CallFacts
  <1>9. UNCHANGED step => AcceptedMeansTaken'
    BY <1>2, <1>8 DEF Inv, AcceptedMeansTaken
  <1>10. UNCHANGED air => SentInOrder'
    <2>1. \A k \in 1..Len(air) : air[k][1] \in Calls
      BY SlotFacts DEF Inv, TypeInv, TypeOK
    <2> QED
      BY <1>2, <1>8, <2>1 DEF Inv, SentInOrder
  <1> QED
    BY <1>2, <1>4, <1>5, <1>6, <1>7, <1>9, <1>10

\* A verdict that counts as acceptance is a favourable one.
LEMMA MeansTakenFavourable ==
  ASSUME NEW n, NEW v, MeansTaken(n, v)
  PROVE  v \in Favourable
  BY DEF MeansTaken, Favourable

\* Entering write_confirmed and leaving it keep the routing.
LEMMA EnterRouted ==
  ASSUME TypeInv, RoutedByCode, NEW t \in Calls, step[t] <= Len(Script[t]), Enter(t)
  PROVE  RoutedByCode'
  BY DEF Enter, TypeInv, TypeOK, RoutedByCode, CodeOf

\* So does popping a waiter.
LEMMA UnregisterRouted ==
  ASSUME TypeInv, RoutedByCode, NEW t \in Calls, Unregister(t)
  PROVE  RoutedByCode'
  BY DEF Unregister, TypeInv, TypeOK, RoutedByCode, CodeOf

\* The frame of a call's current step follows only steps that were taken.
LEMMA WriteInOrder ==
  ASSUME Inv, NEW t \in Calls, pc[t] \notin {"pausing", "done"},
         air' = Append(air, Slot(t)), UNCHANGED taken
  PROVE  SentInOrder'
  <1>1. Slot(t) \in Slots /\ Slot(t)[1] = t /\ Slot(t)[2] = step[t]
    BY AtAStepFacts, CurrentSlot DEF Inv
  <1>2. air \in Seq(Slots)
    BY DEF Inv, TypeInv, TypeOK
  <1>3. SUFFICES ASSUME NEW k \in 1..Len(air'), NEW i \in 1..Len(Script[air'[k][1]]),
                        i < air'[k][2]
                 PROVE  taken[Script[air'[k][1]][i]] > 0
    BY DEF SentInOrder
  <1>4. CASE k = Len(air) + 1
    <2>1. air'[k] = Slot(t)
      BY <1>1, <1>2, <1>4, QueueAppend
    <2> QED
      BY <1>1, <1>3, <2>1 DEF Inv, AcceptedMeansTaken
  <1>5. CASE k # Len(air) + 1
    <2>1. k \in 1..Len(air) /\ air'[k] = air[k]
      BY <1>1, <1>2, <1>5, QueueAppend
    <2> QED
      BY <1>3, <2>1 DEF Inv, SentInOrder
  <1> QED
    BY <1>4, <1>5

\* Taking the oldest frame off the air leaves the others in order.
LEMMA TailInOrder ==
  ASSUME Inv, air # << >>, air' = Tail(air), \A c \in Codes : taken[c] > 0 => taken'[c] > 0
  PROVE  SentInOrder'
  <1>1. air \in Seq(Slots)
    BY DEF Inv, TypeInv, TypeOK
  <1>2. SUFFICES ASSUME NEW k \in 1..Len(air'), NEW i \in 1..Len(Script[air'[k][1]]),
                        i < air'[k][2]
                 PROVE  taken'[Script[air'[k][1]][i]] > 0
    BY DEF SentInOrder
  <1>3. air'[k] = air[k + 1] /\ k + 1 \in 1..Len(air)
    BY <1>1, QueueTail
  <1>4. air[k + 1] \in Slots
    BY <1>1, <1>3
  <1>5. Script[air'[k][1]][i] \in Codes
    BY <1>3, <1>4, SlotFacts, CallFacts
  <1> QED
    BY <1>2, <1>3, <1>5 DEF Inv, SentInOrder

\* What the machine emits is truthful when each frame of it is.
LEMMA EmitTruthful ==
  ASSUME Inv, NEW fs \in Seq(Frames), Emit(fs),
         \A c \in Codes : taken[c] > 0 => taken'[c] > 0,
         \A k \in 1..Len(fs) :
           fs[k].code \in Codes /\ fs[k].verdict \in Favourable => taken'[fs[k].code] > 0
  PROVE  TruthfulNotif'
  <1>1. notif \in Seq(Frames)
    BY DEF Inv, TypeInv, TypeOK
  <1>2. CASE subscribed
    <2>1. notif' = notif \o fs
      BY <1>2 DEF Emit
    <2>2. SUFFICES ASSUME NEW k \in 1..Len(notif'), notif'[k].code \in Codes,
                          notif'[k].verdict \in Favourable
                   PROVE  taken'[notif'[k].code] > 0
      BY DEF TruthfulNotif, Truthful
    <2>3. CASE k \in 1..Len(notif) /\ notif'[k] = notif[k]
      BY <2>2, <2>3 DEF Inv, TruthfulNotif, Truthful
    <2>4. CASE k - Len(notif) \in 1..Len(fs) /\ notif'[k] = fs[k - Len(notif)]
      BY <2>2, <2>4
    <2> QED
      BY <1>1, <2>1, <2>3, <2>4, QueueConcat
  <1>3. CASE ~subscribed
    BY <1>3 DEF Emit, Inv, TruthfulNotif, Truthful
  <1> QED
    BY <1>2, <1>3

\* A step of a call keeps the invariant: the machine's view does not change, so
\* only what the step writes, registers or accepts has to be looked at.
LEMMA RunInv ==
  ASSUME Inv, TypeInv', NEW t \in Calls, Call(t) \/ Run(t)
  PROVE  Inv'
  <1>1. UNCHANGED <<notif, loopQ, answers, taken>>
    BY DEF Call, Run, Subscribing, InWriteConfirmed, CallBrew, CallSend, SubscribeOK,
       SubscribeFails, Settled, DegradedWrite, Write, WriteFails, Accept, Refused, TimerFires,
       Retry, GiveUp, NextStep, trackVars, machineVars
  <1>2. \A c \in Codes : taken'[c] >= taken[c]
    BY <1>1 DEF Inv, TypeInv, TypeOK
  <1>3. TruthfulNotif' /\ TruthfulLoopQ' /\ TruthfulAnswers'
    BY <1>1, <1>2, TakenGrows
  <1>4. Accept(t) \/ UNCHANGED step
    BY DEF Call, Run, Subscribing, InWriteConfirmed, CallBrew, CallSend, SubscribeOK,
       SubscribeFails, Settled, DegradedWrite, Write, WriteFails, Refused, TimerFires, Retry,
       GiveUp, NextStep
  <1>5. RoutedByCode'
    <2>1. CASE Enter(t)
      <3>1. pc'[t] = "writing"
        BY <2>1 DEF Enter, Goto, Inv, TypeInv, TypeOK
      <3>2. ~Accept(t)
        BY <3>1 DEF Accept, Goto, Return, Inv, TypeInv, TypeOK
      <3>3. step[t] <= Len(Script[t])
        BY <1>4, <3>1, <3>2 DEF TypeInv, AtAStep
      <3> QED
        BY <2>1, <3>3, EnterRouted DEF Inv
    <2>2. CASE Unregister(t)
      BY <2>2, UnregisterRouted DEF Inv
    <2>3. CASE UNCHANGED echoWaiters
      BY <1>2, <2>3, TakenGrows
    <2> QED
      BY <2>1, <2>2, <2>3 DEF Call, Run, Subscribing, InWriteConfirmed, CallBrew, CallSend,
         SubscribeOK, SubscribeFails, Settled, DegradedWrite, Write, WriteFails, Accept, Refused,
         TimerFires, Retry, GiveUp, NextStep, Proceed
  <1>6. SentInOrder'
    <2>1. CASE DegradedWrite(t) \/ Write(t)
      <3>1. CASE air' = Append(air, Slot(t))
        BY <1>1, <2>1, <3>1, WriteInOrder DEF DegradedWrite, Write
      <3>2. CASE UNCHANGED air
        BY <1>2, <3>2, TakenGrows
      <3> QED
        BY <2>1, <3>1, <3>2 DEF DegradedWrite, Write
    <2>2. CASE ~(DegradedWrite(t) \/ Write(t))
      <3>1. UNCHANGED air
        BY <2>2 DEF Call, Run, Subscribing, InWriteConfirmed, CallBrew, CallSend, SubscribeOK,
           SubscribeFails, Settled, WriteFails, Accept, Refused, TimerFires, Retry, GiveUp,
           NextStep
      <3> QED
        BY <1>2, <3>1, TakenGrows
    <2> QED
      BY <2>1, <2>2
  <1>7. AcceptedMeansTaken'
    <2>1. CASE Accept(t)
      <3>1. Slot(t) \in Slots /\ step[t] \in Nat /\ CodeOf(Slot(t)) = Script[t][step[t]]
        BY <2>1, AtAStepFacts DEF Accept, Inv, CodeOf, Slot
      <3>2. taken[Script[t][step[t]]] > 0
        BY <2>1, <3>1, MeansTakenFavourable DEF Accept, Inv, TruthfulAnswers, Truthful
      <3>3. /\ \A u \in Calls : u # t => step'[u] = step[u]
            /\ step'[t] = step[t] + 1
        BY <2>1 DEF Accept, Inv, TypeInv, TypeOK
      <3>4. \A i \in 1..Len(Script[t]) : i < step[t] + 1 => i < step[t] \/ i = step[t]
        BY <3>1
      <3> QED
        BY <1>1, <3>2, <3>3, <3>4 DEF Inv, AcceptedMeansTaken
    <2>2. CASE ~Accept(t)
      BY <1>2, <1>4, <2>2, TakenGrows
    <2> QED
      BY <2>1, <2>2
  <1> QED
    BY <1>3, <1>5, <1>6, <1>7 DEF Inv

\* A verdict reaching a _Reply by way of note_reply and the loop stays truthful.
LEMMA ReplyInv ==
  ASSUME Inv, TypeInv', NoteReply \/ RunCallback
  PROVE  Inv'
  <1>1. UNCHANGED <<step, echoWaiters, air, taken>>
    BY DEF NoteReply, RunCallback, clientVars, machineVars
  <1>2. \A c \in Codes : taken'[c] >= taken[c]
    BY <1>1 DEF Inv, TypeInv, TypeOK
  <1>3. RoutedByCode' /\ AcceptedMeansTaken' /\ SentInOrder'
    BY <1>1, <1>2, TakenGrows
  <1>4. TruthfulNotif'
    <2>1. CASE NoteReply
      <3>1. notif' = Tail(notif) /\ notif \in Seq(Frames) /\ notif # << >>
        BY <2>1 DEF NoteReply, Inv, TypeInv, TypeOK
      <3>2. \A k \in 1..Len(notif') : k + 1 \in 1..Len(notif) /\ notif'[k] = notif[k + 1]
        BY <3>1, QueueTail
      <3> QED
        BY <1>1, <3>2 DEF Inv, TruthfulNotif, Truthful
    <2>2. CASE RunCallback
      BY <1>2, <2>2, TakenGrows DEF RunCallback
    <2> QED
      BY <2>1, <2>2
  <1>5. TruthfulLoopQ'
    <2>1. CASE NoteReply
      <3> DEFINE f == Head(notif)
                 cb == [slot |-> echoWaiters[f.code], verdict |-> f.verdict]
      <3>1. CASE echoWaiters[f.code] = None
        BY <1>2, <2>1, <3>1, TakenGrows DEF NoteReply
      <3>2. CASE echoWaiters[f.code] # None
        <4>1. f = notif[1] /\ 1 \in 1..Len(notif) /\ f \in Frames
          BY <2>1, QueueTail DEF NoteReply, Inv, TypeInv, TypeOK
        <4>2. cb.slot \in Slots /\ CodeOf(cb.slot) = f.code /\ cb.verdict \in Verdicts
          BY <3>2, <4>1 DEF Frames, Inv, TypeInv, TypeOK, RoutedByCode
        <4>3. Truthful(CodeOf(cb.slot), cb.verdict)
          BY <4>1, <4>2, SlotFacts DEF Inv, TruthfulNotif
        <4>4. cb \in Callbacks /\ loopQ' = Append(loopQ, cb) /\ loopQ \in Seq(Callbacks)
          BY <2>1, <3>2, <4>2 DEF Callbacks, NoteReply, Inv, TypeInv, TypeOK
        <4>5. \A k \in 1..Len(loopQ') :
                loopQ'[k] = cb \/ (k \in 1..Len(loopQ) /\ loopQ'[k] = loopQ[k])
          <5> HIDE DEF cb
          <5>1. /\ Len(loopQ) \in Nat /\ Len(loopQ') = Len(loopQ) + 1
                /\ \A k \in 1..Len(loopQ') :
                     loopQ'[k] = IF k = Len(loopQ) + 1 THEN cb ELSE loopQ[k]
            BY <4>4, QueueAppend
          <5> QED
            BY <5>1
        <4> HIDE DEF cb
        <4> QED
          BY <1>1, <4>3, <4>5 DEF Inv, TruthfulLoopQ, Truthful, CodeOf
      <3> QED
        BY <3>1, <3>2
    <2>2. CASE RunCallback
      <3>1. loopQ' = Tail(loopQ) /\ loopQ \in Seq(Callbacks) /\ loopQ # << >>
        BY <2>2 DEF RunCallback, Inv, TypeInv, TypeOK
      <3>2. \A k \in 1..Len(loopQ') : k + 1 \in 1..Len(loopQ) /\ loopQ'[k] = loopQ[k + 1]
        BY <3>1, QueueTail
      <3> QED
        BY <1>1, <3>2 DEF Inv, TruthfulLoopQ, Truthful, CodeOf
    <2> QED
      BY <2>1, <2>2
  <1>6. TruthfulAnswers'
    <2>1. CASE NoteReply
      BY <1>2, <2>1, TakenGrows DEF NoteReply, clientVars
    <2>2. CASE RunCallback
      <3>1. /\ Head(loopQ) \in Callbacks
            /\ Truthful(CodeOf(Head(loopQ).slot), Head(loopQ).verdict)
        <4>1. Head(loopQ) = loopQ[1] /\ 1 \in 1..Len(loopQ) /\ Head(loopQ) \in Callbacks
          BY <2>2, QueueTail DEF RunCallback, Inv, TypeInv, TypeOK
        <4> QED
          BY <4>1 DEF Inv, TruthfulLoopQ
      <3>2. \A s \in Slots : answers'[s] = answers[s] \/
              (s = Head(loopQ).slot /\ answers'[s] = Head(loopQ).verdict)
        <4> DEFINE cb == Head(loopQ)
        <4>1. cb.slot \in Slots
          BY <3>1 DEF Callbacks
        <4>2. answers' = [answers EXCEPT ![cb.slot] =
                            IF answers[cb.slot] = None THEN cb.verdict ELSE answers[cb.slot]]
          BY <2>2 DEF RunCallback, Answered
        <4>3. answers \in [Slots -> Verdicts \union {None}]
          BY DEF Inv, TypeInv, TypeOK
        <4> HIDE DEF cb
        <4>4. \A s \in Slots : answers'[s] = answers[s] \/
                (s = cb.slot /\ answers'[s] = cb.verdict)
          BY <4>1, <4>2, <4>3
        <4> QED
          BY <4>4 DEF cb
      <3> QED
        BY <1>1, <3>1, <3>2 DEF Inv, TruthfulAnswers, Truthful
    <2> QED
      BY <2>1, <2>2
  <1> QED
    BY <1>3, <1>4, <1>5, <1>6 DEF Inv

\* The machine's steps keep the invariant when it does not claim to be busy with
\* a command it never took.
LEMMA EnvironmentInv ==
  ASSUME ~BusyElsewhere, Inv, TypeInv', Environment
  PROVE  Inv'
  <1> USE VerdictAssumption, NoticeAssumption
  <1>1. UNCHANGED <<step, echoWaiters, loopQ, answers>>
    BY DEF Environment, MachineTakes, MachineRefuses, MachineMisses, MachineSleeps, MachineWakes,
       LinkDrops, clientVars, trackVars
  <1>2. \A c \in Codes : taken[c] \in Nat /\ taken'[c] \in Nat
    BY DEF Inv, TypeInv, TypeOK
  <1>3. \A c \in Codes : taken'[c] >= taken[c]
    <2>1. CASE MachineTakes
      <3> DEFINE d == CodeOf(Head(air))
      <3>1. taken' = [taken EXCEPT ![d] = taken[d] + 1] /\ taken \in [Codes -> Nat]
        BY <2>1 DEF MachineTakes, Inv, TypeInv, TypeOK
      <3> HIDE DEF d
      <3> QED
        BY <3>1
    <2>2. CASE UNCHANGED taken
      BY <1>2, <2>2
    <2> QED
      BY <2>1, <2>2 DEF Environment, MachineRefuses, MachineMisses, MachineSleeps, MachineWakes,
         LinkDrops, machineVars
  <1>4. \A c \in Codes : taken[c] > 0 => taken'[c] > 0
    BY <1>2, <1>3
  <1>5. /\ RoutedByCode' /\ TruthfulLoopQ' /\ TruthfulAnswers' /\ AcceptedMeansTaken'
        /\ UNCHANGED air => SentInOrder'
        /\ UNCHANGED notif => TruthfulNotif'
    BY <1>1, <1>3, TakenGrows
  <1>6. SentInOrder'
    <2>1. CASE air # << >> /\ air' = Tail(air)
      BY <1>4, <2>1, TailInOrder
    <2>2. CASE LinkDrops
      <3>1. Len(air') = 0
        BY <2>2 DEF LinkDrops
      <3> QED
        BY <3>1 DEF SentInOrder
    <2>3. CASE UNCHANGED air
      BY <1>5, <2>3
    <2> QED
      BY <2>1, <2>2, <2>3 DEF Environment, MachineTakes, MachineRefuses, MachineMisses,
         MachineSleeps, MachineWakes
  <1>7. \A c \in FrameCodes, v \in Verdicts :
          /\ Frame(c, v) \in Frames
          /\ Frame(c, v).code = c /\ Frame(c, v).verdict = v
    BY DEF Frame, Frames
  <1>8. /\ OK \in Verdicts /\ Awake \in FrameCodes /\ Sleeping \in FrameCodes
        /\ Frame(Awake, OK).code \notin Codes /\ Frame(Sleeping, OK).code \notin Codes
    BY DEF Verdicts, FrameCodes, Frame
  <1>9. TruthfulNotif'
    <2>1. CASE MachineTakes
      <3> DEFINE c == CodeOf(Head(air))
                 fs == IF asleep THEN <<Frame(Awake, OK), Frame(c, OK)>> ELSE <<Frame(c, OK)>>
      <3>1. c \in Codes /\ c \in FrameCodes
        BY <2>1, QueueTail, SlotFacts DEF MachineTakes, Inv, TypeInv, TypeOK
      <3>2. taken'[c] > 0
        BY <2>1, <3>1 DEF MachineTakes, Inv, TypeInv, TypeOK
      <3>3. fs \in Seq(Frames) /\ Emit(fs)
        BY <1>7, <1>8, <2>1, <3>1 DEF MachineTakes, Reply
      <3>4. \A k \in 1..Len(fs) : fs[k].code \in Codes => fs[k].code = c
        BY <1>7, <1>8, <3>1
      <3> HIDE DEF fs, c
      <3> QED
        BY <1>4, <3>2, <3>3, <3>4, EmitTruthful
    <2>2. CASE MachineRefuses
      <3> DEFINE c == CodeOf(Head(air))
      <3>1. c \in Codes /\ c \in FrameCodes
        BY <2>2, QueueTail, SlotFacts DEF MachineRefuses, Inv, TypeInv, TypeOK
      <3>2. PICK r \in Refusals : /\ r \in ResendMeansTaken => taken[c] > 0
                                  /\ Emit(<<Frame(c, r)>>)
        BY <2>2 DEF MachineRefuses, Reply
      <3>3. r \in Verdicts /\ <<Frame(c, r)>> \in Seq(Frames)
        BY <1>7, <3>1 DEF Verdicts
      <3>4. r \in Favourable => taken'[c] > 0
        BY <1>4, <3>1, <3>2 DEF Favourable
      <3>5. Frame(c, r).code = c /\ Frame(c, r).verdict = r
        BY <1>7, <3>1, <3>3
      <3> HIDE DEF c
      <3>6. \A k \in 1..Len(<<Frame(c, r)>>) : <<Frame(c, r)>>[k] = Frame(c, r)
        OBVIOUS
      <3> QED
        BY <1>4, <3>2, <3>3, <3>4, <3>5, <3>6, EmitTruthful
    <2>3. CASE MachineMisses \/ MachineSleeps \/ MachineWakes
      <3>1. CASE UNCHANGED notif
        BY <1>5, <3>1
      <3>2. ASSUME NEW a \in {Awake, Sleeping}, Emit(<<Frame(a, OK)>>)
            PROVE  TruthfulNotif'
        <4>1. <<Frame(a, OK)>> \in Seq(Frames)
          BY <1>7, <1>8
        <4>2. \A k \in 1..Len(<<Frame(a, OK)>>) : <<Frame(a, OK)>>[k].code \notin Codes
          BY <1>8
        <4> QED
          BY <1>4, <3>2, <4>1, <4>2, EmitTruthful
      <3> QED
        BY <2>3, <3>1, <3>2 DEF MachineMisses, MachineSleeps, MachineWakes
    <2>4. CASE LinkDrops
      <3>1. Len(notif') = 0
        BY <2>4 DEF LinkDrops
      <3> QED
        BY <3>1 DEF TruthfulNotif
    <2> QED
      BY <2>1, <2>2, <2>3, <2>4 DEF Environment
  <1> QED
    BY <1>5, <1>6, <1>9 DEF Inv

\* Every step keeps the inductive invariant, if the machine does not claim to be
\* busy with a command it never took.
LEMMA InvStep ==
  ASSUME ~BusyElsewhere
  PROVE  Inv /\ [Next]_vars => Inv'
  <1> SUFFICES ASSUME Inv, [Next]_vars PROVE Inv'
    OBVIOUS
  <1>1. TypeInv'
    BY TypedStep DEF Inv
  <1>2. CASE UNCHANGED vars
    <2>1. \A c \in Codes : taken'[c] >= taken[c]
      BY <1>2 DEF vars, machineVars, Inv, TypeInv, TypeOK
    <2> QED
      BY <1>1, <1>2, <2>1, TakenGrows DEF vars, clientVars, trackVars, machineVars, Inv
  <1>3. CASE Next
    BY <1>1, <1>3, RunInv, ReplyInv, EnvironmentInv DEF Next
  <1> QED
    BY <1>2, <1>3

\* With a machine that answers RESEND_MEANS_TAKEN only after taking a command,
\* a step reported as accepted was taken, for every number of concurrent calls
\* and every timing of answers, timers, re-sends and link losses.
THEOREM AcceptedIsTaken ==
  ASSUME ~BusyElsewhere
  PROVE  Spec => []AcceptedMeansTaken
  <1>1. Inv => AcceptedMeansTaken
    BY DEF Inv
  <1> QED
    BY <1>1, InitInv, InvStep, PTL DEF Spec

\* And no command is on its way before every earlier one of its brew was taken:
\* EXECUTE never reaches a machine without the recipe.
THEOREM CommandsInOrder ==
  ASSUME ~BusyElsewhere
  PROVE  Spec => []SentInOrder
  <1>1. Inv => SentInOrder
    BY DEF Inv
  <1> QED
    BY <1>1, InitInv, InvStep, PTL DEF Spec

-----------------------------------------------------------------------------
(* Waiters and the subscription *)

\* A waiter is registered under the code of its slot, and only while its call
\* is inside write_confirmed for it.
WaiterInv == TypeInv /\ RoutedByCode /\ NoStrayWaiter

\* A call that enters write_confirmed had no waiter, and replaces at most the
\* one registered for its code.
LEMMA EnterStray ==
  ASSUME WaiterInv, NEW t \in Calls, pc[t] \notin InStep, pc[t] # "done",
         step[t] <= Len(Script[t]), UNCHANGED step, Enter(t)
  PROVE  NoStrayWaiter'
  <1>1. SUFFICES ASSUME NEW c \in FrameCodes, echoWaiters'[c] # None
                 PROVE  LET u == echoWaiters'[c][1]
                        IN  pc'[u] \in InStep /\ echoWaiters'[c] = <<u, step'[u]>>
    BY DEF NoStrayWaiter, Slot, InStep
  <1>2. echoWaiters \in [FrameCodes -> Slots \union {None}] /\ pc \in [Calls -> PCs]
    BY DEF WaiterInv, TypeInv, TypeOK
  <1>3. pc' = [pc EXCEPT ![t] = "writing"]
    BY DEF Enter, Goto
  <1>4. CASE echoWaiters'[c] = Slot(t)
    <2>1. echoWaiters'[c][1] = t
      BY <1>4 DEF Slot
    <2> QED
      BY <1>2, <1>3, <1>4, <2>1 DEF Slot, InStep
  <1>5. CASE echoWaiters'[c] = echoWaiters[c]
    <2> DEFINE u == echoWaiters[c][1]
    <2>1. u \in Calls /\ pc[u] \in InStep /\ echoWaiters[c] = Slot(u)
      BY <1>1, <1>2, <1>5, SlotFacts DEF WaiterInv, NoStrayWaiter
    <2>2. u # t
      BY <2>1
    <2> QED
      BY <1>2, <1>3, <1>5, <2>1, <2>2 DEF Slot
  <1> QED
    BY <1>2, <1>4, <1>5 DEF Enter

\* A call that leaves write_confirmed takes its own waiter along, since what is
\* registered for a code has that code.
LEMMA LeaveStray ==
  ASSUME WaiterInv, NEW t \in Calls, pc[t] \in InStep, Unregister(t),
         \A u \in Calls : u # t => pc'[u] = pc[u] /\ step'[u] = step[u]
  PROVE  NoStrayWaiter'
  <1>1. SUFFICES ASSUME NEW c \in FrameCodes, echoWaiters'[c] # None
                 PROVE  LET u == echoWaiters'[c][1]
                        IN  pc'[u] \in InStep /\ echoWaiters'[c] = <<u, step'[u]>>
    BY DEF NoStrayWaiter, Slot, InStep
  <1>2. echoWaiters \in [FrameCodes -> Slots \union {None}]
    BY DEF WaiterInv, TypeInv, TypeOK
  <1>3. c # CodeOf(Slot(t)) /\ echoWaiters'[c] = echoWaiters[c]
    BY <1>1, <1>2 DEF Unregister
  <1> DEFINE u == echoWaiters[c][1]
  <1>4. u \in Calls /\ pc[u] \in InStep /\ echoWaiters[c] = Slot(u) /\ CodeOf(Slot(u)) = c
    BY <1>1, <1>2, <1>3, SlotFacts DEF WaiterInv, NoStrayWaiter, RoutedByCode
  <1>5. u # t
    BY <1>3, <1>4
  <1> QED
    BY <1>3, <1>4, <1>5 DEF Slot

\* A step that registers and pops nothing, and moves a call only within or
\* outside write_confirmed.
LEMMA KeepStray ==
  ASSUME WaiterInv, UNCHANGED echoWaiters,
         \A u \in Calls : pc[u] \in InStep => pc'[u] \in InStep /\ step'[u] = step[u]
  PROVE  NoStrayWaiter'
  <1>1. SUFFICES ASSUME NEW c \in FrameCodes, echoWaiters[c] # None
                 PROVE  LET u == echoWaiters[c][1]
                        IN  pc'[u] \in InStep /\ echoWaiters[c] = <<u, step'[u]>>
    BY DEF NoStrayWaiter, Slot, InStep
  <1>2. echoWaiters \in [FrameCodes -> Slots \union {None}]
    BY DEF WaiterInv, TypeInv, TypeOK
  <1> DEFINE u == echoWaiters[c][1]
  <1>3. u \in Calls /\ pc[u] \in InStep /\ echoWaiters[c] = Slot(u)
    BY <1>1, <1>2, SlotFacts DEF WaiterInv, NoStrayWaiter
  <1> QED
    BY <1>3 DEF Slot

\* What a step of a call does to its place and to the waiters: it enters
\* write_confirmed, leaves it, or keeps the waiters as they are.
LEMMA RunMoves ==
  ASSUME TypeInv, NEW t \in Calls, Call(t) \/ Run(t)
  PROVE  /\ \A u \in Calls : u # t => pc'[u] = pc[u] /\ step'[u] = step[u]
         /\ \/ /\ pc[t] \notin InStep /\ pc[t] # "done" /\ Enter(t)
               /\ step[t] <= Len(Script[t]) /\ UNCHANGED step
            \/ pc[t] \in InStep /\ pc'[t] \notin InStep /\ Unregister(t)
            \/ /\ UNCHANGED <<echoWaiters, step>>
               /\ pc[t] \in InStep <=> pc'[t] \in InStep
  <1> USE DEF TypeInv, TypeOK, InStep
  <1>1. CASE CallBrew(t)
    BY <1>1 DEF CallBrew, Goto, Return
  <1>2. CASE CallSend(t)
    <2>1. step[t] <= Len(Script[t])
      BY <1>2 DEF CallSend, AtAStep
    <2>2. Enter(t) => pc' = [pc EXCEPT ![t] = "writing"]
      BY DEF Enter, Goto
    <2> QED
      BY <1>2, <2>1, <2>2 DEF CallSend, Goto
  <1>3. CASE SubscribeOK(t) \/ DegradedWrite(t) \/ Write(t) \/ TimerFires(t) \/ Retry(t)
    BY <1>3 DEF SubscribeOK, DegradedWrite, Write, TimerFires, Retry, Goto, Return
  <1>4. CASE SubscribeFails(t) \/ Settled(t)
    BY <1>4, AtAStepFacts DEF SubscribeFails, Settled, Proceed, Enter, Goto, Return
  <1>5. CASE WriteFails(t) \/ Refused(t) \/ GiveUp(t)
    BY <1>5 DEF WriteFails, Refused, GiveUp, Goto, Return
  <1>6. CASE Accept(t)
    BY <1>6 DEF Accept, Goto, Return
  <1>7. CASE NextStep(t)
    BY <1>7 DEF NextStep, Enter, Goto, Return
  <1> QED
    BY <1>1, <1>2, <1>3, <1>4, <1>5, <1>6, <1>7 DEF Call, Run, Subscribing, InWriteConfirmed

\* Waiters stay routed by code and with their calls over every step, whatever
\* the calls send and whatever the machine answers.
LEMMA WaiterStep == WaiterInv /\ [Next]_vars => WaiterInv'
  <1> SUFFICES ASSUME WaiterInv, [Next]_vars PROVE WaiterInv'
    OBVIOUS
  <1>1. TypeInv'
    BY TypedStep DEF WaiterInv
  <1>2. ASSUME UNCHANGED <<pc, step, echoWaiters>>
        PROVE  RoutedByCode' /\ NoStrayWaiter'
    <2>1. RoutedByCode'
      BY <1>2 DEF WaiterInv, RoutedByCode, CodeOf
    <2> QED
      BY <1>2, <2>1, KeepStray
  <1>3. ASSUME NEW t \in Calls, Call(t) \/ Run(t)
        PROVE  RoutedByCode' /\ NoStrayWaiter'
    <2>1. \A u \in Calls : u # t => pc'[u] = pc[u] /\ step'[u] = step[u]
      BY <1>3, RunMoves DEF WaiterInv
    <2>2. CASE /\ pc[t] \notin InStep /\ pc[t] # "done" /\ Enter(t)
               /\ step[t] <= Len(Script[t]) /\ UNCHANGED step
      BY <2>2, EnterRouted, EnterStray DEF WaiterInv
    <2>3. CASE pc[t] \in InStep /\ pc'[t] \notin InStep /\ Unregister(t)
      BY <2>1, <2>3, UnregisterRouted, LeaveStray DEF WaiterInv
    <2>4. CASE /\ UNCHANGED <<echoWaiters, step>>
               /\ pc[t] \in InStep <=> pc'[t] \in InStep
      <3>1. RoutedByCode'
        BY <2>4 DEF WaiterInv, RoutedByCode, CodeOf
      <3> QED
        BY <2>1, <2>4, <3>1, KeepStray
    <2> QED
      BY <1>3, <2>2, <2>3, <2>4, RunMoves DEF WaiterInv
  <1>4. NoteReply \/ RunCallback \/ Environment => UNCHANGED <<pc, step, echoWaiters>>
    BY DEF NoteReply, RunCallback, Environment, MachineTakes, MachineRefuses, MachineMisses,
       MachineSleeps, MachineWakes, LinkDrops, clientVars
  <1> QED
    BY <1>1, <1>2, <1>3, <1>4 DEF Next, vars, clientVars, WaiterInv

\* For any calls, even two that send the same code at once: a registered waiter
\* belongs to a call that is inside write_confirmed for that very step.
THEOREM WaitersAreAwaited == Spec => []NoStrayWaiter
  <1>1. Init => WaiterInv
    BY InitTyped DEF Init, WaiterInv, RoutedByCode, NoStrayWaiter
  <1>2. WaiterInv => NoStrayWaiter
    BY DEF WaiterInv
  <1> QED
    BY <1>1, <1>2, WaiterStep, PTL DEF Spec

\* The flag says that this client is subscribed, and every call past the check
\* of the flag is, for as long as the link is up.  A brew that resets the flag
\* does not end a subscription.
HeardInv ==
  /\ TypeInv
  /\ link /\ notifyActive => subscribed
  /\ \A t \in Calls : link /\ pc[t] \in InStep \union {"pausing"} => subscribed

\* Only a lost link ends a subscription, and a lost link stays lost.
LEMMA HeardStep == HeardInv /\ [Next]_vars => HeardInv'
  <1> SUFFICES ASSUME HeardInv, [Next]_vars PROVE HeardInv'
    OBVIOUS
  <1> USE DEF InStep
  <1>1. TypeInv'
    BY TypedStep DEF HeardInv
  <1>2. CASE UNCHANGED <<pc, link, notifyActive, subscribed>>
    BY <1>1, <1>2 DEF HeardInv
  <1>3. CASE LinkDrops
    BY <1>1, <1>3 DEF LinkDrops, HeardInv
  <1>4. ASSUME NEW t \in Calls, Call(t) \/ Run(t)
        PROVE  HeardInv'
    <2> USE DEF HeardInv, TypeInv, TypeOK
    <2>1. CASE CallBrew(t) \/ CallSend(t)
      BY <1>1, <2>1 DEF CallBrew, CallSend, Enter, Goto, Return
    <2>2. CASE SubscribeOK(t)
      BY <1>1, <2>2 DEF SubscribeOK, Goto
    <2>3. CASE SubscribeFails(t) \/ Settled(t)
      BY <1>1, <2>3 DEF SubscribeFails, Settled, Proceed, Enter, Goto, Return
    <2>4. CASE DegradedWrite(t) \/ Write(t) \/ WriteFails(t) \/ TimerFires(t) \/ Retry(t)
               \/ GiveUp(t) \/ Refused(t)
      BY <1>1, <2>4 DEF DegradedWrite, Write, WriteFails, TimerFires, Retry, GiveUp, Refused,
         Goto, Return
    <2>5. CASE Accept(t) \/ NextStep(t)
      BY <1>1, <2>5 DEF Accept, NextStep, Enter, Goto, Return
    <2> QED
      BY <1>4, <2>1, <2>2, <2>3, <2>4, <2>5 DEF Call, Run, Subscribing, InWriteConfirmed
  <1>5. NoteReply \/ RunCallback \/ (Environment /\ ~LinkDrops)
          => UNCHANGED <<pc, link, notifyActive, subscribed>>
    BY DEF NoteReply, RunCallback, Environment, MachineTakes, MachineRefuses, MachineMisses,
       MachineSleeps, MachineWakes, clientVars
  <1> QED
    BY <1>2, <1>3, <1>4, <1>5 DEF Next, Environment, vars, clientVars

\* The initial states satisfy it: nobody is past the check.
LEMMA InitHeard == Init => HeardInv
  BY InitTyped DEF Init, HeardInv, InStep

\* A brew with a command out can hear the answer, however many calls share the
\* flag and reset it.
THEOREM BrewHears == Spec => []BrewNeverBlind
  <1>1. HeardInv => BrewNeverBlind
    BY CallsAssumption DEF HeardInv, BrewNeverBlind
  <1> QED
    BY <1>1, InitHeard, HeardStep, PTL DEF Spec


-----------------------------------------------------------------------------
(* How far a call got *)

\* The call of s wrote step s, or may have.
Entered(s) ==
  \/ s[2] < step[s[1]]
  \/ s[2] = step[s[1]] /\ pc[s[1]] \in InStep \union {"done"}

\* Only steps that were entered are in flight, only their commands were met by
\* the machine, and only a call that ended has an outcome.
SentOnlyEntered == \A k \in 1..Len(air) : Entered(air[k])
MetOnlyEntered ==
  \A s \in Slots :
    taken[CodeOf(s)] > 0 \/ firstVerdict[CodeOf(s)] # None => Entered(s)
OpenUntilDone == \A t \in Calls : pc[t] # "done" => outcome[t] = None

EnteredInv == TypeInv /\ SentOnlyEntered /\ MetOnlyEntered /\ OpenUntilDone

\* A step of a call moves that call alone, on within its script or to its end.
LEMMA RunAdvances ==
  ASSUME TypeInv, NEW t \in Calls, Call(t) \/ Run(t)
  PROVE  /\ pc[t] # "done"
         /\ \A u \in Calls : u # t => pc'[u] = pc[u] /\ step'[u] = step[u]
                                      /\ outcome'[u] = outcome[u]
         /\ \/ step'[t] = step[t] + 1
            \/ /\ step'[t] = step[t]
               /\ pc[t] \in InStep => pc'[t] \in InStep \union {"done"}
         /\ pc'[t] # "done" => UNCHANGED outcome
  <1> USE DEF TypeInv, TypeOK, InStep
  <1>0. Enter(t) => pc' = [pc EXCEPT ![t] = "writing"]
    BY DEF Enter, Goto
  <1>1. CASE CallBrew(t) \/ CallSend(t)
    BY <1>0, <1>1 DEF CallBrew, CallSend, Goto, Return
  <1>2. CASE SubscribeOK(t) \/ DegradedWrite(t)
    BY <1>2 DEF SubscribeOK, DegradedWrite, Goto, Return
  <1>3. CASE SubscribeFails(t) \/ Settled(t)
    BY <1>0, <1>3 DEF SubscribeFails, Settled, Proceed, Goto, Return
  <1>4. CASE Write(t) \/ TimerFires(t) \/ Retry(t)
    BY <1>4 DEF Write, TimerFires, Retry, Goto
  <1>5. CASE WriteFails(t) \/ Refused(t) \/ GiveUp(t)
    BY <1>5 DEF WriteFails, Refused, GiveUp, Goto, Return
  <1>6. CASE Accept(t)
    BY <1>6 DEF Accept, Goto, Return
  <1>7. CASE NextStep(t)
    BY <1>0, <1>7 DEF NextStep, Goto, Return
  <1> QED
    BY <1>1, <1>2, <1>3, <1>4, <1>5, <1>6, <1>7 DEF Call, Run, Subscribing, InWriteConfirmed

\* A call's step leaves the queues and the machine alone, but for a frame of
\* its current step.
LEMMA RunWrites ==
  ASSUME TypeInv, NEW t \in Calls, Call(t) \/ Run(t)
  PROVE  /\ UNCHANGED <<loopQ, answers, notif, link, machineVars>>
         /\ \/ UNCHANGED air
            \/ /\ air' = Append(air, Slot(t)) /\ Slot(t) \in Slots
               /\ UNCHANGED step /\ pc'[t] \in InStep \union {"done"}
               /\ link
  <1>1. UNCHANGED <<loopQ, answers, notif, link, machineVars>>
    BY DEF Call, Run, Subscribing, InWriteConfirmed, CallBrew, CallSend, SubscribeOK,
       SubscribeFails, Settled, DegradedWrite, Write, WriteFails, Accept, Refused, TimerFires,
       Retry, GiveUp, NextStep, trackVars
  <1>2. CASE DegradedWrite(t) \/ Write(t)
    BY <1>1, <1>2, AtAStepFacts DEF DegradedWrite, Write, Goto, Return, InStep, TypeInv, TypeOK
  <1>3. CASE ~(DegradedWrite(t) \/ Write(t))
    BY <1>1, <1>3 DEF Call, Run, Subscribing, InWriteConfirmed, CallBrew, CallSend, SubscribeOK,
       SubscribeFails, Settled, WriteFails, Accept, Refused, TimerFires, Retry, GiveUp, NextStep
  <1> QED
    BY <1>1, <1>2, <1>3

\* A step that was entered stays entered.
LEMMA EnteredStays ==
  ASSUME TypeInv, [Next]_vars, NEW s \in Slots, Entered(s)
  PROVE  Entered(s)'
  <1> USE DEF Entered, InStep
  <1>1. s[1] \in Calls /\ s[2] \in Nat /\ step[s[1]] \in Nat
    BY SlotFacts, CallFacts DEF TypeInv, TypeOK
  <1>2. CASE UNCHANGED <<pc, step>>
    BY <1>2
  <1>3. ASSUME NEW t \in Calls, Call(t) \/ Run(t)
        PROVE  Entered(s)'
    BY <1>1, <1>3, RunAdvances
  <1>4. NoteReply \/ RunCallback \/ Environment => UNCHANGED <<pc, step>>
    BY DEF NoteReply, RunCallback, Environment, MachineTakes, MachineRefuses, MachineMisses,
       MachineSleeps, MachineWakes, LinkDrops, clientVars
  <1> QED
    BY <1>2, <1>3, <1>4 DEF Next, vars, clientVars

\* What the machine does with the frame it met: at most one more copy taken and
\* one first verdict, both for the code of that frame.
LEMMA MachineMeets ==
  ASSUME TypeInv, Environment
  PROVE  /\ UNCHANGED <<pc, step, outcome, echoWaiters, answers, loopQ>>
         /\ \/ UNCHANGED air
            \/ air' = << >>
            \/ air # << >> /\ air' = Tail(air)
         /\ \/ UNCHANGED <<taken, firstVerdict>>
            \/ /\ air # << >>
               /\ \A c \in Codes : c # CodeOf(Head(air)) =>
                    taken'[c] = taken[c] /\ firstVerdict'[c] = firstVerdict[c]
  <1>1. CASE MachineTakes
    <2> DEFINE d == CodeOf(Head(air))
    <2>1. /\ taken' = [taken EXCEPT ![d] = taken[d] + 1]
          /\ firstVerdict' = [firstVerdict EXCEPT ![d] = IF firstVerdict[d] = None THEN OK
                                                         ELSE firstVerdict[d]]
          /\ taken \in [Codes -> Nat] /\ firstVerdict \in [Codes -> Verdicts \union {None}]
      BY <1>1 DEF MachineTakes, Reply, TypeInv, TypeOK
    <2> HIDE DEF d
    <2>2. \A c \in Codes : c # d => taken'[c] = taken[c] /\ firstVerdict'[c] = firstVerdict[c]
      BY <2>1
    <2> QED
      BY <1>1, <2>2 DEF MachineTakes, clientVars, trackVars, d
  <1>2. CASE MachineRefuses
    <2> DEFINE d == CodeOf(Head(air))
    <2>1. PICK r \in Refusals :
            firstVerdict' = [firstVerdict EXCEPT ![d] = IF firstVerdict[d] = None THEN r
                                                        ELSE firstVerdict[d]]
      BY <1>2 DEF MachineRefuses, Reply
    <2>2. firstVerdict \in [Codes -> Verdicts \union {None}] /\ UNCHANGED taken
      BY <1>2 DEF MachineRefuses, TypeInv, TypeOK
    <2> HIDE DEF d
    <2>3. \A c \in Codes : c # d => taken'[c] = taken[c] /\ firstVerdict'[c] = firstVerdict[c]
      BY <2>1, <2>2
    <2> QED
      BY <1>2, <2>3 DEF MachineRefuses, clientVars, trackVars, d
  <1>3. CASE MachineMisses \/ MachineSleeps \/ MachineWakes \/ LinkDrops
    BY <1>3 DEF MachineMisses, MachineSleeps, MachineWakes, LinkDrops, clientVars, trackVars,
       machineVars
  <1> QED
    BY <1>1, <1>2, <1>3 DEF Environment

\* Frames and verdicts only ever belong to entered steps.
LEMMA EnteredStep ==
  ASSUME DistinctCodes
  PROVE  EnteredInv /\ [Next]_vars => EnteredInv'
  <1> SUFFICES ASSUME EnteredInv, [Next]_vars PROVE EnteredInv'
    OBVIOUS
  <1>1. TypeInv /\ TypeInv'
    BY TypedStep DEF EnteredInv
  <1>2. air \in Seq(Slots)
    BY <1>1 DEF TypeInv, TypeOK
  <1>3. \A s \in Slots : Entered(s) => Entered(s)'
    BY <1>1, EnteredStays
  <1>4. UNCHANGED air => SentOnlyEntered'
    <2>1. \A k \in 1..Len(air) : air[k] \in Slots /\ Entered(air[k])
      BY <1>2 DEF EnteredInv, SentOnlyEntered
    <2> QED
      BY <1>3, <2>1 DEF SentOnlyEntered, Entered
  <1>5. UNCHANGED <<taken, firstVerdict>> => MetOnlyEntered'
    BY <1>3 DEF EnteredInv, MetOnlyEntered, CodeOf
  <1>6. ASSUME NEW t \in Calls, Call(t) \/ Run(t)
        PROVE  SentOnlyEntered' /\ MetOnlyEntered' /\ OpenUntilDone'
    <2>1. OpenUntilDone'
      BY <1>1, <1>6, RunAdvances DEF EnteredInv, OpenUntilDone
    <2>2. MetOnlyEntered'
      BY <1>1, <1>5, <1>6, RunWrites DEF machineVars
    <2>3. SentOnlyEntered'
      <3>1. CASE UNCHANGED air
        BY <1>4, <3>1
      <3>2. CASE /\ air' = Append(air, Slot(t)) /\ Slot(t) \in Slots
                 /\ UNCHANGED step /\ pc'[t] \in InStep \union {"done"}
        <4>1. \A k \in 1..Len(air') :
                air'[k] = Slot(t) \/ (k \in 1..Len(air) /\ air'[k] = air[k])
          BY <1>2, <3>2, QueueAppend
        <4>2. Slot(t)[2] = step'[Slot(t)[1]] /\ pc'[Slot(t)[1]] \in InStep \union {"done"}
          BY <3>2 DEF Slot
        <4>3. \A k \in 1..Len(air) : \E s \in Slots : s = air[k] /\ Entered(s)'
          BY <1>2, <1>3 DEF EnteredInv, SentOnlyEntered
        <4> QED
          BY <4>1, <4>2, <4>3 DEF SentOnlyEntered, Entered
      <3> QED
        BY <1>1, <1>6, <3>1, <3>2, RunWrites
    <2> QED
      BY <2>1, <2>2, <2>3
  <1>7. CASE NoteReply \/ RunCallback
    BY <1>1, <1>4, <1>5, <1>7 DEF NoteReply, RunCallback, clientVars, machineVars, EnteredInv,
       OpenUntilDone
  <1>8. CASE Environment
    <2>1. UNCHANGED <<pc, step, outcome>>
      BY <1>1, <1>8, MachineMeets
    <2>2. SentOnlyEntered'
      <3>1. CASE air' = << >>
        BY <3>1 DEF SentOnlyEntered
      <3>2. CASE air # << >> /\ air' = Tail(air)
        <4>1. \A k \in 1..Len(air') : k + 1 \in 1..Len(air) /\ air'[k] = air[k + 1]
          BY <1>2, <3>2, QueueTail
        <4> QED
          BY <2>1, <4>1 DEF EnteredInv, SentOnlyEntered, Entered
      <3> QED
        BY <1>1, <1>4, <1>8, <3>1, <3>2, MachineMeets
    <2>3. MetOnlyEntered'
      <3>1. CASE UNCHANGED <<taken, firstVerdict>>
        BY <1>5, <3>1
      <3>2. CASE /\ air # << >>
                 /\ \A c \in Codes : c # CodeOf(Head(air)) =>
                      taken'[c] = taken[c] /\ firstVerdict'[c] = firstVerdict[c]
        <4>1. Head(air) \in Slots /\ Entered(Head(air))
          BY <1>2, <3>2, QueueTail DEF EnteredInv, SentOnlyEntered
        <4>2. SUFFICES ASSUME NEW s \in Slots,
                              taken'[CodeOf(s)] > 0 \/ firstVerdict'[CodeOf(s)] # None
                       PROVE  Entered(s)
          BY <1>3 DEF MetOnlyEntered, CodeOf
        <4>3. CASE s = Head(air)
          BY <4>1, <4>3
        <4>4. CASE s # Head(air)
          <5>1. CodeOf(s) # CodeOf(Head(air)) /\ CodeOf(s) \in Codes
            BY <4>1, <4>4, SlotFacts DEF DistinctCodes
          <5> QED
            BY <3>2, <4>2, <5>1 DEF EnteredInv, MetOnlyEntered
        <4> QED
          BY <4>3, <4>4
      <3> QED
        BY <1>1, <1>8, <3>1, <3>2, MachineMeets
    <2> QED
      BY <1>1, <2>1, <2>2, <2>3 DEF EnteredInv, OpenUntilDone
  <1>9. CASE UNCHANGED vars
    BY <1>1, <1>4, <1>5, <1>9 DEF vars, clientVars, machineVars, EnteredInv, OpenUntilDone
  <1> QED
    BY <1>1, <1>6, <1>7, <1>8, <1>9 DEF Next, EnteredInv

\* Nothing was entered, met or ended before the first call.
LEMMA InitEntered == Init => EnteredInv
  <1> SUFFICES ASSUME Init PROVE EnteredInv
    OBVIOUS
  <1>1. MetOnlyEntered
    BY SlotFacts DEF Init, MetOnlyEntered
  <1>2. Len(air) = 0
    BY DEF Init
  <1> QED
    BY <1>1, <1>2, InitTyped DEF Init, EnteredInv, SentOnlyEntered, OpenUntilDone

-----------------------------------------------------------------------------
(* Waiters *)

\* Weaker than DistinctCodes: a call may repeat a code, two calls do not share
\* one.
CallsApart == \A s1, s2 \in Slots : CodeOf(s1) = CodeOf(s2) => s1[1] = s2[1]

WaitingInv == TypeInv /\ AwaitedIsHeard

\* Entering and leaving write_confirmed touch the waiter of one code, and no
\* other call inside it waits under that code.
LEMMA WaitingStep ==
  ASSUME CallsApart
  PROVE  WaitingInv /\ [Next]_vars => WaitingInv'
  <1> SUFFICES ASSUME WaitingInv, [Next]_vars PROVE WaitingInv'
    OBVIOUS
  <1>1. TypeInv /\ TypeInv'
    BY TypedStep DEF WaitingInv
  <1>2. CASE UNCHANGED <<pc, step, echoWaiters>>
    BY <1>1, <1>2 DEF WaitingInv, AwaitedIsHeard, Slot, CodeOf
  <1>3. ASSUME NEW t \in Calls, Call(t) \/ Run(t)
        PROVE  WaitingInv'
    <2>1. /\ \A u \in Calls : u # t => pc'[u] = pc[u] /\ step'[u] = step[u]
          /\ \A u \in Calls : pc[u] \in InStep => Slot(u) \in Slots
          /\ echoWaiters \in [FrameCodes -> Slots \union {None}]
      BY <1>1, <1>3, RunMoves, AtAStepFacts DEF TypeInv, TypeOK, InStep
    <2>2. SUFFICES ASSUME NEW u \in Calls, pc'[u] \in InStep
                   PROVE  echoWaiters'[CodeOf(<<u, step'[u]>>)] = <<u, step'[u]>>
      BY <1>1 DEF WaitingInv, AwaitedIsHeard, Slot, CodeOf, InStep
    <2>3. ASSUME u # t
          PROVE  /\ <<u, step'[u]>> = Slot(u) /\ echoWaiters[CodeOf(Slot(u))] = Slot(u)
                 /\ Slot(t) \in Slots => CodeOf(Slot(u)) # CodeOf(Slot(t))
      <3>1. pc[u] \in InStep /\ step'[u] = step[u]
        BY <2>1, <2>2, <2>3
      <3>2. Slot(u) \in Slots /\ Slot(u)[1] = u /\ Slot(t)[1] = t
        BY <2>1, <3>1 DEF Slot
      <3> QED
        BY <2>3, <3>1, <3>2 DEF WaitingInv, AwaitedIsHeard, Slot, CallsApart
    <2>4. CASE /\ pc[t] \notin InStep /\ pc[t] # "done" /\ Enter(t)
               /\ step[t] <= Len(Script[t]) /\ UNCHANGED step
      <3>1. Slot(t) \in Slots /\ CodeOf(Slot(t)) \in FrameCodes
        <4>1. step[t] \in 1..Len(Script[t])
          BY <1>1, <2>4, CallFacts DEF TypeInv, TypeOK
        <4> QED
          BY <4>1, CurrentSlot, SlotFacts
      <3>2. CASE u = t
        BY <2>1, <2>4, <3>1, <3>2 DEF Enter, Slot
      <3>3. CASE u # t
        BY <2>1, <2>3, <2>4, <3>1, <3>3 DEF Enter
      <3> QED
        BY <3>2, <3>3
    <2>5. CASE pc[t] \in InStep /\ pc'[t] \notin InStep /\ Unregister(t)
      <3>1. u # t /\ Slot(t) \in Slots
        BY <2>1, <2>2, <2>5
      <3> QED
        BY <2>1, <2>3, <2>5, <3>1 DEF Unregister
    <2>6. CASE /\ UNCHANGED <<echoWaiters, step>>
               /\ pc[t] \in InStep <=> pc'[t] \in InStep
      BY <2>1, <2>2, <2>6 DEF WaitingInv, AwaitedIsHeard, Slot, CodeOf
    <2> QED
      BY <1>1, <1>3, <2>4, <2>5, <2>6, RunMoves
  <1>4. NoteReply \/ RunCallback \/ Environment => UNCHANGED <<pc, step, echoWaiters>>
    BY DEF NoteReply, RunCallback, Environment, MachineTakes, MachineRefuses, MachineMisses,
       MachineSleeps, MachineWakes, LinkDrops, clientVars
  <1> QED
    BY <1>2, <1>3, <1>4 DEF Next, vars, clientVars

\* As long as no two calls send the same code, an answer that comes while a call
\* is inside write_confirmed finds its waiter, across re-sends and steps and
\* whatever the other calls register and pop.
THEOREM CallsAreHeard ==
  ASSUME CallsApart
  PROVE  Spec => []AwaitedIsHeard
  <1>1. Init => WaitingInv
    BY InitTyped DEF Init, WaitingInv, AwaitedIsHeard, InStep
  <1>2. WaitingInv => AwaitedIsHeard
    BY DEF WaitingInv
  <1> QED
    BY <1>1, <1>2, WaitingStep, PTL DEF Spec

-----------------------------------------------------------------------------
(* The contract *)

\* What the caller of a call sees of its outcome.
LEMMA ReportedFacts ==
  /\ Reported(None) = "open"
  /\ Reported("sent") = "sent"
  /\ \A o \in {"refused", "unanswered", "raised"} : Reported(o) = "stopped"
  <1>1. \A o \in Outcomes : o # None
    BY NoneAssumption
  <1> QED
    BY <1>1 DEF Reported, Outcomes

\* A step of a call that accepts nothing keeps its place in the script, and ends
\* the call, if at all, as sent only past the last step.
LEMMA RunReports ==
  ASSUME TypeInv, NEW t \in Calls, Call(t) \/ Run(t), ~Accept(t)
  PROVE  /\ UNCHANGED step
         /\ \/ UNCHANGED outcome
            \/ \E o \in {"refused", "unanswered", "raised"} :
                 outcome' = [outcome EXCEPT ![t] = o]
            \/ outcome' = [outcome EXCEPT ![t] = "sent"] /\ step[t] > Len(Script[t])
  <1>1. CASE CallBrew(t) \/ CallSend(t) \/ SubscribeOK(t) \/ SubscribeFails(t) \/ Settled(t)
    BY <1>1 DEF CallBrew, CallSend, SubscribeOK, SubscribeFails, Settled, Proceed, Return
  <1>2. CASE DegradedWrite(t) \/ Write(t) \/ WriteFails(t) \/ Refused(t)
    BY <1>2 DEF DegradedWrite, Write, WriteFails, Refused, Return
  <1>3. CASE TimerFires(t) \/ Retry(t) \/ GiveUp(t) \/ NextStep(t)
    BY <1>3 DEF TimerFires, Retry, GiveUp, NextStep, Return
  <1> QED
    BY <1>1, <1>2, <1>3 DEF Call, Run, Subscribing, InWriteConfirmed

\* The state the layer shows its caller, before the first call.
LEMMA InitContract == Init => Contract!Init
  <1> SUFFICES ASSUME Init PROVE Contract!Init
    OBVIOUS
  <1>1. Held = [t \in Calls |-> 0]
    <2>1. \A t \in Calls : CodeOf(Slot(t)) \in Codes
      <3>1. ASSUME NEW t \in Calls PROVE step[t] \in 1..Len(Script[t])
        <4>1. Len(Script[t]) \in Nat /\ Len(Script[t]) > 0
          BY CallFacts
        <4>2. step[t] = 1
          BY DEF Init
        <4> QED
          BY <4>1, <4>2
      <3> QED
        BY <3>1, SlotFacts, CurrentSlot
    <2> QED
      BY <2>1 DEF Init, Held
  <1>2. Accepted = [t \in Calls |-> 0]
    BY DEF Init, Accepted
  <1>3. Status = [t \in Calls |-> "open"]
    BY ReportedFacts DEF Init, Status
  <1> QED
    BY <1>1, <1>2, <1>3 DEF Contract!Init

\* What the caller is told is a step of the contract: an acceptance confirms the
\* step the machine holds, and nothing later is held yet.
LEMMA RunContract ==
  ASSUME DistinctCodes, Inv, EnteredInv, NEW t \in Calls, Call(t) \/ Run(t)
  PROVE  [Contract!Next]_(Contract!vars)
  <1>1. TypeInv /\ UNCHANGED taken
    BY RunWrites DEF Inv, machineVars
  <1>2. step \in [Calls -> Nat \ {0}] /\ outcome \in [Calls -> Outcomes \union {None}]
    BY <1>1 DEF TypeInv, TypeOK
  <1>3. outcome[t] = None /\ Status[t] = "open"
    BY <1>1, RunAdvances, ReportedFacts DEF EnteredInv, OpenUntilDone, Status
  <1>4. ASSUME NEW o, outcome' = [outcome EXCEPT ![t] = o]
        PROVE  Status' = [Status EXCEPT ![t] = Reported(o)]
    BY <1>2, <1>4 DEF Status
  <1>5. UNCHANGED outcome => UNCHANGED Status
    BY DEF Status
  <1>6. CASE Accept(t)
    <2>1. step' = [step EXCEPT ![t] = step[t] + 1] /\ step[t] \in 1..Len(Script[t])
          /\ Len(Script[t]) \in Nat /\ Slot(t) \in Slots
      BY <1>1, <1>6, AtAStepFacts DEF Accept
    <2>2. taken[CodeOf(Slot(t))] > 0
      BY <1>6, <2>1, MeansTakenFavourable DEF Accept, Inv, TruthfulAnswers, Truthful
    <2>3. Held[t] = step[t] /\ Accepted[t] = step[t] - 1
      BY <2>1, <2>2 DEF Held, Accepted
    <2>4. Held'[t] = step[t]
      <3> DEFINE n == <<t, step[t] + 1>>
      <3>1. CASE step[t] + 1 <= Len(Script[t])
        <4>1. n \in Slots /\ CodeOf(n) \in Codes
          BY <2>1, <3>1, SlotFacts DEF Slots
        <4>2. ~Entered(n)
          BY <1>6, <2>1 DEF Entered, Accept, InStep
        <4>3. ~(taken[CodeOf(n)] > 0)
          BY <4>1, <4>2 DEF EnteredInv, MetOnlyEntered
        <4> QED
          BY <1>1, <1>2, <2>1, <4>3 DEF Held, Slot, CodeOf
      <3>2. CASE ~(step[t] + 1 <= Len(Script[t]))
        BY <1>2, <2>1, <3>2 DEF Held
      <3> QED
        BY <3>1, <3>2
    <2>5. \A u \in Calls : u # t => Held'[u] = Held[u] /\ Accepted'[u] = Accepted[u]
      BY <1>1, <1>2, <2>1 DEF Held, Accepted, Slot, CodeOf
    <2>6. UNCHANGED Held
      BY <2>3, <2>4, <2>5 DEF Held
    <2>7. Accepted' = [Accepted EXCEPT ![t] = Accepted[t] + 1]
      <3>1. Accepted'[t] = Accepted[t] + 1
        BY <1>2, <2>1 DEF Accepted
      <3> QED
        BY <2>5, <3>1 DEF Accepted
    <2>8. Accepted[t] < Held[t]
      BY <2>1, <2>3
    <2>9. CASE t \in Brews
      <3>1. UNCHANGED Status
        BY <1>5, <1>6, <2>9 DEF Accept
      <3>2. Contract!Confirm(t)
        BY <1>3, <2>6, <2>7, <2>8, <3>1 DEF Contract!Confirm
      <3> QED
        BY <3>2 DEF Contract!Next
    <2>10. CASE t \notin Brews
      <3>1. Status' = [Status EXCEPT ![t] = "sent"]
        BY <1>4, <1>6, <2>10, ReportedFacts DEF Accept, Return
      <3>2. Accepted[t] + 1 = StepCount[t]
        <4>1. Len(Script[t]) = 1
          BY <2>10, CallsAssumption
        <4>2. step[t] = 1 /\ StepCount[t] = 1
          BY <2>1, <4>1 DEF StepCount
        <4> QED
          BY <2>3, <4>2
      <3>3. Contract!ConfirmAndReport(t)
        BY <1>3, <2>6, <2>7, <2>8, <3>1, <3>2 DEF Contract!ConfirmAndReport
      <3> QED
        BY <3>3 DEF Contract!Next
    <2> QED
      BY <2>9, <2>10
  <1>7. CASE ~Accept(t)
    <2>1. UNCHANGED step
      BY <1>1, <1>7, RunReports
    <2>2. UNCHANGED <<Held, Accepted>>
      BY <1>1, <2>1 DEF Held, Accepted, Slot, CodeOf
    <2>3. CASE UNCHANGED outcome
      BY <1>5, <2>2, <2>3 DEF Contract!vars
    <2>4. ASSUME NEW o \in {"refused", "unanswered", "raised"},
                 outcome' = [outcome EXCEPT ![t] = o]
          PROVE  Contract!Next
      <3>1. Contract!Stop(t)
        BY <1>3, <1>4, <2>2, <2>4, ReportedFacts DEF Contract!Stop
      <3> QED
        BY <3>1 DEF Contract!Next
    <2>5. CASE outcome' = [outcome EXCEPT ![t] = "sent"] /\ step[t] > Len(Script[t])
      <3>1. Accepted[t] = StepCount[t]
        BY <1>1, <1>2, <2>5, CallFacts DEF Accepted, StepCount, TypeInv, TypeOK
      <3>2. Contract!Report(t)
        BY <1>3, <1>4, <2>2, <2>5, <3>1, ReportedFacts DEF Contract!Report
      <3> QED
        BY <3>2 DEF Contract!Next
    <2> QED
      BY <1>1, <1>7, <2>3, <2>4, <2>5, RunReports
  <1> QED
    BY <1>6, <1>7

\* The machine taking the first copy of a current step is the contract's Take;
\* a duplicate, or the frame of a step already accepted, is a stutter.
LEMMA TakeContract ==
  ASSUME DistinctCodes, Inv, EnteredInv, MachineTakes
  PROVE  [Contract!Next]_(Contract!vars)
  <1> DEFINE h == Head(air)
             d == CodeOf(h)
             u == h[1]
  <1>1. TypeInv /\ h \in Slots /\ d \in Codes /\ u \in Calls /\ UNCHANGED <<step, outcome>>
    BY QueueTail, SlotFacts DEF MachineTakes, clientVars, Inv, TypeInv, TypeOK
  <1>2. taken \in [Codes -> Nat] /\ taken' = [taken EXCEPT ![d] = taken[d] + 1]
        /\ step \in [Calls -> Nat \ {0}]
    BY <1>1 DEF MachineTakes, TypeInv, TypeOK
  <1> HIDE DEF d, h
  <1>3. UNCHANGED <<Accepted, Status>>
    BY <1>1 DEF Accepted, Status
  <1>4. ASSUME NEW t \in Calls, step[t] <= Len(Script[t]), Slot(t) # h
        PROVE  taken'[CodeOf(Slot(t))] = taken[CodeOf(Slot(t))]
    <2>1. Slot(t) \in Slots
      BY <1>2, <1>4, CurrentSlot, CallFacts
    <2>2. CodeOf(Slot(t)) \in Codes /\ CodeOf(Slot(t)) # d
      BY <1>1, <1>4, <2>1, SlotFacts DEF DistinctCodes, d
    <2> QED
      BY <1>2, <2>2
  <1>5. ASSUME NEW t \in Calls, Slot(t) # h
        PROVE  Held'[t] = Held[t]
    BY <1>1, <1>4, <1>5 DEF Held, Slot, CodeOf
  <1>6. CASE Slot(u) = h /\ taken[d] = 0
    <2>1. step[u] \in 1..Len(Script[u])
      BY <1>1, <1>6, SlotFacts DEF Slot
    <2>2. Held[u] = step[u] - 1 /\ Held'[u] = step[u]
      BY <1>1, <1>2, <1>6, <2>1 DEF Held, Slot, CodeOf, d
    <2>3. \A t \in Calls : t # u => Slot(t) # h
      BY <1>6 DEF Slot
    <2>4. Held' = [Held EXCEPT ![u] = Held[u] + 1]
      <3>1. Held'[u] = Held[u] + 1
        BY <1>1, <1>2, <2>2
      <3>2. \A t \in Calls : t # u => Held'[t] = Held[t]
        BY <1>5, <2>3
      <3> QED
        BY <3>1, <3>2 DEF Held
    <2>5. Held[u] = Accepted[u] /\ Held[u] < StepCount[u]
      BY <1>1, <1>2, <2>1, <2>2, CallFacts DEF Accepted, StepCount
    <2>6. Contract!Take(u)
      BY <1>3, <2>4, <2>5 DEF Contract!Take
    <2> QED
      BY <1>1, <2>6 DEF Contract!Next
  <1>7. CASE ~(Slot(u) = h /\ taken[d] = 0)
    <2>1. \A t \in Calls : Held'[t] = Held[t]
      <3>1. SUFFICES ASSUME NEW t \in Calls, Slot(t) = h PROVE Held'[t] = Held[t]
        BY <1>5
      <3>2. t = u /\ taken[d] > 0 /\ taken'[d] > 0
        BY <1>1, <1>2, <1>7, <3>1 DEF Slot
      <3> QED
        BY <1>1, <3>1, <3>2 DEF Held, Slot, CodeOf, d
    <2>2. UNCHANGED Held
      BY <2>1 DEF Held
    <2> QED
      BY <1>3, <2>2 DEF Contract!vars
  <1> QED
    BY <1>6, <1>7

\* Everything else is invisible to the contract.
LEMMA OtherContract ==
  ASSUME \/ NoteReply \/ RunCallback \/ (Environment /\ ~MachineTakes)
         \/ UNCHANGED vars
  PROVE  UNCHANGED Contract!vars
  <1>1. UNCHANGED <<step, outcome, taken>>
    BY DEF NoteReply, RunCallback, Environment, MachineRefuses, MachineMisses, MachineSleeps,
       MachineWakes, LinkDrops, clientVars, machineVars, vars
  <1> QED
    BY <1>1 DEF Contract!vars, Held, Accepted, Status, Slot, CodeOf

\* The send-and-confirm layer implements BrewContract, for any number of calls
\* with any scripts of distinct codes and any timing: the machine gets the steps
\* of a call one at a time and in order, and a call is reported as sent only
\* when the machine took them all.
THEOREM ImplementsContract ==
  ASSUME DistinctCodes, ~BusyElsewhere
  PROVE  Spec => KeepsContract
  <1>1. Init => Contract!Init
    BY InitContract
  <1>2. Inv /\ EnteredInv /\ [Next]_vars => [Contract!Next]_(Contract!vars)
    BY RunContract, TakeContract, OtherContract DEF Next, Environment
  <1>3. Spec => [](Inv /\ EnteredInv)
    BY InitInv, InvStep, InitEntered, EnteredStep, PTL DEF Spec
  <1> QED
    BY <1>1, <1>2, <1>3, PTL DEF Spec, KeepsContract, Contract!Spec

-----------------------------------------------------------------------------
(* The first answer *)

\* The way of an answer to slot s: on the air to the client, handed to the loop
\* for s, and in the _Reply.  Awaiting: the _Reply is registered, and nothing
\* was handed over yet.
OnItsWay(c) == \E k \in 1..Len(notif) : notif[k].code = c
Called(s) == \E k \in 1..Len(loopQ) : loopQ[k].slot = s
Awaiting(s) == echoWaiters[CodeOf(s)] = s /\ answers[s] = None /\ ~Called(s)

\* The oldest answer on that way is the machine's first: whatever follows, it is
\* the one that will be kept.
FirstCalled(s) ==
  \A k \in 1..Len(loopQ) : loopQ[k].slot = s =>
    \/ loopQ[k].verdict = firstVerdict[CodeOf(s)]
    \/ \E j \in 1..(k - 1) : loopQ[j].slot = s
FirstOnItsWay(s) ==
  \A k \in 1..Len(notif) : notif[k].code = CodeOf(s) =>
    \/ notif[k].verdict = firstVerdict[CodeOf(s)]
    \/ \E j \in 1..(k - 1) : notif[j].code = CodeOf(s)

\* And an awaited first answer is not lost as long as the link is up.
Chain(s) ==
  /\ firstVerdict[CodeOf(s)] = None => ~OnItsWay(CodeOf(s)) /\ ~Called(s) /\ answers[s] = None
  /\ answers[s] # None => answers[s] = firstVerdict[CodeOf(s)]
  /\ answers[s] = None => FirstCalled(s)
  /\ Awaiting(s) => FirstOnItsWay(s)
  /\ link /\ Awaiting(s) /\ ~OnItsWay(CodeOf(s)) => firstVerdict[CodeOf(s)] = None

SentOverLink == air # << >> => link

FirstInv ==
  /\ EnteredInv /\ WaiterInv /\ HeardInv /\ SentOverLink
  /\ \A s \in Slots : Chain(s)

\* A step of a call: it awaits only an answer to a command nobody met yet.
LEMMA RunChain ==
  ASSUME FirstInv, NEW t \in Calls, Call(t) \/ Run(t), NEW s \in Slots
  PROVE  Chain(s)'
  <1>1. TypeInv /\ Chain(s)
    BY DEF FirstInv, EnteredInv
  <1>2. UNCHANGED <<loopQ, answers, notif, link, firstVerdict>>
    BY <1>1, RunWrites DEF machineVars
  <1>3. CodeOf(s) \in FrameCodes /\ CodeOf(s)' = CodeOf(s)
    BY SlotFacts DEF CodeOf
  <1>4. echoWaiters'[CodeOf(s)] = s =>
          echoWaiters[CodeOf(s)] = s \/ firstVerdict[CodeOf(s)] = None
    <2>1. echoWaiters \in [FrameCodes -> Slots \union {None}]
      BY <1>1 DEF TypeInv, TypeOK
    <2>2. CASE /\ pc[t] \notin InStep /\ pc[t] # "done" /\ Enter(t)
               /\ step[t] <= Len(Script[t]) /\ UNCHANGED step
      <3>1. SUFFICES ASSUME echoWaiters'[CodeOf(s)] = s, echoWaiters[CodeOf(s)] # s
                     PROVE  firstVerdict[CodeOf(s)] = None
        OBVIOUS
      <3>2. s = Slot(t)
        BY <1>3, <2>1, <2>2, <3>1 DEF Enter
      <3>3. s[1] = t /\ s[2] = step[t] /\ step[t] \in Nat
        BY <1>1, <3>2 DEF Slot, TypeInv, TypeOK
      <3>4. ~Entered(s)
        BY <2>2, <3>3 DEF Entered, InStep
      <3> QED
        BY <3>4 DEF FirstInv, EnteredInv, MetOnlyEntered
    <2>3. CASE Unregister(t)
      BY <1>3, <2>1, <2>3, NoneAssumption DEF Unregister
    <2> QED
      BY <1>1, <2>2, <2>3, RunMoves
  <1>5. Awaiting(s)' => Awaiting(s) \/ firstVerdict[CodeOf(s)] = None
    BY <1>2, <1>3, <1>4 DEF Awaiting, Called, Chain
  <1>6. /\ OnItsWay(CodeOf(s))' <=> OnItsWay(CodeOf(s))
        /\ Called(s)' <=> Called(s)
        /\ FirstCalled(s)' <=> FirstCalled(s)
        /\ FirstOnItsWay(s)' <=> FirstOnItsWay(s)
    BY <1>2, <1>3 DEF OnItsWay, Called, FirstCalled, FirstOnItsWay
  <1>7. ~OnItsWay(CodeOf(s)) => FirstOnItsWay(s)
    BY DEF OnItsWay, FirstOnItsWay
  <1> QED
    BY <1>1, <1>2, <1>3, <1>5, <1>6, <1>7 DEF Chain

\* note_reply drops an answer nobody waits for, and hands the first one over.
LEMMA NoteChain ==
  ASSUME DistinctCodes, FirstInv, NoteReply, NEW s \in Slots
  PROVE  Chain(s)'
  <1> DEFINE c == CodeOf(s)
             f == Head(notif)
             w == echoWaiters[f.code]
             cb == [slot |-> w, verdict |-> f.verdict]
  <1>1. /\ TypeInv /\ Chain(s)
        /\ UNCHANGED <<answers, echoWaiters, link, firstVerdict>>
    BY DEF FirstInv, EnteredInv, NoteReply, clientVars, machineVars
  <1>2. /\ notif \in Seq(Frames) /\ notif # << >> /\ notif' = Tail(notif)
        /\ loopQ \in Seq(Callbacks) /\ f \in Frames /\ f.code \in FrameCodes
        /\ loopQ' = IF w = None THEN loopQ ELSE Append(loopQ, cb)
    <2>1. notif \in Seq(Frames) /\ loopQ \in Seq(Callbacks)
      BY <1>1 DEF TypeInv, TypeOK
    <2>2. notif # << >> /\ notif' = Tail(notif)
          /\ loopQ' = IF w = None THEN loopQ ELSE Append(loopQ, cb)
      BY DEF NoteReply
    <2>3. f \in Frames
      BY <2>1, <2>2, QueueTail
    <2> QED
      BY <2>1, <2>2, <2>3 DEF Frames
  <1>3. w # None => w \in Slots /\ CodeOf(w) = f.code /\ cb \in Callbacks
    <2>1. echoWaiters \in [FrameCodes -> Slots \union {None}] /\ RoutedByCode
      BY <1>1 DEF FirstInv, WaiterInv, TypeInv, TypeOK
    <2>2. f.verdict \in Verdicts
      BY <1>2 DEF Frames
    <2>3. w # None => w \in Slots /\ CodeOf(w) = f.code
      BY <1>2, <2>1 DEF RoutedByCode
    <2> QED
      BY <2>2, <2>3 DEF Callbacks
  <1>4. /\ Len(notif) \in Nat /\ f = notif[1] /\ 1 \in 1..Len(notif)
        /\ Len(notif') = Len(notif) - 1
        /\ \A k \in 1..Len(notif') : k + 1 \in 1..Len(notif) /\ notif'[k] = notif[k + 1]
    BY <1>2, QueueTail
  <1>5. /\ Len(loopQ) \in Nat
        /\ w = None => loopQ' = loopQ
        /\ w # None => /\ Len(loopQ') = Len(loopQ) + 1
                       /\ \A k \in 1..Len(loopQ') :
                            loopQ'[k] = IF k = Len(loopQ) + 1 THEN cb ELSE loopQ[k]
    BY <1>2, <1>3, QueueAppend
  <1>6. cb.slot = w /\ cb.verdict = f.verdict
    OBVIOUS
  <1>7. c' = c /\ s # None
    BY NoneAssumption DEF CodeOf
  <1> HIDE DEF c, f, w, cb
  <1>8. CASE f.code # c
    <2>1. w # s
      BY <1>3, <1>7, <1>8 DEF c
    <2>2. Called(s)' <=> Called(s)
      BY <1>5, <1>6, <2>1 DEF Called
    <2>3. OnItsWay(c)' <=> OnItsWay(c)
      <3>1. \A k \in 1..Len(notif) : notif[k].code = c => k - 1 \in 1..Len(notif')
                                                          /\ notif'[k - 1] = notif[k]
        BY <1>4, <1>8
      <3> QED
        BY <1>4, <1>7, <3>1 DEF OnItsWay
    <2>4. FirstCalled(s) => FirstCalled(s)'
      BY <1>1, <1>5, <1>6, <1>7, <2>1 DEF FirstCalled, c
    <2>5. FirstOnItsWay(s) => FirstOnItsWay(s)'
      <3>1. SUFFICES ASSUME FirstOnItsWay(s), NEW k \in 1..Len(notif'), notif'[k].code = c,
                            notif'[k].verdict # firstVerdict[c]
                     PROVE  \E j \in 1..(k - 1) : notif'[j].code = c
        BY <1>1, <1>7 DEF FirstOnItsWay, c
      <3>2. k + 1 \in 1..Len(notif) /\ notif'[k] = notif[k + 1]
        BY <1>4
      <3>3. PICK j \in 1..k : notif[j].code = c
        BY <3>1, <3>2 DEF FirstOnItsWay, c
      <3>4. j - 1 \in 1..(k - 1) /\ notif'[j - 1] = notif[j]
        BY <1>4, <1>8, <3>2, <3>3
      <3> QED
        BY <3>3, <3>4
    <2> QED
      BY <1>1, <1>7, <2>2, <2>3, <2>4, <2>5 DEF Chain, Awaiting, c
  <1>9. CASE f.code = c
    <2>1. firstVerdict[c] # None
      BY <1>1, <1>4, <1>9 DEF Chain, OnItsWay, c
    <2>2. CASE w = None
      <3>1. ~Awaiting(s)' /\ (FirstCalled(s) => FirstCalled(s)')
        BY <1>1, <1>5, <1>7, <1>9, <2>2 DEF Awaiting, FirstCalled, c, w
      <3> QED
        BY <1>1, <1>7, <2>1, <3>1 DEF Chain, c
    <2>3. CASE w # None
      <3>1. w = s
        BY <1>3, <1>9, <2>3 DEF DistinctCodes, c
      <3>2. Len(loopQ) + 1 \in 1..Len(loopQ') /\ loopQ'[Len(loopQ) + 1] = cb
        BY <1>5, <2>3
      <3>3. Called(s)'
        BY <1>6, <3>1, <3>2 DEF Called
      <3>4. answers[s] = None => FirstCalled(s)'
        <4>1. SUFFICES ASSUME answers[s] = None, NEW k \in 1..Len(loopQ'), loopQ'[k].slot = s,
                              loopQ'[k].verdict # firstVerdict[c]
                       PROVE  \E j \in 1..(k - 1) : loopQ'[j].slot = s
          BY <1>1, <1>7 DEF FirstCalled, c
        <4>2. CASE k = Len(loopQ) + 1
          <5>1. f.verdict # firstVerdict[c]
            BY <1>6, <3>2, <4>1, <4>2
          <5>2. ~FirstOnItsWay(s)
            BY <1>4, <1>9, <5>1 DEF FirstOnItsWay, c
          <5>3. echoWaiters[c] = s
            BY <1>9, <3>1 DEF w
          <5>4. PICK j \in 1..Len(loopQ) : loopQ[j].slot = s
            BY <1>1, <4>1, <5>2, <5>3 DEF Chain, Awaiting, Called, c
          <5>5. j \in 1..(k - 1) /\ loopQ'[j] = loopQ[j]
            BY <1>5, <2>3, <4>2, <5>4
          <5> QED
            BY <5>4, <5>5
        <4>3. CASE k # Len(loopQ) + 1
          <5>1. k \in 1..Len(loopQ) /\ loopQ'[k] = loopQ[k]
            BY <1>5, <2>3, <4>3
          <5>2. PICK j \in 1..(k - 1) : loopQ[j].slot = s
            BY <1>1, <4>1, <5>1 DEF Chain, FirstCalled, c
          <5>3. loopQ'[j] = loopQ[j]
            BY <1>5, <2>3, <5>1, <5>2
          <5> QED
            BY <5>2, <5>3
        <4> QED
          BY <4>2, <4>3
      <3> QED
        BY <1>1, <1>7, <2>1, <3>3, <3>4 DEF Chain, Awaiting, c
    <2> QED
      BY <2>2, <2>3
  <1> QED
    BY <1>8, <1>9

\* _Reply.answer keeps the first of what the loop hands it.
LEMMA CallbackChain ==
  ASSUME FirstInv, RunCallback, NEW s \in Slots
  PROVE  Chain(s)'
  <1> DEFINE cb == Head(loopQ)
  <1>1. /\ TypeInv /\ Chain(s)
        /\ UNCHANGED <<notif, echoWaiters, link, firstVerdict>>
    BY DEF FirstInv, EnteredInv, RunCallback, machineVars
  <1>2. /\ loopQ \in Seq(Callbacks) /\ loopQ # << >> /\ loopQ' = Tail(loopQ)
        /\ answers \in [Slots -> Verdicts \union {None}]
        /\ answers' = [answers EXCEPT ![cb.slot] =
                         IF answers[cb.slot] = None THEN cb.verdict ELSE answers[cb.slot]]
    BY <1>1 DEF RunCallback, Answered, TypeInv, TypeOK
  <1>3. /\ Len(loopQ) \in Nat /\ cb = loopQ[1] /\ 1 \in 1..Len(loopQ) /\ cb \in Callbacks
        /\ Len(loopQ') = Len(loopQ) - 1
        /\ \A k \in 1..Len(loopQ') : k + 1 \in 1..Len(loopQ) /\ loopQ'[k] = loopQ[k + 1]
    BY <1>2, QueueTail
  <1>4. cb.slot \in Slots /\ cb.verdict \in Verdicts /\ cb.verdict # None
    BY <1>3, VerdictAssumption DEF Callbacks, Verdicts
  <1>5. /\ CodeOf(s)' = CodeOf(s)
        /\ OnItsWay(CodeOf(s))' <=> OnItsWay(CodeOf(s))
        /\ FirstOnItsWay(s)' <=> FirstOnItsWay(s)
    BY <1>1 DEF CodeOf, OnItsWay, FirstOnItsWay
  <1> HIDE DEF cb
  <1>6. CASE cb.slot = s
    <2>1. Called(s)
      BY <1>3, <1>6 DEF Called
    <2>2. firstVerdict[CodeOf(s)] # None
      BY <1>1, <2>1 DEF Chain
    <2>3. answers[s] = None => cb.verdict = firstVerdict[CodeOf(s)]
      BY <1>1, <1>3, <1>6 DEF Chain, FirstCalled
    <2>4. answers'[s] = firstVerdict[CodeOf(s)]
      BY <1>1, <1>2, <1>6, <2>3 DEF Chain
    <2> QED
      BY <1>1, <1>5, <2>2, <2>4 DEF Chain, Awaiting
  <1>7. CASE cb.slot # s
    <2>1. answers'[s] = answers[s]
      BY <1>2, <1>7
    <2>2. \A k \in 1..Len(loopQ) : loopQ[k].slot = s =>
            k - 1 \in 1..Len(loopQ') /\ loopQ'[k - 1] = loopQ[k]
      BY <1>3, <1>7
    <2>3. Called(s)' <=> Called(s)
      BY <1>3, <2>2 DEF Called
    <2>4. FirstCalled(s) => FirstCalled(s)'
      <3>1. SUFFICES ASSUME FirstCalled(s), NEW k \in 1..Len(loopQ'), loopQ'[k].slot = s,
                            loopQ'[k].verdict # firstVerdict[CodeOf(s)]
                     PROVE  \E j \in 1..(k - 1) : loopQ'[j].slot = s
        BY <1>1, <1>5 DEF FirstCalled
      <3>2. k + 1 \in 1..Len(loopQ) /\ loopQ'[k] = loopQ[k + 1]
        BY <1>3
      <3>3. PICK j \in 1..k : loopQ[j].slot = s
        BY <3>1, <3>2 DEF FirstCalled
      <3>4. j - 1 \in 1..(k - 1) /\ loopQ'[j - 1] = loopQ[j]
        BY <1>3, <2>2, <3>2, <3>3
      <3> QED
        BY <3>3, <3>4
    <2> QED
      BY <1>1, <1>5, <2>1, <2>3, <2>4 DEF Chain, Awaiting
  <1> QED
    BY <1>6, <1>7

\* What the machine emits is appended, or lost without a subscription.
LEMMA EmitAppends ==
  ASSUME TypeInv, NEW fs \in Seq(Frames), Emit(fs)
  PROVE  \/ ~subscribed /\ UNCHANGED notif
         \/ /\ subscribed
            /\ Len(notif) \in Nat /\ Len(fs) \in Nat /\ Len(notif') \in Nat
            /\ \A k \in 1..Len(notif) : k \in 1..Len(notif') /\ notif'[k] = notif[k]
            /\ \A k \in 1..Len(fs) : Len(notif) + k \in 1..Len(notif')
                                     /\ notif'[Len(notif) + k] = fs[k]
            /\ \A k \in 1..Len(notif') :
                 \/ k \in 1..Len(notif)
                 \/ k - Len(notif) \in 1..Len(fs) /\ notif'[k] = fs[k - Len(notif)]
  <1>1. notif \in Seq(Frames)
    BY DEF TypeInv, TypeOK
  <1>2. CASE subscribed
    <2>1. notif' = notif \o fs
      BY <1>2 DEF Emit
    <2> QED
      BY <1>1, <1>2, <2>1
  <1> QED
    BY <1>2 DEF Emit

\* A step of the machine that has nothing to do with the command of s.
LEMMA ElsewhereChain ==
  ASSUME FirstInv, NEW s \in Slots, UNCHANGED <<answers, loopQ, echoWaiters, link>>,
         firstVerdict'[CodeOf(s)] = firstVerdict[CodeOf(s)],
         \/ UNCHANGED notif
         \/ \E fs \in Seq(Frames) :
              Emit(fs) /\ \A k \in 1..Len(fs) : fs[k].code # CodeOf(s)
  PROVE  Chain(s)'
  <1> DEFINE c == CodeOf(s)
  <1>1. TypeInv /\ Chain(s) /\ c' = c
    BY DEF FirstInv, EnteredInv, CodeOf
  <1> HIDE DEF c
  <1>2. (Called(s)' <=> Called(s)) /\ (FirstCalled(s)' <=> FirstCalled(s))
    BY <1>1 DEF Called, FirstCalled, c
  <1>3. (OnItsWay(c)' <=> OnItsWay(c)) /\ (FirstOnItsWay(s) => FirstOnItsWay(s)')
    <2>1. CASE UNCHANGED notif
      BY <1>1, <2>1 DEF OnItsWay, FirstOnItsWay, c
    <2>2. ASSUME NEW fs \in Seq(Frames), Emit(fs), subscribed,
                 \A k \in 1..Len(fs) : fs[k].code # c
          PROVE  /\ OnItsWay(c)' <=> OnItsWay(c)
                 /\ FirstOnItsWay(s) => FirstOnItsWay(s)'
      <3>1. /\ Len(notif) \in Nat
            /\ \A k \in 1..Len(notif) : k \in 1..Len(notif') /\ notif'[k] = notif[k]
            /\ \A k \in 1..Len(notif') : notif'[k].code = c => k \in 1..Len(notif)
        <4>1. /\ Len(notif) \in Nat
              /\ \A k \in 1..Len(notif) : k \in 1..Len(notif') /\ notif'[k] = notif[k]
              /\ \A k \in 1..Len(notif') :
                   \/ k \in 1..Len(notif)
                   \/ k - Len(notif) \in 1..Len(fs) /\ notif'[k] = fs[k - Len(notif)]
          BY <1>1, <2>2, EmitAppends
        <4> QED
          BY <2>2, <4>1
      <3>2. OnItsWay(c)' <=> OnItsWay(c)
        BY <1>1, <3>1 DEF OnItsWay
      <3>3. ASSUME FirstOnItsWay(s), NEW k \in 1..Len(notif'), notif'[k].code = c,
                   notif'[k].verdict # firstVerdict[c]
            PROVE  \E j \in 1..(k - 1) : notif'[j].code = c
        <4>1. PICK j \in 1..(k - 1) : notif[j].code = c
          BY <3>1, <3>3 DEF FirstOnItsWay, c
        <4>2. j \in 1..Len(notif)
          BY <3>1, <3>3
        <4> QED
          BY <3>1, <4>1, <4>2
      <3> QED
        BY <1>1, <3>2, <3>3 DEF FirstOnItsWay, c
    <2>3. CASE UNCHANGED notif \/ subscribed
      BY <2>1, <2>2, <2>3 DEF c
    <2> QED
      BY <1>1, <2>3 DEF Emit
  <1> QED
    BY <1>1, <1>2, <1>3 DEF Chain, Awaiting, c

\* The machine answers the command of s: the first time nothing else is on the
\* way, and from then on a copy of the first answer is before it.
LEMMA AnswerChain ==
  ASSUME FirstInv, NEW s \in Slots, UNCHANGED <<answers, loopQ, echoWaiters, link>>,
         link, NEW v \in Verdicts,
         firstVerdict'[CodeOf(s)] = IF firstVerdict[CodeOf(s)] = None THEN v
                                    ELSE firstVerdict[CodeOf(s)],
         NEW fs \in Seq(Frames), Emit(fs),
         \E k \in 1..Len(fs) : fs[k].code = CodeOf(s),
         \A k \in 1..Len(fs) : fs[k].code = CodeOf(s) => fs[k].verdict = v
  PROVE  Chain(s)'
  <1> DEFINE c == CodeOf(s)
  <1>1. TypeInv /\ Chain(s) /\ c' = c /\ s # None /\ v # None /\ c \in FrameCodes
    BY SlotFacts, NoneAssumption, VerdictAssumption
    DEF FirstInv, EnteredInv, CodeOf, Verdicts
  <1> HIDE DEF c
  <1>2. (Called(s)' <=> Called(s)) /\ (Awaiting(s)' <=> Awaiting(s))
    BY <1>1 DEF Called, Awaiting, c
  <1>3. firstVerdict'[c] # None
    BY <1>1 DEF c
  <1>4. Awaiting(s) => subscribed
    <2>1. SUFFICES ASSUME Awaiting(s) PROVE subscribed
      OBVIOUS
    <2>2. pc[s[1]] \in InStep /\ s[1] \in Calls
      BY <1>1, <2>1, SlotFacts DEF Awaiting, FirstInv, WaiterInv, NoStrayWaiter, c
    <2> QED
      BY <2>2 DEF FirstInv, HeardInv
  <1>5. answers[s] # None => answers[s] = firstVerdict'[c]
    BY <1>1 DEF Chain, c
  <1>6. answers[s] = None => FirstCalled(s)'
    <2>1. CASE firstVerdict[c] = None
      <3>1. ~Called(s)'
        BY <1>1, <1>2, <2>1 DEF Chain, c
      <3> QED
        BY <3>1 DEF Called, FirstCalled
    <2>2. CASE firstVerdict[c] # None
      BY <1>1, <2>2 DEF Chain, FirstCalled, c
    <2> QED
      BY <2>1, <2>2
  <1>7. Awaiting(s) => OnItsWay(c)' /\ FirstOnItsWay(s)'
    <2>1. SUFFICES ASSUME Awaiting(s) PROVE OnItsWay(c)' /\ FirstOnItsWay(s)'
      OBVIOUS
    <2>2. /\ Len(notif) \in Nat /\ Len(fs) \in Nat /\ Len(notif') \in Nat
          /\ \A k \in 1..Len(notif) : k \in 1..Len(notif') /\ notif'[k] = notif[k]
          /\ \A k \in 1..Len(fs) : Len(notif) + k \in 1..Len(notif')
                                   /\ notif'[Len(notif) + k] = fs[k]
          /\ \A k \in 1..Len(notif') :
               \/ k \in 1..Len(notif)
               \/ k - Len(notif) \in 1..Len(fs) /\ notif'[k] = fs[k - Len(notif)]
      BY <1>1, <1>4, <2>1, EmitAppends
    <2>3. PICK i \in 1..Len(fs) : fs[i].code = c
      BY DEF c
    <2>4. OnItsWay(c)'
      BY <1>1, <2>2, <2>3 DEF OnItsWay
    <2>5. CASE firstVerdict[c] = None
      <3>1. ~OnItsWay(c) /\ firstVerdict'[c] = v
        BY <1>1, <2>5 DEF Chain, c
      <3>2. ASSUME NEW k \in 1..Len(notif'), notif'[k].code = c
            PROVE  notif'[k].verdict = v
        <4>1. k \notin 1..Len(notif)
          BY <2>2, <3>1, <3>2 DEF OnItsWay
        <4>2. k - Len(notif) \in 1..Len(fs) /\ notif'[k] = fs[k - Len(notif)]
          BY <2>2, <4>1
        <4> QED
          BY <3>2, <4>2 DEF c
      <3> QED
        BY <1>1, <2>4, <3>1, <3>2 DEF FirstOnItsWay, c
    <2>6. CASE firstVerdict[c] # None
      <3>1. firstVerdict'[c] = firstVerdict[c] /\ OnItsWay(c) /\ FirstOnItsWay(s)
        BY <1>1, <2>1, <2>6 DEF Chain, c
      <3>2. PICK j \in 1..Len(notif) : notif[j].code = c
        BY <3>1 DEF OnItsWay
      <3>3. ASSUME NEW k \in 1..Len(notif'), notif'[k].code = c,
                   notif'[k].verdict # firstVerdict[c]
            PROVE  \E n \in 1..(k - 1) : notif'[n].code = c
        <4>1. CASE k \in 1..Len(notif)
          <5>1. PICK n \in 1..(k - 1) : notif[n].code = c
            BY <2>2, <3>1, <3>3, <4>1 DEF FirstOnItsWay, c
          <5>2. n \in 1..Len(notif)
            BY <2>2, <4>1
          <5> QED
            BY <2>2, <5>1, <5>2
        <4>2. CASE k \notin 1..Len(notif)
          <5>1. k > Len(notif) /\ j <= Len(notif)
            BY <2>2, <4>2
          <5>2. j \in 1..(k - 1)
            BY <2>2, <5>1
          <5>3. notif'[j].code = c
            BY <2>2, <3>2
          <5> QED
            BY <5>2, <5>3
        <4> QED
          BY <4>1, <4>2
      <3> QED
        BY <1>1, <2>4, <3>1, <3>3 DEF FirstOnItsWay, c
    <2> QED
      BY <2>5, <2>6
  <1> QED
    BY <1>1, <1>2, <1>3, <1>5, <1>6, <1>7 DEF Chain, c

\* The machine answers the command of s, or does something that is none of its
\* business; a lost link takes along what was on the way.
LEMMA EnvironmentChain ==
  ASSUME DistinctCodes, FirstInv, Environment, NEW s \in Slots
  PROVE  Chain(s)'
  <1> DEFINE c == CodeOf(s)
             d == CodeOf(Head(air))
  <1>1. TypeInv /\ Chain(s) /\ c' = c /\ c \in Codes
    BY SlotFacts DEF FirstInv, EnteredInv, CodeOf
  <1>2. UNCHANGED <<answers, loopQ, echoWaiters>>
    BY <1>1, MachineMeets
  <1>3. air # << >> => link /\ d \in Codes /\ d \in FrameCodes
    BY <1>1, QueueTail, SlotFacts DEF FirstInv, SentOverLink, TypeInv, TypeOK
  <1>4. /\ \A e \in FrameCodes, v \in Verdicts :
             Frame(e, v) \in Frames /\ Frame(e, v).code = e /\ Frame(e, v).verdict = v
        /\ OK \in Verdicts /\ Refusals \subseteq Verdicts
        /\ Awake \in FrameCodes /\ Sleeping \in FrameCodes /\ Awake # c /\ Sleeping # c
    BY <1>1, NoticeAssumption DEF Frame, Frames, Verdicts, FrameCodes
  <1>5. firstVerdict \in [Codes -> Verdicts \union {None}]
    BY <1>1 DEF TypeInv, TypeOK
  <1> HIDE DEF c, d
  <1>6. ASSUME NEW v \in Verdicts, NEW fs \in Seq(Frames), air # << >>, Reply(d, v, fs),
               UNCHANGED link,
               \E k \in 1..Len(fs) : fs[k].code = d,
               \A k \in 1..Len(fs) : fs[k].code # Awake => fs[k].code = d /\ fs[k].verdict = v
        PROVE  Chain(s)'
    <2>1. firstVerdict' = [firstVerdict EXCEPT ![d] = IF firstVerdict[d] = None THEN v
                                                      ELSE firstVerdict[d]]
          /\ Emit(fs)
      BY <1>6 DEF Reply
    <2>2. CASE c = d
      <3>1. firstVerdict'[c] = IF firstVerdict[c] = None THEN v ELSE firstVerdict[c]
        BY <1>1, <1>5, <2>1, <2>2
      <3>2. \A k \in 1..Len(fs) : fs[k].code = c => fs[k].verdict = v
        BY <1>4, <1>6
      <3> QED
        BY <1>2, <1>3, <1>6, <2>1, <2>2, <3>1, <3>2, AnswerChain DEF c
    <2>3. CASE c # d
      <3>1. firstVerdict'[c] = firstVerdict[c]
        BY <1>1, <1>5, <2>1, <2>3
      <3>2. \A k \in 1..Len(fs) : fs[k].code # c
        BY <1>4, <1>6, <2>3
      <3> QED
        BY <1>2, <1>6, <2>1, <3>1, <3>2, ElsewhereChain DEF c
    <2> QED
      BY <2>2, <2>3
  <1>7. CASE MachineTakes
    <2> DEFINE fs == IF asleep THEN <<Frame(Awake, OK), Frame(d, OK)>> ELSE <<Frame(d, OK)>>
    <2>1. air # << >> /\ Reply(d, OK, fs) /\ UNCHANGED link
      BY <1>7 DEF MachineTakes, d
    <2>2. fs \in Seq(Frames) /\ \E k \in 1..Len(fs) : fs[k].code = d
      <3>1. CASE asleep
        <4>1. fs \in Seq(Frames) /\ 2 \in 1..Len(fs) /\ fs[2] = Frame(d, OK)
          BY <1>3, <1>4, <2>1, <3>1
        <4> QED
          BY <1>3, <1>4, <2>1, <4>1
      <3>2. CASE ~asleep
        <4>1. fs \in Seq(Frames) /\ 1 \in 1..Len(fs) /\ fs[1] = Frame(d, OK)
          BY <1>3, <1>4, <2>1, <3>2
        <4> QED
          BY <1>3, <1>4, <2>1, <4>1
      <3> QED
        BY <3>1, <3>2
    <2>3. \A k \in 1..Len(fs) : fs[k].code # Awake => fs[k].code = d /\ fs[k].verdict = OK
      BY <1>3, <1>4, <2>1
    <2> HIDE DEF fs
    <2> QED
      BY <1>4, <1>6, <2>1, <2>2, <2>3
  <1>8. CASE MachineRefuses
    <2>1. PICK r \in Refusals : Reply(d, r, <<Frame(d, r)>>)
      BY <1>8 DEF MachineRefuses, d
    <2>2. air # << >> /\ UNCHANGED link /\ r \in Verdicts
      BY <1>4, <1>8 DEF MachineRefuses
    <2>3. /\ <<Frame(d, r)>> \in Seq(Frames)
          /\ \E k \in 1..Len(<<Frame(d, r)>>) : <<Frame(d, r)>>[k].code = d
          /\ \A k \in 1..Len(<<Frame(d, r)>>) : /\ <<Frame(d, r)>>[k].code = d
                                                /\ <<Frame(d, r)>>[k].verdict = r
      BY <1>3, <1>4, <2>2
    <2> QED
      BY <1>6, <2>1, <2>2, <2>3
  <1>9. ASSUME UNCHANGED <<link, firstVerdict>>,
               UNCHANGED notif \/ \E a \in {Awake, Sleeping} : Emit(<<Frame(a, OK)>>)
        PROVE  Chain(s)'
    <2>1. \A a \in {Awake, Sleeping} : <<Frame(a, OK)>> \in Seq(Frames)
            /\ \A k \in 1..Len(<<Frame(a, OK)>>) : <<Frame(a, OK)>>[k].code # c
      BY <1>4
    <2> QED
      BY <1>2, <1>9, <2>1, ElsewhereChain DEF c
  <1>10. CASE MachineMisses \/ MachineSleeps \/ MachineWakes
    BY <1>9, <1>10 DEF MachineMisses, MachineSleeps, MachineWakes
  <1>11. CASE LinkDrops
    <2>1. Len(notif') = 0 /\ ~link' /\ UNCHANGED firstVerdict
      BY <1>11 DEF LinkDrops, machineVars
    <2>2. (Called(s)' <=> Called(s)) /\ (FirstCalled(s)' <=> FirstCalled(s))
      BY <1>1, <1>2, <2>1 DEF Called, FirstCalled, c
    <2>3. ~OnItsWay(c)' /\ FirstOnItsWay(s)'
      BY <2>1 DEF OnItsWay, FirstOnItsWay
    <2> QED
      BY <1>1, <1>2, <2>1, <2>2, <2>3 DEF Chain, Awaiting, c
  <1> QED
    BY <1>7, <1>8, <1>10, <1>11 DEF Environment

\* The chain of the first answer holds over every step.
LEMMA FirstStep ==
  ASSUME DistinctCodes
  PROVE  FirstInv /\ [Next]_vars => FirstInv'
  <1> SUFFICES ASSUME FirstInv, [Next]_vars PROVE FirstInv'
    OBVIOUS
  <1>1. TypeInv /\ EnteredInv' /\ WaiterInv' /\ HeardInv'
    BY EnteredStep, WaiterStep, HeardStep DEF FirstInv, EnteredInv
  <1>2. SentOverLink'
    <2>1. CASE UNCHANGED <<air, link>>
      BY <2>1 DEF FirstInv, SentOverLink
    <2>2. ASSUME NEW t \in Calls, Call(t) \/ Run(t) PROVE SentOverLink'
      BY <1>1, <2>2, RunWrites DEF FirstInv, SentOverLink
    <2>3. CASE Environment
      BY <2>3 DEF FirstInv, SentOverLink, Environment, MachineTakes, MachineRefuses,
         MachineMisses, MachineSleeps, MachineWakes, LinkDrops
    <2> QED
      BY <2>1, <2>2, <2>3 DEF Next, NoteReply, RunCallback, vars
  <1>3. ASSUME NEW s \in Slots PROVE Chain(s)'
    <2>1. CASE UNCHANGED vars
      BY <2>1 DEF FirstInv, Chain, Awaiting, Called, OnItsWay, FirstCalled, FirstOnItsWay, CodeOf,
         vars, clientVars, trackVars, machineVars
    <2> QED
      BY <2>1, RunChain, NoteChain, CallbackChain, EnvironmentChain DEF Next
  <1> QED
    BY <1>1, <1>2, <1>3 DEF FirstInv

\* Nothing is on the way before the first call.
LEMMA InitFirst == Init => FirstInv
  <1> SUFFICES ASSUME Init PROVE FirstInv
    OBVIOUS
  <1>1. EnteredInv /\ HeardInv
    BY InitEntered, InitHeard
  <1>2. WaiterInv
    BY <1>1 DEF Init, EnteredInv, WaiterInv, RoutedByCode, NoStrayWaiter
  <1>3. Len(notif) = 0 /\ Len(loopQ) = 0 /\ air = << >>
    BY DEF Init
  <1>4. ASSUME NEW s \in Slots PROVE Chain(s)
    <2>1. answers[s] = None /\ firstVerdict[CodeOf(s)] = None
      BY SlotFacts DEF Init
    <2> QED
      BY <1>3, <2>1 DEF Chain, OnItsWay, Called, FirstCalled, FirstOnItsWay
  <1> QED
    BY <1>1, <1>2, <1>3, <1>4 DEF FirstInv, SentOverLink

\* The verdict a step ends with is the machine's first answer to its command,
\* over any number of re-sends, later answers, answers nobody waited for any
\* more, and links lost with answers on the way.
THEOREM FirstAnswerIsKept ==
  ASSUME DistinctCodes
  PROVE  Spec => []FirstAnswerDecides
  <1>1. FirstInv => FirstAnswerDecides
    BY DEF FirstInv, Chain, FirstAnswerDecides
  <1> QED
    BY <1>1, InitFirst, FirstStep, PTL DEF Spec

=============================================================================
