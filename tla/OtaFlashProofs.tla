-------------------------- MODULE OtaFlashProofs --------------------------
(***************************************************************************)
(* What is proved of OtaFlash, for every number of blocks and retries and  *)
(* every modulus of the block numbers.                                     *)
(***************************************************************************)
EXTENDS OtaFlash, Integers, TLAPS

Tokens     == {"ack", "nak", "C"}
FrameTypes == {Start, Header} \union Numbers

\* An empty queue is a queue of anything.
LEMMA EmptyQueue == ASSUME NEW S PROVE << >> \in Seq(S)
  OBVIOUS

\* What the oldest element and the rest of a queue are.
LEMMA Dequeue ==
  ASSUME NEW S, NEW q \in Seq(S), q # << >>
  PROVE  /\ Head(q) \in S /\ Head(q) = q[1]
         /\ Tail(q) \in Seq(S)
         /\ Len(q) \in Nat /\ Len(q) > 0
         /\ Len(Tail(q)) = Len(q) - 1
         /\ \A i \in 1..Len(Tail(q)) : Tail(q)[i] = q[i + 1]
  OBVIOUS

\* The only queue of no elements is the empty one.
LEMMA NoElements == ASSUME NEW S, NEW q \in Seq(S), Len(q) = 0 PROVE q = << >>
  OBVIOUS

\* What a queue holds.
LEMMA Element == ASSUME NEW S, NEW q \in Seq(S), NEW n \in 1..Len(q) PROVE q[n] \in S
  OBVIOUS

\* What an append adds.
LEMMA Enqueue ==
  ASSUME NEW S, NEW q \in Seq(S), NEW e \in S
  PROVE  /\ Append(q, e) \in Seq(S)
         /\ Len(q) \in Nat
         /\ Len(Append(q, e)) = Len(q) + 1
         /\ \A i \in 1..Len(q) : Append(q, e)[i] = q[i]
         /\ Append(q, e)[Len(q) + 1] = e
  OBVIOUS

\* Consecutive block numbers differ modulo SeqMod.
LEMMA NumbersDiffer ==
  ASSUME NEW n \in Nat
  PROVE  n % SeqMod # (n + 1) % SeqMod
  <1> DEFINE q == n \div SeqMod
             p == (n + 1) \div SeqMod
             d == p - q
  <1>1. SeqMod \in Nat /\ SeqMod > 1
    BY OtaAssumption
  <1>2. q \in Int /\ p \in Int /\ n % SeqMod \in Int /\ (n + 1) % SeqMod \in Int
    BY <1>1
  <1>3. n - SeqMod * q = n % SeqMod /\ (n + 1) - SeqMod * p = (n + 1) % SeqMod
    BY <1>1, Z3
  <1> HIDE DEF q, p
  <1>4. SUFFICES ASSUME n % SeqMod = (n + 1) % SeqMod PROVE FALSE
    OBVIOUS
  <1>5. SeqMod * p = SeqMod * q + 1
    BY <1>1, <1>2, <1>3, <1>4
  <1>6. d \in Int /\ p = q + d
    BY <1>2
  <1> HIDE DEF d
  <1>7. SeqMod * (q + d) = SeqMod * q + SeqMod * d
    BY <1>1, <1>2, <1>6
  <1>8. SeqMod * d = 1
    BY <1>1, <1>2, <1>5, <1>6, <1>7
  <1>9. CASE d <= 0
    <2>1. SeqMod * d <= 0
      BY <1>1, <1>6, <1>9
    <2> QED
      BY <2>1, <1>8
  <1>10. CASE d >= 1
    <2>1. SeqMod * d >= SeqMod
      BY <1>1, <1>6, <1>10
    <2> QED
      BY <2>1, <1>1, <1>8
  <1> QED
    BY <1>6, <1>9, <1>10

-----------------------------------------------------------------------------
(* Types *)

\* The initial state is typed.
LEMMA InitTyped == Init => TypeOK
  <1> SUFFICES ASSUME Init PROVE TypeOK
    OBVIOUS
  <1>1. acks \in Seq({"ack", "nak"}) /\ back \in Seq({"ack", "nak", "C"})
    BY EmptyQueue DEF Init
  <1>2. air \in Seq({Start, Header} \union Numbers) /\ stored \in Seq(Numbers)
    BY EmptyQueue DEF Init
  <1>3. block \in Numbers /\ attempt \in 0..Retries /\ done \in 0..Blocks /\ flashes \in 0..MaxFlashes
    BY OtaAssumption DEF Init, Numbers
  <1>4. ready \in BOOLEAN /\ link \in BOOLEAN /\ session \in BOOLEAN /\ late \in BOOLEAN
    BY DEF Init
  <1>5. pc \in PCs /\ result \in Results
    BY DEF Init, PCs, Results
  <1> QED
    BY <1>1, <1>2, <1>3, <1>4, <1>5 DEF TypeOK

\* The calls of flash() keep the types; the counters stay within their bounds.
LEMMA FlasherTyped ==
  ASSUME TypeOK, Flash \/ Flasher
  PROVE  TypeOK'
  <1> USE OtaAssumption DEF TypeOK, PCs, Numbers, Results, flasherVars, notifyVars, receiverVars
  <1>1. \A e \in FrameTypes : Append(air, e) \in Seq(FrameTypes)
    BY DEF FrameTypes
  <1>2. acks # << >> => Tail(acks) \in Seq({"ack", "nak"})
    OBVIOUS
  <1>3. CASE Flash
    BY <1>3 DEF Flash, Goto
  <1>4. CASE Connect
    BY <1>4 DEF Connect, Goto
  <1>5. CASE Subscribe
    BY <1>5 DEF Subscribe, Goto
  <1>6. CASE WriteStart
    BY <1>1, <1>6 DEF WriteStart, Goto, Send, FrameTypes
  <1>7. CASE Polled
    BY <1>7 DEF Polled, Goto
  <1>8. CASE WriteHeader
    BY <1>1, <1>8 DEF WriteHeader, Goto, Send, FrameTypes
  <1>9. CASE WriteBlock
    BY <1>1, <1>9 DEF WriteBlock, Goto, Send, FrameTypes
  <1>10. CASE WriteRaises
    BY <1>10 DEF WriteRaises, End, Goto
  <1>11. CASE Acked
    BY <1>2, <1>11 DEF Acked, End, Goto
  <1>12. CASE Naked
    BY <1>2, <1>12 DEF Naked, ResendOrGiveUp, End, Goto
  <1>13. CASE TimerFires
    BY <1>13 DEF TimerFires, ResendOrGiveUp, End, Goto
  <1>14. CASE Disconnect
    BY <1>14, EmptyQueue DEF Disconnect, Goto
  <1> QED
    BY <1>3, <1>4, <1>5, <1>6, <1>7, <1>8, <1>9, <1>10, <1>11, <1>12, <1>13, <1>14 DEF Flasher

\* So do the notifications, the receiver and the link.
LEMMA ReceiverTyped ==
  ASSUME TypeOK, Notified \/ Receiver \/ LinkDrops
  PROVE  TypeOK'
  <1> USE OtaAssumption DEF TypeOK, PCs, Numbers, Results, flasherVars, notifyVars, receiverVars
  <1>1. \A e \in Tokens : Append(back, e) \in Seq(Tokens)
    BY DEF Tokens
  <1>2. air # << >> => Head(air) \in FrameTypes /\ Tail(air) \in Seq(FrameTypes)
    BY DEF FrameTypes
  <1>3. back # << >> => Tail(back) \in Seq(Tokens)
    BY DEF Tokens
  <1>4. CASE Notified
    <2>1. back' \in Seq({"ack", "nak", "C"})
      BY <1>3, <1>4 DEF Notified, Tokens
    <2>2. Head(back) \in {"ack", "nak"} => Append(acks, Head(back)) \in Seq({"ack", "nak"})
      BY Enqueue
    <2>3. acks' \in Seq({"ack", "nak"}) /\ ready' \in BOOLEAN
      BY <1>4, <2>2 DEF Notified
    <2> QED
      BY <1>4, <2>1, <2>3 DEF Notified
  <1>5. CASE TakeStart
    BY <1>1, <1>2, <1>5 DEF TakeStart, Answer, Tokens, FrameTypes
  <1>6. CASE TakeHeader
    BY <1>2, <1>6 DEF TakeHeader, FrameTypes
  <1>7. CASE TakeBlock
    <2>1. Head(air) \in Numbers
      BY <1>7 DEF TakeBlock
    <2>2. Append(stored, Head(air)) \in Seq(Numbers)
      BY <2>1, Enqueue
    <2>3. stored' \in Seq(1..Blocks)
      BY <1>7, <2>2 DEF TakeBlock
    <2> QED
      BY <1>1, <1>2, <1>7, <2>3 DEF TakeBlock, Answer, Tokens, FrameTypes
  <1>8. CASE RejectBlock
    BY <1>1, <1>2, <1>8 DEF RejectBlock, Answer, Tokens, FrameTypes
  <1>9. CASE LoseFrame
    BY <1>2, <1>9 DEF LoseFrame, FrameTypes
  <1>10. CASE LinkDrops
    BY <1>10, EmptyQueue DEF LinkDrops
  <1> QED
    BY <1>4, <1>5, <1>6, <1>7, <1>8, <1>9, <1>10 DEF Receiver

\* Every step, and a stutter, keeps the types.
LEMMA TypedStep == TypeOK /\ [Next]_vars => TypeOK'
  <1>1. CASE UNCHANGED vars
    BY <1>1 DEF TypeOK, vars, flasherVars, notifyVars, receiverVars
  <1> QED
    BY <1>1, FlasherTyped, ReceiverTyped DEF Next

\* Every variable of a flash keeps its domain: no block is written more than
\* Retries + 1 times, and progress stays within the blocks of the image.
THEOREM FlashTypeCorrect == Spec => []TypeOK
  <1> QED
    BY InitTyped, TypedStep, PTL DEF Spec

-----------------------------------------------------------------------------
(* The gate: at most one answer, or the block that will bring it, is under *)
(* way, it belongs to the block being sent, and only while it is awaited.  *)

NoAnswer(q) == \A j \in 1..Len(q) : q[j] = "C"

Silent == acks = << >> /\ NoAnswer(back)

BlockInAir == \A i \in 1..Len(air) : air[i] \in Numbers =>
  i = Len(air) /\ air[i] = block /\ pc = "await" /\ Silent

HeaderInAir == \A i \in 1..Len(air) : air[i] = Header =>
  block = 1 /\ done = 0 /\ Silent

AnswerInBack == \A j \in 1..Len(back) : back[j] # "C" =>
  /\ pc = "await" /\ acks = << >>
  /\ \A i \in 1..Len(back) : i # j => back[i] = "C"
  /\ back[j] = "ack" => Len(stored) >= block

AnswerInQueue == acks # << >> =>
  /\ pc = "await" /\ Len(acks) = 1 /\ NoAnswer(back)
  /\ acks[1] = "ack" => Len(stored) >= block

InSession == session => Len(stored) = block - 1 \/ Len(stored) = block

BeforeBlocks == pc \in {"connect", "notify", "start", "poll", "header"} => block = 1 /\ done = 0

Closed == pc \in {"idle", "connect"} => air = << >> /\ back = << >> /\ ~session

OkMeansDone == result = "ok" => pc \in {"closing", "idle"} /\ done = Blocks

Gate ==
  /\ TypeOK
  /\ BlockInAir /\ HeaderInAir /\ AnswerInBack /\ AnswerInQueue
  /\ InSession /\ BeforeBlocks /\ Closed /\ OkMeansDone
  /\ DoneMeansStored

\* Before anything was sent the gate holds.
LEMMA InitGate == Init => Gate
  <1> SUFFICES ASSUME Init PROVE Gate
    OBVIOUS
  <1>1. TypeOK
    BY InitTyped
  <1>2. \A q : q = << >> => Len(q) = 0
    OBVIOUS
  <1>3. Len(air) = 0 /\ Len(back) = 0 /\ Len(stored) = 0
    BY <1>2 DEF Init
  <1>4. BlockInAir /\ HeaderInAir /\ AnswerInBack /\ AnswerInQueue
    BY <1>3 DEF Init, BlockInAir, HeaderInAir, AnswerInBack, AnswerInQueue
  <1>5. InSession /\ BeforeBlocks /\ Closed /\ OkMeansDone
    BY DEF Init, InSession, BeforeBlocks, Closed, OkMeansDone
  <1>6. DoneMeansStored
    BY <1>3 DEF Init, DoneMeansStored
  <1> QED
    BY <1>1, <1>4, <1>5, <1>6 DEF Gate

\* While no answer is awaited none is under way, and no block is.
LEMMA Quiet ==
  ASSUME Gate, pc # "await"
  PROVE  Silent /\ \A i \in 1..Len(air) : air[i] \notin Numbers
  BY DEF Gate, BlockInAir, AnswerInBack, AnswerInQueue, Silent, NoAnswer

\* The steps of flash() that neither write nor read an answer keep the gate.
LEMMA PassiveGate ==
  ASSUME Gate, TypeOK',
         \/ Flash \/ Connect \/ Subscribe \/ Polled \/ WriteRaises \/ Disconnect
         \/ LinkDrops \/ UNCHANGED vars
  PROVE  Gate'
  <1> USE OtaAssumption DEF Gate, BlockInAir, HeaderInAir, AnswerInBack, AnswerInQueue,
          InSession, BeforeBlocks, Closed, OkMeansDone, DoneMeansStored, Silent, NoAnswer,
          flasherVars, notifyVars, receiverVars
  <1>1. Len(<< >>) = 0
    OBVIOUS
  <1>2. CASE Flash
    BY <1>1, <1>2, Quiet DEF Flash, Goto, TypeOK
  <1>3. CASE Connect
    BY <1>1, <1>3 DEF Connect, Goto
  <1>4. CASE Subscribe
    BY <1>4, Quiet DEF Subscribe, Goto
  <1>5. CASE Polled
    BY <1>5, Quiet DEF Polled, Goto
  <1>6. CASE WriteRaises
    BY <1>6, Quiet DEF WriteRaises, Goto, End
  <1>7. CASE Disconnect
    BY <1>1, <1>7, Quiet DEF Disconnect, Goto
  <1>8. CASE LinkDrops
    BY <1>1, <1>8 DEF LinkDrops
  <1>9. CASE UNCHANGED vars
    BY <1>9 DEF vars
  <1> QED
    BY <1>2, <1>3, <1>4, <1>5, <1>6, <1>7, <1>8, <1>9

\* A frame is written when nothing is under way that it could be confused with.
LEMMA WriteGate ==
  ASSUME Gate, TypeOK', WriteStart \/ WriteHeader \/ WriteBlock
  PROVE  Gate'
  <1> USE DEF Gate, HeaderInAir, AnswerInBack, AnswerInQueue,
          InSession, BeforeBlocks, Closed, OkMeansDone, DoneMeansStored, Silent, NoAnswer,
          flasherVars, notifyVars, receiverVars
  <1>1. air \in Seq(FrameTypes) /\ block \in FrameTypes
    BY DEF TypeOK, FrameTypes
  <1>2. Start \notin Numbers /\ Header \notin Numbers /\ Start # Header
    BY OtaAssumption DEF Numbers
  <1>3. CASE WriteStart
    <2>1. Start \in FrameTypes /\ air' = Append(air, Start)
      BY <1>3 DEF WriteStart, Send, FrameTypes
    <2> QED
      BY <1>1, <1>2, <1>3, <2>1, Enqueue, Quiet DEF WriteStart, Goto, BlockInAir
  <1>4. CASE WriteHeader
    <2>1. Header \in FrameTypes /\ air' = Append(air, Header)
      BY <1>4 DEF WriteHeader, Send, FrameTypes
    <2> QED
      BY <1>1, <1>2, <1>4, <2>1, Enqueue, Quiet DEF WriteHeader, Goto, BlockInAir
  <1>5. CASE WriteBlock
    <2>1. air' = Append(air, block) /\ pc = "write" /\ pc' = "await"
      BY <1>5 DEF WriteBlock, Send, Goto
    <2>2. BlockInAir'
      BY <1>1, <1>5, <2>1, Enqueue, Quiet DEF WriteBlock, BlockInAir
    <2>3. HeaderInAir'
      <3>1. block \in Numbers
        BY DEF TypeOK
      <3> QED
        BY <1>1, <1>2, <1>5, <2>1, <3>1, Enqueue, Quiet DEF WriteBlock
    <2> QED
      BY <1>1, <1>5, <2>1, <2>2, <2>3, Quiet DEF WriteBlock
  <1> QED
    BY <1>3, <1>4, <1>5

\* An answer read from the queue is the one to the block being sent; a timer that
\* fires finds nothing under way, if no answer is late.
LEMMA AwaitGate ==
  ASSUME Gate, TypeOK', ~late', Acked \/ Naked \/ TimerFires
  PROVE  Gate'
  <1> USE DEF Gate, HeaderInAir, AnswerInBack, AnswerInQueue,
          InSession, BeforeBlocks, Closed, OkMeansDone, DoneMeansStored, Silent, NoAnswer,
          flasherVars, notifyVars, receiverVars
  <1>1. block \in Nat /\ done \in Nat /\ Blocks \in Nat /\ Len(stored) \in Nat
    BY OtaAssumption DEF TypeOK, Numbers
  <1>2. ASSUME acks # << >>
        PROVE  /\ Tail(acks) = << >> /\ NoAnswer(back) /\ Head(acks) = acks[1]
               /\ \A i \in 1..Len(air) : air[i] \notin Numbers /\ air[i] # Header
    <2>1. acks \in Seq({"ack", "nak"}) /\ Len(acks) = 1
      BY <1>2 DEF TypeOK
    <2>2. Head(acks) = acks[1] /\ Tail(acks) \in Seq({"ack", "nak"}) /\ Len(Tail(acks)) = 0
      BY <1>2, <2>1, Dequeue
    <2>3. Tail(acks) = << >>
      BY <2>2, NoElements
    <2> QED
      BY <1>2, <2>2, <2>3 DEF BlockInAir
  <1>3. CASE Acked
    <2>1. Len(stored) >= block /\ acks' = << >> /\ done' = block
      BY <1>2, <1>3 DEF Acked
    <2>2. BlockInAir' /\ HeaderInAir' /\ AnswerInBack' /\ AnswerInQueue'
      BY <1>2, <1>3, <2>1 DEF Acked, BlockInAir
    <2>3. InSession' /\ BeforeBlocks' /\ Closed' /\ OkMeansDone'
      BY <1>1, <1>3, <2>1 DEF Acked, Goto, End
    <2>4. DoneMeansStored'
      BY <1>3, <2>1 DEF Acked
    <2> QED
      BY <2>2, <2>3, <2>4
  <1>4. ASSUME ResendOrGiveUp
        PROVE  /\ block' = block /\ done' = done
               /\ pc' \in {"write", "closing"} /\ (result' = "ok" => result = "ok")
    BY <1>4 DEF ResendOrGiveUp, Goto, End
  <1>5. CASE Naked
    <2>1. acks' = << >> /\ UNCHANGED <<air, back, session, stored>>
      BY <1>2, <1>5 DEF Naked
    <2>2. pc = "await" /\ ResendOrGiveUp /\ acks # << >>
      BY <1>5 DEF Naked
    <2> QED
      BY <1>2, <1>4, <2>1, <2>2 DEF BlockInAir
  <1>6. CASE TimerFires
    <2>1. air = << >> /\ back = << >> /\ acks = << >>
      BY <1>6 DEF TimerFires
    <2>2. UNCHANGED <<air, back, acks, session, stored>>
      BY <1>6 DEF TimerFires
    <2>3. pc = "await" /\ ResendOrGiveUp
      BY <1>6 DEF TimerFires
    <2> QED
      BY <1>4, <2>1, <2>2, <2>3 DEF BlockInAir
  <1> QED
    BY <1>3, <1>5, <1>6

\* An answer moves from the air to the queue.
LEMMA NotifiedGate ==
  ASSUME Gate, TypeOK', Notified
  PROVE  Gate'
  <1> USE DEF Gate, HeaderInAir, AnswerInBack, AnswerInQueue,
          InSession, BeforeBlocks, Closed, OkMeansDone, DoneMeansStored, Silent, NoAnswer,
          flasherVars, notifyVars, receiverVars
  <1>1. back \in Seq(Tokens) /\ acks \in Seq({"ack", "nak"}) /\ back # << >>
    BY DEF TypeOK, Tokens, Notified
  <1>2. /\ Head(back) = back[1] /\ Len(back) \in Nat /\ Len(back) > 0
        /\ back' = Tail(back) /\ Len(back') = Len(back) - 1
        /\ \A i \in 1..Len(back') : back'[i] = back[i + 1]
    BY <1>1, Dequeue DEF Notified
  <1>3. UNCHANGED <<flasherVars, link, air, receiverVars>>
    BY DEF Notified
  <1>4. CASE Head(back) = "C"
    <2>1. acks' = acks
      BY <1>4 DEF Notified
    <2>2. AnswerInBack'
      BY <1>2, <1>3, <2>1
    <2> QED
      BY <1>2, <1>3, <2>1, <2>2 DEF BlockInAir
  <1>5. CASE Head(back) # "C"
    <2>1. /\ pc = "await" /\ acks = << >> /\ \A i \in 2..Len(back) : back[i] = "C"
          /\ Head(back) = "ack" => Len(stored) >= block
      BY <1>2, <1>5
    <2>2. acks' = Append(acks, Head(back)) /\ Head(back) \in {"ack", "nak"}
      BY <1>5 DEF Notified
    <2>3. Len(acks') = 1 /\ acks'[1] = Head(back)
      BY <1>1, <2>1, <2>2
    <2>4. NoAnswer(back')
      BY <1>2, <2>1
    <2>5. \A i \in 1..Len(air) : air[i] \notin Numbers /\ air[i] # Header
      BY <1>2, <1>5 DEF BlockInAir
    <2> QED
      BY <1>2, <1>3, <2>1, <2>3, <2>4, <2>5 DEF BlockInAir
  <1> QED
    BY <1>4, <1>5

\* The receiver takes a frame that is not a block, or loses any.
LEMMA TakeGate ==
  ASSUME Gate, TypeOK', TakeStart \/ TakeHeader \/ LoseFrame
  PROVE  Gate'
  <1> USE DEF Gate, BlockInAir, HeaderInAir, AnswerInBack, AnswerInQueue,
          InSession, BeforeBlocks, Closed, OkMeansDone, DoneMeansStored, Silent, NoAnswer,
          flasherVars, notifyVars, receiverVars
  <1>1. air \in Seq(FrameTypes) /\ air # << >>
    BY DEF TypeOK, FrameTypes, TakeStart, TakeHeader, LoseFrame
  <1>2. /\ Head(air) = air[1] /\ Len(air) \in Nat /\ Len(air) > 0
        /\ air' = Tail(air) /\ Len(air') = Len(air) - 1
        /\ \A i \in 1..Len(air') : air'[i] = air[i + 1] /\ i + 1 \in 1..Len(air)
    <2>1. air' = Tail(air)
      BY DEF TakeStart, TakeHeader, LoseFrame
    <2>2. /\ Head(air) = air[1] /\ Len(air) \in Nat /\ Len(air) > 0
          /\ Len(Tail(air)) = Len(air) - 1
          /\ \A i \in 1..Len(Tail(air)) : Tail(air)[i] = air[i + 1]
      BY <1>1, Dequeue
    <2> QED
      BY <2>1, <2>2
  <1>3. CASE LoseFrame
    <2>1. UNCHANGED <<flasherVars, notifyVars, link, back, receiverVars>>
      BY <1>3 DEF LoseFrame
    <2>2. BlockInAir' /\ HeaderInAir'
      BY <1>2, <2>1
    <2> QED
      BY <1>1, <2>1, <2>2
  <1>4. CASE TakeStart
    <2>1. /\ back \in Seq(Tokens) /\ "C" \in Tokens
          /\ back' = Append(back, "C") \/ back' = back
      BY <1>4 DEF TakeStart, Answer, TypeOK, Tokens
    <2>2. /\ Len(back) \in Nat
          /\ Len(back') = Len(back) \/ (Len(back') = Len(back) + 1 /\ back'[Len(back) + 1] = "C")
          /\ \A i \in 1..Len(back) : back'[i] = back[i]
      BY <2>1, Enqueue
    <2>3. \A i \in 1..Len(back') : back'[i] # "C" => i \in 1..Len(back) /\ back'[i] = back[i]
      BY <2>2
    <2>4. UNCHANGED <<flasherVars, notifyVars, link, receiverVars>>
      BY <1>4 DEF TakeStart
    <2>5. Silent => Silent'
      BY <2>3, <2>4
    <2>6. BlockInAir' /\ HeaderInAir'
      BY <1>2, <2>4, <2>5
    <2>7. AnswerInBack' /\ AnswerInQueue'
      BY <2>3, <2>4
    <2> QED
      BY <1>1, <2>4, <2>6, <2>7
  <1>5. CASE TakeHeader
    <2>1. air[1] = Header /\ 1 \in 1..Len(air)
      BY <1>2, <1>5 DEF TakeHeader
    <2>2. block = 1 /\ done = 0 /\ Silent
      BY <2>1
    <2>3. stored' = << >> /\ Len(stored') = 0
      BY <1>5 DEF TakeHeader
    <2>4. UNCHANGED <<flasherVars, notifyVars, link, back>>
      BY <1>5 DEF TakeHeader
    <2>5. BlockInAir' /\ HeaderInAir'
      BY <1>2, <2>4
    <2>6. AnswerInBack' /\ AnswerInQueue'
      BY <2>2, <2>4
    <2>7. InSession' /\ DoneMeansStored'
      BY <2>2, <2>3, <2>4
    <2>8. BeforeBlocks' /\ Closed' /\ OkMeansDone'
      BY <1>1, <2>4
    <2> QED
      BY <2>5, <2>6, <2>7, <2>8
  <1> QED
    BY <1>3, <1>4, <1>5

\* An answer sent when none is under way is the only one.
LEMMA OneAnswer ==
  ASSUME NEW q \in Seq(Tokens), NoAnswer(q), NEW e \in Tokens,
         NEW r, r = q \/ r = Append(q, e)
  PROVE  \A j \in 1..Len(r) : r[j] # "C" =>
           r[j] = e /\ \A i \in 1..Len(r) : i # j => r[i] = "C"
  <1>1. CASE r = q
    BY <1>1 DEF NoAnswer
  <1>2. CASE r = Append(q, e)
    <2>1. /\ Len(q) \in Nat /\ Len(r) = Len(q) + 1 /\ r[Len(q) + 1] = e
          /\ \A i \in 1..Len(q) : r[i] = q[i]
      BY <1>2, Enqueue
    <2>2. \A i \in 1..Len(r) : i = Len(q) + 1 \/ r[i] = "C"
      BY <2>1 DEF NoAnswer
    <2> QED
      BY <2>1, <2>2
  <1> QED
    BY <1>1, <1>2

\* The receiver takes or rejects the block being sent: it stores it unless it has
\* it, so that an ACK says it is stored.
LEMMA BlockGate ==
  ASSUME Gate, TypeOK', TakeBlock \/ RejectBlock
  PROVE  Gate'
  <1>0. NoAnswer(back) /\ back \in Seq(Tokens) =>
          \A e \in Tokens : back' = back \/ back' = Append(back, e) =>
            \A j \in 1..Len(back') : back'[j] # "C" =>
              back'[j] = e /\ \A i \in 1..Len(back') : i # j => back'[i] = "C"
    BY OneAnswer
  <1> USE DEF Gate, BlockInAir, HeaderInAir, AnswerInBack, AnswerInQueue,
          InSession, BeforeBlocks, Closed, OkMeansDone, DoneMeansStored, Silent, NoAnswer,
          flasherVars, notifyVars, receiverVars
  <1>1. air \in Seq(FrameTypes) /\ air # << >> /\ back \in Seq(Tokens) /\ block \in Numbers
    BY DEF TypeOK, FrameTypes, Tokens, TakeBlock, RejectBlock
  <1>2. /\ Head(air) = air[1] /\ Len(air) \in Nat /\ Len(air) > 0
        /\ air' = Tail(air) /\ Len(air') = Len(air) - 1
    BY <1>1, Dequeue DEF TakeBlock, RejectBlock
  <1>3. air[1] \in Numbers /\ 1 \in 1..Len(air)
    BY <1>2 DEF TakeBlock, RejectBlock
  <1>4. Len(air) = 1 /\ Head(air) = block /\ pc = "await" /\ Silent /\ Len(air') = 0
    <2>1. 1 = Len(air) /\ air[1] = block /\ pc = "await" /\ acks = << >> /\ NoAnswer(back)
      BY <1>3
    <2> QED
      BY <1>2, <2>1
  <1>5. UNCHANGED <<flasherVars, notifyVars, link, session>>
    BY DEF TakeBlock, RejectBlock
  <1>6. \E token \in {"ack", "nak"} : Answer(token) /\ (token = "ack" => TakeBlock)
    BY DEF TakeBlock, RejectBlock
  <1>7. PICK token \in {"ack", "nak"} : Answer(token) /\ (token = "ack" => TakeBlock)
    BY <1>6
  <1>8. \A j \in 1..Len(back') : back'[j] # "C" =>
          back'[j] = token /\ \A i \in 1..Len(back') : i # j => back'[i] = "C"
    <2>1. token \in Tokens /\ (back' = back \/ back' = Append(back, token))
      BY <1>7 DEF Answer, Tokens
    <2>2. NoAnswer(back) /\ back \in Seq(Tokens)
      BY <1>1, <1>4
    <2> HIDE DEF Gate, NoAnswer, AnswerInBack, Silent
    <2> QED
      BY <1>0, <2>1, <2>2
  <1>9. ASSUME TakeBlock
        PROVE  /\ Len(stored') = block /\ Len(stored') >= Len(stored)
               /\ \A j \in 1..Len(stored') : stored'[j] = j
    <2>1. /\ session /\ stored \in Seq(Numbers) /\ block \in Nat \ {0} /\ block <= Blocks
          /\ Blocks \in Nat /\ Len(stored) \in Nat
      BY <1>9, OtaAssumption DEF TakeBlock, TypeOK, Numbers
    <2>2. Len(stored) = block - 1 \/ Len(stored) = block
      BY <2>1
    <2>3. CASE Expected(block) /\ stored' = Append(stored, block)
      <3>1. Len(stored) = block - 1
        <4>1. CASE block = Blocks
          BY <2>1, <2>3, <4>1 DEF Expected
        <4>2. CASE block # Blocks
          BY <2>1, <2>2, <2>3, <4>2, NumbersDiffer DEF Expected, Number
        <4> QED
          BY <4>1, <4>2
      <3> QED
        BY <1>1, <2>1, <2>3, <3>1, Enqueue
    <2>4. CASE Repeated(block) /\ stored' = stored
      <3>1. Len(stored) = block
        <4>1. CASE block = Blocks
          BY <2>1, <2>4, <4>1 DEF Repeated
        <4>2. CASE block # Blocks
          <5>1. block - 1 \in Nat /\ (block - 1) + 1 = block
            BY <2>1
          <5>2. (block - 1) % SeqMod # block % SeqMod
            BY <5>1, NumbersDiffer
          <5> QED
            BY <2>1, <2>2, <2>4, <4>2, <5>2 DEF Repeated, Number
        <4> QED
          BY <4>1, <4>2
      <3> QED
        BY <2>1, <2>4, <3>1
    <2> QED
      BY <1>4, <1>9, <2>3, <2>4 DEF TakeBlock
  <1>10. TakeBlock \/ stored' = stored
    BY DEF RejectBlock
  <1>11. BlockInAir' /\ HeaderInAir'
    BY <1>4
  <1>12. AnswerInBack' /\ AnswerInQueue'
    BY <1>1, <1>4, <1>5, <1>7, <1>8, <1>9 DEF Numbers
  <1>13. InSession' /\ BeforeBlocks' /\ Closed' /\ OkMeansDone'
    BY <1>4, <1>5, <1>9, <1>10
  <1>14. DoneMeansStored'
    <2>1. done \in Nat /\ Len(stored) \in Nat /\ Len(stored') \in Nat
      BY OtaAssumption DEF TypeOK
    <2> QED
      BY <1>5, <1>9, <1>10, <2>1
  <1> QED
    BY <1>11, <1>12, <1>13, <1>14

\* No answer was late unless one was already, or the timer has just overtaken one.
LEMMA LateStays == [Next]_vars /\ ~late' => ~late
  BY DEF Next, Flasher, Receiver, Flash, Connect, Subscribe, WriteStart, Polled, WriteHeader,
         WriteBlock, WriteRaises, Acked, Naked, TimerFires, Disconnect, Notified, TakeStart,
         TakeHeader, TakeBlock, RejectBlock, LoseFrame, LinkDrops, vars

\* Every step keeps the gate, if no answer is late.
LEMMA GateStep == ~late' /\ Gate /\ [Next]_vars => Gate'
  <1> SUFFICES ASSUME ~late', Gate, [Next]_vars PROVE Gate'
    OBVIOUS
  <1>1. TypeOK'
    BY TypedStep DEF Gate
  <1>2. CASE Next
    BY <1>1, <1>2, PassiveGate, WriteGate, AwaitGate, NotifiedGate, TakeGate, BlockGate
    DEF Next, Flasher, Receiver
  <1>3. CASE UNCHANGED vars
    BY <1>1, <1>3, PassiveGate
  <1> QED
    BY <1>2, <1>3

\* The gate holds until an answer is late.
LEMMA GateHolds == Spec => [](~late => Gate)
  <1>1. Init => (~late => Gate)
    BY InitGate
  <1>2. (~late => Gate) /\ [Next]_vars => (~late => Gate)'
    BY GateStep, LateStays
  <1> QED
    BY <1>1, <1>2, PTL DEF Spec

\* A block reported as done is stored, in its place and once, as long as no answer
\* comes after ack_timeout: for images of any length, over NAKs, lost blocks, lost
\* answers, re-sends, reconnects and wrapped block numbers.
THEOREM ProgressIsStored == Spec => []StoredUnlessLate
  <1>1. (~late => Gate) => StoredUnlessLate
    BY DEF Gate, StoredUnlessLate
  <1> QED
    BY <1>1, GateHolds, PTL

\* And a flash that returned left the whole image in the receiver.
THEOREM FlashIsWhole == Spec => []WholeUnlessLate
  <1>1. (~late => Gate) => WholeUnlessLate
    <2> SUFFICES ASSUME Gate, result = "ok" PROVE Len(stored) = Blocks
      BY DEF WholeUnlessLate, FlashedMeansWhole
    <2>1. Len(stored) >= Blocks /\ Len(stored) \in Nat /\ Blocks \in Nat
      BY OtaAssumption DEF Gate, OkMeansDone, DoneMeansStored, TypeOK
    <2>2. Len(stored) > 0 => stored[Len(stored)] = Len(stored) /\ stored[Len(stored)] \in 1..Blocks
      <3>1. stored \in Seq(1..Blocks)
        BY DEF Gate, TypeOK, Numbers
      <3>2. \A j \in 1..Len(stored) : stored[j] = j
        BY DEF Gate, DoneMeansStored
      <3>3. \A j \in 1..Len(stored) : stored[j] \in 1..Blocks
        BY <3>1, Element
      <3>4. Len(stored) > 0 => Len(stored) \in 1..Len(stored)
        BY <2>1
      <3> QED
        BY <3>2, <3>3, <3>4, Zenon
    <2> QED
      BY <2>1, <2>2
  <1> QED
    BY <1>1, GateHolds, PTL

-----------------------------------------------------------------------------
(* The abstract transfer *)

\* While a flash runs, it has reported the blocks before the one it is at.
Lockstep ==
  /\ pc \in {"connect", "notify", "start", "poll", "header"} => block = 1 /\ done = 0
  /\ pc \in {"write", "await"} => done = block - 1
  /\ pc \notin {"idle", "closing"} => result = "none"

LEMMA LockstepHolds == Spec => []Lockstep
  <1>1. Init => Lockstep
    BY DEF Init, Lockstep
  <1>2. TypeOK /\ Lockstep /\ [Next]_vars => Lockstep'
    <2> SUFFICES ASSUME TypeOK, Lockstep, [Next]_vars PROVE Lockstep'
      OBVIOUS
    <2>0. block \in Nat
      BY OtaAssumption DEF TypeOK, Numbers
    <2>1. CASE Flash \/ Connect \/ Subscribe \/ WriteStart \/ Polled \/ WriteHeader \/ WriteBlock
      BY <2>1 DEF Flash, Connect, Subscribe, WriteStart, Polled, WriteHeader, WriteBlock, Send,
                  Goto, Lockstep
    <2>2. CASE WriteRaises \/ Disconnect
      BY <2>2 DEF WriteRaises, Disconnect, End, Goto, Lockstep
    <2>3. CASE Acked
      BY <2>0, <2>3 DEF Acked, End, Goto, Lockstep
    <2>4. CASE Naked \/ TimerFires
      BY <2>4 DEF Naked, TimerFires, ResendOrGiveUp, End, Goto, Lockstep
    <2>5. CASE Notified \/ Receiver \/ LinkDrops \/ UNCHANGED vars
      BY <2>5 DEF Notified, Receiver, TakeStart, TakeHeader, TakeBlock, RejectBlock, LoseFrame,
                  LinkDrops, flasherVars, vars, Lockstep
    <2> QED
      BY <2>1, <2>2, <2>3, <2>4, <2>5 DEF Next, Flasher
  <1> QED
    BY <1>1, <1>2, FlashTypeCorrect, PTL DEF Spec

\* What the steps of flash() are to its caller.
LEMMA FlasherGated ==
  ASSUME Gate, Lockstep, ~late, ~late', Flash \/ Flasher
  PROVE  [Gated!Next]_(Gated!vars)
  <1>0. done \in Nat /\ block \in Nat /\ block <= Blocks /\ Blocks \in Nat /\ Blocks > 0
    BY OtaAssumption DEF Gate, TypeOK, Numbers
  <1>1. CASE Flash
    <2>1. Gated!Begin
      BY <1>1 DEF Flash, receiverVars, Gated!Begin
    <2> QED
      BY <2>1 DEF Gated!Next
  <1>2. ASSUME pc \notin {"idle", "closing"}, result' \in {"failed", "raised"},
               UNCHANGED <<stored, done>>
        PROVE  [Gated!Next]_(Gated!vars)
    <2>1. result = "none" /\ done < Blocks
      BY <1>0, <1>2 DEF Lockstep, Gate, TypeOK, PCs
    <2>2. Gated!Fail
      BY <1>2, <2>1 DEF Gated!Fail
    <2> QED
      BY <2>2 DEF Gated!Next
  <1>3. ASSUME UNCHANGED <<stored, done, result>>
        PROVE  [Gated!Next]_(Gated!vars)
    BY <1>3 DEF Gated!vars
  <1>4. CASE Connect \/ Subscribe \/ WriteStart \/ Polled \/ WriteHeader \/ WriteBlock
    BY <1>2, <1>3, <1>4 DEF Connect, Subscribe, WriteStart, Polled, WriteHeader, WriteBlock,
                            Goto, receiverVars
  <1>5. CASE WriteRaises
    BY <1>2, <1>5 DEF WriteRaises, End, Goto, receiverVars
  <1>6. CASE Disconnect
    BY <1>3, <1>6 DEF Disconnect
  <1>7. CASE Naked \/ TimerFires
    BY <1>2, <1>3, <1>7 DEF Naked, TimerFires, ResendOrGiveUp, End, Goto, receiverVars
  <1>8. CASE Acked
    <2>1. /\ pc = "await" /\ acks # << >> /\ Head(acks) = "ack"
          /\ done' = block /\ UNCHANGED stored
          /\ result' = IF block = Blocks THEN "ok" ELSE result
      BY <1>0, <1>8 DEF Acked, End, Goto, receiverVars
    <2>2. result = "none" /\ done = block - 1
      BY <2>1 DEF Lockstep
    <2>3. acks[1] = "ack"
      BY <2>1, Dequeue DEF Gate, TypeOK
    <2>4. Len(stored) >= block /\ Len(stored) \in Nat
      BY <2>1, <2>3 DEF Gate, AnswerInQueue, TypeOK
    <2>5. done < Len(stored) /\ done' = done + 1 /\ result' = IF done + 1 = Blocks THEN "ok" ELSE "none"
      BY <1>0, <2>1, <2>2, <2>4
    <2>6. Gated!Report
      BY <2>1, <2>2, <2>5 DEF Gated!Report
    <2> QED
      BY <2>6 DEF Gated!Next
  <1> QED
    BY <1>1, <1>4, <1>5, <1>6, <1>7, <1>8 DEF Flasher

\* And those of the receiver and the link.
LEMMA ReceiverGated ==
  ASSUME Gate, Lockstep, ~late, ~late', Notified \/ Receiver \/ LinkDrops \/ UNCHANGED vars
  PROVE  [Gated!Next]_(Gated!vars)
  <1>1. UNCHANGED <<done, result>>
    BY DEF Notified, Receiver, TakeStart, TakeHeader, TakeBlock, RejectBlock, LoseFrame,
           LinkDrops, flasherVars, vars
  <1>2. CASE UNCHANGED stored
    BY <1>1, <1>2 DEF Gated!vars
  <1>3. CASE TakeHeader
    <2>1. air \in Seq(FrameTypes) /\ air # << >> /\ Head(air) = Header /\ stored' = << >>
      BY <1>3 DEF TakeHeader, Gate, TypeOK, FrameTypes
    <2>2. Len(air) \in Nat /\ Len(air) > 0 /\ air[1] = Header
      BY <2>1, Dequeue
    <2>3. done = 0
      BY <2>2 DEF Gate, HeaderInAir
    <2>4. Len(stored') = 0
      BY <2>1
    <2>5. Gated!Open
      BY <1>1, <2>3, <2>4 DEF Gated!Open
    <2> QED
      BY <2>5 DEF Gated!Next
  <1>4. CASE TakeBlock
    <2>1. air \in Seq(FrameTypes) /\ air # << >> /\ Head(air) \in Numbers /\ session
      BY <1>4 DEF TakeBlock, Gate, TypeOK, FrameTypes
    <2>2. Len(air) \in Nat /\ Len(air) > 0 /\ air[1] = Head(air)
      BY <2>1, Dequeue
    <2>3. Head(air) = block /\ pc = "await"
      BY <2>1, <2>2 DEF Gate, BlockInAir
    <2>4. result = "none" /\ done = block - 1
      BY <2>3 DEF Lockstep
    <2>5. /\ stored \in Seq(Numbers) /\ block \in Numbers /\ block \in Nat \ {0} /\ block <= Blocks
          /\ Blocks \in Nat /\ Len(stored) \in Nat
      BY OtaAssumption DEF Gate, TypeOK, Numbers
    <2>6. CASE Expected(block) /\ stored' = Append(stored, block)
      <3>1. Len(stored) = block - 1
        <4>1. CASE block = Blocks
          BY <2>5, <2>6, <4>1 DEF Expected
        <4>2. CASE block # Blocks
          <5>1. Len(stored) = block - 1 \/ Len(stored) = block
            BY <2>1 DEF Gate, InSession
          <5> QED
            BY <2>5, <2>6, <4>2, <5>1, NumbersDiffer DEF Expected, Number
        <4> QED
          BY <4>1, <4>2
      <3>2. Len(stored') = Len(stored) + 1
        BY <2>5, <2>6, Enqueue
      <3>3. Len(stored) = done /\ Len(stored) < Blocks
        BY <2>4, <2>5, <3>1
      <3>4. Gated!Store
        BY <1>1, <2>4, <3>2, <3>3 DEF Gated!Store
      <3> QED
        BY <3>4 DEF Gated!Next
    <2> QED
      BY <1>2, <1>4, <2>3, <2>6 DEF TakeBlock
  <1> QED
    BY <1>2, <1>3, <1>4
    DEF Notified, Receiver, TakeStart, RejectBlock, LoseFrame, LinkDrops, receiverVars, vars

\* XBloomOtaFlasher.flash is a gated transfer (GatedTransfer) as long as no answer comes
\* after ack_timeout: the receiver gets a block only when the ones before it were
\* reported, it has every block that is reported, and only the report of the last one
\* is a success.
THEOREM ImplementsGate == Spec => KeepsGate
  <1>1. Init => Gated!Init
    <2> SUFFICES ASSUME Init PROVE Gated!Init
      OBVIOUS
    <2>1. Len(stored) = 0
      BY DEF Init
    <2> QED
      BY <2>1 DEF Init, Gated!Init
  <1>2. (~late => Gate) /\ Lockstep /\ [Next]_vars => [Gated!Next]_(Gated!vars)
    <2> SUFFICES ASSUME ~late => Gate, Lockstep, [Next]_vars PROVE [Gated!Next]_(Gated!vars)
      OBVIOUS
    <2>1. CASE late'
      BY <2>1 DEF Gated!Next
    <2>2. CASE ~late'
      <3>1. ~late /\ Gate
        BY <2>2, LateStays
      <3> QED
        BY <2>2, <3>1, FlasherGated, ReceiverGated DEF Next
    <2> QED
      BY <2>1, <2>2
  <1> QED
    BY <1>1, <1>2, GateHolds, LockstepHolds, PTL DEF Spec, KeepsGate, Gated!Spec
=============================================================================
