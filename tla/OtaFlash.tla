----------------------------- MODULE OtaFlash -----------------------------
(***************************************************************************)
(* XBloomOtaFlasher.flash: a firmware image sent block by block, each block*)
(* gated by an ACK, re-sent on a NAK or when no answer comes in time.  The *)
(* receiver in the machine is external: a block-numbered protocol that     *)
(* answers ACK to the block it expects and to a repeat of the last one.    *)
(***************************************************************************)
EXTENDS Naturals, Sequences

CONSTANTS
  Blocks,       \* how many blocks the firmware has
  Retries,      \* retries of _send_block
  SeqMod,       \* block numbers are sent modulo this (256)
  MaxFlashes,   \* bound: calls of flash() on this flasher
  Start, Header \* the frames before the blocks: start-A with start-B, and the header

ASSUME OtaAssumption ==
  /\ Blocks \in Nat \ {0}
  /\ Retries \in Nat
  /\ SeqMod \in Nat /\ SeqMod > 1
  /\ MaxFlashes \in Nat
  /\ Start \notin 1..Blocks /\ Header \notin 1..Blocks /\ Start # Header

VARIABLES
  pc,       \* the await flash() is at
  block,    \* k, the block it sends
  attempt,  \* the loop variable of _send_block
  done,     \* the last block reported to the progress callback
  result,   \* how the last flash() ended
  flashes,  \* calls so far
  acks,     \* the queue _acks
  ready,    \* the event _ready
  link,     \* the connection is up
  air,      \* frames written, not yet handled by the receiver
  back,     \* its notifications, not yet dispatched
  session,  \* external: the receiver took a header on this connection
  stored,   \* external: the blocks it stored since that header
  late      \* history: a timer fired while a block or its answer was on its way

flasherVars  == <<pc, block, attempt, done, result, flashes>>
notifyVars   == <<acks, ready>>
receiverVars == <<session, stored>>
vars == <<flasherVars, notifyVars, link, air, back, receiverVars, late>>

Numbers == 1..Blocks
PCs     == {"idle", "connect", "notify", "start", "poll", "header", "write", "await", "closing"}
Results == {"none", "ok", "failed", "raised"}

Init ==
  /\ pc = "idle"
  /\ block = 1
  /\ attempt = 0
  /\ done = 0
  /\ result = "none"
  /\ flashes = 0
  /\ acks = << >>
  /\ ready = FALSE
  /\ link = FALSE
  /\ air = << >>
  /\ back = << >>
  /\ session = FALSE
  /\ stored = << >>
  /\ late = FALSE

-----------------------------------------------------------------------------
(* flash() *)

Goto(label) == pc' = label

\* Into the `finally`.
End(how) == Goto("closing") /\ result' = how

\* A write without response: it goes out over a live link and raises over a
\* dead one.
Send(frame) ==
  /\ link
  /\ air' = Append(air, frame)

\* The queue and the event belong to the flasher and outlive a call.
Flash ==
  /\ pc = "idle"
  /\ flashes < MaxFlashes
  /\ flashes' = flashes + 1
  /\ block' = 1
  /\ attempt' = 0
  /\ done' = 0
  /\ result' = "none"
  /\ Goto("connect")
  /\ UNCHANGED <<notifyVars, link, air, back, receiverVars, late>>

\* _connect is outside the `try`.
Connect ==
  /\ pc = "connect"
  /\ \/ link' = TRUE /\ Goto("notify") /\ UNCHANGED result
     \/ Goto("idle") /\ result' = "raised" /\ UNCHANGED link
  /\ UNCHANGED <<block, attempt, done, flashes, notifyVars, air, back, receiverVars, late>>

Subscribe ==
  /\ pc = "notify"
  /\ link
  /\ Goto("start")
  /\ UNCHANGED <<block, attempt, done, result, flashes, notifyVars, link, air, back, receiverVars, late>>

WriteStart ==
  /\ pc = "start"
  /\ Send(Start)
  /\ Goto("poll")
  /\ UNCHANGED <<block, attempt, done, result, flashes, notifyVars, link, back, receiverVars, late>>

\* The ready poll came, or five seconds passed without one.
Polled ==
  /\ pc = "poll"
  /\ Goto("header")
  /\ UNCHANGED <<block, attempt, done, result, flashes, notifyVars, link, air, back, receiverVars, late>>

WriteHeader ==
  /\ pc = "header"
  /\ Send(Header)
  /\ Goto("write")
  /\ UNCHANGED <<block, attempt, done, result, flashes, notifyVars, link, back, receiverVars, late>>

WriteBlock ==
  /\ pc = "write"
  /\ Send(block)
  /\ Goto("await")
  /\ UNCHANGED <<block, attempt, done, result, flashes, notifyVars, link, back, receiverVars, late>>

WriteRaises ==
  /\ pc \in {"notify", "start", "header", "write"}
  /\ ~link
  /\ End("raised")
  /\ UNCHANGED <<block, attempt, done, flashes, notifyVars, link, air, back, receiverVars, late>>

\* Faulty variant: any answer is taken for an ACK.
AnyAnswerAcks ==
  /\ pc = "await"
  /\ acks # << >>
  /\ acks' = Tail(acks)
  /\ done' = block
  /\ \/ block = Blocks /\ End("ok") /\ UNCHANGED <<block, attempt>>
     \/ block < Blocks /\ Goto("write") /\ block' = block + 1 /\ attempt' = 0 /\ UNCHANGED result
  /\ UNCHANGED <<flashes, ready, link, air, back, receiverVars, late>>

\* _send_block returns on an ACK; the progress callback gets the block.
Acked ==
  /\ pc = "await"
  /\ acks # << >> /\ Head(acks) = "ack"
  /\ acks' = Tail(acks)
  /\ done' = block
  /\ \/ block = Blocks /\ End("ok") /\ UNCHANGED <<block, attempt>>
     \/ block < Blocks /\ Goto("write") /\ block' = block + 1 /\ attempt' = 0 /\ UNCHANGED result
  /\ UNCHANGED <<flashes, ready, link, air, back, receiverVars, late>>

\* Faulty variant: out of retries, the block is taken for sent.
SkipWhenOutOfRetries ==
  \/ attempt < Retries /\ attempt' = attempt + 1 /\ Goto("write") /\ UNCHANGED <<block, done, result>>
  \/ attempt = Retries /\ done' = block /\ UNCHANGED attempt
     /\ IF block < Blocks THEN block' = block + 1 /\ Goto("write") /\ UNCHANGED result
                          ELSE End("ok") /\ UNCHANGED block

\* Faulty variant: a block is re-sent without end.
ResendForEver == Goto("write") /\ UNCHANGED <<attempt, block, done, result>>

\* The block is written again while it has retries, and given up after that.
ResendOrGiveUp ==
  /\ \/ attempt < Retries /\ attempt' = attempt + 1 /\ Goto("write") /\ UNCHANGED result
     \/ attempt = Retries /\ End("failed") /\ UNCHANGED attempt
  /\ UNCHANGED <<block, done>>

Naked ==
  /\ pc = "await"
  /\ acks # << >> /\ Head(acks) = "nak"
  /\ acks' = Tail(acks)
  /\ ResendOrGiveUp
  /\ UNCHANGED <<flashes, ready, link, air, back, receiverVars, late>>

\* ack_timeout passed.  An answer that comes now stays in the queue.
TimerFires ==
  /\ pc = "await"
  /\ ResendOrGiveUp
  /\ late' = (late \/ air # << >> \/ back # << >> \/ acks # << >>)
  /\ UNCHANGED <<flashes, notifyVars, link, air, back, receiverVars>>

\* The `finally`: stop_notify and disconnect, whatever they raise.
Disconnect ==
  /\ pc = "closing"
  /\ Goto("idle")
  /\ link' = FALSE
  /\ air' = << >>
  /\ back' = << >>
  /\ session' = FALSE
  /\ UNCHANGED <<block, attempt, done, result, flashes, notifyVars, stored, late>>

\* _on_notify: answers are queued, and the ready poll is noted.
Notified ==
  /\ back # << >>
  /\ back' = Tail(back)
  /\ \/ Head(back) \in {"ack", "nak"} /\ acks' = Append(acks, Head(back)) /\ UNCHANGED ready
     \/ Head(back) = "C" /\ ready' = TRUE /\ UNCHANGED acks
  /\ UNCHANGED <<flasherVars, link, air, receiverVars, late>>

-----------------------------------------------------------------------------
(* External: the receiver and the link *)

\* The block number in the marker; the last block has the end marker instead.
Number(k) == k % SeqMod

Expected(k) ==
  IF k = Blocks THEN Len(stored) = Blocks - 1
                ELSE Len(stored) < Blocks - 1 /\ Number(k) = (Len(stored) + 1) % SeqMod

Repeated(k) ==
  IF k = Blocks THEN Len(stored) = Blocks
                ELSE Len(stored) \in 1..(Blocks - 1) /\ Number(k) = Len(stored) % SeqMod

\* An answer is sent, or lost.
Answer(token) == back' = Append(back, token) \/ UNCHANGED back

TakeStart ==
  /\ air # << >> /\ Head(air) = Start
  /\ air' = Tail(air)
  /\ Answer("C")
  /\ UNCHANGED <<flasherVars, notifyVars, link, receiverVars, late>>

TakeHeader ==
  /\ air # << >> /\ Head(air) = Header
  /\ air' = Tail(air)
  /\ session' = TRUE
  /\ stored' = << >>
  /\ UNCHANGED <<flasherVars, notifyVars, link, back, late>>

TakeBlock ==
  /\ air # << >> /\ Head(air) \in Numbers
  /\ session
  /\ air' = Tail(air)
  /\ \/ Expected(Head(air)) /\ stored' = Append(stored, Head(air))
     \/ Repeated(Head(air)) /\ UNCHANGED stored
  /\ Answer("ack")
  /\ UNCHANGED <<flasherVars, notifyVars, link, session, late>>

\* Damaged on its way (the checksum in the marker shows it), or not the block
\* it wants.
RejectBlock ==
  /\ air # << >> /\ Head(air) \in Numbers
  /\ air' = Tail(air)
  /\ Answer("nak")
  /\ UNCHANGED <<flasherVars, notifyVars, link, receiverVars, late>>

LoseFrame ==
  /\ air # << >>
  /\ air' = Tail(air)
  /\ UNCHANGED <<flasherVars, notifyVars, link, back, receiverVars, late>>

LinkDrops ==
  /\ link
  /\ link' = FALSE
  /\ air' = << >>
  /\ back' = << >>
  /\ session' = FALSE
  /\ UNCHANGED <<flasherVars, notifyVars, stored, late>>

-----------------------------------------------------------------------------
Flasher ==
  \/ Connect \/ Subscribe \/ WriteStart \/ Polled \/ WriteHeader \/ WriteBlock
  \/ WriteRaises \/ Acked \/ Naked \/ TimerFires \/ Disconnect

Receiver == TakeStart \/ TakeHeader \/ TakeBlock \/ RejectBlock \/ LoseFrame

Next == Flash \/ Flasher \/ Notified \/ Receiver \/ LinkDrops

Spec == Init /\ [][Next]_vars

\* Timers fire, and bleak's calls return or raise.
FairSpec == Spec /\ WF_vars(Flasher)

-----------------------------------------------------------------------------
(* Properties *)

\* Every variable stays in its domain; no block is written more than
\* Retries + 1 times.
TypeOK ==
  /\ pc \in PCs
  /\ block \in Numbers
  /\ attempt \in 0..Retries
  /\ done \in 0..Blocks
  /\ result \in Results
  /\ flashes \in 0..MaxFlashes
  /\ acks \in Seq({"ack", "nak"})
  /\ ready \in BOOLEAN
  /\ link \in BOOLEAN
  /\ air \in Seq({Start, Header} \union Numbers)
  /\ back \in Seq({"ack", "nak", "C"})
  /\ session \in BOOLEAN
  /\ stored \in Seq(Numbers)
  /\ late \in BOOLEAN

\* A block reported as done was stored by the receiver, each block in its place
\* and none twice, over lost blocks, lost answers, NAKs, re-sends and reconnects.
DoneMeansStored ==
  /\ done <= Len(stored)
  /\ \A j \in 1..Len(stored) : stored[j] = j

\* A flash that returned left the whole image in the receiver.
FlashedMeansWhole == result = "ok" => Len(stored) = Blocks

\* Both, as long as no answer came later than ack_timeout.
StoredUnlessLate == ~late => DoneMeansStored

WholeUnlessLate == ~late => FlashedMeansWhole

\* As long as no answer is late a flash is a gated transfer: the receiver is never
\* given a block before the ones it follows were reported, no block is reported
\* that it does not have, and only the report of the last one is a success.
Gated == INSTANCE GatedTransfer
  WITH kept <- Len(stored), told <- done, outcome <- result, timely <- ~late

KeepsGate == Gated!Spec

\* Every call of flash() ends, whatever the receiver and the link do.
FlashEnds == pc = "connect" ~> pc = "idle"
=============================================================================
