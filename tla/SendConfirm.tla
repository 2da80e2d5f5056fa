---------------------------- MODULE SendConfirm ----------------------------
(***************************************************************************)
(* The send-and-confirm layer of XBloomBleClient: brew() and send_command()*)
(* running as coroutines over one BLE link, write_confirmed() with its     *)
(* waiters, timers and re-sends, and note_reply() on the notification      *)
(* thread.  The machine at the other end of the link is external: it is    *)
(* modelled from how the client's code and its tests use it.               *)
(*                                                                         *)
(* A call t runs Script[t], a sequence of command codes: the steps of a    *)
(* brew, or the one command of send_command.  A slot <<t, i>> stands for   *)
(* step i of call t; it names both the frame written for that step and the *)
(* _Reply object that waits for its answer.                                *)
(***************************************************************************)
EXTENDS Naturals, Sequences

CONSTANTS
  Calls,          \* the coroutines that send over this link
  Brews,          \* those that run brew(); the others run send_command()
  Codes,          \* command codes
  Script,         \* Script[t]: the codes call t sends, in order
  MaxAttempts,    \* MaxAttempts[t]: writes per step (max_attempts)
  SleepGated,     \* the calls made with retry_only_when_sleeping=True
  Refusals,       \* the refusals a reply can carry (spec.REFUSAL_BITS)
  ResendMeansTaken, \* spec.RESEND_MEANS_TAKEN
  BusyElsewhere,  \* TRUE: the machine may answer with one of RESEND_MEANS_TAKEN
                  \* although it took no copy of the command
  Sleeping, Awake, \* NOTIFY_SLEEPING and NOTIFY_AWAKE
  NoticeBound,    \* bound: no sleep/awake notice while this many frames are in flight
  OK,             \* the verdict of an acceptance
  None            \* no waiter, no answer, no verdict

ASSUME CallsAssumption ==
  /\ Brews \subseteq Calls
  /\ SleepGated \subseteq Calls
  /\ Script \in [Calls -> Seq(Codes)]
  /\ \A t \in Calls : Len(Script[t]) > 0
  /\ \A t \in Calls \ Brews : Len(Script[t]) = 1
  /\ MaxAttempts \in [Calls -> Nat \ {0}]

ASSUME VerdictAssumption ==
  /\ ResendMeansTaken \subseteq Refusals
  /\ OK \notin Refusals
  /\ None \notin Refusals \union {OK}
  /\ BusyElsewhere \in BOOLEAN
  /\ NoticeBound \in Nat

ASSUME NoticeAssumption == Sleeping \notin Codes /\ Awake \notin Codes /\ Sleeping # Awake

VARIABLES
  pc,             \* pc[t]: the await (or the end) coroutine t is at
  step,           \* step[t]: index into Script[t]
  attempt,        \* attempt[t]: the loop variable of write_confirmed
  outcome,        \* outcome[t]: how the call ended
  echoWaiters,    \* _echo_waiters: the slot registered for a code
  answers,        \* answers[s]: the verdict the _Reply of slot s holds
  loopQ,          \* callbacks given to call_soon_threadsafe, not run yet
  sleeping,       \* _sleeping
  notifyActive,   \* _notify_active
  link,           \* the BLE link is up
  subscribed,     \* FFE2 really notifies this client
  air,            \* frames written, not yet handled by the machine
  notif,          \* frames the machine sent, not yet dispatched by bleak
  asleep,         \* external: the machine is asleep
  taken,          \* external: taken[c], how many copies of c the machine took
  firstVerdict    \* external: its first verdict on c

clientVars  == <<pc, step, attempt, outcome, echoWaiters, answers>>
trackVars   == <<loopQ, sleeping>>
machineVars == <<asleep, taken, firstVerdict>>
vars == <<clientVars, trackVars, notifyActive, link, subscribed, air, notif, machineVars>>

Verdicts    == Refusals \union {OK}
FrameCodes  == Codes \union {Sleeping, Awake}
Slots       == UNION {{t} \X (1..Len(Script[t])) : t \in Calls}
CodeOf(s)   == Script[s[1]][s[2]]
Slot(t)     == <<t, step[t]>>
Frame(c, v) == [code |-> c, verdict |-> v]
Frames      == [code : FrameCodes, verdict : Verdicts]
Callbacks   == [slot : Slots, verdict : Verdicts]

InStep   == {"writing", "waiting", "timedout"}   \* inside write_confirmed
PCs      == {"idle", "subscribing", "settling", "degraded", "pausing", "done"} \union InStep
Outcomes == {"sent", "refused", "unanswered", "raised"}

ASSUME NoneAssumption == None \notin Slots \union Outcomes

-----------------------------------------------------------------------------
(* Helpers of the client *)

\* Faulty variant: every refusal of a re-send counts.
AnyRefusedResendIsTaken(n, v) == v = OK \/ n > 1

\* write_confirmed counts a verdict as acceptance: a plain echo, or a refusal
\* of a re-send that is in RESEND_MEANS_TAKEN.
MeansTaken(n, v) == v = OK \/ (n > 1 /\ v \in ResendMeansTaken)

\* Faulty variant: max_attempts is not looked at.
CanRetryUnbounded(t) == sleeping \/ t \notin SleepGated

\* Whether a timed-out write is followed by another.
CanRetry(t) == attempt[t] < MaxAttempts[t] /\ (sleeping \/ t \notin SleepGated)

\* Faulty variant: a later answer overwrites it.
LastAnswerWins(cur, v) == v

\* _Reply.answer: the first answer stays.
Answered(cur, v) == IF cur = None THEN v ELSE cur

\* Faulty variant: nothing is popped.
KeepWaiter(t) == echoWaiters' = echoWaiters

\* The `finally` of write_confirmed: pops whatever is registered for the code.
Unregister(t) == echoWaiters' = [echoWaiters EXCEPT ![CodeOf(Slot(t))] = None]

Goto(t, label) == pc' = [pc EXCEPT ![t] = label]
Return(t, how) == Goto(t, "done") /\ outcome' = [outcome EXCEPT ![t] = how]

\* The start of write_confirmed for the current step: its waiter is registered
\* before the write, so that no answer can come first.
Enter(t) ==
  /\ echoWaiters' = [echoWaiters EXCEPT ![CodeOf(Slot(t))] = Slot(t)]
  /\ attempt' = [attempt EXCEPT ![t] = 1]
  /\ Goto(t, "writing")

-----------------------------------------------------------------------------
(* The calls *)

Init ==
  /\ pc = [t \in Calls |-> "idle"]
  /\ step = [t \in Calls |-> 1]
  /\ attempt = [t \in Calls |-> 1]
  /\ outcome = [t \in Calls |-> None]
  /\ echoWaiters = [c \in FrameCodes |-> None]
  /\ answers = [s \in Slots |-> None]
  /\ loopQ = << >>
  /\ sleeping = FALSE
  /\ notifyActive = FALSE
  /\ link = TRUE
  /\ subscribed = FALSE
  /\ air = << >>
  /\ notif = << >>
  /\ asleep \in BOOLEAN
  /\ taken = [c \in Codes |-> 0]
  /\ firstVerdict = [c \in Codes |-> None]

\* brew(): refuses to run without a connection, then always subscribes anew.
CallBrew(t) ==
  /\ t \in Brews
  /\ pc[t] = "idle"
  /\ \/ /\ link
        /\ notifyActive' = FALSE
        /\ Goto(t, "subscribing")
        /\ UNCHANGED outcome
     \/ /\ ~link
        /\ Return(t, "raised")
        /\ UNCHANGED notifyActive
  /\ UNCHANGED <<step, attempt, echoWaiters, answers, trackVars, link, subscribed,
                 air, notif, machineVars>>

\* send_command(): _ensure_notify subscribes only when the flag is down.
CallSend(t) ==
  /\ t \in Calls \ Brews
  /\ pc[t] = "idle"
  /\ \/ notifyActive /\ Enter(t)
     \/ ~notifyActive /\ Goto(t, "subscribing") /\ UNCHANGED <<attempt, echoWaiters>>
  /\ UNCHANGED <<step, outcome, answers, trackVars, notifyActive,
                 link, subscribed, air, notif, machineVars>>

\* Faulty variant: brew() does not look at the flag.
ProceedRegardless(t) ==
  \/ (notifyActive \/ t \in Brews) /\ Enter(t) /\ UNCHANGED outcome
  \/ ~notifyActive /\ t \notin Brews /\ Goto(t, "degraded")
     /\ UNCHANGED <<attempt, outcome, echoWaiters>>

\* What follows _ensure_notify: brew() stops without replies to read,
\* send_command() falls back to a plain write.
Proceed(t) ==
  \/ notifyActive /\ Enter(t) /\ UNCHANGED outcome
  \/ ~notifyActive /\ t \in Brews /\ Return(t, "unanswered")
     /\ UNCHANGED <<attempt, echoWaiters>>
  \/ ~notifyActive /\ t \notin Brews /\ Goto(t, "degraded")
     /\ UNCHANGED <<attempt, outcome, echoWaiters>>

\* start_notify returned: the flag is set, then the reader gets time to settle.
SubscribeOK(t) ==
  /\ pc[t] = "subscribing"
  /\ link
  /\ notifyActive' = TRUE
  /\ subscribed' = TRUE
  /\ Goto(t, "settling")
  /\ UNCHANGED <<step, attempt, outcome, echoWaiters, answers, trackVars, link, air, notif,
                 machineVars>>

\* start_notify raised (another holder has the handle, or the link is gone).
SubscribeFails(t) ==
  /\ pc[t] = "subscribing"
  /\ Proceed(t)
  /\ UNCHANGED <<step, answers, trackVars, notifyActive, link, subscribed, air, notif,
                 machineVars>>

Settled(t) ==
  /\ pc[t] = "settling"
  /\ Proceed(t)
  /\ UNCHANGED <<step, answers, trackVars, notifyActive, link, subscribed, air, notif,
                 machineVars>>

\* The degraded path of send_command: one plain write and False.
DegradedWrite(t) ==
  /\ pc[t] = "degraded"
  /\ \/ link /\ air' = Append(air, Slot(t)) /\ Return(t, "unanswered")
     \/ ~link /\ UNCHANGED air /\ Return(t, "raised")
  /\ UNCHANGED <<step, attempt, echoWaiters, answers, trackVars, notifyActive, link,
                 subscribed, notif, machineVars>>

-----------------------------------------------------------------------------
(* write_confirmed *)

Write(t) ==
  /\ pc[t] = "writing"
  /\ link
  /\ air' = Append(air, Slot(t))
  /\ Goto(t, "waiting")
  /\ UNCHANGED <<step, attempt, outcome, echoWaiters, answers, trackVars, notifyActive, link,
                 subscribed, notif, machineVars>>

\* write_gatt_char raises over a dead link, through the `finally`.
WriteFails(t) ==
  /\ pc[t] = "writing"
  /\ ~link
  /\ Unregister(t)
  /\ Return(t, "raised")
  /\ UNCHANGED <<step, attempt, answers, trackVars, notifyActive, link, subscribed, air,
                 notif, machineVars>>

\* wait_for returns: the event is set and the timer has not fired.
Accept(t) ==
  /\ pc[t] = "waiting"
  /\ answers[Slot(t)] # None
  /\ MeansTaken(attempt[t], answers[Slot(t)])
  /\ Unregister(t)
  /\ step' = [step EXCEPT ![t] = @ + 1]
  /\ \/ /\ t \in Brews
        /\ Goto(t, "pausing")
        /\ UNCHANGED outcome
     \/ /\ t \notin Brews
        /\ Return(t, "sent")
  /\ UNCHANGED <<attempt, answers, trackVars, notifyActive, link, subscribed, air, notif,
                 machineVars>>

\* CommandRefused: neither re-sent nor followed by the next step.
Refused(t) ==
  /\ pc[t] = "waiting"
  /\ answers[Slot(t)] # None
  /\ ~MeansTaken(attempt[t], answers[Slot(t)])
  /\ Unregister(t)
  /\ Return(t, "refused")
  /\ UNCHANGED <<step, attempt, answers, trackVars, notifyActive, link, subscribed, air,
                 notif, machineVars>>

\* Faulty variant: the last attempt waits for ever.
TimerButNotOnLastAttempt(t) ==
  /\ pc[t] = "waiting"
  /\ attempt[t] < MaxAttempts[t]
  /\ Goto(t, "timedout")
  /\ UNCHANGED <<step, attempt, outcome, echoWaiters, answers, trackVars, notifyActive, link,
                 subscribed, air, notif, machineVars>>

\* The timer of wait_for cancels the wait.  The coroutine resumes later, and
\* with a timeout even when the answer arrives (or had arrived) meanwhile.
TimerFires(t) ==
  /\ pc[t] = "waiting"
  /\ Goto(t, "timedout")
  /\ UNCHANGED <<step, attempt, outcome, echoWaiters, answers, trackVars, notifyActive, link,
                 subscribed, air, notif, machineVars>>

\* Faulty variant: the waiter is not kept across re-sends.
RetryUnregistered(t) ==
  /\ pc[t] = "timedout"
  /\ CanRetry(t)
  /\ attempt' = [attempt EXCEPT ![t] = @ + 1]
  /\ Unregister(t)
  /\ Goto(t, "writing")
  /\ UNCHANGED <<step, outcome, answers, trackVars, notifyActive, link, subscribed, air,
                 notif, machineVars>>

Retry(t) ==
  /\ pc[t] = "timedout"
  /\ CanRetry(t)
  /\ attempt' = [attempt EXCEPT ![t] = @ + 1]
  /\ Goto(t, "writing")
  /\ UNCHANGED <<step, outcome, echoWaiters, answers, trackVars, notifyActive, link,
                 subscribed, air, notif, machineVars>>

\* Faulty variant: an unanswered step does not stop the brew.
NextStepUnconfirmed(t) ==
  /\ pc[t] = "timedout"
  /\ ~CanRetry(t)
  /\ Unregister(t)
  /\ IF step[t] < Len(Script[t])
     THEN step' = [step EXCEPT ![t] = @ + 1] /\ Goto(t, "pausing") /\ UNCHANGED outcome
     ELSE Return(t, "unanswered") /\ UNCHANGED step
  /\ UNCHANGED <<attempt, answers, trackVars, notifyActive, link, subscribed, air,
                 notif, machineVars>>

\* write_confirmed returns False: brew() raises CommandUnanswered,
\* send_command() returns False.
GiveUp(t) ==
  /\ pc[t] = "timedout"
  /\ ~CanRetry(t)
  /\ Unregister(t)
  /\ Return(t, "unanswered")
  /\ UNCHANGED <<step, attempt, answers, trackVars, notifyActive, link, subscribed, air,
                 notif, machineVars>>

\* After the settle sleep brew() takes the next step; after the last one, a
\* link found dead raises although every step was accepted.
NextStep(t) ==
  /\ pc[t] = "pausing"
  /\ \/ step[t] <= Len(Script[t]) /\ Enter(t) /\ UNCHANGED outcome
     \/ step[t] > Len(Script[t]) /\ Return(t, IF link THEN "sent" ELSE "raised")
        /\ UNCHANGED <<attempt, echoWaiters>>
  /\ UNCHANGED <<step, answers, trackVars, notifyActive, link, subscribed, air, notif,
                 machineVars>>

-----------------------------------------------------------------------------
(* note_reply, on bleak's thread, and the callback it leaves to the loop *)

NoteReply ==
  /\ notif # << >>
  /\ notif' = Tail(notif)
  /\ LET f == Head(notif) IN
       /\ loopQ' = IF echoWaiters[f.code] = None THEN loopQ
                   ELSE Append(loopQ, [slot |-> echoWaiters[f.code], verdict |-> f.verdict])
       /\ sleeping' = CASE f.code = Sleeping -> TRUE
                        [] f.code = Awake    -> FALSE
                        [] OTHER             -> sleeping
  /\ UNCHANGED <<clientVars, notifyActive, link, subscribed, air, machineVars>>

RunCallback ==
  /\ loopQ # << >>
  /\ loopQ' = Tail(loopQ)
  /\ LET cb == Head(loopQ) IN
       answers' = [answers EXCEPT ![cb.slot] = Answered(@, cb.verdict)]
  /\ UNCHANGED <<pc, step, attempt, outcome, echoWaiters, sleeping, notifyActive, link,
                 subscribed, air, notif, machineVars>>

-----------------------------------------------------------------------------
(* External: the machine and the link *)

Emit(fs) == notif' = IF subscribed THEN notif \o fs ELSE notif
Reply(c, v, fs) ==
  /\ Emit(fs)
  /\ firstVerdict' = [firstVerdict EXCEPT ![c] = IF @ = None THEN v ELSE @]

\* It takes the oldest frame and echoes its code, waking first if it has to.
MachineTakes ==
  /\ air # << >>
  /\ air' = Tail(air)
  /\ LET c == CodeOf(Head(air)) IN
       /\ taken' = [taken EXCEPT ![c] = @ + 1]
       /\ Reply(c, OK, IF asleep THEN <<Frame(Awake, OK), Frame(c, OK)>> ELSE <<Frame(c, OK)>>)
  /\ asleep' = FALSE
  /\ UNCHANGED <<clientVars, trackVars, notifyActive, link, subscribed>>

\* It refuses it.  The refusals of RESEND_MEANS_TAKEN say it is busy with the
\* first copy: it gives them otherwise only when BusyElsewhere.
MachineRefuses ==
  /\ air # << >>
  /\ ~asleep
  /\ air' = Tail(air)
  /\ LET c == CodeOf(Head(air)) IN
       \E r \in Refusals :
         /\ r \in ResendMeansTaken => taken[c] > 0 \/ BusyElsewhere
         /\ Reply(c, r, <<Frame(c, r)>>)
  /\ UNCHANGED <<clientVars, trackVars, notifyActive, link, subscribed, asleep, taken>>

\* Asleep, it can miss a frame, which may or may not wake it.
MachineMisses ==
  /\ air # << >>
  /\ asleep
  /\ air' = Tail(air)
  /\ \/ asleep' = FALSE /\ Emit(<<Frame(Awake, OK)>>)
     \/ UNCHANGED <<asleep, notif>>
  /\ UNCHANGED <<clientVars, trackVars, notifyActive, link, subscribed, taken, firstVerdict>>

MachineSleeps ==
  /\ ~asleep
  /\ Len(notif) < NoticeBound
  /\ asleep' = TRUE
  /\ Emit(<<Frame(Sleeping, OK)>>)
  /\ UNCHANGED <<clientVars, trackVars, notifyActive, link, subscribed, air, taken, firstVerdict>>

MachineWakes ==
  /\ asleep
  /\ Len(notif) < NoticeBound
  /\ asleep' = FALSE
  /\ Emit(<<Frame(Awake, OK)>>)
  /\ UNCHANGED <<clientVars, trackVars, notifyActive, link, subscribed, air, taken, firstVerdict>>

\* Power-off or out of range: what is in flight is lost.
LinkDrops ==
  /\ link
  /\ link' = FALSE
  /\ subscribed' = FALSE
  /\ air' = << >>
  /\ notif' = << >>
  /\ UNCHANGED <<clientVars, trackVars, notifyActive, machineVars>>

-----------------------------------------------------------------------------
InWriteConfirmed(t) ==
  \/ Write(t) \/ WriteFails(t) \/ Accept(t) \/ Refused(t)
  \/ TimerFires(t) \/ Retry(t) \/ GiveUp(t)

Subscribing(t) == SubscribeOK(t) \/ SubscribeFails(t) \/ Settled(t)

Call(t) == CallBrew(t) \/ CallSend(t)
Run(t)  == Subscribing(t) \/ DegradedWrite(t) \/ InWriteConfirmed(t) \/ NextStep(t)

Environment ==
  MachineTakes \/ MachineRefuses \/ MachineMisses \/ MachineSleeps \/ MachineWakes \/ LinkDrops

Next ==
  \/ \E t \in Calls : Call(t) \/ Run(t)
  \/ NoteReply
  \/ RunCallback
  \/ Environment

Spec == Init /\ [][Next]_vars

\* asyncio runs a coroutine whose await is over and every timer fires; bleak's
\* start_notify and write_gatt_char return or raise.  Nothing is assumed of
\* the machine, of the link, or of who makes a call.
FairSpec == Spec /\ \A t \in Calls : WF_vars(Run(t))

-----------------------------------------------------------------------------
(* Properties *)

\* Every variable stays in its domain; in particular no step is written more
\* than max_attempts times.
TypeOK ==
  /\ pc \in [Calls -> PCs]
  /\ step \in [Calls -> Nat \ {0}]
  /\ \A t \in Calls : step[t] <= Len(Script[t]) + 1
  /\ attempt \in [Calls -> Nat \ {0}]
  /\ \A t \in Calls : attempt[t] <= MaxAttempts[t]
  /\ outcome \in [Calls -> Outcomes \union {None}]
  /\ echoWaiters \in [FrameCodes -> Slots \union {None}]
  /\ answers \in [Slots -> Verdicts \union {None}]
  /\ loopQ \in Seq(Callbacks)
  /\ sleeping \in BOOLEAN
  /\ notifyActive \in BOOLEAN
  /\ link \in BOOLEAN
  /\ subscribed \in BOOLEAN
  /\ air \in Seq(Slots)
  /\ notif \in Seq(Frames)
  /\ asleep \in BOOLEAN
  /\ taken \in [Codes -> Nat]
  /\ firstVerdict \in [Codes -> Verdicts \union {None}]

\* A step write_confirmed reported as accepted was taken by the machine, over
\* late answers, re-sends, refused duplicates and lost replies (holds when the
\* machine answers with RESEND_MEANS_TAKEN only what it did take).
AcceptedMeansTaken ==
  \A t \in Calls : \A i \in 1..Len(Script[t]) :
    i < step[t] => taken[Script[t][i]] > 0

\* No frame of a brew is on its way while the machine lacks an earlier one: in
\* particular EXECUTE never reaches a machine that did not take the recipe.
SentInOrder ==
  \A k \in 1..Len(air) : \A i \in 1..Len(Script[air[k][1]]) :
    i < air[k][2] => taken[Script[air[k][1]][i]] > 0

\* The verdict a step ended with is the machine's first answer to its command,
\* whatever a duplicate was answered afterwards.
FirstAnswerDecides ==
  \A s \in Slots : answers[s] # None => answers[s] = firstVerdict[CodeOf(s)]

\* While a call is inside write_confirmed its waiter is the one registered for
\* its code, across re-sends and steps, so an answer delivered now reaches it
\* (holds when no two calls send the same code at once).
AwaitedIsHeard ==
  \A t \in Calls : pc[t] \in InStep => echoWaiters[CodeOf(Slot(t))] = Slot(t)

\* A registered waiter belongs to a call that is inside write_confirmed for that
\* very step: returning, raising or being overwritten leaves no stray waiter to
\* swallow the answer to a later command.
NoStrayWaiter ==
  \A c \in FrameCodes : echoWaiters[c] # None =>
    LET t == echoWaiters[c][1] IN pc[t] \in InStep /\ echoWaiters[c] = Slot(t)

\* A brew never has a command out that it could not hear the answer to, although
\* its subscription flag is shared with the other calls and reset by each brew.
BrewNeverBlind ==
  \A t \in Brews : pc[t] \in InStep /\ link => subscribed

\* Every call that was made returns or raises, whatever the machine does.
CallsReturn == \A t \in Calls : pc[t] # "idle" ~> pc[t] = "done"

=============================================================================
