---------------------------- MODULE ModeListener ----------------------------
(***************************************************************************)
(* XBloomModeListener: a link held open by a task, start() and stop() that *)
(* replace the task, and commands sent over whatever session holds the     *)
(* link.  The sessions share the listener's attributes: _task, _client and *)
(* _ble, _link_lost, _stop_evt.  One step is what runs between two awaits. *)
(* write_confirmed appears as its contract (see SendConfirm).  asyncio is  *)
(* Python 3.12's: wait_for cancels what it awaits and waits for its end.   *)
(***************************************************************************)
EXTENDS Naturals, Sequences

CONSTANTS
  MaxSessions,  \* bound: tasks that start() may create
  Stops,        \* the calls of stop(), each made once
  Sends,        \* the calls of the send_... methods, each made once
  Kind,         \* Kind[c]: "live", "confirmed", "prepare", "start" or "brew"
  Prepare,      \* the steps of send_prepare
  None

ASSUME ListenerAssumption ==
  /\ MaxSessions \in Nat
  /\ None \notin Nat
  /\ None \notin Sends
  /\ Prepare \in Seq({"bypass", "cup", "recipe"})
  /\ \E n \in 1..Len(Prepare) : Prepare[n] = "recipe"
  /\ Kind \in [Sends -> {"live", "confirmed", "prepare", "start", "brew"}]

VARIABLES
  task,      \* _task: the session start() created last, or None
  held,      \* _client and _ble: the session whose client is in them
  linkLost,  \* _link_lost is set
  stopEvt,   \* _stop_evt is set
  pc,        \* pc[s]: the await session s is at
  cancelled, \* cancelled[s]: its task was cancelled, and has not noticed yet
  slow,      \* slow[s]: the handle of the slow-connect timer
  link,      \* link[s]: its BLE link; "dead" claims to be connected, but cannot write
  said,      \* said[s]: the lifecycle phases it announced
  stop,      \* stop[k]: the await stop call k is at
  target,    \* target[k]: the session it read from _task
  call,      \* call[c]: the await send call c is at
  step,      \* step[c]: index into Steps(c)
  via,       \* via[c]: the session whose client it writes with
  outcome,   \* outcome[c]: how it returned or raised
  took,      \* external: took[c], the machine took the command of its step
  loaded,    \* external: the call whose recipe the machine holds, or None's: an earlier one
  started,   \* external: the calls whose execute it took
  brewed,    \* external: brewed[c], whose recipe that started
  raced,     \* history: start() made a session while a stop() was waiting
  stray,     \* history: a send failed on a client of a session before the current one
  unclean,   \* unclean[s]: history, its disconnect raised or was cancelled
  misjudged  \* history: sessions that announced a lost link over a good one

sharedVars  == <<task, held, linkLost, stopEvt>>
sessionVars == <<pc, cancelled, slow, link, said>>
stopVars    == <<stop, target>>
sendVars    == <<call, step, via, outcome>>
machineVars == <<took, loaded, started, brewed>>
historyVars == <<raced, stray, unclean, misjudged>>
vars == <<sharedVars, sessionVars, stopVars, sendVars, machineVars, historyVars>>

Sessions == 1..MaxSessions
Over     == {"done", "crashed"}
Awaits   == {"resolving", "connecting", "subscribing", "reading", "holding", "closing"}
InBody   == Awaits \ {"resolving", "connecting"}  \* inside `async with`
Phases   == {"connecting", "ready", "failed", "auto_stopped"}
Outcomes == {"none", "sent", "refused", "unanswered", "raised"}

Running(s) == pc[s] \in Awaits

\* is_connected of the client of session s.
Claims(s)  == link[s] \in {"up", "dead"}

\* is_running
IsRunning  == task # None /\ Running(task)

\* The confirmed writes of a call, in order.
Steps(c) == CASE Kind[c] = "prepare" -> Prepare
              [] Kind[c] = "start"   -> <<"execute">>
              [] Kind[c] = "brew"    -> Append(Prepare, "execute")
              [] OTHER               -> <<"command">>
Brewing(c) == Kind[c] \in {"prepare", "start", "brew"}

Init ==
  /\ task = None
  /\ held = None
  /\ linkLost = FALSE
  /\ stopEvt = FALSE
  /\ pc = [s \in Sessions |-> "unborn"]
  /\ cancelled = [s \in Sessions |-> FALSE]
  /\ slow = [s \in Sessions |-> "none"]
  /\ link = [s \in Sessions |-> "down"]
  /\ said = [s \in Sessions |-> << >>]
  /\ stop = [k \in Stops |-> "idle"]
  /\ target = [k \in Stops |-> None]
  /\ call = [c \in Sends |-> "idle"]
  /\ step = [c \in Sends |-> 1]
  /\ via = [c \in Sends |-> None]
  /\ outcome = [c \in Sends |-> "none"]
  /\ took = [c \in Sends |-> FALSE]
  /\ loaded = None
  /\ started = {}
  /\ brewed = [c \in Sends |-> None]
  /\ raced = FALSE
  /\ stray = FALSE
  /\ unclean = [s \in Sessions |-> FALSE]
  /\ misjudged = {}

-----------------------------------------------------------------------------
(* start() and stop() *)

\* Faulty variant: start() does not look whether a session runs.
Anyway == TRUE

\* start() returns at once while a session runs.
MayStart == ~IsRunning

\* Faulty variant: the reason of the last session's end stays.
KeepReason == linkLost' = linkLost

ClearReason == linkLost' = FALSE

Start(s) ==
  /\ pc[s] = "unborn"
  /\ \A r \in Sessions : r < s => pc[r] # "unborn"
  /\ MayStart
  /\ stopEvt' = FALSE
  /\ ClearReason
  /\ task' = s
  /\ pc' = [pc EXCEPT ![s] = "resolving"]
  /\ raced' = (raced \/ \E k \in Stops : stop[k] \in {"waiting", "timedout"})
  /\ UNCHANGED <<held, cancelled, slow, link, said, stopVars, sendVars, machineVars, stray,
                 unclean, misjudged>>

\* stop() awaits a task that is not over.
AwaitsTask == IsRunning

\* What stop() does once the task is over, or without one.  An exception the
\* task ended with goes out of stop(), which then leaves _task as it is;
\* otherwise _task is cleared, whatever is in it by now.
Finish(k, s) ==
  \/ /\ s # None /\ pc[s] = "crashed"
     /\ stop' = [stop EXCEPT ![k] = "raised"]
     /\ UNCHANGED task
  \/ /\ s # None => pc[s] = "done"
     /\ stop' = [stop EXCEPT ![k] = "done"]
     /\ task' = None

CallStop(k) ==
  /\ stop[k] = "idle"
  /\ stopEvt' = TRUE
  /\ \/ /\ AwaitsTask
        /\ stop' = [stop EXCEPT ![k] = "waiting"]
        /\ target' = [target EXCEPT ![k] = task]
        /\ UNCHANGED task
     \/ /\ ~AwaitsTask
        /\ Finish(k, task)
        /\ UNCHANGED target
  /\ UNCHANGED <<held, linkLost, sessionVars, sendVars, machineVars, historyVars>>

\* Faulty variant: wait_for without a timeout.
NoStopTimer(k) == FALSE /\ UNCHANGED vars

\* The five seconds are over, or the caller cancelled stop(): either cancels the task.
StopTimer(k) ==
  /\ stop[k] = "waiting"
  /\ Running(target[k])
  /\ stop' = [stop EXCEPT ![k] = "timedout"]
  /\ cancelled' = [cancelled EXCEPT ![target[k]] = TRUE]
  /\ UNCHANGED <<sharedVars, pc, slow, link, said, target, sendVars, machineVars, historyVars>>

\* The task it waited for ended.
StopReturns(k) ==
  /\ stop[k] \in {"waiting", "timedout"}
  /\ pc[target[k]] \in Over
  /\ Finish(k, target[k])
  /\ UNCHANGED <<held, linkLost, stopEvt, sessionVars, target, sendVars, machineVars,
                 historyVars>>

-----------------------------------------------------------------------------
(* _run *)

Goto(s, label) == pc' = [pc EXCEPT ![s] = label]
Say(s, phase)  == said' = [said EXCEPT ![s] = Append(@, phase)]

\* Faulty variant: no `finally`.
KeepHeld == held' = held

\* The `finally` of _run, whoever's client is in _client.
ClearHeld == held' = None

\* Faulty variant: no `async with`.
LeaveOpen(s) == Goto(s, "done") /\ ClearHeld

\* The way out of `async with`: disconnect() awaits only if the link claims to
\* be up.
Leave(s) ==
  \/ Claims(s) /\ Goto(s, "closing") /\ UNCHANGED held
  \/ ~Claims(s) /\ Goto(s, "done") /\ ClearHeld

ResolveFinds(s) ==
  /\ pc[s] = "resolving" /\ ~cancelled[s]
  /\ Goto(s, "connecting")
  /\ slow' = [slow EXCEPT ![s] = "armed"]
  /\ UNCHANGED <<sharedVars, cancelled, link, said, stopVars, sendVars, machineVars, historyVars>>

\* No device: announced.  The resolver raising is not: the task ends with it.
ResolveFails(s) ==
  /\ pc[s] = "resolving" /\ ~cancelled[s]
  /\ \/ Goto(s, "done") /\ Say(s, "failed")
     \/ Goto(s, "crashed") /\ UNCHANGED said
  /\ UNCHANGED <<sharedVars, cancelled, slow, link, stopVars, sendVars, machineVars, historyVars>>

SlowConnect(s) ==
  /\ slow[s] = "armed"
  /\ slow' = [slow EXCEPT ![s] = "fired"]
  /\ Say(s, "connecting")
  /\ UNCHANGED <<sharedVars, pc, cancelled, link, stopVars, sendVars, machineVars, historyVars>>

\* Faulty variant: the handle is left alone.
KeepSlow(s) == slow' = slow

\* slow_handle.cancel()
CancelSlow(s) == slow' = [slow EXCEPT ![s] = IF @ = "armed" THEN "cancelled" ELSE @]

\* __aenter__ returned.  The machine takes one connection at a time: another
\* link goes down, or claims to be up for a while.
Connects(s) ==
  /\ pc[s] = "connecting" /\ ~cancelled[s]
  /\ Goto(s, "subscribing")
  /\ CancelSlow(s)
  /\ held' = s
  /\ \E rest \in {"dead", "down"} :
       link' = [r \in Sessions |-> CASE r = s -> "up"
                                     [] r # s /\ link[r] = "up" -> rest
                                     [] OTHER -> link[r]]
  /\ UNCHANGED <<task, linkLost, stopEvt, cancelled, said, stopVars, sendVars,
                 machineVars, historyVars>>

ConnectFails(s) ==
  /\ pc[s] = "connecting" /\ ~cancelled[s]
  /\ Goto(s, "done")
  /\ CancelSlow(s)
  /\ Say(s, "failed")
  /\ ClearHeld
  /\ UNCHANGED <<task, linkLost, stopEvt, cancelled, link, stopVars, sendVars,
                 machineVars, historyVars>>

\* start_notify, then without looking back the sleeps that let bleak's reader
\* start, and the handshake, whose failure is only logged.
Subscribes(s) ==
  /\ pc[s] = "subscribing" /\ ~cancelled[s]
  /\ \/ link[s] = "up" /\ Goto(s, "reading") /\ UNCHANGED <<held, said>>
     \/ Leave(s) /\ Say(s, "failed")
  /\ UNCHANGED <<task, linkLost, stopEvt, cancelled, slow, link, stopVars, sendVars,
                 machineVars, historyVars>>

\* The initial state was read, or not in three seconds; a stop asked for
\* meanwhile ends the loop before its first sleep.
Ready(s) ==
  /\ pc[s] = "reading" /\ ~cancelled[s]
  /\ Say(s, "ready")
  /\ \/ ~stopEvt /\ Goto(s, "holding") /\ UNCHANGED held
     \/ stopEvt /\ Leave(s)
  /\ UNCHANGED <<task, linkLost, stopEvt, cancelled, slow, link, stopVars, sendVars,
                 machineVars, historyVars>>

\* Faulty variant: only a failed write ends a session.
LostOnlyBySend == linkLost

\* What a tick finds: the client it looks at is the one in _client, and none
\* counts as connected.
FoundLost == linkLost \/ (held # None /\ ~Claims(held))

\* One turn of the hold loop over a machine that is not silent.
Tick(s) ==
  /\ pc[s] = "holding" /\ ~cancelled[s]
  /\ linkLost' = FoundLost
  /\ misjudged' = IF FoundLost /\ link[s] = "up" THEN misjudged \union {s} ELSE misjudged
  /\ \/ FoundLost /\ Say(s, "failed") /\ Leave(s)
     \/ ~FoundLost /\ stopEvt /\ Leave(s) /\ UNCHANGED said
     \/ ~FoundLost /\ ~stopEvt /\ UNCHANGED <<pc, held, said>>
  /\ UNCHANGED <<task, stopEvt, cancelled, slow, link, stopVars, sendVars,
                 machineVars, raced, stray, unclean>>

\* One after idle_timeout_s of silence, which nothing says will come.
IdleTick(s) ==
  /\ pc[s] = "holding" /\ ~cancelled[s]
  /\ ~FoundLost
  /\ Say(s, "auto_stopped")
  /\ Leave(s)
  /\ UNCHANGED <<task, linkLost, stopEvt, cancelled, slow, link, stopVars, sendVars,
                 machineVars, historyVars>>

\* disconnect() returns, or raises: then the session is announced as failed.
Closes(s) ==
  /\ pc[s] = "closing" /\ ~cancelled[s]
  /\ Goto(s, "done")
  /\ ClearHeld
  /\ \/ /\ link' = [link EXCEPT ![s] = "down"]
        /\ UNCHANGED <<said, unclean>>
     \/ /\ Claims(s)
        /\ Say(s, "failed")
        /\ unclean' = [unclean EXCEPT ![s] = TRUE]
        /\ UNCHANGED link
  /\ UNCHANGED <<task, linkLost, stopEvt, cancelled, slow, stopVars, sendVars,
                 machineVars, raced, stray, misjudged>>

\* CancelledError at the await the session is at: no handler catches it, and
\* the slow-connect timer is not cancelled.
NoticesCancel(s) ==
  /\ cancelled[s] /\ Running(s)
  /\ cancelled' = [cancelled EXCEPT ![s] = FALSE]
  /\ \/ /\ pc[s] = "resolving"
        /\ Goto(s, "done")
        /\ UNCHANGED <<held, unclean>>
     \/ /\ pc[s] = "connecting"
        /\ Goto(s, "done")
        /\ ClearHeld
        /\ UNCHANGED unclean
     \/ /\ pc[s] \in InBody \ {"closing"}
        /\ Leave(s)
        /\ UNCHANGED unclean
     \/ /\ pc[s] = "closing"
        /\ Goto(s, "done")
        /\ ClearHeld
        /\ unclean' = [unclean EXCEPT ![s] = TRUE]
  /\ UNCHANGED <<task, linkLost, stopEvt, slow, link, said, stopVars, sendVars,
                 machineVars, raced, stray, misjudged>>

-----------------------------------------------------------------------------
(* send_live, send_confirmed, send_prepare, send_start, send_brew *)

End(c, how) ==
  /\ call' = [call EXCEPT ![c] = "done"]
  /\ via' = [via EXCEPT ![c] = None]
  /\ outcome' = [outcome EXCEPT ![c] = how]

\* Each step reads the client anew; without one it raises (send_live: False).
Begin(c, n) ==
  /\ step' = [step EXCEPT ![c] = n]
  /\ took' = [took EXCEPT ![c] = FALSE]
  /\ \/ /\ held # None
        /\ call' = [call EXCEPT ![c] = "awaiting"]
        /\ via' = [via EXCEPT ![c] = held]
        /\ UNCHANGED outcome
     \/ /\ held = None
        /\ End(c, IF Kind[c] = "live" THEN "unanswered" ELSE "raised")

CallSend(c) ==
  /\ call[c] = "idle"
  /\ Begin(c, 1)
  /\ UNCHANGED <<sharedVars, sessionVars, stopVars, loaded, started, brewed, historyVars>>

\* The next step, after the settle sleep.
NextStep(c) ==
  /\ call[c] = "settling"
  /\ Begin(c, step[c] + 1)
  /\ UNCHANGED <<sharedVars, sessionVars, stopVars, loaded, started, brewed, historyVars>>

\* External: the machine takes the command.
MachineTakes(c) ==
  /\ call[c] = "awaiting"
  /\ link[via[c]] = "up"
  /\ ~took[c]
  /\ took' = [took EXCEPT ![c] = TRUE]
  /\ loaded' = IF Steps(c)[step[c]] = "recipe" THEN c ELSE loaded
  /\ \/ /\ Steps(c)[step[c]] = "execute"
        /\ started' = started \union {c}
        /\ brewed' = [brewed EXCEPT ![c] = loaded]
     \/ /\ Steps(c)[step[c]] # "execute"
        /\ UNCHANGED <<started, brewed>>
  /\ UNCHANGED <<sharedVars, sessionVars, stopVars, sendVars, historyVars>>

\* _on_frame gives every answer to the client in _ble.
Hears(c) == held = via[c] /\ link[held] = "up" /\ pc[held] \in InBody \ {"subscribing"}

\* On to the next step, or to the end.
Advance(c) ==
  \/ /\ step[c] < Len(Steps(c))
     /\ call' = [call EXCEPT ![c] = "settling"]
     /\ UNCHANGED <<via, outcome>>
  \/ /\ step[c] = Len(Steps(c))
     /\ End(c, "sent")

Accepted(c) ==
  /\ call[c] = "awaiting"
  /\ Kind[c] = "live" \/ (took[c] /\ Hears(c))
  /\ Advance(c)
  /\ UNCHANGED <<sharedVars, sessionVars, stopVars, step, machineVars, historyVars>>

Refused(c) ==
  /\ call[c] = "awaiting"
  /\ Kind[c] # "live"
  /\ ~took[c] /\ Hears(c)
  /\ End(c, "refused")
  /\ UNCHANGED <<sharedVars, sessionVars, stopVars, step, machineVars, historyVars>>

\* Faulty variant: False from write_confirmed is not looked at.
IgnoreSilence(c) == Advance(c)

\* False from write_confirmed: CommandUnanswered, or False from send_confirmed.
EndUnanswered(c) == End(c, "unanswered")

Unanswered(c) ==
  /\ call[c] = "awaiting"
  /\ Kind[c] # "live"
  /\ EndUnanswered(c)
  /\ UNCHANGED <<sharedVars, sessionVars, stopVars, step, machineVars, historyVars>>

\* A write raises; what it says of the link goes to the listener, even when the
\* client is that of a session already replaced.
WriteFails(c) ==
  /\ call[c] = "awaiting"
  /\ link[via[c]] # "up"
  /\ linkLost' = TRUE
  /\ stray' = (stray \/ (IsRunning /\ task # via[c]))
  /\ End(c, "raised")
  /\ UNCHANGED <<task, held, stopEvt, sessionVars, stopVars, step, machineVars,
                 raced, unclean, misjudged>>

-----------------------------------------------------------------------------
(* External: the link *)

LinkDrops(s) ==
  /\ Claims(s)
  /\ link' = [link EXCEPT ![s] = "down"]
  /\ UNCHANGED <<sharedVars, pc, cancelled, slow, said, stopVars, sendVars, machineVars,
                 historyVars>>

\* Another connection took the machine.
LinkDies(s) ==
  /\ link[s] = "up"
  /\ link' = [link EXCEPT ![s] = "dead"]
  /\ UNCHANGED <<sharedVars, pc, cancelled, slow, said, stopVars, sendVars, machineVars,
                 historyVars>>

-----------------------------------------------------------------------------
Run(s) ==
  \/ ResolveFinds(s) \/ ResolveFails(s) \/ SlowConnect(s) \/ Connects(s) \/ ConnectFails(s)
  \/ Subscribes(s) \/ Ready(s) \/ Tick(s) \/ IdleTick(s) \/ Closes(s) \/ NoticesCancel(s)

Send(c) ==
  \/ CallSend(c) \/ NextStep(c) \/ MachineTakes(c) \/ Accepted(c) \/ Refused(c)
  \/ Unanswered(c) \/ WriteFails(c)

Next ==
  \/ \E s \in Sessions : Start(s) \/ Run(s) \/ LinkDrops(s) \/ LinkDies(s)
  \/ \E k \in Stops : CallStop(k) \/ StopTimer(k) \/ StopReturns(k)
  \/ \E c \in Sends : Send(c)

Spec == Init /\ [][Next]_vars

\* asyncio's timers fire and runnable coroutines run; bleak's disconnect ends.
\* Nothing says that the resolver or a connect ends.
FairSpec ==
  /\ Spec
  /\ \A s \in Sessions : WF_vars(Tick(s)) /\ WF_vars(Closes(s)) /\ WF_vars(NoticesCancel(s))
  /\ \A k \in Stops : WF_vars(StopTimer(k)) /\ WF_vars(StopReturns(k))

-----------------------------------------------------------------------------
(* Properties *)

SharedOK ==
  /\ task \in Sessions \union {None}
  /\ held \in Sessions \union {None}
  /\ linkLost \in BOOLEAN
  /\ stopEvt \in BOOLEAN

SessionsOK ==
  /\ pc \in [Sessions -> Awaits \union Over \union {"unborn"}]
  /\ cancelled \in [Sessions -> BOOLEAN]
  /\ slow \in [Sessions -> {"none", "armed", "cancelled", "fired"}]
  /\ link \in [Sessions -> {"up", "dead", "down"}]
  /\ said \in [Sessions -> Seq(Phases)]

StopsOK ==
  /\ stop \in [Stops -> {"idle", "waiting", "timedout", "done", "raised"}]
  /\ target \in [Stops -> Sessions \union {None}]
  /\ \A k \in Stops : stop[k] \in {"waiting", "timedout"} => target[k] # None

SendsOK ==
  /\ call \in [Sends -> {"idle", "awaiting", "settling", "done"}]
  /\ step \in [Sends -> Nat \ {0}]
  /\ via \in [Sends -> Sessions \union {None}]
  /\ outcome \in [Sends -> Outcomes]
  /\ \A c \in Sends : call[c] = "awaiting" => via[c] # None

MachineOK ==
  /\ took \in [Sends -> BOOLEAN]
  /\ loaded \in Sends \union {None}
  /\ started \subseteq Sends
  /\ brewed \in [Sends -> Sends \union {None}]

HistoryOK ==
  /\ raced \in BOOLEAN
  /\ stray \in BOOLEAN
  /\ unclean \in [Sessions -> BOOLEAN]
  /\ misjudged \subseteq Sessions

TypeOK == SharedOK /\ SessionsOK /\ StopsOK /\ SendsOK /\ MachineOK /\ HistoryOK

\* "Holds a BleakClient open for as long as the caller keeps the listener
\* started": a session that runs is the one that is_running and stop() know of.
HeldOnlyWhileStarted == \A s \in Sessions : Running(s) => task = s

\* So it is as long as start() never slips in between the end of a task and
\* the stop() that waits for it; then there is never a second session either.
NoOrphanUnlessRaced == ~raced => HeldOnlyWhileStarted

\* The client in _client is that of a session inside its `async with`; and of
\* the one that is there, unless a session was orphaned.
HeldByTheSession ==
  /\ held # None => pc[held] \in InBody
  /\ ~raced => \A s \in Sessions : pc[s] \in InBody => held = s

\* Once the session that stop() waited for is over, its link is closed, unless
\* disconnect() itself was cut short.
OverMeansClosed ==
  \A s \in Sessions : pc[s] \in Over => ~Claims(s) \/ unclean[s]

\* A session says failed for a lost link only if its own link was lost; not so
\* when a send that outlived its session failed, or when sessions overlap.
LostMeansLost == misjudged # {} => raced \/ stray

\* What a host hears of one session: perhaps connecting, perhaps ready, then at
\* most one end.  Only a disconnect that raises adds a second.
Announcements ==
  {a \o b \o e : a \in {<< >>, <<"connecting">>}, b \in {<< >>, <<"ready">>},
                 e \in {<< >>, <<"failed">>, <<"auto_stopped">>}}
LifecycleInOrder ==
  \A s \in Sessions :
    \/ said[s] \in Announcements
    \/ unclean[s] /\ \E a \in Announcements : said[s] = Append(a, "failed")

\* A brew over the session starts the recipe it sent, and not one the machine
\* held before, whatever sessions come and go meanwhile, as long as no other
\* call sends recipes.
StartsOwnRecipe ==
  \A c \in started :
    Kind[c] = "brew" /\ (\A d \in Sends \ {c} : ~Brewing(d)) => brewed[c] = c

\* stop() returns or raises, however long the session's awaits take.
StopsReturn ==
  \A k \in Stops : stop[k] = "waiting" ~> stop[k] \in {"done", "raised"}

\* A held session whose link drops ends, unless sessions overlap: then it may
\* look at another session's client, or at none.
LostLinkEnds ==
  \A s \in Sessions : (pc[s] = "holding" /\ link[s] = "down") ~> (pc[s] \in Over \/ raced)
=============================================================================
