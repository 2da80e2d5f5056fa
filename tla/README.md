# A verification project for xbloom-py

TLA+ models of the parts of `xbloom-py` whose behaviour depends on timing, order
and failure; TLC configurations that check them on small instances; theorems
about them whose proofs TLAPS checks for every instance. Paths are relative to
the repository root; `ble.py` is `src/xbloom/ble.py`.

- [Inventory](#inventory): the system's parts, and what makes each one correct
- [Plan](#plan): the modules in order, the abstract specifications, the theorems
- [Modules](#modules): what each module models and how it corresponds to the code
- [Runs](#runs), [bounds](#bounds-and-why-they-are-enough), [fairness](#fairness)
- [Proofs](#proofs)
- [Disagreements found](#disagreements-found)
- [Not modelled](#not-modelled)

## Inventory

`xbloom-py` drives a coffee machine over Bluetooth Low Energy (BLE) and talks to
the vendor's cloud. It is an asyncio library. Notifications from the machine
arrive by bleak, possibly on another thread; everything else runs on one loop.

| Part | Where | State it keeps | Operations |
|---|---|---|---|
| Send-and-confirm layer | `ble.py` `_Reply`, `note_reply`, `write_confirmed`, `_ensure_notify`, `send_command`, `brew` | `_echo_waiters` (one `_Reply` per command code), `_sleeping`, `_notify_active`, each `_Reply`'s event and verdict | write a command and wait for its echo, re-send on timeout, raise on refusal, run the five frames of a brew |
| Status snapshot, end of a brew | `ble.py` `read_status_snapshot`, `note_status`, `wait_for_completion` | `_snapshot_future`, the enjoy event, last status | wait for one heartbeat; wait for ENJOY |
| Notification framing | `ble.py` `NotificationAssembler`, `split_notification` | `_pending`, the start of a split frame | feed a notification, reset |
| Notification decoding | `ble.py` `decode_notification` and its tables | none | bytes to a dict |
| Encoding | `ble.py` frame and recipe builders, volume gate, slot writer | none | bytes of each frame |
| Mode listener | `mode_listener.py` | `_task`, `_stop_evt`, `_link_lost`, `_client` and `_ble`, last activity | hold a session open; send over it; end it when idle, stopped or lost |
| OTA flasher | `ota.py` | `_acks` queue, `_ready` event | send header and blocks, wait for an ACK per block, re-send |
| Cloud session | `cloud.py` | token, member id | calls that log in again when the token expired; recipe list from two requests |
| Recipe build, validate, scale | `recipe_build.py`, `recipe_validate.py`, `brew_scale.py` | none | pure functions on recipes |
| Tables | `spec.py` | constants | ranges, snapping, refusal bits |
| Share-link client, models, exceptions | `client.py`, `models.py`, `exceptions.py` | none | one HTTP request; data classes |

How they interact. `brew` and `send_command` both go through `write_confirmed`.
Its answers come from `note_reply`, which bleak calls for each frame the
assembler cuts out of a notification; `note_reply` looks the waiter up on its
own thread and leaves the rest to the loop (`call_soon_threadsafe`). Calls on
one client share `_echo_waiters`, `_sleeping`, `_notify_active` and the link.
The mode listener owns a client for the length of a session, and its sends run
beside its hold loop. The flasher has a connection of its own.

What is hard, and what correctness means there:

- *Send-and-confirm.* A machine may answer after the timer, answer each copy of a
  re-sent command, sleep through one, refuse one, or vanish. A step counted as
  accepted must have been taken; EXECUTE must not go out before the recipe was
  taken; a call must hear the answer that is its own and no other; every call
  must end. Several calls share the waiters and the subscription flag.
- *Snapshot and completion.* Two threads and one future; events of the previous
  brew that arrive during this one. A caller must get a status of its own time.
- *Framing.* Frames split over notifications, notifications lost. Everything sent
  whole must come out whole, in order; nothing must be swallowed for long.
- *Mode listener.* `start`, `stop`, the session task, its timers and failing sends
  interleave at every await. One session at most; after `stop` nothing is left.
- *OTA.* Late ACKs, NAKs, lost ACKs. A block counted as acknowledged must be held.
- *Cloud.* Concurrent calls meeting the same expired token; one request of two
  failing; a list that shows one page, without the entries that do not parse.
- *Recipes.* Float32 sums against the machine's gate, 127 ml chunks, rounding left
  to the last pour. Totals kept, ranges kept, loops that end.

Every hazard, at its line, is in `PROJECT.json` under `hazards`; one that no property
covers has a note that says why.

## Plan

Built in this order, the most important behaviour first:

1. **`SendConfirm`** - the send-and-confirm layer, with the abstract
   `BrewContract` it implements (`SendConfirmRefines`) and `SendConfirmProofs`.
2. **`NotificationAssembler`** - `feed` and `reset` against a machine that cuts its
   frames into notifications, with and without loss, and `NotificationAssemblerProofs`.
3. **`OtaFlash`** - `flash` against a receiver with late, lost and negative answers, with
   the abstract `GatedTransfer` it implements, and `OtaFlashProofs`.
4. **`StatusSnapshot`** - the future shared by two threads and by overlapping calls,
   and `StatusSnapshotProofs`.
5. **`ModeListener`** - sessions, `start`, `stop`, the sends over a held link, and
   `ModeListenerProofs`. It uses `write_confirmed` by its contract, which
   `SendConfirm` details.
6. **`CloudSession`** - calls at once over one token, log-in after expiry, the list
   made of two requests, and `CloudSessionProofs`.
7. **`RecipeSpec`**, **`RecipeGate`**, **`RecipeBuild`** - tables, wire form with the
   float32 gate, and what a recipe goes through, as functions; **`Recipes`** composes
   them into what a host does with one recipe. `RecipeGateProofs` (the functions) and
   `RecipesProofs` (the composition).

## Modules

### SendConfirm

State, and what it is in the code:

| Variable | Code |
|---|---|
| `pc[t]`, `step[t]`, `attempt[t]`, `outcome[t]` | where coroutine `t` awaits; the loop variables of `brew` and `write_confirmed`; how the call ended |
| `echoWaiters[c]` | `_echo_waiters`, `None` for an absent key |
| `answers[s]` | the event and verdict of the `_Reply` made for step `s[2]` of call `s[1]` |
| `loopQ` | `_Reply.answer` callbacks given to `call_soon_threadsafe`, not run yet |
| `sleeping`, `notifyActive` | `_sleeping`, `_notify_active` |
| `link`, `subscribed` | the BLE link; whether FFE2 really notifies this client |
| `air`, `notif` | commands and notifications in flight, in order |
| `asleep`, `taken`, `firstVerdict` | the machine (external): asleep or not, copies of each command taken, first verdict given |

One action is the code between two awaits. `CallBrew`/`CallSend` are the start of
the two entry points, `SubscribeOK`/`SubscribeFails`/`Settled` are
`_ensure_notify` and what its two callers do after it, `DegradedWrite` the plain
write of `send_command` without notifications. `Write`, `WriteFails`, `Accept`,
`Refused`, `TimerFires`, `Retry` and `GiveUp` are `write_confirmed`; `NextStep`
is the pause between the steps of `brew` and its last look at the link.
`NoteReply` is the notification thread, `RunCallback` what it leaves to the loop.

`TimerFires` is separate from `Retry` and `GiveUp` because asyncio runs the timer
and the coroutine it cancels in different iterations: an answer in between sets
the event, but `wait_for` (Python 3.12, the oldest `pyproject.toml` allows) still
raises `TimeoutError`.

The machine is external, modelled from what the client and its tests expect: it
takes commands in order and echoes the code; it may refuse one; asleep it may
miss one, or wake and take it; it announces sleep and waking; it may answer as
late as it likes. The refusals in `RESEND_MEANS_TAKEN` (`spec.py`) mean "busy
with it": unless `BusyElsewhere`, the machine gives them only for a command it
took. `LinkDrops` loses what is in flight; a write fails when the link is down.

Abstracted: payload bytes (a frame is the step it carries), the 3 s timeout of a
brew's step and the 1.5 s of a command (a
timer may fire whenever the wait is on), the pause lengths, the fault bits beside
the refusal in a reply (`REFUSAL_BITS` is taken as already decoded).

### BrewContract and SendConfirmRefines

`BrewContract` is what a caller relies on: the machine gets the steps of a call
one at a time, in order; a step counts as accepted only once held; "sent" means
all are held; a call that stopped leaves at most the step it stopped at to be
taken late. `SendConfirmRefines` maps the layer onto it: the machine holds the
accepted steps, and the current one once it took a copy. `DistinctCodes` is the
condition of the mapping: `brew`'s five codes differ, and so must those of
commands sent beside it.

### SendConfirmProofs

The theorems; see [Proofs](#proofs).

### MCSendConfirm

The instances. Codes, calls and scripts for the runs below.

### NotificationAssembler

`pending` is `_pending`; `FeedOn(p, d)` is what `feed` returns for notification `d` and
what it keeps, `Split` its part below the joining; `FrameLength`, `CrcOk`, `Walk` and
`CouldOpenAFrame` are the helpers of the same names. `Feed` is `_on_notify`, with the
first test of the decoder (`Decodes`) applied to what comes out; `Reset` is `reset`,
called for each new subscription, also by `brew` over a link that is already up.
`Decoded` keeps of what comes out what the decoder does not reject.

A byte is a pair, byte `i` of frame `k` of the stream, and `Value` what it reads as: the
length field of a misplaced frame is computed from whatever bytes stand there, as the
code does. The checksum is the one place where values are not computed: it is taken to
hold of whole frames and of nothing else (CRC-16 misses one damaged join in 65,536; a
start of one frame and the rest of another with the same bytes, which is a frame after
all, counts as damaged).

The machine (external) sends its frames as one stream, cut into notifications. A
notification may end inside a frame only when it is full enough (`MinCut`): the machine
splits a frame because the rest does not fit. Notifications arrive in order; one may
be lost whole. `synced` is history: since the stream was at a clean boundary, every
notification was heard; frames heard whole while it holds are `owed`. A boundary between
frames is clean (`CleanBoundary`) unless what `feed` holds there misses more than the next
notification is sure to bring (`Least`): then `feed` waits on, and takes the frames that
come for the rest of the lost one.

### OtaFlash

`pc`, `block`, `attempt`, `done` are where `flash` awaits, `k`, the loop variable of
`_send_block`, and the last block given to the progress callback; `acks` and `ready` are
`_acks` and `_ready`, which outlive a call. `Connect`, `Subscribe`, `WriteStart`,
`Polled`, `WriteHeader` are the awaits of `flash` in order; `WriteBlock`, `Acked`,
`Naked`, `TimerFires` those of `_send_block`; `WriteRaises` any of bleak's calls on a
dead link, `Disconnect` the `finally`.

The receiver is external, modelled from what the sender relies on: it takes the block
whose number comes next, answers ACK to that and to a repeat of the last one (whose ACK
was lost), and NAK to anything else. It may reject or lose a block, lose an answer, and
answer at any time; `late` records that a timer fired while a block or its answer was
still on its way. Numbers are those of the marker, modulo `SeqMod` (256); the
last block carries the end marker, which has neither number nor checksum.

Abstracted: a block is its number and is written whole (a link lost in the middle of
the chunks is `LoseFrame` before `LinkDrops`); header and checksums; a progress callback
that raises. Damage to the last block is not told from arrival: its marker has no
checksum, so no acknowledgement could.

### GatedTransfer

`GatedTransfer` is what a caller relies on while answers are in time: the receiver begins
an image before any of it is reported; it gets a block only when every block before it
was reported, so it is never more than one ahead; a block is reported only when the
receiver has it; the last report is the success, and a flash that fails stops short of
it. `OtaFlash` maps onto it by the number of blocks stored, `done`, `result` and `~late`
(`Gated`). Nothing is promised once an answer was late.

### StatusSnapshot

`slot` is `_snapshot_future`, `awaited[t]` the future that call `t` really awaits,
`future`/`holds` the state of each future object, `loopQ` the `set_result` callbacks left
to the loop. `CallSnapshot`, `NoStream`, `Nudge`, `Await`, `Return`, `TimerFires`,
`TimedOut`, `Cancelled` are `read_status_snapshot` between its awaits (`Finish` is its
`finally`), `Heartbeat` is `_on_frame` on bleak's thread, `RunCallback` the loop.

What asyncio does is modelled as Python 3.12 does it: a timer of `wait_for` cancels the
awaited future even if another coroutine awaits it too; `wait_for(None)` raises; a
`set_result` on a future that is done raises in the loop's handler and changes
nothing. `together` records that a call was made while another ran. The handshake between `Nudge` and `Await` is the layer of `SendConfirm`; here
it takes any time and its outcome is ignored, as the code does.

### ModeListener

`task`, `held`, `linkLost`, `stopEvt` are `_task`, `_client` with `_ble` (always set
together), `_link_lost` (set or not), `_stop_evt`: one of each for all sessions. Session
`s` is the task that the `s`-th successful `start()` created; `pc[s]` is the await of
`_run` it is at, `cancelled[s]` whether it was cancelled and has not run since, `slow[s]`
the timer handle, `said[s]` what it passed to `on_lifecycle`. `link[s]` is what its client
holds: a link that is "dead" was taken by another connection but still says
`is_connected`. `stop[k]` and `target[k]` are where a call of `stop()` is and the local
variable `task`; `call[c]`, `step[c]`, `via[c]` the same of a send, `via` being the client
it read.

`Start` is `start()`; `CallStop`, `StopTimer`, `StopReturns` are `stop()` between its
awaits, `Finish` its end; `ResolveFinds` to `Closes` are `_run`, `Leave` the way out of
`async with` that four of them take, `NoticesCancel` `CancelledError` at any await.
`CallSend` to `WriteFails` are the five senders, which differ in `Steps(c)`.

What asyncio does is modelled as Python 3.12 does it: `wait_for(task)` that times out
cancels the task and waits for its end. A cancelled `stop()` does the same, which is why
`StopTimer` stands for both.

The machine (external) takes one connection at a time: `Connects` takes the link from
any other session. It holds the last recipe it took (`loaded`) and `execute` starts that
one (`brewed`). `raced`, `stray`, `unclean`, `misjudged` are history: they name the
conditions of the properties, and no action reads them to decide what happens.

Abstracted: time (idleness may come at any tick), the reasons in the announcements,
the forwarding of decoded events, `_read_initial_state` (takes any time up to its
timeout).

### CloudSession

`pc[t]` is the request a call awaits, `sentWith[t]` the token it was sent with,
`answer[t]` what came back. `Call` is `list_recipes`, `create_recipe`, `update_recipe`,
`delete_recipe`; `Created`, `Shared`, `Changed` are what these do with an answer, `Fails`
is `_call`'s handler, `LoggedIn` the end of `_relogin`. A list is two requests, and the
second may fail and be left out (`omitted`); of each answer (`page`) the client keeps what
parses (`Parsed`).

The server (external) handles a request at one moment and answers it at a later
one (`Handle`, `Read`, `Mint`), or never sees it (`Lose`). A change that was made may
still be answered by an error or a timeout. It may let a token expire (`Lapse`), and with
`SingleSession` a login ends every other token. `lapsed[t]` remembers that the token minted
for `t` itself was good and is so no longer (`Withdrawn`); an overlapping login does not set
it for a call whose own token is still to come. The library is on two lists that are
disjoint: `shares` says which changes are of shared recipes. The client asks for the first
page of 100 of each and for no other, so `Read` sends the whole list or any part of it with
at least `Room` changes in it: beside older recipes a page has room for so many of them,
and the code says nothing of the order. `garbled` are the changes `_parse_recipe` raises
for. So a change that had returned may be missing from a list that returns, and
`ListsOwnWrites` says that it is so only for one of three reasons: it does not parse, its
list is longer than the page (`Crowded`), or it is shared and that list was left out.

Abstracted: encryption, transport, the shape of a response (an answer is one of five),
the recipes themselves (a recipe is the call that made it).

### RecipeSpec, RecipeGate, RecipeBuild, Recipes

All quantities are integers, in tenths of their unit; no table of `spec.py` has a finer
grid. `Round` is Python's `round` (to even at a tie). Where the code rounds a quotient
that is not exact in binary, a tie may go either way: `RoundEither` takes the side that
`tieUp` says, and TLC checks both. One choice stands for all ties of a behaviour, where Python
may take one side at one and the other at the next; no property depends on it, for the bounds
hold on either side and equal operands round alike.

`RecipeSpec` is `spec.py`: `NumRange` (`Snap`, `InRange`), cups, ratios, patterns,
all ten `Fields`, and the three domains of the brewer's temperature. `RecipeGate` is
`encode_recipe_blob` with `_gate_consistent_volumes`; the float32 product is computed
exactly, as an integer with `Places(r)` binary places, for ratio bytes up to 255 and doses up to
127 g. `GatePasses` is the firmware (external), as the docstring at `ble.py:146` gives it.
`RecipeBuild` has `normalize_recipe`, `guess_ratio`, `validate_recipe` (`Faults`, by field),
`auto_fill_pours`, `redistribute_pours`, `build` (`BuildRecipe`), `scale_recipe`,
`recipe_to_cloud_body` and `_parse_recipe`. `build` takes `bool()` of the bypass flag it is given
(`Truthy`), and a recipe has 1 for on and 2 for off, so `FieldsOf`, the recipe's own values,
turns bypass on: `BuildIsStable` says that this, and short pauses, are all that building again
moves. `recipe_to_cloud_body` has its defaults for the recipe's keys; a pour always has all
its values here, so those for its keys are left out.

`Recipes` is their composition: a host builds or imports a recipe, edits it, scales it,
uploads it, downloads it and sends it, in any order in which the library lets it. An editor
hands the bypass flag back as it read it, or turns the bypass off (`EditorFields`).
`frames` is what `build_brew_frames` and `packet_slot_write` put into their frames. Sending
does not validate: any recipe with pours is sent, unless `bytes()` refuses one of its
temperatures (`Encodes`). The length byte of its blob is masked, so it may wrap for a
recipe with enough pours; `BlobFits` says that it does not for one without faults.
Left out: wording of adjustments and errors, names and labels (a cup is its number), the
bytes of a frame around the recipe.

### The modules of proofs

`SendConfirmProofs`, `NotificationAssemblerProofs`, `OtaFlashProofs`,
`StatusSnapshotProofs`, `ModeListenerProofs`, `CloudSessionProofs`, `RecipeGateProofs` and
`RecipesProofs`; see [Proofs](#proofs).

## Runs

| Run | Configuration | Question | States |
|---|---|---|---|
| `brew` | `Brew.cfg` | One brew, its five frames, two writes each: are accepted steps taken (`AcceptedMeansTaken`), is no command on its way before the ones it depends on (`SentInOrder`), does the machine's first answer decide a step (`FirstAnswerDecides`), does the layer keep `BrewContract`? | 67,780 |
| `brew_and_send` | `BrewAndSend.cfg` | A brew (recipe, execute) and a sleep-gated command on one connection: does each wait hear its own answer (`AwaitedIsHeard`), is one left behind (`NoStrayWaiter`), can resetting the shared flag leave a brew deaf (`BrewNeverBlind`), does each keep its contract, does every call end with nothing assumed of machine or link (`CallsReturn`)? | 338,905 |
| `late_busy` | `LateBusy.cfg` | Expected violation of `SentInOrder` when a machine is busy with something else. | |
| `framing` | `Framing.cfg` | Frames cut anywhere, two losses or resets: does every frame heard whole since a clean boundary come out (`WholeFramesHeard`), is only what was sent returned, in order (`OnlyFramesSent`), is what is held bounded (`PendingBounded`)? | 56,505 |
| `flash` | `Flash.cfg` | Two flashes, four blocks, one retry, numbers modulo 2: as long as no answer was late, is what is reported done stored (`StoredUnlessLate`), and a flash that returned whole (`WholeUnlessLate`), and is a flash a `GatedTransfer` (`KeepsGate`)? Does every flash end (`FlashEnds`)? | 807,678 |
| `late_ack` | `LateAck.cfg` | Expected violation of `FlashedMeansWhole`: an answer may be late. | |
| `snapshot` | `Snapshot.cfg` | Three snapshots, apart or at once, two heartbeats: is the status new (`FreshStatus`), does none raise unless two overlapped (`AloneNeverRaises`), does each end (`SnapshotsEnd`)? | 568,146 |
| `listener` | `Listener.cfg` | Two sessions, one stop, one brew, any cancellation: does the listener know the session that runs (`NoOrphanUnlessRaced`), is the client it sends with that session's (`HeldByTheSession`), is a link left behind (`OverMeansClosed`), is "failed" said for a good link (`LostMeansLost`), in which order does the host hear phases (`LifecycleInOrder`), does a brew start its own recipe (`StartsOwnRecipe`)? Do `stop()` and lost sessions end (`StopsReturn`, `LostLinkEnds`)? | 356,700 |
| `orphan` | `Orphan.cfg` | Expected violation of `HeldOnlyWhileStarted`. | |
| `cloud` | `Cloud.cfg` | Two changes and a list at once, tokens that expire or are displaced by a login: is a change made twice (`MadeAtMostOnce`), or made although its caller hears that the session expired (`ExpiredMeansUndone`)? Is the password asked for without need (`AskedOnlyWithoutPassword`), is a write that had returned missing from a list without one of the named reasons (`ListsOwnWrites`)? Does each call end (`CallsEnd`)? | 315,582 |
| `recipes` | `Recipes.cfg` | Recipes at and beyond the ends of their ranges: does the machine take what is sent (`MachineTakesIt`), does a recipe without faults fit its blob (`BlobFits`), do pours keep their share (`SharesKept`)? Is what `build` returns valid (`OnlyUnsnappable`) and stable (`BuildIsStable`), does an edit keep the shape (`EditKeepsShape`), does a recipe survive the cloud (`CloudKeepsRecipe`)? | 164,466 |
| `scaled` | `Scaled.cfg` | Expected violation of `SavedAsScaled`. | |

`StopsReturn` and `LostLinkEnds` assume nothing of the resolver or of a connect, which
may hang; `stop()` ends both by cancellation. `LostMeansLost` has two exceptions, both of
the code: a send that outlives its session (`mode_listener.py:169`), and overlapping
sessions (`orphan`).

Deadlock checking is off in every run: a client whose calls all returned, with
nothing in flight and the link down, is a legitimate end; so is a stream that was sent
to its end, a flasher whose flashes are over, a set of snapshots or cloud calls that
returned, a listener whose sessions are over, a recipe that was sent.

Each property of a passing run has a faulty variant of the code (a definition
commented *Faulty variant* before the one it stands for) under which the same run
finds the property violated; `PROJECT.json` lists the pairs under `mutants`.

## Bounds, and why they are enough

- `Calls`: one or two. The shared state is per code, per flag or per link, so any
  interference shows between two calls.
- `Script`: all five steps in `brew`; two (the pair that must not swap) beside
  another call. A step does nothing that depends on its
  index beyond being first, last or in the middle.
- `MaxAttempts = 2`, the code's `BREW_STEP_ATTEMPTS` (`ble.py:770`; a command is written up to
  three times): one re-send makes the machine hold two copies and answer twice; a third copy is told from the second by nothing in the code.
  The proofs take any number.
- `NoticeBound`: the machine falls asleep or wakes by itself only while fewer than
  this many notifications are in flight. It bounds `notif`; everything else in
  flight is bounded by the writes.
- `Refusals`: one in `RESEND_MEANS_TAKEN`, and in `brew` one that is not.

`NotificationAssembler`:

- `Lengths`: 12 and 16 are an event without a value and a reading of one float; 18 is the
  frame of which nine bytes may be held and nine missing, more than a notification of
  `MinCut` brings; 30 stands for machine info (67 bytes and more), with
  `MaxFrameLen = 48` in the place of 1024. What matters is kept: cut in its first bytes it
  takes three notifications, what is missing of it can exceed the frames behind it, and it
  is below the limit.
- `Mtu = 20`: a notification holds one short frame and a part of the next.
- `MinCut = 8`: the smallest for which `framing` passes. With 7, two parts of a frame
  that are together shorter than the header (9 bytes) are dropped; a machine that fills
  its notifications never sends such parts. The theorems have the same bound.
- `MaxLosses = 2`: one loss leaves a half frame, a second loses the rest of it.
- `Least` is exact: allow one byte more in `CleanBoundary` and `framing` fails.

`OtaFlash`: `Blocks = 4` with `SeqMod = 2` lets the numbers wrap twice, the adversary of
256; the proofs take any. `MaxFlashes = 2` shows what one call leaves to the next.

`StatusSnapshot`: three calls, in turn or at once (`slot` is one attribute: two overlap, a
third comes later); two heartbeats, before, between or after them.

`ModeListener`: two sessions, the least for which one replaces another. Three at once need
two stops that are raced, which the theorems cover. One stop, and a brew cut to recipe and
execute: the pair whose order matters. A call of another kind differs from a brew by its
steps alone; the proofs take any calls.

`CloudSession`: two changes and one list, the two shapes of a call, so that three may meet
one expired token; `SingleSession`, the server that gives a client most trouble: besides
the one expiry each login ends the tokens of the calls before it. `Room = 1` with two changes,
so that a page may leave one out; `Layouts` has one change on each list, and both on one with
an entry that does not parse: every exception of `ListsOwnWrites` happens, and so does its
rule. The proofs take any number of calls, any room and any layout.

`Recipes`: `MCRecipes` lists the recipes: each field absent, off its grid, at and beyond
its ends; pours that are empty, negative, longer than 127 ml, too many, or do not add up; ratios
unreadable, missing, as denominator and as water; bypass off, on with its water, and on by a
stored 2 without. One edit or scaling: a second starts
from a recipe of the same kind (`BuildIsStable`).

No symmetry is used: the calls of `SendConfirm` play different parts, and the other
instances are small.

## Fairness

`FairSpec` has weak fairness on `Run(t)` for each call: asyncio runs a coroutine whose
await is over, `wait_for`'s timer fires, and bleak's `start_notify` and
`write_gatt_char` return or raise. Nothing is assumed of the machine, of the link,
of the notification thread, or of whether a call is made. That is the claim:
`CallsReturn` rests on the client's own timers and bounded re-sends.

`OtaFlash!FairSpec`: weak fairness on `Flasher`, the coroutine of `flash`: its timers
fire and bleak's calls return or raise. Nothing of the receiver or the link.
`StatusSnapshot!FairSpec`: weak fairness on each call's own steps; none on heartbeats,
on the notification thread, or on the callbacks.

`ModeListener!FairSpec`: weak fairness on `Tick`, `Closes` and `NoticesCancel` of each
session and on the timer and return of each stop: a sleep ends, a cancelled task is
resumed, `disconnect` returns or raises, `wait_for` times out. Nothing of resolver,
connect, machine or link.
`CloudSession!FairSpec`: weak fairness on what a call does with an answer, and on the
server with the transport: a request is answered or fails (`aiohttp` ends a request after five
minutes by default).

## Proofs

`SendConfirmProofs` proves, for all constants that satisfy the named assumptions of
`SendConfirm` (any number of calls, any scripts, any number of attempts, any
`NoticeBound`):

- `TypeCorrect`: `Spec => []TypeOK`. Not inductive alone: `TypeInv` adds that a call
  not finished is at a step it has (`AtAStep`), which makes `CodeOf(Slot(t))`
  meaningful wherever the code uses it.
- `AcceptedIsTaken` and `CommandsInOrder`: `Spec => []AcceptedMeansTaken` and
  `Spec => []SentInOrder`, both assuming `~BusyElsewhere`.

The inductive invariant `Inv` of the last two follows a verdict along its way. Call a
verdict on `c` truthful when, if it could ever count as acceptance (an echo or a
refusal in `RESEND_MEANS_TAKEN`), the machine took `c`. `Inv` says that verdicts are
truthful in `notif`, in `loopQ` and in `answers`, and that a waiter registered under a
code is for that code (`RoutedByCode`), without which a truthful verdict could be
delivered to the wrong step. `taken` never decreases, so truth is never lost
(`TakenGrows`). The assumption is needed: `late_busy` is the run without it.

The invariant does not need distinct codes, so both theorems also cover concurrent
calls that share a waiter entry. Neither do these:

- `WaitersAreAwaited`: `Spec => []NoStrayWaiter`, with `RoutedByCode` and the types.
- `BrewHears`: `Spec => []BrewNeverBlind`. `HeardInv` says that `_notify_active` is never
  true over a link that is not subscribed, and that each call past the check of the flag
  is subscribed for as long as the link is up: a brew that resets the flag ends no
  subscription.

The rest assume that codes tell steps apart, since a reply carries nothing else:

- `CallsAreHeard`: `Spec => []AwaitedIsHeard`, assuming `CallsApart` (no two calls share a
  code; one call may repeat its own), which is weaker than `DistinctCodes`.
- `ImplementsContract`: `Spec => KeepsContract`, assuming `DistinctCodes` and
  `~BusyElsewhere`: initial states map to initial states of `BrewContract`, each action to
  one of its actions or to a stutter. Besides `Inv` it needs that only steps a call has
  entered are in flight or were met by the machine (`Entered`), so that the machine
  never takes a step the contract has not offered. Under a busy machine the layer does
  not implement it.
- `FirstAnswerIsKept`: `Spec => []FirstAnswerDecides`, assuming `DistinctCodes`. The
  invariant (`Chain`) follows the answers to one slot through both queues: the oldest one
  still under way is the machine's first, and as long as the link is up an awaited first
  answer is not lost.

`NotificationAssemblerProofs` proves, for every stream of frames, every way to cut it and
any number of losses and resets:

- `PendingIsBounded`: `Spec => []PendingBounded`. Inductive with it: what is held are bytes
  already sent, and the start of a frame that is not finished (`HeldOk`).
- `FramesInOrder`: `Spec => []OnlyFramesSent`, assuming `NoFalseStart`: no `58 02` inside
  a frame, which would be read as the start of one. `Ordered` says that what was decoded
  are frames that ended, in order, and none that a held start could still complete.
- `NothingLostAllOut`: as long as nothing is lost, and `MinCut` is 8 or more, what has come
  out are exactly the frames that have ended (`InStep`).
- `HeardIsReturned`: `Spec => []WholeFramesHeard`, whatever is lost, assuming `MinCut` of 8 or
  more and `MaxFrameLen` of at most 1024 (the code's). While `synced` holds, either what is
  held is the unfinished start of the frame the stream is in, or the stream is at a clean
  boundary (`FollowsStream`). At such a boundary the next notification is read for itself:
  a held start of nine bytes or more is completed by bytes that fail the checksum, a
  shorter one reads, with the header that follows, as a length beyond 1024
  (`StrayLength`). The bound in the code is what this rests on.

`End`, `Walk` and `Decoded` are recursive functions. What they compute for every input is
proved by the least counterexample (`LeastNumber`): the library's well-founded
induction in the form that speaks of a set instead of a predicate. The checksum is that of
the model, and the event code in `Value` that of the weight frames.

`OtaFlashProofs` proves, for any number of blocks and retries and any modulus of the
block numbers:

- `FlashTypeCorrect`: `Spec => []TypeOK`.
- `ProgressIsStored` and `FlashIsWhole`: `Spec => []StoredUnlessLate` and
  `Spec => []WholeUnlessLate`.
- `ImplementsGate`: `Spec => KeepsGate`, that `flash` implements `GatedTransfer`. Each action
  maps to a step of it or to a stutter: `TakeHeader` to `Open`, a `TakeBlock` that stores to
  `Store`, `Acked` to `Report`, what raises to `Fail`. It needs `Gate`, and `Lockstep`: a
  running flash has reported the blocks before the one it is at.

The inductive invariant `Gate` says that at most one block or one answer to it is
under way, and to which block it belongs: a block in `air` is the one `flash` is at
(`BlockInAir`), an ACK in `back` or in `acks` means that this block is stored
(`AnswerInBack`, `AnswerInQueue`), and outside of the wait for an answer nothing is in
flight. `Gate` is invariant until an answer is late (`GateHolds`). That the receiver cannot
take a repeat for the next block, nor the next one for a repeat, is `NumbersDiffer`:
consecutive numbers differ modulo `SeqMod`. The condition is needed: `late_ack` is the run
without it.

`StatusSnapshotProofs` proves, for any set of calls and any number of heartbeats:

- `SnapshotIsFresh`: `Spec => []FreshStatus`, overlapping calls included. The invariant
  (`Fresh`) says that a future in the attribute, or awaited, is `Newer` than each call
  that could still return its value: whatever it holds or is about to be given was
  heard after that call began. A call may well be given another's future, but never
  an older one than its own, because it wrote its own to the attribute first.
- `SnapshotRaisesNothing`: `Spec => []AloneNeverRaises`: until two calls overlap the
  attribute holds the running call's own future (`OwnFuture`).

`ModeListenerProofs` proves, for any number of sessions and stops, any sends of any kind
and any steps of a brew:

- `ListenerTypes`: `Spec => []TypeOK`.
- `NoOrphan`, `ClientOfTheSession`, `ClosedWhenOver`: `Spec => []NoOrphanUnlessRaced`,
  `Spec => []HeldByTheSession`, `Spec => []OverMeansClosed`.

None of the three is inductive. That `finally` clears only its own client needs that
two sessions are never inside `async with` at once, hence that a running session is in
`_task`, hence that a waiting stop waits for the one in `_task`, or for one another stop
has cleared (`TargetIsTask`). That an ended session is closed needs that a link which
claims to be up belongs to a session inside `async with`, or to one whose disconnect
was cut short (`LinkWithin`). `Inv` is the conjunction; the parts that know of one session
only hold until `raced`. `orphan` is the run without the condition.

`LostIsTold`: `Spec => []LostMeansLost`. Its invariant `Truth` says that `_link_lost` is
about the session that runs (`LostIsLost`), for which a send has to write with the client
of a session that was inside `async with` (`ViaWithin`).

`ToldInOrder`: `Spec => []LifecycleInOrder`. `Story` says of each await what the session has
told its host by then, and where its slow-connect timer can still be armed.
`OwnRecipeStarted`: `Spec => []StartsOwnRecipe`. `OwnRecipe` says that from the step that
sends the recipe on the machine holds it, as long as no other call sends recipes
(`Alone`); it needs the order of the steps in `Prepare` and nothing of the sessions, which
may come and go between them.

`CloudSessionProofs` proves, for any calls at once, either kind of server and any number
of expiries: `NothingTwice`, `ExpiredIsUndone`, `AsksForPassword` and `LogsInOnce`: `Spec =>
[]MadeAtMostOnce`, `[]ExpiredMeansUndone`, `[]AskedOnlyWithoutPassword`, `[]OneLogin`. The invariant says of each
call which request it may await in which phase (`Kinds`), how often the server can have
made its change given the answer it has (`Made`), how many tokens it asked for
(`Asked`), and that the token it retries with is the one minted for it, which the server
accepts unless it was withdrawn since (`Good`). `ListIsCurrent`: `Spec => []ListsOwnWrites`; on
top of it, what was made or had returned is in the library (`Kept`), and each answer of a list
held what had returned before the call on that list, but what is `Hidden` (`Gathered`), which
a retry finds anew; the library only grows, so what was hidden by the page stays so.

`RecipeGateProofs` proves, without bounds: `SnapLands`, for every range whose ends are on
its grid and every value, `snap` returns a value in range, on the grid, within half a
step, and is idempotent; `FieldsAreRanges`, each of the ten entries of `FIELDS` is such a range
and its default on its grid; `KnobIsKept`, every position of the brewer's knob in either unit is
saved as a temperature the machine knows and shown again as it was. It also has the lemmas
on folds that the rest uses: sums over the pours of a recipe, and that
`_gate_consistent_volumes` ends on volumes the firmware accepts.

`RecipesProofs` proves of `Recipes`, for any recipes given (`RecipesAssumption` only types
them), any weights and ratios, and any order of the host's operations:

- `RecipesAreTaken` and `SharesAreKept`: `Spec => []MachineTakesIt`, `Spec => []SharesKept`.
  They need only that a recipe is one (`Inv`); neither assumes that it is valid.
- `CloudReturns`: `Spec => []CloudKeepsRecipe`. `Inv` keeps what the cloud has of the saved
  recipe (`InCloud`) and what came back (`Returned`), field by field.
- `OnlyUnsnappableLeft` and `RebuildingKeeps`: `Spec => []OnlyUnsnappable`, `Spec =>
  []BuildIsStable`. `MadeInv` says that what build returned is on every grid (`Made`), and,
  when its ratio can be read, that its pours add up to its water (`Laden`). A built recipe's flag
is 1 or 2, both of which `build` takes for on, and without bypass it has neither water nor
temperature for it: so built again it is itself with the flag at 1.
- `EditingKeepsShape`: `Spec => []EditKeepsShape`, assuming that the weights and ratios a
  recipe is scaled to are not negative (`scale_recipe` takes them as they come; with a
  negative one there is no share to keep). The largest part is about the sum: every pour but the last is rounded by half a unit at
  most, so the last, which takes the rest, is off by half a unit for each
  (`RestWithin`).

- `RecipesFit`: `Spec => []BlobFits`, assuming that recipes are scaled to between 1 and 127
  grams (`scale_recipe` takes any dose, and the float32 model ends at 127). A recipe without
  faults has at most as many pours as the validator allows (`FitInv`, which scaling keeps although
  it moves the dose out of its range). The water on the wire is at most a float32
  product, which is near the exact one (`F32Near`) and so at most 3303 ml; and 127 times
  the bytes of a blob is at most 4 times its water and 1016 for each pour
  (`BytesBounded`), which keeps the length below 256.

Assumptions: the `ASSUME`s of the modules, which every run's constants satisfy, and the
conditions named above.

Only model-checked: the liveness properties (`CallsReturn`, `FlashEnds`,
`SnapshotsEnd`, `StopsReturn`, `LostLinkEnds`, `CallsEnd`), which are out of the provers' reach.

## Disagreements found

- `late_busy` (`ble.py:1382`). A refusal heard on attempt 2 is taken to answer the
  re-send, but the waiter is deliberately kept across re-sends and the refusal can
  be the late one of the first copy. If the machine was busy with something else,
  the refused recipe counts as accepted and EXECUTE goes out, which `brew`'s
  docstring says never happens.
- `late_ack` (`ota.py:190`). No answer is tied to a block and the queue is never emptied:
  after an ACK that came late, the ACK of the repeat counts for the next block, and
  from then on each block is acknowledged by the one before it. A flash then reports
  success without the last block.
- `orphan` (`mode_listener.py:150`). `stop()` sets `_task` to `None` whatever it holds by
  now. A `start()` that runs between the end of the old session and the resumption of
  `stop()` makes a session that nobody knows: it holds the machine's only connection
  until it is idle.
- `scaled` (`brew_scale.py:59`). `scale_recipe` leaves `ratio` and `grind_size` as they
  were, and the cloud body reads those first: a scaled recipe is saved with its old ratio and
  grind over the new dose and pours.

Met while modelling, without a run of their own:

- `retry_only_when_sleeping` is said to exclude a second actuation
  (`mode_listener.py:181-182`), because a sleeping machine has not processed the command. The
  code looks at the last notice heard; a machine that woke, took the command and answers
  late is sent, and takes, a second copy.
- A held start of a frame whose length is known is joined to whatever comes next
  (`ble.py:969`). When the rest of a long frame was lost, the notification after it is
  taken for it and not read on its own, though the docstring (`ble.py:948-950`) says that
  it is; if that still does not reach the length, so are those after it. This is the
  exception in `CleanBoundary`.
- Overlapping snapshots share one attribute that each clears on its way out
  (`ble.py:1508`); the other one then raises `TypeError`, or `CancelledError`, where the
  docstring promises a status or `None`. `AloneNeverRaises` has the condition.
- Of two calls that send the same code at once, one's waiter is overwritten and popped by the
  other, so that an answered call can return False. The code promises nothing here.
- The water shift of `_gate_consistent_volumes` is not always below a millilitre
  (`ble.py:166`): 15 g at 1:16.5 becomes 249 ml for 247.5.
- A session cancelled while connecting still announces "connecting" after `stop()`
  (`mode_listener.py:280`).
- `bloom_pause_s` gives 60 s for a first pour of 1.5 ml or less, which the validator rejects
  (`recipe_build.py:174`); `OnlyUnsnappable` names the case.
- `list_recipes` is documented as "the user's full recipe library" (`cloud.py:351`); it asks for the
  first 100 of each list only and drops entries that do not parse (`cloud.py:335-347`), without
  telling its caller. These are exceptions of `ListsOwnWrites`.
- `build` of a built recipe with bypass off, as it stands, turns bypass on (`recipe_build.py:356`:
  `bool(2)`) and reports the missing water and temperature as errors. `BuildIsStable` names it.
- The repository's README says that `ota` verifies the MD5 of an update before sending
  it; `flash` leaves that to its caller (`ota.py:217`).

## Not modelled

- A caller cancelling a `brew` or `send_command` of the one-shot client, and its `connect`
  and `disconnect`: one coroutine, whose outcomes `ModeListener` takes as choices.
- `wait_for_completion`: one wait for an event that `brew` clears. What could go wrong
  depends on when the machine sends ENJOY, of which the code says nothing.
- Writes that fail while the link is up: bleak raises only on a lost link for
  write-without-response; the handler is the same.
- `decode_notification`, byte layouts, CRC-16, the one-shot packets: stateless tables that unit
  tests compare byte for byte.
- `firmware_check`, encryption and HTTP transport of the cloud client; the share-link
  client but for `_parse_recipe`; models, exceptions: requests and data classes.
- Wording of adjustments and validation errors, names and labels of `spec.py`.
- Two mode listeners on one machine, or a listener beside the one-shot client: different
  objects, which meet only at the machine; that one takes the link from the other is
  `LinkDies`.
