# Clawdline: a verification project

Clawdline is a Go daemon that runs beside a developer's coding assistants. It
watches their terminals, keeps a SQLite store, dispatches tasks to child
assistants, types lines into their composers, and serves a console over HTTP and,
optionally, a Cloud relay. This directory holds TLA+ models of its core, the TLC
configurations that check them, and proofs checked by TLAPS.

## 1. Inventory

| Component (under `src/internal`) | State it keeps | Operations | Interacts with |
| --- | --- | --- | --- |
| Store: outbox and receipts (`adapters/store/outbox.go`, `receipts.go`) | `outbox` rows and `request_receipts`, each owned by a store handle (one per run of the daemon) | claim, complete, release and expire a receipt; record, start, finish and adopt an effect | every route with an Idempotency-Key; the beat |
| Effect runner (`app/orchestrator/effects.go`, hold/release in `broker.go`) | `Broker.held`, the set of rows somebody in this process runs | `runEffect`, `runRecorded`, `RecoverEffects` | the handlers (messages, waits, worktrees, closing a child, pushes) |
| Message relay (`messages.go`) | none of its own: a receipt and one outbox row | `Relay` | receipts, effects, terminals |
| Leases (`leases.go`, `coordination.go` of the store) | one holder and a line of waiters per (resource, key) | `Acquire`, `Renew`, `Release`, `Cancel` | builds, landings, daemon restarts; the kernel and the beat for proofs of life |
| File waits (`waits.go`, `coordination.go`) | `waits` and `wait_waiters` with delivery stamps | register, release, cancel, deliver | the outbox (kind wait) |
| Lane (`app/lane/lane.go`) | who types into a terminal now, and who waits to | `Acquire`, leave | everything that types |
| Task broker (`dispatch.go`, `broker.go`, `lifecycle.go`, `record.go`, `cancel.go`) | one record per task, its state and revision | dispatch, accept, brief, hand in, cancel, respawn | the beat, callbacks, landing, notices |
| Beat and observation (`watch.go`, `observe.go`, `stall.go`, `reclaim.go`, `linger.go`) | last reading of the machine, restart backoff | one pass per tick | recovers effects, runs clocks, reclaims worktrees |
| Completion notices (`notice.go`, `completions.go`, `broker_notices.go`) | a notice with its attempts, deferral and dead letter | pump, attempt, hold, retype, acknowledge, re-arm | the lane and the terminals; the outbox for the push |
| Callbacks, handoffs, landing, graphs, session pause, todos | rows beside the task record | see the plan below | the task broker and the leases |
| Work items and proposals (`app/work_v2*.go`, `proposals.go`, `domain/work`) | items, gates, proposals with revisions | create, move, gate, adopt | console and tasks |
| Schedules (`app/schedules.go`, `scheduler.go`, `domain/schedule`, `adapters/store/schedules.go`) | a row per schedule with its body, `first_seen` and `last_fire`; a link per run | a pass of the minute timer, press, webhook run, save, removal | dispatch (`orchestrator/scheduled.go`) |
| Webhook deliveries (`app/schedule_webhooks.go`, `adapters/store/schedule_webhook_deliveries.go`) | a journal row per delivery: state, task id, receipts | poll, admit, advance | Cloud; the schedule's lane |
| Sequence fence (`adapters/cloud/fence.go`) | one file with a ceiling per sender | load, reserve | the spool of the machine; the client of a viewer |
| Cloud link (`adapters/cloud`, `transport/cloud`, `domain/cloud`, `adapters/cloudkeys`) | spool, sockets and their drains, key epoch, revocation journal and pins; replay window, ledger | publish, drain, receipt, re-send, burn, revoke; replay, rekey | the relay service |
| HTTP interface, CLI, web console | none that outlives a request | parse, authorise, render | all of the above |
| Terminals, transcripts, usage, pushes, health, installation, integrations | caches and files | I/O | adapters of the above |

### What is hard

* **Crashes in between.** An effect outside the store (a line typed) and the row
  that says it happened can never be one transaction.
* **Two kinds of runner.** The request that owes an effect runs it, and the beat
  runs what was left behind; a second daemon may do so as well, since nothing
  keeps two daemons off one store.
* **Resends** of a request race its first run, its recovery and the expiry of its
  receipt.
* **Evidence read before it is used.** Leases are granted on proofs of life read
  outside the transaction; the beat settles effects from a snapshot.
* **Partial failure.** Every store write may fail (`ErrBusy`, a cancelled
  context), also the one that records what just happened.
* **Read, then act slowly.** Typing a notice, opening a child and publishing a
  frame take seconds, hold no store transaction, and write down their outcome over
  whatever has happened meanwhile.
* **Clocks.** Occurrences, windows, sightings, holds and deadlines are compared
  with a clock that was read earlier, sometimes before waiting for a lock.
* **Two sockets, several goroutines, one table.** The Cloud spool is drained by
  the old and the new socket at once, while receipts, deadlines and a revocation
  change its rows and its key.

### What makes each component correct

* Outbox and receipts: at most one typing per key; one final answer per key; what
  is owed is settled; a reservation ends while its caller stays.
* Leases: one holder; a compile or a landing never beside a restart; nobody is
  passed over while it keeps asking; a free lease is granted.
* File waits: every waiter hears of the release, once.
* Tasks: one child per task, no state left for good, a hand-in counted once.
* Notices: an acknowledgement is never lost; a ladder ends and, with one daemon,
  tells the person once and types within its budget.
* Schedules: each occurrence is run at most once, and decided; one child at a
  time; a date is spent only by its run.
* Webhook deliveries: Cloud hears one story, to its end; what it cancelled in time
  never runs.
* Cloud: a sequence is never reused; rows go out in order; a publisher hears of its
  row once; a revoked viewer can read nothing written later; nothing is waited
  for in a circle. On the receiving side, nothing replayed is applied twice.

## 2. Plan

The order is by what an error would cost: a line typed twice into somebody's
terminal, a restart in the middle of a landing, a task lost or done twice.

| Step | Module | Of | On top of | State |
| --- | --- | --- | --- | --- |
| 1 | `EffectOutbox` | outbox, receipts, effect runner, `Relay` | | done, safety proved |
| 2 | `OnceOnly`, `EffectOutboxRefines` | what an Idempotency-Key promises | `EffectOutbox` | done, refinement proved |
| 3 | `Leases` | leases and their strict client | | done, invariants proved |
| 4 | `Lane` | who types into a terminal | | done, invariants proved |
| 5 | `SequenceFence` | the durable ceiling of an outbound counter | | done, proved for one fence to a file |
| 6 | `CloudSpool` | spool, sockets, key and revocation | implements `SequenceFence` | done, safety proved |
| 7 | `Notices` | attempts, holds, dead letters, acknowledgement, re-arming | the row's compare-and-set | done, invariants proved |
| 8 | `Schedules` | timer, press, webhook, save, removal of a schedule | the broker's answer | done, safety proved for one daemon |
| 9 | `Deliveries` | a webhook delivery from Cloud's offer to its last receipt | composed with `Schedules` | done, proved |
| 10 | `TaskLife` | admission, spawn, brief, hand-in, cancel, respawn, reclaim | revisions of the record; the beat | open |
| 11 | `FileWaits` | waits, waiters, delivery stamps | the row life cycle of `EffectOutbox` | open |
| 12 | `SessionPause`, `Callbacks`, `Handoffs`, `Landing` | rows beside the task record | `TaskLife`, `Leases` | open |
| 13 | `CloudReplay` | replay window, ledger, rekeying of peers | a link that loses and repeats | open |
| 14 | `Occurrences` | calendar arithmetic against a reference definition | | open |
| 15 | `Generations`, `WorkItems` | execution generations; items, gates, proposals | `TaskLife` | open |

Abstract specifications worth stating: `OnceOnly` and, for the spool,
`SequenceFence` (done); one mutex per terminal with a bounded waiting room, which
`Lane` implements; a readers/writer lock with expiry, which `Leases` implements;
"told once" for waits; an at-least-once channel with an idempotent receiver for
the Cloud link.

## 3. How the modules correspond to the code

`PROJECT.json` maps each definition to its lines. Common to all modules: a store
transaction is one action, because SQLite has one writer; an in-memory critical
section is one action; everything between two of them is a place where others may
step in. Times are compared in the code, so a model keeps what a comparison
answers ("past its window", "fresh", "silent"), and time passing is an action
that may come at any moment, which covers every setting of the limits.

### `EffectOutbox`

| Model | Code |
| --- | --- |
| `outbox`, `receipts`, `lastId` | the tables `outbox` and `request_receipts`, the last row id |
| `life` | a store handle is one run of a daemon: `gone` is what `ownerGone` can prove from the pid, `dead` is not proved yet |
| `aged` | keys whose receipt is older than its window |
| `held` | `Broker.held` |
| `thread` | a goroutine: each caller's, and one beat per handle. `todo` is the list it walks, `begun` the rows that its snapshot says were started |
| `typed`, `told` | history: how often an effect took place, and which final answers were given |
| `ClaimNew` … `ClaimOrphaned` | `ClaimReceipt`, in the order it decides (`ClaimOutcome`); answers that change nothing (`pending`, `mismatch`, `expired`, `full`) are no steps |
| `RecordMessage`, `RecordBatch` | `RecordIntent` for a message; a commit with several effects (waits, a dispatch) |
| `Hold`, `StartEffect`, `Attempt`, `Finish`, `ReleaseAfter` | `runEffect`: hold, start, handler, finish, the release after a refusal. Each has its failing form |
| `AdoptEffects`, `ReadUnattended`, `SettleUnknown` | `RecoverEffects` and `settleEffect` |
| `Crash`, `PidFreed`, `Boot` | a daemon dies, its death becomes provable, another starts; two may run at once |

`OldEnough` is the one place where a duration is relied on: `unattendedPending`
is longer than the step from recording the first row of a list to holding it.
It does not cover later rows of the list; what goes wrong there is the finding of
`EffectOutbox_batch_fault`.

### `OnceOnly` and `EffectOutboxRefines`

`OnceOnly` has no handles, rows or crashes: a key is asked, sent at most once, and
then given back unsent or answered once. The mapping reads `asked` from the
receipt's digest, `sent` from the rows of the key, `answer` from a history of
what the receipt was completed with (a tombstone forgets it).

### `Leases`

| Model | Code |
| --- | --- |
| `holder`, `waiting`, `since` | `leases`, `lease_waiters`, `requested_at` |
| `fresh`, `age` | `renewed_at` against 60 s; `last_asked` against 120 s and 30 min |
| `call` | a request inside the daemon, with what `leaseProofs` read before the transaction and the clock it read |
| `pc`, `session` | the wrapper's process and the conversation it named: what a proof of life sees |
| `Ask`, then one of `AskRenews`, `AskRefused`, `AskGranted`, `AskQueued`, `AskLost` | `Acquire`: proofs outside, then `DecideLease`, one action for each answer |
| `Renew`, `Release`, `Cancel` | the same operations; `Release` under a foreign lease leaves the line |
| `Readings` | `livenessOf`: a reading may miss anything that is gone, never the reverse |
| `Die`, `AnswerMissed`, `SessionTurns`, `RenewalLapses`, `WaiterAges` | the world: processes, connections, sessions, clocks |

An asker is one request id with one process: `clawdline coordination run`, or a
client that does more than it does, by asking again after a full line (as
`clawdline heavy` does) or after an answer it missed. The start times that guard against a reused pid are folded
into "a process that is there is never read as gone".

### `Lane`

`admitted`, `keys`, `refs` are the fields of `Lanes` and `slot`. `Admit` is the
critical section of `Acquire`; `Send`, `Block` and `GiveUp` are the outcomes of
its `select`; `Receive` is the receive of the release, and hands the token to the
first blocked sender, as the Go channel does; `Leave` is `leave`. Between
`Receive` and `Leave` there is no lock, and the model steps there. The channel
(`full`, `line`) is external: its order is that of the Go runtime. `SlotId` are
addresses; one that nobody refers to may be used again.

### `SequenceFence`

A fence is an open `FileFence`; its owner keeps the counter. `HandOut` is `Reserve`
below the ceiling in memory; at the ceiling it becomes `ReadFile` and `WriteFile`,
the two halves of `writeLocked`, because the fence's mutex is its own and another
fence on the same file may step in between. `Open` takes the ceiling on disk for
the counter; `Ends` is the end of a process with all its fences. `MayMisread`
lets the reading before a write fail and be taken for an empty file.

### `CloudSpool`

| Model | Code |
| --- | --- |
| `rows` | the spool's rows by sequence; `late` says that the deadline of its state has passed, `told` that its burning was reported |
| `pub` | a publisher between `PublishTracked` and its end: in the key's shared lock, waiting for the fence, with a reserved row, with a sealed row |
| `awaits` | `framePending` of a terminal connection |
| `sock`, `gen`, `drain`, `reader`, `wrote` | the socket, its number, the drain goroutine of each, the receipt being told, the last sequence written |
| `key`, `disk` | the installed epoch with its lock; the stored epoch, the revocation journal, the viewer's pin |
| `Reserve` … `Seal`, `Await` | `admitLocked`, `LabelKey`, `SealCorrelated`, `sendTerminalFrame` |
| `InFlight`, `Resend`, `Tick`, `TellBurned`, `SendNext`, `Write`, `Leave` | one round of `drain` |
| `Receipt`, `ReceiptTold` | `handleAck` and `handlePublishError`, then what the publisher does with it |
| `Revoke`, `Cut(n)`, `Complete` | `revokeContentViewerWithJournal`: its steps under the key's lock, failing after the first `n`; then the journal |

The spool's mutex is held while the fence writes (`SpoolFree`), the terminals'
while a frame is published (`TerminalHeld`), the key's shared lock while something
is published or written (`InUse`): the model waits where the code does, so a
circle would show in `FrameEnds`. Admission caps are a refusal that may come at
any time, bytes are counted as rows, receipts may name any sent row, and
tombstones are kept. A terminal has one watch to a socket, as in `watchTerminal`,
which drops the error of a failed frame and ends.

### `Notices`

One notice: its row, the passes of the beat (`pump`), requests that acknowledge
(`asking`) and people who re-arm (`rearming`). Each reads the row, acts, and writes
by comparing state and attempts, nothing else of it (`Unmoved`, `Move`), and each
write is an action of its own. A pass lists what it will look at and reads each of
it again, in two actions (`ListDue` and `ReadDue`, `ListDeadLetter` and `ReadListed`),
so that what it acts on may have been moved in between. `due`, `long` and `old` stand
for the clocks. `Attempt` has every way
out of `attemptNotice`: given up, spent, found in the conversation, held with a
reason, typed, typed without knowing, and the record of it. `typed` and `pushes`
are histories, for the present ladder and in all. The composer's draft, the wire
text, `settleEmpty` and the batch of due rows are left out; a push is counted
when it is owed, its running is `EffectOutbox`'s.

### `Schedules`

| Model | Code |
| --- | --- |
| `row` | the row of `schedule_files`: the body (`plan`, `on`, `changed`, `fired`) and the columns `first_seen`, `last_fire` |
| `runs` | `schedule_runs` joined with the broker's record, for each task id |
| `work` | who has `ScheduleBook.mu` in each daemon, at which step, with what it read |
| `beat` | the time a pass read before it waited for the lane |
| `BeatLoads`, `BeatDecides`, `Marks` | `Beat`; `Decisions` is `Decide` with its gates in their order |
| `LooksAgain`, `Claims` | `fireOne`, `ClaimScheduleFire` |
| `Links` … `Forgets` | `dispatchInvestigationID` and `DispatchScheduled`: linked, asked, and accepted, replayed, unopened, absent or unknown |
| `Restores`, `ReadsToStamp`, `Stamps` | `RestoreScheduleFire` after a refusal, `markFired` after a run |
| `Press…`, `Hook…`, `Save…`, `Deletes` | `run`, `runWebhook`, `Update`, `Delete` |
| `Skips`, `Fails`, `BookCrash` | a write whose error is dropped, a read or a claim that fails, the end of a daemon |

`clock = t` is a moment in `[t, t + 1)`; so a sighting is rounded up or not, and a
window may end either way in its last minute. `created_at` and `when_changed_at`
are one field, since both only say from when on an occurrence counts. An
occurrence is given up by design when a daemon dies between claim and dispatch.
A task id that was forgotten is used again, which the code's fresh UUIDs never do.
A webhook never stamps `fired_at`: `markFired(now)` matches no occurrence.

### `Deliveries`

`slip` is the journal's row, `cloud` the relay's side, `asking` what the poller waits
for. `Offer` is `admit` up to its save; the `Queue…` actions are `queueAndAdvance`
for each receipt; `SendReceipt` and `ReceiptRefused` are the answers of Cloud;
`AskBook` goes to the lane of `Schedules`, whose steps are conjoined with what the
poller hears of its own (`Hears`). A crash, or a failed save, leaves what was
saved last. `Cloud`, its lease and its endings are external: a receipt is taken
once, in order; the first one needs the lease.

## 4. What the runs show

| Run | Shows |
| --- | --- |
| `EffectOutbox_messages` | two daemons, two callers, two keys, a failing write: `MessageTypedOnce`, `OpenEffectOwnsReceipt`, `GivenBackUntyped`, `FinalAnswersAgree`, and `PromiseKept`, the refinement of `OnceOnly` |
| `EffectOutbox_settled` | commits that owe two effects, run by their request and by the beat: `OnceUntilFault`, nothing is done twice before a write fails; `OwedIsSettled`, what is owed is settled past a crash and a failing write; `ReservationEnds`, while callers stay (`CallersLeave = FALSE`) and until a write fails, no key stays reserved by a live daemon |
| `Leases_exclusive` | three compiles and a restart: `ExclusiveWork`, `RestartAlone`, `LineWithinLimit` |
| `Leases_served` | `Served`: three compiles in a line of one, the first without a named proof, past deaths, a late client and a lost answer |
| `Lane_turns` | four writers, two terminals, ceiling three: `OneWriter`, `CeilingCounts`, `NoSlotLeft`, `TurnComes` |
| `CloudSpool_owed` | a value and a screen over two sockets, with a revocation, a failing fence, a crash: `SentInOrder`, `WritesAscend`, `HeardOnce`, `NeverReused`, `RevokedReadsNothing`, `RevokedIsRotated`, `FrameEnds` |
| `Notices_ladder` | one notice, the beat of one daemon, a root that acknowledges, a person who re-arms: `AckIsKept`, `OnePushPerLadder`, `TypedWithinBudget`, `ReadIsNotTyped`, `LadderEnds` |
| `Schedules_due` | a date or a daily time, with a press, a webhook, a save or a removal: `OccurrenceOnce`, `OneAtATime`, `SpentIsRun`, `OccurrenceDecided` |
| `Deliveries_told` | one delivery, Cloud's end of it, a lapsed lease, lost answers: `EndedNeverRuns`, `OneStory`, `DeliveryAnswered` |

Each also checks its module's type invariant where it has one. The inductive
invariants of the proofs (`IInv`, `OnceInv`, `BookInv`) are not in the runs, since TLAPS
proves them; `INVARIANT OnceInv` added to a configuration checks one with TLC.

### Bounds

* `MaxRows` 2 or 3: a key's second row exists only after the first was refused
  and the key given back, so two rows show first run and fresh attempt; three
  show a list whose later rows the beat takes.
* `MaxFaults` 1: any one write fails, at any point.
* Two handles: the one that dies or overlaps, and the one that recovers. `Crash`
  leaves one handle to start or run on, which bounds restarts.
* `ReceiptLimit` 1: the limit is met by the second key.
* `LineLimit` 1: the line is full with one waiter; the largest instance has one
  holder, one waiter and others refused. `MaxTick` 1 in `Leases_exclusive`: askers
  of one second and of two, which is what `requested_at` tells apart; 0 in
  `Leases_served`, where all arrive in one second and overtake each other by id.
  `MaxStalls` the other way round: in `Leases_served` a live client may once be
  late or miss its answer; a dead one ages freely in both. The proofs cover all
  combinations, and landings too, whose slots conflict with the restart as the
  compile slot does; three askers of one slot are worth more to TLC: one verdict,
  two who may act on it.
* `Limit` below the number of writers, so that some are refused a place.
  Two keys use at most two slots; a third is there so that a slot may be made
  elsewhere than where the last one was.
* `SequenceFence`, `CloudSpool`: a block of two and three sequences, so that a
  ceiling is reached, written and passed; two sockets, one crash, one failed
  write, one revocation. `Bounded` keeps what happens together small: a second socket
  and a failed write weigh two each, a crash and a revocation one, and the sum is at
  most two. So a crash and a revocation meet; a second socket and a failed write
  happen each by itself, and meet neither each other nor the rest. `FrameEnds`, which
  is not proved, is checked within that only; the proved invariants have no bound.
  A window of one row makes the second wait.
  `Answer` is empty: a value has every behaviour of an answer, and is superseded
  besides.
* `Notices`: a ladder of two attempts has a first, a middle and a last look; two
  reasons to hold are enough for one to follow another; one daemon, the premise of
  `OnePushPerLadder`, `TypedWithinBudget` and `ReadIsNotTyped`; one re-arming, one
  crash or failed write, requests that try twice (four times and twice in the code).
* `Schedules`: four minutes hold two occurrences and the end of a window of one;
  four task ids, one of them the webhook's; one press, save, removal or webhook
  beside the timer (a delivery may be asked again under its id), one crash or
  failure. The largest stories (a press refused
  while a failed write leaves a link) need one of each. The proofs have no bound.
* `Deliveries`: three task ids, `MaxReceipts` 2 (a delivery is deferred once and
  taken up again), one lapsed lease, one failure, one wish. Its schedule has been
  seen before (`SeenSpec`); `Schedules_due` has both.

Deadlock is checked for `Lane` only, which never stops. The other bounded worlds
stop: every row is used, every asker has ended, the clock is at its bound. Symmetry
is used in a safety run of `EffectOutbox` only.

### Fairness

* `EffectOutbox`: goroutines run on (the Go scheduler; handlers have deadlines),
  the beat of a running daemon comes again (`observe.go`, `Run`), a daemon is
  started again (launchd, systemd), a dead process's pid becomes free. No
  fairness on callers asking, on crashes, on faults or on windows passing.
* `Leases`: a waiting client asks again (`coordination run` polls every 5 s), and
  among its asks are ones whose readings miss nothing (strong fairness on
  `AskKnowing`); commands end; the wrapper of an ended command releases; the
  clocks of dead holders and waiters run. No fairness on renewals, on a live
  client being late, on deaths.
* `Lane`: a runnable goroutine runs; a writer's release is deferred and its
  adapter calls have deadlines. `GiveUp` has no fairness: a context may never
  end. A `select` that can send is one action with the one that blocks, since a
  goroutine meets one or the other.

* `CloudSpool`: goroutines are scheduled, mutexes are fair, deadlines pass, a broken
  socket is found out, a revocation runs to its end or its error. The relay need
  not answer anything.
* `Notices`: the beat comes again, a deferral ends, times pass. Nobody has to
  acknowledge or re-arm. `LadderEnds` is for a root that gives one steady reason to
  wait: the clock of a hold starts again when the reason changes, so two reasons in
  turn hold a notice for ever.
* `Schedules`: the lane's holder runs on (its calls have deadlines), the timer ticks,
  no pass waits for the lane for ever (Go's mutex hands itself to a waiter that has
  waited a millisecond: strong fairness on entering), tasks end by their timeout,
  time passes. Nobody presses or saves.
* `Deliveries`: besides that, the poller runs on, Cloud offers what it holds again
  and answers in the end, and a machine that is full is so a bounded number of
  times.

### Where code and comments disagree

Three runs end in a violation. Each checks a sentence of the repository.

| Run | The sentence | What the code does |
| --- | --- | --- |
| `EffectOutbox_batch_fault` | `effects.go:302`: each row settled exactly once, never done twice | the beat takes a later row of a list and cannot record its outcome; the request's own loop starts that row again |
| `Leases_dead_blocker` | `leases.go:32`: a Ctrl-C is no permanent roadblock | a dead compile's row blocks a restart for as long as nobody asks for a compile |
| `SequenceFence_shared_file` | `fence.go:133`: other senders' ceilings are carried over untouched | the machine's fence (`transport/cloud/link.go:767`) and a viewer's (`transport/http/cloud_viewer.go:75`; also `clawdline cloud connect`) write one file under separate mutexes, and one takes the other's ceiling back |

Others are in the models without a run of their own:

* `messages.go:71` says the receipt of a caller that leaves is completed; an
  orphaned claim is answered on the caller's context (`messages.go:262`), and the
  receipt then stays pending under a live owner. `ReservationEnds` therefore has
  callers that stay as its premise, and a failing write excuses it: the run does not
  cover this case. With `CallersLeave = TRUE` in `EffectOutbox_settled.cfg` TLC
  violates it, without a failed write.
* `leases.go:35` says that who renews keeps the slot; a renewal committed between
  the reading of the proofs (`leases.go:297`) and the decision does not save a
  holder that named no proof.
* `retypeDeadLetters` reads a listed notice again and compares its id only
  (`notice.go:868`): one that was acknowledged in between is typed once more.
  `AckEndsTyping` states the contrary and TLC refutes it in nine steps.
* `PumpNotices` reads a listed notice again and compares its id and `observed_at`
  (`notice.go:531`), not its state. With two daemons on one store, one may make a dead
  letter of a notice the other has listed, while attempts are left (a menu at its
  ceiling, a native prompt that may have been written): the other types it, the dead
  letter is delivered again, and when its attempts run out the person gets a second
  push for one ladder. `retypeDeadLetters` means "no second push" (`notice.go:849`).
  With `Pump = {p1, p2}` TLC violates `OnePushPerLadder` in twelve steps;
  run and theorem are about one daemon.
* `Rearm` keeps `observed_at`: a delivered notice that its root has read becomes
  pending again and is never due (`broker_notices.go:173`), neither typed nor given
  up.
* `Rearm` writes the whole row as it read it, `observed_at` included, and the
  compare-and-set looks at state and attempts only (`completions.go:66`,
  `notice.go:437`). With two re-armings in flight at once the second can pass after
  the first, the ladder's delivery and the root's read: the row is then pending,
  unread and typed, and `ReadIsNotTyped` fails. The run has one person, as the
  theorem has.
* `docs/schedules.md` says that when the timer and a manual run collide only one
  gets the occurrence. A press goes on without the claim (`schedules.go:1021`); with
  two daemons on one store, which nothing forbids, both run. The schedule's
  properties are therefore about one daemon.
* `schedules.go:1096` means a crash after the broker's admission to be replayed; when
  by then the schedule is removed, or another child works, `runWebhook` refuses
  first, and Cloud hears "refused" of a task that works.

Two consequences of the lease rules are easy to overlook and are in the model as
the code has them: a holder whose process is gone keeps its slot while the session
it named lives (`Shown`; one live proof is enough), and silent waiters count
towards the line's limit until they are forgotten (`Kept`, `LineFull`), so that a
full line of silent waiters refuses a newcomer although the lock is free.

## 5. What is proved

For every value of the constants that the named assumptions allow
(`OutboxAssumption`, `LeasesAssumption`, `LaneAssumption`, `FenceAssumption`,
`SpoolAssumption`, `NoticesAssumption`, `SchedulesAssumption`,
`DeliveriesAssumption`: finite sets of handles or askers or writers, null values
outside the sets, limits that are numbers, one fence to a spool, plans with finitely
many instants, one poller among the daemons).

**`EffectOutbox_proofs`**: `TypeCorrect`, `EffectOwnsReceipt`. An owed effect owning
its receipt is not inductive by itself. `IInv` adds: working goroutines belong to
running handles (`ThreadsLive`), so a crash leaves no reservation behind that
somebody still acts on; goroutines refer to recorded rows (`ThreadsRefer`,
`FreshRows`); a key between claim and commit is pending under its goroutine's
handle and owes no effect (`ReservationsHeld`); no two goroutines reserve one key
(`ReservationsApart`); a key has one open row (`OneOpenRow`), without which
finishing one row would complete the receipt of another. The step proof groups
actions by what they disturb (`CoreQuiet`, `CoreClaim`, `CoreRecorded`,
`CoreAdopt`, `CoreFinished`, …), after separate lemmas for types and references.

**`EffectOutboxOnce_proofs`**: `TypedOnce`, `GivenBackClean`, `AnswersAgree`,
`OnceBeforeFault` and `ImplementsOnceOnly`, the refinement of `OnceOnly`. `OnceInv` adds three groups to
`IInv`. `Play` says who works on which row: a row is held by one goroutine; a
message is not even waited for by two (the beat's snapshot may be stale, the
request's row may not be looked at before its time); and how far each has come,
so that a message about to be typed is untyped (`Has`) and one that a snapshot
calls begun is never typed again. `Keys` says that a key which is free, or may
still be given back, has nothing typed under it, and that an owed message is the
first. `Answers` and `OrphansFit` say that a pending key has no answer, that a
complete one has the answer everybody was told, and that who must file "unknown"
asks for what was reserved. The refinement then needs no invariant of its own
beyond `FiledFits`: each step gives a key back, takes, files, replays or leaves it
(`Moves`), and only an attempt sends (`SentStep`).

`OnceBeforeFault` is about every kind of effect, in commits of several: there a row
waits for its request and for the beat at once, and `Play` does not tell them
apart. `Singly` says, for a row whose kind cannot find out, and as long as no write
failed: a started row is at work in somebody's hands, or on somebody's list to be
closed, or its daemon has ended; a row to be closed is on nobody else's list and
in nobody's hands; a pending row is untyped, and so is one between its start and its
attempt. A beat that reads an unheld started row of its own running daemon would
contradict the first part, so what it re-runs was never begun. The premise is
needed: a failed write leaves a started row in nobody's hands, and
`EffectOutbox_batch_fault` shows what follows.

**`Leases_proofs`**: `LinesBounded`, `RestartExcludes`, `WorkIsExclusive`. The point
of the last is that proofs of life are used late. `ReadingsStayTrue` says that a
process read as gone is gone still when the reading is used, since a process id
with its start time never comes back; `WorkerHolds` says that a wrapper which
named its process and was granted is the holder. Together with `RestartAlone` no
two conflicting commands overlap. For wrappers that name no process this is
false, and the premise of `ExclusiveWork` says so.

**`Lane_proofs`**: `OneWriterHolds`, `CeilingHolds`. Slots come and go, so the proof
needs that who is inside refers to the slot its key has (`OnItsSlot`), that two
keys have two slots (`SlotsApart`), that `refs` counts the users (`RefsCount`, by
cardinalities), that the token is held by the writer (`TokenHeld`), and that the
line are those blocked on the slot, each once (`LineBlocked`). `SlotsForgotten`: with
that, "a key's slot is in the table only while somebody uses it" is inductive as it
stands, for the last one out is the one whose departure brings `refs` to zero.

**`CloudSpool_proofs`**: `FenceHolds`, for one fence to a file. A sequence once used
lies below the counter, the counter at or below the ceiling in memory, and that at or
below the file: no crash can bring the counter back. `SpoolIsFenced`: every step of the
spool is one of its fence or leaves it alone, and so `SpoolNeverReuses`; `RevocationKept`, where the invariant
adds that the journal is given up only after a rotation was stored. `InOrder`,
`ToldOnce`, `Ascending`, `NothingForRevoked` and `SpoolTyped` rest on one invariant,
`SpoolInv`, with a part for each question. `RowsFit`: every row lies below the fence's
counter, so that a reservation comes after all that was sent. `TellsFit`: who gives a
row's word is settled when the row ends, the reader for what the relay answered, one
drain for what burned, and the lists of two drains are apart. `WritesFit`: whatever a
drain still has to write has left the table's open rows behind it, and the socket's own
drain is ahead of what the socket has had; drains of older sockets write into
nothing. `KeysFit`: a link that may seal holds the stored key and its viewer's pin,
and a frame being written is sealed under it, since a revocation does not pass while
one is.

**`Notices_proofs`**: `TypeCorrect` and `AckStays`, for any number of beats,
requests and re-armings. The invariant relates what each pass has read to the
row: a write compares state and attempts, and no pass attempts, nobody re-arms,
what it read acknowledged. `PushOnce`, for one daemon: an open notice has not used its
ladder's push (`PushesOwed`), and what the beat has listed or attempts is open
(`PassesOpen`), since between the two reads only requests move it, and they make no
dead letter.
`BudgetHolds`, for one daemon: the lines typed are at most the attempts written down and
the lines in flight (`Budget`), because only a beat adds attempts and what it read is
never behind the row. `ReadNotTyped`, for one daemon and one re-arming at a
time (`OneDaemon`, `OnePerson`): what a beat is about to type was unread when it read the
row, and a read since then is in the row still when it writes (`ReadStays`). Both
premises are needed; section 4 says what two re-armings do.

**`Schedules_proofs`**: `TypeCorrect` for any number of daemons; `OnceProved`,
`OneProved`, `SpentSafe` for one. The invariant (`BookInv`) says what the lane's
holder knows: between its look at the runs and the broker's answer no run stands
for the occurrence and nobody works, because only the holder starts anything
(`RunsFit`); a run has its link as long as it may be asked about
(`Ran \subseteq Linked`); the copy that a stamp or a save writes back is one whose
stamp is true (`CopyFits`).

**`Deliveries_proofs`**: `DeliveryTyped`, `EndedUnrun` and `StoryTold`, for any number of
daemons on the store. `DeliveryInv` has four parts. `Journal`: the row is at most one
receipt ahead of what Cloud heard, and that one may follow it (`Follows`); a row at
rest is level. `Story`: what Cloud heard so far, with nothing between an acceptance and
the end. `Lanes`: a webhook's holder is the poller's, asks for the row's task and is
waited for, and nobody else asks for such a task or takes it back, since the other
holders draw a fresh one. `Answers`: while an answer is due the row rests undecided;
"run" is heard only of a task that is there. `EndedUnrun` follows because a task starts
in the poller's lane alone, that lane is waited for only after receipt 1 was
acknowledged, and the row never has more acknowledged than Cloud heard.
`PromisesKept`, for one daemon: the three promises of `Schedules` hold of a schedule
that its deliveries ask to run again and again. A step of a delivery is one of the book,
a hook's read that is nobody's wish, or leaves the book alone (`BookOrRest`).

**Only model-checked**: all liveness, which is out of the prover's reach
(`OwedIsSettled`, `ReservationEnds`, `Served`, `TurnComes`, `FrameEnds`, `LadderEnds`,
`OccurrenceDecided`, `DeliveryAnswered`). Every safety and action property of a
passing run is stated by a theorem.

## 6. What is not modelled

* `EffectOutbox`: `ReplaceReceipt`, retention of done rows, the handlers' own work
  (one attempt with its four outcomes), the wording of answers, the delivery
  report.
* `Leases`: the fail-open client (`clawdline heavy`, which runs its command
  without a lease when the daemon is silent, and so promises nothing), views and
  callback ids, a request id asked again by a new process, a command that
  outlives its killed wrapper. Ages are judged when the transaction decides;
  the code compares with the clock it read when the request came in, moments
  before.
* `Lane`: the refusal counter and the statistics.
* `CloudSpool`: the receiving side (replay window, ledger, peers), pairing, the
  numbers behind the caps, the direct carrier, frame deltas, other rotations of
  keys. A resume that fails at boot and is retried is a new start of the daemon.
* `Notices`: the page of due rows (eight, thirty-two held ones can fill it), the
  draft and the stash of the composer, `settleEmpty`, the text of a line.
* `Schedules`, `Deliveries`: the calendar (time zones, daylight saving, intervals: a
  plan is the set of its instants), creating, importing and binding, rows that
  cannot be parsed, notifications, investigations, a second poller.
* Whole components: those with status `not_modelled` in `PROJECT.json`, each with
  its reason; those of the plan come next, the others are I/O, rendering or
  access control.
