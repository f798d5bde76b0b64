# A TLA+ verification of lmdj

lmdj is a playable beat instrument: one C++ core (authoring, project storage, a
real-time audio engine), reached by thin hosts (CLI, MCP, native, web and the
Cardputer device). This directory models the parts whose correctness depends on
an order of steps: threads that share rings and cells with the audio callback,
journals and bundles that are written, lost and recovered, processes that meet
in one directory, and frames that arrive late.

Each module names the source it models in its first comment. `PROJECT.json` maps
every definition to its lines.

## The system

Hosts → application facade and C ABI → authoring domain and project I/O → an
immutable runtime snapshot → audio runtime. Capability providers stand beside it.

| Component | State it keeps | Operations | Hard part | What makes it correct |
|---|---|---|---|---|
| Value channel (`audio/detail/value_channel.hpp`) | three slots, an atomic word | publish, read | writer and audio thread interleave inside a copy | reads are whole, recent, never go back |
| SPSC rings (`fixed_spsc_queue.hpp`, `runtime_spsc_storage.hpp`) | cells, two atomic indices | try_push, try_pop, size_approx, clear_quiescent | wrap, full against empty, reuse of a cell | a bounded FIFO without data race |
| Realtime engine (`realtime_engine.cpp`, `master_fx.cpp`) | Pattern slots and mailbox, Bank and audition slots, the scheduled record, transport commands and receipts, the control queue | publish, switch, cancel, reclaim; publish and retire Banks; schedule, cancel, acknowledge; enqueue, drain | control never waits for audio: every hand-over races a callback, a cancellation or a restart | audio reads only what nobody may reuse; what was cancelled is not heard; every request is decided |
| Runtime facade (`runtime_facade.cpp`) | phase, epoch, gate word, pending commands | load, start, submit, poll, stop, unload, render | the device callback runs against stop and unload; outcome and acknowledgement travel apart | no callback in a stopped engine; one true receipt per command |
| Pattern transport (`pattern_transport_controller.cpp`, `_executor.cpp`, `_io_owner.cpp`) | requests, inputs, holds, switches; one work cell and a thread | submit, press, release, switch, step, shutdown; execute, reconcile | receipts, openings, segments and closes wait on each other; unknown outcomes are retried | work runs once and in order; a take holds what was heard |
| Pattern admission (`pattern_admission_controller.cpp`) | an owner, a journal, candidates, tails | open, admit, switch, cut off, flush, close, recover | the order of input, switch and segment; failing appends; lost owners | admitted notes are committed or recoverable, in their Pattern |
| Recording journals (`sequence_journal.cpp`, `sequence_admission_codec.cpp`) and their sessions (`application.cpp`, `project_store.cpp`) | append-only logs, sealed candidates, sessions in memory | begin, event, flush, switch, stop, rebase, save, abandon, reconcile, apply, discard | an append that fails after it was written; a commit without its completion; owner loss | acknowledged input is committed once or can be recovered |
| Armed Capture (`application.cpp`, `project_store.cpp`) | a marker in the Sequence journal | arm, import, disarm, reconcile | Project, journal and session advance in three writes | the three stand at one revision; the marker is resolved |
| Live control and replay (`performance_engine_adapter.cpp`, `performance_replay.cpp`, `master_fx.cpp`) | shadow of the effects, history by position, held cells, generations; a take; a replay | reserve, publish, engage, move, release, HOLD, record, replay, reset | what was accepted is rebuilt from positions the callback drains; engine restarts | what is reported is what is heard; a take replays |
| Authoring history (`authoring_history.cpp`) | Undo and Redo stacks, an open group, a pending publication | start, close, invalidate, reconcile, prepare, begin, confirm, seal_group | a commit whose result is unknown; foreign commits; bounds and groups | Undo restores what was |
| Authoring domain (`command_handler.cpp`, `project.cpp`) | the Project document | every command; replay; the checkpoint's reader | commands accepted under one contract and replayed under another; ticks at a boundary | replay reproduces; what is accepted loads |
| Project store (`project_store.cpp`) | a bundle: manifest, transactions, checkpoints, blobs, writer lease | create, load, execute, import, Undo/Redo, recovery | crash or failure at every file operation; readers without lease; retries | the bundle always loads; each command commits once |
| Bundle transfer (`project_bundle_transfer.cpp`) | staging trees, sessions, published bundles | begin, chunk, commit, abort, duplicate, cleanup | a starting process cleans up beside a running one | whole Projects only; live sessions stay |
| Sample authoring (`application.cpp`, `control_runtime.cpp`) | import sessions, staging, tokens of the host, quotas | begin, append, commit, cancel, delete, resample, install | the Project is measured without the writer lease | quotas hold at every measured revision; a deleted Pad stays empty |
| Sound Set store (`soundset_store.cpp`, `library_opfs_storage.js`) | published Sets, staging, records of publications by copy | list, acquire, recover, withdraw, install | Hosts crash half-way and meet in one directory | what is offered can be installed |
| Provider Jobs (`attempt_store.cpp`, `candidate_store.cpp`) | attempt records and directories, Job entries, Candidate Sets | run, cancel, inspect, discard, adopt | a run, a cancellation and an inspection of one Job; crashes | a success has all its outputs; a cancellation wins |
| Web writer lease (`web/storage_platform.cpp`, `library_opfs_storage.js`) | lock blocks, borrowers, seals | acquire, borrow, release, seal, destroy | realms let go in any order; only the owner may close | one writer; every block is freed, none too early |
| Native storage platform | files, locks | create_immutable, replace_complete, remove, publish_directory_if_absent, append_durable | errors after the effect | whole files or none |
| Cardputer transfer (`apps/cardputer-host/main`) | session nonce, transaction, staging; authorization and content | HELLO, BEGIN, DATA, COMMIT, ABORT, keys, expiry | late frames, local cancellation, stalled peers | whole, authorized content only; every transfer ends |
| Cooker, foundation, DSP, hosts, bridge, worklet | – | pure functions, adapters | – | left to tests |

Interactions. A store locks the application's `AuthoringHistory`, takes the
bundle's writer lease, loads, recovers, prepares the history, writes files and
confirms. Sessions write their journal first and the Project after it; a flush is
named in the journal, committed, and completed. The transport controller gives
work to an executor thread, which writes the admission journal; its other partner
is the engine, through cells and receipts that the audio callback fills. The live
controls reach the engine through its control queue, and are recorded from the
positions at which they were drained. On the Cardputer one loop drains the keys
and polls the USB endpoint.

## Modules

`PROJECT.json` maps the definitions to their lines. A helper whose lines lie inside
those of the operation it belongs to has no entry of its own.

| Module | Models | Kind |
|---|---|---|
| `LatestValue`, `BoundedFifo`, `ProjectTruth` | what a channel, a ring and a Project bundle promise | abstract |
| `ValueChannel`, `SpscQueue` | the triple buffer, both rings | implement the first two |
| `PatternMailbox`, `SampleBanks`, `ScheduledRecord` | the engine's Patterns, Banks and count-in recording | control and audio thread |
| `MasterFx`, `LiveControl` | the effects as state machines (operators); their shadow, recording and replay | composition |
| `RuntimeFacade` | facade, gate, engine rings and callback | detailed |
| `TransportExecutor`, `TransportController` | the worker and its cell; the controller with engine, host and worker | composition |
| `AdmissionCodec`, `SequenceJournal`, `PerformanceJournal` | records, readers and writers of the journals (operators) | shared |
| `SequenceRecording`, `PatternAdmission`, `PerformanceRecording` | the sessions that use the journals, with disk, Project and recovery | compositions |
| `ArmedCapture` | a Capture committed inside a Sequence | composition |
| `AuthoringHistory`, `AuthoringSession` | the history object (operators); one session against a Project others change | composition |
| `ProjectCommands` | the Project document, its commands, their replay and the reader | detailed |
| `ProjectStore` | processes, lease, files and histories | composition, implements `ProjectTruth` |
| `BundleTransfer` | imports and duplicates by several processes | detailed |
| `AttemptStore`, `CandidateJobs` | provider executions; the Jobs over them | composition |
| `SampleAuthoring`, `SoundSetStore`, `WebWriterLease` | imports and quotas; Sound Sets; the browser's writer lock | detailed |
| `CardputerTransfer` | keys, endpoint, session, receiver and host | composition |
| `MCEngine` ... `MCTransport` | the components of one concern side by side, with their bounds | instances |
| `Engine` | value channel, Banks and Patterns with the promises proved of them | proofs |
| `Recordings` | Capture and scheduled recording, likewise | proofs |
| `Sessions` | runtime facade and content transfer, likewise | proofs |
| `*Proofs` | theorems about the module in their name | proofs |

An instance module such as `MCEngine` takes several components, each with the
constants of one question. The variable `part` is chosen in the initial state;
only that component moves, the others stay as they began. The state graph is the
disjoint union of the components' graphs, so an invariant, an action property or
a leads-to property of one component means there what it means alone, and one
component may appear twice with different bounds (`Switching` and `Mail`).
Components that do interact are composed inside a module, as the table says.

### ValueChannel and SpscQueue
A value has two halves, copied in two steps, so that a torn copy is visible.
`PublishExchange`, `ReadLoad` and `ReadExchange` are the atomic operations; the
word `middle_` is a record of its index (`kIndex`) and its bit `kDirty`. `floor`
remembers the last publication finished when a read began. Each side of a ring is
check, copy begin, copy end, store. `ClearQuiescent` has the guard its name asks
for: neither side is inside an operation. The acquire/release orders of the code
order every access to a slot or cell by the exchanges and index stores, which is
why an interleaving of these steps describes all executions.

### PatternMailbox, SampleBanks, ScheduledRecord
Control's calls are one action each, or several where the code reads, decides and
exchanges; a callback is a sequence of audio steps. Every compare-exchange is a
step. Left out of `PatternMailbox`: tempo, phase, snapping, publication into a
stopped engine and the observation of what plays. In `SampleBanks` a voice is the
Bank it reads and whether it sounds, the refresh in a callback takes what is there
(the code's bound is the pool's size), and no audition is replayed.
`ScheduledRecord` counts frames in small quanta; `tag` is the atomic word that
audio and control compare-exchange, `cell` what control owns.

### MasterFx and LiveControl
An effect is what decides its sound: neutral, engaged or held, by which gesture,
with which value. `LiveControl` has the engine (queue, positions, start epoch,
chain), the core (shadow, history, held cells, generations), a headered recording
and a replay. A control reserves its cell, is appended and is published in one step,
or is frozen by a failing append and published later, from the held cell or a new one,
with the engine stopped and started and session-free gestures made in between
(`excused` remembers what of that reached the engine). Time of a replay is `Due(n)`: any number of events may be due.
`enqueue_master_fx_tempo` has no caller outside tests and is left out.

### RuntimeFacade
A submission is two steps because the callback may consume the command before it
is recorded; a poll is four, because the order of its load, drain and retirement
is what its comment argues for. A callback takes all controls it finds: at most
`MaxPending`, since a slot is only freed after the count this callback publishes.
`reset()` is stop and unload. Outcomes other than `applied` travel in a ring that
loses what does not fit. Sequence numbers are per epoch.

### TransportExecutor and TransportController
Every operation of the executor holds the mutex and is one action; `execute` and
`reconcile` run between `Take` and `Finish`. The controller's `Step` drives, in
the code's order, the engine's receipts, the worker's outcome, openings, segments,
inputs, switches and closes. The engine side is its transport cell, its input
receipts and its publication. Faults are a refused or failed worker call (with or
without its effect), a refused engine call and the loss of the engine. The
synchronous coordinator used without an executor is left out, and the engine's
clock counts only callbacks that have work.

### Journals and recordings
A Journal is the state its records lead to, with the last record possibly torn;
a reader is an operator from records to that state or `Corrupt`. An append is one
action with three outcomes: written, failed and absent, failed and written.
`SequenceRecording` and `PerformanceRecording` are handlers over memory, journal,
Project and sealed candidates; a `call` in progress is interrupted by crashes.
`PatternAdmission` takes inputs, switch and segment in every order the worker may
see; when the callback applies a switch or a cutoff, and to which Pattern, is open.
`ArmedCapture` has the three places that must stand at one revision.

### AuthoringHistory, AuthoringSession, ProjectCommands
An entry of the history is the pair of contents it leads from and to; composition,
reversal and emptiness of deltas are those of pairs. `AuthoringSession` adds other
writers and the outcomes of a commit (refused, published, error with the old or
the new manifest). `ProjectCommands` has the document (slots, Patterns, Pads,
Assets, performances, contract version), every command with its refusals, the
checkpoint's reader, and `log` with the replay from a checkpoint. Ticks are small:
a Bar is `BarTicks`, the grid `Sixteenth`. Undo is not a command here; it is in
`AuthoringSession` and `ProjectStore`.

### ProjectStore and BundleTransfer
The manifest is a sequence of command ids. Every file operation is an action with
a failing twin that may have had its effect; a process may crash anywhere. Cleanup
comes in the two forms the code has: after a failed write it goes on past errors,
after a refused claim it stops at the first file it cannot remove. `load()` with
the lease taken reads in three steps. In `BundleTransfer` a tree is its chunks and
the Project version they make; staging, leases and the rename are separate steps,
and `remove_tree` removes entry by entry.

### AttemptStore, CandidateJobs, SampleAuthoring, SoundSetStore, WebWriterLease
`AttemptStore` has the two checks of a reservation, the provider's outputs, the
record and the release as steps, on a native disk or with OPFS moves.
`CandidateJobs` has one Job. `SampleAuthoring` measures a Project before the store
takes the lease, with callers in this process and in another. `SoundSetStore` has
Hosts that list, acquire and install, and a Catalog that may change a licence. A
platform that renames publishes in one step. The browser's cannot: `Publish` writes
the pending intent, `Copy` the files one by one, `Compare` reads both directories,
`Commit` replaces the record, `Settle` removes the source and the record. A failure
before `Commit` is undone (`Undo`: the destination, and the record only when the
destination is seen to be gone), one after it is answered as success. The next writer
lease (`Recover`) removes the destination of a pending record and the source of a
committed one, and a listing passes over a directory whose record is pending. `WebWriterLease` has the shared block of
atomics, the realm that owns it, its borrowers, the seal and the retirement.

### CardputerTransfer
The executor alternates between keys and frames. Any frame may arrive whenever the
endpoint polls: lost, repeated, delayed, of an older session. A SHA-256 is the
content it identifies. STATUS, the framing layer, the exhaustion of request ids
and the display are left out.

## Runs

| Run | Parts and bounds | Properties |
|---|---|---|
| `engine` | value channel, 5 publications; Pattern switches, 3 slots, 3 generations, 5 frames; edits and switches, 3 frames; 3 Bank and 2 audition slots, 4 generations, 2 voices; controller: 1 press with 1 switch or 1 fault | `LatestSpec`, `PatternsLive`, `SwitchOnBar`, `BanksLive`, `InputKept` |
| `authoring` | session: 2 actions, 3 contents, 1 group, revision 4; Pattern commands: 2 Patterns, 3 slots, 2 bars, 3 commands; Pad commands: 3 Assets, 2 Pads, 1 performance, 3 commands | `RestoresWhatWas`, `ReplayReproduces`, `CommitsWhatItAccepts`, `EditsAreLocal` |
| `project_files` | store: 2 processes, 3 commands, 1 blob, revision 2, 1 fault; one process at a time, 2 blobs, revision 3, 2 faults; import: 2 tokens, 2 versions, 2 chunks, a fault and a crash; 2 processes importing, 2 tokens, a fault and a crash; duplicate: 2 processes, 2 edits, a crash | `Recoverable`, `TruthSpec`, `BytesKept`, `PublishedWhole`, `PublishedStays` |
| `recording` | Capture: 2 takes, 4 faults, 5 revisions; Sequence: 2 Patterns of different length, 2 inputs, 2 revisions, 1 fault; admission: 2 Patterns, 3 inputs, 2 generations, 1 fault; performance: 2 commands, 2 inputs, 3 revisions, 2 faults; crashes and recoveries in each; 2 schedules, count-in of 2 frames, callbacks of 1 and 3 frames | `InStep`, `SequenceKept`, `AdmissionKept`, `PerformanceKept`, `SchedulesOwned`, `CancelledSilent` |
| `control` | ring of 2 with 7 items; live control: 1 stage, 3 gestures over 2 engine starts with failing appends, with 2 values or with session-free gestures; a recording of 4 gestures, a replay of 2 | `FifoSpec`, `AppliedIsHeard`, `TakeReproduces` |
| `material` | Jobs: 2 executions, native, failing and OPFS; samples: 2 callers or processes, 2 commands; Sound Sets: 1 and 2 Hosts, 2 faults; lease: 2 realms, 3 leases, 3 blocks | `WholeSuccess`, `CancelWins`, `QuotaKept`, `DeletedStaysEmpty`, `OfferedInstalls`, `HeldIsOpen` |
| `sessions` | facade: 2 pending, 3 commands, 2 epochs; Cardputer: contents of 2 bytes, 2 transfers, 2 sessions; Capture: as in `recording`; Sound Sets: 1 slot, 2 Hosts, 2 faults, by copying; lease: 2 realms, 3 leases, 2 blocks; 2 schedules | `CallbackSafe`, `ReceiptsExact`, `TransferSound`, `AllAnswered`, `SessionsEnd`, `EverySetArrives`, `EveryBlockFreed`, `EveryScheduleDecided` |
| `transport` | executor: 2 generations, 2 commands, 3 steps, 2 epochs; controller: 1 input, 1 request, 1 switch | `OnceInOrder`, `Completes`, `PressesSettle` |
| `import_overtaken`, `project_store_retry`, `performance_save_twice`, `scheduled_stuck` | the bounds of `project_files`; the smallest that show it | violations: see findings |

An invariant of a run joins what has to hold together of one component, and its
comment names the component; the module of the component defines and explains the
parts (`SchedulesOwned` is `BorrowedAlive`, `SettledQuiet` and `StartsComplete`).

Why the bounds are enough. Five publications let every slot play every role. Seven
items wrap a three-cell ring twice. Three slots and three generations are a Pattern
that plays, one claimed and one in the mailbox; five frames hold the Bars of both
lengths and a switch of a switch. A callback of three frames is longer than a
count-in of two, one of one frame splits it. Two actions make the history overflow
with a third; four revisions hold an overflow, a group and its cancellation. Two
faults are a failed write and a failed or interrupted cleanup of it; three commands
leave a retry and a competitor. With two processes one fault keeps the state space
in reach. A retry after a lost answer, a second session over the rests of the first
and a recovery by another process need two commands, two sessions and two
processes. Four faults and five revisions let each of the four writes of a Capture
fail once, and the Sequence edit before and after it.

Deadlock is not checked: every model stops somewhere when its counters (revisions,
generations, faults, serials) are used up, in the part that is chosen. That the
systems do not stop before is what the liveness properties say.

Fairness. `RuntimeFacade`: the device keeps calling `render()`, which returns;
`stop()` repeats `finish_stop()` until it is not draining; the host polls until it
has its receipts. `TransportExecutor`: the worker thread runs and the owner's calls
return. `TransportController`: the device calls back, the worker runs, and the host
steps the controller while a step would change something (its event loop does) and
publishes what it owes. `CardputerTransfer`: the loop polls and the clock advances;
nothing is assumed of the computer or the user. `ArmedCapture`: a client that is
refused retries or discards, as the refusals tell it to, and a Project whose owner
was lost is reconciled when it is opened. `SoundSetStore`: Hosts ask again for a
Set they do not have (strong, since other Hosts and faults intervene).
`WebWriterLease`: pending promises resolve, timers fire and destructors run.
`ScheduledRecord`: the device calls back (weak), some callback finds the old voices
ended (strong), control acknowledges what it is told and stops. Nothing else is
fair. `Again` in `MCSessions` states three of the strong assumptions at once, one step
of the facade, of the Sound Sets and of the schedules: a behaviour moves one of them,
so the formula is the conjunction of the three.

## Findings

Four runs show what a document, a comment or a test denies:

1. `project_store_retry`. An Undo whose manifest replacement failed leaves its
   transaction and checkpoint. Its retry loads without recovering and finds both
   names taken. A test expects the retry to succeed, and passes because it calls
   `load()` in between.
2. `performance_save_twice`. A save whose Journal could not be removed, repeated
   under a new command, appends the recorded tail to the draft a second time.
3. `scheduled_stuck`. A schedule cancelled while audio waits for an old voice loses
   its borrow, and the two places that would settle the cancellation are skipped:
   the cell stays busy until the engine stops.
4. `import_overtaken`. An import gives up the lease of its staging before it renames
   it. A process that starts then takes the staging for abandoned, and its clean-up,
   entry by entry, goes on in the Project that was published meanwhile. The passing
   run `project_files` checks the same two processes: a published Project is whole
   unless its tree was overtaken in this way (`WholeUnlessOvertaken`).

Modelling met further disagreements. The model contains the behaviour of the code in
each case and the passing runs reach it; the property excludes exactly that case and
its comment says so. One is left out by a constant: `Kinds` of `SampleAuthoring` has
no "assign", since a `pad_assign` is not measured.

| Where | What the code does | What is said |
|---|---|---|
| `sequence_journal.cpp:875` | checks completed flushes of an earlier Pattern against the length of the last one: after a switch to a shorter Pattern a candidate, with acknowledged notes of the last Pattern in it, cannot be read (`Outgrown`) | every acknowledged event is recoverable (plans/2026-08-29-lmdj-sequence-hard-owner-loss.md:14) |
| `application.cpp:3275`, `sequence_journal.cpp:1352`, `:2541` | decides from memory whether a switch must flush; a tail whose append failed visibly is only in the Journal and changes Pattern, where it may not fit (`Outgrown`) | flush the old Pattern at the boundary (plans/2026-08-23-lmdj-stage9-sequence-recording.md:383) |
| `application.cpp:3918` | seals a Journal without looking for the receipt of its flush | "never overdubbed again" (same plan, :24) |
| `pattern_admission_controller.cpp:947` | a retried close names its flush with another revision and is refused | "a failed close can retry" (`.hpp`:136) |
| `sequence_journal.cpp:3814` | a performance flushed, rebased and sealed cannot be listed | a retained actionable candidate (plans/2026-08-29-lmdj-stage10-perform.md:481) |
| `project_store.cpp:7322` | reconciliation after owner loss appends a tail that an unresolved flush refuses | same line |
| `application.cpp:7327`, `:7885` | a frozen admission is completed with another result, or blocks the flush that blocks it | prd/decisions/2026-10-11-performance-live-control-encoding.md:569, :574 |
| `attempt_store.cpp:318` | a reservation between a record and the release of its directory gets an id that has a record | a duplicate run "cannot donate its terminal" (`application.cpp`:10831) |
| `pattern_transport_controller.cpp:1702` | a shutdown during a pending Record never closes the take it opens | "submits a genuine Stop" (`control_runtime.cpp`:3972) |
| `control_runtime.cpp:3741` | while a publication is owed the receipt of a Play is not acknowledged, and the receipt blocks the publication | comment at :3736 |
| `application.cpp:7739` | a gesture over a frozen effect makes a take invalid | `project.cpp`:770 |
| `application.cpp:6891`, `:7743` | a legacy engagement of the Filter over an open typed gesture throws when its event is already pending: the take holds what was never heard (`alone` in `TakeReproduces`) | `project.cpp`:825 accepts the takeover |
| `performance_engine_adapter.cpp:878` | a cell held while an append was unknown is published with no look at the epoch: it reaches the bus of a later engine start, and the shadow becomes the state derived before (`"held"`) | "the old epoch, callbacks and receipts must not reach the new state" (:1056) |
| `performance_engine_adapter.cpp:948` | a session-free gesture after an engine start is in a shadow that the next observation resets (`"unobserved"`); one made while a control is frozen is lost when the state derived before it becomes the shadow (`"late"`, :1223) | "the complete control-thread truth" (:666) |
| `performance_engine_adapter.cpp:1205` | a session-free release of the Filter takes the generation of an open typed gesture and leaves it engaged (`"released"`) | `master_fx.cpp`:249 |
| `performance_engine_adapter.cpp:928`, `:1659` | session-free gestures prune the history a fence needs (`alone` in `FenceKept`); a replay waits for positions of an earlier start (`born` in `ResetIsNeutral`) | `performance_ports.hpp`:238 |
| `application.cpp:3903` | an armed Capture whose completion failed visibly leaves the session a revision behind (`Behind`) | plans/2026-08-29-stage9-armed-pad-capture.md:164 |
| `application.cpp:10242` | `pad_assign` is not measured against the quota | every revision is bounded (prd/decisions/2026-08-28-long-material-quota-accounting.md:18) |
| `soundset_store.cpp:734` | two Hosts together exceed the limit of the staging area | "Bound on the whole staging area" (`soundset_store.hpp`:40) |
| `realtime_engine.cpp:1420` | a cancelled schedule's serial becomes the cutoff, and a take that was cut off admits input | comment at :1593 |
| `usb_transfer_endpoint.cpp:237`, `:276`, `transfer_transaction.cpp:109` | the reported offset runs ahead; Esc and Enter in one drain keep a cancelled transfer; conflicting input keeps its staging | design/2026-09-10-cardputer-usb-transfer.md:70, :91, contracts/cardputer-transfer/README.md:22 |

Smaller limits seen on the way. Recordings: a torn admission Journal is never
repaired; a candidate whose begin was not committed cannot be discarded; a double
append failure counts as one fault here. Jobs: a crash after a reservation uses up
the id. Transport: a shutdown whose acknowledgement fails submits its opening again
for ever; an engine lost before its receipt never retires the request (documented).
Bundles: a chunk that cannot be verified makes its session unfinishable; a
publication that failed after the rename is answered as a failure. Samples: early
returns leave staging until the next start; a retried installation is charged
again. Sound Sets: staging of a Set that was published meanwhile is never cleared.
Lease: contenders that retry for ever keep a retired block alive, and a lease
destroyed in another realm owes its release until that realm runs.

## Hazards without a property

`storage_platform.cpp:1634`: a directory sync fails after the rename and a retry is
answered as replayed; files here keep what was renamed. `project_store.cpp:3506`
and `:3957`: another process's recovery removes a blob that a reader without lease
or this process's Redo still needs. The first is a spurious refusal that a retry
cures (`ReaderSound` covers the history files only); the second the code refuses
as `missing_asset`, which `BeginRestore` models, and nothing promises that Redo.
`project_store.cpp:3364`: the replay prefix cache is not modelled.
`attempt_store.cpp:318`: a reservation left by a crash blocks its id by design.

## Proofs

All theorems hold for every value of the constants that satisfies the named
assumptions (positive capacities and bounds, a generation of its own, and so on).
`Engine`, `Recordings` and `Sessions` take components as instances (`Banks`, `Mail`,
`Scheduled`, `Usb`) and name their properties; `MCEngine`, `MCRecording` and `MCSessions`
extend them, so that the runs check the formulas the theorems state. Each proof follows the same course: an inductive invariant `IInv`, `InitIInv`,
`NextIInv` with one step per action, and corollaries.

* `Engine`, value channel: `IInv` adds to the three disjoint slots that every slot
  the writer does not own is whole (`SlotsWhole`), that the newest version is in
  the middle slot when it is dirty and in the reader's otherwise (`NewestPlaced`),
  and that the reader's slot is at least `floor` once it copies (`ReadProgress`).
  `Refinement` maps every step to a publication, the begin or end of a read, or a
  stutter. The run checks the refinement; the invariants below it are proved only.
* `Engine`, sample Banks (`BanksSafe`): `BankIInv` adds to `BanksLive` that what
  is queued for audio is pending and queued once (`Announced`), that the counters are
  the lengths of the queues they stand for (`Counted`), that a stopped engine has
  nothing under way (`Stopped`), and why a press is right: it is queued only while no
  publication waits, and then the Bank it was admitted against is still the current
  one (`Admitted`). The counters are what makes the last inductive.
* `Engine`, Patterns (`PatternsSafe`): the mailbox word, the token audio publishes
  and the slot it works on change in different steps. `Claims` says what they are at
  each place of the callback, `Filling` what control holds meanwhile, `Numbered` that no
  two filled slots have one generation. `Kept` then carries the cancellation: neither
  the mailbox's Pattern nor the one audio has taken was cancelled, but the slot audio
  works on may be once its token is gone.
* `Engine`, switches (`SwitchesOnBar`, a property of steps): a second invariant on
  top of the first, about an admission that audio has not invalidated (`Admitting`):
  control still sees what audio holds (`Observed`), what a switch was timed by plays, is
  the next to play, or was cancelled (`Followed`), and a start timed by what plays is on
  its Bar (`Barred`, from `BarLine` about `NextBar`). `Withdrawn` covers the cancellation
  that audio has not noticed. TLC checked both invariants on the two instances of
  `MCEngine` first. `Bar` must be positive and there must be a Pattern.
* `Recordings`, scheduled recordings (`SchedulesSafe`, and `CancelledNeverStarts`, a property
  of steps): `RecordIInv` says what the pins and borrows count (`Held`); that the tag, the
  cell, the cutoff and the cancellations that won speak of the last schedule (`Serials`);
  whose schedule audio holds in each phase (`Stages`) and what audio has seen at each place
  of the callback (`Stations`), in particular that a tag which is still armed after the
  compare-and-swap is the one audio read. `Counting` is the count-in: the cues handed out
  are exactly the markers before the frame reached. A cue may be refused when the batch is
  full, so the count is only inductive with `Batch`: while no batch waits, the one of this
  callback holds no more than the cues handed out and a carried one. `Unused` is what a
  settled serial promises. TLC checked `RecordIInv` at the run's bounds first. Markers are a
  strictly increasing sequence of frames of the count-in; without the order a cue could be
  passed over.
* `SpscQueue` (which holds its own proofs): `IInv` says where in the ring each unread item lies
  (`Position`), so that the indices are the counts of accepted and taken items
  modulo the storage; the sentinel makes full and empty differ.
* `TransportExecutor` (which holds its own proofs): `IInv` ties the cell to the ghosts: what is accepted is
  what is executed, except the last while it waits; the worker's `work` is the
  retained request.
* `Sessions`, runtime facade: `IInv` joins the gate (`GateInv`: a callback inside means
  busy), the counts (`CountInv`: what is published, applied and accepted), the
  control ring (`ControlInv`: it holds the accepted, unapplied suffix),
  the outcome ring (`OutcomeInv`), the pending list (`PendingInv`) and `CoverInv`:
  the outcome of every applied and unreceipted command is in its pending entry or
  still in the ring. `CoverInv` is what makes the order of `poll()` matter.
* `Recordings`, Captures: `IInv` adds to the checked `InStep` what happens between the
  marker and its completion (`MarkerInv`: the Project is at the marker's revision
  with an empty Pad, or one later with the marker's take), the state without a
  marker (`OpenInv`) and the session's revision (`SessionInv`). One lemma follows the
  rest of an import from any marker, two the resolution of one. Any of the four records
  may be in the file although its append failed; where the completion is, the session
  is exactly one revision behind (`Behind`), which `InStep` and `SessionInv` say.
* `Sessions`, transfers to the Cardputer (`TransferSafe`): `TransferIInv` adds that
  without a transaction nothing is staged (`NoTransfer`) and that an audio session which
  is still owned is not silent, and one that runs is owned (`AudioRest`), so that content
  is replaced only when the audio is at rest. `DataSound` is the long lemma: the staged
  bytes are the start of what one session sent, also for a chunk that overlaps them.
* `AuthoringSessionProofs`: `RestoresWhatWas` speaks of the session that a reconcile
  would leave, so `IInv` asks it of all three states of the history object (the
  installed one and the two of a pending publication). Two strengthenings make it
  inductive. `Displaced`: the Redo branch and the oldest entry that an open group has
  displaced still fit where its cancellation puts them back. `Grouped`: only the newest
  Undo entry belongs to an open group, and then there is nothing to redo, so that a
  group extended in place breaks no chain of Redo entries. The operators of
  `AuthoringHistory` have one lemma each (`RestoreGood`, `MergedGood`, `PushedGood`,
  `SealGood`, `ReconcileGood`), which rest on lemmas about stacks without their last or
  first entry. TLC checked `IInv` at the run's bounds before it was proved.
* `WebWriterLeaseProofs`: `HeldIsOpen` depends on counters that several realms change
  a word at a time. `IInv` says that they cover the leases (`CountInv`: a block's gate
  is at least the number of leases that pin it and its remote count at least the number
  of those of other realms, more only when a lease was destroyed elsewhere), that a
  realm is in one acquisition at a time and one lease opens a block (`AloneInv`), what a
  lease has found by the time it is where it is (`Phase`), that the memory word counts
  the C++ state and the open lock (`Words`), and that a realm's entry stands for an open
  lock and counts its tokens, a borrower's exactly unless a cleanup is owed (`Tokens`).
  The last is why closing is safe: with no debt and no remote reference no other realm
  can have an entry for the lock (`CloseStep`, shared by a drain, a failed recovery and
  the end of a realm). Steps that only count are one lemma (`CounterStep`); the others
  have one each. TLC checked `IInv` for 3 leases in 2 realms, 6 acquisitions and 3
  failures before it was proved. The finite number of leases is assumed because the
  argument counts them.

* `ProjectStoreProofs`: `Recoverable` is about a replay from checkpoint 0 to the head
  and is not inductive: nothing in it says that the replay of a log one longer will
  come out right. `IInv` has the stronger `Chained`: every listed transaction leads
  from the checkpoint before it to its own, and the head's artifacts are there. For
  each process it says what its writer knows: the loaded Project is the head and no
  artifact the clean-up would take back is one of the head's (`Holds`); the request
  applies to the head and is new, and artifacts, transaction and checkpoint are there
  once the step that writes them is past (`Writes`); a creation finds no manifest
  (`Creates`); the log a reader without the lease has read is a beginning of the
  manifest (`Reads`). Undo needs that the history objects hold contents only
  (`HistoryTyped`), or a restored checkpoint might be none. Since a writer holds the
  lease, whoever else is there only reads (`BystanderKept`), so each action needs its
  effect on the files and on its own process. `ChainReplays` relates the recursive
  replay to the chain: the function of checkpoints satisfies the recursive equation,
  hence so does the chosen one, and a least revision at which the two differ cannot
  exist. `ImplementsTruth` maps the replacement of the manifest to `ACreate` or
  `ACommit`, a receipt to `AReplay`, and every other step to a stutter. Assumed:
  `None` is no content, command, process or log (`StoreAssumption`). TLC checked
  `IInv` for 2 processes, 2 commands, 2 revisions and a fault before it was proved.
  `BytesRetained` is the same store authored by one process at a time (`SoloSpec`, what
  the run calls `Alone`; with two authors it is false, see above): Undo and Redo keep
  their audio bytes. `RetainedBytes` alone is not inductive, for two reasons. A clean-up
  deletes what its commit has published, so the bytes an entry needs must not be among
  the artifacts counted as new (`blobs \ fresh`). And a prepared state becomes the history
  when the manifest is replaced, so what it needs must be on disk or still staged
  (`BytesHeld`). One lemma per operation of the history object says that it needs nothing
  new but what the edit brings; `RemoveStaleHeld` uses that `recover_uncommitted()`
  spares what `retained_artifacts()` names. TLC checked `BytesHeld` for 3 commands, 2
  artifacts, 3 revisions and a fault before it was proved.

Only model-checked: liveness and everything that needs `ENABLED`, and the other
components, whose invariants the runs check.

## Not modelled

Request decoding, projections and metadata queries of `application.cpp` and the
conversions of the C ABI; the bridge, the browser session and the worklet protocol;
the project cooker; sample arithmetic (voices, effects, WAV, offline rendering);
JSON, hashing and validation of text; migration of v1 and v2 documents; the
workspace cache, the mutation publish scope and the replay prefix cache; providers'
algorithms and host settings; hosts, displays, keyboards and the Cardputer's audio
driver. `PROJECT.json` gives the reason for each. A disk that loses renames it did
not sync is not modelled either.

## Plan

1. `MutationPublishScope` and the replay prefix cache, composed with the store.
2. The web runtime's session state machine, and the Cardputer audio session's
   worker handshake.
