# Paneflow: TLA+ models of the session host

Paneflow is a desktop terminal multiplexer. Terminals do not live in the desktop
process but in a *session host* (`crates/paneflow-host`), a separate process that
owns the children, keeps their output, writes a manifest per session and survives
the desktop. The desktop (`src-app`) mirrors sessions over a control socket. What
is hard to get right in Paneflow is in this split: processes must never be lost
between threads, records must survive failures and arrive in order, and a pane must
show exactly what the child wrote through evictions and lost connections; agents
report events into the same records, and exactly one host may own a state home. The
modules here model that core. Source paths below are relative to the repository;
`persistence.rs`, `host.rs`, `runtime.rs`, `stream.rs`, `tail.rs`, `server.rs`,
`agent.rs` and `bootstrap.rs` are in `crates/paneflow-host/src`, `state.rs`,
`worker.rs` and `core_link.rs` in `crates/paneflow-serve/src`, `attached_runtime.rs` and `mailbox.rs` in
`src-app/src/terminal/ghostty_session`.

- [Running](#running)
- [Inventory](#inventory)
- [Modules](#modules)
- [Runs](#runs)
- [Fairness](#fairness)
- [Proofs](#proofs)
- [Disagreements](#disagreements)
- [What is left out](#what-is-left-out)
- [Plan](#plan)

## Running

    tlc -workers 2 -config PersistenceOrder.cfg Persistence
    tlapm SessionHostProofs.tla

`PROJECT.json` lists every run with its module and configuration, the line range
each definition stands for (`map`), one mutation per property that TLC must reject
(`mutants`), the hazards the properties are aimed at, the findings and the
theorems.

## Inventory

### Session host

| Component | State | Operations | Interacts with |
|---|---|---|---|
| Persistence service (`persistence.rs`, `persist_revision` of `host.rs`) | per session: revision stamped, revision written, removed, final reservation, error; a queue of ordered jobs, coalesced metadata, retained finals, a byte counter; one writer thread | stamp, submit (Metadata, Critical, Final), reserve, remove, exclusive job, drain, stop; write, retry | called by every host thread; writes the disk; shutdown drains it |
| Session registry (`host.rs`) | session map: manifest (generation, lifecycle, host instance), pending launch, runtime, completed record; seed ledger locks; `shutting_down` and its attempt counter | create, restart, admit, spawn, register, await, commit, fail, stop, remove, trim, shut down; the observer callbacks of session threads | calls the runtime; is called back by it; writes through Persistence; served by the control server |
| Session runtime (`runtime.rs`) | cells (exit, unverified, descendants, retired), stop state, finalisation state | start, announce, observe the child and its descendants, stop, publish the exit, finalise, retire, end | registry, PTY, process tree |
| Output stream and tail (`stream.rs`, `tail.rs`, inbox and `serve_loop` of `runtime.rs`) | inbox of chunks, tail (start, bytes), end offset, live, completed record | read, push, notify, slice, feed, finish, release, read from an offset, wait, checkpoint | reader thread, session thread, connection threads |
| Control server (`server.rs`) | the listener, connection threads and slots, a shutdown flag | bind, accept, dispatch, stream output and agent frames with keepalives, retire | registry, stream, desktop, remote worker |
| Agent ledger (`ingest_agent_event` and `await_critical_durability` of `host.rs`, `agent.rs`) | per session: hook revision and last hook, receipts, removed mark, the shared critical flush; the agent bus with a bounded queue per subscriber | ingest an event, recognise a retry, publish, wait for durability, announce a row, subscribe, drop a subscriber | Persistence; restart and removal hold the same ledger; followers |
| Agent writes and approvals | approvals asked of another session, their expiry | ask, approve, deny, write | registry, desktop |
| Checkpoint staging | staged snapshots, byte budget | stage, fetch, expire | control server |
| Host bootstrap (`bootstrap.rs`, `open` and `retire` of `host.rs`) | owner lock, bootstrap lock, socket file, instance record, the manifests of a dead host | take ownership, adopt, bind, serve, retire; find, start, replace a host | desktop, command line, kernel |
| Process tree, observers, cold text, maintenance, protocol, spawn environment | platform state and files | display reads, file jobs, framing | registry |

### Desktop

| Component | State | Operations | Interacts with |
|---|---|---|---|
| Pane mirror (`attached_runtime.rs`, `mailbox.rs`) | follower position, need for a checkpoint, mailbox with a fixed number of output buffers, the mirror terminal | connect, attach, restore, follow, push, finish; process messages | control server; user interface |
| Host link | intents queued while the host is away, why a stream ended | queue, replay, classify | pane mirror |
| Close policy and quit dialog | what to stop, retries | stop all, keep running, retry | registry |
| Remote worker (`paneflow-serve`) | an entry per session, the stream from the host | subscribe, apply snapshots, rows, events and removals, poll | agent bus |
| Session file | debounced save | schedule, flush | user interface |
| Layout, workspaces, text diff, git, sidebar, configuration, hooks, MCP, update, terminal engine, command line, settings | user interface and file state | see `PROJECT.json` | desktop IPC |

### What is hard, and what makes each part correct

| Part | Hard behaviour | Correct when |
|---|---|---|
| Persistence | a revision is numbered under one lock and submitted under another, so records arrive in any order; writes fail and are retried; removal races with queued writes; drain drops its lock half-way | the file never holds less than was reported; a deleted record stays deleted; an accepted final is not lost while the service runs; drain's success means durability; once storage works, and submissions pause, every final lands |
| Registry and runtime | the child may end, the launch be cancelled, the caller time out, the session be stopped, restarted, removed or the host shut down between any two critical sections | no process outside the books; exited means dead; a starting record has an owner; a running record is current; launches are bounded and unique; an acknowledged shutdown leaves nothing; every launch and every shutdown resolves |
| Output | notices are sent after the lock is released; slices leave chunks behind; the end of the child, of the PTY and of the drain budget come in any order | the tail is exactly the newest bytes at their offsets; a record that says complete is; the final offset stays; a checkpoint is of one moment; what is read is published |
| Pane mirror | eviction, lost connections and the end of the session while the pane is behind | frames neither skip nor repeat; the mirror is faithful; an ended pane has everything; every byte arrives without waiting for a keepalive |
| Agent ledger and followers | several connections accept events of one session; the write of one request serves others; the hook retries; a restart or a removal takes the same ledger; rows are broadcast without it | an event answered durable is on disk; followers hear events in order and a retry once; every request is answered; a worker with nothing left to read is current, and polling repairs the rest |
| Bootstrap | processes die at any step with lock, socket or record in place; two controllers and a hand-typed `serve` start hosts at once; waits run out while a child is about to serve | one host owns the home; a live socket is never removed; no other host touches the record of a listed session; every call returns; after a crash a later call finds or starts a host |

## Modules

| Module | Stands for |
|---|---|
| `Persistence` | `persistence.rs` whole, with `persist_revision` |
| `RecordStore` | abstract: a file per session that never falls behind what was reported of it and is deleted once |
| `PersistenceProofs` | the theorems about `Persistence` |
| `SessionHost` | ownership in `host.rs`, and the runtime cells it reads |
| `SessionHostProofs` | the theorems about `SessionHost` |
| `OutputStream` | reader, inbox, session thread and tail of one session |
| `OutputFollower` | extends `OutputStream` with `stream_output`, the follower thread, the mailbox and the worker |
| `OutputStreamProofs` | lemmas about runs of bytes and chains of chunks, and the invariant of one session's output |
| `OutputFollowerProofs` | the theorems about the composition |
| `SumProofs` | lemmas about `SumFunctionOnSet`, which every byte and buffer count is defined with |
| `AgentRecord` | the record of one session and its ledger, as events, restarts, exits and removals change them |
| `AgentLedger` | extends `AgentRecord` with the requests, receipts, the critical flush and the promises of `Persistence` |
| `AgentWorker` | extends `AgentRecord` with the agent bus, the announced rows and the worker of `paneflow-serve` |
| `AgentLedgerProofs`, `AgentWorkerProofs` | the theorems about the two compositions |
| `Bootstrap` | ownership of a home: host processes, controllers, locks, socket, instance record, adopted manifests |
| `BootstrapProofs` | the theorems about `Bootstrap` |
| `MC...` | the instances for TLC and their symmetry sets |

**Grain.** An action is the code between two acquisitions of a mutex. In
`Persistence` a storage operation of the writer is an action of its own, between
`BeginWrite` and `Settle`, so a removal can fall inside a write. In `SessionHost`
every re-acquisition of the map lock by a launcher, stopper or shutdown thread is a
separate action (their `pc`). In `OutputStream` the reader's `Push` and `Notify`
are separate because the code releases the inbox between them; each chunk the
session thread feeds is a step, so a follower can read between two chunks of a
slice.

**Persistence.** A manifest is its revision number and a size. `NextRevision`
stamps a record under the manifest lock and leaves it in `transit`; `Submit*`
picks any of those, so the order is free. `ordered`, `metadata`, `metadata_order`
and `pending_final` are the fields of `Queue`; `wpc` is the place in `writer_loop`.
`WriteFails` also covers the half-way failure: the manifest was replaced, its hook
seed was not. Exclusive jobs may come for ever; only how many are queued at once is
bounded (`ExclusivesQueued`), so that traffic never ends by itself. `Acknowledge` is
`execute`'s answer to a waiting caller, which is Ok also for a skipped revision of a
removed session. The variables `acked`, `accepted_final`, `deleted` and `drain_floor`
are history, read only by properties.

**SessionHost.** `gen`, `lifecycle`, `mine`, `launch`, `slot`, `completed` are the
fields of a session record; `ledger` is the seed-ledger lock that serialises two
restarts; `rt[s][g]` is the session thread of generation `g`. Its fields `proc` and
`kids` are the truth about the child and its tracked descendants, the others are
the cells the host reads: properties compare the two. A launcher thread that gives
up at its deadline leaves a late owner, which is the same actor going on in `wait`.
The stop protocol of `runtime.rs` (ask, signal, wait, kill) is abstracted to its
three answers: confirmed, unverified, overdue. A manifest write either succeeds or
fails, which is what `Persistence` promises a waiting caller. Two variables are
history, read by no action: `undone` has the sessions whose record a restart put back
because it could not be written, until a launch is committed; `lifted` says that the
one `shutting_down` flag was cleared by one requester while another shutdown relied on
it. `MaxShutdowns` bounds the shutdowns that really begin; refused ones may come for ever.

**OutputStream and OutputFollower.** The child's bytes are numbered in the order
they are read, so a lost, doubled or moved byte shows. A terminal is the sequence
of bytes it was fed, and a checkpoint is that sequence with an offset. Capacities
(inbox, slice, read, tail, frame, buffer) are constants; small values make chunks
larger than the tail, slices that leave chunks behind and evictions all happen.

**AgentRecord, AgentLedger, AgentWorker.** `AgentRecord` has the manifest fields
that events touch and the actions that two compositions share. Whoever holds the
ledger (`holder`) keeps it from the new hook revision to the broadcast, or from the
new generation to the outcome of its write, as in the code; `RestartCapture` and
`RemoveBegin` are the steps that do not hold it. `AgentLedger` puts requests on top.
Its writer executes records in the order of their revisions, drops a failed critical
one, tries a failed final again and answers whoever still waits: what `Persistence`
shows of a single session. `AgentWorker` leaves requests and writes open (any event
may be accepted, any restart write may fail) and adds what goes out: the event frame
under the ledger, the row that is read under the locks and sent without them, the
removal notice. The subscription's queue, the connection and the worker's queue are
one bounded queue, because each ends the stream when it is full or broken.

**Bootstrap.** A host process walks through `main.rs` `serve`: lock, open (adopt,
instance record), look at the socket, remove it, bind, serve, unlink, drain, retire,
exit. A controller walks through `ensure_host_running` and `stop_incompatible_host`;
connecting and being answered are two steps, so a host can stop in between. `Crash`
ends a host at any step: the kernel frees its lock and closes its listener, its files
stay. `Old` is a host of another protocol that already runs. `faults` counts deaths,
failed writes and waits that run out; a wait that runs out is possible whenever the
awaited thing has not happened, as no clock is modelled. Memory and file are two things:
`listed` is what a host's map says of the session, `record` what the manifest file says,
and `unwritten` is set from the change in memory (`Launch`, `SessionEnds`) until the
write lands (`RecordLands`) or the launch is withdrawn (`LaunchUnwritten`); a host may
die in between. `record` tells only whether the file holds ownership (starting, running
or unverified) and whose: `commit_launch`'s write, whose failure is only logged, goes
from starting to running and does not change that.

## Runs

All bounds are constants named in the configurations. Passing runs together reach
every action and disjunct.

| Run | Instance | Shows |
|---|---|---|
| `persistence_order` | one session, sizes 1 and 2, budget 3, two revisions, exclusive jobs for ever, one queued at a time | honesty towards the disk, no resurrection, finals kept, exact byte counter, refinement of `RecordStore`; every accepted final lands once storage stays healthy and submissions pause |
| `persistence_two` | two sessions, one size | no queued metadata is unreachable after removals of the other session; drain over two sessions |
| `follower` | three bytes in chunks of up to three, an inbox and a tail of two, slices, frames and buffers of one, one loss | exact tail, complete records, stable final offset, frames follow on, faithful mirror, whole at the end |
| `follower_live` | two bytes, a tail of one, one loss | every byte read is published and reaches the mirror |
| `follower_replaced` (violation) | two bytes, a tail of one, two losses | a replaced checkpoint makes bytes appear twice |
| `host_own` | one session, two generations, a launcher and a stopper; storage and the child waiter may fail | nothing orphaned, exited is dead, starting has an owner, running is current |
| `host_contend` | two launchers, two sessions (one adopted), one place in the launch queue | bounded launches, one launch per generation |
| `host_live` | a launcher, a stopper, two requesters, one shutdown that begins and any number refused, failing storage | acknowledged shutdown owns nothing unless the other requester lifted its refusal; launches resolve; shutdowns end |
| `host_completed` (violation) | one launcher | a completed record filed before the commit is lost |
| `agent_ledger` | two connections, two requests, one receipt, event times up to 2 with a tolerance of 1, a restart, a removal, one failed or abandoned write | durable means on disk, events in order, a retry notified once, every request answered |
| `agent_worker` | one event, a restart, a removal, a queue of two frames, one lost connection | a worker with nothing to read is current, no event after the removal notice, polling settles |
| `bootstrap` | two controllers, two calls, three host processes (one of another protocol), two faults | one owner, no live socket removed, records of listed sessions stand, every call returns, crashes are recovered |

**Why the bounds are enough.** Two revisions give every order of a stamp and a
submission, and a final behind a retained final; sizes 1 and 2 against a budget of 3
with a reservation of 1 give admitted, refused and reserved submissions. One drain is
enough because drains do not share state but the queue. Two sessions are what
`metadata_order` needs to go stale for one while the other is served. Two generations
let every late actor (an exit notice, a stop, a completed record) of the old one meet
the new. One place in the launch queue with two launchers makes the queue full. A second
requester is what lifts a refusal: its shutdown is refused because the first is under
way, its client is gone, and the flag is cleared for both. A tail
of one or two bytes with chunks of up to three exercises both branches of
`OutputTail::append`; a tail of two with frames of one lets a session end while a
follower still has more than one frame to read; two requests on one receipt make a retry
meet its own receipt and the receipt of another; event times 0 to 2 with a tolerance of
1 give events without a time, in order, refused as late and accepted because they are
far older. A queue of two frames is overrun by an event, a row and a removal. Three
hosts are the old one, its successor and one that dies on the way, and two faults let a
crash be followed by another failure. Two
re-attachments, by losses or evictions, are the least that replaces a queued checkpoint.

`CHECK_DEADLOCK FALSE` is set everywhere because each system may really stop: the
service is dropped, the host goes down or exits, the pane closes, and all inputs are
bounded.

## Fairness

- `Persistence`: weak fairness of the writer thread and of a drain that is not
  waiting for its barrier; both are runnable threads. Storage is not fair:
  `FinalLands` is conditional on `<>healthy`. Host threads owe nothing. Nor is the retry
  owed: the writer's timed wait begins anew with every job, so `FinalLands` also assumes
  `Lulls`, that while finals are retained the wait runs out again and again. Without it
  TLC finds the behaviour in which exclusive jobs postpone the retry for ever.
- `SessionHost`: weak fairness of each host thread that has begun and of each session
  thread (including its timeouts, which are `recv_timeout` and deadline loops in the
  code). A shutdown hands its stops to threads it spawns; as an action of the pool of
  stoppers that is strongly fair, because spawned threads do run. The child owes
  nothing: it may ignore a stop, live for ever or fork.
- `OutputStream`, `OutputFollower`: weak fairness of each thread that is not blocked.
  The child, time (the drain budget, the grace of the tail, the keepalive), lost
  connections and the user owe nothing; so `MirrorCatchesUp` shows that no wakeup is
  lost rather than that the keepalive repairs it.
- `AgentLedger`: weak fairness of each request thread, of the restart thread and of the
  writer. Nobody has to post, restart or remove; storage may fail as often as the bound
  allows.
- `AgentWorker`: weak fairness of the host's threads that announce and of the worker's
  pump, and of its poll, which the code repeats every 30 seconds.
- `Bootstrap`: weak fairness of each process that runs and of each call that has begun;
  strong fairness of taking the bootstrap lock, which `acquire` tries every 25 ms while
  other calls hold it for bounded times. Faults, launches, stops and the user's decision
  to replace an incompatible host are never owed.

## Proofs

Every theorem holds for all values of the constants that satisfy the named assumption
of its module; one theorem (`DrainOkMeansDurable`) has a further hypothesis, stated in it
and below. What the code itself takes back is exempted by name inside the properties
(`removed`, `GivenUp`, `undone`, `lifted`, `unwritten`, `failed_restart`). Each is
an invariance proof: an inductive invariant that says more than the property, one lemma
per action or group of actions, and a last step that combines them. The invariants were
checked by TLC on the instances of the runs before they were proved.

| Module | Theorem | States |
|---|---|---|
| `PersistenceProofs` | `TypeCorrect` | `Spec => []TypeOK` |
| | `DiskHonest` | `Spec => [](ReportedIsOnDisk /\ NoResurrection)` |
| | `DeletedStaysDeleted` | `Spec => []NoResurrection` |
| | `FinalsKept` | `Spec => []FinalNeverLost` |
| | `MetadataIsReachable` | `Spec => []MetadataReachable` |
| | `DrainOkMeansDurable` | `~SlowDrain` implies `Spec => []DrainOkIsDurable` |
| | `BytesCounted` | `Spec => []QueuedBytesExact` |
| | `RefinesRecordStore` | `Spec => ImplementsRecordStore` |
| `SessionHostProofs` | `HostTypes` | `Spec => []TypeOK` |
| | `RegistryInvariant` | `Spec => []RegistryInv` |
| | `NoOrphans` | `Spec => []NothingOrphaned` |
| | `ExitedMeansDead` | `Spec => []ExitedIsDead` |
| | `StartingIsOwned` | `Spec => []StartingHasOwner` |
| | `LaunchedOnce` | `Spec => GenerationLaunchedOnce` (an action property) |
| | `QueueIsBounded` | `Spec => []LaunchesBounded` |
| | `RunningNotStale` | `Spec => []RunningIsCurrent` |
| | `DownMeansStopped` | `Spec => []DownOwnsNothing` |
| `OutputFollowerProofs` | `StreamInvariant` | `Spec => []PaneInv` |
| | `TailIsExact` | `Spec => []TailExact` |
| | `CompleteMeansWhole` | `Spec => []CompleteIsWhole` |
| | `FinalOffsetFixed` | `Spec => []FinalOffsetStays` |
| | `NoGapOnTheWire` | `Spec => []FramesFollowOn` |
| | `MirrorInOrder` | `Spec => []MirrorFaithful` |
| | `EndShowsAll` | `Spec => []EndedIsWhole` |
| | `OutputTyped` | `Spec => []TypeOK` |
| | `InboxWithinBudget` | `Spec => []InboxInv` |
| | `NoNoticeLost` | `Spec => []SliceComes` |
| | `NoWakeUpLost` | `Spec => []NothingToSend` |
| | `NoAnswerLost` | `Spec => []AnswerComes` |
| | `BuffersConserved` | `Spec => [](PoolInv /\ (buffers = 0 => queue # <<>>))` |
| `AgentLedgerProofs` | `LedgerTypes` | `Spec => []LedgerTypeOK` |
| | `AckedOnDisk` | `Spec => []AckedIsOnDisk` |
| | `BroadcastsInOrder` | `Spec => []PublishedInOrder` |
| | `NoSecondNotice` | `Spec => []NotifiedOnce` |
| `AgentWorkerProofs` | `WorkerTypes` | `Spec => []WorkerTypeOK` |
| | `RemovalIsLast` | `Spec => []NoEventAfterRemoval` |
| | `WorkerCurrent` | `Spec => []WorkerIsCurrent` |
| `BootstrapProofs` | `BootstrapTypes` | `Spec => []TypeOK` |
| | `OneOwner` | `Spec => []ServingIsOwner` |
| | `NoLiveSocketRemoved` | `Spec => []OwnerFindsNoServer` |
| | `RunningRecordsStand` | `Spec => []RunningRecordStands` |

### Persistence

From `ConstantsAssumption` (sizes are positive, the bounds are naturals), for every set
of sessions and sizes.

*Types.* `TypeOK` is not inductive: `drain` and the retry requeue the retained
finals in some listing of the set, which exists only if the set is finite. `TypeInv`
adds `IsFiniteSet(pending_final)`. Lemmas say what `Append`, `Tail`, `\o`, dropping
an index and listing do to the elements of a sequence; the rest of the proof never
looks at positions.

*Honesty and no resurrection.* Neither is inductive, because both depend on what the
writer knows in the middle of a write. `IInv` adds three facts. `Shape`: `metadata`
holds one record per session, retained records are finals, and the writer holds at most
one job, only where it executes one. `RemovalsMarked`: whoever is about to delete a
record (in `removing`, queued or in hand) works on a session that is already marked
removed, and so is every deleted one. `WriterKnows`: a writer that has begun a write
holds a revision no older than what was reported, of a session whose manifest is not
deleted; one that ended without an error left its revision covered or its session
removed. The second is why the order in `remove` (mark first, queue behind the queued
writes) matters; the third is `write_revision`'s check.

*Finals.* `FinalNeverLost` is inductive relative to `IInv`. The lemma `RetainCovers`
is the step that matters: retaining a failed final never drops a newer one. What the
writer of a dropped service still retains when it returns is given up (`GivenUp`).

*Drain.* `DrainInv` follows what a drain answers for: before its barrier, in the
writer's hand, or retained where its last look finds it. A retained record is safe there
only while the retry cannot requeue it behind the barrier, which is where `~SlowDrain`
is used: a writer that fell asleep inside the drain outlasts it when the draining thread
is not held up for a whole retry interval. Without it the property is false
([Disagreements](#disagreements)).

*The byte counter.* `queued_bytes` is kept by additions and saturating subtractions in
every operation of the service; `QueuedBytesExact` compares it with what is there. It is
inductive with `IInv` and the finiteness of `metadata` (`BytesInv`). One lemma per way a
queue changes (a job appended, taken, dropped by index, a listing of the retained finals
appended, metadata replaced) says what becomes of the sum; that no saturating
subtraction ever saturates follows, because what is taken off is part of the sum.

*Sums.* A queue's bytes are a sum of the community modules, a recursion over the subsets
of a set. The library's induction theorems cannot be instantiated here, so `SumProofs`
argues by the least counterexample (`LeastNumber`): the recursive function exists on all
subsets with up to n elements, any element can be split off first (`SumSplit`), hence a
sum over `1..n` grows by its last value (`SumToNext`), splits where two parts are joined
(`SumToJoin`) and loses its first value with the head of a queue (`SumToRest`).

*Refinement.* The map is `file <- disk, reported <- written, promised <- acked,
closing <-` the sessions marked removed, `gone <- deleted`. The files themselves are the
abstract state, so a late revision written over a reported one would be a step the
abstract store does not have: `WriterKnows` is what excludes it. Only `MarkRemoved`,
`WriteSucceeds`, `WriteFails`, `SkipRevision` and `ExecuteRemove` change the image.

### Session host

From `ConstantsAssumption` (the adopted sessions are sessions, the bounds are naturals,
the name that means no launcher is not a launcher), for every set of sessions and
threads and any number of generations.

*One session thread.* `RuntimeInv` relates the cells of a runtime to its child: an exit
is recorded only of a dead child, one that is settled (`exit` without `descendants`) has
no descendants left and was published, a failed start has no child. `Evolves` is what
every step but the launch itself does to the cells: a thread neither begins nor starts
again, a failed start stays failed, a runtime that is not open (may own nothing) stays
so. `SessionCells`, `LauncherCells` and `StopperCells` show it once per actor; all that
follows uses `Evolves` and never opens a runtime action again.

*The registry.* `NothingOrphaned` and `ExitedIsDead` are not inductive: what keeps a
process in the books while its record is between two critical sections is the thread
that owns the launch. `RegistryInv` says who answers. `LauncherInv`: from admission to
commit or failure a launcher's session is present, of this host, at the launcher's
generation, and shows the launcher's launch; its session thread is as far as it is.
`CreatorInv`: a session under creation is known to nobody else. `BookInv`: every launch
has its launcher, every open runtime is of the current generation and in the record's
slot unless its launch is pending, a record that says exited has none. `StopperInv`: a
stop that reports success saw a settled runtime. Two launchers are then never on one
session at once (`SoleLauncher`, `SoleRestart`), so `LaunchFrame` leaves one record and
one launcher per step to look at, and `QuietStep` covers the steps that launch nothing.

*Launches.* `LaunchedOnce` follows from `RegistryInv`: a spawn meets a generation whose
thread was never started. `QueueIsBounded` adds that only an admission adds to the
queue, one launch at a time (`QueueGrows`).

*Running records.* `RunningInv` says more than `RunningIsCurrent`: no launch is pending,
the slot is the generation, and an exit that was published has its notice on the way
until the notice changes the record. It speaks of sessions outside `undone`: the rollback
of a restart puts back a record that may be stale, and the next committed launch makes
the record current again. `HistoryStep` types the history variables.

*Shutdown.* `DownInv` rests on `NothingNew`: while the host refuses launches no step
engages a session (gives it a launch or an open runtime), and the generation of a
process does not change. A shutdown therefore starts with every engaged session in
`pending`, and a stop that works for it and reports success leaves its session
disengaged (`StopHonest`: what it stopped was the only process the session could have).
Several threads may ask at once. A shutdown *relies* on the flag from its beginning to
its answer (`Relies`); `DownInv` holds for each that does, and for the host that is down,
until another requester lifts the flag (`lifted`). A shutdown that begins with nobody
else relying on the flag starts afresh.

### Output

From `OutputAssumption` and `FollowerAssumption` (capacities and bounds are naturals,
the capacities that must be are positive).

`HostInv` says for one session where each byte is that was read: in the reader's chunk,
in the inbox, in the slice being fed, or published, one run of bytes after the other
(`FlowInv`, `ContentInv`); which notices can still be on the channel (`MessagesInv`); in
which order the child, its terminal and the record end (`EndInv`); that a checkpoint is
answered once and is of one moment (`ReplyInv`). The lemmas of `OutputStreamProofs`
about `Bytes`, chains of chunks and slices carry it through `Push`, `take_slice` and
the tail's eviction.

`PaneInv` adds the connection and the pane. `WireInv`: the frame in hand and the frames
on the wire lead without gap or overlap from where the follower stands to where the
connection thread stands, or do so up to the signal that ends the connection. `MirrorInv`: the
mailbox continues the mirror message by message, a checkpoint anew from the first byte;
it holds as long as no queued checkpoint was replaced. `CoverInv`: every byte before
the follower's position is in the mirror or on its way there, which also holds
after a replacement, and is what `EndShowsAll` needs.

*Ranges and counts.* `PaneRange` adds the ranges of every variable (`HostRange`,
`PlaceTypes`, `CarryTypes`) and two counts. `InboxInv`: `inbox_bytes` is the sum of the
chunks, and exceeds its budget only with a single chunk, which `push` lets into an empty
inbox; that `take_slice` never leaves such a chunk behind is the step that matters.
`PoolInv`: the free buffers and the queued output messages add up to the pool.

*What every thread is owed.* `MirrorCatchesUp` is liveness and out of the prover's
reach, but it can fail only if some thread sleeps while another owes it nothing, and
that nobody is forgotten is safety. `OwedInv` says it for each of the four waits.
`NoticeInv`: an inbox that holds bytes is marked notified, and a mark has its message in
the channel, the reader about to send it, or a session thread that comes back by itself
(`output_pending`, or a slice in hand that left chunks behind). `WakeInv`: the stream
never moves or ends without a publication, so who sleeps on the newest one has nothing
to send. `AnswerInv`: a checkpoint that was asked for and not answered is in the
channel, which the end of the session thread empties with refusals. `PoolInv` covers the
follower that waits for a buffer. These need no fairness and hold for all capacities.
`InboxInv`, `NoticeInv`, `AnswerInv`, `WakeInv` and `PoolInv` were checked by TLC on the
instance of `follower` first.

### Agent ledger and worker

From `RecordAssumption`, `LedgerAssumption` and `WorkerAssumption` (the bounds).

`FlushInv` orders the hook revisions that anyone knows of: receipts, waiting requests
and queued snapshots are at or below the record, snapshots are queued in order, a leader
of the critical flush covers those who joined it, and what was answered durable is on
disk. It ends with a rollback that takes revisions back (`undone`), as `AckedIsOnDisk`
does. `BroadcastInv` says that the event being published is the newest of the record and
that the receipts are the most recent broadcasts, so that a retry within their number
is recognised; which generation the receipts are of while a restart is being written
(`LedgerGeneration`) is the part that could be wrong.

`RemovalInv`: the removed mark is set under the ledger, so no event is on its way to the
bus, and the notice follows the mark. `CurrentInv`: nothing on the stream, in the header
or in the worker is ahead of the record, and an open stream has what the worker lacks,
or somebody still owes it a row (`StreamComplete`).

### Bootstrap

From `BootstrapAssumption` (the bounds are naturals, there is a host), for every set of
controllers and every bound on hosts, calls and faults.

`ServingIsOwner`, `OwnerFindsNoServer` and `RunningRecordStands` are not inductive:
each looks at one step of
a host, and what protects it is the lock taken steps before. `OwnerInv` says for every
step what the owner holds: from `opening` to `leaving` the lock, from `binding` to
`retiring` the instance record, while `serving` or `stopping` the socket path; a socket
file belongs to a host that serves or stops, or to a dead one (`SocketOfServerOrDead`,
which is why removing a socket that refuses connections is right); a clear path stays
clear until the bind. Two hosts can then never be past the lock together, so no step of
one disturbs what the other holds. The controllers enter only where they start, kill or
stop a host; `ControllersTypeOK` says that the child and the connection they act on are
hosts. `IInv` joins the two with `BootInv` for the bootstrap lock. `RunningRecordStands`
is a conjunct of `OwnerInv`: only the host that holds the lock writes the record, and
its memory and its file differ only while its own write is under way.

### Only model-checked

All liveness (`FinalLands`, `MirrorCatchesUp`, `LaunchResolves`, `ShutdownEnds`,
`EveryEventAnswered`, `WorkerSettles` and those of `Bootstrap`): TLAPS does not reach
fairness. Every invariant and action property of the passing runs has a theorem.

## Disagreements

Kept as runs that end in a violation:

- `host_completed`: `commit_launch` clears `record.completed` after the child of that
  launch may have ended and been recorded (`host.rs:1891`).
- `follower_replaced`: a queued `RestoreCheckpoint` is overwritten where it stands, so
  the output behind it, already part of the new snapshot, is processed twice
  (`mailbox.rs:175`).

Seen with TLC while modelling and not kept as runs:

- `submit` replaces queued metadata without comparing revisions
  (`persistence.rs:255`): of two concurrent updates the older can replace the newer, where
  ARCHITECTURE.md:1088 says "coalesced to the latest revision per session";
- a retained final is requeued only when the writer's wait of five seconds runs out, and
  every notification begins a fresh wait (`persistence.rs:515-530`): jobs that come more
  often than that postpone the retry for ever, where ARCHITECTURE.md:1094-1096 says
  "retried every five seconds"; hence `Lulls` in `FinalLands`;
- a file can go back: when revision 2 replaced the manifest and its hook seed failed
  (`persistence.rs:652`), nothing was reported, and revision 1 arriving later is written
  over it (`persistence.rs:629`), where ARCHITECTURE.md:1105 says "the writer discards a
  revision older than the one already on disk"; `ReportedIsOnDisk` and `RecordStore`
  promise only that a file never falls behind what was reported;
- a Critical caller whose session is marked removed hears Ok although its revision was
  skipped (`persistence.rs:586-588`, `626-628`);
- finals still retained when the service is dropped are given up: `writer_loop` returns
  without a look at `pending_final` (`persistence.rs:512-541`);
- `commit_launch` says running in memory before it writes, and a write that fails is only
  logged (`host.rs:1903-1905`): the file may go on saying starting, which an adopting
  host treats alike;
- a restart copies the manifest before it holds the ledger (`host.rs:1408-1429`), and
  its rollback (`host.rs:1550-1556`) takes back an event that was meanwhile accepted,
  written and answered durable; `AckedIsOnDisk` and `PublishedInOrder` exempt such a
  rollback by name (`undone`);
- `persist` announces the row of the next generation also when its write failed
  (`host.rs:2588-2594`); after the rollback the worker ignores the rows, snapshots and
  events of the generation the session is really at (`state.rs:544-550`) until a restart
  succeeds. ARCHITECTURE.md:1026 calls a restart transactional; `WorkerIsCurrent` and
  `WorkerSettles` exempt it by name (`failed_restart`);
- rows of one generation are announced in any order, and one that was read before a
  removal can bring the session back in the worker until its next poll
  (`host.rs:862-867`): hence `WorkerSettles` is a liveness property;
- `stop_incompatible_host` stops whichever host of the home answers
  (`bootstrap.rs:243-256`): when another controller has replaced the incompatible host
  meanwhile, a compatible one is stopped with its sessions, and its wait may report "it
  still answers" although the old host is gone;
- a child started while the old host retires can find the owner lock held for all of its
  500 ms and exit, which the caller reports as an early exit; and an adoption that says
  `started` may name a host somebody else started;

- the byte budget is not a bound on the queue: requeued finals and larger metadata
  that replaces smaller go past it (`persistence.rs:431`), and a Critical record may
  use room that final reservations count on (`persistence.rs:326`);
- the error of a session is cleared by a success of an older revision while a failed
  final is still retained (`persistence.rs:578`);
- a drain held up for a whole retry interval between its two critical sections can
  return success while a final is being retried (`persistence.rs:449`): with
  `SlowDrain = TRUE`, `DrainOkIsDurable` fails;
- `stop_until` may file unverified over an exited record (`host.rs:2008`), and a
  cancelled launch committed as unverified after its child has ended stays so
  (`host.rs:1874`);
- two shutdown threads share `shutting_down`; one that is abandoned, even one that was
  refused because the other is under way, lifts the refusal the other relies on
  (`host.rs:2450`), and a session can be launched on a host that then says it is down:
  without its premise `~lifted`, `DownOwnsNothing` fails in `host_live`;
- a restart whose record cannot be written restores the manifest it captured, which
  may say running of a child that has ended since (`host.rs:1553`): without the exemption
  of `undone`, `RunningIsCurrent` fails in `host_own`;
- `OutputStream::wake` does not make `wait_past` return; the waiter only looks again.

## What is left out

- `Persistence`: the closure of an exclusive job (it may itself commit a final when
  the text cannot be written); identities are never reused, as the application draws
  them at random. The runs assume `SlowDrain = FALSE`.
- `SessionHost`: panics of a session thread, dropping the host, handles nobody
  attends, workspaces. The scan of `fallback_owner` is part of `Await`; the ledger's
  removed flag is the absence of the record; `publish_exit` sets its cells in one step
  apart from the order noted at `RecordExit`.
- `OutputStream`: the channel's capacity, panics, the refusal of commands by an
  unverified session. Filing the completed record is one step with closing the inbox:
  both are the session thread, and nobody reads the one without the other.
- `OutputFollower`: input, resize and appearance messages, hence the 256 control
  places; staging and size limits of a checkpoint (a refusal is a lost link); an engine
  that rejects a snapshot. Buffers come back per chunk, not per batch. The server's
  shutdown flag: when it is set the streams have already ended.
- `AgentRecord` and its extensions: one session; the text of an event and its activity;
  a launch that fails after its restart was written; manifests of a previous host, whose
  events are refused by instance. `AgentLedger` merges the wait on the condition variable
  with the look that follows it.
- `Bootstrap`: named pipes of Windows, a home path that is not a socket, endpoints of
  other homes, the preflight of executables, a shutdown that is refused (it leaves the
  host serving, which is what not stopping is). One session stands for all.
- Panics of the session thread (`runtime.rs:876-890`): the rest of a slice is lost and
  `notified` stays set, so output stops until the final drain while the record may later
  say complete. Every output property would have to exempt it.
- The components marked `not_modelled` in `PROJECT.json`, with their reasons.

## Plan

Order: the parts where a mistake loses processes or data first.

1. Done: `Persistence`, `RecordStore`; `SessionHost`; `OutputStream` and
   `OutputFollower`; `AgentRecord`, `AgentLedger`, `AgentWorker`; `Bootstrap`; the
   proofs of all their safety properties, and of what `MirrorCatchesUp` needs that is
   safety.
2. Proofs of the same kind under the other liveness properties: who owes a waiting
   launch its outcome, a waiting event its answer, a retained final its retry.
3. Exclusive jobs that commit a final from the writer thread, composed with
   `Persistence`.
4. Agent write approvals; checkpoint staging with its budget; connection slots.
5. Desktop: host link intents, stop-all with retries, the debounced session file, the
   configuration watcher; text diff against a reference definition.
