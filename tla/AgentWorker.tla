---------------------------- MODULE AgentWorker ----------------------------
(***************************************************************************)
(* How the paneflow-serve worker follows a session of AgentRecord: event   *)
(* frames and rows of the session go through the agent bus to the worker,  *)
(* which subscribes before it asks for a snapshot, applies what the stream *)
(* and the snapshots say to its own entry, polls a snapshot from time to   *)
(* time, and starts again when its stream was dropped.                     *)
(*                                                                         *)
(* The subscription's queue, the connection and the worker's own queue are *)
(* one queue, bus.frames: each of the three ends the stream when it is     *)
(* full or broken. Requests and writes are those of AgentLedger: here any  *)
(* event may be accepted and any write may fail.                           *)
(***************************************************************************)
EXTENDS AgentRecord

CONSTANTS
    QueueSlots,     \* SUBSCRIBER_QUEUE_SLOTS and FRAME_QUEUE_SLOTS
    MaxEvents,      \* bound on accepted events
    MaxDrops        \* bound on connections lost

ASSUME WorkerAssumption ==
    QueueSlots \in Nat \ {0} /\ MaxEvents \in Nat /\ MaxDrops \in Nat

VARIABLES
    announce,   \* the row each thread still has to broadcast
    bus,        \* the worker's subscription
    link,       \* "down", "subscribed" or "following"
    header,     \* the snapshot that opens the stream, not applied yet
    worker,     \* the worker's entry for the session
    drops

vars == <<recordVars, announce, bus, link, header, worker, drops>>
-----------------------------------------------------------------------------
Poster == "poster"
SessionThread == "session"
Announcers == {Restarter, SessionThread}

\* The AgentSnapshotEntry of the record.
Row(m) == [generation |-> m.generation, live |-> m.live, revision |-> m.last_hook.revision]
NoRow == [generation |-> 0, live |-> FALSE, revision |-> 0]

EventFrame(m) ==
    [type |-> "event", generation |-> m.generation, revision |-> m.last_hook.revision]
SessionFrame(row) == [type |-> "session", row |-> row]
RemovedFrame == [type |-> "session_removed"]

Quiet == [step |-> "none", row |-> NoRow]
Due == [step |-> "due", row |-> NoRow]
NoHeader == [taken |-> FALSE, present |-> FALSE, row |-> NoRow]
Unknown == [known |-> FALSE, generation |-> 0, live |-> FALSE, hook_revision |-> 0]
-----------------------------------------------------------------------------
(***************************************************************************)
(* The host: AgentBus, announce_session_change and those who call them     *)
(***************************************************************************)

\* As Broadcast, with the frame left out instead of the subscriber.
BroadcastSkips(frame) ==
    bus' = IF bus.open /\ Len(bus.frames) < QueueSlots
           THEN [bus EXCEPT !.frames = Append(@, frame)] ELSE bus

\* AgentBus::broadcast: a subscriber whose queue is full is dropped; what it
\* holds stays readable.
Broadcast(frame) ==
    bus' = IF ~bus.open THEN bus
           ELSE IF Len(bus.frames) < QueueSlots
                THEN [bus EXCEPT !.frames = Append(@, frame)]
                ELSE [bus EXCEPT !.open = FALSE]

workerVars == <<link, header, worker, drops>>

AcceptEvent ==
    /\ manifest.hook_revision < MaxEvents
    /\ AcceptHook(Poster, Absent)
    /\ UNCHANGED <<announce, bus, workerVars>>

\* The frame was built from the manifest that the event made, which only the
\* holder of the ledger could give another hook.
PublishEvent ==
    /\ holder = Poster
    /\ Broadcast(EventFrame(manifest))
    /\ ReleaseLedger
    /\ UNCHANGED <<announce, workerVars>>

\* announce_session_change: the row is read when the revision is submitted and
\* broadcast when the locks are gone.
TakeRow(t) ==
    /\ announce[t].step = "due"
    /\ announce' = [announce EXCEPT ![t] =
                        IF present THEN [step |-> "taken", row |-> Row(manifest)] ELSE Quiet]
    /\ UNCHANGED <<recordVars, bus, workerVars>>

SendRow(t) ==
    /\ announce[t].step = "taken"
    /\ Broadcast(SessionFrame(announce[t].row))
    /\ announce' = [announce EXCEPT ![t] = Quiet]
    /\ UNCHANGED <<recordVars, workerVars>>

\* persist announces the record whatever the outcome of the write.
RestartPersists ==
    /\ restart.pc = "writing"
    /\ restart' \in {[restart EXCEPT !.pc = outcome] : outcome \in {"ok", "err"}}
    /\ announce' = [announce EXCEPT ![Restarter] = Due]
    /\ UNCHANGED <<manifest, present, holder, removed, removal, failed_restart, undone,
                   bus, workerVars>>

RestartSettles ==
    /\ announce[Restarter] = Quiet
    /\ RestartCommit \/ RestartReturn
    /\ UNCHANGED <<announce, bus, workerVars>>

RestartUndone ==
    /\ announce[Restarter] = Quiet
    /\ RestartRollback
    /\ announce' = [announce EXCEPT ![Restarter] = Due]
    /\ UNCHANGED <<bus, workerVars>>

ExitAnnounced ==
    /\ announce[SessionThread] = Quiet
    /\ Exit
    /\ announce' = [announce EXCEPT ![SessionThread] = Due]
    /\ UNCHANGED <<bus, workerVars>>

\* The removal notice follows the mark, without the ledger.
RemoveAnnounce ==
    /\ removal = "marked"
    /\ Broadcast(RemovedFrame)
    /\ removal' = "done"
    /\ UNCHANGED <<manifest, present, holder, removed, restart, failed_restart, undone,
                   announce, workerVars>>

RestartThread ==
    \/ RestartPersists \/ RestartSettles \/ RestartUndone
    \/ (RestartRefused \/ RestartBegin) /\ UNCHANGED <<announce, bus, workerVars>>

RemoveThread ==
    \/ RemoveAnnounce
    \/ RemoveMark /\ UNCHANGED <<announce, bus, workerVars>>
-----------------------------------------------------------------------------
(***************************************************************************)
(* The worker's entry                                                      *)
(***************************************************************************)

\* agent_snapshot, for the one session.
HostSnapshot ==
    [taken |-> TRUE, present |-> present, row |-> IF present THEN Row(manifest) ELSE NoRow]

\* apply_core_event: only a newer revision of the generation the entry is at.
ApplyEvent(w, generation, revision) ==
    IF w.known /\ revision > w.hook_revision /\ generation = w.generation
    THEN [w EXCEPT !.hook_revision = revision] ELSE w

\* merge_core_row: a new generation starts without hook state.
MergeRow(w, row) ==
    [known |-> TRUE, generation |-> row.generation, live |-> row.live,
     hook_revision |-> IF w.known /\ w.generation = row.generation THEN w.hook_revision ELSE 0]

\* apply_core_rows, for a row: an older generation is ignored, and the last hook
\* of the row is applied like an event.
ApplyRow(w, row) ==
    IF w.known /\ row.generation < w.generation THEN w
    ELSE ApplyEvent(MergeRow(w, row), row.generation, row.revision)

\* As ApplySnapshot, without the pruning.
SnapshotKeeps(w, snapshot) ==
    IF snapshot.present THEN ApplyRow(w, snapshot.row) ELSE w

\* The same for a snapshot, which also forgets what it does not list.
ApplySnapshot(w, snapshot) ==
    IF snapshot.present THEN ApplyRow(w, snapshot.row) ELSE Unknown

\* apply_frame: an event of a session the worker does not know makes it ask for
\* a snapshot first.
ApplyFrame(w, frame) ==
    CASE frame.type = "event" ->
            ApplyEvent(IF w.known THEN w ELSE ApplySnapshot(w, HostSnapshot),
                       frame.generation, frame.revision)
      [] frame.type = "session" -> ApplyRow(w, frame.row)
      [] frame.type = "session_removed" -> Unknown
-----------------------------------------------------------------------------
(***************************************************************************)
(* The stream                                                              *)
(***************************************************************************)

\* stream_agent_follow: the subscription comes before the snapshot.
Subscribe ==
    /\ link = "down"
    /\ bus' = [open |-> TRUE, frames |-> <<>>]
    /\ link' = "subscribed"
    /\ UNCHANGED <<recordVars, announce, header, worker, drops>>

TakeHeader ==
    /\ link = "subscribed"
    /\ header' = HostSnapshot
    /\ link' = "following"
    /\ UNCHANGED <<recordVars, announce, bus, worker, drops>>

ApplyHeader ==
    /\ header.taken
    /\ worker' = ApplySnapshot(worker, header)
    /\ header' = NoHeader
    /\ UNCHANGED <<recordVars, announce, bus, link, drops>>

TakeFrame ==
    /\ link = "following" /\ ~header.taken /\ bus.frames # <<>>
    /\ worker' = ApplyFrame(worker, Head(bus.frames))
    /\ bus' = [bus EXCEPT !.frames = Tail(@)]
    /\ UNCHANGED <<recordVars, announce, link, header, drops>>

\* The stream of a dropped subscriber ends behind its last frame.
StreamEnds ==
    /\ link = "following" /\ ~header.taken /\ ~bus.open /\ bus.frames = <<>>
    /\ link' = "down"
    /\ UNCHANGED <<recordVars, announce, bus, header, worker, drops>>

\* The connection is lost with what was not received yet.
LoseConnection ==
    /\ link = "following" /\ bus.open /\ drops < MaxDrops
    /\ drops' = drops + 1
    /\ \E n \in 0..Len(bus.frames) :
           bus' = [open |-> FALSE, frames |-> SubSeq(bus.frames, 1, n)]
    /\ UNCHANGED <<recordVars, announce, link, header, worker>>

\* refresh_core_snapshot: the pump asks and applies before it takes a frame, also
\* while the header is still with the thread that follows the core.
Poll ==
    /\ worker' = ApplySnapshot(worker, HostSnapshot)
    /\ UNCHANGED <<recordVars, announce, bus, link, header, drops>>
-----------------------------------------------------------------------------
\* The worker has rebuilt the session from its manifest file.
Init ==
    /\ RecordInit
    /\ announce = [t \in Announcers |-> Quiet]
    /\ bus = [open |-> FALSE, frames |-> <<>>]
    /\ link = "down" /\ header = NoHeader /\ drops = 0
    /\ worker = [known |-> TRUE, generation |-> 1, live |-> TRUE, hook_revision |-> 0]

Pump == Subscribe \/ TakeHeader \/ ApplyHeader \/ TakeFrame \/ StreamEnds

Announcer(t) == TakeRow(t) \/ SendRow(t)

Next ==
    \/ AcceptEvent \/ PublishEvent
    \/ \E t \in Announcers : Announcer(t)
    \/ RestartThread \/ ExitAnnounced \/ RemoveThread
    \/ (RestartCapture \/ RemoveBegin) /\ UNCHANGED <<announce, bus, workerVars>>
    \/ Pump \/ LoseConnection \/ Poll

Spec == Init /\ [][Next]_vars

\* The threads of the host and of the worker go on; the poll is periodic.
FairSpec ==
    /\ Spec
    /\ WF_vars(PublishEvent) /\ WF_vars(RestartThread) /\ WF_vars(RemoveThread)
    /\ \A t \in Announcers : WF_vars(Announcer(t))
    /\ WF_vars(Pump) /\ WF_vars(Poll)
-----------------------------------------------------------------------------
(***************************************************************************)
(* Properties                                                              *)
(***************************************************************************)

\* Nothing is on its way to the worker.
CaughtUp ==
    /\ link = "following" /\ ~header.taken /\ bus.open /\ bus.frames = <<>>
    /\ holder = NoThread /\ \A t \in Announcers : announce[t] = Quiet

\* A worker that follows and has nothing left to read knows the newest accepted
\* event of the session's current generation: none falls between the snapshot
\* and the subscription, behind a dropped stream or into the generation before.
WorkerIsCurrent ==
    CaughtUp /\ present /\ ~failed_restart =>
        /\ worker.known /\ worker.generation = manifest.generation
        /\ worker.hook_revision = manifest.last_hook.revision

\* No event frame of a removed session follows its removal notice.
NoEventAfterRemoval ==
    \A i, j \in DOMAIN bus.frames :
        bus.frames[i].type = "session_removed" /\ bus.frames[j].type = "event" => j < i

\* Rows of one generation are announced in any order, and a late one can bring
\* a removed session back; the polled snapshot puts both right.
WorkerSettles ==
    []<>(\/ failed_restart
         \/ /\ present = worker.known
            /\ present => Row(manifest) = [generation |-> worker.generation, live |-> worker.live,
                                           revision |-> worker.hook_revision])
=============================================================================
