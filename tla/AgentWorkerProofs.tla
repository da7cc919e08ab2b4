------------------------- MODULE AgentWorkerProofs -------------------------
(***************************************************************************)
(* What a follower of a session may rely on, for any number of events,     *)
(* restarts, lost connections and queue slots.                             *)
(***************************************************************************)
EXTENDS AgentWorker, TLAPS

-----------------------------------------------------------------------------
(***************************************************************************)
(* Types                                                                   *)
(***************************************************************************)

Hook == [revision : Nat, emitted_at_ms : Nat]
Manifest == [generation : Nat, live : BOOLEAN, hook_revision : Nat, last_hook : Hook]
Rows == [generation : Nat, live : BOOLEAN, revision : Nat]
Frames ==
    [type : {"event"}, generation : Nat, revision : Nat]
        \cup [type : {"session"}, row : Rows] \cup [type : {"session_removed"}]
Entries == [known : BOOLEAN, generation : Nat, live : BOOLEAN, hook_revision : Nat]

RecordTypes ==
    /\ manifest \in Manifest
    /\ present \in BOOLEAN /\ removed \in BOOLEAN /\ failed_restart \in BOOLEAN
    /\ holder \in {Poster, Restarter, NoThread}
    /\ restart \in [pc : {"idle", "captured", "writing", "ok", "err", "undone"},
                    prior : Manifest]
    /\ removal \in {"no", "unmapped", "marked", "done"}

StreamTypes ==
    /\ announce \in [Announcers -> [step : {"none", "due", "taken"}, row : Rows]]
    /\ bus \in [open : BOOLEAN, frames : Seq(Frames)]
    /\ link \in {"down", "subscribed", "following"}
    /\ header \in [taken : BOOLEAN, present : BOOLEAN, row : Rows]
    /\ worker \in Entries

WorkerTypeOK == RecordTypes /\ StreamTypes
-----------------------------------------------------------------------------
(***************************************************************************)
(* The removal                                                             *)
(***************************************************************************)

\* The mark is set under the ledger, so that no event is on its way to the bus,
\* and the notice follows the mark.
RemovalOrdered ==
    /\ removal = "no" <=> present
    /\ removed <=> removal \in {"marked", "done"}
    /\ removed => holder # Poster
    /\ \A i \in DOMAIN bus.frames : bus.frames[i].type = "session_removed" => removed

RemovalInv == RemovalOrdered /\ NoEventAfterRemoval
-----------------------------------------------------------------------------
(***************************************************************************)
(* The worker's entry                                                      *)
(***************************************************************************)

\* The ledger is the restart's until its row is broadcast.
RestartHoldsLedger ==
    /\ holder = Restarter <=> restart.pc \in {"writing", "ok", "err", "undone"}
    /\ announce[Restarter].step # "none" => restart.pc \in {"ok", "err", "undone"}
    /\ manifest.last_hook.revision <= manifest.hook_revision
    /\ restart.prior.last_hook.revision <= restart.prior.hook_revision

\* What says this generation and revision is not ahead of the record.
Behind(generation, revision) ==
    \/ generation < manifest.generation
    \/ generation = manifest.generation /\ revision <= manifest.last_hook.revision

\* Nobody has heard of more than the record holds.
NothingAhead ==
    /\ \A i \in DOMAIN bus.frames :
          /\ bus.frames[i].type = "event" =>
                Behind(bus.frames[i].generation, bus.frames[i].revision)
          /\ bus.frames[i].type = "session" =>
                Behind(bus.frames[i].row.generation, bus.frames[i].row.revision)
    /\ \A t \in Announcers : announce[t].step = "taken" =>
          Behind(announce[t].row.generation, announce[t].row.revision)
    /\ header.taken => Behind(header.row.generation, header.row.revision)
    /\ Behind(worker.generation, worker.hook_revision)

\* As long as the session is there, nothing tells the worker to forget it.
KnownWhilePresent ==
    /\ worker.known
    /\ header.taken => header.present
    /\ \A i \in DOMAIN bus.frames : bus.frames[i].type # "session_removed"

\* The worker is at the record's generation, or is before it takes frame n + 1.
HasGeneration(n) ==
    \/ worker.generation = manifest.generation
    \/ header.taken /\ header.row.generation = manifest.generation
    \/ \E j \in 1..n : /\ bus.frames[j].type = "session"
                       /\ bus.frames[j].row.generation = manifest.generation

\* The row of the new generation is not on the bus yet.
RowOwed ==
    \/ restart.pc = "writing" \/ announce[Restarter].step = "due"
    \/ /\ announce[Restarter].step = "taken"
       /\ announce[Restarter].row.generation = manifest.generation

\* The newest event is with the worker, or on its way behind the generation.
HasNewest ==
    \/ manifest.last_hook.revision = 0
    \/ holder = Poster
    \/ /\ worker.generation = manifest.generation
       /\ worker.hook_revision = manifest.last_hook.revision
    \/ /\ header.taken /\ header.row.generation = manifest.generation
       /\ header.row.revision = manifest.last_hook.revision
    \/ \E i \in DOMAIN bus.frames :
          /\ bus.frames[i].type = "event"
          /\ bus.frames[i].generation = manifest.generation
          /\ bus.frames[i].revision = manifest.last_hook.revision
          /\ HasGeneration(i - 1)

\* An open stream owes the worker nothing that is not on its way.
StreamComplete ==
    link = "following" /\ bus.open => (RowOwed \/ HasGeneration(Len(bus.frames))) /\ HasNewest

CurrentInv ==
    /\ RestartHoldsLedger
    /\ header.taken => link = "following"
    /\ present => KnownWhilePresent
    /\ present /\ ~failed_restart => NothingAhead /\ StreamComplete
-----------------------------------------------------------------------------
(***************************************************************************)
(* Proof of the types                                                      *)
(***************************************************************************)

\* The values the actions put into the state.
LEMMA ValuesTyped ==
    /\ NoHook \in Hook /\ FirstManifest \in Manifest
    /\ NoRow \in Rows
    /\ Quiet \in [step : {"none", "due", "taken"}, row : Rows]
    /\ Due \in [step : {"none", "due", "taken"}, row : Rows]
    /\ NoHeader \in [taken : BOOLEAN, present : BOOLEAN, row : Rows]
    /\ Unknown \in Entries
    /\ \A m \in Manifest : Row(m) \in Rows /\ EventFrame(m) \in Frames
    /\ \A row \in Rows : SessionFrame(row) \in Frames
    /\ RemovedFrame \in Frames
<1>1. NoHook \in Hook
  BY DEF NoHook, Hook, Absent
<1>2. FirstManifest \in Manifest
  BY <1>1 DEF FirstManifest, Manifest
<1>3. NoRow \in Rows
  BY DEF NoRow, Rows
<1>4. /\ Quiet \in [step : {"none", "due", "taken"}, row : Rows]
      /\ Due \in [step : {"none", "due", "taken"}, row : Rows]
      /\ NoHeader \in [taken : BOOLEAN, present : BOOLEAN, row : Rows]
  BY <1>3 DEF Quiet, Due, NoHeader
<1>5. Unknown \in Entries
  BY DEF Unknown, Entries
<1>6. ASSUME NEW m \in Manifest PROVE Row(m) \in Rows /\ EventFrame(m) \in Frames
  <2>1. m.generation \in Nat /\ m.live \in BOOLEAN /\ m.last_hook.revision \in Nat
    BY DEF Manifest, Hook
  <2> QED
    BY <2>1 DEF Row, Rows, EventFrame, Frames
<1>7. \A row \in Rows : SessionFrame(row) \in Frames
  BY DEF SessionFrame, Frames
<1>8. RemovedFrame \in Frames
  BY DEF RemovedFrame, Frames
<1> QED
  BY <1>1, <1>2, <1>3, <1>4, <1>5, <1>6, <1>7, <1>8

\* AgentBus::broadcast appends the frame, drops the subscriber or finds none.
LEMMA BroadcastShape ==
    ASSUME StreamTypes, NEW frame \in Frames, Broadcast(frame)
    PROVE  /\ bus' \in [open : BOOLEAN, frames : Seq(Frames)]
           /\ bus'.open => bus.open
           /\ \/ bus'.frames = bus.frames /\ (bus'.open => ~bus.open)
              \/ bus'.frames = Append(bus.frames, frame)
<1>1. bus.frames \in Seq(Frames) /\ bus.open \in BOOLEAN
  BY DEF StreamTypes
<1>2. Append(bus.frames, frame) \in Seq(Frames)
  BY <1>1
<1> QED
  BY <1>1, <1>2 DEF Broadcast, StreamTypes

\* The worker's entry stays an entry.
LEMMA ApplyTyped ==
    /\ \A w \in Entries, g, r \in Nat : ApplyEvent(w, g, r) \in Entries
    /\ \A w \in Entries, row \in Rows : ApplyRow(w, row) \in Entries
    /\ \A w \in Entries, h \in [taken : BOOLEAN, present : BOOLEAN, row : Rows] :
          ApplySnapshot(w, h) \in Entries
<1>1. \A w \in Entries, g, r \in Nat : ApplyEvent(w, g, r) \in Entries
  BY DEF ApplyEvent, Entries
<1>2. \A w \in Entries, row \in Rows : MergeRow(w, row) \in Entries
  BY DEF MergeRow, Entries, Rows
<1>3. \A w \in Entries, row \in Rows : ApplyRow(w, row) \in Entries
  BY <1>1, <1>2 DEF ApplyRow, Rows
<1> QED
  BY <1>1, <1>3, ValuesTyped DEF ApplySnapshot

\* The host's snapshot is one.
LEMMA SnapshotTyped ==
    ASSUME RecordTypes
    PROVE  HostSnapshot \in [taken : BOOLEAN, present : BOOLEAN, row : Rows]
BY ValuesTyped DEF HostSnapshot, RecordTypes

\* The steps of the host keep the types.
LEMMA HostTyped ==
    ASSUME WorkerTypeOK,
           \/ AcceptEvent \/ PublishEvent
           \/ \E t \in Announcers : Announcer(t)
           \/ RestartThread \/ ExitAnnounced \/ RemoveThread
           \/ (RestartCapture \/ RemoveBegin) /\ UNCHANGED <<announce, bus, workerVars>>
    PROVE  WorkerTypeOK'
<1>0. RecordTypes /\ StreamTypes /\ manifest \in Manifest /\ restart.prior \in Manifest
  BY DEF WorkerTypeOK, RecordTypes
<1>1. CASE AcceptEvent
  <2>1. manifest' \in Manifest
    <3>1. /\ manifest.hook_revision + 1 \in Nat
          /\ [revision |-> manifest.hook_revision + 1, emitted_at_ms |-> Absent] \in Hook
      BY <1>0 DEF Manifest, Hook, Absent
    <3> QED
      BY <1>0, <1>1, <3>1 DEF AcceptEvent, AcceptHook, Manifest
  <2> QED
    BY <1>0, <1>1, <2>1
       DEF AcceptEvent, AcceptHook, WorkerTypeOK, RecordTypes, StreamTypes, workerVars
<1>2. CASE PublishEvent
  <2>1. bus' \in [open : BOOLEAN, frames : Seq(Frames)]
    BY <1>0, <1>2, ValuesTyped, BroadcastShape DEF PublishEvent
  <2> QED
    BY <1>0, <1>2, <2>1
       DEF PublishEvent, ReleaseLedger, WorkerTypeOK, RecordTypes, StreamTypes, workerVars
<1>3. ASSUME NEW t \in Announcers, TakeRow(t) PROVE WorkerTypeOK'
  <2>1. [step |-> "taken", row |-> Row(manifest)] \in [step : {"none", "due", "taken"}, row : Rows]
    BY <1>0, ValuesTyped
  <2>2. announce' \in [Announcers -> [step : {"none", "due", "taken"}, row : Rows]]
    BY <1>0, <1>3, <2>1, ValuesTyped DEF TakeRow, StreamTypes
  <2> QED
    BY <1>0, <1>3, <2>2
       DEF TakeRow, WorkerTypeOK, RecordTypes, StreamTypes, workerVars, recordVars
<1>4. ASSUME NEW t \in Announcers, SendRow(t) PROVE WorkerTypeOK'
  <2>1. announce[t].row \in Rows
    BY <1>0 DEF StreamTypes
  <2>2. bus' \in [open : BOOLEAN, frames : Seq(Frames)]
    BY <1>0, <1>4, <2>1, ValuesTyped, BroadcastShape DEF SendRow
  <2>3. announce' \in [Announcers -> [step : {"none", "due", "taken"}, row : Rows]]
    BY <1>0, <1>4, ValuesTyped DEF SendRow, StreamTypes
  <2> QED
    BY <1>0, <1>4, <2>2, <2>3
       DEF SendRow, WorkerTypeOK, RecordTypes, StreamTypes, workerVars, recordVars
<1>5. CASE RestartPersists \/ RestartUndone
  <2>1. announce' \in [Announcers -> [step : {"none", "due", "taken"}, row : Rows]]
    BY <1>0, <1>5, ValuesTyped DEF RestartPersists, RestartUndone, StreamTypes
  <2>2. RecordTypes'
    BY <1>0, <1>5, ZenonT(40) DEF RestartPersists, RestartUndone, RestartRollback, RecordTypes
  <2> QED
    BY <1>0, <1>5, <2>1, <2>2
       DEF RestartPersists, RestartUndone, WorkerTypeOK, StreamTypes, workerVars
<1>6. CASE RestartSettles
  <2>1. RecordTypes'
    BY <1>0, <1>6 DEF RestartSettles, RestartCommit, RestartReturn, RecordTypes
  <2> QED
    BY <1>0, <1>6, <2>1 DEF RestartSettles, WorkerTypeOK, StreamTypes, workerVars
<1>7. CASE (RestartRefused \/ RestartBegin) /\ UNCHANGED <<announce, bus, workerVars>>
  <2>1. RecordTypes'
    <3>1. CASE RestartRefused
      BY <1>0, <3>1 DEF RestartRefused, RecordTypes
    <3>2. CASE RestartBegin
      <4>1. manifest.generation + 1 \in Nat /\ NoHook \in Hook
        BY <1>0, ValuesTyped DEF Manifest
      <4>2. manifest' \in Manifest
        BY <1>0, <3>2, <4>1 DEF RestartBegin, Manifest
      <4> QED
        BY <1>0, <3>2, <4>2 DEF RestartBegin, RecordTypes
    <3> QED
      BY <1>7, <3>1, <3>2
  <2> QED
    BY <1>0, <1>7, <2>1 DEF WorkerTypeOK, StreamTypes, workerVars
<1>8. CASE ExitAnnounced
  <2>1. manifest' \in Manifest
    BY <1>0, <1>8 DEF ExitAnnounced, Exit, Manifest
  <2>2. announce' \in [Announcers -> [step : {"none", "due", "taken"}, row : Rows]]
    BY <1>0, <1>8, ValuesTyped DEF ExitAnnounced, StreamTypes
  <2> QED
    BY <1>0, <1>8, <2>1, <2>2
       DEF ExitAnnounced, Exit, WorkerTypeOK, RecordTypes, StreamTypes, workerVars
<1>9. CASE RemoveAnnounce
  <2>1. bus' \in [open : BOOLEAN, frames : Seq(Frames)]
    BY <1>0, <1>9, ValuesTyped, BroadcastShape DEF RemoveAnnounce
  <2> QED
    BY <1>0, <1>9, <2>1
       DEF RemoveAnnounce, WorkerTypeOK, RecordTypes, StreamTypes, workerVars
<1>10. CASE (RestartCapture \/ RemoveBegin \/ RemoveMark) /\ UNCHANGED <<announce, bus, workerVars>>
  <2>1. RecordTypes'
    <3>1. CASE RestartCapture
      BY <1>0, <3>1 DEF RestartCapture, RecordTypes
    <3>2. CASE RemoveBegin \/ RemoveMark
      BY <1>0, <3>2 DEF RemoveBegin, RemoveMark, RecordTypes
    <3> QED
      BY <1>10, <3>1, <3>2
  <2> QED
    BY <1>0, <1>10, <2>1 DEF WorkerTypeOK, StreamTypes, workerVars
<1> QED
  BY <1>1, <1>2, <1>3, <1>4, <1>5, <1>6, <1>7, <1>8, <1>9, <1>10
     DEF Announcer, RestartThread, RemoveThread

\* The steps of the worker and of its stream keep the types.
LEMMA PumpTyped ==
    ASSUME WorkerTypeOK, Pump \/ LoseConnection \/ Poll
    PROVE  WorkerTypeOK'
<1>0. /\ RecordTypes /\ StreamTypes /\ worker \in Entries /\ bus.frames \in Seq(Frames)
      /\ header \in [taken : BOOLEAN, present : BOOLEAN, row : Rows]
      /\ HostSnapshot \in [taken : BOOLEAN, present : BOOLEAN, row : Rows]
  BY SnapshotTyped DEF WorkerTypeOK, StreamTypes
<1>1. RecordTypes'
  <2>1. UNCHANGED recordVars
    BY DEF Pump, Subscribe, TakeHeader, ApplyHeader, TakeFrame, StreamEnds, LoseConnection, Poll
  <2> QED
    BY <1>0, <2>1 DEF RecordTypes, recordVars
<1>2. CASE Subscribe
  BY <1>0, <1>1, <1>2 DEF Subscribe, WorkerTypeOK, StreamTypes
<1>3. CASE TakeHeader
  BY <1>0, <1>1, <1>3 DEF TakeHeader, WorkerTypeOK, StreamTypes
<1>4. CASE ApplyHeader
  <2>1. worker' \in Entries
    BY <1>0, <1>4, ApplyTyped DEF ApplyHeader
  <2> QED
    BY <1>0, <1>1, <1>4, <2>1, ValuesTyped DEF ApplyHeader, WorkerTypeOK, StreamTypes
<1>5. CASE TakeFrame
  <2>1. Head(bus.frames) \in Frames /\ Tail(bus.frames) \in Seq(Frames)
    BY <1>0, <1>5 DEF TakeFrame
  <2>2. ApplyFrame(worker, Head(bus.frames)) \in Entries
    <3> DEFINE f == Head(bus.frames)
    <3>1. CASE f \in [type : {"event"}, generation : Nat, revision : Nat]
      <4>1. /\ f.type = "event" /\ f.generation \in Nat /\ f.revision \in Nat
        BY <3>1
      <4>2. (IF worker.known THEN worker ELSE ApplySnapshot(worker, HostSnapshot)) \in Entries
        BY <1>0, ApplyTyped
      <4> QED
        BY <4>1, <4>2, ApplyTyped DEF ApplyFrame
    <3>2. CASE f \in [type : {"session"}, row : Rows]
      <4>1. /\ f.type = "session" /\ f.row \in Rows
        BY <3>2
      <4> QED
        BY <1>0, <4>1, ApplyTyped DEF ApplyFrame
    <3>3. CASE f \in [type : {"session_removed"}]
      <4>1. f.type = "session_removed"
        BY <3>3
      <4> QED
        BY <4>1, ValuesTyped DEF ApplyFrame
    <3> QED
      BY <2>1, <3>1, <3>2, <3>3 DEF Frames
  <2>3. bus' \in [open : BOOLEAN, frames : Seq(Frames)]
    BY <1>0, <1>5, <2>1 DEF TakeFrame, StreamTypes
  <2> QED
    BY <1>0, <1>1, <1>5, <2>2, <2>3 DEF TakeFrame, WorkerTypeOK, StreamTypes
<1>6. CASE StreamEnds
  BY <1>0, <1>1, <1>6 DEF StreamEnds, WorkerTypeOK, StreamTypes
<1>7. CASE LoseConnection
  <2>1. PICK n \in 0..Len(bus.frames) : bus' = [open |-> FALSE, frames |-> SubSeq(bus.frames, 1, n)]
    BY <1>7 DEF LoseConnection
  <2>2. SubSeq(bus.frames, 1, n) \in Seq(Frames)
    BY <1>0
  <2> QED
    BY <1>0, <1>1, <1>7, <2>1, <2>2 DEF LoseConnection, WorkerTypeOK, StreamTypes
<1>8. CASE Poll
  <2>1. worker' \in Entries
    BY <1>0, <1>8, ApplyTyped DEF Poll
  <2> QED
    BY <1>0, <1>1, <1>8, <2>1 DEF Poll, WorkerTypeOK, StreamTypes
<1> QED
  BY <1>2, <1>3, <1>4, <1>5, <1>6, <1>7, <1>8 DEF Pump

\* The record, the stream and the worker's entry stay well formed.
THEOREM WorkerTypes == Spec => []WorkerTypeOK
<1>1. Init => WorkerTypeOK
  <2> SUFFICES ASSUME Init PROVE WorkerTypeOK
    OBVIOUS
  <2>1. RecordTypes
    BY ValuesTyped DEF Init, RecordInit, RecordTypes
  <2>2. worker \in Entries
    BY DEF Init, Entries
  <2>3. bus \in [open : BOOLEAN, frames : Seq(Frames)]
    BY DEF Init
  <2>4. announce \in [Announcers -> [step : {"none", "due", "taken"}, row : Rows]]
    BY ValuesTyped DEF Init
  <2> QED
    BY <2>1, <2>2, <2>3, <2>4, ValuesTyped DEF Init, WorkerTypeOK, StreamTypes
<1>2. WorkerTypeOK /\ [Next]_vars => WorkerTypeOK'
  <2> SUFFICES ASSUME WorkerTypeOK, [Next]_vars PROVE WorkerTypeOK'
    OBVIOUS
  <2>1. CASE UNCHANGED vars
    BY <2>1 DEF vars, recordVars, WorkerTypeOK, RecordTypes, StreamTypes
  <2> QED
    BY <2>1, HostTyped, PumpTyped DEF Next
<1> QED
  BY <1>1, <1>2, PTL DEF Spec
-----------------------------------------------------------------------------
(***************************************************************************)
(* Proof of the removal                                                    *)
(***************************************************************************)

\* The frames of a bus that appended one, or none.
LEMMA AppendedFrames ==
    ASSUME StreamTypes, NEW frame \in Frames, bus'.frames = Append(bus.frames, frame)
    PROVE  /\ Len(bus.frames) \in Nat /\ DOMAIN bus.frames = 1..Len(bus.frames)
           /\ Len(bus'.frames) = Len(bus.frames) + 1
           /\ DOMAIN bus'.frames = 1..(Len(bus.frames) + 1)
           /\ \A i \in DOMAIN bus.frames : i \in DOMAIN bus'.frames /\ bus'.frames[i] = bus.frames[i]
           /\ bus'.frames[Len(bus.frames) + 1] = frame
           /\ \A i \in DOMAIN bus'.frames :
                 i \in DOMAIN bus.frames \/ i = Len(bus.frames) + 1
<1>1. bus.frames \in Seq(Frames)
  BY DEF StreamTypes
<1> QED
  BY <1>1

\* The frames left when the worker took one or the connection lost some.
LEMMA CutFrames ==
    ASSUME WorkerTypeOK, TakeFrame \/ LoseConnection \/ Subscribe
    PROVE  \E k \in {0, 1} : \A i \in DOMAIN bus'.frames :
               /\ i \in Nat /\ i + k \in DOMAIN bus.frames
               /\ bus'.frames[i] = bus.frames[i + k]
<1>0. /\ bus.frames \in Seq(Frames) /\ Len(bus.frames) \in Nat
      /\ DOMAIN bus.frames = 1..Len(bus.frames)
      /\ bus \in [open : BOOLEAN, frames : Seq(Frames)]
  BY DEF WorkerTypeOK, StreamTypes
<1>1. CASE TakeFrame
  <2>1. bus.frames # <<>> /\ bus'.frames = Tail(bus.frames)
    BY <1>0, <1>1 DEF TakeFrame
  <2>2. /\ DOMAIN bus'.frames = 1..(Len(bus.frames) - 1)
        /\ \A i \in 1..(Len(bus.frames) - 1) : bus'.frames[i] = bus.frames[i + 1]
    BY <1>0, <2>1
  <2> QED
    BY <1>0, <2>2
<1>2. CASE LoseConnection
  <2>1. PICK n \in 0..Len(bus.frames) : bus' = [open |-> FALSE, frames |-> SubSeq(bus.frames, 1, n)]
    BY <1>2 DEF LoseConnection
  <2>2. /\ DOMAIN bus'.frames = 1..n
        /\ \A i \in 1..n : bus'.frames[i] = bus.frames[i]
    BY <1>0, <2>1
  <2>3. \A i \in DOMAIN bus'.frames :
            /\ i \in Nat /\ i + 0 \in DOMAIN bus.frames
            /\ bus'.frames[i] = bus.frames[i + 0]
    BY <1>0, <2>2
  <2> QED
    BY <2>3
<1>3. CASE Subscribe
  <2>1. DOMAIN bus'.frames = {}
    BY <1>3 DEF Subscribe
  <2> QED
    BY <2>1
<1> QED
  BY <1>1, <1>2, <1>3

\* No event frame follows the notice of the removal, whoever posts, restarts or
\* removes: the steps.
LEMMA RemovalStep ==
    ASSUME WorkerTypeOK, RemovalInv, [Next]_vars
    PROVE  RemovalInv'
<1>0. /\ RecordTypes /\ StreamTypes /\ bus.frames \in Seq(Frames) /\ DOMAIN bus.frames \subseteq Nat
  BY DEF WorkerTypeOK, StreamTypes
<1>1. ASSUME UNCHANGED bus PROVE NoEventAfterRemoval' /\ DOMAIN bus'.frames = DOMAIN bus.frames
  BY <1>1 DEF RemovalInv, NoEventAfterRemoval
<1>2. ASSUME NEW frame \in Frames, Broadcast(frame), frame.type = "event" => ~removed
      PROVE  /\ NoEventAfterRemoval'
             /\ \A i \in DOMAIN bus'.frames :
                   \/ i \in DOMAIN bus.frames /\ bus'.frames[i] = bus.frames[i]
                   \/ bus'.frames[i] = frame
  <2>1. \/ bus'.frames = bus.frames
        \/ bus'.frames = Append(bus.frames, frame)
    BY <1>0, <1>2, BroadcastShape
  <2>2. CASE bus'.frames = bus.frames
    BY <2>2 DEF RemovalInv, NoEventAfterRemoval
  <2>3. CASE bus'.frames = Append(bus.frames, frame)
    <3>1. /\ Len(bus.frames) \in Nat /\ DOMAIN bus.frames = 1..Len(bus.frames)
          /\ \A i \in DOMAIN bus'.frames :
                \/ i \in DOMAIN bus.frames /\ bus'.frames[i] = bus.frames[i]
                \/ i = Len(bus.frames) + 1 /\ bus'.frames[i] = frame
      BY <1>0, <2>3, AppendedFrames
    <3>2. ASSUME NEW i \in DOMAIN bus'.frames, NEW j \in DOMAIN bus'.frames,
                 bus'.frames[i].type = "session_removed", bus'.frames[j].type = "event"
          PROVE  j < i
      <4>1. CASE i \in DOMAIN bus.frames /\ bus'.frames[i] = bus.frames[i]
        <5>1. removed
          BY <3>2, <4>1 DEF RemovalInv, RemovalOrdered
        <5>2. j \in DOMAIN bus.frames /\ bus'.frames[j] = bus.frames[j]
          BY <1>2, <3>1, <3>2, <5>1
        <5> QED
          BY <3>2, <4>1, <5>2 DEF RemovalInv, NoEventAfterRemoval
      <4>2. CASE i = Len(bus.frames) + 1 /\ bus'.frames[i] = frame
        <5>1. j \in DOMAIN bus.frames
          BY <3>1, <3>2, <4>2
        <5> QED
          BY <3>1, <4>2, <5>1
      <4> QED
        BY <3>1, <4>1, <4>2
    <3> QED
      BY <3>1, <3>2 DEF NoEventAfterRemoval
  <2> QED
    BY <2>1, <2>2, <2>3
<1>3. ASSUME TakeFrame \/ LoseConnection \/ Subscribe PROVE RemovalInv'
  <2>1. PICK k \in {0, 1} : \A i \in DOMAIN bus'.frames :
            /\ i \in Nat /\ i + k \in DOMAIN bus.frames
            /\ bus'.frames[i] = bus.frames[i + k]
    BY <1>3, CutFrames
  <2>2. UNCHANGED <<removal, present, removed, holder>>
    BY <1>3 DEF TakeFrame, LoseConnection, Subscribe, recordVars
  <2>3. NoEventAfterRemoval'
    <3> SUFFICES ASSUME NEW i \in DOMAIN bus'.frames, NEW j \in DOMAIN bus'.frames,
                        bus'.frames[i].type = "session_removed", bus'.frames[j].type = "event"
                 PROVE  j < i
      BY DEF NoEventAfterRemoval
    <3>1. j + k < i + k
      BY <2>1 DEF RemovalInv, NoEventAfterRemoval
    <3> QED
      BY <2>1, <3>1
  <2>4. RemovalOrdered'
    BY <2>1, <2>2 DEF RemovalInv, RemovalOrdered
  <2> QED
    BY <2>3, <2>4 DEF RemovalInv
<1>4. CASE AcceptEvent
  BY <1>1, <1>4 DEF AcceptEvent, AcceptHook, RemovalInv, RemovalOrdered
<1>5. CASE PublishEvent
  <2>1. /\ holder = Poster /\ holder' = NoThread /\ UNCHANGED <<removal, present, removed>>
        /\ Broadcast(EventFrame(manifest)) /\ EventFrame(manifest) \in Frames
    BY <1>0, <1>5, ValuesTyped DEF PublishEvent, ReleaseLedger, RecordTypes
  <2>2. EventFrame(manifest).type = "event" /\ ~removed
    BY <2>1 DEF EventFrame, RemovalInv, RemovalOrdered
  <2> QED
    BY <1>2, <2>1, <2>2 DEF RemovalInv, RemovalOrdered, Poster, NoThread
<1>6. ASSUME NEW t \in Announcers, Announcer(t) PROVE RemovalInv'
  <2>1. UNCHANGED <<removal, present, removed, holder>>
    BY <1>6 DEF Announcer, TakeRow, SendRow, recordVars
  <2>2. CASE TakeRow(t)
    BY <1>1, <2>1, <2>2 DEF TakeRow, RemovalInv, RemovalOrdered
  <2>3. CASE SendRow(t)
    <3>1. Broadcast(SessionFrame(announce[t].row)) /\ SessionFrame(announce[t].row) \in Frames
      BY <1>0, <2>3, ValuesTyped DEF SendRow, StreamTypes
    <3>2. SessionFrame(announce[t].row).type = "session"
      BY DEF SessionFrame
    <3> QED
      BY <1>2, <2>1, <3>1, <3>2 DEF RemovalInv, RemovalOrdered
  <2> QED
    BY <1>6, <2>2, <2>3 DEF Announcer
<1>7. CASE RestartThread \/ ExitAnnounced
  <2>1. UNCHANGED <<removal, present, removed, bus>> /\ (holder' = Poster => holder = Poster)
    BY <1>7 DEF RestartThread, RestartPersists, RestartSettles, RestartCommit, RestartReturn,
                RestartUndone, RestartRollback, RestartRefused, RestartBegin, ExitAnnounced, Exit,
                Poster, Restarter, NoThread
  <2> QED
    BY <1>1, <2>1 DEF RemovalInv, RemovalOrdered
<1>8. CASE RemoveAnnounce
  <2>1. /\ removal = "marked" /\ removal' = "done" /\ UNCHANGED <<present, removed, holder>>
        /\ Broadcast(RemovedFrame) /\ RemovedFrame \in Frames
    BY <1>8, ValuesTyped DEF RemoveAnnounce
  <2>2. RemovedFrame.type = "session_removed"
    BY DEF RemovedFrame
  <2> QED
    BY <1>2, <2>1, <2>2 DEF RemovalInv, RemovalOrdered
<1>9. CASE RestartCapture /\ UNCHANGED <<announce, bus, workerVars>>
  BY <1>1, <1>9 DEF RestartCapture, RemovalInv, RemovalOrdered
<1>10. CASE (RemoveBegin \/ RemoveMark) /\ UNCHANGED <<announce, bus, workerVars>>
  BY <1>1, <1>10 DEF RemoveBegin, RemoveMark, RemovalInv, RemovalOrdered, Poster, NoThread
<1>11. CASE TakeHeader \/ ApplyHeader \/ StreamEnds \/ Poll \/ UNCHANGED vars
  <2>1. UNCHANGED <<removal, present, removed, holder, bus>>
    BY <1>11 DEF TakeHeader, ApplyHeader, StreamEnds, Poll, vars, recordVars
  <2> QED
    BY <1>1, <2>1 DEF RemovalInv, RemovalOrdered
<1> QED
  BY <1>3, <1>4, <1>5, <1>6, <1>7, <1>8, <1>9, <1>10, <1>11 DEF Next, RemoveThread, Pump

\* A removal is announced in the order that the followers rely on.
THEOREM RemovalOrder == Spec => []RemovalInv
<1>1. Init => RemovalInv
  BY DEF Init, RecordInit, RemovalInv, RemovalOrdered, NoEventAfterRemoval
<1>2. WorkerTypeOK /\ RemovalInv /\ [Next]_vars => RemovalInv'
  BY RemovalStep
<1> QED
  BY <1>1, <1>2, WorkerTypes, PTL DEF Spec

\* The notice of a removal is the last the followers hear of the session's
\* events (remove marks the session under its ledger before it tells them).
THEOREM RemovalIsLast == Spec => []NoEventAfterRemoval
<1>1. RemovalInv => NoEventAfterRemoval
  BY DEF RemovalInv
<1> QED
  BY <1>1, RemovalOrder, PTL
-----------------------------------------------------------------------------
(***************************************************************************)
(* Proof that the worker is current                                        *)
(***************************************************************************)

\* The record's numbers.
LEMMA RecordNumbers ==
    ASSUME RecordTypes
    PROVE  /\ manifest.generation \in Nat /\ manifest.hook_revision \in Nat
           /\ manifest.last_hook.revision \in Nat
BY DEF RecordTypes, Manifest, Hook

\* What a row does to an entry that is not ahead: the entry reaches what either
\* of them had reached.
LEMMA RowApplied ==
    ASSUME RecordTypes, NEW w \in Entries, w.known, NEW row \in Rows,
           Behind(w.generation, w.hook_revision), Behind(row.generation, row.revision),
           NEW v, v = ApplyRow(w, row)
    PROVE  /\ v.known /\ Behind(v.generation, v.hook_revision)
           /\ w.generation = manifest.generation \/ row.generation = manifest.generation =>
                 v.generation = manifest.generation
           /\ \/ /\ w.generation = manifest.generation
                 /\ w.hook_revision = manifest.last_hook.revision
              \/ /\ row.generation = manifest.generation
                 /\ row.revision = manifest.last_hook.revision
              => /\ v.generation = manifest.generation
                 /\ v.hook_revision = manifest.last_hook.revision
<1>1. /\ w.generation \in Nat /\ w.hook_revision \in Nat
      /\ row.generation \in Nat /\ row.revision \in Nat
      /\ manifest.generation \in Nat /\ manifest.last_hook.revision \in Nat
  BY RecordNumbers DEF Entries, Rows
<1>2. CASE row.generation < w.generation
  <2>1. v = w
    BY <1>2 DEF ApplyRow
  <2> QED
    BY <1>1, <1>2, <2>1 DEF Behind
<1>3. CASE ~(row.generation < w.generation)
  <2> DEFINE base == IF w.generation = row.generation THEN w.hook_revision ELSE 0
  <2> DEFINE m == MergeRow(w, row)
  <2>1. v = ApplyEvent(m, row.generation, row.revision)
    BY <1>3 DEF ApplyRow
  <2>2. /\ m.known /\ m.generation = row.generation /\ m.hook_revision = base
        /\ m \in Entries
    BY <1>1 DEF MergeRow, Entries, Rows
  <2> HIDE DEF m
  <2>3. /\ v.known /\ v.generation = row.generation
        /\ v.hook_revision = IF row.revision > base THEN row.revision ELSE base
    BY <2>1, <2>2 DEF ApplyEvent, Entries
  <2> QED
    BY <1>1, <1>3, <2>3 DEF Behind
<1> QED
  BY <1>2, <1>3

\* The same for an event.
LEMMA EventApplied ==
    ASSUME RecordTypes, NEW w \in Entries, w.known, NEW generation \in Nat, NEW revision \in Nat,
           Behind(w.generation, w.hook_revision), Behind(generation, revision),
           NEW v, v = ApplyEvent(w, generation, revision)
    PROVE  /\ v.known /\ v.generation = w.generation /\ Behind(v.generation, v.hook_revision)
           /\ \/ /\ w.generation = manifest.generation
                 /\ w.hook_revision = manifest.last_hook.revision
              \/ /\ w.generation = manifest.generation /\ generation = manifest.generation
                 /\ revision = manifest.last_hook.revision
              => /\ v.generation = manifest.generation
                 /\ v.hook_revision = manifest.last_hook.revision
<1>1. /\ w.generation \in Nat /\ w.hook_revision \in Nat
      /\ manifest.generation \in Nat /\ manifest.last_hook.revision \in Nat
  BY RecordNumbers DEF Entries
<1>2. /\ v.known /\ v.generation = w.generation
      /\ v.hook_revision = IF revision > w.hook_revision /\ generation = w.generation
                           THEN revision ELSE w.hook_revision
  BY DEF ApplyEvent, Entries
<1> QED
  BY <1>1, <1>2 DEF Behind

\* A step of the host that leaves generation and last hook alone and broadcasts at
\* most one frame that is not ahead.
LEMMA HostKeeps ==
    ASSUME WorkerTypeOK, NothingAhead, KnownWhilePresent,
           UNCHANGED <<worker, header, link>>,
           manifest'.generation = manifest.generation,
           manifest'.last_hook.revision = manifest.last_hook.revision,
           NEW frame \in Frames,
           bus'.frames = bus.frames \/ bus'.frames = Append(bus.frames, frame),
           frame.type = "event" => Behind(frame.generation, frame.revision),
           frame.type = "session" => Behind(frame.row.generation, frame.row.revision),
           frame.type # "session_removed",
           \A t \in Announcers : announce'[t].step = "taken" =>
               Behind(announce'[t].row.generation, announce'[t].row.revision)
    PROVE  /\ NothingAhead' /\ KnownWhilePresent'
           /\ \A n \in 0..Len(bus.frames) : HasGeneration(n) => HasGeneration(n)'
           /\ HasNewest /\ (holder = Poster => holder' = Poster) => HasNewest'
<1>0. /\ Len(bus.frames) \in Nat /\ DOMAIN bus.frames = 1..Len(bus.frames) /\ StreamTypes
  BY DEF WorkerTypeOK, StreamTypes
<1>1. /\ \A i \in DOMAIN bus.frames : i \in DOMAIN bus'.frames /\ bus'.frames[i] = bus.frames[i]
      /\ \A i \in DOMAIN bus'.frames :
            \/ i \in DOMAIN bus.frames /\ bus'.frames[i] = bus.frames[i]
            \/ bus'.frames[i] = frame
  BY <1>0, AppendedFrames
<1>3. NothingAhead'
  BY <1>1 DEF NothingAhead, Behind
<1>4. KnownWhilePresent'
  BY <1>1 DEF KnownWhilePresent
<1>5. ASSUME NEW n \in 0..Len(bus.frames), HasGeneration(n) PROVE HasGeneration(n)'
  <2>1. \A j \in 1..n : j \in DOMAIN bus.frames
    BY <1>0
  <2> QED
    BY <1>1, <1>5, <2>1 DEF HasGeneration
<1>6. ASSUME HasNewest, holder = Poster => holder' = Poster PROVE HasNewest'
  <2>1. \A i \in DOMAIN bus.frames : i - 1 \in 0..Len(bus.frames)
    BY <1>0
  <2>2. \A i \in DOMAIN bus.frames : HasGeneration(i - 1) => HasGeneration(i - 1)'
    BY <1>5, <2>1
  <2> QED
    BY <1>1, <1>6, <2>2 DEF HasNewest
<1> QED
  BY <1>3, <1>4, <1>5, <1>6

\* The steps of the host.
LEMMA HostCurrent ==
    ASSUME WorkerTypeOK, WorkerTypeOK', RemovalInv, CurrentInv,
           \/ AcceptEvent \/ PublishEvent
           \/ \E t \in Announcers : Announcer(t)
           \/ RestartThread \/ ExitAnnounced \/ RemoveThread
           \/ (RestartCapture \/ RemoveBegin) /\ UNCHANGED <<announce, bus, workerVars>>
    PROVE  CurrentInv'
<1>0. /\ RecordTypes /\ StreamTypes /\ manifest \in Manifest
      /\ manifest.generation \in Nat /\ manifest.hook_revision \in Nat
      /\ manifest.last_hook.revision \in Nat
      /\ announce \in [Announcers -> [step : {"none", "due", "taken"}, row : Rows]]
      /\ Restarter \in Announcers /\ Len(bus.frames) \in Nat /\ bus.frames \in Seq(Frames)
      /\ DOMAIN bus.frames = 1..Len(bus.frames)
      /\ EventFrame(manifest) \in Frames
  BY RecordNumbers, ValuesTyped DEF WorkerTypeOK, RecordTypes, StreamTypes, Announcers
<1>a. /\ EventFrame(manifest).type = "event"
      /\ EventFrame(manifest).generation = manifest.generation
      /\ EventFrame(manifest).revision = manifest.last_hook.revision
      /\ Behind(manifest.generation, manifest.last_hook.revision)
  BY <1>0 DEF EventFrame, Behind
<1>b. UNCHANGED <<worker, header, link>> /\ (header'.taken => link' = "following")
  BY DEF AcceptEvent, PublishEvent, Announcer, TakeRow, SendRow, RestartThread, RestartPersists,
         RestartSettles, RestartUndone, ExitAnnounced, RemoveThread, RemoveAnnounce, workerVars,
         CurrentInv
\* A step that leaves bus, generation and last hook alone.
<1>c. ASSUME UNCHANGED bus, present' => present, ~failed_restart' => ~failed_restart,
             manifest'.generation = manifest.generation,
             manifest'.last_hook.revision = manifest.last_hook.revision,
             RestartHoldsLedger',
             holder = Poster => holder' = Poster,
             RowOwed => RowOwed',
             \A t \in Announcers : announce'[t].step = "taken" /\ present' =>
                 announce'[t] = announce[t] \/ announce'[t].row = Row(manifest)
      PROVE  CurrentInv'
  <2>1. present' => KnownWhilePresent'
    BY <1>b, <1>c DEF CurrentInv, KnownWhilePresent
  <2>2. ASSUME present', ~failed_restart' PROVE NothingAhead' /\ StreamComplete'
    <3>1. NothingAhead /\ StreamComplete /\ KnownWhilePresent
      BY <1>c, <2>2 DEF CurrentInv
    <3>2. \A t \in Announcers : announce'[t].step = "taken" =>
              Behind(announce'[t].row.generation, announce'[t].row.revision)
      BY <1>0, <1>a, <1>c, <2>2, <3>1 DEF NothingAhead, Row
    <3>3. /\ NothingAhead' /\ KnownWhilePresent'
          /\ \A n \in 0..Len(bus.frames) : HasGeneration(n) => HasGeneration(n)'
          /\ HasNewest /\ (holder = Poster => holder' = Poster) => HasNewest'
      BY <1>0, <1>a, <1>b, <1>c, <3>1, <3>2, HostKeeps
    <3>4. HasGeneration(Len(bus.frames)) => HasGeneration(Len(bus.frames))'
      BY <1>0, <1>c, <3>3
    <3> QED
      BY <1>b, <1>c, <3>1, <3>3, <3>4 DEF StreamComplete
  <2> QED
    BY <1>b, <1>c, <2>1, <2>2 DEF CurrentInv
\* A record that moves on leaves behind what it had left behind.
<1>d. ASSUME UNCHANGED <<bus, announce>>, \A g, r \in Nat : Behind(g, r) => Behind(g, r)', NothingAhead
      PROVE  NothingAhead'
  <2>1. /\ \A f \in Frames : f.type = "event" => f.generation \in Nat /\ f.revision \in Nat
        /\ \A f \in Frames : f.type = "session" => f.row \in Rows
        /\ \A i \in DOMAIN bus.frames : bus.frames[i] \in Frames
    BY <1>0 DEF Frames
  <2>2. \A row \in Rows : row.generation \in Nat /\ row.revision \in Nat
    BY DEF Rows
  <2>3. /\ header.row \in Rows /\ \A t \in Announcers : announce[t].row \in Rows
        /\ worker.generation \in Nat /\ worker.hook_revision \in Nat
    BY <1>0 DEF StreamTypes, Entries
  <2> QED
    BY <1>b, <1>d, <2>1, <2>2, <2>3 DEF NothingAhead
\* A frame that is no removal notice leaves the worker its session.
<1>e. ASSUME NEW frame \in Frames, frame.type # "session_removed", UNCHANGED present,
             bus'.frames = bus.frames \/ bus'.frames = Append(bus.frames, frame)
      PROVE  present' => KnownWhilePresent'
  <2>1. \A i \in DOMAIN bus'.frames :
            \/ i \in DOMAIN bus.frames /\ bus'.frames[i] = bus.frames[i]
            \/ bus'.frames[i] = frame
    BY <1>0, <1>e, AppendedFrames
  <2> QED
    BY <1>b, <1>e, <2>1 DEF CurrentInv, KnownWhilePresent
<1>1. CASE AcceptEvent
  <2>1. /\ UNCHANGED <<bus, announce, present, failed_restart, restart>>
        /\ holder = NoThread /\ holder' = Poster
        /\ manifest'.generation = manifest.generation
        /\ manifest'.last_hook.revision = manifest.hook_revision + 1
        /\ manifest'.hook_revision = manifest.hook_revision + 1
    BY <1>0, <1>1 DEF AcceptEvent, AcceptHook, Manifest
  <2>2. RestartHoldsLedger'
    BY <1>0, <2>1 DEF CurrentInv, RestartHoldsLedger, Poster, Restarter, NoThread
  <2>3. present' => KnownWhilePresent'
    BY <1>b, <2>1 DEF CurrentInv, KnownWhilePresent
  <2>4. \A g, r \in Nat : Behind(g, r) => Behind(g, r)'
    BY <1>0, <2>1 DEF CurrentInv, RestartHoldsLedger, Behind
  <2>5. NothingAhead => NothingAhead'
    BY <1>d, <2>1, <2>4
  <2>6. StreamComplete => StreamComplete'
    BY <1>b, <2>1 DEF StreamComplete, RowOwed, HasGeneration, HasNewest
  <2> QED
    BY <1>b, <2>1, <2>2, <2>3, <2>5, <2>6 DEF CurrentInv
<1>2. CASE PublishEvent
  <2>1. /\ UNCHANGED <<manifest, announce, present, failed_restart, restart>>
        /\ holder = Poster /\ holder' = NoThread /\ Broadcast(EventFrame(manifest))
    BY <1>2 DEF PublishEvent, ReleaseLedger
  <2>2. RestartHoldsLedger'
    BY <2>1 DEF CurrentInv, RestartHoldsLedger, Poster, Restarter, NoThread
  <2>3. ~RowOwed
    BY <2>1 DEF CurrentInv, RestartHoldsLedger, RowOwed, Poster, Restarter
  <2>4. /\ bus'.open => bus.open
        /\ \/ bus'.frames = bus.frames /\ (bus'.open => ~bus.open)
           \/ bus'.frames = Append(bus.frames, EventFrame(manifest))
    BY <1>0, <2>1, BroadcastShape
  <2>5. ASSUME present, NothingAhead, KnownWhilePresent
        PROVE  /\ NothingAhead' /\ KnownWhilePresent'
               /\ \A n \in 0..Len(bus.frames) : HasGeneration(n) => HasGeneration(n)'
    <3>1. \A t \in Announcers : announce'[t].step = "taken" =>
              Behind(announce'[t].row.generation, announce'[t].row.revision)
      BY <2>1, <2>5 DEF NothingAhead
    <3> QED
      BY <1>0, <1>a, <1>b, <2>1, <2>4, <2>5, <3>1, HostKeeps
  <2>6. ASSUME present, NothingAhead, KnownWhilePresent, StreamComplete,
               link' = "following", bus'.open
        PROVE  HasGeneration(Len(bus.frames))' /\ HasNewest'
    <3>1. PICK n \in Nat : n = Len(bus.frames)
      BY <1>0
    <3>2. bus'.frames = Append(bus.frames, EventFrame(manifest)) /\ HasGeneration(n)
      BY <1>b, <2>3, <2>4, <2>6, <3>1 DEF StreamComplete
    <3>3. /\ Len(bus'.frames) = n + 1 /\ n + 1 \in DOMAIN bus'.frames
          /\ bus'.frames[n + 1] = EventFrame(manifest)
      BY <1>0, <3>1, <3>2, AppendedFrames
    <3>4. HasGeneration(n)'
      <4>1. n \in 0..Len(bus.frames)
        BY <3>1
      <4> QED
        BY <2>5, <2>6, <3>2, <4>1
    <3>5. HasGeneration(Len(bus.frames))'
      BY <3>3, <3>4 DEF HasGeneration
    <3>6. HasNewest'
      <4>1. n + 1 - 1 = n
        OBVIOUS
      <4>2. HasGeneration((n + 1) - 1)'
        BY <3>4, <4>1
      <4> QED
        BY <1>a, <2>1, <3>3, <4>2 DEF HasNewest
    <3> QED
      BY <3>5, <3>6
  <2>7. present' => KnownWhilePresent'
    BY <1>0, <1>a, <1>e, <2>1, <2>4
  <2>8. ASSUME present', ~failed_restart' PROVE NothingAhead' /\ StreamComplete'
    <3>1. present /\ NothingAhead /\ StreamComplete /\ KnownWhilePresent
      BY <2>1, <2>8 DEF CurrentInv
    <3>2. NothingAhead'
      BY <2>5, <3>1
    <3>3. link' = "following" /\ bus'.open => HasGeneration(Len(bus.frames))' /\ HasNewest'
      BY <2>6, <3>1
    <3> QED
      BY <3>2, <3>3 DEF StreamComplete
  <2> QED
    BY <1>b, <2>2, <2>7, <2>8 DEF CurrentInv
<1>3. ASSUME NEW t \in Announcers, TakeRow(t) PROVE CurrentInv'
  <2>1. /\ UNCHANGED <<bus, manifest, present, failed_restart, restart, holder>>
        /\ announce[t].step = "due"
        /\ \A s \in Announcers : s # t => announce'[s] = announce[s]
        /\ announce'[t] = IF present THEN [step |-> "taken", row |-> Row(manifest)] ELSE Quiet
    BY <1>0, <1>3 DEF TakeRow, recordVars
  <2>2. RestartHoldsLedger'
    BY <1>0, <2>1 DEF CurrentInv, RestartHoldsLedger, Quiet
  <2>3. CASE present
    <3>1. announce'[t].step = "taken" /\ announce'[t].row = Row(manifest)
      BY <2>1, <2>3
    <3>2. RowOwed => RowOwed'
      BY <1>0, <2>1, <3>1 DEF RowOwed, Row
    <3> QED
      BY <1>c, <2>1, <2>2, <3>1, <3>2
  <2>4. CASE ~present
    BY <1>b, <2>1, <2>2, <2>4 DEF CurrentInv
  <2> QED
    BY <2>3, <2>4
<1>4. ASSUME NEW t \in Announcers, SendRow(t) PROVE CurrentInv'
  <2> DEFINE row == announce[t].row
  <2>1. /\ UNCHANGED <<manifest, present, failed_restart, restart, holder>>
        /\ announce[t].step = "taken" /\ announce'[t] = Quiet
        /\ \A s \in Announcers : s # t => announce'[s] = announce[s]
        /\ Broadcast(SessionFrame(row)) /\ row \in Rows
    BY <1>0, <1>4 DEF SendRow, recordVars
  <2>2. /\ SessionFrame(row) \in Frames /\ SessionFrame(row).type = "session"
        /\ SessionFrame(row).row = row
    BY <2>1, ValuesTyped DEF SessionFrame
  <2> HIDE DEF row
  <2>3. RestartHoldsLedger'
    BY <1>0, <2>1 DEF CurrentInv, RestartHoldsLedger, Quiet
  <2>4. /\ bus'.open => bus.open
        /\ \/ bus'.frames = bus.frames /\ (bus'.open => ~bus.open)
           \/ bus'.frames = Append(bus.frames, SessionFrame(row))
    BY <1>0, <2>1, <2>2, BroadcastShape
  <2>5. ASSUME present, NothingAhead, KnownWhilePresent
        PROVE  /\ NothingAhead' /\ KnownWhilePresent'
               /\ \A n \in 0..Len(bus.frames) : HasGeneration(n) => HasGeneration(n)'
               /\ HasNewest => HasNewest'
    <3>1. \A s \in Announcers : announce'[s].step = "taken" =>
              Behind(announce'[s].row.generation, announce'[s].row.revision)
      BY <2>1, <2>5 DEF NothingAhead, Quiet
    <3>2. Behind(row.generation, row.revision)
      BY <2>1, <2>5 DEF NothingAhead, row
    <3> QED
      BY <1>0, <1>a, <1>b, <2>1, <2>2, <2>4, <2>5, <3>1, <3>2, HostKeeps
  <2>6. ASSUME present, NothingAhead, KnownWhilePresent, StreamComplete,
               link' = "following", bus'.open
        PROVE  (RowOwed' \/ HasGeneration(Len(bus.frames))') /\ HasNewest'
    <3>1. PICK n \in Nat : n = Len(bus.frames)
      BY <1>0
    <3>2. bus'.frames = Append(bus.frames, SessionFrame(row)) /\ (RowOwed \/ HasGeneration(n))
      BY <1>b, <2>4, <2>6, <3>1 DEF StreamComplete
    <3>3. Len(bus'.frames) = n + 1 /\ bus'.frames[n + 1] = SessionFrame(row)
      BY <1>0, <2>2, <3>1, <3>2, AppendedFrames
    <3>4. ASSUME HasGeneration(n) PROVE HasGeneration(Len(bus.frames))'
      <4>1. n \in 0..Len(bus.frames)
        BY <3>1
      <4>2. HasGeneration(n)'
        BY <2>5, <2>6, <3>4, <4>1
      <4> QED
        BY <3>3, <4>2 DEF HasGeneration
    <3>5. ASSUME RowOwed, ~RowOwed' PROVE HasGeneration(Len(bus.frames))'
      <4>1. t = Restarter
        BY <1>0, <2>1, <3>5 DEF RowOwed
      <4>2. row.generation = manifest.generation
        <5>1. restart.pc # "writing" /\ announce[Restarter].step # "due"
          BY <2>1, <4>1 DEF CurrentInv, RestartHoldsLedger
        <5> QED
          BY <3>5, <4>1, <5>1 DEF RowOwed, row
      <4>3. n + 1 \in 1..(n + 1)
        OBVIOUS
      <4> QED
        BY <2>1, <2>2, <3>3, <4>2, <4>3 DEF HasGeneration
    <3>6. HasNewest'
      BY <1>b, <2>4, <2>5, <2>6 DEF StreamComplete
    <3> QED
      BY <3>2, <3>4, <3>5, <3>6
  <2>7. present' => KnownWhilePresent'
    BY <1>0, <1>e, <2>1, <2>2, <2>4
  <2>8. ASSUME present', ~failed_restart' PROVE NothingAhead' /\ StreamComplete'
    <3>1. present /\ NothingAhead /\ StreamComplete /\ KnownWhilePresent
      BY <2>1, <2>8 DEF CurrentInv
    <3>2. NothingAhead'
      BY <2>5, <3>1
    <3>3. link' = "following" /\ bus'.open =>
              (RowOwed' \/ HasGeneration(Len(bus.frames))') /\ HasNewest'
      BY <2>6, <3>1
    <3> QED
      BY <3>2, <3>3 DEF StreamComplete
  <2> QED
    BY <1>b, <2>3, <2>7, <2>8 DEF CurrentInv
<1>5. CASE RestartPersists
  <2>1. /\ UNCHANGED <<bus, manifest, present, failed_restart, holder>>
        /\ restart.pc = "writing" /\ restart'.pc \in {"ok", "err"} /\ restart'.prior = restart.prior
        /\ \A s \in Announcers : s # Restarter => announce'[s] = announce[s]
        /\ announce'[Restarter] = Due
    BY <1>0, <1>5 DEF RestartPersists, RecordTypes
  <2>2. RestartHoldsLedger' /\ RowOwed'
    BY <1>0, <2>1 DEF CurrentInv, RestartHoldsLedger, RowOwed, Due
  <2>3. announce'[Restarter].step = "due"
    BY <2>1 DEF Due
  <2> QED
    BY <1>c, <2>1, <2>2, <2>3
<1>6. CASE RestartSettles
  <2>1. /\ UNCHANGED <<bus, manifest, present, failed_restart, announce>>
        /\ announce[Restarter].step = "none"
        /\ restart.pc \in {"ok", "undone"} /\ restart'.pc = "idle" /\ holder' = NoThread
        /\ restart'.prior = restart.prior
    BY <1>0, <1>6 DEF RestartSettles, RestartCommit, RestartReturn, Quiet, RecordTypes
  <2>2. RestartHoldsLedger' /\ ~RowOwed /\ holder = Restarter
    BY <1>0, <2>1 DEF CurrentInv, RestartHoldsLedger, RowOwed, Restarter, NoThread
  <2>3. holder # Poster
    BY <2>2 DEF Restarter, Poster
  <2> QED
    BY <1>c, <2>1, <2>2, <2>3
<1>7. CASE RestartUndone
  <2>1. /\ UNCHANGED <<bus, present, holder>> /\ failed_restart'
        /\ restart.pc = "err" /\ restart'.pc = "undone"
        /\ manifest' = restart.prior /\ restart'.prior = restart.prior
    BY <1>0, <1>7 DEF RestartUndone, RestartRollback, RecordTypes
  <2>2. RestartHoldsLedger' /\ (present' => KnownWhilePresent')
    BY <1>b, <2>1 DEF CurrentInv, RestartHoldsLedger, KnownWhilePresent
  <2> QED
    BY <1>b, <2>1, <2>2 DEF CurrentInv
<1>8. CASE RestartRefused /\ UNCHANGED <<announce, bus, workerVars>>
  <2>1. /\ UNCHANGED <<bus, manifest, present, failed_restart, announce, holder>>
        /\ restart.pc = "captured" /\ restart'.pc = "idle" /\ restart'.prior = restart.prior
    BY <1>0, <1>8 DEF RestartRefused, RestartHolds, RecordTypes
  <2>2. RestartHoldsLedger' /\ (RowOwed => RowOwed')
    BY <1>0, <2>1 DEF CurrentInv, RestartHoldsLedger, RowOwed
  <2> QED
    BY <1>c, <2>1, <2>2
<1>9. CASE RestartBegin /\ UNCHANGED <<announce, bus, workerVars>>
  <2>1. /\ UNCHANGED <<bus, present, failed_restart, announce>>
        /\ restart.pc = "captured" /\ restart'.pc = "writing" /\ holder' = Restarter
        /\ restart'.prior = restart.prior
        /\ manifest'.generation = manifest.generation + 1
        /\ manifest'.last_hook.revision = 0 /\ manifest'.hook_revision = manifest.hook_revision
    BY <1>0, <1>9 DEF RestartBegin, RestartHolds, RecordTypes, Manifest, NoHook
  <2>2. RestartHoldsLedger'
    BY <1>0, <2>1 DEF CurrentInv, RestartHoldsLedger
  <2>3. present' => KnownWhilePresent'
    BY <1>b, <2>1 DEF CurrentInv, KnownWhilePresent
  <2>4. NothingAhead => NothingAhead'
    <3>1. \A g, r \in Nat : Behind(g, r) => Behind(g, r)'
      BY <1>0, <2>1 DEF Behind
    <3> QED
      BY <1>d, <2>1, <3>1
  <2>5. StreamComplete'
    BY <2>1 DEF StreamComplete, RowOwed, HasNewest
  <2> QED
    BY <1>b, <2>1, <2>2, <2>3, <2>4, <2>5 DEF CurrentInv
<1>10. CASE ExitAnnounced
  <2>1. /\ UNCHANGED <<bus, present, failed_restart, holder, restart>>
        /\ \A s \in Announcers : s # SessionThread => announce'[s] = announce[s]
        /\ announce'[SessionThread] = Due
        /\ manifest'.generation = manifest.generation /\ manifest'.last_hook = manifest.last_hook
        /\ manifest'.hook_revision = manifest.hook_revision
    BY <1>0, <1>10 DEF ExitAnnounced, Exit, Manifest, Announcers
  <2>2. announce'[Restarter] = announce[Restarter] /\ announce'[SessionThread].step = "due"
    BY <1>0, <2>1 DEF Restarter, SessionThread, Due
  <2>3. RestartHoldsLedger' /\ (RowOwed => RowOwed')
    BY <2>1, <2>2 DEF CurrentInv, RestartHoldsLedger, RowOwed
  <2> QED
    BY <1>c, <2>1, <2>2, <2>3
<1>11. CASE RemoveAnnounce
  <2>1. ~present' /\ UNCHANGED <<holder, restart, announce, manifest>>
    BY <1>11 DEF RemoveAnnounce, RemovalInv, RemovalOrdered
  <2>2. RestartHoldsLedger'
    BY <2>1 DEF CurrentInv, RestartHoldsLedger
  <2> QED
    BY <1>b, <2>1, <2>2 DEF CurrentInv
<1>12. CASE (RestartCapture \/ RemoveBegin \/ RemoveMark) /\ UNCHANGED <<announce, bus, workerVars>>
  <2>1. /\ UNCHANGED <<bus, announce, manifest, failed_restart, holder>> /\ (present' => present)
        /\ \/ UNCHANGED restart
           \/ restart.pc = "idle" /\ restart'.pc = "captured" /\ restart'.prior = manifest
    BY <1>12 DEF RestartCapture, RemoveBegin, RemoveMark
  <2>2. RestartHoldsLedger' /\ (RowOwed => RowOwed')
    BY <1>0, <2>1 DEF CurrentInv, RestartHoldsLedger, RowOwed
  <2> QED
    BY <1>c, <2>1, <2>2
<1> QED
  BY <1>1, <1>2, <1>3, <1>4, <1>5, <1>6, <1>7, <1>8, <1>9, <1>10, <1>11, <1>12
     DEF Announcer, RestartThread, RemoveThread

\* An entry is only forgotten by a removal or by a snapshot without it.
LEMMA StaysKnown ==
    ASSUME NEW w \in Entries, w.known
    PROVE  /\ \A generation, revision \in Nat : ApplyEvent(w, generation, revision).known
           /\ \A row \in Rows : ApplyRow(w, row).known
<1>1. \A v \in Entries, generation, revision \in Nat :
          v.known => ApplyEvent(v, generation, revision).known
  BY DEF ApplyEvent, Entries
<1>2. \A row \in Rows : MergeRow(w, row) \in Entries /\ MergeRow(w, row).known
  BY DEF MergeRow, Entries, Rows
<1>3. \A row \in Rows : ApplyRow(w, row).known
  BY <1>1, <1>2 DEF ApplyRow, Rows
<1> QED
  BY <1>1, <1>3

\* What the worker and the stream may still say of the newest generation and
\* event when the worker takes a row that is not ahead, and keeps the header or
\* takes that.
LEMMA RowTaken ==
    ASSUME WorkerTypeOK, NothingAhead, KnownWhilePresent,
           UNCHANGED <<recordVars, announce, bus>>,
           NEW row \in Rows, Behind(row.generation, row.revision),
           worker' = ApplyRow(worker, row),
           UNCHANGED header \/ (~header'.taken /\ (header.taken => row = header.row))
    PROVE  /\ NothingAhead'
           /\ \A n \in Nat : HasGeneration(n) => HasGeneration(n)'
           /\ HasNewest => HasNewest'
<1>1. RecordTypes /\ worker \in Entries /\ worker.known
  BY DEF WorkerTypeOK, StreamTypes, KnownWhilePresent
<1>2. Behind(worker.generation, worker.hook_revision)
  BY DEF NothingAhead
<1>3. /\ Behind(worker'.generation, worker'.hook_revision)
      /\ worker.generation = manifest.generation \/ row.generation = manifest.generation =>
            worker'.generation = manifest.generation
      /\ \/ /\ worker.generation = manifest.generation
            /\ worker.hook_revision = manifest.last_hook.revision
         \/ /\ row.generation = manifest.generation
            /\ row.revision = manifest.last_hook.revision
         => /\ worker'.generation = manifest.generation
            /\ worker'.hook_revision = manifest.last_hook.revision
  BY <1>1, <1>2, RowApplied
<1>4. NothingAhead'
  BY <1>3 DEF NothingAhead, Behind, recordVars
<1>5. \A n \in Int : HasGeneration(n) => HasGeneration(n)'
  BY <1>3 DEF HasGeneration, recordVars
<1>6. HasNewest => HasNewest'
  <2>1. \A i \in DOMAIN bus.frames : i - 1 \in Int
    BY DEF WorkerTypeOK, StreamTypes
  <2>2. \A i \in DOMAIN bus.frames : HasGeneration(i - 1) => HasGeneration(i - 1)'
    BY <1>5, <2>1
  <2> QED
    BY <1>3, <2>2 DEF HasNewest, recordVars
<1> QED
  BY <1>4, <1>5, <1>6

\* The frames behind the one that is taken.
LEMMA TailFrames ==
    ASSUME NEW s \in Seq(Frames), s # <<>>
    PROVE  /\ Len(s) \in Nat /\ Len(s) > 0 /\ Head(s) = s[1] /\ Head(s) \in Frames
           /\ 1 \in DOMAIN s
           /\ Len(Tail(s)) = Len(s) - 1
           /\ DOMAIN s = 1..Len(s) /\ DOMAIN Tail(s) = 1..(Len(s) - 1)
           /\ \A i \in 1..(Len(s) - 1) : Tail(s)[i] = s[i + 1]
           /\ \A i \in DOMAIN s : i # 1 => i - 1 \in DOMAIN Tail(s) /\ Tail(s)[i - 1] = s[i]
OBVIOUS

\* What a frame that is not ahead does to the worker's entry.
LEMMA FrameApplied ==
    ASSUME WorkerTypeOK, KnownWhilePresent, NEW f \in Frames, f.type # "session_removed",
           Behind(worker.generation, worker.hook_revision),
           f.type = "event" => Behind(f.generation, f.revision),
           f.type = "session" => Behind(f.row.generation, f.row.revision),
           worker' = ApplyFrame(worker, f)
    PROVE  /\ Behind(worker'.generation, worker'.hook_revision)
           /\ \/ worker.generation = manifest.generation
              \/ f.type = "session" /\ f.row.generation = manifest.generation
              => worker'.generation = manifest.generation
           /\ \/ /\ worker.generation = manifest.generation
                 /\ worker.hook_revision = manifest.last_hook.revision
              \/ /\ worker.generation = manifest.generation /\ f.type = "event"
                 /\ f.generation = manifest.generation
                 /\ f.revision = manifest.last_hook.revision
              => /\ worker'.generation = manifest.generation
                 /\ worker'.hook_revision = manifest.last_hook.revision
<1>0. RecordTypes /\ worker \in Entries /\ worker.known
  BY DEF WorkerTypeOK, StreamTypes, KnownWhilePresent
<1>1. CASE f.type = "event"
  <2>1. f.generation \in Nat /\ f.revision \in Nat
    BY <1>1 DEF Frames
  <2>2. worker' = ApplyEvent(worker, f.generation, f.revision)
    BY <1>0, <1>1 DEF ApplyFrame
  <2> QED
    BY <1>0, <1>1, <2>1, <2>2, EventApplied
<1>2. CASE f.type = "session"
  <2>1. f.row \in Rows
    BY <1>2 DEF Frames
  <2>2. worker' = ApplyRow(worker, f.row)
    BY <1>2 DEF ApplyFrame
  <2> QED
    BY <1>0, <1>2, <2>1, <2>2, RowApplied
<1> QED
  BY <1>1, <1>2 DEF Frames

\* The worker takes a frame: what it was the bearer of is now the worker's.
LEMMA FrameTaken ==
    ASSUME WorkerTypeOK, NothingAhead, KnownWhilePresent, TakeFrame
    PROVE  /\ NothingAhead'
           /\ HasGeneration(Len(bus.frames)) => HasGeneration(Len(bus.frames))'
           /\ HasNewest => HasNewest'
<1>0. /\ bus.frames \in Seq(Frames) /\ bus.frames # <<>> /\ bus'.frames = Tail(bus.frames)
      /\ UNCHANGED <<manifest, holder, announce, header>> /\ ~header.taken
      /\ worker' = ApplyFrame(worker, Head(bus.frames))
  BY DEF TakeFrame, WorkerTypeOK, StreamTypes, recordVars
<1> DEFINE f == bus.frames[1]
<1>1. PICK k \in Nat : k = Len(bus.frames)
  BY <1>0
<1>2. /\ k > 0 /\ f \in Frames /\ 1 \in DOMAIN bus.frames /\ DOMAIN bus.frames = 1..k
      /\ Len(bus'.frames) = k - 1 /\ DOMAIN bus'.frames = 1..(k - 1)
      /\ \A i \in 1..(k - 1) : bus'.frames[i] = bus.frames[i + 1]
      /\ Head(bus.frames) = f
  BY <1>0, <1>1, TailFrames
<1>3. /\ f.type # "session_removed" /\ Behind(worker.generation, worker.hook_revision)
      /\ f.type = "event" => Behind(f.generation, f.revision)
      /\ f.type = "session" => Behind(f.row.generation, f.row.revision)
  BY <1>2 DEF NothingAhead, KnownWhilePresent
<1>4. worker' = ApplyFrame(worker, f)
  BY <1>0, <1>2
<1> HIDE DEF f
<1>5. /\ Behind(worker'.generation, worker'.hook_revision)
      /\ \/ worker.generation = manifest.generation
         \/ f.type = "session" /\ f.row.generation = manifest.generation
         => worker'.generation = manifest.generation
      /\ \/ /\ worker.generation = manifest.generation
            /\ worker.hook_revision = manifest.last_hook.revision
         \/ /\ worker.generation = manifest.generation /\ f.type = "event"
            /\ f.generation = manifest.generation
            /\ f.revision = manifest.last_hook.revision
         => /\ worker'.generation = manifest.generation
            /\ worker'.hook_revision = manifest.last_hook.revision
  BY <1>2, <1>3, <1>4, FrameApplied
<1>6. \A i \in 1..(k - 1) : i + 1 \in 1..k
  OBVIOUS
<1>7. NothingAhead'
  BY <1>0, <1>2, <1>5, <1>6 DEF NothingAhead, Behind
<1>8. ASSUME NEW n \in 1..k, HasGeneration(n) PROVE HasGeneration(n - 1)'
  <2>1. CASE worker.generation = manifest.generation
    BY <1>0, <1>5, <2>1 DEF HasGeneration
  <2>2. CASE worker.generation # manifest.generation
    <3>1. PICK j \in 1..n : /\ bus.frames[j].type = "session"
                            /\ bus.frames[j].row.generation = manifest.generation
      BY <1>0, <1>8, <2>2 DEF HasGeneration
    <3>2. CASE j = 1
      BY <1>0, <1>5, <3>1, <3>2 DEF HasGeneration, f
    <3>3. CASE j # 1
      <4>1. j - 1 \in 1..(n - 1) /\ j - 1 \in 1..(k - 1) /\ (j - 1) + 1 = j
        BY <3>3
      <4>2. bus'.frames[j - 1] = bus.frames[j]
        BY <1>2, <4>1
      <4> QED
        BY <1>0, <3>1, <4>1, <4>2 DEF HasGeneration
    <3> QED
      BY <3>2, <3>3
  <2> QED
    BY <2>1, <2>2
<1>9. HasGeneration(Len(bus.frames)) => HasGeneration(Len(bus.frames))'
  <2>1. k \in 1..k
    BY <1>2
  <2> QED
    BY <1>1, <1>2, <1>8, <2>1
<1>10. ASSUME HasNewest PROVE HasNewest'
  <2>1. CASE \E i \in DOMAIN bus.frames :
                 /\ bus.frames[i].type = "event"
                 /\ bus.frames[i].generation = manifest.generation
                 /\ bus.frames[i].revision = manifest.last_hook.revision
                 /\ HasGeneration(i - 1)
    <3>1. PICK i \in 1..k :
                 /\ bus.frames[i].type = "event"
                 /\ bus.frames[i].generation = manifest.generation
                 /\ bus.frames[i].revision = manifest.last_hook.revision
                 /\ HasGeneration(i - 1)
      BY <1>2, <2>1
    <3>2. CASE i = 1
      <4>1. \A j \in 1..(1 - 1) : FALSE
        OBVIOUS
      <4>2. worker.generation = manifest.generation
        BY <1>0, <3>1, <3>2, <4>1 DEF HasGeneration
      <4> QED
        BY <1>0, <1>5, <3>1, <3>2, <4>2 DEF HasNewest, f
    <3>3. CASE i # 1
      <4>1. i - 1 \in 1..(k - 1) /\ i - 1 \in 1..k /\ (i - 1) + 1 = i
        BY <3>3
      <4>2. bus'.frames[i - 1] = bus.frames[i]
        BY <1>2, <4>1
      <4>3. HasGeneration((i - 1) - 1)'
        BY <1>8, <3>1, <4>1
      <4> QED
        BY <1>0, <1>2, <3>1, <4>1, <4>2, <4>3 DEF HasNewest
    <3> QED
      BY <3>2, <3>3
  <2> QED
    BY <1>0, <1>5, <1>10, <2>1 DEF HasNewest
<1> QED
  BY <1>7, <1>9, <1>10

\* The steps of the worker and of its connection.
LEMMA PumpCurrent ==
    ASSUME WorkerTypeOK, CurrentInv, Pump \/ LoseConnection \/ Poll
    PROVE  CurrentInv'
<1>0. /\ RecordTypes /\ StreamTypes /\ worker \in Entries /\ bus.frames \in Seq(Frames)
      /\ header.row \in Rows /\ Row(manifest) \in Rows
      /\ bus \in [open : BOOLEAN, frames : Seq(Frames)]
  BY ValuesTyped DEF WorkerTypeOK, RecordTypes, StreamTypes
<1>1. UNCHANGED <<recordVars, announce>> /\ RestartHoldsLedger'
  BY DEF CurrentInv, RestartHoldsLedger, Pump, Subscribe, TakeHeader, ApplyHeader, TakeFrame,
         StreamEnds, LoseConnection, Poll, recordVars
<1>2. /\ Row(manifest).generation = manifest.generation
      /\ Row(manifest).revision = manifest.last_hook.revision
      /\ Behind(Row(manifest).generation, Row(manifest).revision)
  BY <1>0, RecordNumbers DEF Row, Behind
\* Fewer frames and no frame the worker has not seen.
<1>3. ASSUME NEW k \in {0, 1},
             \A i \in DOMAIN bus'.frames :
                 /\ i \in Nat /\ i + k \in DOMAIN bus.frames
                 /\ bus'.frames[i] = bus.frames[i + k]
      PROVE  /\ \A i \in DOMAIN bus'.frames : bus'.frames[i].type = "session_removed" =>
                   \E j \in DOMAIN bus.frames : bus.frames[j].type = "session_removed"
             /\ NothingAhead /\ UNCHANGED <<worker, header>> => NothingAhead'
  BY <1>1, <1>3 DEF NothingAhead, Behind, recordVars
<1>4. CASE Subscribe
  <2>1. /\ bus'.frames = <<>> /\ link = "down" /\ link' = "subscribed"
        /\ UNCHANGED <<worker, header>> /\ ~header.taken
    BY <1>4 DEF Subscribe, CurrentInv
  <2>2. DOMAIN bus'.frames = {}
    BY <2>1
  <2> QED
    BY <1>1, <2>1, <2>2 DEF CurrentInv, KnownWhilePresent, NothingAhead, Behind, StreamComplete,
                            recordVars
<1>5. CASE TakeHeader
  <2>1. /\ header' = HostSnapshot /\ link' = "following" /\ UNCHANGED <<bus, worker>>
    BY <1>5 DEF TakeHeader
  <2>2. present => header'.taken /\ header'.present /\ header'.row = Row(manifest)
    BY <2>1 DEF HostSnapshot
  <2>3. present => NothingAhead \/ failed_restart
    BY DEF CurrentInv
  <2>4. present' => KnownWhilePresent'
    BY <1>1, <2>1, <2>2 DEF CurrentInv, KnownWhilePresent, recordVars
  <2>5. present' /\ ~failed_restart' => NothingAhead'
    BY <1>1, <1>2, <2>1, <2>2, <2>3 DEF NothingAhead, Behind, recordVars
  <2>6. present' => StreamComplete'
    BY <1>1, <1>2, <2>2 DEF StreamComplete, HasGeneration, HasNewest, recordVars
  <2> QED
    BY <1>1, <2>1, <2>4, <2>5, <2>6 DEF CurrentInv
\* A row is applied and the header, if it was not that row, stays.
<1>6. ASSUME UNCHANGED <<bus, link>>, UNCHANGED header \/ ~header'.taken,
             present => \E row \in Rows :
                 /\ worker' = ApplyRow(worker, row)
                 /\ UNCHANGED header \/ (header.taken => row = header.row)
                 /\ NothingAhead => Behind(row.generation, row.revision)
      PROVE  CurrentInv'
  <2>1. ASSUME present
        PROVE  KnownWhilePresent' /\ (~failed_restart => NothingAhead' /\ StreamComplete')
    <3>1. PICK row \in Rows :
                 /\ worker' = ApplyRow(worker, row)
                 /\ UNCHANGED header \/ (header.taken => row = header.row)
                 /\ NothingAhead => Behind(row.generation, row.revision)
      BY <1>6, <2>1
    <3>2. KnownWhilePresent
      BY <2>1 DEF CurrentInv
    <3>3. KnownWhilePresent'
      BY <1>0, <1>6, <3>1, <3>2, StaysKnown DEF KnownWhilePresent
    <3>4. ASSUME ~failed_restart PROVE NothingAhead' /\ StreamComplete'
      <4>1. NothingAhead /\ StreamComplete
        BY <2>1, <3>4 DEF CurrentInv
      <4>2. /\ NothingAhead'
            /\ \A n \in Nat : HasGeneration(n) => HasGeneration(n)'
            /\ HasNewest => HasNewest'
        BY <1>1, <1>6, <3>1, <3>2, <4>1, RowTaken
      <4>3. RowOwed => RowOwed'
        BY <1>1 DEF RowOwed, recordVars
      <4>4. HasGeneration(Len(bus.frames)) => HasGeneration(Len(bus.frames))'
        <5>1. PICK n \in Nat : n = Len(bus.frames)
          BY <1>0
        <5>2. n = Len(bus'.frames)
          BY <1>6, <5>1
        <5> QED
          BY <4>2, <5>1, <5>2
      <4> QED
        BY <1>6, <4>1, <4>2, <4>3, <4>4 DEF StreamComplete
    <3> QED
      BY <3>3, <3>4
  <2> QED
    BY <1>1, <1>6, <2>1 DEF CurrentInv, recordVars
<1>7. CASE ApplyHeader
  <2>1. /\ UNCHANGED <<bus, link>> /\ ~header'.taken /\ header.taken
        /\ worker' = ApplySnapshot(worker, header)
    BY <1>7 DEF ApplyHeader, NoHeader
  <2>2. present => worker' = ApplyRow(worker, header.row)
    BY <2>1 DEF CurrentInv, KnownWhilePresent, ApplySnapshot
  <2>3. NothingAhead => Behind(header.row.generation, header.row.revision)
    BY <2>1 DEF NothingAhead
  <2> QED
    BY <1>0, <1>6, <2>1, <2>2, <2>3
<1>8. CASE Poll
  <2>1. UNCHANGED <<bus, link, header>>
    BY <1>8 DEF Poll
  <2>2. present => worker' = ApplyRow(worker, Row(manifest))
    BY <1>8 DEF Poll, HostSnapshot, ApplySnapshot
  <2> QED
    BY <1>0, <1>2, <1>6, <2>1, <2>2
<1>9. CASE TakeFrame
  <2>1. /\ link = "following" /\ UNCHANGED <<link, header>> /\ ~header.taken
        /\ bus.frames # <<>> /\ worker' = ApplyFrame(worker, Head(bus.frames))
        /\ bus'.open = bus.open
    BY <1>0, <1>9 DEF TakeFrame
  <2>2. PICK k \in {0, 1} : \A i \in DOMAIN bus'.frames :
                                /\ i \in Nat /\ i + k \in DOMAIN bus.frames
                                /\ bus'.frames[i] = bus.frames[i + k]
    BY <1>9, CutFrames
  <2>3. ASSUME present PROVE KnownWhilePresent'
    <3>1. KnownWhilePresent
      BY <2>3 DEF CurrentInv
    <3>2. Head(bus.frames) \in Frames /\ Head(bus.frames).type # "session_removed"
      BY <1>0, <2>1, <3>1, TailFrames DEF KnownWhilePresent
    <3>3. PICK f \in Frames : f = Head(bus.frames)
      BY <3>2
    <3>4. worker'.known
      <4>1. CASE f.type = "event"
        <5>1. f.generation \in Nat /\ f.revision \in Nat
          BY <4>1 DEF Frames
        <5> QED
          BY <1>0, <2>1, <3>1, <3>3, <4>1, <5>1, StaysKnown DEF ApplyFrame, KnownWhilePresent
      <4>2. CASE f.type = "session"
        <5>1. f.row \in Rows
          BY <4>2 DEF Frames
        <5> QED
          BY <1>0, <2>1, <3>1, <3>3, <4>2, <5>1, StaysKnown DEF ApplyFrame, KnownWhilePresent
      <4> QED
        BY <3>2, <3>3, <4>1, <4>2 DEF Frames
    <3> QED
      BY <1>3, <2>1, <2>2, <3>1, <3>4 DEF KnownWhilePresent
  <2>4. ASSUME present, ~failed_restart PROVE NothingAhead' /\ StreamComplete'
    <3>1. NothingAhead /\ StreamComplete /\ KnownWhilePresent
      BY <2>4 DEF CurrentInv
    <3>2. /\ NothingAhead'
          /\ HasGeneration(Len(bus.frames)) => HasGeneration(Len(bus.frames))'
          /\ HasNewest => HasNewest'
      BY <1>9, <3>1, FrameTaken
    <3>3. RowOwed => RowOwed'
      BY <1>1 DEF RowOwed, recordVars
    <3> QED
      BY <2>1, <3>1, <3>2, <3>3 DEF StreamComplete
  <2> QED
    BY <1>1, <2>1, <2>3, <2>4 DEF CurrentInv, recordVars
<1>10. CASE StreamEnds
  <2>1. link' = "down" /\ ~header.taken /\ UNCHANGED <<bus, header, worker>>
    BY <1>10 DEF StreamEnds
  <2> QED
    BY <1>1, <2>1 DEF CurrentInv, KnownWhilePresent, NothingAhead, Behind, StreamComplete,
                      recordVars
<1>11. CASE LoseConnection
  <2>1. ~bus'.open /\ UNCHANGED <<link, header, worker>>
    BY <1>11 DEF LoseConnection
  <2>2. PICK k \in {0, 1} : \A i \in DOMAIN bus'.frames :
                                /\ i \in Nat /\ i + k \in DOMAIN bus.frames
                                /\ bus'.frames[i] = bus.frames[i + k]
    BY <1>11, CutFrames
  <2>3. present => KnownWhilePresent'
    BY <1>3, <2>1, <2>2 DEF CurrentInv, KnownWhilePresent
  <2>4. NothingAhead => NothingAhead'
    BY <1>3, <2>1, <2>2
  <2> QED
    BY <1>1, <2>1, <2>3, <2>4 DEF CurrentInv, StreamComplete, recordVars
<1> QED
  BY <1>4, <1>5, <1>7, <1>8, <1>9, <1>10, <1>11 DEF Pump

\* What the worker has not read and its entry make up the record's newest state.
THEOREM StreamOwesNothing == Spec => []CurrentInv
<1>1. Init => CurrentInv
  <2> SUFFICES ASSUME Init PROVE CurrentInv
    OBVIOUS
  <2>1. /\ manifest = FirstManifest /\ holder = NoThread /\ ~header.taken /\ link = "down"
        /\ restart = [pc |-> "idle", prior |-> FirstManifest]
        /\ worker.known /\ worker.generation = 1 /\ worker.hook_revision = 0
        /\ \A t \in Announcers : announce[t].step = "none"
        /\ DOMAIN bus.frames = {}
    BY DEF Init, RecordInit, NoHeader, Quiet
  <2>2. /\ manifest.generation = 1 /\ manifest.hook_revision = 0
        /\ manifest.last_hook.revision = 0
        /\ restart.prior.hook_revision = 0 /\ restart.prior.last_hook.revision = 0
    BY <2>1 DEF FirstManifest, NoHook
  <2>3. RestartHoldsLedger
    BY <2>1, <2>2 DEF RestartHoldsLedger, NoThread, Restarter, Announcers
  <2> QED
    BY <2>1, <2>2, <2>3 DEF CurrentInv, KnownWhilePresent, NothingAhead, Behind, StreamComplete
<1>2. WorkerTypeOK /\ WorkerTypeOK' /\ RemovalInv /\ CurrentInv /\ [Next]_vars => CurrentInv'
  <2> SUFFICES ASSUME WorkerTypeOK, WorkerTypeOK', RemovalInv, CurrentInv, [Next]_vars
               PROVE  CurrentInv'
    OBVIOUS
  <2>1. CASE UNCHANGED vars
    BY <2>1 DEF vars, recordVars, CurrentInv, RestartHoldsLedger, KnownWhilePresent, NothingAhead,
                Behind, StreamComplete, RowOwed, HasGeneration, HasNewest
  <2> QED
    BY <2>1, HostCurrent, PumpCurrent DEF Next
<1> QED
  BY <1>1, <1>2, WorkerTypes, RemovalOrder, PTL DEF Spec

\* A worker that follows and has read everything knows the newest accepted event
\* of the session's current generation.
THEOREM WorkerCurrent == Spec => []WorkerIsCurrent
<1>1. WorkerTypeOK /\ CurrentInv => WorkerIsCurrent
  <2> SUFFICES ASSUME WorkerTypeOK, CurrentInv, CaughtUp, present, ~failed_restart
               PROVE  /\ worker.known /\ worker.generation = manifest.generation
                      /\ worker.hook_revision = manifest.last_hook.revision
    BY DEF WorkerIsCurrent
  <2>1. NothingAhead /\ StreamComplete /\ KnownWhilePresent /\ RestartHoldsLedger
    BY DEF CurrentInv
  <2>2. /\ ~header.taken /\ Len(bus.frames) = 0 /\ DOMAIN bus.frames = {}
        /\ link = "following" /\ bus.open /\ holder = NoThread
        /\ announce[Restarter].step = "none"
    BY DEF CaughtUp, Announcers, Quiet
  <2>3. ~RowOwed /\ holder # Poster
    BY <2>1, <2>2 DEF RowOwed, RestartHoldsLedger, NoThread, Restarter, Poster
  <2>4. HasGeneration(0) /\ HasNewest
    BY <2>1, <2>2, <2>3 DEF StreamComplete
  <2>5. worker.generation = manifest.generation
    BY <2>2, <2>4 DEF HasGeneration
  <2>6. /\ manifest.last_hook.revision \in Nat /\ worker.hook_revision \in Nat
        /\ manifest.generation \in Nat
    BY RecordNumbers DEF WorkerTypeOK, StreamTypes, Entries
  <2>7. worker.hook_revision <= manifest.last_hook.revision
    BY <2>1, <2>5, <2>6 DEF NothingAhead, Behind
  <2>8. \/ manifest.last_hook.revision = 0
        \/ worker.hook_revision = manifest.last_hook.revision
    BY <2>2, <2>3, <2>4 DEF HasNewest
  <2> QED
    BY <2>1, <2>5, <2>6, <2>7, <2>8 DEF KnownWhilePresent
<1> QED
  BY <1>1, WorkerTypes, StreamOwesNothing, PTL
=============================================================================
