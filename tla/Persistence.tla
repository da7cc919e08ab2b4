---------------------------- MODULE Persistence ----------------------------
(***************************************************************************)
(* The session host's persistence service                                  *)
(* (crates/paneflow-host/src/persistence.rs): one writer thread that puts  *)
(* manifest revisions on disk, fed by any number of host threads.          *)
(*                                                                         *)
(* A manifest's bytes are abstracted to the revision number that           *)
(* SessionHost::persist_revision gives the snapshot under the manifest     *)
(* lock, and to a size.  The number is taken under that lock but the       *)
(* submission happens after it is released, so the two are separate        *)
(* actions and the stamped records wait in `transit', to be submitted in   *)
(* any order.  The code between two acquisitions of the queue mutex is one *)
(* action; a storage operation of the writer is an action of its own.      *)
(* BTreeMaps keyed by session are sets of records with one record per      *)
(* session.                                                                *)
(***************************************************************************)
EXTENDS Integers, Sequences, FiniteSets, Functions

CONSTANTS
    Sessions,          \* session identities; the application never reuses one
    Sizes,             \* the encoded sizes of a revision
    Budget,            \* QUEUE_BUDGET_BYTES
    FinalReserve,      \* FINAL_RESERVE_BYTES
    MaxRevision,       \* bound: revisions stamped per session
    MaxTransit,        \* bound: host threads between a stamp and its submission
    MaxDrains,         \* bound: calls of drain
    MaxExclusive,      \* bound: exclusive jobs queued at a time
    SlowDrain          \* may a draining thread be held up for a whole
                       \* RETRY_INTERVAL between two of its critical sections?

ASSUME ConstantsAssumption ==
    /\ Sizes \subseteq Nat \ {0}
    /\ Budget \in Nat
    /\ FinalReserve \in Nat
    /\ MaxRevision \in Nat
    /\ MaxTransit \in Nat
    /\ MaxDrains \in Nat
    /\ MaxExclusive \in Nat
    /\ SlowDrain \in BOOLEAN

VARIABLES
    \* SessionPersistence, one per session
    revision,          \* revisions stamped so far
    written,           \* the newest revision reported written
    removed,           \* mark_removed was called
    reserved,          \* a final reservation is held
    error,             \* a storage error is shown
    \* host threads between two critical sections
    transit,           \* records stamped, not submitted yet
    removing,          \* sessions marked removed, Job::Remove not queued yet
    \* Queue
    ordered, metadata, metadata_order, pending_final, queued_bytes, stopped,
    \* the writer thread
    wpc,               \* where writer_loop is
    current,           \* the job it holds, at most one
    failed,            \* whether the job ended in an error
    prefer_metadata,
    \* storage
    disk,              \* the revision in each manifest file, 0 when absent
    healthy,           \* from now on no storage operation fails
    \* the thread in drain
    drain, drains,
    \* history
    acked,             \* newest revision acknowledged to a waiting caller
    accepted_final,    \* newest Final revision whose submit returned Ok
    deleted,           \* sessions whose manifest the writer has deleted
    drain_floor        \* accepted_final when the drain began

ledger  == <<revision, written, removed, reserved, error>>
queue   == <<ordered, metadata, metadata_order, pending_final, queued_bytes, stopped>>
writer  == <<wpc, current, failed, prefer_metadata>>
storage == <<disk, healthy>>
drainer == <<drain, drains, drain_floor>>
history == <<acked, accepted_final, deleted>>
vars    == <<ledger, transit, removing, queue, writer, storage, drainer, history>>

Classes == {"Metadata", "Critical", "Final"}

Record == [kind : {"manifest"}, session : Sessions, revision : Nat \ {0},
           class : Classes, size : Nat \ {0}]

Removal   == [kind : {"remove"}, session : Sessions]
Exclusive == [kind : {"exclusive"}]
Barrier   == [kind : {"barrier"}, drain : Nat]
Job       == Record \cup Removal \cup Exclusive \cup Barrier

JobBytes(job) == IF job.kind = "manifest" THEN job.size ELSE 0

Monus(a, b) == IF b > a THEN 0 ELSE a - b     \* saturating_sub

OfSession(records, s) == {r \in records : r.session = s}

Elems(q) == {q[i] : i \in DOMAIN q}

\* BTreeMap::insert
Put(records, r) == {q \in records : q.session # r.session} \cup {r}

ReservedBytes == FinalReserve * Cardinality({s \in Sessions : reserved[s]})

Admitted(bytes) == queued_bytes + bytes <= Budget

\* The values of a map, in the order of its keys: the order of session
\* identities is arbitrary, so any sequence that lists the set.
Listings(S) ==
    {q \in [1..Cardinality(S) -> S] : \A r \in S : \E i \in DOMAIN q : q[i] = r}

\* Mutant: requeued finals are not counted.
UncountedRequeue(q) == 0 * Len(q)

\* queued_bytes += record.bytes() for every record of a listing
BytesOf(q) == SumFunction([i \in DOMAIN q |-> q[i].size])

Newer(a, b) == IF a > b THEN a ELSE b
-----------------------------------------------------------------------------
Init ==
    /\ revision = [s \in Sessions |-> 0]
    /\ written = [s \in Sessions |-> 0]
    /\ removed = [s \in Sessions |-> FALSE]
    /\ reserved = [s \in Sessions |-> FALSE]
    /\ error = [s \in Sessions |-> FALSE]
    /\ transit = {}
    /\ removing = {}
    /\ ordered = <<>>
    /\ metadata = {}
    /\ metadata_order = <<>>
    /\ pending_final = {}
    /\ queued_bytes = 0
    /\ stopped = FALSE
    /\ wpc = "idle"
    /\ current = {}
    /\ failed = FALSE
    /\ prefer_metadata = FALSE
    /\ disk = [s \in Sessions |-> 0]
    /\ healthy = FALSE
    /\ drain = "idle"
    /\ drains = 0
    /\ acked = [s \in Sessions |-> 0]
    /\ accepted_final = [s \in Sessions |-> 0]
    /\ deleted = {}
    /\ drain_floor = [s \in Sessions |-> 0]
-----------------------------------------------------------------------------
(***************************************************************************)
(* Host threads                                                            *)
(***************************************************************************)

\* Mutant: next_revision hands out the counter before it is incremented.
StampsOldCounter(s, c, z) ==
    /\ ~stopped
    /\ revision[s] < MaxRevision
    /\ Cardinality(transit) < MaxTransit
    /\ revision' = [revision EXCEPT ![s] = @ + 1]
    /\ transit' = transit \cup
           {[kind |-> "manifest", session |-> s, revision |-> revision[s],
             class |-> c, size |-> z]}
    /\ UNCHANGED <<written, removed, reserved, error, removing, queue, writer,
                   storage, drainer, history>>

\* persist_revision: snapshot and number under the manifest lock.
NextRevision(s, c, z) ==
    /\ ~stopped
    /\ revision[s] < MaxRevision
    /\ Cardinality(transit) < MaxTransit
    /\ revision' = [revision EXCEPT ![s] = @ + 1]
    /\ transit' = transit \cup
           {[kind |-> "manifest", session |-> s, revision |-> revision[s] + 1,
             class |-> c, size |-> z]}
    /\ UNCHANGED <<written, removed, reserved, error, removing, queue, writer,
                   storage, drainer, history>>

\* ManifestRevision::encode refuses the snapshot: its number is never used.
EncodeFails(s) ==
    /\ ~stopped
    /\ revision[s] < MaxRevision
    /\ revision' = [revision EXCEPT ![s] = @ + 1]
    /\ UNCHANGED <<written, removed, reserved, error, transit, removing, queue,
                   writer, storage, drainer, history>>

\* reserve_final, when a session is created or restarted.
ReserveFinal(s) ==
    /\ ~stopped
    /\ ~reserved[s] /\ ~removed[s]
    /\ reserved' = [reserved EXCEPT ![s] = TRUE]
    /\ UNCHANGED <<revision, written, removed, error, transit, removing, queue,
                   writer, storage, drainer, history>>

\* submit of a Metadata revision: it takes the place of the one that waits,
\* whatever their numbers, or needs room outside the final reservations.
SubmitMetadata(r) ==
    /\ r \in transit /\ r.class = "Metadata"
    /\ ~stopped
    /\ transit' = transit \ {r}
    /\ LET previous == OfSession(metadata, r.session)
       IN  \/ /\ previous # {}
              /\ \E p \in previous :
                    queued_bytes' = Monus(queued_bytes, p.size) + r.size
              /\ UNCHANGED metadata_order
              /\ metadata' = Put(metadata, r)
              /\ UNCHANGED error
           \/ /\ previous = {}
              /\ Admitted(ReservedBytes + r.size)
              /\ metadata_order' = Append(metadata_order, r.session)
              /\ queued_bytes' = queued_bytes + r.size
              /\ metadata' = Put(metadata, r)
              /\ UNCHANGED error
           \/ /\ previous = {}
              /\ ~Admitted(ReservedBytes + r.size)
              /\ error' = [error EXCEPT ![r.session] = TRUE]
              /\ UNCHANGED <<metadata, metadata_order, queued_bytes>>
    /\ UNCHANGED <<revision, written, removed, reserved, removing, ordered,
                   pending_final, stopped, writer, storage, drainer, 
                   acked, accepted_final, deleted>>

\* submit_and_wait.  A caller whose deadline passes leaves the job queued; its
\* receiver is gone and nothing here changes.
SubmitCritical(r) ==
    /\ r \in transit /\ r.class = "Critical"
    /\ ~stopped
    /\ transit' = transit \ {r}
    /\ \/ /\ Admitted(r.size)
          /\ queued_bytes' = queued_bytes + r.size
          /\ ordered' = Append(ordered, r)
          /\ UNCHANGED error
       \/ /\ ~Admitted(r.size)
          /\ error' = [error EXCEPT ![r.session] = TRUE]
          /\ UNCHANGED <<queued_bytes, ordered>>
    /\ UNCHANGED <<revision, written, removed, reserved, removing, metadata,
                   metadata_order, pending_final, stopped, writer, storage,
                   drainer, history>>

\* Mutant: the first final retained for a session stays, whatever comes later.
RetainFirst(records, r) ==
    IF OfSession(records, r.session) # {} THEN records ELSE Put(records, r)

\* retain_pending_final: the newest revision of a session is kept.
Retain(records, r) ==
    IF \E held \in OfSession(records, r.session) : held.revision >= r.revision
    THEN records
    ELSE Put(records, r)

\* submit of a Final revision: without room it is retained for the retry.
SubmitFinal(r) ==
    /\ r \in transit /\ r.class = "Final"
    /\ ~stopped
    /\ transit' = transit \ {r}
    /\ accepted_final' = [accepted_final EXCEPT ![r.session] = Newer(@, r.revision)]
    /\ \/ /\ Admitted(r.size)
          /\ queued_bytes' = queued_bytes + r.size
          /\ ordered' = Append(ordered, r)
          /\ UNCHANGED <<error, pending_final>>
       \/ /\ ~Admitted(r.size)
          /\ error' = [error EXCEPT ![r.session] = TRUE]
          /\ pending_final' = Retain(pending_final, r)
          /\ UNCHANGED <<queued_bytes, ordered>>
    /\ UNCHANGED <<revision, written, removed, reserved, removing, metadata,
                   metadata_order, stopped, writer, storage, drainer, 
                   acked, deleted>>

\* enqueue_remove, before it takes the queue lock.
MarkRemoved(s) ==
    /\ ~stopped
    /\ ~removed[s]
    /\ removed' = [removed EXCEPT ![s] = TRUE]
    /\ removing' = removing \cup {s}
    /\ UNCHANGED <<revision, written, reserved, error, transit, queue, writer,
                   storage, drainer, history>>

\* enqueue_remove under the lock, then release_final.
EnqueueRemove(s) ==
    /\ s \in removing
    /\ ~stopped
    /\ removing' = removing \ {s}
    /\ LET previous == OfSession(metadata, s)
       IN  /\ metadata' = metadata \ previous
           /\ \/ previous = {} /\ UNCHANGED queued_bytes
              \/ \E p \in previous : queued_bytes' = Monus(queued_bytes, p.size)
    /\ pending_final' = pending_final \ OfSession(pending_final, s)
    /\ ordered' = Append(ordered, [kind |-> "remove", session |-> s])
    /\ reserved' = [reserved EXCEPT ![s] = FALSE]
    /\ UNCHANGED <<revision, written, removed, error, transit, metadata_order,
                   stopped, writer, storage, drainer, history>>

ExclusivesQueued == Cardinality({i \in DOMAIN ordered : ordered[i].kind = "exclusive"})

\* spawn_exclusive and run_exclusive: a closure that runs on the writer.  They
\* may come for ever: only how many wait at once is bounded.
SpawnExclusive ==
    /\ ~stopped
    /\ ExclusivesQueued < MaxExclusive
    /\ ordered' = Append(ordered, [kind |-> "exclusive"])
    /\ UNCHANGED <<ledger, transit, removing, metadata, metadata_order,
                   pending_final, queued_bytes, stopped, writer, storage,
                   drainer, history>>

\* Drop: nobody is inside a call of the service any more.
Stop ==
    /\ ~stopped
    /\ transit = {} /\ removing = {}
    /\ drain \in {"idle", "ok", "failed"}
    /\ stopped' = TRUE
    /\ UNCHANGED <<ledger, transit, removing, ordered, metadata, metadata_order,
                   pending_final, queued_bytes, writer, storage, drainer,
                   history>>
-----------------------------------------------------------------------------
(***************************************************************************)
(* drain, called by shutdown_until                                         *)
(***************************************************************************)

\* Every retained final goes back to the ordered queue, past the budget.
Requeue ==
    \E q \in Listings(pending_final) :
        /\ ordered' = ordered \o q
        /\ queued_bytes' = queued_bytes + BytesOf(q)
        /\ pending_final' = {}

\* The first critical section.
DrainBegin ==
    /\ ~stopped
    /\ drain \in {"idle", "ok", "failed"}
    /\ drains < MaxDrains
    /\ drains' = drains + 1
    /\ drain' = "requeued"
    /\ drain_floor' = accepted_final
    /\ Requeue
    /\ UNCHANGED <<ledger, transit, removing, metadata, metadata_order, stopped,
                   writer, storage, history>>

\* The second: the barrier that the thread then waits on.
DrainBarrier ==
    /\ drain = "requeued"
    /\ drain' = "waiting"
    /\ ordered' = Append(ordered, [kind |-> "barrier", drain |-> drains])
    /\ UNCHANGED <<ledger, transit, removing, metadata, metadata_order,
                   pending_final, queued_bytes, stopped, writer, storage, drains,
                   drain_floor, history>>

\* wait: the deadline passes first; the barrier stays queued.
DrainTimeout ==
    /\ drain = "waiting"
    /\ drain' = "failed"
    /\ UNCHANGED <<ledger, transit, removing, queue, writer, storage, drains,
                   drain_floor, history>>

\* Mutant: an answered barrier is taken for success.
BarrierIsSuccess ==
    /\ drain = "signalled"
    /\ drain' = "ok"
    /\ UNCHANGED <<ledger, transit, removing, queue, writer, storage, drains,
                   drain_floor, history>>

\* The third: whatever is retained now is reported as not durable.
DrainReport ==
    /\ drain = "signalled"
    /\ drain' = IF pending_final = {} THEN "ok" ELSE "failed"
    /\ UNCHANGED <<ledger, transit, removing, queue, writer, storage, drains,
                   drain_floor, history>>
-----------------------------------------------------------------------------
(***************************************************************************)
(* The writer thread                                                       *)
(***************************************************************************)

\* An entry of metadata_order whose metadata was not taken back by a removal.
Serves(i) == OfSession(metadata, metadata_order[i]) # {}

NoMetadata == \A i \in DOMAIN metadata_order : ~Serves(i)

BarrierNext == ordered # <<>> /\ Head(ordered).kind = "barrier"

MetadataFirst == prefer_metadata \/ BarrierNext

\* take_next serves metadata: stale entries of the order are skipped for good.
TakeMetadata ==
    /\ wpc = "idle"
    /\ MetadataFirst \/ ordered = <<>>
    /\ \E i \in DOMAIN metadata_order :
          /\ Serves(i)
          /\ \A j \in 1..(i - 1) : ~Serves(j)
          /\ metadata_order' = SubSeq(metadata_order, i + 1, Len(metadata_order))
          /\ current' = OfSession(metadata, metadata_order[i])
          /\ metadata' = metadata \ OfSession(metadata, metadata_order[i])
    /\ wpc' = "taken"
    /\ prefer_metadata' = ~prefer_metadata
    /\ UNCHANGED <<ledger, transit, removing, ordered, pending_final,
                   queued_bytes, stopped, failed, storage, drainer, 
                   history>>

\* Mutant: a round of the ordered queue clears the order of the metadata.
TakeOrderedClears ==
    /\ wpc = "idle"
    /\ ordered # <<>>
    /\ metadata_order' = <<>>
    /\ current' = {Head(ordered)}
    /\ ordered' = Tail(ordered)
    /\ wpc' = "taken"
    /\ prefer_metadata' = ~prefer_metadata
    /\ UNCHANGED <<ledger, transit, removing, metadata, pending_final,
                   queued_bytes, stopped, failed, storage, drainer, 
                   history>>

\* take_next serves the ordered queue.
TakeOrdered ==
    /\ wpc = "idle"
    /\ ordered # <<>>
    /\ \/ ~MetadataFirst /\ UNCHANGED metadata_order
       \/ MetadataFirst /\ NoMetadata /\ metadata_order' = <<>>
    /\ current' = {Head(ordered)}
    /\ ordered' = Tail(ordered)
    /\ wpc' = "taken"
    /\ prefer_metadata' = ~prefer_metadata
    /\ UNCHANGED <<ledger, transit, removing, metadata, pending_final,
                   queued_bytes, stopped, failed, storage, drainer, 
                   history>>

QueueEmpty == ordered = <<>> /\ NoMetadata


\* A thread is between the critical sections of drain.
Draining == drain \in {"requeued", "waiting", "signalled"}

Asleep == {"sleeping", "sleeping_in_drain"}

\* Nothing queued and finals retained: wait_timeout(RETRY_INTERVAL).
RetrySleep ==
    /\ wpc = "idle"
    /\ QueueEmpty
    /\ ~stopped
    /\ pending_final # {}
    /\ wpc' = IF Draining THEN "sleeping_in_drain" ELSE "sleeping"
    /\ metadata_order' = <<>>
    /\ UNCHANGED <<ledger, transit, removing, ordered, metadata, pending_final,
                   queued_bytes, stopped, current, failed, prefer_metadata,
                   storage, drainer, history>>

\* A notification ends the wait; whatever is queued is taken first.
RetryWake ==
    /\ wpc \in Asleep
    /\ ~QueueEmpty \/ stopped
    /\ wpc' = "idle"
    /\ UNCHANGED <<ledger, transit, removing, queue, current, failed,
                   prefer_metadata, storage, drainer, history>>

\* Mutant: the wait runs out and the retained finals stay where they are.
RetryForgets ==
    /\ wpc \in Asleep
    /\ wpc = "sleeping_in_drain" /\ Draining => SlowDrain
    /\ wpc' = "idle"
    /\ UNCHANGED <<ledger, transit, removing, queue, current, failed,
                   prefer_metadata, storage, drainer, history>>

\* The wait ran out; work may have arrived since.  A wait that began inside a
\* drain outlasts it, unless the draining thread is held up that long.
RetryTimeout ==
    /\ wpc \in Asleep
    /\ wpc = "sleeping_in_drain" /\ Draining => SlowDrain
    /\ wpc' = "idle"
    /\ Requeue
    /\ UNCHANGED <<ledger, transit, removing, metadata, metadata_order, stopped,
                   current, failed, prefer_metadata, storage, drainer,
                   history>>

\* Nothing queued and the service dropped: retained finals are given up.
WriterExit ==
    /\ wpc = "idle"
    /\ QueueEmpty
    /\ stopped
    /\ wpc' = "exited"
    /\ metadata_order' = <<>>
    /\ UNCHANGED <<ledger, transit, removing, ordered, metadata, pending_final,
                   queued_bytes, stopped, current, failed, prefer_metadata,
                   storage, drainer, history>>

\* Mutant: a revision older than the written one is written back.
SkipsRemovedOnly(r) == removed[r.session]

\* Mutant: a removed session's revisions are still written.
SkipsOlderOnly(r) == r.revision < written[r.session]

\* write_revision's two early returns; both report success.
Skipped(r) == removed[r.session] \/ r.revision < written[r.session]

\* execute reports a manifest job's success to the caller of submit_and_wait,
\* that of a revision skipped for a removed session too.
Acknowledge(r) ==
    acked' = IF r.class = "Critical"
             THEN [acked EXCEPT ![r.session] = Newer(@, r.revision)]
             ELSE acked

SkipRevision ==
    /\ wpc = "taken"
    /\ \E r \in current :
          /\ r.kind = "manifest"
          /\ Skipped(r)
          /\ error' = [error EXCEPT ![r.session] = FALSE]
          /\ Acknowledge(r)
    /\ failed' = FALSE
    /\ wpc' = "settle"
    /\ UNCHANGED <<revision, written, removed, reserved, transit, removing,
                   queue, current, prefer_metadata, storage, drainer, 
                   accepted_final, deleted>>

\* The revision is to be written: the checks are behind, the file is not.
BeginWrite ==
    /\ wpc = "taken"
    /\ \E r \in current : r.kind = "manifest" /\ ~Skipped(r)
    /\ wpc' = "writing"
    /\ UNCHANGED <<ledger, transit, removing, queue, current, failed,
                   prefer_metadata, storage, drainer, history>>

WriteSucceeds ==
    /\ wpc = "writing"
    /\ \E r \in current :
          /\ r.kind = "manifest"
          /\ disk' = [disk EXCEPT ![r.session] = r.revision]
          /\ written' = [written EXCEPT ![r.session] = Newer(@, r.revision)]
          /\ error' = [error EXCEPT ![r.session] = FALSE]
          /\ Acknowledge(r)
    /\ failed' = FALSE
    /\ wpc' = "settle"
    /\ UNCHANGED <<revision, removed, reserved, transit, removing, queue,
                   current, prefer_metadata, healthy, drainer, 
                   accepted_final, deleted>>

\* The manifest was not replaced, or it was and the hook seed then failed.
WriteFails ==
    /\ wpc = "writing"
    /\ ~healthy
    /\ \E r \in current :
          /\ r.kind = "manifest"
          /\ \/ UNCHANGED disk
             \/ disk' = [disk EXCEPT ![r.session] = r.revision]
          /\ error' = [error EXCEPT ![r.session] = TRUE]
    /\ failed' = TRUE
    /\ wpc' = "settle"
    /\ UNCHANGED <<revision, written, removed, reserved, transit, removing,
                   queue, current, prefer_metadata, healthy, drainer, 
                   history>>

ExecuteRemove ==
    /\ wpc = "taken"
    /\ \E j \in current :
          /\ j.kind = "remove"
          /\ \/ /\ disk' = [disk EXCEPT ![j.session] = 0]
                /\ error' = [error EXCEPT ![j.session] = FALSE]
                /\ deleted' = deleted \cup {j.session}
             \/ /\ ~healthy
                /\ error' = [error EXCEPT ![j.session] = TRUE]
                /\ UNCHANGED <<disk, deleted>>
    /\ failed' = FALSE
    /\ wpc' = "settle"
    /\ UNCHANGED <<revision, written, removed, reserved, transit, removing,
                   queue, current, prefer_metadata, healthy, drainer, 
                   acked, accepted_final>>

\* The closure's own effects are on files and records outside this service.
ExecuteExclusive ==
    /\ wpc = "taken"
    /\ \E j \in current : j.kind = "exclusive"
    /\ failed' = FALSE
    /\ wpc' = "settle"
    /\ UNCHANGED <<ledger, transit, removing, queue, current, prefer_metadata,
                   storage, drainer, history>>

\* The barrier of a drain that gave up is answered to nobody.
ExecuteBarrier ==
    /\ wpc = "taken"
    /\ \E j \in current :
          /\ j.kind = "barrier"
          /\ drain' = IF drain = "waiting" /\ j.drain = drains THEN "signalled" ELSE drain
    /\ failed' = FALSE
    /\ wpc' = "settle"
    /\ UNCHANGED <<ledger, transit, removing, queue, current, prefer_metadata,
                   storage, drains, drain_floor, history>>

\* The end of a round of writer_loop, under the lock again.
Settle ==
    /\ wpc = "settle"
    /\ \E j \in current :
          /\ queued_bytes' = Monus(queued_bytes, JobBytes(j))
          /\ pending_final' = IF j.kind = "manifest" /\ failed /\ j.class = "Final"
                              THEN Retain(pending_final, j)
                              ELSE pending_final
    /\ current' = {}
    /\ failed' = FALSE
    /\ wpc' = "idle"
    /\ UNCHANGED <<ledger, transit, removing, ordered, metadata, metadata_order,
                   stopped, prefer_metadata, storage, drainer, history>>
-----------------------------------------------------------------------------
\* Storage operations fail or succeed at will until storage recovers.
StorageRecovers ==
    /\ ~healthy
    /\ healthy' = TRUE
    /\ UNCHANGED <<ledger, transit, removing, queue, writer, disk, drainer,
                   history>>

HostThread ==
    \/ \E s \in Sessions, c \in Classes, z \in Sizes : NextRevision(s, c, z)
    \/ \E s \in Sessions : EncodeFails(s)
    \/ \E s \in Sessions : ReserveFinal(s)
    \/ \E r \in transit : SubmitMetadata(r)
    \/ \E r \in transit : SubmitCritical(r)
    \/ \E r \in transit : SubmitFinal(r)
    \/ \E s \in Sessions : MarkRemoved(s)
    \/ \E s \in Sessions : EnqueueRemove(s)
    \/ SpawnExclusive
    \/ Stop

DrainThread == DrainBegin \/ DrainBarrier \/ DrainTimeout \/ DrainReport

WriterThread ==
    \/ TakeMetadata \/ TakeOrdered \/ WriterExit
    \/ RetrySleep \/ RetryWake \/ RetryTimeout
    \/ SkipRevision \/ BeginWrite \/ WriteSucceeds \/ WriteFails
    \/ ExecuteRemove \/ ExecuteExclusive \/ ExecuteBarrier \/ Settle

Next == HostThread \/ DrainThread \/ WriterThread \/ StorageRecovers

Spec == Init /\ [][Next]_vars

\* writer_loop runs on a thread of its own and a drain that is not waiting for
\* its barrier is a runnable thread: neither is put off for ever.
FairSpec == Spec /\ WF_vars(WriterThread) /\ WF_vars(DrainBarrier \/ DrainReport)
-----------------------------------------------------------------------------
(***************************************************************************)
(* Properties                                                              *)
(***************************************************************************)

\* Everything but the byte counter, which is checked against the queues below.
TypeOK ==
    /\ revision \in [Sessions -> Nat]
    /\ written \in [Sessions -> Nat]
    /\ removed \in [Sessions -> BOOLEAN]
    /\ reserved \in [Sessions -> BOOLEAN]
    /\ error \in [Sessions -> BOOLEAN]
    /\ transit \in SUBSET Record
    /\ removing \in SUBSET Sessions
    /\ ordered \in Seq(Job)
    /\ metadata \in SUBSET Record
    /\ metadata_order \in Seq(Sessions)
    /\ pending_final \in SUBSET Record
    /\ stopped \in BOOLEAN
    /\ wpc \in {"idle", "taken", "writing", "settle", "exited"} \cup Asleep
    /\ current \in SUBSET Job
    /\ failed \in BOOLEAN
    /\ prefer_metadata \in BOOLEAN
    /\ disk \in [Sessions -> Nat]
    /\ healthy \in BOOLEAN
    /\ drain \in {"idle", "requeued", "waiting", "signalled", "ok", "failed"}
    /\ drains \in Nat
    /\ acked \in [Sessions -> Nat]
    /\ accepted_final \in [Sessions -> Nat]
    /\ deleted \in SUBSET Sessions
    /\ drain_floor \in [Sessions -> Nat]

\* A manifest file never holds less than what the service reported written or
\* acknowledged to a waiting caller, whatever order revisions are submitted,
\* coalesced and retried in (write_revision's `written' check).  Exempt are the
\* acknowledgements of a session marked removed: write_revision skips its
\* revisions and execute answers Ok all the same.
ReportedIsOnDisk ==
    \A s \in Sessions \ deleted :
        /\ written[s] <= disk[s]
        /\ removed[s] \/ acked[s] <= written[s]

\* A deleted manifest stays deleted: no job queued or stamped earlier, and no
\* write the writer had begun when the session was marked removed, brings it
\* back (mark_removed before the lock, Job::Remove behind the queued writes).
NoResurrection ==
    \A s \in deleted : disk[s] = 0

\* The jobs the service still means to write.
Held == Elems(ordered) \cup current \cup (IF wpc = "exited" THEN {} ELSE pending_final)

Final(j) == j.kind = "manifest" /\ j.class = "Final"

FinalIn(jobs, s, n) == \E j \in jobs : Final(j) /\ j.session = s /\ j.revision >= n

\* Retained, unwritten, when the writer of a dropped service returned.
GivenUp(s, n) == wpc = "exited" /\ FinalIn(pending_final, s, n)

\* A Final revision whose submit returned Ok is written, or superseded, or held
\* to be written, until the session is removed: a full queue, a failed write
\* and the retry all keep it (submit, execute, retain_pending_final).  Exempt is
\* what a dropped service gives up: writer_loop returns with nothing queued and
\* does not look at pending_final.
FinalNeverLost ==
    \A s \in Sessions :
        \/ removed[s]
        \/ accepted_final[s] <= written[s]
        \/ FinalIn(Held, s, accepted_final[s])
        \/ GivenUp(s, accepted_final[s])

\* Queued metadata can always be reached by take_next: removals leave stale
\* entries in metadata_order, never a record without an entry.
MetadataReachable ==
    \A m \in metadata : \E i \in DOMAIN metadata_order : metadata_order[i] = m.session

QueueBytes(q) == SumFunction([i \in DOMAIN q |-> JobBytes(q[i])])
HeldBytes(S) == SumFunction([j \in S |-> JobBytes(j)])

\* The size of what the queue and the writer hold: queued_bytes adds on
\* submission, subtracts on coalescing, removal and completion, and must never
\* drift from it, or the budget would close for ever or never.
QueuedBytesExact ==
    queued_bytes = QueueBytes(ordered) + HeldBytes(metadata) + HeldBytes(current)

\* drain returns Ok only when every Final accepted before it began is on disk or
\* its session removed (drain's requeue, the barrier and the last look at
\* pending_final): a shutdown that reports success has saved everything.
DrainOkIsDurable ==
    drain = "ok" => \A s \in Sessions : removed[s] \/ drain_floor[s] <= written[s]

\* Submissions pause: while finals are retained the writer is, again and again,
\* without work for a whole RETRY_INTERVAL.  writer_loop retries only then, and
\* each job that wakes it starts the wait anew, so traffic that never pauses
\* that long puts the retry off for ever.
Lulls == []<>(pending_final # {}) => []<><<RetryTimeout>>_vars

\* Once storage stays healthy, and if submissions pause, every accepted Final
\* revision is written although other jobs keep coming, unless its session is
\* removed or the service dropped (the retry of writer_loop).
FinalLands ==
    Lulls /\ <>healthy =>
        \A s \in Sessions :
            []<>(stopped \/ removed[s] \/ accepted_final[s] <= written[s])

\* The service implements the abstract store: a file never falls behind what was
\* reported of it, so a late revision is skipped rather than written over a
\* reported one, a deleted file never comes back, and a caller hears Ok only of
\* what was reported or of a session whose removal was asked for.
Store == INSTANCE RecordStore
    WITH file <- disk, reported <- written, promised <- acked,
         closing <- {s \in Sessions : removed[s]}, gone <- deleted

ImplementsRecordStore == Store!Spec
=============================================================================
