---------------------------- MODULE AgentLedger ----------------------------
(***************************************************************************)
(* The requests that bring agent events to a session: the checks an event  *)
(* passes under the ledger, the receipts that recognise a retry, the       *)
(* notification of the followers, and the critical flush that several      *)
(* requests share, beside the restarts, exits and removals of AgentRecord. *)
(*                                                                         *)
(* The persistence service is the one of module Persistence, reduced to    *)
(* what its callers rely on: records are executed in the order of their    *)
(* revisions, a failed critical record is dropped, a failed final one is   *)
(* tried again, and a caller may stop waiting before its record is done.   *)
(***************************************************************************)
EXTENDS AgentRecord

CONSTANTS
    Posters,        \* connection threads that carry agent.event requests
    MaxReceipts,    \* MAX_HOOK_RECEIPTS
    Tolerance,      \* EVENT_REORDER_TOLERANCE_MS
    MaxTime,        \* bound on emitted_at_ms
    MaxPosts,       \* bound on requests
    MaxFailures     \* bound on failed or abandoned writes

ASSUME LedgerAssumption ==
    /\ MaxReceipts \in Nat \ {0} /\ Tolerance \in Nat
    /\ MaxTime \in Nat /\ MaxPosts \in Nat /\ MaxFailures \in Nat
    /\ Restarter \notin Posters /\ NoThread \notin Posters

VARIABLES
    receipts,   \* SeedLedger.receipts
    critical,   \* CriticalFlushState
    post,       \* the request each poster works on
    revisions,  \* SessionPersistence.next_revision
    queue,      \* records the writer has to execute
    disk,       \* the manifest file
    waiting,    \* the revision each thread waits for, and what it heard
    posts, failures,
    published,  \* history: every event frame that was broadcast
    acked       \* history: the newest hook revision answered "durable"

storeVars == <<revisions, queue, disk, waiting>>
requestVars == <<receipts, critical, post, posts, published, acked>>
vars == <<recordVars, requestVars, storeVars, failures>>
-----------------------------------------------------------------------------
Waiters == Posters \cup {Restarter}

\* Two requests with the same content have the same receipt_key: the content
\* stands for the key.
Event == [generation : 1..MaxGeneration, emitted_at_ms : Absent..MaxTime]
NoEvent == [generation |-> 0, emitted_at_ms |-> Absent]

NoWait == [revision |-> 0, reply |-> "none"]
Idle == [pc |-> "idle", event |-> NoEvent, revision |-> 0, retry |-> FALSE, covered |-> 0]
-----------------------------------------------------------------------------
(***************************************************************************)
(* The persistence service                                                 *)
(***************************************************************************)

\* persist_revision: the snapshot and its number are taken under one lock.
Submit(m, class, t) ==
    /\ revisions' = revisions + 1
    /\ queue' = Append(queue, [revision |-> revisions + 1, manifest |-> m, class |-> class])
    /\ waiting' = IF t \in Waiters
                  THEN [waiting EXCEPT ![t] = [revision |-> revisions + 1, reply |-> "none"]]
                  ELSE waiting
    /\ UNCHANGED disk

\* The outcome reaches the caller that still waits for this record.
Told(record, answer) ==
    [t \in Waiters |-> IF waiting[t].revision = record.revision
                       THEN [waiting[t] EXCEPT !.reply = answer] ELSE waiting[t]]

\* The writer executes the oldest record: an outdated one is skipped, and both
\* are a success for the caller that waits.
Land ==
    /\ queue # <<>>
    /\ disk' = IF Head(queue).revision < disk.revision THEN disk
               ELSE [revision |-> Head(queue).revision, manifest |-> Head(queue).manifest]
    /\ queue' = Tail(queue)
    /\ waiting' = Told(Head(queue), "ok")
    /\ UNCHANGED <<recordVars, requestVars, revisions, failures>>

\* The write fails: a final revision is retained and tried again.
WriteFails ==
    /\ queue # <<>> /\ failures < MaxFailures
    /\ failures' = failures + 1
    /\ queue' = IF Head(queue).class = "final" THEN Append(Tail(queue), Head(queue))
                ELSE Tail(queue)
    /\ waiting' = Told(Head(queue), "err")
    /\ UNCHANGED <<recordVars, requestVars, revisions, disk>>

\* CRITICAL_DEADLINE passes; the record stays queued.
GiveUp(t) ==
    /\ waiting[t].revision # 0 /\ waiting[t].reply = "none" /\ failures < MaxFailures
    /\ failures' = failures + 1
    /\ waiting' = [waiting EXCEPT ![t] = [revision |-> 0, reply |-> "err"]]
    /\ UNCHANGED <<recordVars, requestVars, revisions, queue, disk>>
-----------------------------------------------------------------------------
(***************************************************************************)
(* ingest_agent_event                                                      *)
(***************************************************************************)

\* A request finds the record and goes for its ledger.
Post(p, e) ==
    /\ post[p].pc = "idle" /\ posts < MaxPosts /\ present
    /\ e.generation <= manifest.generation
    /\ post' = [post EXCEPT ![p] = [Idle EXCEPT !.pc = "posted", !.event = e]]
    /\ posts' = posts + 1
    /\ UNCHANGED <<recordVars, receipts, critical, published, acked, storeVars, failures>>

AcceptsEvent(last, incoming) ==
    \/ last = Absent \/ incoming = Absent \/ incoming >= last
    \/ last - incoming > Tolerance

\* As HasReceipt, for events that are durable already.
HasDurableReceipt(e) ==
    \E i \in DOMAIN receipts :
        receipts[i].event = e /\ receipts[i].revision <= critical.durable_hook_revision

HasReceipt(e) == \E i \in DOMAIN receipts : receipts[i].event = e
ReceiptOf(e) == receipts[CHOOSE i \in DOMAIN receipts : receipts[i].event = e].revision

\* What the thread finds once the ledger is its own.
Examines(p) == post[p].pc = "posted" /\ holder = NoThread
Current(p) == ~removed /\ post[p].event.generation = manifest.generation
InOrder(p) == AcceptsEvent(manifest.last_hook.emitted_at_ms, post[p].event.emitted_at_ms)

\* Another generation, a removed session or an event older than the last one.
Refuse(p) ==
    /\ Examines(p)
    /\ ~Current(p) \/ (~HasReceipt(post[p].event) /\ ~InOrder(p))
    /\ post' = [post EXCEPT ![p] = Idle]
    /\ UNCHANGED <<recordVars, receipts, critical, posts, published, acked, storeVars, failures>>

\* A retry of an event that has a receipt only waits for its revision.
Duplicate(p) ==
    /\ Examines(p) /\ Current(p) /\ HasReceipt(post[p].event)
    /\ post' = [post EXCEPT ![p].pc = "awaiting", ![p].retry = TRUE,
                            ![p].revision = ReceiptOf(post[p].event)]
    /\ UNCHANGED <<recordVars, receipts, critical, posts, published, acked, storeVars, failures>>

\* The oldest receipt makes room for the new one.
Remembered(e, r) ==
    Append(IF Len(receipts) >= MaxReceipts THEN Tail(receipts) ELSE receipts,
           [event |-> e, revision |-> r])

Accept(p) ==
    /\ Examines(p) /\ Current(p) /\ ~HasReceipt(post[p].event) /\ InOrder(p)
    /\ AcceptHook(p, post[p].event.emitted_at_ms)
    /\ receipts' = Remembered(post[p].event, manifest'.hook_revision)
    /\ post' = [post EXCEPT ![p].pc = "publishing", ![p].revision = manifest'.hook_revision]
    /\ UNCHANGED <<critical, posts, published, acked, storeVars, failures>>

\* The frame goes out under the ledger, which is then free.
Publish(p) ==
    /\ post[p].pc = "publishing"
    /\ published' = Append(published, [event |-> post[p].event, revision |-> post[p].revision])
    /\ post' = [post EXCEPT ![p].pc = "awaiting"]
    /\ ReleaseLedger
    /\ UNCHANGED <<receipts, critical, posts, acked, storeVars, failures>>
-----------------------------------------------------------------------------
(***************************************************************************)
(* await_critical_durability                                               *)
(***************************************************************************)

Awaits(p) == post[p].pc = "awaiting"
IsDurable(p) == critical.durable_hook_revision >= post[p].revision
HasFailed(p) == ~post[p].retry /\ critical.failed >= post[p].revision

\* The request is answered, and the answer says whether the event is durable.
Answer(p, durable) ==
    /\ post' = [post EXCEPT ![p] = Idle]
    /\ acked' = IF durable /\ post[p].revision > acked THEN post[p].revision ELSE acked
    /\ UNCHANGED <<recordVars, receipts, posts, published, failures>>

AwaitDurable(p) ==
    /\ Awaits(p) /\ IsDurable(p)
    /\ Answer(p, TRUE)
    /\ UNCHANGED <<critical, storeVars>>

AwaitFailed(p) ==
    /\ Awaits(p) /\ ~IsDurable(p) /\ HasFailed(p)
    /\ Answer(p, FALSE)
    /\ UNCHANGED <<critical, storeVars>>

\* Nobody writes: this request does, for everything accepted when it looks.
Lead(p) ==
    /\ Awaits(p) /\ ~IsDurable(p) /\ ~HasFailed(p) /\ ~critical.in_flight
    /\ critical' = [critical EXCEPT !.in_flight = TRUE]
    /\ post' = [post EXCEPT ![p].pc = "leading", ![p].covered = manifest.hook_revision]
    /\ UNCHANGED <<recordVars, receipts, posts, published, acked, storeVars, failures>>

Stamp(p) ==
    /\ post[p].pc = "leading"
    /\ Submit(manifest, "critical", p)
    /\ post' = [post EXCEPT ![p].pc = "writing"]
    /\ UNCHANGED <<recordVars, receipts, critical, posts, published, acked, failures>>

\* As Settled, with a flush that stays in flight when its write failed.
SettlesSuccess(covered, ok) ==
    IF ok
    THEN [critical EXCEPT !.in_flight = FALSE,
            !.durable_hook_revision = IF covered > @ THEN covered ELSE @]
    ELSE [critical EXCEPT !.failed = covered]

\* What the flush knows once the leader's write has an outcome.
Settled(covered, ok) ==
    IF ok
    THEN [critical EXCEPT !.in_flight = FALSE,
            !.durable_hook_revision = IF covered > @ THEN covered ELSE @]
    ELSE [critical EXCEPT !.in_flight = FALSE, !.failed = covered]

\* As Settle, for what the record has reached when the write returns.
SettleCoversNow(p) ==
    /\ post[p].pc = "writing" /\ waiting[p].reply # "none"
    /\ critical' = Settled(manifest.hook_revision, waiting[p].reply = "ok")
    /\ Answer(p, waiting[p].reply = "ok")
    /\ waiting' = [waiting EXCEPT ![p] = NoWait]
    /\ UNCHANGED <<revisions, queue, disk>>

Settle(p) ==
    /\ post[p].pc = "writing" /\ waiting[p].reply # "none"
    /\ critical' = Settled(post[p].covered, waiting[p].reply = "ok")
    /\ Answer(p, waiting[p].reply = "ok")
    /\ waiting' = [waiting EXCEPT ![p] = NoWait]
    /\ UNCHANGED <<revisions, queue, disk>>
-----------------------------------------------------------------------------
(***************************************************************************)
(* restart, the exit and the removal, with what they write                 *)
(***************************************************************************)

RestartSubmits ==
    /\ RestartBegin
    /\ Submit(manifest', "critical", Restarter)
    /\ UNCHANGED <<requestVars, failures>>

RestartHears ==
    /\ restart.pc = "writing" /\ waiting[Restarter].reply # "none"
    /\ restart' = [restart EXCEPT !.pc = waiting[Restarter].reply]
    /\ waiting' = [waiting EXCEPT ![Restarter] = NoWait]
    /\ UNCHANGED <<manifest, present, holder, removed, removal, failed_restart, undone,
                   requestVars, revisions, queue, disk, failures>>

\* The receipts belong to the generation that ended.
RestartKept ==
    /\ RestartCommit
    /\ receipts' = <<>>
    /\ UNCHANGED <<critical, post, posts, published, acked, storeVars, failures>>

RestartUndone ==
    /\ RestartRollback
    /\ Submit(manifest', "final", NoThread)
    /\ UNCHANGED <<requestVars, failures>>

ExitWritten ==
    /\ Exit
    /\ Submit(manifest', "final", NoThread)
    /\ UNCHANGED <<requestVars, failures>>

\* What these threads do to the record only.
RestartWrites == RestartSubmits \/ RestartHears \/ RestartKept \/ RestartUndone
RestartLocal == RestartRefused \/ RestartReturn
RestartThread ==
    \/ RestartWrites
    \/ RestartLocal /\ UNCHANGED <<requestVars, storeVars, failures>>
-----------------------------------------------------------------------------
Init ==
    /\ RecordInit
    /\ receipts = <<>>
    /\ critical = [durable_hook_revision |-> 0, failed |-> 0, in_flight |-> FALSE]
    /\ post = [p \in Posters |-> Idle]
    /\ revisions = 1 /\ queue = <<>>
    /\ disk = [revision |-> 1, manifest |-> FirstManifest]
    /\ waiting = [t \in Waiters |-> NoWait]
    /\ posts = 0 /\ failures = 0
    /\ published = <<>> /\ acked = 0

\* One request thread, from the ledger to its answer.
Poster(p) ==
    \/ Refuse(p) \/ Duplicate(p) \/ Accept(p) \/ Publish(p)
    \/ AwaitDurable(p) \/ AwaitFailed(p) \/ Lead(p) \/ Stamp(p) \/ Settle(p)

Next ==
    \/ \E p \in Posters : Poster(p) \/ \E e \in Event : Post(p, e)
    \/ RestartThread \/ ExitWritten
    \/ (RestartCapture \/ RemoveBegin \/ RemoveMark) /\ UNCHANGED <<requestVars, storeVars, failures>>
    \/ Land \/ WriteFails \/ \E t \in Waiters : GiveUp(t)

Spec == Init /\ [][Next]_vars

\* The host's own threads go on; nobody has to post, restart or remove.
FairSpec ==
    /\ Spec
    /\ \A p \in Posters : WF_vars(Poster(p))
    /\ WF_vars(RestartThread)
    /\ WF_vars(Land)
-----------------------------------------------------------------------------
(***************************************************************************)
(* Properties                                                              *)
(***************************************************************************)

\* An event that was answered durable is in the manifest file, at its revision
\* or below a newer one, whichever of the requests wrote it and whatever failed
\* before (await_critical_durability), unless a rollback took it back.
AckedIsOnDisk == undone \/ removed \/ acked <= disk.manifest.hook_revision

\* Followers are told of the events of a generation in the order of their
\* revisions, however many requests race (the ledger is held from the revision
\* to the broadcast).
PublishedInOrder ==
    undone \/
    \A i, j \in DOMAIN published :
        i < j => \/ published[i].event.generation < published[j].event.generation
                 \/ /\ published[i].event.generation = published[j].event.generation
                    /\ published[i].revision < published[j].revision

\* A retried event is not notified again as long as its receipt can be held:
\* fewer than MaxReceipts others lie between the two.
NotifiedOnce ==
    \A i, j \in DOMAIN published :
        i < j /\ published[i].event = published[j].event => j - i > MaxReceipts

\* Every request is answered: whoever writes for the others, and however that
\* write ends, nobody is left waiting for it.
EveryEventAnswered == \A p \in Posters : post[p].pc # "idle" ~> post[p].pc = "idle"
=============================================================================
