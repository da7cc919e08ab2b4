------------------------- MODULE AgentLedgerProofs -------------------------
(***************************************************************************)
(* What AgentLedger promises its callers, for any number of requests,      *)
(* receipts, restarts and failed writes.                                   *)
(***************************************************************************)
EXTENDS AgentLedger, TLAPS

-----------------------------------------------------------------------------
(***************************************************************************)
(* Types                                                                   *)
(***************************************************************************)

Hook == [revision : Nat, emitted_at_ms : Nat]
Manifest == [generation : Nat, live : BOOLEAN, hook_revision : Nat, last_hook : Hook]
AnyEvent == [generation : Nat, emitted_at_ms : Nat]
Noted == [event : AnyEvent, revision : Nat]
Stored == [revision : Nat, manifest : Manifest]
Queued == [revision : Nat, manifest : Manifest, class : {"critical", "final"}]
Flush == [durable_hook_revision : Nat, failed : Nat, in_flight : BOOLEAN]
Wait == [revision : Nat, reply : {"none", "ok", "err"}]
Request ==
    [pc : {"idle", "posted", "publishing", "awaiting", "leading", "writing"},
     event : AnyEvent, revision : Nat, retry : BOOLEAN, covered : Nat]

RecordTypes ==
    /\ manifest \in Manifest
    /\ present \in BOOLEAN /\ removed \in BOOLEAN /\ undone \in BOOLEAN
    /\ failed_restart \in BOOLEAN
    /\ holder \in Posters \cup {Restarter, NoThread}
    /\ restart \in [pc : {"idle", "captured", "writing", "ok", "err", "undone"},
                    prior : Manifest]
    /\ removal \in {"no", "unmapped", "marked"}

RequestTypes ==
    /\ receipts \in Seq(Noted)
    /\ critical \in Flush
    /\ post \in [Posters -> Request]
    /\ published \in Seq(Noted)
    /\ acked \in Nat /\ posts \in Nat

StoreTypes ==
    /\ revisions \in Nat /\ failures \in Nat
    /\ queue \in Seq(Queued)
    /\ disk \in Stored
    /\ waiting \in [Waiters -> Wait]

LedgerTypeOK == RecordTypes /\ RequestTypes /\ StoreTypes
-----------------------------------------------------------------------------
(***************************************************************************)
(* The critical flush                                                      *)
(***************************************************************************)

\* The record has reached every hook revision that anyone knows of.
RevisionsReached ==
    /\ \A i \in DOMAIN receipts : receipts[i].revision <= manifest.hook_revision
    /\ \A p \in Posters : post[p].revision <= manifest.hook_revision
    /\ \A p \in Posters : post[p].pc = "leading" => post[p].covered <= manifest.hook_revision

\* The records the writer has to execute.
Pending == {queue[i] : i \in DOMAIN queue}

\* A snapshot with a newer number holds no older hook.
SnapshotsOrdered ==
    /\ \A a \in Pending :
          /\ 0 < a.revision /\ a.revision <= revisions
          /\ a.manifest.hook_revision <= manifest.hook_revision
          /\ a.revision <= disk.revision =>
                a.manifest.hook_revision <= disk.manifest.hook_revision
          /\ disk.revision <= a.revision =>
                disk.manifest.hook_revision <= a.manifest.hook_revision
    /\ \A a, b \in Pending :
          a.revision <= b.revision => a.manifest.hook_revision <= b.manifest.hook_revision
    /\ disk.revision <= revisions
    /\ disk.manifest.hook_revision <= manifest.hook_revision

\* The write a leader waits for holds what the leader answers for.
LeadersCovered ==
    \A p \in Posters :
        /\ waiting[p].revision <= revisions
        /\ post[p].pc \in {"leading", "writing"} => post[p].revision <= post[p].covered
        /\ post[p].pc = "writing" =>
              /\ \A a \in Pending :
                    a.revision = waiting[p].revision =>
                        post[p].covered <= a.manifest.hook_revision
              /\ waiting[p].reply = "ok" => post[p].covered <= disk.manifest.hook_revision

\* What was called durable is in the file.
DurableOnDisk ==
    /\ critical.durable_hook_revision <= disk.manifest.hook_revision
    /\ acked <= disk.manifest.hook_revision

FlushOrdered == RevisionsReached /\ SnapshotsOrdered /\ LeadersCovered /\ DurableOnDisk

\* The inductive invariant: a rollback that takes hook revisions back ends it.
FlushInv == undone \/ FlushOrdered
-----------------------------------------------------------------------------
(***************************************************************************)
(* The broadcasts                                                          *)
(***************************************************************************)

\* The generation that the receipts are about: the prior one until a restart is
\* durable or undone.
LedgerGeneration ==
    IF restart.pc \in {"writing", "ok", "err"} THEN restart.prior.generation
    ELSE manifest.generation

\* Who holds the ledger is the thread that is between taking it and leaving it.
LedgerHeld ==
    /\ \A p \in Posters : holder = p <=> post[p].pc = "publishing"
    /\ holder = Restarter <=> restart.pc \in {"writing", "ok", "err", "undone"}
    /\ restart.pc \in {"writing", "ok", "err"} => restart.prior.generation < manifest.generation

\* The event that is being published is the record's newest.
PublishesNewest ==
    \A p \in Posters : post[p].pc = "publishing" =>
        /\ post[p].event.generation = manifest.generation
        /\ undone \/ /\ post[p].revision = manifest.hook_revision
                     /\ \A i \in DOMAIN published : published[i].revision < post[p].revision

PublishedBefore ==
    \A i \in DOMAIN published :
        /\ published[i].event.generation <= LedgerGeneration
        /\ undone \/ published[i].revision <= manifest.hook_revision

\* The events accepted so far: those broadcast and the one that is about to be.
AcceptedCount == Len(published) + IF holder \in Posters THEN 1 ELSE 0

\* Each of the last MaxReceipts events of the generation has a receipt, in order.
ReceiptsRecent ==
    /\ \A i \in DOMAIN published :
          /\ published[i].event.generation = LedgerGeneration
          /\ AcceptedCount - i < MaxReceipts
          => /\ Len(receipts) - (AcceptedCount - i) \in DOMAIN receipts
             /\ receipts[Len(receipts) - (AcceptedCount - i)].event = published[i].event
    /\ \A p \in Posters : post[p].pc = "publishing" =>
          /\ receipts # <<>>
          /\ receipts[Len(receipts)].event = post[p].event
          /\ \A i \in DOMAIN published :
                published[i].event = post[p].event => Len(published) + 1 - i > MaxReceipts

BroadcastInv ==
    /\ LedgerHeld /\ PublishesNewest /\ PublishedBefore /\ ReceiptsRecent
    /\ PublishedInOrder /\ NotifiedOnce
-----------------------------------------------------------------------------
(***************************************************************************)
(* Proof of the types                                                      *)
(***************************************************************************)

\* The values the actions put into the state.
LEMMA ValuesTyped ==
    /\ NoHook \in Hook
    /\ FirstManifest \in Manifest
    /\ NoEvent \in AnyEvent
    /\ Event \subseteq AnyEvent
    /\ NoWait \in Wait
    /\ Idle \in Request
BY RecordAssumption, LedgerAssumption
   DEF NoHook, Hook, FirstManifest, Manifest, NoEvent, AnyEvent, Event, NoWait, Wait, Idle, Request, Absent

\* A snapshot is queued.
LEMMA SubmitTyped ==
    ASSUME StoreTypes, NEW m \in Manifest, NEW class \in {"critical", "final"}, NEW t,
           Submit(m, class, t), UNCHANGED failures
    PROVE  StoreTypes'
<1>1. queue' \in Seq(Queued)
  BY DEF Submit, StoreTypes, Queued
<1>2. waiting' \in [Waiters -> Wait]
  BY DEF Submit, StoreTypes, Wait
<1> QED
  BY <1>1, <1>2 DEF Submit, StoreTypes

\* A hook of the next revision fits the record.
LEMMA NextHookTyped ==
    ASSUME NEW m \in Manifest, NEW ms \in Nat
    PROVE  LET n == [m EXCEPT !.hook_revision = @ + 1,
                              !.last_hook = [revision |-> m.hook_revision + 1, emitted_at_ms |-> ms]]
           IN  n \in Manifest /\ n.hook_revision = m.hook_revision + 1 /\ n.hook_revision \in Nat
<1>1. [revision |-> m.hook_revision + 1, emitted_at_ms |-> ms] \in Hook /\ m.hook_revision + 1 \in Nat
  BY DEF Manifest, Hook
<1> QED
  BY <1>1 DEF Manifest

\* ReceiptOf is the revision of a receipt, when there is one.
LEMMA ReceiptFound ==
    ASSUME NEW e, HasReceipt(e)
    PROVE  \E i \in DOMAIN receipts : receipts[i].event = e /\ ReceiptOf(e) = receipts[i].revision
BY DEF HasReceipt, ReceiptOf

\* The steps of a request keep the types.
LEMMA PosterTyped ==
    ASSUME LedgerTypeOK, NEW p \in Posters, Poster(p) \/ \E e \in Event : Post(p, e)
    PROVE  LedgerTypeOK'
<1>0. post \in [Posters -> Request] /\ post[p] \in Request
  BY DEF LedgerTypeOK, RequestTypes
<1>1. ASSUME NEW e \in Event, Post(p, e) PROVE LedgerTypeOK'
  <2>1. [Idle EXCEPT !.pc = "posted", !.event = e] \in Request
    BY ValuesTyped DEF Request, Idle
  <2>2. RecordTypes' /\ StoreTypes'
    BY <1>1 DEF LedgerTypeOK, RecordTypes, StoreTypes, Post, recordVars, storeVars
  <2>3. post' \in [Posters -> Request]
    BY <1>0, <1>1, <2>1 DEF Post
  <2>4. posts' \in Nat /\ UNCHANGED <<receipts, critical, published, acked>>
    <3>1. posts' = posts + 1 /\ UNCHANGED <<receipts, critical, published, acked>>
      BY <1>1 DEF Post
    <3> QED
      BY <3>1 DEF LedgerTypeOK, RequestTypes
  <2> QED
    BY <2>2, <2>3, <2>4 DEF LedgerTypeOK, RequestTypes
<1>2. CASE Refuse(p)
  BY <1>0, <1>2, ValuesTyped
     DEF Refuse, LedgerTypeOK, RecordTypes, StoreTypes, RequestTypes, recordVars, storeVars
<1>3. CASE Duplicate(p)
  <2>1. ReceiptOf(post[p].event) \in Nat
    <3>1. PICK i \in DOMAIN receipts : ReceiptOf(post[p].event) = receipts[i].revision
      BY <1>3, ReceiptFound DEF Duplicate
    <3>2. receipts[i] \in Noted
      BY DEF LedgerTypeOK, RequestTypes
    <3> QED
      BY <3>1, <3>2 DEF Noted
  <2>2. post' \in [Posters -> Request]
    BY <1>0, <1>3, <2>1 DEF Duplicate, Request
  <2> QED
    BY <1>3, <2>2
       DEF Duplicate, LedgerTypeOK, RecordTypes, StoreTypes, RequestTypes, recordVars, storeVars
<1>4. CASE Accept(p)
  <2>1. manifest' \in Manifest /\ manifest'.hook_revision \in Nat
    <3>1. post[p].event.emitted_at_ms \in Nat
      BY <1>0 DEF Request, AnyEvent
    <3>2. AcceptHook(p, post[p].event.emitted_at_ms) /\ manifest \in Manifest
      BY <1>4 DEF Accept, LedgerTypeOK, RecordTypes
    <3> QED
      BY <3>1, <3>2, NextHookTyped DEF AcceptHook
  <2>2. receipts' \in Seq(Noted)
    <3>1. [event |-> post[p].event, revision |-> manifest'.hook_revision] \in Noted
      BY <1>0, <2>1 DEF Noted, Request
    <3>2. receipts \in Seq(Noted) /\ (Len(receipts) >= MaxReceipts => Tail(receipts) \in Seq(Noted))
      BY LedgerAssumption DEF LedgerTypeOK, RequestTypes
    <3> QED
      BY <1>4, <3>1, <3>2 DEF Accept, Remembered
  <2>3. post' \in [Posters -> Request]
    BY <1>0, <1>4, <2>1 DEF Accept, Request
  <2>4. RecordTypes'
    BY <1>4, <2>1 DEF Accept, AcceptHook, LedgerTypeOK, RecordTypes
  <2> QED
    BY <1>4, <2>2, <2>3, <2>4 DEF Accept, LedgerTypeOK, StoreTypes, RequestTypes, storeVars
<1>5. CASE Publish(p)
  <2>1. published' \in Seq(Noted)
    BY <1>0, <1>5 DEF Publish, Noted, Request, LedgerTypeOK, RequestTypes
  <2>2. post' \in [Posters -> Request]
    BY <1>0, <1>5 DEF Publish, Request
  <2> QED
    BY <1>5, <2>1, <2>2
       DEF Publish, ReleaseLedger, LedgerTypeOK, RecordTypes, StoreTypes, RequestTypes, storeVars
<1>6. ASSUME NEW durable \in BOOLEAN, Answer(p, durable), critical' \in Flush
      PROVE  RecordTypes' /\ RequestTypes' /\ failures' \in Nat
  <2>1. acked' \in Nat
    BY <1>0, <1>6 DEF Answer, Request, LedgerTypeOK, RequestTypes
  <2> QED
    BY <1>0, <1>6, <2>1, ValuesTyped
       DEF Answer, LedgerTypeOK, RecordTypes, StoreTypes, RequestTypes, recordVars
<1>7. CASE AwaitDurable(p) \/ AwaitFailed(p)
  BY <1>6, <1>7 DEF AwaitDurable, AwaitFailed, LedgerTypeOK, RequestTypes, StoreTypes, storeVars
<1>8. CASE Lead(p)
  <2>1. post' \in [Posters -> Request]
    BY <1>0, <1>8 DEF Lead, Request, Manifest, LedgerTypeOK, RecordTypes
  <2>2. critical' \in Flush
    BY <1>8 DEF Lead, Flush, LedgerTypeOK, RequestTypes
  <2> QED
    BY <1>8, <2>1, <2>2
       DEF Lead, LedgerTypeOK, RecordTypes, StoreTypes, RequestTypes, recordVars, storeVars
<1>9. CASE Stamp(p)
  <2>1. post' \in [Posters -> Request]
    BY <1>0, <1>9 DEF Stamp, Request
  <2>2. StoreTypes'
    BY <1>9, SubmitTyped DEF Stamp, LedgerTypeOK, RecordTypes
  <2> QED
    BY <1>9, <2>1, <2>2 DEF Stamp, LedgerTypeOK, RecordTypes, RequestTypes, recordVars
<1>10. CASE Settle(p)
  <2>1. critical' \in Flush
    BY <1>0, <1>10 DEF Settle, Settled, Flush, Request, LedgerTypeOK, RequestTypes
  <2>2. waiting' \in [Waiters -> Wait]
    BY <1>10, ValuesTyped DEF Settle, LedgerTypeOK, StoreTypes
  <2>3. (waiting[p].reply = "ok") \in BOOLEAN
    OBVIOUS
  <2> QED
    BY <1>6, <1>10, <2>1, <2>2, <2>3 DEF Settle, LedgerTypeOK, StoreTypes
<1> QED
  BY <1>1, <1>2, <1>3, <1>4, <1>5, <1>7, <1>8, <1>9, <1>10 DEF Poster

\* What the writer does with a record keeps the types, and so does a caller that
\* stops waiting.
LEMMA WriterTyped ==
    ASSUME LedgerTypeOK, Land \/ WriteFails \/ \E t \in Waiters : GiveUp(t)
    PROVE  LedgerTypeOK'
<1>1. ASSUME NEW record, NEW answer \in {"ok", "err"}
      PROVE  Told(record, answer) \in [Waiters -> Wait]
  BY <1>1 DEF Told, Wait, LedgerTypeOK, StoreTypes
<1>2. queue # <<>> => Head(queue) \in Queued /\ Tail(queue) \in Seq(Queued)
  BY DEF LedgerTypeOK, StoreTypes
<1>3. CASE Land
  <2>1. disk' \in Stored
    BY <1>2, <1>3 DEF Land, Queued, Stored, LedgerTypeOK, StoreTypes
  <2>2. waiting' \in [Waiters -> Wait]
    BY <1>1, <1>3 DEF Land
  <2> QED
    BY <1>2, <1>3, <2>1, <2>2
       DEF Land, LedgerTypeOK, RecordTypes, RequestTypes, StoreTypes, recordVars, requestVars
<1>4. CASE WriteFails
  <2>1. waiting' \in [Waiters -> Wait]
    BY <1>1, <1>4 DEF WriteFails
  <2>2. queue' \in Seq(Queued)
    BY <1>2, <1>4 DEF WriteFails
  <2> QED
    BY <1>4, <2>1, <2>2
       DEF WriteFails, LedgerTypeOK, RecordTypes, RequestTypes, StoreTypes, recordVars, requestVars
<1>5. ASSUME NEW t \in Waiters, GiveUp(t) PROVE LedgerTypeOK'
  <2>1. waiting' \in [Waiters -> Wait]
    BY <1>5 DEF GiveUp, Wait, LedgerTypeOK, StoreTypes
  <2> QED
    BY <1>5, <2>1
       DEF GiveUp, LedgerTypeOK, RecordTypes, RequestTypes, StoreTypes, recordVars, requestVars
<1> QED
  BY <1>3, <1>4, <1>5

\* Restarts, exits and removals keep the types.
LEMMA RecordTyped ==
    ASSUME LedgerTypeOK,
           \/ RestartThread \/ ExitWritten
           \/ (RestartCapture \/ RemoveBegin \/ RemoveMark)
                 /\ UNCHANGED <<requestVars, storeVars, failures>>
    PROVE  LedgerTypeOK'
<1>1. manifest \in Manifest /\ restart.prior \in Manifest /\ manifest.hook_revision \in Nat
  BY DEF LedgerTypeOK, RecordTypes, Manifest
<1>2. CASE RestartSubmits
  <2>1. manifest' \in Manifest
    <3>1. manifest.generation + 1 \in Nat /\ NoHook \in Hook
      BY <1>1, ValuesTyped DEF Manifest
    <3> QED
      BY <1>1, <1>2, <3>1 DEF RestartSubmits, RestartBegin, Manifest
  <2>2. RecordTypes'
    BY <1>2, <2>1 DEF RestartSubmits, RestartBegin, LedgerTypeOK, RecordTypes
  <2>3. StoreTypes'
    BY <1>2, <2>1, SubmitTyped DEF RestartSubmits, LedgerTypeOK
  <2> QED
    BY <1>2, <2>2, <2>3 DEF RestartSubmits, LedgerTypeOK, RequestTypes, requestVars
<1>3. CASE RestartHears
  <2>1. waiting[Restarter] \in Wait
    BY DEF LedgerTypeOK, StoreTypes, Waiters
  <2>2. RecordTypes'
    BY <1>3, <2>1 DEF RestartHears, Wait, LedgerTypeOK, RecordTypes
  <2>3. waiting' \in [Waiters -> Wait]
    BY <1>3, ValuesTyped DEF RestartHears, LedgerTypeOK, StoreTypes
  <2> QED
    BY <1>3, <2>2, <2>3 DEF RestartHears, LedgerTypeOK, RequestTypes, StoreTypes, requestVars
<1>4. CASE RestartKept
  BY <1>4, SMTT(30) DEF RestartKept, RestartCommit, LedgerTypeOK, RecordTypes, RequestTypes, StoreTypes,
              storeVars
<1>5. CASE RestartUndone
  <2>1. RecordTypes'
    BY <1>1, <1>5 DEF RestartUndone, RestartRollback, LedgerTypeOK, RecordTypes
  <2>2. StoreTypes'
    BY <1>1, <1>5, SubmitTyped DEF RestartUndone, RestartRollback, LedgerTypeOK
  <2> QED
    BY <1>5, <2>1, <2>2 DEF RestartUndone, LedgerTypeOK, RequestTypes, requestVars
<1>6. CASE ExitWritten
  <2>1. manifest' \in Manifest
    BY <1>1, <1>6 DEF ExitWritten, Exit, Manifest
  <2>2. RecordTypes'
    BY <1>6, <2>1 DEF ExitWritten, Exit, LedgerTypeOK, RecordTypes
  <2>3. StoreTypes'
    BY <1>6, <2>1, SubmitTyped DEF ExitWritten, LedgerTypeOK
  <2> QED
    BY <1>6, <2>2, <2>3 DEF ExitWritten, LedgerTypeOK, RequestTypes, requestVars
<1>7. CASE /\ RestartLocal \/ RestartCapture \/ RemoveBegin \/ RemoveMark
           /\ UNCHANGED <<requestVars, storeVars, failures>>
  <2>1. RecordTypes'
    <3> USE DEF LedgerTypeOK, RecordTypes
    <3>1. CASE RestartRefused \/ RestartReturn
      BY <3>1 DEF RestartRefused, RestartReturn
    <3>2. CASE RestartCapture
      BY <1>1, <3>2 DEF RestartCapture
    <3>3. CASE RemoveBegin \/ RemoveMark
      BY <3>3 DEF RemoveBegin, RemoveMark
    <3> QED
      BY <1>7, <3>1, <3>2, <3>3 DEF RestartLocal
  <2> QED
    BY <1>7, <2>1 DEF LedgerTypeOK, RequestTypes, StoreTypes, requestVars, storeVars
<1> QED
  BY <1>2, <1>3, <1>4, <1>5, <1>6, <1>7 DEF RestartThread, RestartWrites, RestartLocal

\* The state of the ledger and of its requests stays well formed.
THEOREM LedgerTypes == Spec => []LedgerTypeOK
<1>1. Init => LedgerTypeOK
  <2>1. Init => RecordTypes
    <3>1. [pc |-> "idle", prior |-> FirstManifest]
            \in [pc : {"idle", "captured", "writing", "ok", "err", "undone"}, prior : Manifest]
      BY ValuesTyped
    <3> QED
      BY <3>1, ValuesTyped DEF Init, RecordInit, RecordTypes
  <2>2. Init => RequestTypes
    BY ValuesTyped DEF Init, RequestTypes, Flush
  <2>3. Init => StoreTypes
    BY ValuesTyped DEF Init, StoreTypes, Stored
  <2> QED
    BY <2>1, <2>2, <2>3 DEF LedgerTypeOK
<1>2. LedgerTypeOK /\ [Next]_vars => LedgerTypeOK'
  <2> SUFFICES ASSUME LedgerTypeOK, [Next]_vars PROVE LedgerTypeOK'
    OBVIOUS
  <2>1. CASE UNCHANGED vars
    BY <2>1 DEF vars, recordVars, requestVars, storeVars, LedgerTypeOK, RecordTypes, RequestTypes,
                StoreTypes
  <2> QED
    BY <2>1, PosterTyped, WriterTyped, RecordTyped DEF Next
<1> QED
  BY <1>1, <1>2, PTL DEF Spec
-----------------------------------------------------------------------------
(***************************************************************************)
(* Proof of the flush                                                      *)
(***************************************************************************)

\* The numbers that FlushInv compares.
NumbersTyped ==
    /\ manifest.hook_revision \in Nat /\ restart.prior.hook_revision \in Nat
    /\ revisions \in Nat /\ acked \in Nat /\ critical.durable_hook_revision \in Nat
    /\ disk.revision \in Nat /\ disk.manifest.hook_revision \in Nat
    /\ \A a \in Pending : a.revision \in Nat /\ a.manifest.hook_revision \in Nat
    /\ \A i \in DOMAIN receipts : receipts[i].revision \in Nat
    /\ \A p \in Posters : post[p].revision \in Nat /\ post[p].covered \in Nat
    /\ \A t \in Waiters : waiting[t].revision \in Nat

\* They are numbers.
LEMMA Numbers == LedgerTypeOK => NumbersTyped
<1> SUFFICES ASSUME LedgerTypeOK PROVE NumbersTyped
  OBVIOUS
<1>1. \A m \in Manifest : m.hook_revision \in Nat
  BY DEF Manifest
<1>2. /\ manifest.hook_revision \in Nat /\ restart.prior.hook_revision \in Nat
      /\ disk.revision \in Nat /\ disk.manifest.hook_revision \in Nat
  BY <1>1 DEF LedgerTypeOK, RecordTypes, StoreTypes, Stored
<1>3. \A a \in Pending : a.revision \in Nat /\ a.manifest.hook_revision \in Nat
  <2>1. \A i \in DOMAIN queue : queue[i] \in Queued
    BY DEF LedgerTypeOK, StoreTypes
  <2> QED
    BY <1>1, <2>1 DEF Pending, Queued
<1>4. \A i \in DOMAIN receipts : receipts[i].revision \in Nat
  <2>1. \A i \in DOMAIN receipts : receipts[i] \in Noted
    BY DEF LedgerTypeOK, RequestTypes
  <2> QED
    BY <2>1 DEF Noted
<1>5. \A p \in Posters : post[p].revision \in Nat /\ post[p].covered \in Nat
  BY DEF LedgerTypeOK, RequestTypes, Request
<1>6. \A t \in Waiters : waiting[t].revision \in Nat
  BY DEF LedgerTypeOK, StoreTypes, Wait
<1>7. revisions \in Nat /\ acked \in Nat /\ critical.durable_hook_revision \in Nat
  BY DEF LedgerTypeOK, StoreTypes, RequestTypes, Flush
<1> QED
  BY <1>2, <1>3, <1>4, <1>5, <1>6, <1>7 DEF NumbersTyped

\* A submitted record joins the pending ones.
LEMMA SubmitPends ==
    ASSUME LedgerTypeOK, NEW m, NEW class, NEW t, Submit(m, class, t)
    PROVE  Pending' = Pending \cup {[revision |-> revisions + 1, manifest |-> m, class |-> class]}
<1> DEFINE new == [revision |-> revisions + 1, manifest |-> m, class |-> class]
<1>1. queue \in Seq(Queued) /\ queue' = Append(queue, new)
  BY DEF LedgerTypeOK, StoreTypes, Submit
<1> HIDE DEF new
<1>2. /\ DOMAIN queue = 1..Len(queue) /\ DOMAIN queue' = 1..(Len(queue) + 1)
      /\ Len(queue) \in Nat
      /\ \A i \in 1..Len(queue) : queue'[i] = queue[i]
      /\ queue'[Len(queue) + 1] = new
  BY <1>1
<1>3. Pending' \subseteq Pending \cup {new}
  BY <1>2 DEF Pending
<1>4. Pending \subseteq Pending' /\ new \in Pending'
  BY <1>2 DEF Pending
<1> QED
  BY <1>3, <1>4 DEF new

\* All but the last index have a next one.
LEMMA NextIndex ==
    \A n \in Nat : \A i \in 1..n : i # n => i \in 1..(n - 1) /\ i + 1 \in 1..n
OBVIOUS

\* The writer takes the oldest record, and may put it back behind the others.
LEMMA WriterPends ==
    ASSUME LedgerTypeOK, queue # <<>>,
           queue' = Tail(queue) \/ queue' = Append(Tail(queue), Head(queue))
    PROVE  Head(queue) \in Pending /\ Pending' \subseteq Pending
<1>1. queue \in Seq(Queued)
  BY DEF LedgerTypeOK, StoreTypes
<1>2. /\ DOMAIN queue = 1..Len(queue) /\ Len(queue) \in Nat \ {0}
      /\ Head(queue) = queue[1]
      /\ DOMAIN Tail(queue) = 1..(Len(queue) - 1)
      /\ \A i \in 1..(Len(queue) - 1) : Tail(queue)[i] = queue[i + 1]
      /\ Tail(queue) \in Seq(Queued) /\ Len(Tail(queue)) = Len(queue) - 1
  BY <1>1
<1>3. Head(queue) \in Pending
  BY <1>2 DEF Pending
<1>4. CASE queue' = Tail(queue)
  BY <1>2, <1>3, <1>4 DEF Pending
<1>5. CASE queue' = Append(Tail(queue), Head(queue))
  <2>1. /\ DOMAIN queue' = 1..Len(queue)
        /\ \A i \in 1..(Len(queue) - 1) : queue'[i] = queue[i + 1]
        /\ queue'[Len(queue)] = queue[1]
    BY <1>2, <1>5
  <2>2. ASSUME NEW i \in 1..Len(queue) PROVE queue'[i] \in Pending
    <3>1. CASE i = Len(queue)
      BY <1>2, <1>3, <2>1, <3>1
    <3>2. CASE i # Len(queue)
      <4>1. Len(queue) \in Nat /\ DOMAIN queue = 1..Len(queue)
        BY <1>1
      <4>2. i \in 1..(Len(queue) - 1) /\ i + 1 \in 1..Len(queue)
        BY <3>2, <4>1, NextIndex
      <4>3. queue'[i] = queue[i + 1]
        BY <2>1, <4>2
      <4> QED
        BY <4>1, <4>2, <4>3 DEF Pending
    <3> QED
      BY <3>1, <3>2
  <2> QED
    BY <1>3, <2>1, <2>2 DEF Pending
<1> QED
  BY <1>3, <1>4, <1>5

\* A snapshot of the record as it is now keeps the snapshots in order.
LEMMA SubmitOrdered ==
    ASSUME LedgerTypeOK, NumbersTyped, NumbersTyped', SnapshotsOrdered,
           NEW class, NEW t, Submit(manifest', class, t),
           manifest.hook_revision <= manifest'.hook_revision
    PROVE  SnapshotsOrdered'
<1> DEFINE new == [revision |-> revisions + 1, manifest |-> manifest', class |-> class]
<1>1. Pending' = Pending \cup {new}
  BY SubmitPends
<1>2. new.revision = revisions + 1 /\ new.manifest.hook_revision = manifest'.hook_revision
  OBVIOUS
<1>3. revisions' = revisions + 1 /\ disk' = disk
  BY DEF Submit
<1> HIDE DEF new
<1> QED
  BY <1>1, <1>2, <1>3 DEF SnapshotsOrdered, NumbersTyped

\* A record that no request waits for leaves the leaders covered.
LEMMA OthersSubmit ==
    ASSUME LedgerTypeOK, NumbersTyped, LeadersCovered,
           NEW m, NEW class, NEW t, t \notin Posters, Submit(m, class, t), UNCHANGED post
    PROVE  LeadersCovered'
<1> DEFINE new == [revision |-> revisions + 1, manifest |-> m, class |-> class]
<1>1. Pending' = Pending \cup {new}
  BY SubmitPends
<1>2. new.revision = revisions + 1
  OBVIOUS
<1>3. revisions' = revisions + 1 /\ disk' = disk
  BY DEF Submit
<1>4. \A q \in Posters : waiting'[q] = waiting[q]
  BY DEF Submit, LedgerTypeOK, StoreTypes, Waiters
<1> HIDE DEF new
<1> QED
  BY <1>1, <1>2, <1>3, <1>4 DEF LeadersCovered, NumbersTyped, Waiters

\* Nothing the flush compares has changed but the hook revision and a request
\* that neither leads nor writes.
LEMMA QuietOrdered ==
    ASSUME NumbersTyped, NumbersTyped', FlushOrdered,
           UNCHANGED <<revisions, queue, disk, waiting, critical, acked>>,
           manifest.hook_revision <= manifest'.hook_revision,
           \A q \in Posters : post'[q] = post[q] \/ post'[q].pc \notin {"leading", "writing"}
    PROVE  SnapshotsOrdered' /\ LeadersCovered' /\ DurableOnDisk'
<1>1. Pending' = Pending
  BY DEF Pending
<1>2. SnapshotsOrdered' /\ DurableOnDisk'
  BY <1>1 DEF FlushOrdered, SnapshotsOrdered, DurableOnDisk, NumbersTyped
<1>3. LeadersCovered'
  BY <1>1 DEF FlushOrdered, LeadersCovered
<1> QED
  BY <1>2, <1>3

\* What a request does before it waits for the flush.
LEMMA IngestFlush ==
    ASSUME LedgerTypeOK, NumbersTyped, NumbersTyped', FlushOrdered, NEW p \in Posters,
           \/ \E e \in Event : Post(p, e)
           \/ Refuse(p) \/ Duplicate(p) \/ Accept(p) \/ Publish(p)
    PROVE  FlushOrdered'
<1>0. /\ post \in [Posters -> Request] /\ receipts \in Seq(Noted)
      /\ manifest.hook_revision \in Nat /\ manifest \in Manifest
  BY DEF LedgerTypeOK, RequestTypes, RecordTypes, NumbersTyped
<1>1. ASSUME NEW e \in Event, Post(p, e) PROVE FlushOrdered'
  <2>1. \A q \in Posters : post'[q] = post[q] \/ (post'[q].pc = "posted" /\ post'[q].revision = 0)
    BY <1>0, <1>1 DEF Post, Idle
  <2>2. UNCHANGED <<manifest, receipts, revisions, queue, disk, waiting, critical, acked>>
    BY <1>1 DEF Post, recordVars, storeVars
  <2>3. RevisionsReached'
    BY <1>0, <2>1, <2>2 DEF FlushOrdered, RevisionsReached
  <2> QED
    BY <1>0, <2>1, <2>2, <2>3, QuietOrdered DEF FlushOrdered
<1>2. CASE Refuse(p)
  <2>1. \A q \in Posters : post'[q] = post[q] \/ (post'[q].pc = "idle" /\ post'[q].revision = 0)
    BY <1>0, <1>2 DEF Refuse, Idle
  <2>2. UNCHANGED <<manifest, receipts, revisions, queue, disk, waiting, critical, acked>>
    BY <1>2 DEF Refuse, recordVars, storeVars
  <2>3. RevisionsReached'
    BY <1>0, <2>1, <2>2 DEF FlushOrdered, RevisionsReached
  <2> QED
    BY <1>0, <2>1, <2>2, <2>3, QuietOrdered DEF FlushOrdered
<1>3. CASE Duplicate(p)
  <2>1. PICK i \in DOMAIN receipts : ReceiptOf(post[p].event) = receipts[i].revision
    BY <1>3, ReceiptFound DEF Duplicate
  <2>2. \A q \in Posters :
            \/ post'[q] = post[q]
            \/ post'[q].pc = "awaiting" /\ post'[q].revision = receipts[i].revision
    BY <1>0, <1>3, <2>1 DEF Duplicate, Request
  <2>3. UNCHANGED <<manifest, receipts, revisions, queue, disk, waiting, critical, acked>>
    BY <1>3 DEF Duplicate, recordVars, storeVars
  <2>4. RevisionsReached'
    BY <1>0, <2>2, <2>3 DEF FlushOrdered, RevisionsReached
  <2> QED
    BY <1>0, <2>2, <2>3, <2>4, QuietOrdered DEF FlushOrdered
<1>4. CASE Accept(p)
  <2>1. manifest'.hook_revision = manifest.hook_revision + 1
    BY <1>0, <1>4 DEF Accept, AcceptHook, Manifest
  <2>2. \A q \in Posters :
            \/ post'[q] = post[q]
            \/ post'[q].pc = "publishing" /\ post'[q].revision = manifest'.hook_revision
    BY <1>0, <1>4 DEF Accept, Request
  <2>3. UNCHANGED <<revisions, queue, disk, waiting, critical, acked>>
    BY <1>4 DEF Accept, storeVars
  <2>4. \A i \in DOMAIN receipts' :
            \/ receipts'[i].revision = manifest'.hook_revision
            \/ \E j \in DOMAIN receipts : receipts'[i] = receipts[j]
    BY <1>0, <1>4, LedgerAssumption DEF Accept, Remembered
  <2>5. RevisionsReached'
    <3>1. \A i \in DOMAIN receipts' : receipts'[i].revision <= manifest'.hook_revision
      <4>1. TAKE i \in DOMAIN receipts'
      <4>2. CASE receipts'[i].revision = manifest'.hook_revision
        BY <1>0, <2>1, <4>2
      <4>3. ASSUME NEW j \in DOMAIN receipts, receipts'[i] = receipts[j]
            PROVE  receipts'[i].revision <= manifest'.hook_revision
        <5>1. receipts[j].revision \in Nat /\ receipts[j].revision <= manifest.hook_revision
          BY DEF FlushOrdered, RevisionsReached, NumbersTyped
        <5> QED
          BY <1>0, <2>1, <4>3, <5>1
      <4> QED
        BY <2>4, <4>2, <4>3
    <3>2. \A q \in Posters : post'[q].revision <= manifest'.hook_revision
      BY <1>0, <2>1, <2>2 DEF FlushOrdered, RevisionsReached, NumbersTyped
    <3>3. \A q \in Posters : post'[q].pc = "leading" => post'[q].covered <= manifest'.hook_revision
      BY <1>0, <2>1, <2>2, SMTT(30) DEF FlushOrdered, RevisionsReached, NumbersTyped
    <3> QED
      BY <3>1, <3>2, <3>3 DEF RevisionsReached
  <2> QED
    BY <1>0, <2>1, <2>2, <2>3, <2>5, QuietOrdered DEF FlushOrdered
<1>5. CASE Publish(p)
  <2>1. \A q \in Posters :
            \/ post'[q] = post[q]
            \/ post'[q].pc = "awaiting" /\ post'[q].revision = post[q].revision
    BY <1>0, <1>5 DEF Publish, Request
  <2>2. UNCHANGED <<manifest, receipts, revisions, queue, disk, waiting, critical, acked>>
    BY <1>5 DEF Publish, ReleaseLedger, storeVars
  <2>3. RevisionsReached'
    BY <1>0, <2>1, <2>2 DEF FlushOrdered, RevisionsReached
  <2> QED
    BY <1>0, <2>1, <2>2, <2>3, QuietOrdered DEF FlushOrdered
<1> QED
  BY <1>1, <1>2, <1>3, <1>4, <1>5

\* What a request does once it waits for the flush.
LEMMA AwaitFlush ==
    ASSUME LedgerTypeOK, NumbersTyped, NumbersTyped', FlushOrdered, NEW p \in Posters,
           AwaitDurable(p) \/ AwaitFailed(p) \/ Lead(p) \/ Stamp(p) \/ Settle(p)
    PROVE  FlushOrdered'
<1>0. post \in [Posters -> Request] /\ critical \in Flush /\ waiting \in [Waiters -> Wait]
  BY DEF LedgerTypeOK, RequestTypes, StoreTypes
<1>1. ASSUME NEW durable \in BOOLEAN, Answer(p, durable)
      PROVE  /\ UNCHANGED <<manifest, receipts>>
             /\ \A q \in Posters : q # p => post'[q] = post[q]
             /\ post'[p].pc = "idle" /\ post'[p].revision = 0
             /\ acked' = acked \/ (durable /\ acked' = post[p].revision)
             /\ RevisionsReached'
  <2>1. /\ UNCHANGED <<manifest, receipts>>
        /\ \A q \in Posters : q # p => post'[q] = post[q]
        /\ post'[p].pc = "idle" /\ post'[p].revision = 0
        /\ acked' = acked \/ (durable /\ acked' = post[p].revision)
    BY <1>0, <1>1 DEF Answer, Idle, recordVars
  <2>2. RevisionsReached'
    BY <2>1 DEF FlushOrdered, RevisionsReached, NumbersTyped
  <2> QED
    BY <2>1, <2>2
<1>2. CASE AwaitDurable(p) \/ AwaitFailed(p)
  <2>1. /\ Answer(p, TRUE) /\ post[p].revision <= critical.durable_hook_revision
        \/ Answer(p, FALSE)
    BY <1>2 DEF AwaitDurable, AwaitFailed, IsDurable, NumbersTyped
  <2>2. UNCHANGED <<revisions, queue, disk, waiting, critical>>
    BY <1>2 DEF AwaitDurable, AwaitFailed, storeVars
  <2>3. Pending' = Pending
    BY <2>2 DEF Pending
  <2>4. RevisionsReached' /\ UNCHANGED manifest
    BY <1>1, <2>1
  <2>5. SnapshotsOrdered'
    BY <2>2, <2>3, <2>4 DEF FlushOrdered, SnapshotsOrdered
  <2>6. LeadersCovered'
    BY <1>1, <2>1, <2>2, <2>3 DEF FlushOrdered, LeadersCovered
  <2>7. DurableOnDisk'
    <3>1. \/ acked' = acked
          \/ acked' = post[p].revision /\ post[p].revision <= critical.durable_hook_revision
      BY <1>1, <2>1
    <3> QED
      BY <2>2, <3>1 DEF FlushOrdered, DurableOnDisk, NumbersTyped
  <2> QED
    BY <2>4, <2>5, <2>6, <2>7 DEF FlushOrdered
<1>3. CASE Lead(p)
  <2>1. /\ \A q \in Posters : q # p => post'[q] = post[q]
        /\ post'[p].pc = "leading" /\ post'[p].revision = post[p].revision
        /\ post'[p].covered = manifest.hook_revision
    BY <1>0, <1>3 DEF Lead, Request
  <2>2. /\ UNCHANGED <<manifest, receipts, revisions, queue, disk, waiting, acked>>
        /\ critical'.durable_hook_revision = critical.durable_hook_revision
    BY <1>0, <1>3 DEF Lead, Flush, recordVars, storeVars
  <2>3. Pending' = Pending
    BY <2>2 DEF Pending
  <2>4. RevisionsReached'
    BY <2>1, <2>2 DEF FlushOrdered, RevisionsReached, NumbersTyped
  <2>5. SnapshotsOrdered' /\ DurableOnDisk'
    BY <2>2, <2>3 DEF FlushOrdered, SnapshotsOrdered, DurableOnDisk
  <2>6. LeadersCovered'
    BY <2>1, <2>2, <2>3 DEF FlushOrdered, LeadersCovered, RevisionsReached
  <2> QED
    BY <2>4, <2>5, <2>6 DEF FlushOrdered
<1>4. CASE Stamp(p)
  <2>1. /\ \A q \in Posters : q # p => post'[q] = post[q]
        /\ post[p].pc = "leading" /\ post'[p].pc = "writing"
        /\ post'[p].revision = post[p].revision /\ post'[p].covered = post[p].covered
    BY <1>0, <1>4 DEF Stamp, Request
  <2>2. /\ UNCHANGED <<manifest, receipts, critical, acked>>
        /\ Submit(manifest', "critical", p)
    BY <1>4 DEF Stamp, recordVars
  <2>3. /\ revisions' = revisions + 1 /\ disk' = disk
        /\ \A q \in Posters : q # p => waiting'[q] = waiting[q]
        /\ waiting'[p].revision = revisions + 1 /\ waiting'[p].reply = "none"
    BY <1>0, <2>2 DEF Submit, Waiters
  <2>4. RevisionsReached' /\ DurableOnDisk'
    BY <2>1, <2>2, <2>3 DEF FlushOrdered, RevisionsReached, DurableOnDisk
  <2>5. SnapshotsOrdered'
    BY <2>2, SubmitOrdered DEF FlushOrdered, NumbersTyped
  <2>6. LeadersCovered'
    <3> DEFINE new == [revision |-> revisions + 1, manifest |-> manifest', class |-> "critical"]
    <3>1. Pending' = Pending \cup {new}
      BY <2>2, SubmitPends
    <3>2. new.revision = revisions + 1 /\ new.manifest.hook_revision = manifest.hook_revision
      BY <2>2
    <3> HIDE DEF new
    <3>3. \A q \in Posters : waiting[q].revision \in Nat
      BY DEF NumbersTyped, Waiters
    <3> QED
      BY <2>1, <2>3, <3>1, <3>2, <3>3
         DEF FlushOrdered, LeadersCovered, SnapshotsOrdered, RevisionsReached, NumbersTyped
  <2> QED
    BY <2>4, <2>5, <2>6 DEF FlushOrdered
<1>5. CASE Settle(p)
  <2>1. /\ post[p].pc = "writing" /\ Answer(p, waiting[p].reply = "ok")
        /\ UNCHANGED <<revisions, queue, disk>>
        /\ \A q \in Posters : q # p => waiting'[q] = waiting[q]
        /\ waiting'[p].revision = 0
    BY <1>0, <1>5 DEF Settle, NoWait, Waiters
  <2>2. \/ critical'.durable_hook_revision = critical.durable_hook_revision
        \/ waiting[p].reply = "ok" /\ critical'.durable_hook_revision = post[p].covered
    BY <1>0, <1>5 DEF Settle, Settled, Flush
  <2>3. Pending' = Pending
    BY <2>1 DEF Pending
  <2>4. /\ RevisionsReached' /\ UNCHANGED manifest
        /\ \A q \in Posters : q # p => post'[q] = post[q]
        /\ post'[p].pc = "idle"
        /\ acked' = acked \/ (waiting[p].reply = "ok" /\ acked' = post[p].revision)
    BY <1>1, <2>1
  <2>5. SnapshotsOrdered'
    BY <2>1, <2>3, <2>4 DEF FlushOrdered, SnapshotsOrdered
  <2>6. LeadersCovered'
    BY <2>1, <2>3, <2>4 DEF FlushOrdered, LeadersCovered, NumbersTyped
  <2>7. DurableOnDisk'
    BY <2>1, <2>2, <2>4 DEF FlushOrdered, DurableOnDisk, LeadersCovered, NumbersTyped
  <2> QED
    BY <2>4, <2>5, <2>6, <2>7 DEF FlushOrdered
<1> QED
  BY <1>2, <1>3, <1>4, <1>5

\* What the writer does with a record, and a caller that stops waiting.
LEMMA WriterFlush ==
    ASSUME LedgerTypeOK, NumbersTyped, NumbersTyped', FlushOrdered,
           Land \/ WriteFails \/ \E t \in Waiters : GiveUp(t)
    PROVE  FlushOrdered'
<1>0. /\ waiting \in [Waiters -> Wait] /\ Posters \subseteq Waiters
      /\ queue # <<>> => Head(queue) \in Queued
  BY DEF LedgerTypeOK, StoreTypes, Waiters
<1>1. UNCHANGED <<manifest, receipts, post, critical, acked, revisions>>
  BY DEF Land, WriteFails, GiveUp, recordVars, requestVars
<1>2. RevisionsReached'
  BY <1>1 DEF FlushOrdered, RevisionsReached
<1>3. CASE Land
  <2> DEFINE head == Head(queue)
  <2>1. head \in Pending /\ Pending' \subseteq Pending
    BY <1>3, WriterPends DEF Land
  <2>2. disk' = IF head.revision < disk.revision THEN disk
                ELSE [revision |-> head.revision, manifest |-> head.manifest]
    BY <1>3 DEF Land
  <2>3. \A p \in Posters :
            /\ waiting'[p].revision = waiting[p].revision
            /\ waiting'[p].reply = IF waiting[p].revision = head.revision THEN "ok" ELSE waiting[p].reply
    BY <1>0, <1>3 DEF Land, Told, Wait
  <2> HIDE DEF head
  <2>4. /\ disk.manifest.hook_revision <= disk'.manifest.hook_revision
        /\ head.manifest.hook_revision <= disk'.manifest.hook_revision
    BY <2>1, <2>2 DEF FlushOrdered, SnapshotsOrdered, NumbersTyped
  <2>5. SnapshotsOrdered'
    <3>1. CASE disk' = disk
      BY <1>1, <2>1, <3>1 DEF FlushOrdered, SnapshotsOrdered
    <3>2. CASE disk'.revision = head.revision /\ disk'.manifest = head.manifest
      BY <1>1, <2>1, <3>2 DEF FlushOrdered, SnapshotsOrdered
    <3> QED
      BY <2>2, <3>1, <3>2
  <2>6. DurableOnDisk'
    BY <1>1, <2>4 DEF FlushOrdered, DurableOnDisk, NumbersTyped
  <2>7. LeadersCovered'
    BY <1>1, <2>1, <2>3, <2>4 DEF FlushOrdered, LeadersCovered, NumbersTyped
  <2> QED
    BY <1>2, <2>5, <2>6, <2>7 DEF FlushOrdered
<1>4. CASE WriteFails
  <2>1. Pending' \subseteq Pending /\ disk' = disk
    BY <1>4, WriterPends DEF WriteFails
  <2>2. \A p \in Posters :
            /\ waiting'[p].revision = waiting[p].revision
            /\ waiting'[p].reply = "ok" => waiting[p].reply = "ok"
    BY <1>0, <1>4 DEF WriteFails, Told, Wait
  <2>3. SnapshotsOrdered' /\ DurableOnDisk'
    BY <1>1, <2>1 DEF FlushOrdered, SnapshotsOrdered, DurableOnDisk
  <2>4. LeadersCovered'
    BY <1>1, <2>1, <2>2 DEF FlushOrdered, LeadersCovered
  <2> QED
    BY <1>2, <2>3, <2>4 DEF FlushOrdered
<1>5. ASSUME NEW t \in Waiters, GiveUp(t) PROVE FlushOrdered'
  <2>1. UNCHANGED <<queue, disk>>
    BY <1>5 DEF GiveUp
  <2>2. Pending' = Pending
    BY <2>1 DEF Pending
  <2>3. \A p \in Posters :
            waiting'[p] = waiting[p] \/ (waiting'[p].revision = 0 /\ waiting'[p].reply = "err")
    BY <1>0, <1>5 DEF GiveUp
  <2>4. SnapshotsOrdered' /\ DurableOnDisk'
    BY <1>1, <2>1, <2>2 DEF FlushOrdered, SnapshotsOrdered, DurableOnDisk
  <2>5. LeadersCovered'
    BY <1>1, <2>1, <2>2, <2>3 DEF FlushOrdered, LeadersCovered, SnapshotsOrdered, NumbersTyped
  <2> QED
    BY <1>2, <2>4, <2>5 DEF FlushOrdered
<1> QED
  BY <1>3, <1>4, <1>5

\* Restarts, exits and removals: only the rollback may lower the hook revision,
\* and then it says so.
LEMMA RecordFlush ==
    ASSUME LedgerTypeOK, NumbersTyped, NumbersTyped', FlushOrdered, ~undone',
           \/ RestartThread \/ ExitWritten
           \/ (RestartCapture \/ RemoveBegin \/ RemoveMark)
                 /\ UNCHANGED <<requestVars, storeVars, failures>>
    PROVE  FlushOrdered'
<1>0. manifest \in Manifest /\ Restarter \notin Posters /\ NoThread \notin Posters
  BY LedgerAssumption DEF LedgerTypeOK, RecordTypes
<1>1. ASSUME manifest.hook_revision <= manifest'.hook_revision,
             UNCHANGED <<post, critical, acked>>,
             receipts' = receipts \/ receipts' = <<>>,
             NEW class, NEW t, t \notin Posters, Submit(manifest', class, t)
      PROVE  FlushOrdered'
  <2>1. RevisionsReached'
    BY <1>1 DEF FlushOrdered, RevisionsReached, NumbersTyped
  <2>2. SnapshotsOrdered'
    BY <1>1, SubmitOrdered DEF FlushOrdered
  <2>3. LeadersCovered'
    BY <1>1, OthersSubmit DEF FlushOrdered
  <2>4. DurableOnDisk'
    BY <1>1 DEF FlushOrdered, DurableOnDisk, Submit
  <2> QED
    BY <2>1, <2>2, <2>3, <2>4 DEF FlushOrdered
<1>2. ASSUME UNCHANGED <<post, critical, acked, revisions, queue, disk>>,
             manifest'.hook_revision = manifest.hook_revision,
             receipts' = receipts \/ receipts' = <<>>,
             \A p \in Posters : waiting'[p] = waiting[p]
      PROVE  FlushOrdered'
  <2>1. Pending' = Pending
    BY <1>2 DEF Pending
  <2>2. RevisionsReached'
    BY <1>2 DEF FlushOrdered, RevisionsReached, NumbersTyped
  <2>3. SnapshotsOrdered' /\ LeadersCovered' /\ DurableOnDisk'
    BY <1>2, <2>1 DEF FlushOrdered, SnapshotsOrdered, LeadersCovered, DurableOnDisk
  <2> QED
    BY <2>2, <2>3 DEF FlushOrdered
<1>3. CASE RestartSubmits
  <2>1. manifest'.hook_revision = manifest.hook_revision
    BY <1>0, <1>3 DEF RestartSubmits, RestartBegin, Manifest
  <2> QED
    BY <1>0, <1>1, <1>3, <2>1 DEF RestartSubmits, requestVars, NumbersTyped
<1>4. CASE ExitWritten
  <2>1. manifest'.hook_revision = manifest.hook_revision
    BY <1>0, <1>4 DEF ExitWritten, Exit, Manifest
  <2> QED
    BY <1>0, <1>1, <1>4, <2>1 DEF ExitWritten, requestVars, NumbersTyped
<1>5. CASE RestartUndone
  <2>1. manifest.hook_revision <= manifest'.hook_revision
    <3>1. manifest' = restart.prior /\ ~(restart.prior.hook_revision < manifest.hook_revision)
      BY <1>5, Zenon DEF RestartUndone, RestartRollback
    <3> QED
      BY <3>1 DEF NumbersTyped
  <2> QED
    BY <1>0, <1>1, <1>5, <2>1 DEF RestartUndone, requestVars
<1>6. CASE RestartHears
  <2>1. \A p \in Posters : waiting'[p] = waiting[p]
    BY <1>0, <1>6 DEF RestartHears, LedgerTypeOK, StoreTypes, Waiters
  <2> QED
    BY <1>2, <1>6, <2>1 DEF RestartHears, requestVars
<1>7. CASE RestartKept
  BY <1>2, <1>7 DEF RestartKept, RestartCommit, storeVars
<1>8. CASE /\ RestartLocal \/ RestartCapture \/ RemoveBegin \/ RemoveMark
           /\ UNCHANGED <<requestVars, storeVars, failures>>
  <2>1. UNCHANGED manifest
    BY <1>8 DEF RestartLocal, RestartRefused, RestartReturn, RestartCapture, RemoveBegin, RemoveMark
  <2> QED
    BY <1>2, <1>8, <2>1 DEF requestVars, storeVars
<1> QED
  BY <1>3, <1>4, <1>5, <1>6, <1>7, <1>8 DEF RestartThread, RestartWrites, RestartLocal

\* A rollback that took revisions back stays known.
LEMMA UndoneStays == [Next]_vars /\ ~undone' => ~undone
<1> SUFFICES ASSUME [Next]_vars, ~undone' PROVE ~undone
  OBVIOUS
<1> USE DEF recordVars
<1>1. ASSUME NEW p \in Posters, Poster(p) \/ \E e \in Event : Post(p, e) PROVE ~undone
  BY <1>1 DEF Poster, Post, Refuse, Duplicate, Accept, AcceptHook, Publish, ReleaseLedger,
              AwaitDurable, AwaitFailed, Answer, Lead, Stamp, Settle
<1>2. CASE RestartThread \/ ExitWritten \/ RestartCapture \/ RemoveBegin \/ RemoveMark
  BY <1>2 DEF RestartThread, RestartWrites, RestartLocal, RestartSubmits, RestartBegin, RestartHears,
              RestartKept, RestartCommit, RestartUndone, RestartRollback, RestartRefused,
              RestartReturn, ExitWritten, Exit, RestartCapture, RemoveBegin, RemoveMark
<1>3. CASE Land \/ WriteFails \/ \E t \in Waiters : GiveUp(t)
  BY <1>3 DEF Land, WriteFails, GiveUp
<1>4. CASE UNCHANGED vars
  BY <1>4 DEF vars
<1> QED
  BY <1>1, <1>2, <1>3, <1>4 DEF Next

\* What the leader of a flush and those who wait for it are told is true of the
\* file: FlushInv holds in every state.
THEOREM FlushOrder == Spec => []FlushInv
<1>1. Init => FlushInv
  <2> SUFFICES ASSUME Init PROVE FlushOrdered
    BY DEF FlushInv
  <2>1. Pending = {} /\ DOMAIN receipts = {}
    BY DEF Init, Pending
  <2>2. /\ manifest.hook_revision = 0 /\ disk.revision = 1 /\ disk.manifest.hook_revision = 0
        /\ revisions = 1 /\ acked = 0 /\ critical.durable_hook_revision = 0
        /\ \A p \in Posters : post[p].pc = "idle" /\ post[p].revision = 0
        /\ \A p \in Posters : waiting[p].revision = 0
    BY DEF Init, RecordInit, FirstManifest, Idle, NoWait, Waiters
  <2> QED
    BY <2>1, <2>2
       DEF FlushOrdered, RevisionsReached, SnapshotsOrdered, LeadersCovered, DurableOnDisk
<1>2. /\ LedgerTypeOK /\ NumbersTyped /\ NumbersTyped'
      /\ FlushInv /\ [Next]_vars
      => FlushInv'
  <2> SUFFICES ASSUME LedgerTypeOK, NumbersTyped, NumbersTyped', FlushOrdered, [Next]_vars, ~undone'
               PROVE  FlushOrdered'
    BY UndoneStays DEF FlushInv
  <2>1. CASE UNCHANGED vars
    <3>1. /\ UNCHANGED <<manifest, receipts, post, critical, acked>>
          /\ UNCHANGED <<revisions, queue, disk, waiting>>
      BY <2>1 DEF vars, recordVars, requestVars, storeVars
    <3>2. RevisionsReached'
      BY <3>1 DEF FlushOrdered, RevisionsReached
    <3> QED
      BY <3>1, <3>2, QuietOrdered DEF FlushOrdered, NumbersTyped
  <2> QED
    BY <2>1, IngestFlush, AwaitFlush, WriterFlush, RecordFlush DEF Next, Poster
<1> QED
  BY <1>1, <1>2, LedgerTypes, Numbers, PTL DEF Spec

\* An event answered durable is in the manifest file, whichever request wrote it
\* (await_critical_durability), for any number of requests, failures and restarts.
THEOREM AckedOnDisk == Spec => []AckedIsOnDisk
<1>1. FlushInv => AckedIsOnDisk
  BY DEF FlushInv, FlushOrdered, DurableOnDisk, AckedIsOnDisk
<1> QED
  BY <1>1, FlushOrder, PTL
-----------------------------------------------------------------------------
(***************************************************************************)
(* Proof of the broadcasts                                                 *)
(***************************************************************************)

\* The numbers that BroadcastInv compares.
GenerationsTyped ==
    /\ manifest.generation \in Nat /\ manifest.hook_revision \in Nat
    /\ restart.prior.generation \in Nat /\ LedgerGeneration \in Nat
    /\ \A p \in Posters : post[p].event.generation \in Nat /\ post[p].revision \in Nat
    /\ \A i \in DOMAIN published :
          published[i].event.generation \in Nat /\ published[i].revision \in Nat
    /\ published \in Seq(Noted) /\ receipts \in Seq(Noted)

\* They are numbers.
LEMMA Generations == LedgerTypeOK => GenerationsTyped
<1> SUFFICES ASSUME LedgerTypeOK PROVE GenerationsTyped
  OBVIOUS
<1>1. /\ manifest.generation \in Nat /\ manifest.hook_revision \in Nat
      /\ restart.prior.generation \in Nat
  BY DEF LedgerTypeOK, RecordTypes, Manifest
<1>2. LedgerGeneration \in Nat
  BY <1>1 DEF LedgerGeneration
<1>3. \A p \in Posters : post[p].event.generation \in Nat /\ post[p].revision \in Nat
  BY DEF LedgerTypeOK, RequestTypes, Request, AnyEvent
<1>4. published \in Seq(Noted) /\ receipts \in Seq(Noted)
  BY DEF LedgerTypeOK, RequestTypes
<1>5. \A i \in DOMAIN published : published[i] \in Noted
  BY <1>4
<1>6. \A n \in Noted : n.event.generation \in Nat /\ n.revision \in Nat
  BY DEF Noted, AnyEvent
<1> QED
  BY <1>1, <1>2, <1>3, <1>4, <1>5, <1>6 DEF GenerationsTyped

\* A step that broadcasts nothing, notes nothing and leaves the generation of the
\* ledger alone.
LEMMA QuietBroadcast ==
    ASSUME GenerationsTyped, GenerationsTyped', BroadcastInv, LedgerHeld',
           UNCHANGED <<published, receipts>>,
           LedgerGeneration' = LedgerGeneration,
           holder \in Posters <=> holder' \in Posters,
           undone' \/ (~undone /\ manifest.hook_revision <= manifest'.hook_revision),
           \A q \in Posters : post'[q].pc = "publishing" =>
               /\ post'[q] = post[q]
               /\ manifest'.generation = manifest.generation
               /\ manifest'.hook_revision = manifest.hook_revision
    PROVE  BroadcastInv'
<1>1. PublishesNewest'
  BY DEF BroadcastInv, PublishesNewest
<1>2. PublishedBefore'
  BY DEF BroadcastInv, PublishedBefore, GenerationsTyped
<1>3. AcceptedCount' = AcceptedCount
  BY DEF AcceptedCount
<1>4. ReceiptsRecent'
  BY <1>3 DEF BroadcastInv, ReceiptsRecent
<1>5. PublishedInOrder' /\ NotifiedOnce'
  BY DEF BroadcastInv, PublishedInOrder, NotifiedOnce
<1> QED
  BY <1>1, <1>2, <1>4, <1>5 DEF BroadcastInv

\* The steps of a request outside the ledger.
LEMMA OutsideBroadcast ==
    ASSUME LedgerTypeOK, GenerationsTyped, GenerationsTyped', BroadcastInv, NEW p \in Posters,
           \/ \E e \in Event : Post(p, e)
           \/ Refuse(p) \/ Duplicate(p)
           \/ AwaitDurable(p) \/ AwaitFailed(p) \/ Lead(p) \/ Stamp(p) \/ Settle(p)
    PROVE  BroadcastInv'
<1>0. post \in [Posters -> Request]
  BY DEF LedgerTypeOK, RequestTypes
<1>1. UNCHANGED <<manifest, holder, restart, undone, published, receipts>>
  BY DEF Post, Refuse, Duplicate, AwaitDurable, AwaitFailed, Lead, Stamp, Settle, Answer, recordVars
<1>2. /\ \A q \in Posters : q # p => post'[q] = post[q]
      /\ post[p].pc # "publishing" /\ post'[p].pc # "publishing"
  <2>1. CASE \E e \in Event : Post(p, e)
    BY <1>0, <2>1 DEF Post, Idle
  <2>2. CASE Refuse(p)
    BY <1>0, <2>2 DEF Refuse, Examines, Idle
  <2>3. CASE Duplicate(p)
    BY <1>0, <2>3 DEF Duplicate, Examines, Request
  <2>4. CASE AwaitDurable(p) \/ AwaitFailed(p)
    BY <1>0, <2>4 DEF AwaitDurable, AwaitFailed, Awaits, Answer, Idle
  <2>5. CASE Lead(p)
    BY <1>0, <2>5 DEF Lead, Awaits, Request
  <2>6. CASE Stamp(p)
    BY <1>0, <2>6 DEF Stamp, Request
  <2>7. CASE Settle(p)
    BY <1>0, <2>7 DEF Settle, Answer, Idle
  <2> QED
    BY <2>1, <2>2, <2>3, <2>4, <2>5, <2>6, <2>7
<1>3. LedgerHeld'
  BY <1>1, <1>2 DEF BroadcastInv, LedgerHeld
<1>4. LedgerGeneration' = LedgerGeneration
  BY <1>1 DEF LedgerGeneration
<1>5. undone' \/ (~undone /\ manifest.hook_revision <= manifest'.hook_revision)
  BY <1>1 DEF GenerationsTyped
<1> QED
  BY <1>1, <1>2, <1>3, <1>4, <1>5, QuietBroadcast

\* An index counted from the end, when the sequence has grown by one.
LEMMA OneFurther ==
    \A n, d \in Nat : n - d \in 1..n =>
        n + 1 - (d + 1) \in 1..(n + 1) /\ n + 1 - (d + 1) = n - d
OBVIOUS

\* A new receipt comes last, and all but the oldest keep their distance to it.
LEMMA RememberedShape ==
    ASSUME receipts \in Seq(Noted), NEW e \in AnyEvent, NEW r \in Nat, NEW s, s = Remembered(e, r)
    PROVE  /\ s # <<>> /\ s[Len(s)].event = e
           /\ \A d \in Nat : Len(receipts) - d \in DOMAIN receipts /\ d + 1 < MaxReceipts =>
                  /\ Len(s) - (d + 1) \in DOMAIN s
                  /\ s[Len(s) - (d + 1)] = receipts[Len(receipts) - d]
<1> DEFINE new == [event |-> e, revision |-> r]
<1>1. new \in Noted /\ new.event = e
  BY DEF Noted
<1>2. MaxReceipts \in Nat \ {0} /\ Len(receipts) \in Nat /\ DOMAIN receipts = 1..Len(receipts)
  BY LedgerAssumption
<1>3. s = Append(IF Len(receipts) >= MaxReceipts THEN Tail(receipts) ELSE receipts, new)
  BY DEF Remembered
<1> HIDE DEF new
<1>4. CASE Len(receipts) >= MaxReceipts
  <2>1. /\ Tail(receipts) \in Seq(Noted) /\ Len(Tail(receipts)) = Len(receipts) - 1
        /\ \A i \in 1..(Len(receipts) - 1) : Tail(receipts)[i] = receipts[i + 1]
    BY <1>2, <1>4
  <2>2. /\ Len(s) = Len(receipts) /\ DOMAIN s = 1..Len(receipts) /\ s[Len(receipts)] = new
        /\ \A i \in 1..(Len(receipts) - 1) : s[i] = receipts[i + 1]
    BY <1>1, <1>2, <1>3, <1>4, <2>1
  <2>3. ASSUME NEW d \in Nat, d + 1 < MaxReceipts
        PROVE  /\ Len(receipts) - (d + 1) \in 1..(Len(receipts) - 1)
               /\ Len(receipts) - (d + 1) \in 1..Len(receipts)
               /\ Len(receipts) - (d + 1) + 1 = Len(receipts) - d
    BY <1>2, <1>4, <2>3
  <2> QED
    BY <1>1, <1>2, <1>4, <2>2, <2>3
<1>5. CASE ~(Len(receipts) >= MaxReceipts)
  <2>1. /\ Len(s) = Len(receipts) + 1 /\ DOMAIN s = 1..(Len(receipts) + 1)
        /\ s[Len(receipts) + 1] = new
        /\ \A i \in 1..Len(receipts) : s[i] = receipts[i]
    BY <1>1, <1>2, <1>3, <1>5
  <2>2. ASSUME NEW d \in Nat, Len(receipts) - d \in 1..Len(receipts)
        PROVE  /\ Len(receipts) + 1 - (d + 1) \in 1..(Len(receipts) + 1)
               /\ Len(receipts) + 1 - (d + 1) = Len(receipts) - d
    BY <1>2, <2>2, OneFurther
  <2>3. ASSUME NEW d \in Nat, Len(receipts) - d \in DOMAIN receipts
        PROVE  /\ Len(s) - (d + 1) \in DOMAIN s
               /\ s[Len(s) - (d + 1)] = receipts[Len(receipts) - d]
    <3>1. Len(receipts) - d \in 1..Len(receipts)
      BY <1>2, <2>3
    <3>2. Len(s) - (d + 1) = Len(receipts) - d /\ Len(s) - (d + 1) \in DOMAIN s
      BY <2>1, <2>2, <3>1
    <3> QED
      BY <2>1, <3>1, <3>2
  <2>4. s # <<>> /\ s[Len(s)].event = e
    BY <1>1, <1>2, <2>1
  <2> QED
    BY <2>3, <2>4
<1> QED
  BY <1>4, <1>5

\* The event a request accepts has no receipt, and none of the last MaxReceipts
\* broadcasts of its generation has none.
LEMMA AcceptBroadcast ==
    ASSUME LedgerTypeOK, GenerationsTyped, GenerationsTyped', BroadcastInv,
           NEW p \in Posters, Accept(p)
    PROVE  BroadcastInv'
<1>0. post \in [Posters -> Request] /\ manifest \in Manifest /\ NoThread \notin Posters
  BY LedgerAssumption DEF LedgerTypeOK, RequestTypes, RecordTypes
<1>1. /\ UNCHANGED <<restart, undone, published>>
      /\ holder = NoThread /\ holder' = p
      /\ post[p].pc = "posted" /\ post[p].event.generation = manifest.generation
      /\ ~HasReceipt(post[p].event)
      /\ receipts' = Remembered(post[p].event, manifest'.hook_revision)
  BY DEF Accept, AcceptHook, Examines, Current
<1>2. /\ manifest'.hook_revision = manifest.hook_revision + 1
      /\ manifest'.generation = manifest.generation
  BY <1>0 DEF Accept, AcceptHook, Manifest
<1>3. /\ \A q \in Posters : q # p => post'[q] = post[q]
      /\ post'[p].pc = "publishing" /\ post'[p].revision = manifest'.hook_revision
      /\ post'[p].event = post[p].event
  BY <1>0 DEF Accept, Request
<1>4. /\ restart.pc \notin {"writing", "ok", "err", "undone"}
      /\ \A q \in Posters : post[q].pc # "publishing"
      /\ LedgerGeneration = manifest.generation /\ LedgerGeneration' = LedgerGeneration
  BY <1>0, <1>1, <1>2 DEF BroadcastInv, LedgerHeld, LedgerGeneration, Restarter, NoThread
<1>5. LedgerHeld'
  BY <1>0, <1>1, <1>3, <1>4, LedgerAssumption DEF LedgerHeld
<1>6. PublishedBefore'
  BY <1>1, <1>2, <1>4 DEF BroadcastInv, PublishedBefore, GenerationsTyped
<1>7. PublishesNewest'
  <2>1. \A i \in DOMAIN published : undone \/ published[i].revision < manifest.hook_revision + 1
    BY DEF BroadcastInv, PublishedBefore, GenerationsTyped
  <2>2. \A q \in Posters : post'[q].pc = "publishing" => q = p
    BY <1>3, <1>4
  <2> QED
    BY <1>1, <1>2, <1>3, <2>1, <2>2 DEF PublishesNewest
<1>8. AcceptedCount = Len(published) /\ AcceptedCount' = Len(published) + 1
  BY <1>0, <1>1 DEF AcceptedCount, GenerationsTyped
<1>9. PublishedInOrder' /\ NotifiedOnce'
  BY <1>1 DEF BroadcastInv, PublishedInOrder, NotifiedOnce
<1>10. /\ Len(published) \in Nat /\ DOMAIN published = 1..Len(published)
       /\ Len(receipts) \in Nat /\ DOMAIN receipts = 1..Len(receipts)
  BY DEF GenerationsTyped
<1>11. ASSUME NEW i \in DOMAIN published,
              published[i].event.generation = LedgerGeneration,
              Len(published) - i < MaxReceipts
       PROVE  /\ Len(published) - i \in Nat
              /\ Len(receipts) - (Len(published) - i) \in DOMAIN receipts
              /\ receipts[Len(receipts) - (Len(published) - i)].event = published[i].event
  <2>1. Len(published) - i \in Nat
    BY <1>10
  <2> QED
    BY <1>8, <1>11, <2>1 DEF BroadcastInv, ReceiptsRecent
<1>12. /\ receipts' # <<>> /\ receipts'[Len(receipts')].event = post[p].event
       /\ \A d \in Nat : Len(receipts) - d \in DOMAIN receipts /\ d + 1 < MaxReceipts =>
              /\ Len(receipts') - (d + 1) \in DOMAIN receipts'
              /\ receipts'[Len(receipts') - (d + 1)] = receipts[Len(receipts) - d]
  <2>1. post[p].event \in AnyEvent /\ manifest'.hook_revision \in Nat /\ receipts \in Seq(Noted)
    BY <1>0 DEF Request, GenerationsTyped
  <2> QED
    BY <1>1, <2>1, RememberedShape
<1>13. ASSUME NEW i \in DOMAIN published,
              published[i].event.generation = LedgerGeneration,
              Len(published) + 1 - i < MaxReceipts
       PROVE  /\ Len(receipts') - (Len(published) + 1 - i) \in DOMAIN receipts'
              /\ receipts'[Len(receipts') - (Len(published) + 1 - i)].event = published[i].event
  <2>1. i \in Nat /\ MaxReceipts \in Nat
    BY <1>10, LedgerAssumption
  <2>2. (Len(published) - i) + 1 = Len(published) + 1 - i /\ Len(published) - i < MaxReceipts
    BY <1>10, <1>13, <2>1
  <2> QED
    BY <1>11, <1>12, <1>13, <2>2
<1>14. ASSUME NEW i \in DOMAIN published, published[i].event = post[p].event
       PROVE  Len(published) + 1 - i > MaxReceipts
  <2>1. i \in Nat /\ MaxReceipts \in Nat
    BY <1>10, LedgerAssumption
  <2>2. published[i].event.generation = LedgerGeneration
    BY <1>1, <1>4, <1>14
  <2>3. ~(Len(published) - i < MaxReceipts)
    BY <1>1, <1>11, <1>14, <2>2 DEF HasReceipt
  <2> QED
    BY <1>10, <2>1, <2>3
<1>15. ReceiptsRecent'
  <2>1. \A q \in Posters : post'[q].pc = "publishing" => q = p
    BY <1>3, <1>4
  <2>2. ASSUME NEW i \in DOMAIN published',
               published'[i].event.generation = LedgerGeneration', AcceptedCount' - i < MaxReceipts
        PROVE  /\ Len(receipts') - (AcceptedCount' - i) \in DOMAIN receipts'
               /\ receipts'[Len(receipts') - (AcceptedCount' - i)].event = published'[i].event
    <3>1. published' = published /\ LedgerGeneration' = LedgerGeneration
      BY <1>1, <1>4
    <3>2. /\ i \in DOMAIN published /\ published[i].event.generation = LedgerGeneration
          /\ Len(published) + 1 - i < MaxReceipts
      BY <1>8, <2>2, <3>1
    <3>3. /\ Len(receipts') - (Len(published) + 1 - i) \in DOMAIN receipts'
          /\ receipts'[Len(receipts') - (Len(published) + 1 - i)].event = published[i].event
      BY <1>13, <3>2
    <3> QED
      BY <1>8, <3>1, <3>3
  <2>3. ASSUME NEW q \in Posters, post'[q].pc = "publishing"
        PROVE  /\ receipts' # <<>>
               /\ receipts'[Len(receipts')].event = post'[q].event
               /\ \A i \in DOMAIN published' :
                     published'[i].event = post'[q].event => Len(published') + 1 - i > MaxReceipts
    BY <1>1, <1>3, <1>12, <1>14, <2>1, <2>3
  <2> QED
    BY <2>2, <2>3 DEF ReceiptsRecent
<1> QED
  BY <1>5, <1>6, <1>7, <1>9, <1>15 DEF BroadcastInv

\* The broadcast of the accepted event.
LEMMA PublishBroadcast ==
    ASSUME LedgerTypeOK, GenerationsTyped, GenerationsTyped', BroadcastInv,
           NEW p \in Posters, Publish(p)
    PROVE  BroadcastInv'
<1> DEFINE new == [event |-> post[p].event, revision |-> post[p].revision]
<1>0. /\ post \in [Posters -> Request] /\ NoThread \notin Posters /\ Restarter \notin Posters
      /\ new \in Noted /\ new.event = post[p].event /\ new.revision = post[p].revision
      /\ new.event.generation \in Nat /\ new.revision \in Nat
  BY LedgerAssumption DEF LedgerTypeOK, RequestTypes, Request, Noted, GenerationsTyped
<1>1. /\ UNCHANGED <<manifest, restart, undone, receipts>>
      /\ holder' = NoThread /\ post[p].pc = "publishing"
      /\ published' = Append(published, new)
  BY DEF Publish, ReleaseLedger
<1> HIDE DEF new
<1>2. /\ \A q \in Posters : q # p => post'[q] = post[q]
      /\ post'[p].pc = "awaiting"
  BY <1>0 DEF Publish, Request
<1>3. holder = p /\ \A q \in Posters : q # p => post[q].pc # "publishing"
  BY <1>1 DEF BroadcastInv, LedgerHeld
<1>4. /\ restart.pc \notin {"writing", "ok", "err", "undone"}
      /\ LedgerGeneration = manifest.generation /\ LedgerGeneration' = LedgerGeneration
  BY <1>0, <1>1, <1>3 DEF BroadcastInv, LedgerHeld, LedgerGeneration
<1>5. LedgerHeld'
  BY <1>0, <1>1, <1>2, <1>3, <1>4 DEF LedgerHeld, Restarter, NoThread
<1>6. /\ Len(published) \in Nat /\ DOMAIN published = 1..Len(published)
      /\ Len(published') = Len(published) + 1 /\ DOMAIN published' = 1..(Len(published) + 1)
      /\ \A i \in DOMAIN published : published'[i] = published[i]
      /\ published'[Len(published) + 1] = new
  BY <1>0, <1>1 DEF GenerationsTyped
<1>7. \A i \in DOMAIN published' :
          \/ i \in DOMAIN published /\ published'[i] = published[i]
          \/ i = Len(published) + 1 /\ published'[i] = new
  BY <1>6
<1>8. /\ new.event.generation = LedgerGeneration
      /\ undone \/ /\ new.revision = manifest.hook_revision
                   /\ \A i \in DOMAIN published : published[i].revision < new.revision
      /\ \A i \in DOMAIN published :
            published[i].event = new.event => Len(published) + 1 - i > MaxReceipts
      /\ receipts # <<>> /\ receipts[Len(receipts)].event = new.event
  BY <1>0, <1>1, <1>4 DEF BroadcastInv, PublishesNewest, ReceiptsRecent
<1>9. PublishesNewest'
  BY <1>2, <1>3 DEF PublishesNewest
<1>10. PublishedBefore'
  BY <1>0, <1>1, <1>4, <1>7, <1>8 DEF BroadcastInv, PublishedBefore, GenerationsTyped
<1>11. PublishedInOrder'
  <2> SUFFICES ASSUME ~undone', NEW i \in DOMAIN published', NEW j \in DOMAIN published', i < j
               PROVE  \/ published'[i].event.generation < published'[j].event.generation
                      \/ /\ published'[i].event.generation = published'[j].event.generation
                         /\ published'[i].revision < published'[j].revision
    BY DEF PublishedInOrder
  <2>1. i \in DOMAIN published /\ published'[i] = published[i] /\ ~undone
    BY <1>1, <1>6, <1>7
  <2>2. CASE j \in DOMAIN published /\ published'[j] = published[j]
    BY <2>1, <2>2 DEF BroadcastInv, PublishedInOrder
  <2>3. CASE published'[j] = new
    <3>1. /\ published[i].event.generation <= LedgerGeneration
          /\ published[i].revision < new.revision
          /\ published[i].event.generation \in Nat /\ LedgerGeneration \in Nat
      BY <1>8, <2>1 DEF BroadcastInv, PublishedBefore, GenerationsTyped
    <3> QED
      BY <1>8, <2>1, <2>3, <3>1
  <2> QED
    BY <1>7, <2>2, <2>3
<1>12. NotifiedOnce'
  <2> SUFFICES ASSUME NEW i \in DOMAIN published', NEW j \in DOMAIN published',
                      i < j, published'[i].event = published'[j].event
               PROVE  j - i > MaxReceipts
    BY DEF NotifiedOnce
  <2>1. i \in DOMAIN published /\ published'[i] = published[i]
    BY <1>6, <1>7
  <2>2. CASE j \in DOMAIN published /\ published'[j] = published[j]
    BY <2>1, <2>2 DEF BroadcastInv, NotifiedOnce
  <2>3. CASE j = Len(published) + 1 /\ published'[j] = new
    BY <1>8, <2>1, <2>3
  <2> QED
    BY <1>7, <2>2, <2>3
<1>13. AcceptedCount = Len(published) + 1 /\ AcceptedCount' = Len(published) + 1
  BY <1>0, <1>1, <1>3, <1>6 DEF AcceptedCount
<1>14. ReceiptsRecent'
  <2>1. \A q \in Posters : post'[q].pc # "publishing"
    BY <1>2, <1>3
  <2>2. ASSUME NEW i \in DOMAIN published',
               published'[i].event.generation = LedgerGeneration', AcceptedCount' - i < MaxReceipts
        PROVE  /\ Len(receipts') - (AcceptedCount' - i) \in DOMAIN receipts'
               /\ receipts'[Len(receipts') - (AcceptedCount' - i)].event = published'[i].event
    <3>1. CASE i \in DOMAIN published /\ published'[i] = published[i]
      <4>1. published[i].event.generation = LedgerGeneration /\ AcceptedCount - i < MaxReceipts
        BY <1>4, <1>13, <2>2, <3>1
      <4>2. /\ Len(receipts) - (AcceptedCount - i) \in DOMAIN receipts
            /\ receipts[Len(receipts) - (AcceptedCount - i)].event = published[i].event
        BY <3>1, <4>1 DEF BroadcastInv, ReceiptsRecent
      <4> QED
        BY <1>1, <1>13, <3>1, <4>2
    <3>2. CASE i = Len(published) + 1 /\ published'[i] = new
      <4>1. Len(receipts) \in Nat \ {0} /\ DOMAIN receipts = 1..Len(receipts)
        BY <1>8 DEF GenerationsTyped
      <4>2. AcceptedCount' - i = 0 /\ Len(receipts) - 0 = Len(receipts)
        BY <1>6, <1>13, <3>2, <4>1
      <4>3. Len(receipts) - (AcceptedCount' - i) = Len(receipts) /\ Len(receipts) \in DOMAIN receipts
        BY <4>1, <4>2
      <4> QED
        BY <1>1, <1>8, <3>2, <4>3
    <3> QED
      BY <1>7, <3>1, <3>2
  <2> QED
    BY <2>1, <2>2 DEF ReceiptsRecent
<1> QED
  BY <1>5, <1>9, <1>10, <1>11, <1>12, <1>14 DEF BroadcastInv

\* Restarts, exits and removals broadcast no event.
LEMMA RecordBroadcast ==
    ASSUME LedgerTypeOK, GenerationsTyped, GenerationsTyped', BroadcastInv,
           \/ RestartThread \/ ExitWritten
           \/ (RestartCapture \/ RemoveBegin \/ RemoveMark)
                 /\ UNCHANGED <<requestVars, storeVars, failures>>
    PROVE  BroadcastInv'
<1>0. /\ manifest \in Manifest /\ Restarter \notin Posters /\ NoThread \notin Posters
      /\ Restarter # NoThread
      /\ restart \in [pc : {"idle", "captured", "writing", "ok", "err", "undone"}, prior : Manifest]
      /\ manifest.generation \in Nat /\ manifest.hook_revision \in Nat
      /\ restart.prior.generation \in Nat /\ restart.prior.hook_revision \in Nat
  BY LedgerAssumption DEF LedgerTypeOK, RecordTypes, Manifest, Restarter, NoThread
<1>1. UNCHANGED <<post, published>>
  BY DEF RestartThread, RestartWrites, RestartLocal, RestartSubmits, RestartHears, RestartKept,
         RestartUndone, ExitWritten, requestVars
<1>2. CASE RestartSubmits
  <2>1. /\ UNCHANGED <<receipts, undone>> /\ holder = NoThread /\ holder' = Restarter
        /\ restart.pc = "captured" /\ manifest.generation = restart.prior.generation
        /\ restart'.pc = "writing" /\ restart'.prior = restart.prior
        /\ manifest'.generation = manifest.generation + 1
        /\ manifest'.hook_revision = manifest.hook_revision
    BY <1>0, <1>2 DEF RestartSubmits, RestartBegin, RestartHolds, StillPrior, Manifest, requestVars
  <2>2. LedgerHeld'
    BY <1>0, <1>1, <2>1 DEF BroadcastInv, LedgerHeld
  <2>3. LedgerGeneration' = LedgerGeneration
    BY <2>1 DEF LedgerGeneration
  <2>4. \A q \in Posters : post'[q].pc # "publishing"
    BY <1>0, <1>1, <2>1 DEF BroadcastInv, LedgerHeld
  <2> QED
    BY <1>0, <1>1, <2>1, <2>2, <2>3, <2>4, QuietBroadcast
<1>3. CASE RestartHears
  <2>1. /\ UNCHANGED <<receipts, undone, holder, manifest>>
        /\ restart.pc = "writing" /\ restart'.pc \in {"ok", "err"} /\ restart'.prior = restart.prior
    BY <1>0, <1>3 DEF RestartHears, LedgerTypeOK, StoreTypes, Wait, Waiters, requestVars
  <2>2. LedgerHeld' /\ LedgerGeneration' = LedgerGeneration
    BY <1>1, <2>1 DEF BroadcastInv, LedgerHeld, LedgerGeneration
  <2> QED
    BY <1>0, <1>1, <2>1, <2>2, QuietBroadcast
<1>4. CASE RestartUndone
  <2>1. /\ UNCHANGED <<receipts, holder>> /\ manifest' = restart.prior
        /\ restart.pc = "err" /\ restart'.pc = "undone"
    BY <1>0, <1>4 DEF RestartUndone, RestartRollback, requestVars
  <2>2. undone' \/ (~undone /\ manifest.hook_revision <= manifest'.hook_revision)
    <3>1. undone' \/ (~undone /\ ~(restart.prior.hook_revision < manifest.hook_revision))
      BY <1>4, Zenon DEF RestartUndone, RestartRollback
    <3> QED
      BY <1>0, <2>1, <3>1
  <2>3. LedgerHeld' /\ LedgerGeneration' = LedgerGeneration
    BY <1>1, <2>1 DEF BroadcastInv, LedgerHeld, LedgerGeneration
  <2>4. \A q \in Posters : post'[q].pc # "publishing"
    BY <1>0, <1>1, <2>1 DEF BroadcastInv, LedgerHeld
  <2> QED
    BY <1>0, <1>1, <2>1, <2>2, <2>3, <2>4, QuietBroadcast
<1>5. CASE ExitWritten
  <2>1. /\ UNCHANGED <<receipts, undone, holder, restart>>
        /\ manifest'.generation = manifest.generation
        /\ manifest'.hook_revision = manifest.hook_revision
    BY <1>0, <1>5 DEF ExitWritten, Exit, Manifest, requestVars
  <2>2. LedgerHeld' /\ LedgerGeneration' = LedgerGeneration
    BY <1>1, <2>1 DEF BroadcastInv, LedgerHeld, LedgerGeneration
  <2> QED
    BY <1>0, <1>1, <2>1, <2>2, QuietBroadcast
<1>6. CASE RestartKept
  <2>1. /\ UNCHANGED <<undone, manifest>> /\ holder' = NoThread /\ receipts' = <<>>
        /\ restart.pc = "ok" /\ restart'.pc = "idle"
    BY <1>0, <1>6 DEF RestartKept, RestartCommit
  <2>2. holder = Restarter /\ LedgerGeneration < LedgerGeneration'
    BY <2>1 DEF BroadcastInv, LedgerHeld, LedgerGeneration
  <2>3. \A q \in Posters : post'[q].pc # "publishing"
    BY <1>0, <1>1, <2>2 DEF BroadcastInv, LedgerHeld
  <2>4. LedgerHeld'
    BY <1>0, <2>1, <2>3 DEF LedgerHeld
  <2>5. /\ PublishesNewest' /\ PublishedBefore' /\ PublishedInOrder' /\ NotifiedOnce'
    BY <1>1, <2>1, <2>2, <2>3 DEF BroadcastInv, PublishesNewest, PublishedBefore, PublishedInOrder,
                                  NotifiedOnce, GenerationsTyped
  <2>6. \A i \in DOMAIN published' : published'[i].event.generation # LedgerGeneration'
    BY <1>1, <2>2 DEF BroadcastInv, PublishedBefore, GenerationsTyped
  <2>7. ReceiptsRecent'
    BY <2>3, <2>6 DEF ReceiptsRecent
  <2> QED
    BY <2>4, <2>5, <2>7 DEF BroadcastInv
<1>7. CASE /\ RestartLocal \/ RestartCapture \/ RemoveBegin \/ RemoveMark
           /\ UNCHANGED <<requestVars, storeVars, failures>>
  <2>1. /\ UNCHANGED <<manifest, undone, receipts>>
        /\ \/ UNCHANGED <<holder, restart>>
           \/ /\ UNCHANGED holder
              /\ restart.pc \in {"idle", "captured"} /\ restart'.pc \in {"idle", "captured"}
           \/ /\ restart.pc = "undone" /\ restart'.pc = "idle" /\ holder' = NoThread
    BY <1>0, <1>7 DEF RestartLocal, RestartRefused, RestartHolds, RestartReturn, RestartCapture,
                      RemoveBegin, RemoveMark, requestVars
  <2>2. LedgerHeld' /\ LedgerGeneration' = LedgerGeneration
    BY <1>0, <1>1, <2>1 DEF BroadcastInv, LedgerHeld, LedgerGeneration
  <2>3. holder \in Posters <=> holder' \in Posters
    BY <1>0, <2>1 DEF BroadcastInv, LedgerHeld
  <2> QED
    BY <1>0, <1>1, <2>1, <2>2, <2>3, QuietBroadcast
<1> QED
  BY <1>2, <1>3, <1>4, <1>5, <1>6, <1>7 DEF RestartThread, RestartWrites, RestartLocal

\* The ledger is held from the check of an event to its broadcast, and its
\* receipts are those of the last events: BroadcastInv holds in every state.
THEOREM BroadcastOrder == Spec => []BroadcastInv
<1>1. Init => BroadcastInv
  <2> SUFFICES ASSUME Init PROVE BroadcastInv
    OBVIOUS
  <2>1. /\ DOMAIN published = {} /\ restart.pc = "idle" /\ holder = NoThread
        /\ \A p \in Posters : post[p].pc = "idle"
    BY DEF Init, RecordInit, Idle
  <2> QED
    BY <2>1, LedgerAssumption
       DEF BroadcastInv, LedgerHeld, PublishesNewest, PublishedBefore, ReceiptsRecent,
           PublishedInOrder, NotifiedOnce, Restarter, NoThread
<1>2. /\ LedgerTypeOK /\ GenerationsTyped /\ GenerationsTyped'
      /\ BroadcastInv /\ [Next]_vars
      => BroadcastInv'
  <2> SUFFICES ASSUME LedgerTypeOK, GenerationsTyped, GenerationsTyped', BroadcastInv, [Next]_vars
               PROVE  BroadcastInv'
    OBVIOUS
  <2>1. CASE UNCHANGED vars \/ Land \/ WriteFails \/ \E t \in Waiters : GiveUp(t)
    <3>1. UNCHANGED <<recordVars, requestVars>>
      BY <2>1 DEF vars, Land, WriteFails, GiveUp
    <3>2. UNCHANGED <<manifest, holder, restart, undone, published, receipts, post>>
      BY <3>1 DEF recordVars, requestVars
    <3>3. LedgerHeld' /\ LedgerGeneration' = LedgerGeneration
      BY <3>2 DEF BroadcastInv, LedgerHeld, LedgerGeneration
    <3> QED
      BY <3>2, <3>3, QuietBroadcast DEF GenerationsTyped
  <2> QED
    BY <2>1, OutsideBroadcast, AcceptBroadcast, PublishBroadcast, RecordBroadcast DEF Next, Poster
<1> QED
  BY <1>1, <1>2, LedgerTypes, Generations, PTL DEF Spec

\* Followers hear of the events of a generation in the order of their revisions,
\* for any number of racing requests (ingest_agent_event holds the ledger).
THEOREM BroadcastsInOrder == Spec => []PublishedInOrder
<1>1. BroadcastInv => PublishedInOrder
  BY DEF BroadcastInv
<1> QED
  BY <1>1, BroadcastOrder, PTL

\* An event is not broadcast twice among the last MAX_HOOK_RECEIPTS broadcasts,
\* whatever is retried, restarted or undone.
THEOREM NoSecondNotice == Spec => []NotifiedOnce
<1>1. BroadcastInv => NotifiedOnce
  BY DEF BroadcastInv
<1> QED
  BY <1>1, BroadcastOrder, PTL
=============================================================================
