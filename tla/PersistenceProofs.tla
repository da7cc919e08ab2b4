------------------------- MODULE PersistenceProofs -------------------------
(***************************************************************************)
(* Proofs about the persistence service, for any sessions, sizes, budget   *)
(* and bounds.                                                             *)
(***************************************************************************)
EXTENDS Persistence, SumProofs, FiniteSetTheorems, TLAPS

(***************************************************************************)
(* Sequences and maps                                                      *)
(***************************************************************************)

\* Appending a job keeps the queue a queue and adds that job to its contents.
LEMMA AppendElems ==
    ASSUME NEW S, NEW q \in Seq(S), NEW x \in S
    PROVE  /\ Append(q, x) \in Seq(S)
           /\ Elems(Append(q, x)) = Elems(q) \cup {x}
<1>1. Append(q, x) \in Seq(S)
  OBVIOUS
<1>2. /\ Len(Append(q, x)) = Len(q) + 1
      /\ \A i \in 1..Len(q) : Append(q, x)[i] = q[i]
      /\ Append(q, x)[Len(q) + 1] = x
      /\ Len(q) \in Nat
  OBVIOUS
<1>3. /\ DOMAIN q = 1..Len(q)
      /\ DOMAIN Append(q, x) = 1..(Len(q) + 1)
  BY <1>1, <1>2
<1>4. Elems(Append(q, x)) \subseteq Elems(q) \cup {x}
  <2>1. SUFFICES ASSUME NEW i \in 1..(Len(q) + 1)
                 PROVE  Append(q, x)[i] \in Elems(q) \cup {x}
    BY <1>3 DEF Elems
  <2>2. CASE i \in 1..Len(q)
    BY <1>2, <1>3, <2>2 DEF Elems
  <2>3. CASE i = Len(q) + 1
    BY <1>2, <2>3
  <2> QED
    BY <1>2, <2>2, <2>3
<1>5. Elems(q) \subseteq Elems(Append(q, x))
  <2>1. SUFFICES ASSUME NEW i \in 1..Len(q)
                 PROVE  q[i] \in Elems(Append(q, x))
    BY <1>3 DEF Elems
  <2>2. i \in 1..(Len(q) + 1) /\ Append(q, x)[i] = q[i]
    BY <1>2
  <2> QED
    BY <1>3, <2>2 DEF Elems
<1>6. x \in Elems(Append(q, x))
  BY <1>2, <1>3 DEF Elems
<1> QED
  BY <1>1, <1>4, <1>5, <1>6

\* Taking the first job of a queue splits its contents in two.
LEMMA TailElems ==
    ASSUME NEW S, NEW q \in Seq(S), q # <<>>
    PROVE  /\ Head(q) \in S
           /\ Tail(q) \in Seq(S)
           /\ Elems(q) = Elems(Tail(q)) \cup {Head(q)}
<1>1. /\ Head(q) \in S
      /\ Tail(q) \in Seq(S)
      /\ Len(q) \in Nat /\ Len(q) > 0
      /\ Len(Tail(q)) = Len(q) - 1
      /\ \A i \in 1..(Len(q) - 1) : Tail(q)[i] = q[i + 1]
      /\ Head(q) = q[1]
  OBVIOUS
<1>2. /\ DOMAIN q = 1..Len(q)
      /\ DOMAIN Tail(q) = 1..(Len(q) - 1)
  BY <1>1
<1>3. Elems(q) \subseteq Elems(Tail(q)) \cup {Head(q)}
  <2>1. SUFFICES ASSUME NEW i \in 1..Len(q)
                 PROVE  q[i] \in Elems(Tail(q)) \cup {Head(q)}
    BY <1>2 DEF Elems
  <2>2. CASE i = 1
    BY <1>1, <2>2
  <2>3. CASE i # 1
    <3>1. i - 1 \in 1..(Len(q) - 1) /\ (i - 1) + 1 = i
      BY <1>1, <2>3
    <3> QED
      BY <1>1, <1>2, <3>1 DEF Elems
  <2> QED
    BY <2>2, <2>3
<1>4. Elems(Tail(q)) \subseteq Elems(q)
  <2>1. SUFFICES ASSUME NEW i \in 1..(Len(q) - 1)
                 PROVE  Tail(q)[i] \in Elems(q)
    BY <1>2 DEF Elems
  <2>2. i + 1 \in 1..Len(q)
    BY <1>1
  <2> QED
    BY <1>1, <1>2, <2>2 DEF Elems
<1>5. Head(q) \in Elems(q)
  BY <1>1, <1>2 DEF Elems
<1> QED
  BY <1>1, <1>3, <1>4, <1>5

\* Appending a sequence adds its contents.
LEMMA ConcatElems ==
    ASSUME NEW S, NEW p \in Seq(S), NEW q \in Seq(S)
    PROVE  /\ p \o q \in Seq(S)
           /\ Elems(p \o q) = Elems(p) \cup Elems(q)
<1>1. /\ p \o q \in Seq(S)
      /\ Len(p) \in Nat /\ Len(q) \in Nat
      /\ Len(p \o q) = Len(p) + Len(q)
      /\ \A i \in 1..(Len(p) + Len(q)) :
            (p \o q)[i] = IF i <= Len(p) THEN p[i] ELSE q[i - Len(p)]
  OBVIOUS
<1>2. /\ DOMAIN p = 1..Len(p)
      /\ DOMAIN q = 1..Len(q)
      /\ DOMAIN (p \o q) = 1..(Len(p) + Len(q))
  BY <1>1
<1>3. Elems(p \o q) \subseteq Elems(p) \cup Elems(q)
  <2>1. SUFFICES ASSUME NEW i \in 1..(Len(p) + Len(q))
                 PROVE  (p \o q)[i] \in Elems(p) \cup Elems(q)
    BY <1>2 DEF Elems
  <2>2. CASE i <= Len(p)
    <3>1. i \in 1..Len(p) /\ (p \o q)[i] = p[i]
      BY <1>1, <2>2
    <3> QED
      BY <1>2, <3>1 DEF Elems
  <2>3. CASE ~(i <= Len(p))
    <3>1. i - Len(p) \in 1..Len(q) /\ (p \o q)[i] = q[i - Len(p)]
      BY <1>1, <2>3
    <3> QED
      BY <1>2, <3>1 DEF Elems
  <2> QED
    BY <2>2, <2>3
<1>4. Elems(p) \subseteq Elems(p \o q)
  <2>1. SUFFICES ASSUME NEW i \in 1..Len(p)
                 PROVE  p[i] \in Elems(p \o q)
    BY <1>2 DEF Elems
  <2>2. i \in 1..(Len(p) + Len(q)) /\ (p \o q)[i] = p[i]
    BY <1>1
  <2> QED
    BY <1>2, <2>2 DEF Elems
<1>5. Elems(q) \subseteq Elems(p \o q)
  <2>1. SUFFICES ASSUME NEW i \in 1..Len(q)
                 PROVE  q[i] \in Elems(p \o q)
    BY <1>2 DEF Elems
  <2>2. /\ Len(p) + i \in 1..(Len(p) + Len(q))
        /\ (Len(p) + i) - Len(p) = i
        /\ ~(Len(p) + i <= Len(p))
    BY <1>1
  <2>3. (p \o q)[Len(p) + i] = q[i]
    BY <1>1, <2>2
  <2> QED
    BY <1>2, <2>2, <2>3 DEF Elems
<1> QED
  BY <1>1, <1>3, <1>4, <1>5

\* Dropping the first entries of a sequence leaves the entries behind them.
LEMMA DropType ==
    ASSUME NEW S, NEW q \in Seq(S), NEW i \in DOMAIN q
    PROVE  /\ SubSeq(q, i + 1, Len(q)) \in Seq(S)
           /\ \A j \in DOMAIN q : i < j =>
                  \E k \in DOMAIN SubSeq(q, i + 1, Len(q)) :
                      SubSeq(q, i + 1, Len(q))[k] = q[j]
<1>1. /\ Len(q) \in Nat /\ i \in 1..Len(q) /\ DOMAIN q = 1..Len(q)
      /\ \A j \in 1..Len(q) : q[j] \in S
  OBVIOUS
<1>2. SubSeq(q, i + 1, Len(q)) = [k \in 1..(Len(q) - i) |-> q[i + k]]
  BY <1>1
<1>3. \A k \in 1..(Len(q) - i) : i + k \in 1..Len(q)
  BY <1>1
<1>4. Len(q) - i \in Nat
  BY <1>1
<1>5. SubSeq(q, i + 1, Len(q)) \in Seq(S)
  BY <1>1, <1>2, <1>3, <1>4
<1>6. ASSUME NEW j \in DOMAIN q, i < j
      PROVE  \E k \in DOMAIN SubSeq(q, i + 1, Len(q)) :
                 SubSeq(q, i + 1, Len(q))[k] = q[j]
  <2>1. j - i \in 1..(Len(q) - i) /\ i + (j - i) = j
    BY <1>1, <1>6
  <2> QED
    BY <1>2, <2>1
<1> QED
  BY <1>5, <1>6

\* A listing of a finite map is a sequence with exactly the map's records.
LEMMA ListingElems ==
    ASSUME NEW S, IsFiniteSet(S), NEW q \in Listings(S)
    PROVE  q \in Seq(S) /\ Elems(q) = S
<1>1. Cardinality(S) \in Nat
  BY FS_CardinalityType
<1>2. q \in [1..Cardinality(S) -> S]
  BY DEF Listings
<1>3. q \in Seq(S)
  BY <1>1, <1>2
<1>4. \A r \in S : \E i \in DOMAIN q : q[i] = r
  BY DEF Listings
<1> QED
  BY <1>2, <1>3, <1>4 DEF Elems
-----------------------------------------------------------------------------
(***************************************************************************)
(* Type correctness.  The retained finals must stay a finite set for the   *)
(* requeue to be a sequence, so that fact is carried along.                *)
(***************************************************************************)

TypeInv == TypeOK /\ IsFiniteSet(pending_final)

\* retain_pending_final adds at most one record to the map.
LEMMA RetainType ==
    ASSUME NEW S \in SUBSET Record, IsFiniteSet(S), NEW r \in Record
    PROVE  /\ Retain(S, r) \in SUBSET Record
           /\ IsFiniteSet(Retain(S, r))
<1>1. {q \in S : q.session # r.session} \subseteq S
  OBVIOUS
<1>2. IsFiniteSet({q \in S : q.session # r.session})
  BY <1>1, FS_Subset
<1>3. IsFiniteSet(Put(S, r))
  BY <1>2, FS_AddElement DEF Put
<1> QED
  BY <1>3 DEF Retain, Put

\* Requeueing the retained finals leaves a queue that holds them all.
LEMMA RequeueElems ==
    ASSUME TypeInv, Requeue
    PROVE  /\ ordered' \in Seq(Job)
           /\ pending_final' = {}
           /\ Elems(ordered') = Elems(ordered) \cup pending_final
<1>1. PICK q \in Listings(pending_final) : ordered' = ordered \o q
  BY DEF Requeue
<1>2. q \in Seq(pending_final) /\ Elems(q) = pending_final
  BY ListingElems, <1>1 DEF TypeInv
<1>3. q \in Seq(Job)
  BY <1>2 DEF TypeInv, TypeOK, Job
<1>4. ordered \in Seq(Job)
  BY DEF TypeInv, TypeOK
<1>5. ordered \o q \in Seq(Job) /\ Elems(ordered \o q) = Elems(ordered) \cup Elems(q)
  BY <1>3, <1>4, ConcatElems
<1> QED
  BY <1>1, <1>2, <1>5 DEF Requeue

\* A job of kind "manifest" is a revision of a session.
LEMMA ManifestJob ==
    ASSUME NEW j \in Job, j.kind = "manifest"
    PROVE  j \in Record /\ j.session \in Sessions /\ j.revision \in Nat
BY DEF Job, Record, Removal, Exclusive, Barrier

\* A job of kind "remove" names a session.
LEMMA RemoveJob ==
    ASSUME NEW j \in Job, j.kind = "remove"
    PROVE  j.session \in Sessions
BY DEF Job, Record, Removal, Exclusive, Barrier

\* Every queue, map and counter of the service keeps its type.
LEMMA TypeStep == TypeInv /\ [Next]_vars => TypeInv'
<1> SUFFICES ASSUME TypeInv, [Next]_vars PROVE TypeInv'
  OBVIOUS
<1> USE DEF TypeInv, TypeOK
<1>0. /\ Record \subseteq Job
      /\ Removal \subseteq Job
      /\ Exclusive \subseteq Job
      /\ Barrier \subseteq Job
  BY DEF Job
<1>1. ASSUME NEW s \in Sessions, NEW c \in Classes, NEW z \in Sizes, NextRevision(s, c, z)
      PROVE  TypeInv'
  <2>1. [kind |-> "manifest", session |-> s, revision |-> revision[s] + 1,
         class |-> c, size |-> z] \in Record
    BY <1>1, ConstantsAssumption DEF Record
  <2> QED
    BY <1>1, <2>1 DEF NextRevision, queue, writer, storage, drainer, history
<1>2. ASSUME NEW s \in Sessions, EncodeFails(s) PROVE TypeInv'
  BY <1>2 DEF EncodeFails, queue, writer, storage, drainer, history
<1>3. ASSUME NEW s \in Sessions, ReserveFinal(s) PROVE TypeInv'
  BY <1>3 DEF ReserveFinal, queue, writer, storage, drainer, history
<1>4. ASSUME NEW r \in transit, SubmitMetadata(r) PROVE TypeInv'
  <2>1. r \in Record /\ r.session \in Sessions
    BY DEF Record
  <2>2. Append(metadata_order, r.session) \in Seq(Sessions)
    BY <2>1
  <2>3. Put(metadata, r) \in SUBSET Record
    BY <2>1 DEF Put
  <2>4. metadata_order' \in Seq(Sessions) /\ metadata' \in SUBSET Record
        /\ error' \in [Sessions -> BOOLEAN]
    BY <1>4, <2>1, <2>2, <2>3 DEF SubmitMetadata
  <2> QED
    BY <1>4, <2>4 DEF SubmitMetadata, writer, storage, drainer
<1>5. ASSUME NEW r \in transit, SubmitCritical(r) PROVE TypeInv'
  <2>1. r \in Record /\ r.session \in Sessions
    BY DEF Record
  <2>2. Append(ordered, r) \in Seq(Job)
    BY <1>0, <2>1, AppendElems
  <2> QED
    BY <1>5, <2>1, <2>2 DEF SubmitCritical, writer, storage, drainer, history
<1>6. ASSUME NEW r \in transit, SubmitFinal(r) PROVE TypeInv'
  <2>1. r \in Record /\ r.session \in Sessions /\ r.revision \in Nat
    BY DEF Record
  <2>2. Append(ordered, r) \in Seq(Job)
    BY <1>0, <2>1, AppendElems
  <2>3. Retain(pending_final, r) \in SUBSET Record /\ IsFiniteSet(Retain(pending_final, r))
    BY <2>1, RetainType
  <2>4. accepted_final' \in [Sessions -> Nat]
    BY <1>6, <2>1 DEF SubmitFinal, Newer
  <2> QED
    BY <1>6, <2>1, <2>2, <2>3, <2>4 DEF SubmitFinal, writer, storage, drainer
<1>7. ASSUME NEW s \in Sessions, MarkRemoved(s) PROVE TypeInv'
  BY <1>7 DEF MarkRemoved, queue, writer, storage, drainer, history
<1>8. ASSUME NEW s \in Sessions, EnqueueRemove(s) PROVE TypeInv'
  <2>1. [kind |-> "remove", session |-> s] \in Job
    BY <1>0 DEF Removal
  <2>2. ordered' \in Seq(Job)
    BY <1>8, <2>1, AppendElems DEF EnqueueRemove
  <2>3. pending_final' \subseteq pending_final /\ metadata' \subseteq metadata
    BY <1>8 DEF EnqueueRemove
  <2>4. IsFiniteSet(pending_final')
    BY <2>3, FS_Subset
  <2> QED
    BY <1>8, <2>2, <2>3, <2>4 DEF EnqueueRemove, writer, storage, drainer, history
<1>9. CASE SpawnExclusive
  <2>1. [kind |-> "exclusive"] \in Job
    BY <1>0 DEF Exclusive
  <2>2. ordered' \in Seq(Job)
    BY <1>9, <2>1, AppendElems DEF SpawnExclusive
  <2> QED
    BY <1>9, <2>2 DEF SpawnExclusive, ledger, writer, storage, drainer, history
<1>10. CASE Stop
  BY <1>10 DEF Stop, ledger, writer, storage, drainer, history
<1>11. CASE DrainBegin
  <2>1. ordered' \in Seq(Job) /\ pending_final' = {}
    BY <1>11, RequeueElems DEF DrainBegin
  <2>2. IsFiniteSet(pending_final')
    BY <2>1, FS_EmptySet
  <2> QED
    BY <1>11, <2>1, <2>2 DEF DrainBegin, ledger, writer, storage, history
<1>12. CASE DrainBarrier
  <2>1. [kind |-> "barrier", drain |-> drains] \in Job
    BY <1>0 DEF Barrier
  <2>2. ordered' \in Seq(Job)
    BY <1>12, <2>1, AppendElems DEF DrainBarrier
  <2> QED
    BY <1>12, <2>2 DEF DrainBarrier, ledger, writer, storage, history
<1>13. CASE DrainTimeout
  BY <1>13 DEF DrainTimeout, ledger, queue, writer, storage, history
<1>14. CASE DrainReport
  BY <1>14 DEF DrainReport, ledger, queue, writer, storage, history
<1>15. CASE TakeMetadata
  <2>1. metadata_order' \in Seq(Sessions)
    <3>1. PICK i \in DOMAIN metadata_order :
             metadata_order' = SubSeq(metadata_order, i + 1, Len(metadata_order))
      BY <1>15 DEF TakeMetadata
    <3> QED
      BY <3>1, DropType
  <2>2. current' \in SUBSET Job /\ metadata' \in SUBSET Record
    BY <1>0, <1>15 DEF TakeMetadata, OfSession
  <2> QED
    BY <1>15, <2>1, <2>2 DEF TakeMetadata, ledger, storage, drainer, history
<1>16. CASE TakeOrdered
  <2>1. Head(ordered) \in Job /\ Tail(ordered) \in Seq(Job)
    BY <1>16, TailElems DEF TakeOrdered
  <2>2. metadata_order' \in Seq(Sessions)
    <3>1. <<>> \in Seq(Sessions)
      OBVIOUS
    <3>2. metadata_order' = metadata_order \/ metadata_order' = <<>>
      BY <1>16 DEF TakeOrdered
    <3> QED
      BY <3>1, <3>2
  <2> QED
    BY <1>16, <2>1, <2>2 DEF TakeOrdered, ledger, storage, drainer, history
<1>17. CASE RetryTimeout
  <2>1. ordered' \in Seq(Job) /\ pending_final' = {}
    BY <1>17, RequeueElems DEF RetryTimeout
  <2>2. IsFiniteSet(pending_final')
    BY <2>1, FS_EmptySet
  <2> QED
    BY <1>17, <2>1, <2>2 DEF RetryTimeout, ledger, storage, drainer, history
<1>18. CASE WriterExit \/ RetrySleep \/ RetryWake
  <2>1. CASE WriterExit
    BY <2>1 DEF WriterExit, ledger, storage, drainer, history
  <2>2. CASE RetrySleep
    BY <2>2 DEF RetrySleep, Asleep, ledger, storage, drainer, history
  <2>3. CASE RetryWake
    BY <2>3 DEF RetryWake, ledger, queue, storage, drainer, history
  <2> QED
    BY <1>18, <2>1, <2>2, <2>3
<1>19. CASE SkipRevision
  <2>1. PICK r \in current :
           /\ r.kind = "manifest"
           /\ error' = [error EXCEPT ![r.session] = FALSE]
           /\ Acknowledge(r)
    BY <1>19 DEF SkipRevision
  <2>3. r.session \in Sessions /\ r.revision \in Nat
    BY <2>1, ManifestJob
  <2>4. acked' \in [Sessions -> Nat]
    BY <2>1, <2>3 DEF Acknowledge, Newer
  <2> QED
    BY <1>19, <2>1, <2>3, <2>4 DEF SkipRevision, queue, storage, drainer
<1>20. CASE BeginWrite
  BY <1>20 DEF BeginWrite, ledger, queue, storage, drainer, history
<1>21. CASE WriteSucceeds
  <2>1. PICK r \in current :
           /\ r.kind = "manifest"
           /\ disk' = [disk EXCEPT ![r.session] = r.revision]
           /\ written' = [written EXCEPT ![r.session] = Newer(@, r.revision)]
           /\ error' = [error EXCEPT ![r.session] = FALSE]
           /\ Acknowledge(r)
    BY <1>21 DEF WriteSucceeds
  <2>2. r.session \in Sessions /\ r.revision \in Nat
    BY <2>1, ManifestJob
  <2>3. acked' \in [Sessions -> Nat]
    BY <2>1, <2>2 DEF Acknowledge, Newer
  <2>4. written' \in [Sessions -> Nat]
    BY <2>1, <2>2 DEF Newer
  <2> QED
    BY <1>21, <2>1, <2>2, <2>3, <2>4 DEF WriteSucceeds, queue, drainer
<1>22. CASE WriteFails
  <2>1. PICK r \in current :
           /\ r.kind = "manifest"
           /\ disk' = disk \/ disk' = [disk EXCEPT ![r.session] = r.revision]
           /\ error' = [error EXCEPT ![r.session] = TRUE]
    BY <1>22 DEF WriteFails
  <2>2. r.session \in Sessions /\ r.revision \in Nat
    BY <2>1, ManifestJob
  <2>3. disk' \in [Sessions -> Nat] /\ error' \in [Sessions -> BOOLEAN]
    BY <2>1, <2>2
  <2> QED
    BY <1>22, <2>3 DEF WriteFails, queue, drainer, history
<1>23. CASE ExecuteRemove
  <2>1. PICK j \in current :
           /\ j.kind = "remove"
           /\ \/ /\ disk' = [disk EXCEPT ![j.session] = 0]
                 /\ error' = [error EXCEPT ![j.session] = FALSE]
                 /\ deleted' = deleted \cup {j.session}
              \/ /\ error' = [error EXCEPT ![j.session] = TRUE]
                 /\ UNCHANGED <<disk, deleted>>
    BY <1>23 DEF ExecuteRemove
  <2>2. j.session \in Sessions
    BY <2>1, RemoveJob
  <2>3. disk' \in [Sessions -> Nat] /\ deleted' \in SUBSET Sessions
    <3>1. CASE disk' = [disk EXCEPT ![j.session] = 0] /\ deleted' = deleted \cup {j.session}
      BY <2>2, <3>1
    <3>2. CASE UNCHANGED <<disk, deleted>>
      BY <3>2
    <3> QED
      BY <2>1, <3>1, <3>2
  <2>4. error' \in [Sessions -> BOOLEAN]
    BY <2>1
  <2> QED
    BY <1>23, <2>3, <2>4 DEF ExecuteRemove, queue, drainer
<1>24. CASE ExecuteExclusive
  BY <1>24 DEF ExecuteExclusive, ledger, queue, storage, drainer, history
<1>25. CASE ExecuteBarrier
  BY <1>25 DEF ExecuteBarrier, ledger, queue, storage, history
<1>26. CASE Settle
  <2>1. PICK j \in current :
           pending_final' = IF j.kind = "manifest" /\ failed /\ j.class = "Final"
                            THEN Retain(pending_final, j)
                            ELSE pending_final
    BY <1>26 DEF Settle
  <2>2. pending_final' \in SUBSET Record /\ IsFiniteSet(pending_final')
    <3>1. CASE j.kind = "manifest" /\ failed /\ j.class = "Final"
      BY <2>1, <3>1, ManifestJob, RetainType
    <3>2. CASE ~(j.kind = "manifest" /\ failed /\ j.class = "Final")
      BY <2>1, <3>2
    <3> QED
      BY <3>1, <3>2
  <2> QED
    BY <1>26, <2>2 DEF Settle, ledger, storage, drainer, history
<1>27. CASE StorageRecovers
  BY <1>27 DEF StorageRecovers, ledger, queue, writer, drainer, history
<1>28. CASE UNCHANGED vars
  BY <1>28 DEF vars, ledger, queue, writer, storage, drainer, history
<1> QED
  BY <1>1, <1>2, <1>3, <1>4, <1>5, <1>6, <1>7, <1>8, <1>9, <1>10, <1>11, <1>12,
     <1>13, <1>14, <1>15, <1>16, <1>17, <1>18, <1>19, <1>20, <1>21, <1>22, <1>23,
     <1>24, <1>25, <1>26, <1>27, <1>28
  DEF Next, HostThread, DrainThread, WriterThread

\* The empty service is well typed.
LEMMA InitType == Init => TypeInv
<1>1. IsFiniteSet({})
  BY FS_EmptySet
<1>2. <<>> \in Seq(Job) /\ <<>> \in Seq(Sessions)
  OBVIOUS
<1>3. /\ [s \in Sessions |-> FALSE] \in [Sessions -> BOOLEAN]
      /\ [s \in Sessions |-> 0] \in [Sessions -> Nat]
  OBVIOUS
<1> SUFFICES ASSUME Init PROVE TypeInv
  OBVIOUS
<1>4. /\ ordered \in Seq(Job) /\ metadata_order \in Seq(Sessions)
      /\ IsFiniteSet(pending_final)
  BY <1>1, <1>2 DEF Init
<1>5. /\ revision \in [Sessions -> Nat] /\ written \in [Sessions -> Nat]
      /\ disk \in [Sessions -> Nat] /\ acked \in [Sessions -> Nat]
      /\ accepted_final \in [Sessions -> Nat] /\ drain_floor \in [Sessions -> Nat]
      /\ removed \in [Sessions -> BOOLEAN] /\ reserved \in [Sessions -> BOOLEAN]
      /\ error \in [Sessions -> BOOLEAN]
  BY <1>3 DEF Init
<1> QED
  BY <1>4, <1>5 DEF Init, TypeInv, TypeOK

\* TypeOK, with the finiteness of the retained finals, is inductive.
THEOREM TypeInvHolds == Spec => []TypeInv
BY InitType, TypeStep, PTL DEF Spec

\* The service keeps every queue, map and counter well typed.
THEOREM TypeCorrect == Spec => []TypeOK
<1>1. TypeInv => TypeOK
  BY DEF TypeInv
<1> QED
  BY <1>1, TypeInvHolds, PTL
-----------------------------------------------------------------------------
(***************************************************************************)
(* The inductive invariant.  ReportedIsOnDisk, NoResurrection and          *)
(* FinalNeverLost speak of disk and ledger only; what makes them inductive *)
(* is what the writer knows about the job it holds.                        *)
(***************************************************************************)

\* metadata is a map, retained records are finals, the writer holds one job.
Shape ==
    /\ \A m, n \in metadata : m.session = n.session => m = n
    /\ \A r \in pending_final : r.class = "Final"
    /\ \A j, k \in current : j = k
    /\ current # {} => wpc \in {"taken", "writing", "settle"}

\* A removal is queued, or executed, only for a session marked removed.
RemovalsMarked ==
    /\ \A s \in removing : removed[s]
    /\ \A s \in deleted : removed[s]
    /\ \A j \in Elems(ordered) \cup current : j.kind = "remove" => removed[j.session]

\* The revision being written is no older than the one reported written, and
\* its manifest has not been deleted; a job that ended well left its revision
\* covered or belongs to a removed session.
WriterKnows ==
    /\ wpc = "writing" =>
          \A j \in current : /\ j.kind = "manifest"
                              /\ j.session \notin deleted
                              /\ written[j.session] <= j.revision
    /\ wpc = "settle" /\ ~failed =>
          \A j \in current : j.kind = "manifest" =>
              removed[j.session] \/ j.revision <= written[j.session]

IInv == Shape /\ RemovalsMarked /\ WriterKnows /\ ReportedIsOnDisk /\ NoResurrection

\* A step of a host thread, of the drain or of the scheduler keeps IInv.
LEMMA OutsideStep ==
    ASSUME TypeInv, IInv,
           UNCHANGED <<written, disk, deleted, acked, wpc, current, failed>>,
           Shape', RemovalsMarked',
           \A s \in Sessions : removed[s] => removed'[s]
    PROVE  IInv'
BY DEF IInv, WriterKnows, ReportedIsOnDisk, NoResurrection, TypeInv, TypeOK,
       Job, Record, Removal, Exclusive, Barrier

\* Each step keeps the inductive invariant.
LEMMA IInvStep == TypeInv /\ TypeInv' /\ IInv /\ [Next]_vars => IInv'
<1> SUFFICES ASSUME TypeInv, TypeInv', IInv, [Next]_vars PROVE IInv'
  OBVIOUS
<1>0. /\ Record \subseteq Job
      /\ Removal \subseteq Job
      /\ Exclusive \subseteq Job
      /\ Barrier \subseteq Job
      /\ ordered \in Seq(Job)
      /\ current \subseteq Job
      /\ removed \in [Sessions -> BOOLEAN]
      /\ transit \subseteq Record
      /\ metadata \subseteq Record
  BY DEF Job, TypeInv, TypeOK
<1>1. ASSUME NEW s \in Sessions, NEW c \in Classes, NEW z \in Sizes, NextRevision(s, c, z)
      PROVE  IInv'
  BY <1>1, OutsideStep DEF NextRevision, queue, writer, storage, drainer, history,
     IInv, Shape, RemovalsMarked
<1>2. ASSUME NEW s \in Sessions, EncodeFails(s) PROVE IInv'
  BY <1>2, OutsideStep DEF EncodeFails, queue, writer, storage, drainer, history,
     IInv, Shape, RemovalsMarked
<1>3. ASSUME NEW s \in Sessions, ReserveFinal(s) PROVE IInv'
  BY <1>3, OutsideStep DEF ReserveFinal, queue, writer, storage, drainer, history,
     IInv, Shape, RemovalsMarked
<1>4. ASSUME NEW r \in transit, SubmitMetadata(r) PROVE IInv'
  <2>1. metadata' = metadata \/ metadata' = Put(metadata, r)
    BY <1>4 DEF SubmitMetadata
  <2>2. Shape'
    BY <1>4, <2>1 DEF SubmitMetadata, writer, IInv, Shape, Put
  <2>3. RemovalsMarked'
    BY <1>4 DEF SubmitMetadata, writer, IInv, RemovalsMarked
  <2> QED
    BY <1>4, <2>2, <2>3, OutsideStep DEF SubmitMetadata, writer, storage
<1>5. ASSUME NEW r \in transit, SubmitCritical(r) PROVE IInv'
  <2>1. r \in Job /\ r.kind = "manifest"
    BY <1>0 DEF Record
  <2>2. Elems(ordered') \subseteq Elems(ordered) \cup {r}
    <3>1. ordered' = ordered \/ ordered' = Append(ordered, r)
      BY <1>5 DEF SubmitCritical
    <3>2. Elems(Append(ordered, r)) = Elems(ordered) \cup {r}
      BY <1>0, <2>1, AppendElems
    <3> QED
      BY <3>1, <3>2
  <2>3. Shape'
    BY <1>5 DEF SubmitCritical, writer, IInv, Shape
  <2>4. RemovalsMarked'
    BY <1>5, <2>1, <2>2 DEF SubmitCritical, writer, history, IInv, RemovalsMarked
  <2> QED
    BY <1>5, <2>3, <2>4, OutsideStep DEF SubmitCritical, writer, storage, history
<1>6. ASSUME NEW r \in transit, SubmitFinal(r) PROVE IInv'
  <2>1. r \in Job /\ r.kind = "manifest" /\ r.class = "Final"
    BY <1>0, <1>6 DEF Record, SubmitFinal
  <2>2. Elems(ordered') \subseteq Elems(ordered) \cup {r}
    <3>1. ordered' = ordered \/ ordered' = Append(ordered, r)
      BY <1>6 DEF SubmitFinal
    <3>2. Elems(Append(ordered, r)) = Elems(ordered) \cup {r}
      BY <1>0, <2>1, AppendElems
    <3> QED
      BY <3>1, <3>2
  <2>3. pending_final' \subseteq pending_final \cup {r}
    BY <1>6 DEF SubmitFinal, Retain, Put
  <2>4. Shape'
    BY <1>6, <2>1, <2>3 DEF SubmitFinal, writer, IInv, Shape
  <2>5. RemovalsMarked'
    BY <1>6, <2>1, <2>2 DEF SubmitFinal, writer, IInv, RemovalsMarked
  <2> QED
    BY <1>6, <2>4, <2>5, OutsideStep DEF SubmitFinal, writer, storage
<1>7. ASSUME NEW s \in Sessions, MarkRemoved(s) PROVE IInv'
  <2>1. /\ \A t \in Sessions : removed[t] => removed'[t]
        /\ removed'[s]
    BY <1>0, <1>7 DEF MarkRemoved
  <2>2. \A j \in Elems(ordered) \cup current : j.kind = "remove" => j.session \in Sessions
    BY <1>0, RemoveJob DEF Elems
  <2>3. removing \subseteq Sessions /\ deleted \subseteq Sessions
    BY DEF TypeInv, TypeOK
  <2>4. Shape'
    BY <1>7 DEF MarkRemoved, queue, writer, IInv, Shape
  <2>5. RemovalsMarked'
    BY <1>7, <2>1, <2>2, <2>3 DEF MarkRemoved, queue, writer, history, IInv, RemovalsMarked
  <2> QED
    BY <1>7, <2>1, <2>4, <2>5, OutsideStep DEF MarkRemoved, writer, storage, history
<1>8. ASSUME NEW s \in Sessions, EnqueueRemove(s) PROVE IInv'
  <2> DEFINE job == [kind |-> "remove", session |-> s]
  <2>1. job \in Job /\ job.session = s
    BY <1>0 DEF Removal
  <2>2. Elems(ordered') = Elems(ordered) \cup {job}
    BY <1>0, <1>8, <2>1, AppendElems DEF EnqueueRemove
  <2>3. Shape'
    BY <1>8 DEF EnqueueRemove, writer, IInv, Shape
  <2>4. RemovalsMarked'
    BY <1>8, <2>1, <2>2 DEF EnqueueRemove, writer, history, IInv, RemovalsMarked
  <2> QED
    BY <1>8, <2>3, <2>4, OutsideStep DEF EnqueueRemove, writer, storage, history
<1>9. CASE SpawnExclusive
  <2> DEFINE job == [kind |-> "exclusive"]
  <2>1. job \in Job /\ job.kind = "exclusive"
    BY <1>0 DEF Exclusive
  <2>2. Elems(ordered') = Elems(ordered) \cup {job}
    BY <1>0, <1>9, <2>1, AppendElems DEF SpawnExclusive
  <2>3. Shape'
    BY <1>9 DEF SpawnExclusive, writer, IInv, Shape
  <2>4. RemovalsMarked'
    BY <1>9, <2>1, <2>2 DEF SpawnExclusive, ledger, writer, history, IInv, RemovalsMarked
  <2> QED
    BY <1>9, <2>3, <2>4, OutsideStep DEF SpawnExclusive, ledger, writer, storage, history
<1>10. CASE Stop
  BY <1>10, OutsideStep DEF Stop, ledger, writer, storage, drainer, history,
     IInv, Shape, RemovalsMarked
<1>11. ASSUME Requeue,
              UNCHANGED <<ledger, transit, removing, metadata, current, failed,
                          storage, history>>,
              UNCHANGED wpc \/ (wpc \in Asleep /\ wpc' = "idle")
       PROVE  IInv'
  <2>1. /\ pending_final' = {}
        /\ Elems(ordered') = Elems(ordered) \cup pending_final
    BY <1>11, RequeueElems
  <2>2. \A r \in pending_final : r.kind = "manifest"
    BY DEF TypeInv, TypeOK, Record
  <2>3. Shape'
    BY <1>11, <2>1 DEF IInv, Shape, Asleep
  <2>4. RemovalsMarked'
    BY <1>11, <2>1, <2>2 DEF ledger, history, IInv, RemovalsMarked
  <2>5. WriterKnows'
    BY <1>11 DEF ledger, storage, history, IInv, WriterKnows, Asleep
  <2> QED
    BY <1>11, <2>3, <2>4, <2>5 DEF ledger, storage, history, IInv,
       ReportedIsOnDisk, NoResurrection
<1>12. CASE DrainBarrier
  <2> DEFINE job == [kind |-> "barrier", drain |-> drains]
  <2>1. job \in Job /\ job.kind = "barrier"
    BY <1>0 DEF Barrier, TypeInv, TypeOK
  <2>2. Elems(ordered') = Elems(ordered) \cup {job}
    BY <1>0, <1>12, <2>1, AppendElems DEF DrainBarrier
  <2>3. Shape'
    BY <1>12 DEF DrainBarrier, writer, IInv, Shape
  <2>4. RemovalsMarked'
    BY <1>12, <2>1, <2>2 DEF DrainBarrier, ledger, writer, history, IInv, RemovalsMarked
  <2> QED
    BY <1>12, <2>3, <2>4, OutsideStep DEF DrainBarrier, ledger, writer, storage, history
<1>13. CASE DrainTimeout
  BY <1>13, OutsideStep DEF DrainTimeout, ledger, queue, writer, storage, history,
     IInv, Shape, RemovalsMarked
<1>14. CASE DrainReport
  BY <1>14, OutsideStep DEF DrainReport, ledger, queue, writer, storage, history,
     IInv, Shape, RemovalsMarked
<1>15. CASE TakeMetadata
  <2>1. PICK i \in DOMAIN metadata_order :
           /\ current' = OfSession(metadata, metadata_order[i])
           /\ metadata' = metadata \ OfSession(metadata, metadata_order[i])
    BY <1>15 DEF TakeMetadata
  <2>2. current' \subseteq metadata /\ \A j \in current' : j.kind = "manifest"
    BY <1>0, <2>1 DEF OfSession, Record
  <2>3. Shape'
    BY <1>15, <2>1, <2>2 DEF TakeMetadata, OfSession, IInv, Shape
  <2>4. RemovalsMarked'
    BY <1>15, <2>2 DEF TakeMetadata, ledger, history, IInv, RemovalsMarked
  <2>5. WriterKnows'
    BY <1>15 DEF TakeMetadata, WriterKnows
  <2> QED
    BY <1>15, <2>3, <2>4, <2>5 DEF TakeMetadata, ledger, storage, history,
       IInv, ReportedIsOnDisk, NoResurrection
<1>16. CASE TakeOrdered
  <2>1. Elems(ordered) = Elems(ordered') \cup current'
    BY <1>0, <1>16, TailElems DEF TakeOrdered
  <2>2. \A j, k \in current' : j = k
    BY <1>16 DEF TakeOrdered
  <2>3. Shape'
    BY <1>16, <2>2 DEF TakeOrdered, IInv, Shape
  <2>4. RemovalsMarked'
    BY <1>16, <2>1 DEF TakeOrdered, ledger, history, IInv, RemovalsMarked
  <2>5. WriterKnows'
    BY <1>16 DEF TakeOrdered, WriterKnows
  <2> QED
    BY <1>16, <2>3, <2>4, <2>5 DEF TakeOrdered, ledger, storage, history,
       IInv, ReportedIsOnDisk, NoResurrection
<1>18. CASE WriterExit \/ RetrySleep \/ RetryWake
  BY <1>18 DEF WriterExit, RetrySleep, RetryWake, Asleep, ledger, queue, storage,
     history, IInv, Shape, RemovalsMarked, WriterKnows, ReportedIsOnDisk, NoResurrection
<1>19. CASE SkipRevision
  <2>1. PICK r \in current :
           /\ r.kind = "manifest"
           /\ Skipped(r)
           /\ Acknowledge(r)
    BY <1>19 DEF SkipRevision
  <2>2. r.session \in Sessions /\ r.revision \in Nat
    BY <1>0, <2>1, ManifestJob
  <2>3. \A j \in current : j = r
    BY DEF IInv, Shape
  <2>4. Shape'
    BY <1>19 DEF SkipRevision, queue, IInv, Shape
  <2>5. RemovalsMarked'
    BY <1>19 DEF SkipRevision, queue, IInv, RemovalsMarked
  <2>6. WriterKnows'
    <3>1. written[r.session] \in Nat
      BY <2>2 DEF TypeInv, TypeOK
    <3>2. removed[r.session] \/ r.revision <= written[r.session]
      BY <2>1, <2>2, <3>1 DEF Skipped
    <3> QED
      BY <1>19, <2>3, <3>2 DEF SkipRevision, WriterKnows
  <2>7. ReportedIsOnDisk'
    <3> SUFFICES ASSUME NEW s \in Sessions \ deleted
                 PROVE  written[s] <= disk[s] /\ (removed[s] \/ acked'[s] <= written[s])
      BY <1>19 DEF SkipRevision, storage, ReportedIsOnDisk
    <3>1. written[s] <= disk[s] /\ (removed[s] \/ acked[s] <= written[s])
      BY DEF IInv, ReportedIsOnDisk
    <3>2. CASE acked' = acked \/ removed[s]
      BY <3>1, <3>2
    <3>3. CASE /\ ~removed[s]
               /\ acked' = [acked EXCEPT ![r.session] = Newer(@, r.revision)]
      <4>1. s = r.session => r.revision < written[r.session]
        BY <2>1, <3>3 DEF Skipped
      <4> QED
        <5>1. acked[s] \in Nat /\ written[s] \in Nat
          BY DEF TypeInv, TypeOK
        <5>2. acked'[s] = acked[s] \/ (s = r.session /\ acked'[s] = Newer(acked[s], r.revision))
          BY <3>3 DEF TypeInv, TypeOK
        <5> QED
          BY <2>2, <3>1, <4>1, <5>1, <5>2 DEF Newer
    <3> QED
      BY <2>1, <3>2, <3>3 DEF Acknowledge
  <2> QED
    BY <1>19, <2>4, <2>5, <2>6, <2>7 DEF SkipRevision, storage, IInv, NoResurrection
<1>20. CASE BeginWrite
  <2>1. PICK r \in current : r.kind = "manifest" /\ ~Skipped(r)
    BY <1>20 DEF BeginWrite
  <2>2. r.session \in Sessions /\ r.revision \in Nat
    BY <1>0, <2>1, ManifestJob
  <2>3. \A j \in current : j = r
    BY DEF IInv, Shape
  <2>4. Shape' /\ RemovalsMarked'
    BY <1>20 DEF BeginWrite, ledger, queue, history, IInv, Shape, RemovalsMarked
  <2>5. ~removed[r.session] /\ written[r.session] <= r.revision
    <3>1. written[r.session] \in Nat
      BY <2>2 DEF TypeInv, TypeOK
    <3> QED
      BY <2>1, <2>2, <3>1 DEF Skipped
  <2>6. r.session \notin deleted
    BY <2>5 DEF IInv, RemovalsMarked
  <2>7. WriterKnows'
    BY <1>20, <2>1, <2>3, <2>5, <2>6 DEF BeginWrite, ledger, history, WriterKnows
  <2> QED
    BY <1>20, <2>4, <2>7 DEF BeginWrite, ledger, storage, history,
       IInv, ReportedIsOnDisk, NoResurrection
<1>21. CASE WriteSucceeds
  <2>1. PICK r \in current :
           /\ r.kind = "manifest"
           /\ disk' = [disk EXCEPT ![r.session] = r.revision]
           /\ written' = [written EXCEPT ![r.session] = Newer(@, r.revision)]
           /\ Acknowledge(r)
    BY <1>21 DEF WriteSucceeds
  <2>2. r.session \in Sessions /\ r.revision \in Nat
    BY <1>0, <2>1, ManifestJob
  <2>3. \A j \in current : j = r
    BY DEF IInv, Shape
  <2>4. r.session \notin deleted /\ written[r.session] <= r.revision
    BY <1>21 DEF WriteSucceeds, IInv, WriterKnows
  <2>5. written'[r.session] = r.revision
    BY <2>1, <2>2, <2>4, SMTT(30) DEF Newer, TypeInv, TypeOK
  <2>6. Shape' /\ RemovalsMarked'
    BY <1>21 DEF WriteSucceeds, queue, IInv, Shape, RemovalsMarked
  <2>7. WriterKnows'
    BY <1>21, <2>2, <2>3, <2>5 DEF WriteSucceeds, WriterKnows
  <2>8. ReportedIsOnDisk'
    <3> SUFFICES ASSUME NEW s \in Sessions \ deleted
                 PROVE  written'[s] <= disk'[s] /\ (removed[s] \/ acked'[s] <= written'[s])
      BY <1>21 DEF WriteSucceeds, ReportedIsOnDisk
    <3>1. written[s] <= disk[s] /\ (removed[s] \/ acked[s] <= written[s])
      BY DEF IInv, ReportedIsOnDisk
    <3>2. CASE s # r.session
      BY <2>1, <3>1, <3>2 DEF Acknowledge, TypeInv, TypeOK
    <3>3. CASE s = r.session
      <4>1. disk'[s] = r.revision
        BY <2>1, <2>2, <3>3 DEF TypeInv, TypeOK
      <4>2. acked'[s] = acked[s] \/ acked'[s] = Newer(acked[s], r.revision)
        BY <2>1, <2>2, <3>3 DEF Acknowledge, TypeInv, TypeOK
      <4> QED
        <5>1. acked[s] \in Nat /\ written[s] \in Nat
          BY DEF TypeInv, TypeOK
        <5>2. written[s] <= r.revision /\ written'[s] = r.revision
          BY <2>4, <2>5, <3>3
        <5> QED
          BY <2>2, <3>1, <4>1, <4>2, <5>1, <5>2 DEF Newer
    <3> QED
      BY <3>2, <3>3
  <2>9. NoResurrection'
    BY <1>21, <2>1, <2>4 DEF WriteSucceeds, IInv, NoResurrection, TypeInv, TypeOK
  <2> QED
    BY <2>6, <2>7, <2>8, <2>9 DEF IInv
<1>22. CASE WriteFails
  <2>1. PICK r \in current :
           /\ r.kind = "manifest"
           /\ disk' = disk \/ disk' = [disk EXCEPT ![r.session] = r.revision]
    BY <1>22 DEF WriteFails
  <2>2. r.session \in Sessions /\ r.revision \in Nat
    BY <1>0, <2>1, ManifestJob
  <2>3. r.session \notin deleted /\ written[r.session] <= r.revision
    BY <1>22 DEF WriteFails, IInv, WriterKnows
  <2>4. Shape' /\ RemovalsMarked' /\ WriterKnows'
    BY <1>22 DEF WriteFails, queue, history, IInv, Shape, RemovalsMarked, WriterKnows
  <2>5. ReportedIsOnDisk'
    BY <1>22, <2>1, <2>2, <2>3 DEF WriteFails, history, IInv, ReportedIsOnDisk, TypeInv, TypeOK
  <2>6. NoResurrection'
    BY <1>22, <2>1, <2>3 DEF WriteFails, history, IInv, NoResurrection, TypeInv, TypeOK
  <2> QED
    BY <2>4, <2>5, <2>6 DEF IInv
<1>23. CASE ExecuteRemove
  <2>1. PICK j \in current :
           /\ j.kind = "remove"
           /\ \/ /\ disk' = [disk EXCEPT ![j.session] = 0]
                 /\ deleted' = deleted \cup {j.session}
              \/ UNCHANGED <<disk, deleted>>
    BY <1>23 DEF ExecuteRemove
  <2>2. j.session \in Sessions /\ removed[j.session]
    BY <1>0, <2>1, RemoveJob DEF IInv, RemovalsMarked
  <2>3. \A k \in current : k.kind = "remove"
    BY <2>1 DEF IInv, Shape
  <2>4. Shape'
    BY <1>23 DEF ExecuteRemove, queue, IInv, Shape
  <2>5. RemovalsMarked'
    BY <1>23, <2>1, <2>2 DEF ExecuteRemove, queue, IInv, RemovalsMarked
  <2>6. WriterKnows'
    BY <1>23, <2>3 DEF ExecuteRemove, WriterKnows
  <2>7. ReportedIsOnDisk'
    BY <1>23, <2>1, <2>2 DEF ExecuteRemove, IInv, ReportedIsOnDisk, TypeInv, TypeOK
  <2>8. NoResurrection'
    <3>1. \A s \in deleted : disk[s] = 0 /\ s \in Sessions
      BY DEF IInv, NoResurrection, TypeInv, TypeOK
    <3>2. CASE UNCHANGED <<disk, deleted>>
      BY <3>1, <3>2 DEF NoResurrection
    <3>3. CASE /\ disk' = [disk EXCEPT ![j.session] = 0]
               /\ deleted' = deleted \cup {j.session}
      <4> SUFFICES ASSUME NEW s \in deleted' PROVE disk'[s] = 0
        BY DEF NoResurrection
      <4> QED
        BY <2>2, <3>1, <3>3 DEF TypeInv, TypeOK
    <3> QED
      BY <2>1, <3>2, <3>3
  <2> QED
    BY <2>4, <2>5, <2>6, <2>7, <2>8 DEF IInv
<1>24. ASSUME wpc = "taken", wpc' = "settle",
              \E j \in current : j.kind \in {"exclusive", "barrier"},
              UNCHANGED <<ledger, transit, removing, queue, current, storage, history>>
       PROVE  IInv'
  <2>1. \A k \in current : k.kind # "manifest"
    BY <1>24 DEF IInv, Shape
  <2> QED
    BY <1>24, <2>1 DEF ledger, queue, storage, history, IInv, Shape, RemovalsMarked,
       WriterKnows, ReportedIsOnDisk, NoResurrection
<1>26. CASE Settle
  <2>1. PICK j \in current :
           pending_final' = IF j.kind = "manifest" /\ failed /\ j.class = "Final"
                            THEN Retain(pending_final, j)
                            ELSE pending_final
    BY <1>26 DEF Settle
  <2>2. \A r \in pending_final' : r.class = "Final"
    BY <2>1 DEF Retain, Put, IInv, Shape
  <2>3. Shape'
    BY <1>26, <2>2 DEF Settle, IInv, Shape
  <2>4. RemovalsMarked' /\ WriterKnows'
    BY <1>26 DEF Settle, ledger, history, IInv, RemovalsMarked, WriterKnows
  <2> QED
    BY <1>26, <2>3, <2>4 DEF Settle, ledger, storage, history, IInv,
       ReportedIsOnDisk, NoResurrection
<1>27. CASE StorageRecovers
  BY <1>27, OutsideStep DEF StorageRecovers, ledger, queue, writer, history,
     IInv, Shape, RemovalsMarked
<1>28. CASE UNCHANGED vars
  BY <1>28, OutsideStep DEF vars, ledger, queue, writer, storage, history,
     IInv, Shape, RemovalsMarked
<1>29. CASE HostThread
  BY <1>1, <1>2, <1>3, <1>4, <1>5, <1>6, <1>7, <1>8, <1>9, <1>10, <1>29 DEF HostThread
<1>30. CASE DrainThread
  <2>1. CASE DrainBegin
    BY <1>11, <2>1 DEF DrainBegin, writer
  <2> QED
    BY <1>12, <1>13, <1>14, <1>30, <2>1 DEF DrainThread
<1>31. CASE WriterThread
  <2>1. CASE RetryTimeout
    BY <1>11, <2>1 DEF RetryTimeout
  <2>2. CASE ExecuteExclusive
    BY <1>24, <2>2 DEF ExecuteExclusive
  <2>3. CASE ExecuteBarrier
    BY <1>24, <2>3 DEF ExecuteBarrier
  <2> QED
    BY <1>15, <1>16, <1>18, <1>19, <1>20, <1>21, <1>22, <1>23, <1>26, <1>31,
       <2>1, <2>2, <2>3 DEF WriterThread
<1> QED
  BY <1>27, <1>28, <1>29, <1>30, <1>31 DEF Next

\* Every reachable state satisfies the inductive invariant.
THEOREM IInvCorrect == Spec => [](TypeInv /\ IInv)
<1>1. Init => IInv
  BY DEF Init, IInv, Shape, RemovalsMarked, WriterKnows, ReportedIsOnDisk,
     NoResurrection, Elems
<1>2. TypeInv /\ IInv /\ [Next]_vars => (TypeInv /\ IInv)'
  BY TypeStep, IInvStep
<1>3. Init => TypeInv
  BY InitType
<1> QED
  BY <1>1, <1>2, <1>3, PTL DEF Spec

\* What was reported written or acknowledged is on disk, and a deleted manifest
\* stays deleted, for any number of sessions, threads, revisions and failures.
THEOREM DiskHonest == Spec => [](ReportedIsOnDisk /\ NoResurrection)
<1>1. IInv => ReportedIsOnDisk /\ NoResurrection
  BY DEF IInv
<1> QED
  BY <1>1, IInvCorrect, PTL
-----------------------------------------------------------------------------
(***************************************************************************)
(* No accepted final is lost                                               *)
(***************************************************************************)

\* The jobs the service has, those it has given up included.
Around == Elems(ordered) \cup current \cup pending_final

HeldFinal(s, n) ==
    \E j \in Around : /\ j.kind = "manifest"
                      /\ j.session = s
                      /\ j.class = "Final"
                      /\ j.revision >= n

\* Revision n of session s needs nothing more, or the service has it.
Covered(s, n) == removed[s] \/ n <= written[s] \/ HeldFinal(s, n)

\* FinalNeverLost without telling a held final from one that is given up.
FinalCovered ==
    \A s \in Sessions :
        removed[s] \/ accepted_final[s] <= written[s] \/ HeldFinal(s, accepted_final[s])

\* What the service has are jobs.
LEMMA HeldType == TypeInv => Around \subseteq Job
<1> SUFFICES ASSUME TypeInv PROVE Around \subseteq Job
  OBVIOUS
<1>1. ordered \in Seq(Job) /\ current \subseteq Job /\ pending_final \subseteq Record
  BY DEF TypeInv, TypeOK
<1>2. Elems(ordered) \subseteq Job
  BY <1>1 DEF Elems
<1> QED
  BY <1>1, <1>2 DEF Around, Job

\* To keep every accepted final covered it is enough that every final that was
\* held stays covered, and that removals and written revisions are not undone.
LEMMA CoverStep ==
    ASSUME TypeInv, TypeInv', FinalCovered,
           \A s \in Sessions : (removed[s] => removed'[s]) /\ written[s] <= written'[s],
           \A j \in Around : j.kind = "manifest" /\ j.class = "Final" =>
                            Covered(j.session, j.revision)'
    PROVE  /\ \A s \in Sessions, n \in Nat : n = accepted_final[s] => Covered(s, n)'
           /\ UNCHANGED accepted_final => FinalCovered'
<1> SUFFICES ASSUME NEW s \in Sessions, NEW n \in Nat, n = accepted_final[s]
             PROVE  Covered(s, n)'
  <2>1. \A s \in Sessions : accepted_final[s] \in Nat
    BY DEF TypeInv, TypeOK
  <2> QED
    BY <2>1 DEF FinalCovered, Covered
<1>1. n \in Nat /\ written[s] \in Nat /\ written'[s] \in Nat
  BY DEF TypeInv, TypeOK
<1>2. CASE removed[s]
  BY <1>2 DEF Covered
<1>3. CASE n <= written[s]
  <2>1. n <= written'[s]
    BY <1>1, <1>3
  <2> QED
    BY <2>1 DEF Covered
<1>4. CASE HeldFinal(s, n)
  <2>1. PICK j \in Around : /\ j.kind = "manifest" /\ j.session = s
                          /\ j.class = "Final" /\ j.revision >= n
    BY <1>4 DEF HeldFinal
  <2>2. j.revision \in Nat
    BY <2>1, HeldType, ManifestJob
  <2>3. Covered(s, j.revision)'
    BY <2>1
  <2>4. CASE removed'[s]
    BY <2>4 DEF Covered
  <2>5. CASE j.revision <= written'[s]
    BY <1>1, <2>1, <2>2, <2>5 DEF Covered
  <2>6. CASE HeldFinal(s, j.revision)'
    <3>1. PICK k \in Around' : /\ k.kind = "manifest" /\ k.session = s
                             /\ k.class = "Final" /\ k.revision >= j.revision
      BY <2>6 DEF HeldFinal
    <3>2. k.revision \in Nat
      <4>1. Around' \subseteq Job
        <5>1. ordered' \in Seq(Job) /\ current' \subseteq Job /\ pending_final' \subseteq Record
          BY DEF TypeInv, TypeOK
        <5>2. Elems(ordered') \subseteq Job
          BY <5>1 DEF Elems
        <5> QED
          BY <5>1, <5>2 DEF Around, Job
      <4> QED
        BY <3>1, <4>1, ManifestJob
    <3>3. k.revision >= n
      BY <1>1, <2>1, <2>2, <3>1, <3>2
    <3> QED
      BY <3>1, <3>3 DEF Covered, HeldFinal
  <2> QED
    BY <2>3, <2>4, <2>5, <2>6 DEF Covered
<1> QED
  BY <1>2, <1>3, <1>4 DEF FinalCovered

\* A final the service still holds after the step is covered.
LEMMA StillHeld ==
    ASSUME TypeInv, NEW j \in Around, j \in Around',
           j.kind = "manifest", j.class = "Final"
    PROVE  Covered(j.session, j.revision)'
<1>1. j.revision \in Nat
  BY HeldType, ManifestJob
<1>2. j.revision >= j.revision
  BY <1>1
<1> QED
  BY <1>2 DEF Covered, HeldFinal

\* retain_pending_final keeps a record at least as new as r, and every other
\* record it held is kept or superseded by r.
LEMMA RetainCovers ==
    ASSUME NEW S \in SUBSET Record, NEW r \in Record, r.class = "Final",
           \A q \in S : q.class = "Final"
    PROVE  /\ \E k \in Retain(S, r) : /\ k.session = r.session
                                       /\ k.class = "Final"
                                       /\ k.revision >= r.revision
           /\ \A q \in S : \E k \in Retain(S, r) : /\ k.session = q.session
                                                    /\ k.class = "Final"
                                                    /\ k.revision >= q.revision
<1>1. \A q \in S : q.revision \in Nat
  BY DEF Record
<1>2. r.revision \in Nat
  BY DEF Record
<1>3. CASE \E held \in OfSession(S, r.session) : held.revision >= r.revision
  <2>1. Retain(S, r) = S
    BY <1>3 DEF Retain
  <2> QED
    BY <1>1, <1>3, <2>1 DEF OfSession
<1>4. CASE ~\E held \in OfSession(S, r.session) : held.revision >= r.revision
  <2>1. Retain(S, r) = {q \in S : q.session # r.session} \cup {r}
    BY <1>4 DEF Retain, Put
  <2>2. ASSUME NEW q \in S
        PROVE  \E k \in Retain(S, r) : /\ k.session = q.session
                                       /\ k.class = "Final"
                                       /\ k.revision >= q.revision
    <3>1. CASE q.session # r.session
      BY <1>1, <2>1, <3>1
    <3>2. CASE q.session = r.session
      <4>1. ~(q.revision >= r.revision)
        BY <1>4, <3>2 DEF OfSession
      <4>2. r.revision >= q.revision
        BY <1>1, <1>2, <4>1
      <4> QED
        BY <2>1, <3>2, <4>2
    <3> QED
      BY <3>1, <3>2
  <2> QED
    BY <1>2, <2>1, <2>2
<1> QED
  BY <1>3, <1>4
\* Each step keeps every accepted final written, superseded or held.
LEMMA FinalStep == TypeInv /\ TypeInv' /\ IInv /\ FinalCovered /\ [Next]_vars => FinalCovered'
<1> SUFFICES ASSUME TypeInv, TypeInv', IInv, FinalCovered, [Next]_vars
             PROVE  FinalCovered'
  OBVIOUS
<1>0. /\ Record \subseteq Job
      /\ ordered \in Seq(Job)
      /\ current \subseteq Job
      /\ pending_final \subseteq Record
      /\ transit \subseteq Record
      /\ \A s \in Sessions : written[s] \in Nat /\ written[s] <= written[s]
      /\ \A q \in pending_final : q.class = "Final"
      /\ Around \subseteq Job
  <2>1. /\ Record \subseteq Job
        /\ ordered \in Seq(Job)
        /\ current \subseteq Job
        /\ pending_final \subseteq Record
        /\ transit \subseteq Record
        /\ \A s \in Sessions : written[s] \in Nat
    BY DEF Job, TypeInv, TypeOK
  <2>2. \A q \in pending_final : q.class = "Final"
    BY DEF IInv, Shape
  <2> QED
    BY <2>1, <2>2, HeldType
<1>1. ASSUME UNCHANGED <<written, removed, accepted_final>>, Around \subseteq Around'
      PROVE  FinalCovered'
  BY <1>0, <1>1, CoverStep, StillHeld
<1>2. ASSUME UNCHANGED <<ordered, current, pending_final>>
      PROVE  Around' = Around
  BY <1>2 DEF Around
<1>3. ASSUME NEW s \in Sessions, NEW c \in Classes, NEW z \in Sizes, NextRevision(s, c, z)
      PROVE  FinalCovered'
  BY <1>1, <1>2, <1>3 DEF NextRevision, queue, writer, history
<1>4. ASSUME NEW s \in Sessions, EncodeFails(s) PROVE FinalCovered'
  BY <1>1, <1>2, <1>4 DEF EncodeFails, queue, writer, history
<1>5. ASSUME NEW s \in Sessions, ReserveFinal(s) PROVE FinalCovered'
  BY <1>1, <1>2, <1>5 DEF ReserveFinal, queue, writer, history
<1>6. ASSUME NEW r \in transit, SubmitMetadata(r) PROVE FinalCovered'
  BY <1>1, <1>2, <1>6 DEF SubmitMetadata, writer
<1>7. ASSUME NEW r \in transit, SubmitCritical(r) PROVE FinalCovered'
  <2>1. Elems(ordered) \subseteq Elems(ordered')
    <3>1. ordered' = ordered \/ ordered' = Append(ordered, r)
      BY <1>7 DEF SubmitCritical
    <3>2. r \in Job
      BY <1>0
    <3>3. Elems(Append(ordered, r)) = Elems(ordered) \cup {r}
      BY <1>0, <3>2, AppendElems
    <3> QED
      BY <3>1, <3>3
  <2>2. Around \subseteq Around'
    BY <1>7, <2>1 DEF SubmitCritical, writer, Around
  <2> QED
    BY <1>1, <1>7, <2>2 DEF SubmitCritical, history
<1>8. ASSUME NEW r \in transit, SubmitFinal(r) PROVE FinalCovered'
  <2>1. r \in Record /\ r.class = "Final" /\ r.session \in Sessions /\ r.revision \in Nat
        /\ r.kind = "manifest"
    BY <1>0, <1>8 DEF SubmitFinal, Record
  <2>2. /\ \E k \in Around' : /\ k.kind = "manifest" /\ k.session = r.session
                            /\ k.class = "Final" /\ k.revision >= r.revision
        /\ \A j \in Around : j.kind = "manifest" /\ j.class = "Final" =>
              \E k \in Around' : /\ k.kind = "manifest" /\ k.session = j.session
                               /\ k.class = "Final" /\ k.revision >= j.revision
    <3>0. \A j \in Around : j.kind = "manifest" => j.revision \in Nat /\ j.revision >= j.revision
      <4>1. \A j \in Around : j.kind = "manifest" => j.revision \in Nat
        BY <1>0, ManifestJob
      <4> QED
        BY <4>1
    <3>1. CASE ordered' = Append(ordered, r) /\ pending_final' = pending_final
      <4>1. Elems(ordered') = Elems(ordered) \cup {r}
        BY <1>0, <2>1, <3>1, AppendElems
      <4>2. Around' = Around \cup {r}
        BY <1>8, <3>1, <4>1 DEF SubmitFinal, writer, Around
      <4>3. r.revision >= r.revision
        BY <2>1
      <4> QED
        BY <2>1, <3>0, <4>2, <4>3
    <3>2. CASE ordered' = ordered /\ pending_final' = Retain(pending_final, r)
      <4>1. /\ \E k \in pending_final' : /\ k.session = r.session
                                         /\ k.class = "Final"
                                         /\ k.revision >= r.revision
            /\ \A q \in pending_final : \E k \in pending_final' :
                   /\ k.session = q.session
                   /\ k.class = "Final"
                   /\ k.revision >= q.revision
        BY <1>0, <2>1, <3>2, RetainCovers
      <4>2. \A k \in pending_final' : k.kind = "manifest"
        BY DEF TypeInv, TypeOK, Record
      <4>3. /\ Around = Elems(ordered) \cup current \cup pending_final
            /\ Around' = Elems(ordered) \cup current \cup pending_final'
        BY <1>8, <3>2 DEF SubmitFinal, writer, Around
      <4> QED
        BY <3>0, <4>1, <4>2, <4>3
    <3> QED
      BY <1>8, <3>1, <3>2 DEF SubmitFinal
  <2>3. \A s \in Sessions : (removed[s] => removed'[s]) /\ written[s] <= written'[s]
    BY <1>0, <1>8 DEF SubmitFinal
  <2>4. \A j \in Around : j.kind = "manifest" /\ j.class = "Final" =>
                         Covered(j.session, j.revision)'
    BY <2>2 DEF Covered, HeldFinal
  <2>5. \A s \in Sessions, n \in Nat : n = accepted_final[s] => Covered(s, n)'
    BY <2>3, <2>4, CoverStep
  <2>6. Covered(r.session, r.revision)'
    BY <2>2 DEF Covered, HeldFinal
  <2> SUFFICES ASSUME NEW s \in Sessions
               PROVE  Covered(s, accepted_final[s])'
    BY DEF FinalCovered, Covered
  <2>7. accepted_final[s] \in Nat
    BY DEF TypeInv, TypeOK
  <2>8. accepted_final'[s] = accepted_final[s] \/ (s = r.session /\ accepted_final'[s] = r.revision)
    BY <1>8, <2>1 DEF SubmitFinal, Newer, TypeInv, TypeOK
  <2>9. CASE accepted_final'[s] = accepted_final[s]
    <3>1. PICK n \in Nat : n = accepted_final[s]
      BY <2>7
    <3>2. Covered(s, n)'
      BY <2>5, <3>1
    <3> QED
      BY <2>9, <3>1, <3>2 DEF Covered, HeldFinal
  <2>10. CASE s = r.session /\ accepted_final'[s] = r.revision
    BY <2>6, <2>10 DEF Covered, HeldFinal
  <2> QED
    BY <2>8, <2>9, <2>10
<1>9. ASSUME NEW s \in Sessions, MarkRemoved(s) PROVE FinalCovered'
  <2>1. Around' = Around
    BY <1>2, <1>9 DEF MarkRemoved, queue, writer
  <2>2. \A t \in Sessions : (removed[t] => removed'[t]) /\ written[t] <= written'[t]
    BY <1>0, <1>9 DEF MarkRemoved, TypeInv, TypeOK
  <2> QED
    BY <1>9, <2>1, <2>2, CoverStep, StillHeld DEF MarkRemoved, history
<1>10. ASSUME NEW s \in Sessions, EnqueueRemove(s) PROVE FinalCovered'
  <2>1. removed[s]
    BY <1>10 DEF EnqueueRemove, IInv, RemovalsMarked
  <2>2. [kind |-> "remove", session |-> s] \in Job
    BY DEF Job, Removal
  <2>3. Elems(ordered) \subseteq Elems(ordered')
    BY <1>0, <1>10, <2>2, AppendElems DEF EnqueueRemove
  <2>4. \A j \in Around : j \in Around' \/ j.session = s
    BY <1>10, <2>3 DEF EnqueueRemove, writer, Around, OfSession
  <2>5. \A j \in Around : j.kind = "manifest" /\ j.class = "Final" =>
                         Covered(j.session, j.revision)'
    <3> SUFFICES ASSUME NEW j \in Around, j.kind = "manifest", j.class = "Final"
                 PROVE  Covered(j.session, j.revision)'
      OBVIOUS
    <3>1. CASE j \in Around'
      BY <3>1, StillHeld
    <3>2. CASE j.session = s
      BY <1>10, <2>1, <3>2 DEF EnqueueRemove, Covered
    <3> QED
      BY <2>4, <3>1, <3>2
  <2> QED
    BY <1>0, <1>10, <2>5, CoverStep DEF EnqueueRemove, history
<1>11. CASE SpawnExclusive
  <2>1. [kind |-> "exclusive"] \in Job
    BY DEF Job, Exclusive
  <2>2. Elems(ordered) \subseteq Elems(ordered')
    BY <1>0, <1>11, <2>1, AppendElems DEF SpawnExclusive
  <2>3. Around \subseteq Around'
    BY <1>11, <2>2 DEF SpawnExclusive, writer, Around
  <2> QED
    BY <1>1, <1>11, <2>3 DEF SpawnExclusive, ledger, history
<1>12. CASE Stop
  BY <1>1, <1>2, <1>12 DEF Stop, ledger, writer, history
<1>13. ASSUME Requeue, UNCHANGED <<ledger, current, history>>
       PROVE  FinalCovered'
  <2>1. Around' = Around
    BY <1>13, RequeueElems DEF Around
  <2> QED
    BY <1>1, <1>13, <2>1 DEF ledger, history
<1>14. CASE DrainBarrier
  <2>1. [kind |-> "barrier", drain |-> drains] \in Job
    BY DEF Job, Barrier, TypeInv, TypeOK
  <2>2. Elems(ordered) \subseteq Elems(ordered')
    BY <1>0, <1>14, <2>1, AppendElems DEF DrainBarrier
  <2>3. Around \subseteq Around'
    BY <1>14, <2>2 DEF DrainBarrier, writer, Around
  <2> QED
    BY <1>1, <1>14, <2>3 DEF DrainBarrier, ledger, history
<1>15. CASE DrainTimeout
  BY <1>1, <1>2, <1>15 DEF DrainTimeout, ledger, queue, writer, history
<1>16. CASE DrainReport
  BY <1>1, <1>2, <1>16 DEF DrainReport, ledger, queue, writer, history
<1>17. CASE TakeMetadata
  <2>1. current = {}
    BY <1>17 DEF TakeMetadata, IInv, Shape
  <2>2. Around \subseteq Around'
    BY <1>17, <2>1 DEF TakeMetadata, Around
  <2> QED
    BY <1>1, <1>17, <2>2 DEF TakeMetadata, ledger, history
<1>18. CASE TakeOrdered
  <2>1. current = {}
    BY <1>18 DEF TakeOrdered, IInv, Shape
  <2>2. Elems(ordered) = Elems(ordered') \cup current'
    BY <1>0, <1>18, TailElems DEF TakeOrdered
  <2>3. Around \subseteq Around'
    BY <1>18, <2>1, <2>2 DEF TakeOrdered, Around
  <2> QED
    BY <1>1, <1>18, <2>3 DEF TakeOrdered, ledger, history
<1>19. CASE WriterExit \/ RetrySleep \/ RetryWake
  BY <1>1, <1>2, <1>19 DEF WriterExit, RetrySleep, RetryWake, ledger, queue, history
<1>20. CASE SkipRevision
  BY <1>1, <1>2, <1>20 DEF SkipRevision, queue
<1>21. CASE BeginWrite
  BY <1>1, <1>2, <1>21 DEF BeginWrite, ledger, queue, history
<1>22. CASE WriteSucceeds
  <2>1. PICK r \in current :
           /\ r.kind = "manifest"
           /\ written' = [written EXCEPT ![r.session] = Newer(@, r.revision)]
    BY <1>22 DEF WriteSucceeds
  <2>2. r.session \in Sessions /\ r.revision \in Nat
    BY <1>0, <2>1, ManifestJob
  <2>3. \A s \in Sessions : written[s] <= written'[s]
    <3> SUFFICES ASSUME NEW s \in Sessions PROVE written[s] <= written'[s]
      OBVIOUS
    <3>1. written \in [Sessions -> Nat]
      BY DEF TypeInv, TypeOK
    <3>2. CASE s = r.session
      <4>1. written'[s] = Newer(written[s], r.revision)
        BY <2>1, <2>2, <3>1, <3>2
      <4> QED
        BY <2>2, <3>1, <4>1 DEF Newer
    <3>3. CASE s # r.session
      BY <2>1, <3>1, <3>3
    <3> QED
      BY <3>2, <3>3
  <2>4. Around' = Around
    BY <1>2, <1>22 DEF WriteSucceeds, queue
  <2>5. /\ \A s \in Sessions : (removed[s] => removed'[s]) /\ written[s] <= written'[s]
        /\ UNCHANGED accepted_final
    BY <1>22, <2>3 DEF WriteSucceeds
  <2>6. \A j \in Around : j.kind = "manifest" /\ j.class = "Final" =>
                         Covered(j.session, j.revision)'
    BY <2>4, StillHeld
  <2> QED
    BY <2>5, <2>6, CoverStep
<1>23. CASE WriteFails
  BY <1>1, <1>2, <1>23 DEF WriteFails, queue, history
<1>24. CASE ExecuteRemove
  BY <1>1, <1>2, <1>24 DEF ExecuteRemove, queue
<1>25. CASE ExecuteExclusive
  BY <1>1, <1>2, <1>25 DEF ExecuteExclusive, ledger, queue, history
<1>26. CASE ExecuteBarrier
  BY <1>1, <1>2, <1>26 DEF ExecuteBarrier, ledger, queue, history
<1>27. CASE Settle
  <2>1. PICK c \in current :
           pending_final' = IF c.kind = "manifest" /\ failed /\ c.class = "Final"
                            THEN Retain(pending_final, c)
                            ELSE pending_final
    BY <1>27 DEF Settle
  <2>2. \A j \in current : j = c
    BY DEF IInv, Shape
  <2>3. \A k \in pending_final' : k.kind = "manifest"
    BY DEF TypeInv, TypeOK, Record
  <2>4. ASSUME NEW j \in Around, j.kind = "manifest", j.class = "Final"
        PROVE  Covered(j.session, j.revision)'
    <3>1. CASE j \in Elems(ordered)
      <4>1. j \in Around'
        BY <1>27, <3>1 DEF Settle, Around
      <4> QED
        BY <2>4, <4>1, StillHeld
    <3>2. CASE ~(c.kind = "manifest" /\ failed /\ c.class = "Final")
      <4>1. CASE j \in pending_final
        <5>1. j \in Around'
          BY <2>1, <3>2, <4>1 DEF Around
        <5> QED
          BY <2>4, <5>1, StillHeld
      <4>2. CASE j \in current
        <5>1. j = c /\ ~failed
          BY <2>2, <2>4, <3>2, <4>2 DEF TypeInv, TypeOK
        <5>2. removed[j.session] \/ j.revision <= written[j.session]
          BY <1>27, <2>4, <4>2, <5>1 DEF Settle, IInv, WriterKnows
        <5> QED
          BY <1>27, <5>2 DEF Settle, ledger, Covered
      <4> QED
        BY <3>1, <4>1, <4>2 DEF Around
    <3>3. CASE c.kind = "manifest" /\ failed /\ c.class = "Final"
      <4>1. c \in Record
        BY <1>0, <3>3, ManifestJob
      <4>2. pending_final' = Retain(pending_final, c)
        BY <2>1, <3>3
      <4>3. CASE j \in pending_final \/ j = c
        <5>1. PICK k \in pending_final' : /\ k.session = j.session
                                          /\ k.class = "Final"
                                          /\ k.revision >= j.revision
          BY <1>0, <3>3, <4>1, <4>2, <4>3, RetainCovers
        <5>2. k \in Around' /\ k.kind = "manifest"
          BY <2>3 DEF Around
        <5> QED
          BY <5>1, <5>2 DEF Covered, HeldFinal
      <4> QED
        BY <2>2, <3>1, <4>3 DEF Around
    <3> QED
      BY <3>2, <3>3
  <2> QED
    BY <1>0, <1>27, <2>4, CoverStep DEF Settle, ledger, history
<1>28. CASE StorageRecovers
  BY <1>1, <1>2, <1>28 DEF StorageRecovers, ledger, queue, writer, history
<1>29. CASE UNCHANGED vars
  BY <1>1, <1>2, <1>29 DEF vars, ledger, queue, writer, history
<1>30. CASE HostThread
  BY <1>3, <1>4, <1>5, <1>6, <1>7, <1>8, <1>9, <1>10, <1>11, <1>12, <1>30 DEF HostThread
<1>31. CASE DrainThread
  <2>1. CASE DrainBegin
    BY <1>13, <2>1 DEF DrainBegin, writer
  <2> QED
    BY <1>14, <1>15, <1>16, <1>31, <2>1 DEF DrainThread
<1>32. CASE WriterThread
  <2>1. CASE RetryTimeout
    BY <1>13, <2>1 DEF RetryTimeout
  <2> QED
    BY <1>17, <1>18, <1>19, <1>20, <1>21, <1>22, <1>23, <1>24, <1>25, <1>26, <1>27,
       <1>32, <2>1 DEF WriterThread
<1> QED
  BY <1>28, <1>29, <1>30, <1>31, <1>32 DEF Next

\* No accepted final disappears from the service.
LEMMA FinalsCovered == Spec => []FinalCovered
<1>1. Init => FinalCovered
  BY DEF Init, FinalCovered
<1>2. TypeInv /\ IInv /\ TypeInv' /\ FinalCovered /\ [Next]_vars => FinalCovered'
  BY FinalStep
<1> QED
  BY <1>1, <1>2, IInvCorrect, PTL DEF Spec

\* A Final revision the service accepted is written, superseded or still held,
\* until its session is removed or the writer of a dropped service returns,
\* whatever fails and in whatever order.
THEOREM FinalsKept == Spec => []FinalNeverLost
<1>1. FinalCovered => FinalNeverLost
  BY DEF FinalCovered, FinalNeverLost, HeldFinal, GivenUp, FinalIn, Final, Around, Held
<1> QED
  BY <1>1, FinalsCovered, PTL
-----------------------------------------------------------------------------
(***************************************************************************)
(* Refinement                                                              *)
(***************************************************************************)

\* What the abstract store shows.
Shown == <<disk, written, acked, removed, deleted>>

\* A caller hears of a revision that was reported, or of any once its session is
\* marked removed.
LEMMA AckTells ==
    ASSUME TypeInv, NEW r \in Record, Acknowledge(r),
           removed[r.session] \/ Newer(acked[r.session], r.revision) <= written'[r.session]
    PROVE  Store!MayTell(r.session)
<1>1. r.session \in Sessions /\ r.revision \in Nat /\ acked \in [Sessions -> Nat]
  BY DEF Record, TypeInv, TypeOK
<1>2. CASE acked' = acked
  BY <1>2 DEF Store!MayTell
<1>3. CASE acked' = [acked EXCEPT ![r.session] = Newer(@, r.revision)]
  <2>1. /\ acked'[r.session] = Newer(acked[r.session], r.revision)
        /\ acked' = [acked EXCEPT ![r.session] = acked'[r.session]]
    BY <1>1, <1>3
  <2>2. acked'[r.session] \in Nat /\ acked[r.session] <= acked'[r.session]
    BY <1>1, <2>1 DEF Newer
  <2> QED
    BY <1>1, <2>1, <2>2 DEF Store!MayTell
<1> QED
  BY <1>2, <1>3 DEF Acknowledge

\* A step of the service is a step of the abstract store, or changes nothing
\* the store shows.
LEMMA StoreStep == TypeInv /\ IInv /\ [Next]_vars => [Store!Next]_(Store!vars)
<1> SUFFICES ASSUME TypeInv, IInv, [Next]_vars PROVE [Store!Next]_(Store!vars)
  OBVIOUS
<1>0. /\ written \in [Sessions -> Nat]
      /\ acked \in [Sessions -> Nat]
      /\ disk \in [Sessions -> Nat]
      /\ removed \in [Sessions -> BOOLEAN]
      /\ current \subseteq Job
  BY DEF TypeInv, TypeOK
<1>1. CASE SkipRevision
  <2>1. PICK r \in current : r.kind = "manifest" /\ Skipped(r) /\ Acknowledge(r)
    BY <1>1 DEF SkipRevision
  <2>2. r \in Record /\ r.session \in Sessions /\ r.revision \in Nat
    BY <1>0, <2>1, ManifestJob
  <2>3. UNCHANGED <<disk, written, removed, deleted>>
    BY <1>1 DEF SkipRevision, storage
  <2>4. removed[r.session] \/ Newer(acked[r.session], r.revision) <= written'[r.session]
    <3>1. CASE removed[r.session]
      BY <3>1
    <3>2. CASE ~removed[r.session]
      <4>1. r.revision < written[r.session]
        BY <2>1, <3>2 DEF Skipped
      <4>2. acked[r.session] <= written[r.session]
        <5>1. r.session \notin deleted
          BY <3>2 DEF IInv, RemovalsMarked
        <5> QED
          BY <2>2, <3>2, <5>1 DEF IInv, ReportedIsOnDisk
      <4>3. r.revision <= written[r.session]
        BY <1>0, <2>2, <4>1
      <4> QED
        BY <2>3, <4>2, <4>3 DEF Newer
    <3> QED
      BY <3>1, <3>2
  <2>5. Store!MayTell(r.session)
    BY <2>1, <2>2, <2>4, AckTells
  <2>6. Store!Promise(r.session)
    BY <2>3, <2>5 DEF Store!Promise
  <2> QED
    BY <2>2, <2>6 DEF Store!Next
<1>2. CASE WriteSucceeds
  <2>1. PICK r \in current :
           /\ r.kind = "manifest"
           /\ disk' = [disk EXCEPT ![r.session] = r.revision]
           /\ written' = [written EXCEPT ![r.session] = Newer(@, r.revision)]
           /\ Acknowledge(r)
    BY <1>2 DEF WriteSucceeds
  <2>2. r \in Record /\ r.session \in Sessions /\ r.revision \in Nat
    BY <1>0, <2>1, ManifestJob
  <2>3. r.session \notin deleted /\ written[r.session] <= r.revision
    BY <1>2 DEF WriteSucceeds, IInv, WriterKnows
  <2>4. removed[r.session] \/ acked[r.session] <= written[r.session]
    BY <2>2, <2>3 DEF IInv, ReportedIsOnDisk
  <2>5. Newer(written[r.session], r.revision) = r.revision
    BY <1>0, <2>2, <2>3 DEF Newer
  <2>6. /\ disk' = [disk EXCEPT ![r.session] = disk'[r.session]]
        /\ disk'[r.session] = r.revision
        /\ written' = [written EXCEPT ![r.session] = disk'[r.session]]
        /\ written'[r.session] = r.revision
    BY <1>0, <2>1, <2>2, <2>5
  <2>7. Store!MayTell(r.session)
    <3>1. removed[r.session] \/ Newer(acked[r.session], r.revision) <= written'[r.session]
      BY <1>0, <2>2, <2>3, <2>4, <2>6 DEF Newer
    <3> QED
      BY <2>1, <2>2, <3>1, AckTells
  <2>8. UNCHANGED <<removed, deleted>>
    BY <1>2 DEF WriteSucceeds
  <2>9. Store!Land(r.session)
    BY <2>2, <2>3, <2>6, <2>7, <2>8 DEF Store!Land
  <2> QED
    BY <2>2, <2>9 DEF Store!Next
<1>3. CASE WriteFails
  <2>1. PICK r \in current :
           /\ r.kind = "manifest"
           /\ \/ UNCHANGED disk
              \/ disk' = [disk EXCEPT ![r.session] = r.revision]
    BY <1>3 DEF WriteFails
  <2>2. r.session \in Sessions /\ r.revision \in Nat
    BY <1>0, <2>1, ManifestJob
  <2>3. r.session \notin deleted /\ written[r.session] <= r.revision
    BY <1>3 DEF WriteFails, IInv, WriterKnows
  <2>4. UNCHANGED <<written, acked, removed, deleted>>
    BY <1>3 DEF WriteFails, history
  <2>5. CASE UNCHANGED disk
    BY <2>4, <2>5 DEF Store!vars
  <2>6. CASE disk' = [disk EXCEPT ![r.session] = r.revision]
    <3>1. /\ disk' = [disk EXCEPT ![r.session] = disk'[r.session]]
          /\ disk'[r.session] = r.revision
      BY <1>0, <2>2, <2>6
    <3>2. Store!Land(r.session)
      BY <2>2, <2>3, <2>4, <3>1 DEF Store!Land
    <3> QED
      BY <2>2, <3>2 DEF Store!Next
  <2> QED
    BY <2>1, <2>5, <2>6
<1>4. CASE ExecuteRemove
  <2>1. PICK j \in current :
           /\ j.kind = "remove"
           /\ \/ /\ disk' = [disk EXCEPT ![j.session] = 0]
                 /\ deleted' = deleted \cup {j.session}
              \/ UNCHANGED <<disk, deleted>>
    BY <1>4 DEF ExecuteRemove
  <2>2. j.session \in Sessions /\ removed[j.session]
    BY <1>0, <2>1, RemoveJob DEF IInv, RemovalsMarked
  <2>3. UNCHANGED <<written, acked, removed>>
    BY <1>4 DEF ExecuteRemove
  <2> QED
    BY <2>1, <2>2, <2>3 DEF Store!Next, Store!Delete, Store!vars
<1>5. ASSUME NEW s \in Sessions, MarkRemoved(s) PROVE Store!Next
  <2>1. /\ removed' = [removed EXCEPT ![s] = TRUE]
        /\ UNCHANGED <<disk, written, acked, deleted>>
    BY <1>5 DEF MarkRemoved, storage, history
  <2>2. {t \in Sessions : removed'[t]} = {t \in Sessions : removed[t]} \cup {s}
    BY <1>0, <2>1
  <2>3. Store!Close(s)
    BY <2>1, <2>2 DEF Store!Close
  <2> QED
    BY <2>3 DEF Store!Next
<1>6. CASE UNCHANGED Shown
  BY <1>6 DEF Shown, Store!vars
<1>7. HostThread => UNCHANGED Shown \/ \E s \in Sessions : MarkRemoved(s)
  BY DEF HostThread, NextRevision, EncodeFails, ReserveFinal, SubmitMetadata,
     SubmitCritical, SubmitFinal, EnqueueRemove, SpawnExclusive, Stop,
     ledger, storage, history, Shown
<1>8. DrainThread => UNCHANGED Shown
  BY DEF DrainThread, DrainBegin, DrainBarrier, DrainTimeout, DrainReport, ledger, storage,
     history, Shown
<1>9. WriterThread => \/ SkipRevision \/ WriteSucceeds \/ WriteFails \/ ExecuteRemove
                      \/ UNCHANGED Shown
  BY DEF WriterThread, TakeMetadata, TakeOrdered, WriterExit, RetrySleep, RetryWake,
     RetryTimeout, BeginWrite, ExecuteExclusive, ExecuteBarrier, Settle,
     ledger, storage, history, Shown
<1>10. StorageRecovers \/ UNCHANGED vars => UNCHANGED Shown
  BY DEF StorageRecovers, vars, ledger, storage, history, Shown
<1> QED
  BY <1>1, <1>2, <1>3, <1>4, <1>5, <1>6, <1>7, <1>8, <1>9, <1>10 DEF Next

\* The persistence service implements the abstract record store: no file ever
\* falls behind what was reported of it, whatever order its revisions come in.
THEOREM RefinesRecordStore == Spec => ImplementsRecordStore
<1>1. Init => Store!Init
  BY DEF Init, Store!Init
<1> QED
  BY <1>1, StoreStep, IInvCorrect, PTL DEF Spec, ImplementsRecordStore, Store!Spec
-----------------------------------------------------------------------------
(***************************************************************************)
(* A deleted manifest stays deleted, and queued metadata is never stranded *)
(***************************************************************************)

\* A manifest the writer deleted is never written again, whatever was stamped,
\* queued, retained or under way when its session was marked removed.
THEOREM DeletedStaysDeleted == Spec => []NoResurrection
<1>1. IInv => NoResurrection
  BY DEF IInv
<1> QED
  BY <1>1, IInvCorrect, PTL

\* When take_next finds nothing to serve there is no metadata at all.
LEMMA NothingServed == TypeInv /\ MetadataReachable /\ NoMetadata => metadata = {}
BY DEF MetadataReachable, NoMetadata, Serves, OfSession

\* Each step keeps an entry of the order for every queued metadata record.
LEMMA ReachableStep ==
    TypeInv /\ MetadataReachable /\ [Next]_vars => MetadataReachable'
<1> SUFFICES ASSUME TypeInv, MetadataReachable, [Next]_vars PROVE MetadataReachable'
  OBVIOUS
<1>0. /\ metadata \subseteq Record
      /\ transit \subseteq Record
      /\ metadata_order \in Seq(Sessions)
      /\ \A m \in Record : m.session \in Sessions
  BY DEF TypeInv, TypeOK, Record
<1>1. CASE UNCHANGED <<metadata, metadata_order>>
  BY <1>1 DEF MetadataReachable
<1>2. CASE metadata' \subseteq metadata /\ UNCHANGED metadata_order
  BY <1>2 DEF MetadataReachable
<1>3. ASSUME NEW r \in transit, SubmitMetadata(r) PROVE MetadataReachable'
  <2>1. CASE /\ OfSession(metadata, r.session) # {}
             /\ metadata' = Put(metadata, r)
             /\ UNCHANGED metadata_order
    BY <2>1 DEF MetadataReachable, Put, OfSession
  <2>2. CASE /\ metadata' = Put(metadata, r)
             /\ metadata_order' = Append(metadata_order, r.session)
    <3>1. /\ metadata_order' \in Seq(Sessions)
          /\ Elems(metadata_order') = Elems(metadata_order) \cup {r.session}
      BY <1>0, <2>2, AppendElems
    <3>2. \A m \in metadata' : m.session \in Elems(metadata_order')
      BY <2>2, <3>1 DEF MetadataReachable, Put, Elems
    <3> QED
      BY <3>2 DEF MetadataReachable, Elems
  <2> QED
    BY <1>1, <1>3, <2>1, <2>2 DEF SubmitMetadata
<1>4. CASE TakeMetadata
  <2>1. PICK i \in DOMAIN metadata_order :
           /\ \A j \in 1..(i - 1) : ~Serves(j)
           /\ metadata_order' = SubSeq(metadata_order, i + 1, Len(metadata_order))
           /\ metadata' = metadata \ OfSession(metadata, metadata_order[i])
    BY <1>4 DEF TakeMetadata
  <2>2. ASSUME NEW m \in metadata'
        PROVE  \E k \in DOMAIN metadata_order' : metadata_order'[k] = m.session
    <3>1. m \in metadata /\ m.session # metadata_order[i]
      BY <2>1 DEF OfSession
    <3>2. PICK j \in DOMAIN metadata_order : metadata_order[j] = m.session
      BY <3>1 DEF MetadataReachable
    <3>3. Serves(j)
      BY <3>1, <3>2 DEF Serves, OfSession
    <3>4. /\ Len(metadata_order) \in Nat
          /\ DOMAIN metadata_order = 1..Len(metadata_order)
      BY <1>0
    <3>5. i \in Int /\ j \in Int /\ j >= 1 /\ i # j
      BY <3>1, <3>2, <3>4
    <3>6. i < j
      BY <2>1, <3>3, <3>5
    <3>7. \A l \in DOMAIN metadata_order : i < l =>
             \E k \in DOMAIN SubSeq(metadata_order, i + 1, Len(metadata_order)) :
                 SubSeq(metadata_order, i + 1, Len(metadata_order))[k] = metadata_order[l]
      BY <1>0, DropType
    <3>8. \A l \in DOMAIN metadata_order : i < l =>
             \E k \in DOMAIN metadata_order' : metadata_order'[k] = metadata_order[l]
      BY ONLY <2>1, <3>7
    <3> QED
      BY ONLY <3>2, <3>6, <3>8
  <2> QED
    BY <2>2 DEF MetadataReachable
<1>5. CASE metadata' = metadata /\ NoMetadata
  BY <1>5, NothingServed DEF MetadataReachable
<1>6. CASE HostThread
  BY <1>1, <1>2, <1>3, <1>6
  DEF HostThread, NextRevision, EncodeFails, ReserveFinal, SubmitCritical, SubmitFinal,
      MarkRemoved, EnqueueRemove, SpawnExclusive, Stop, queue
<1>7. CASE DrainThread
  BY <1>1, <1>7 DEF DrainThread, DrainBegin, DrainBarrier, DrainTimeout, DrainReport, queue
<1>8. CASE WriterThread
  <2>1. CASE TakeOrdered
    BY <1>1, <1>5, <2>1 DEF TakeOrdered
  <2>2. CASE RetrySleep \/ WriterExit
    BY <1>5, <2>2 DEF RetrySleep, WriterExit, QueueEmpty
  <2>3. CASE RetryWake \/ RetryTimeout \/ Settle
    BY <1>1, <2>3 DEF RetryWake, RetryTimeout, Settle, queue
  <2>4. CASE SkipRevision \/ BeginWrite \/ WriteSucceeds \/ WriteFails
    BY <1>1, <2>4 DEF SkipRevision, BeginWrite, WriteSucceeds, WriteFails, queue
  <2>5. CASE ExecuteRemove \/ ExecuteExclusive \/ ExecuteBarrier
    BY <1>1, <2>5 DEF ExecuteRemove, ExecuteExclusive, ExecuteBarrier, queue
  <2> QED
    BY <1>4, <1>8, <2>1, <2>2, <2>3, <2>4, <2>5 DEF WriterThread
<1>9. CASE StorageRecovers \/ UNCHANGED vars
  BY <1>1, <1>9 DEF StorageRecovers, vars, queue
<1> QED
  BY <1>6, <1>7, <1>8, <1>9 DEF Next

\* No metadata revision is stranded in the queue: whatever removals leave behind
\* in metadata_order, take_next finds an entry for every record that waits.
THEOREM MetadataIsReachable == Spec => []MetadataReachable
<1>1. Init => MetadataReachable
  BY DEF Init, MetadataReachable
<1>2. TypeInv /\ MetadataReachable /\ [Next]_vars => MetadataReachable'
  BY ReachableStep
<1> QED
  BY <1>1, <1>2, TypeInvHolds, PTL DEF Spec
-----------------------------------------------------------------------------
(***************************************************************************)
(* What a drain that returns Ok has saved.  Every final the drain answers  *)
(* for is ahead of its barrier, in the writer's hand, or retained where    *)
(* the drain's last look finds it.  A retained record is safe there only   *)
(* while the writer's retry cannot requeue it behind the barrier: a writer *)
(* that fell asleep before the drain wakes with nothing the drain answers  *)
(* for retained, and one that fell asleep inside it outlasts it when the   *)
(* draining thread is not held up for a whole RETRY_INTERVAL.              *)
(***************************************************************************)

\* Revision n of session s is written, needless, or among the jobs.
KeptBy(gone, done, jobs, s, n) == gone[s] \/ n <= done[s] \/ FinalIn(jobs, s, n)

Kept(gone, done, floor, jobs) == \A s \in Sessions : KeptBy(gone, done, jobs, s, floor[s])

\* Every final of `from' is written, needless or superseded in `to'.
Passed(gone, done, from, to) ==
    \A j \in from : Final(j) => KeptBy(gone, done, to, j.session, j.revision)

\* What the drain answers for is written, needless, or among the jobs.
FloorKept(jobs) == Kept(removed, written, drain_floor, jobs)

\* The jobs ahead of a place in the ordered queue.
Before(i) == {ordered[k] : k \in 1..(i - 1)}

\* The retained records that stay where they are until the drain reports.
Spare == IF wpc = "sleeping" THEN {} ELSE pending_final

OwnBarrier == [kind |-> "barrier", drain |-> drains]

\* The barriers around are those of this drain and of earlier ones.
BarrierNumbers ==
    \A j \in Elems(ordered) \cup current : j.kind = "barrier" =>
        /\ j.drain <= drains
        /\ drain = "requeued" => j.drain < drains

\* Where what the drain answers for is, at each stage of the drain.
DrainInv ==
    /\ BarrierNumbers
    /\ drain = "requeued" => FloorKept(Elems(ordered) \cup current \cup Spare)
    /\ drain = "waiting" =>
          /\ \A i \in DOMAIN ordered :
                ordered[i] = OwnBarrier => FloorKept(Before(i) \cup current \cup Spare)
          /\ OwnBarrier \in current => FloorKept(Spare)
    /\ drain = "signalled" => wpc # "sleeping" /\ FloorKept(pending_final)
    /\ drain = "ok" => FloorKept({})

\* A job that is a final is a revision of a session.
LEMMA FinalJob ==
    ASSUME NEW j \in Job, Final(j)
    PROVE  j \in Record /\ j.session \in Sessions /\ j.revision \in Nat
BY ManifestJob DEF Final

\* What is kept by some jobs is kept by those they are passed to, when the
\* ledger only moves forward.
LEMMA KeptPassed ==
    ASSUME NEW gone, NEW gone2, NEW done \in [Sessions -> Nat],
           NEW done2 \in [Sessions -> Nat], NEW floor \in [Sessions -> Nat],
           \A s \in Sessions : (gone[s] => gone2[s]) /\ done[s] <= done2[s],
           NEW from \in SUBSET Job, NEW to \in SUBSET Job,
           Kept(gone, done, floor, from), Passed(gone2, done2, from, to)
    PROVE  Kept(gone2, done2, floor, to)
<1> SUFFICES ASSUME NEW s \in Sessions PROVE KeptBy(gone2, done2, to, s, floor[s])
  BY DEF Kept
<1>1. floor[s] \in Nat /\ done[s] \in Nat /\ done2[s] \in Nat /\ done[s] <= done2[s]
  OBVIOUS
<1>2. CASE gone[s]
  BY <1>2 DEF KeptBy
<1>3. CASE floor[s] <= done[s]
  <2>1. floor[s] <= done2[s]
    BY <1>1, <1>3
  <2> QED
    BY <2>1 DEF KeptBy
<1>4. CASE FinalIn(from, s, floor[s])
  <2>1. PICK j \in from : Final(j) /\ j.session = s /\ j.revision >= floor[s]
    BY <1>4 DEF FinalIn
  <2>2. j.revision \in Nat
    BY <2>1, FinalJob
  <2>3. KeptBy(gone2, done2, to, s, j.revision)
    BY <2>1 DEF Passed
  <2>4. CASE gone2[s]
    BY <2>4 DEF KeptBy
  <2>5. CASE j.revision <= done2[s]
    <3>1. floor[s] <= done2[s]
      BY <1>1, <2>1, <2>2, <2>5
    <3> QED
      BY <3>1 DEF KeptBy
  <2>6. CASE FinalIn(to, s, j.revision)
    <3>1. PICK k \in to : Final(k) /\ k.session = s /\ k.revision >= j.revision
      BY <2>6 DEF FinalIn
    <3>2. k.revision \in Nat
      BY <3>1, FinalJob
    <3>3. k.revision >= floor[s]
      BY <1>1, <2>1, <2>2, <3>1, <3>2
    <3> QED
      BY <3>1, <3>3 DEF KeptBy, FinalIn
  <2> QED
    BY <2>3, <2>4, <2>5, <2>6 DEF KeptBy
<1> QED
  BY <1>2, <1>3, <1>4 DEF Kept, KeptBy

\* Jobs that are still there are passed.
LEMMA PassedSame ==
    ASSUME NEW gone, NEW done, NEW from \in SUBSET Job, NEW to, from \subseteq to
    PROVE  Passed(gone, done, from, to)
<1> SUFFICES ASSUME NEW j \in from, Final(j)
             PROVE  KeptBy(gone, done, to, j.session, j.revision)
  BY DEF Passed
<1>1. j.revision \in Nat
  BY FinalJob
<1>2. j.revision >= j.revision
  BY <1>1
<1> QED
  BY <1>2 DEF KeptBy, FinalIn

\* Passing two sets of jobs passes their union.
LEMMA PassedUnion ==
    ASSUME NEW gone, NEW done, NEW a, NEW b, NEW c, NEW d,
           Passed(gone, done, a, c), Passed(gone, done, b, d)
    PROVE  Passed(gone, done, a \cup b, c \cup d)
BY DEF Passed, KeptBy, FinalIn

\* retain_pending_final passes what was retained, and the record it is given.
LEMMA PassedRetained ==
    ASSUME NEW gone, NEW done, NEW S \in SUBSET Record, NEW r \in Record,
           r.class = "Final", \A q \in S : q.class = "Final"
    PROVE  /\ Passed(gone, done, S, Retain(S, r))
           /\ Passed(gone, done, {r}, Retain(S, r))
<1>1. \A k \in Retain(S, r) : k \in Record /\ k.kind = "manifest"
  BY DEF Retain, Put, Record
<1> QED
  BY <1>1, RetainCovers DEF Passed, KeptBy, FinalIn, Final

\* The ledger's removals and written revisions are never taken back.
Forward ==
    /\ \A s \in Sessions : (removed[s] => removed'[s]) /\ written[s] <= written'[s]
    /\ UNCHANGED drain_floor

\* What the drain answers for stays kept when the jobs that hold it are passed.
LEMMA FloorPassed ==
    ASSUME TypeInv, TypeInv', Forward,
           NEW from \in SUBSET Job, NEW to \in SUBSET Job,
           FloorKept(from), Passed(removed', written', from, to)
    PROVE  Kept(removed', written', drain_floor', to)
<1>1. /\ written \in [Sessions -> Nat] /\ written' \in [Sessions -> Nat]
      /\ drain_floor \in [Sessions -> Nat] /\ drain_floor' = drain_floor
  BY DEF TypeInv, TypeOK, Forward
<1>2. \A s \in Sessions : (removed[s] => removed'[s]) /\ written[s] <= written'[s]
  BY DEF Forward
<1>3. Kept(removed, written, drain_floor, from)
  BY DEF FloorKept
<1>4. Kept(removed', written', drain_floor, to)
  BY <1>1, <1>2, <1>3, KeptPassed
<1> QED
  BY <1>1, <1>4

\* A step that leaves the drain where it is keeps DrainInv when the queue only
\* grows, by jobs other than barriers, and the jobs in hand and those retained
\* are passed on.
LEMMA GrowStep ==
    ASSUME TypeInv, TypeInv', DrainInv, Forward,
           UNCHANGED <<drain, drains>>,
           \A i \in DOMAIN ordered : i \in DOMAIN ordered' /\ ordered'[i] = ordered[i],
           \A i \in DOMAIN ordered' : i \in DOMAIN ordered \/ ordered'[i].kind # "barrier",
           \A j \in current' : j \in current \/ j.kind # "barrier",
           Draining => /\ wpc' = "sleeping" => wpc = "sleeping"
                       /\ Passed(removed', written', current, current' \cup Spare')
                       /\ Passed(removed', written', Spare, Spare')
    PROVE  DrainInv'
<1>1. /\ ordered \in Seq(Job) /\ ordered' \in Seq(Job)
      /\ current \in SUBSET Job /\ current' \in SUBSET Job
      /\ pending_final \in SUBSET Record /\ pending_final' \in SUBSET Record
      /\ drains \in Nat
  BY DEF TypeInv, TypeOK
<1>2. Record \subseteq Job
  BY DEF Job
<1>3. Spare \in SUBSET Job /\ Spare' \in SUBSET Job
  BY <1>1, <1>2 DEF Spare
<1>4. Elems(ordered) \in SUBSET Job /\ Elems(ordered') \in SUBSET Job
  BY <1>1 DEF Elems
<1>5. Elems(ordered) \subseteq Elems(ordered')
  BY DEF Elems
<1>6. \A j \in Elems(ordered') : j \in Elems(ordered) \/ j.kind # "barrier"
  BY DEF Elems
<1>7. OwnBarrier' = OwnBarrier /\ OwnBarrier.kind = "barrier"
  BY DEF OwnBarrier
<1>8. BarrierNumbers'
  BY <1>6 DEF DrainInv, BarrierNumbers
<1>9. ASSUME drain = "requeued"
      PROVE  FloorKept(Elems(ordered) \cup current \cup Spare)'
  <2>1. Draining
    BY <1>9 DEF Draining
  <2>2. Passed(removed', written', Elems(ordered), Elems(ordered'))
    BY <1>4, <1>5, PassedSame
  <2>3. Passed(removed', written', Elems(ordered) \cup current,
               Elems(ordered') \cup (current' \cup Spare'))
    BY <2>1, <2>2, PassedUnion
  <2>4. Passed(removed', written', (Elems(ordered) \cup current) \cup Spare,
               (Elems(ordered') \cup (current' \cup Spare')) \cup Spare')
    BY <2>1, <2>3, PassedUnion
  <2>5. (Elems(ordered') \cup (current' \cup Spare')) \cup Spare'
          = Elems(ordered') \cup current' \cup Spare'
    OBVIOUS
  <2>6. FloorKept((Elems(ordered) \cup current) \cup Spare)
    BY <1>9 DEF DrainInv
  <2>7. Kept(removed', written', drain_floor', Elems(ordered') \cup current' \cup Spare')
    BY <1>1, <1>3, <1>4, <2>4, <2>5, <2>6, FloorPassed
  <2> QED
    BY <2>7 DEF FloorKept
<1>10. ASSUME drain = "waiting", NEW i \in DOMAIN ordered', ordered'[i] = OwnBarrier'
       PROVE  FloorKept(Before(i) \cup current \cup Spare)'
  <2>1. Draining
    BY <1>10 DEF Draining
  <2>2. i \in DOMAIN ordered /\ ordered[i] = OwnBarrier
    BY <1>7, <1>10
  <2>3. /\ DOMAIN ordered = 1..Len(ordered) /\ Len(ordered) \in Nat
        /\ i \in 1..Len(ordered)
    BY <1>1, <2>2
  <2>4. \A k \in 1..(i - 1) : k \in DOMAIN ordered
    BY <2>3
  <2>5. Before(i)' = {ordered'[k] : k \in 1..(i - 1)}
    BY DEF Before
  <2>6. Before(i) \in SUBSET Job /\ Before(i) = Before(i)'
    BY <1>1, <2>4, <2>5 DEF Before
  <2>7. PICK B \in SUBSET Job : B = Before(i) /\ B = Before(i)'
    BY <2>6
  <2>8. Passed(removed', written', B, B)
    BY PassedSame
  <2>9. Passed(removed', written', B \cup current, B \cup (current' \cup Spare'))
    BY <2>1, <2>8, PassedUnion
  <2>10. Passed(removed', written', (B \cup current) \cup Spare,
                (B \cup (current' \cup Spare')) \cup Spare')
    BY <2>1, <2>9, PassedUnion
  <2>11. (B \cup (current' \cup Spare')) \cup Spare' = B \cup current' \cup Spare'
    OBVIOUS
  <2>12. FloorKept((B \cup current) \cup Spare)
    BY <1>10, <2>2, <2>7 DEF DrainInv
  <2>13. Kept(removed', written', drain_floor', B \cup current' \cup Spare')
    BY <1>1, <1>3, <2>10, <2>11, <2>12, FloorPassed
  <2> QED
    BY <2>7, <2>13 DEF FloorKept
<1>11. ASSUME drain = "waiting", OwnBarrier' \in current'
       PROVE  FloorKept(Spare)'
  <2>1. Draining
    BY <1>11 DEF Draining
  <2>2. FloorKept(Spare)
    BY <1>7, <1>11 DEF DrainInv
  <2>3. Kept(removed', written', drain_floor', Spare')
    BY <1>3, <2>1, <2>2, FloorPassed
  <2> QED
    BY <2>3 DEF FloorKept
<1>12. ASSUME drain = "signalled"
       PROVE  wpc' # "sleeping" /\ FloorKept(pending_final)'
  <2>1. Draining
    BY <1>12 DEF Draining
  <2>2. wpc # "sleeping" /\ FloorKept(pending_final)
    BY <1>12 DEF DrainInv
  <2>3. wpc' # "sleeping"
    BY <2>1, <2>2
  <2>4. Spare = pending_final /\ Spare' = pending_final'
    BY <2>2, <2>3 DEF Spare
  <2>5. Kept(removed', written', drain_floor', Spare')
    BY <1>3, <2>1, <2>2, <2>4, FloorPassed
  <2> QED
    BY <2>3, <2>4, <2>5 DEF FloorKept
<1>13. ASSUME drain = "ok" PROVE FloorKept({})'
  <2>1. FloorKept({})
    BY <1>13 DEF DrainInv
  <2>2. Passed(removed', written', {}, {})
    BY DEF Passed
  <2>3. Kept(removed', written', drain_floor', {})
    BY <2>1, <2>2, FloorPassed
  <2> QED
    BY <2>3 DEF FloorKept
<1> QED
  BY <1>8, <1>9, <1>10, <1>11, <1>12, <1>13 DEF DrainInv

\* A step that only adds jobs other than barriers at the end of the queue.
LEMMA AppendGrows ==
    ASSUME NEW q \in Seq(Job), NEW j \in Job, j.kind # "barrier"
    PROVE  /\ \A i \in DOMAIN q : i \in DOMAIN Append(q, j) /\ Append(q, j)[i] = q[i]
           /\ \A i \in DOMAIN Append(q, j) : i \in DOMAIN q \/ Append(q, j)[i].kind # "barrier"
<1>1. /\ Len(q) \in Nat /\ DOMAIN q = 1..Len(q)
      /\ DOMAIN Append(q, j) = 1..(Len(q) + 1)
      /\ \A i \in 1..Len(q) : Append(q, j)[i] = q[i]
      /\ Append(q, j)[Len(q) + 1] = j
  OBVIOUS
<1>2. \A i \in 1..(Len(q) + 1) : i \in 1..Len(q) \/ i = Len(q) + 1
  BY <1>1
<1>3. \A i \in 1..Len(q) : i \in 1..(Len(q) + 1)
  BY <1>1
<1> QED
  BY <1>1, <1>2, <1>3

\* Requeued finals go behind what is queued, and none of them is a barrier.
LEMMA RequeueGrows ==
    ASSUME TypeInv, Requeue
    PROVE  /\ \A i \in DOMAIN ordered : i \in DOMAIN ordered' /\ ordered'[i] = ordered[i]
           /\ \A i \in DOMAIN ordered' : i \in DOMAIN ordered \/ ordered'[i].kind # "barrier"
<1>1. PICK q \in Listings(pending_final) : ordered' = ordered \o q
  BY DEF Requeue
<1>2. q \in Seq(pending_final)
  BY ListingElems, <1>1 DEF TypeInv
<1>3. ordered \in Seq(Job) /\ pending_final \in SUBSET Record
  BY DEF TypeInv, TypeOK
<1>4. q \in Seq(Job)
  BY <1>2, <1>3 DEF Job
<1>5. \A k \in DOMAIN q : q[k].kind # "barrier"
  BY <1>2, <1>3 DEF Record
<1>6. /\ Len(ordered) \in Nat /\ Len(q) \in Nat
      /\ DOMAIN ordered = 1..Len(ordered) /\ DOMAIN q = 1..Len(q)
      /\ DOMAIN (ordered \o q) = 1..(Len(ordered) + Len(q))
      /\ \A i \in 1..(Len(ordered) + Len(q)) :
            (ordered \o q)[i] = IF i <= Len(ordered) THEN ordered[i] ELSE q[i - Len(ordered)]
  BY <1>3, <1>4
<1>7. ASSUME NEW i \in DOMAIN ordered
      PROVE  i \in DOMAIN ordered' /\ ordered'[i] = ordered[i]
  BY <1>1, <1>6
<1>8. ASSUME NEW i \in DOMAIN ordered', i \notin DOMAIN ordered
      PROVE  ordered'[i].kind # "barrier"
  <2>1. i \in 1..(Len(ordered) + Len(q)) /\ ~(i <= Len(ordered))
    BY <1>1, <1>6, <1>8
  <2>2. i - Len(ordered) \in DOMAIN q
    BY <1>6, <2>1
  <2>3. ordered'[i] = q[i - Len(ordered)]
    BY <1>1, <1>6, <2>1
  <2> QED
    BY <1>5, <2>2, <2>3
<1> QED
  BY <1>7, <1>8

\* A barrier job is known by its number.
LEMMA BarrierJob ==
    ASSUME NEW j \in Job, j.kind = "barrier"
    PROVE  j.drain \in Nat /\ j = [kind |-> "barrier", drain |-> j.drain]
BY DEF Job, Record, Removal, Exclusive, Barrier

\* A host thread's step, which touches neither the writer nor the drain.
LEMMA HostDrainStep ==
    ASSUME TypeInv, TypeInv', IInv, DrainInv, HostThread
    PROVE  DrainInv'
<1>0. /\ ordered \in Seq(Job) /\ transit \in SUBSET Record
      /\ current \in SUBSET Job /\ pending_final \in SUBSET Record
      /\ Record \subseteq Job
      /\ \A s \in Sessions : written[s] \in Nat /\ written[s] <= written[s]
      /\ \A q \in pending_final : q.class = "Final"
      /\ \A s \in removing : removed[s]
      /\ Spare \in SUBSET Job
  <2>1. /\ ordered \in Seq(Job) /\ transit \in SUBSET Record
        /\ current \in SUBSET Job /\ pending_final \in SUBSET Record
        /\ Record \subseteq Job
        /\ \A s \in Sessions : written[s] \in Nat
    BY DEF TypeInv, TypeOK, Job
  <2>2. \A s \in Sessions : written[s] <= written[s]
    BY <2>1
  <2> QED
    BY <2>1, <2>2 DEF IInv, Shape, RemovalsMarked, Spare
<1>1. ASSUME UNCHANGED <<written, drain_floor, drain, drains, current, wpc>>,
             \A s \in Sessions : removed[s] => removed'[s],
             \A i \in DOMAIN ordered : i \in DOMAIN ordered' /\ ordered'[i] = ordered[i],
             \A i \in DOMAIN ordered' : i \in DOMAIN ordered \/ ordered'[i].kind # "barrier",
             Passed(removed', written', Spare, Spare')
      PROVE  DrainInv'
  <2>1. Forward
    BY <1>0, <1>1 DEF Forward
  <2>2. Passed(removed', written', current, current' \cup Spare')
    BY <1>0, <1>1, PassedSame
  <2> QED
    BY <1>1, <2>1, <2>2, GrowStep
<1>2. ASSUME UNCHANGED <<wpc, pending_final>> PROVE Passed(removed', written', Spare, Spare')
  <2>1. Spare' = Spare
    BY <1>2 DEF Spare
  <2> QED
    BY <1>0, <2>1, PassedSame
<1>3. ASSUME UNCHANGED ordered
      PROVE  /\ \A i \in DOMAIN ordered : i \in DOMAIN ordered' /\ ordered'[i] = ordered[i]
             /\ \A i \in DOMAIN ordered' : i \in DOMAIN ordered \/ ordered'[i].kind # "barrier"
  BY <1>3
<1>4. ASSUME NEW s \in Sessions, NEW c \in Classes, NEW z \in Sizes, NextRevision(s, c, z)
      PROVE  DrainInv'
  BY <1>1, <1>2, <1>3, <1>4 DEF NextRevision, queue, writer, drainer
<1>5. ASSUME NEW s \in Sessions, EncodeFails(s) \/ ReserveFinal(s) PROVE DrainInv'
  BY <1>1, <1>2, <1>3, <1>5 DEF EncodeFails, ReserveFinal, queue, writer, drainer
<1>6. ASSUME NEW r \in transit, SubmitMetadata(r) PROVE DrainInv'
  BY <1>1, <1>2, <1>3, <1>6 DEF SubmitMetadata, writer, drainer
<1>7. ASSUME NEW r \in transit, ordered' = Append(ordered, r)
      PROVE  /\ \A i \in DOMAIN ordered : i \in DOMAIN ordered' /\ ordered'[i] = ordered[i]
             /\ \A i \in DOMAIN ordered' : i \in DOMAIN ordered \/ ordered'[i].kind # "barrier"
  <2>1. r \in Job /\ r.kind # "barrier"
    BY <1>0 DEF Record
  <2> QED
    BY <1>0, <1>7, <2>1, AppendGrows
<1>8. ASSUME NEW r \in transit, SubmitCritical(r) PROVE DrainInv'
  <2>1. UNCHANGED ordered \/ ordered' = Append(ordered, r)
    BY <1>8 DEF SubmitCritical
  <2> QED
    BY <1>1, <1>2, <1>3, <1>7, <1>8, <2>1 DEF SubmitCritical, writer, drainer
<1>9. ASSUME NEW r \in transit, SubmitFinal(r) PROVE DrainInv'
  <2>1. CASE ordered' = Append(ordered, r) /\ UNCHANGED pending_final
    BY <1>1, <1>2, <1>7, <1>9, <2>1 DEF SubmitFinal, writer, drainer
  <2>2. CASE pending_final' = Retain(pending_final, r) /\ UNCHANGED ordered
    <3>1. r \in Record /\ r.class = "Final"
      BY <1>0, <1>9 DEF SubmitFinal
    <3>2. Passed(removed', written', pending_final, pending_final')
      BY <1>0, <2>2, <3>1, PassedRetained
    <3>3. UNCHANGED wpc
      BY <1>9 DEF SubmitFinal, writer
    <3>4. Passed(removed', written', Spare, Spare')
      <4>1. CASE wpc = "sleeping"
        BY <4>1 DEF Spare, Passed
      <4>2. CASE wpc # "sleeping"
        <5>1. Spare = pending_final /\ Spare' = pending_final'
          BY <3>3, <4>2 DEF Spare
        <5> QED
          BY <3>2, <5>1
      <4> QED
        BY <4>1, <4>2
    <3> QED
      BY <1>1, <1>3, <1>9, <2>2, <3>4 DEF SubmitFinal, writer, drainer
  <2> QED
    BY <1>9, <2>1, <2>2 DEF SubmitFinal
<1>10. ASSUME NEW s \in Sessions, MarkRemoved(s) PROVE DrainInv'
  <2>1. \A t \in Sessions : removed[t] => removed'[t]
    BY <1>10 DEF MarkRemoved, TypeInv, TypeOK
  <2> QED
    BY <1>1, <1>2, <1>3, <1>10, <2>1 DEF MarkRemoved, queue, writer, drainer
<1>11. ASSUME NEW s \in Sessions, EnqueueRemove(s) PROVE DrainInv'
  <2>1. /\ \A i \in DOMAIN ordered : i \in DOMAIN ordered' /\ ordered'[i] = ordered[i]
        /\ \A i \in DOMAIN ordered' : i \in DOMAIN ordered \/ ordered'[i].kind # "barrier"
    <3>1. PICK j : j = [kind |-> "remove", session |-> s]
      OBVIOUS
    <3>2. j \in Job /\ j.kind # "barrier"
      BY <3>1 DEF Job, Removal
    <3>3. ordered' = Append(ordered, j)
      BY <1>11, <3>1 DEF EnqueueRemove
    <3> QED
      BY <1>0, <3>2, <3>3, AppendGrows
  <2>2. removed[s] /\ removed' = removed /\ wpc' = wpc
    BY <1>0, <1>11 DEF EnqueueRemove, writer
  <2>3. \A q \in pending_final : q.session = s \/ q \in pending_final'
    BY <1>11 DEF EnqueueRemove, OfSession
  <2>4. Passed(removed', written', Spare, Spare')
    <3> SUFFICES ASSUME NEW j \in Spare, Final(j)
                 PROVE  KeptBy(removed', written', Spare', j.session, j.revision)
      BY DEF Passed
    <3>1. j \in pending_final /\ wpc # "sleeping"
      BY DEF Spare
    <3>2. CASE j.session = s
      BY <2>2, <3>2 DEF KeptBy
    <3>3. CASE j \in pending_final'
      <4>1. j \in Spare'
        BY <2>2, <3>1, <3>3 DEF Spare
      <4>2. j.revision >= j.revision
        BY <1>0, FinalJob
      <4> QED
        BY <4>1, <4>2 DEF KeptBy, FinalIn
    <3> QED
      BY <2>3, <3>1, <3>2, <3>3
  <2> QED
    BY <1>1, <1>11, <2>1, <2>2, <2>4 DEF EnqueueRemove, writer, drainer
<1>12. CASE SpawnExclusive
  <2>1. PICK j : j = [kind |-> "exclusive"]
    OBVIOUS
  <2>2. j \in Job /\ j.kind # "barrier"
    BY <2>1 DEF Job, Exclusive
  <2>3. ordered' = Append(ordered, j)
    BY <1>12, <2>1 DEF SpawnExclusive
  <2>4. /\ \A i \in DOMAIN ordered : i \in DOMAIN ordered' /\ ordered'[i] = ordered[i]
        /\ \A i \in DOMAIN ordered' : i \in DOMAIN ordered \/ ordered'[i].kind # "barrier"
    BY <1>0, <2>2, <2>3, AppendGrows
  <2> QED
    BY <1>1, <1>2, <1>12, <2>4 DEF SpawnExclusive, ledger, writer, drainer
<1>13. CASE Stop
  BY <1>1, <1>2, <1>3, <1>13 DEF Stop, ledger, writer, drainer
<1> QED
  BY <1>4, <1>5, <1>6, <1>8, <1>9, <1>10, <1>11, <1>12, <1>13 DEF HostThread

\* The draining thread's own steps.
LEMMA DrainerStep ==
    ASSUME TypeInv, TypeInv', IInv, FinalCovered, DrainInv, DrainThread
    PROVE  DrainInv'
<1>0. /\ ordered \in Seq(Job) /\ current \in SUBSET Job
      /\ pending_final \in SUBSET Record
      /\ drains \in Nat
      /\ Elems(ordered) \in SUBSET Job
      /\ \A j \in Elems(ordered) \cup current : j.kind = "barrier" => j.drain \in Nat
  <2>1. /\ ordered \in Seq(Job) /\ current \in SUBSET Job
        /\ pending_final \in SUBSET Record
        /\ drains \in Nat
    BY DEF TypeInv, TypeOK
  <2>2. Elems(ordered) \in SUBSET Job
    BY <2>1 DEF Elems
  <2> QED
    BY <2>1, <2>2, BarrierJob
<1>1. CASE DrainBegin
  <2>1. /\ drain' = "requeued" /\ drains' = drains + 1 /\ drain_floor' = accepted_final
        /\ removed' = removed /\ written' = written /\ current' = current
    BY <1>1 DEF DrainBegin, ledger, writer
  <2>2. Elems(ordered') = Elems(ordered) \cup pending_final
    BY <1>1, RequeueElems DEF DrainBegin
  <2>3. BarrierNumbers'
    <3> SUFFICES ASSUME NEW j \in Elems(ordered') \cup current', j.kind = "barrier"
                 PROVE  j.drain <= drains' /\ j.drain < drains'
      BY DEF BarrierNumbers
    <3>1. j \notin pending_final
      BY <1>0 DEF Record
    <3>2. j \in Elems(ordered) \cup current
      BY <2>1, <2>2, <3>1
    <3>3. j.drain \in Nat /\ j.drain <= drains
      BY <1>0, <3>2 DEF DrainInv, BarrierNumbers
    <3> QED
      BY <1>0, <2>1, <3>3
  <2>4. FloorKept(Elems(ordered) \cup current \cup Spare)'
    <3>1. Around \subseteq Elems(ordered') \cup current' \cup Spare'
      BY <2>1, <2>2 DEF Around
    <3> SUFFICES ASSUME NEW s \in Sessions
                 PROVE  KeptBy(removed', written', Elems(ordered') \cup current' \cup Spare',
                               s, drain_floor'[s])
      BY DEF FloorKept, Kept
    <3>2. removed[s] \/ accepted_final[s] <= written[s] \/ HeldFinal(s, accepted_final[s])
      BY DEF FinalCovered
    <3>3. HeldFinal(s, accepted_final[s]) =>
             FinalIn(Elems(ordered') \cup current' \cup Spare', s, accepted_final[s])
      BY <3>1 DEF HeldFinal, FinalIn, Final
    <3> QED
      BY <2>1, <3>2, <3>3 DEF KeptBy
  <2> QED
    BY <2>1, <2>3, <2>4 DEF DrainInv
<1>2. CASE DrainBarrier
  <2>0. /\ drain = "requeued" /\ drain' = "waiting" /\ drains' = drains
        /\ drain_floor' = drain_floor /\ removed' = removed /\ written' = written
        /\ current' = current /\ Spare' = Spare
    BY <1>2 DEF DrainBarrier, ledger, writer, Spare
  <2>1. ordered' = Append(ordered, OwnBarrier) /\ OwnBarrier \in Job /\ OwnBarrier' = OwnBarrier
    BY <1>0, <1>2, <2>0 DEF DrainBarrier, OwnBarrier, Job, Barrier
  <2>2. /\ OwnBarrier.kind = "barrier" /\ OwnBarrier.drain = drains
    BY DEF OwnBarrier
  <2>3. Elems(ordered') = Elems(ordered) \cup {OwnBarrier}
    BY <1>0, <2>1, AppendElems
  <2>4. \A j \in Elems(ordered) \cup current : j.kind = "barrier" =>
           j.drain \in Nat /\ j.drain < drains
    BY <1>0, <2>0 DEF DrainInv, BarrierNumbers
  <2>5. OwnBarrier \notin Elems(ordered) \cup current
    BY <1>0, <2>2, <2>4
  <2>6. BarrierNumbers'
    <3> SUFFICES ASSUME NEW j \in Elems(ordered') \cup current', j.kind = "barrier"
                 PROVE  j.drain <= drains'
      BY <2>0 DEF BarrierNumbers
    <3>1. CASE j = OwnBarrier
      BY <1>0, <2>0, <2>2, <3>1
    <3>2. CASE j \in Elems(ordered) \cup current
      BY <1>0, <2>0, <2>4, <3>2
    <3> QED
      BY <2>0, <2>3, <3>1, <3>2
  <2>7. ASSUME NEW i \in DOMAIN ordered', ordered'[i] = OwnBarrier'
        PROVE  FloorKept(Before(i) \cup current \cup Spare)'
    <3>1. /\ Len(ordered) \in Nat /\ DOMAIN ordered = 1..Len(ordered)
          /\ DOMAIN ordered' = 1..(Len(ordered) + 1)
          /\ \A k \in 1..Len(ordered) : ordered'[k] = ordered[k]
      BY <1>0, <2>1
    <3>2. i \notin DOMAIN ordered
      BY <2>1, <2>5, <2>7, <3>1 DEF Elems
    <3>3. i - 1 = Len(ordered)
      BY <3>1, <3>2
    <3>4. Before(i)' = {ordered'[k] : k \in 1..Len(ordered)}
      BY <3>3 DEF Before
    <3>5. Before(i)' = Elems(ordered)
      BY <3>1, <3>4 DEF Elems
    <3>6. FloorKept(Elems(ordered) \cup current \cup Spare)
      BY <2>0 DEF DrainInv
    <3>7. Kept(removed', written', drain_floor', Before(i)' \cup current' \cup Spare')
      BY <2>0, <3>5, <3>6 DEF FloorKept
    <3> QED
      BY <3>7 DEF FloorKept
  <2>8. OwnBarrier' \notin current'
    BY <2>0, <2>1, <2>5
  <2> QED
    BY <2>0, <2>6, <2>7, <2>8 DEF DrainInv
<1>3. CASE DrainTimeout
  BY <1>3 DEF DrainTimeout, queue, writer, DrainInv, BarrierNumbers
<1>4. CASE DrainReport
  <2>1. /\ drain = "signalled" /\ drain_floor' = drain_floor
        /\ removed' = removed /\ written' = written
        /\ drain' = IF pending_final = {} THEN "ok" ELSE "failed"
        /\ UNCHANGED <<ordered, current, drains>>
    BY <1>4 DEF DrainReport, ledger, queue, writer
  <2>2. BarrierNumbers'
    BY <2>1 DEF DrainInv, BarrierNumbers
  <2>3. FloorKept(pending_final)
    BY <2>1 DEF DrainInv
  <2>4. pending_final = {} => FloorKept({})'
    BY <2>1, <2>3 DEF FloorKept
  <2> QED
    BY <2>1, <2>2, <2>4 DEF DrainInv
<1> QED
  BY <1>1, <1>2, <1>3, <1>4 DEF DrainThread

\* The writer's steps, when a draining thread is not held up for a whole
\* RETRY_INTERVAL.
LEMMA WriterDrainStep ==
    ASSUME ~SlowDrain, TypeInv, TypeInv', IInv, DrainInv, WriterThread
    PROVE  DrainInv'
<1>0. /\ ordered \in Seq(Job) /\ current \in SUBSET Job /\ metadata \in SUBSET Record
      /\ pending_final \in SUBSET Record /\ Record \subseteq Job
      /\ \A s \in Sessions : written[s] \in Nat /\ written[s] <= written[s]
      /\ \A q \in pending_final : q.class = "Final"
      /\ Spare \in SUBSET Job
      /\ drains \in Nat
  <2>1. /\ ordered \in Seq(Job) /\ current \in SUBSET Job /\ metadata \in SUBSET Record
        /\ pending_final \in SUBSET Record /\ Record \subseteq Job
        /\ \A s \in Sessions : written[s] \in Nat
        /\ drains \in Nat
    BY DEF TypeInv, TypeOK, Job
  <2>2. \A s \in Sessions : written[s] <= written[s]
    BY <2>1
  <2> QED
    BY <2>1, <2>2 DEF IInv, Shape, Spare
<1>1. ASSUME UNCHANGED <<removed, drain_floor, drain, drains, ordered, current, pending_final>>,
             \A s \in Sessions : written[s] <= written'[s],
             wpc = "sleeping" \/ wpc' # "sleeping" \/ ~Draining
      PROVE  DrainInv'
  <2>1. Forward
    BY <1>1 DEF Forward
  <2>2. Passed(removed', written', current, current' \cup Spare')
    BY <1>0, <1>1, PassedSame
  <2>3. wpc' = "sleeping" /\ Draining => wpc = "sleeping"
    BY <1>1
  <2>4. Draining => Spare \subseteq Spare'
    BY <1>1, <2>3 DEF Spare
  <2>5. Draining => Passed(removed', written', Spare, Spare')
    BY <1>0, <2>4, PassedSame
  <2> QED
    BY <1>1, <2>1, <2>2, <2>3, <2>5, GrowStep
<1>2. wpc = "idle" => current = {}
  BY DEF IInv, Shape
<1>3. CASE TakeMetadata
  <2>1. /\ wpc = "idle" /\ wpc' = "taken" /\ current' \subseteq metadata
        /\ UNCHANGED <<removed, written, drain_floor, drain, drains, ordered, pending_final>>
    BY <1>3 DEF TakeMetadata, ledger, drainer, OfSession
  <2>2. \A j \in current' : j.kind # "barrier"
    BY <1>0, <2>1 DEF Record
  <2>3. Forward
    BY <1>0, <2>1 DEF Forward
  <2>4. Spare' = Spare
    BY <2>1 DEF Spare
  <2>5. Passed(removed', written', Spare, Spare')
    BY <1>0, <2>4, PassedSame
  <2>6. Passed(removed', written', current, current' \cup Spare')
    BY <1>2, <2>1 DEF Passed
  <2> QED
    BY <2>1, <2>2, <2>3, <2>5, <2>6, GrowStep
<1>4. CASE TakeOrdered
  <2>0. /\ wpc = "idle" /\ wpc' = "taken" /\ ordered # <<>>
        /\ current = {} /\ current' = {Head(ordered)} /\ ordered' = Tail(ordered)
        /\ removed' = removed /\ written' = written /\ drain_floor' = drain_floor
        /\ drain' = drain /\ drains' = drains /\ pending_final' = pending_final
    BY <1>2, <1>4 DEF TakeOrdered, ledger, drainer
  <2>1. Elems(ordered) = Elems(ordered') \cup current'
    BY <1>0, <2>0, TailElems
  <2>2. Spare' = Spare /\ OwnBarrier' = OwnBarrier /\ Spare = pending_final
    BY <2>0 DEF Spare, OwnBarrier
  <2>3. BarrierNumbers'
    BY <2>0, <2>1 DEF DrainInv, BarrierNumbers
  <2>4. ASSUME drain = "requeued"
        PROVE  FloorKept(Elems(ordered) \cup current \cup Spare)'
    <3>1. FloorKept(Elems(ordered) \cup current \cup Spare)
      BY <2>4 DEF DrainInv
    <3>2. Elems(ordered) \cup current \cup Spare = Elems(ordered') \cup current' \cup Spare'
      BY <2>0, <2>1, <2>2
    <3>3. Kept(removed', written', drain_floor', Elems(ordered') \cup current' \cup Spare')
      BY <2>0, <3>1, <3>2 DEF FloorKept
    <3> QED
      BY <3>3 DEF FloorKept
  <2>5. /\ Len(ordered) \in Nat /\ Len(ordered) > 0 /\ DOMAIN ordered = 1..Len(ordered)
        /\ DOMAIN ordered' = 1..(Len(ordered) - 1)
        /\ \A k \in 1..(Len(ordered) - 1) : ordered'[k] = ordered[k + 1]
        /\ Head(ordered) = ordered[1]
    BY <1>0, <2>0
  <2>6. ASSUME drain = "waiting", NEW i \in DOMAIN ordered', ordered'[i] = OwnBarrier'
        PROVE  FloorKept(Before(i) \cup current \cup Spare)'
    <3>1. i \in 1..(Len(ordered) - 1) /\ i + 1 \in DOMAIN ordered /\ ordered[i + 1] = OwnBarrier
      BY <2>2, <2>5, <2>6
    <3>2. FloorKept(Before(i + 1) \cup current \cup Spare)
      BY <2>6, <3>1 DEF DrainInv
    <3>3. (i + 1) - 1 = i
      BY <3>1
    <3>4. Before(i + 1) = {ordered[k] : k \in 1..i}
      BY <3>3 DEF Before
    <3>5. Before(i)' = {ordered'[k] : k \in 1..(i - 1)}
      BY DEF Before
    <3>6. Before(i + 1) \subseteq Before(i)' \cup current'
      <4> SUFFICES ASSUME NEW k \in 1..i PROVE ordered[k] \in Before(i)' \cup current'
        BY <3>4
      <4>1. CASE k = 1
        BY <2>0, <2>5, <4>1
      <4>2. CASE k # 1
        <5>1. k - 1 \in 1..(i - 1) /\ k - 1 \in 1..(Len(ordered) - 1) /\ (k - 1) + 1 = k
          BY <2>5, <3>1, <4>2
        <5>2. ordered'[k - 1] = ordered[k]
          BY <2>5, <5>1
        <5> QED
          BY <3>5, <5>1, <5>2
      <4> QED
        BY <4>1, <4>2
    <3>7. Before(i)' \cup current' \subseteq Before(i + 1)
      <4>1. ordered[1] \in Before(i + 1)
        BY <3>1, <3>4
      <4>2. ASSUME NEW k \in 1..(i - 1) PROVE ordered'[k] \in Before(i + 1)
        <5>1. k + 1 \in 1..i /\ k \in 1..(Len(ordered) - 1)
          BY <2>5, <3>1
        <5> QED
          BY <2>5, <3>4, <5>1
      <4> QED
        BY <2>0, <2>5, <3>5, <4>1, <4>2
    <3>8. Before(i + 1) \cup current \cup Spare = Before(i)' \cup current' \cup Spare'
      BY <2>0, <2>2, <3>6, <3>7
    <3>9. Kept(removed', written', drain_floor', Before(i)' \cup current' \cup Spare')
      BY <2>0, <3>2, <3>8 DEF FloorKept
    <3> QED
      BY <3>9 DEF FloorKept
  <2>7. ASSUME drain = "waiting", OwnBarrier' \in current' PROVE FloorKept(Spare)'
    <3>1. 1 \in DOMAIN ordered /\ ordered[1] = OwnBarrier
      BY <2>0, <2>2, <2>5, <2>7
    <3>2. FloorKept(Before(1) \cup current \cup Spare)
      BY <2>7, <3>1 DEF DrainInv
    <3>3. 1..(1 - 1) = {}
      OBVIOUS
    <3>4. Before(1) = {}
      BY <3>3 DEF Before
    <3>5. Before(1) \cup current \cup Spare = Spare'
      BY <2>0, <2>2, <3>4
    <3>6. Kept(removed', written', drain_floor', Spare')
      BY <2>0, <3>2, <3>5 DEF FloorKept
    <3> QED
      BY <3>6 DEF FloorKept
  <2>8. drain = "signalled" => FloorKept(pending_final)'
    <3>1. drain = "signalled" => Kept(removed', written', drain_floor', pending_final')
      BY <2>0 DEF DrainInv, FloorKept
    <3> QED
      BY <3>1 DEF FloorKept
  <2>9. drain = "ok" => FloorKept({})'
    BY <2>0 DEF DrainInv, FloorKept
  <2> QED
    BY <2>0, <2>3, <2>4, <2>6, <2>7, <2>8, <2>9 DEF DrainInv
<1>5. CASE WriterExit
  BY <1>0, <1>1, <1>5 DEF WriterExit, ledger, drainer
<1>6. CASE RetrySleep
  <2>1. wpc' # "sleeping" \/ ~Draining
    BY <1>6 DEF RetrySleep
  <2> QED
    BY <1>0, <1>1, <1>6, <2>1 DEF RetrySleep, ledger, drainer
<1>7. CASE RetryWake
  BY <1>0, <1>1, <1>7 DEF RetryWake, ledger, queue, drainer
<1>8. CASE RetryTimeout
  <2>1. /\ wpc' = "idle" /\ wpc \in Asleep
        /\ UNCHANGED <<removed, written, drain_floor, drain, drains, current>>
    BY <1>8 DEF RetryTimeout, ledger, drainer
  <2>2. /\ \A i \in DOMAIN ordered : i \in DOMAIN ordered' /\ ordered'[i] = ordered[i]
        /\ \A i \in DOMAIN ordered' : i \in DOMAIN ordered \/ ordered'[i].kind # "barrier"
    BY <1>8, RequeueGrows DEF RetryTimeout
  <2>3. Draining => wpc = "sleeping"
    BY <1>8, <2>1 DEF RetryTimeout, Asleep
  <2>4. Draining => Passed(removed', written', Spare, Spare')
    BY <2>3 DEF Spare, Passed
  <2>5. Passed(removed', written', current, current' \cup Spare')
    BY <1>0, <2>1, PassedSame
  <2>6. Forward
    BY <1>0, <2>1 DEF Forward
  <2> QED
    BY <2>1, <2>2, <2>4, <2>5, <2>6, GrowStep
<1>9. CASE SkipRevision \/ BeginWrite \/ WriteFails
  BY <1>0, <1>1, <1>9 DEF SkipRevision, BeginWrite, WriteFails, ledger, queue, drainer
<1>10. CASE WriteSucceeds
  <2>1. PICK r \in current : /\ r.kind = "manifest"
                             /\ written' = [written EXCEPT ![r.session] = Newer(@, r.revision)]
    BY <1>10 DEF WriteSucceeds
  <2>2. r.session \in Sessions /\ r.revision \in Nat
    BY <1>0, <2>1, ManifestJob
  <2>3. written \in [Sessions -> Nat]
    BY DEF TypeInv, TypeOK
  <2>4. \A s \in Sessions : written[s] <= written'[s]
    BY <1>0, <2>1, <2>2, <2>3 DEF Newer
  <2> QED
    BY <1>1, <1>10, <2>4 DEF WriteSucceeds, queue, drainer
<1>11. CASE ExecuteRemove \/ ExecuteExclusive
  BY <1>0, <1>1, <1>11 DEF ExecuteRemove, ExecuteExclusive, ledger, queue, drainer
<1>12. CASE ExecuteBarrier
  <2>1. PICK j \in current :
           /\ j.kind = "barrier"
           /\ drain' = IF drain = "waiting" /\ j.drain = drains THEN "signalled" ELSE drain
    BY <1>12 DEF ExecuteBarrier
  <2>2. /\ wpc = "taken" /\ wpc' = "settle" /\ removed' = removed /\ written' = written
        /\ drain_floor' = drain_floor /\ drains' = drains
        /\ UNCHANGED <<ordered, current, pending_final>>
    BY <1>12 DEF ExecuteBarrier, ledger, queue
  <2>3. CASE drain = "waiting" /\ j.drain = drains
    <3>1. j = OwnBarrier
      BY <1>0, <2>1, <2>3, BarrierJob DEF OwnBarrier
    <3>2. Spare = pending_final
      BY <2>2 DEF Spare
    <3>3. FloorKept(pending_final)
      BY <2>1, <2>3, <3>1, <3>2 DEF DrainInv
    <3>4. FloorKept(pending_final)'
      BY <2>2, <3>3 DEF FloorKept
    <3>5. drain' = "signalled"
      BY <2>1, <2>3
    <3>6. BarrierNumbers'
      BY <2>2, <3>5 DEF DrainInv, BarrierNumbers
    <3> QED
      BY <2>2, <3>4, <3>5, <3>6 DEF DrainInv
  <2>4. CASE ~(drain = "waiting" /\ j.drain = drains)
    BY <1>0, <1>1, <2>1, <2>2, <2>4
  <2> QED
    BY <2>3, <2>4
<1>13. CASE Settle
  <2>1. PICK j \in current :
           pending_final' = IF j.kind = "manifest" /\ failed /\ j.class = "Final"
                            THEN Retain(pending_final, j)
                            ELSE pending_final
    BY <1>13 DEF Settle
  <2>2. /\ wpc = "settle" /\ wpc' = "idle" /\ current' = {}
        /\ UNCHANGED <<removed, written, drain_floor, drain, drains, ordered>>
    BY <1>13 DEF Settle, ledger, drainer
  <2>3. current = {j}
    BY <2>1 DEF IInv, Shape
  <2>4. Spare = pending_final /\ Spare' = pending_final'
    BY <2>2 DEF Spare
  <2>5. /\ Passed(removed', written', pending_final, pending_final')
        /\ Passed(removed', written', {j}, pending_final')
    <3>1. CASE Final(j) /\ failed
      <4>1. j \in Record /\ j.class = "Final"
        BY <1>0, <3>1, FinalJob DEF Final
      <4>2. pending_final' = Retain(pending_final, j)
        BY <2>1, <3>1 DEF Final
      <4> QED
        BY <1>0, <4>1, <4>2, PassedRetained
    <3>2. CASE ~(Final(j) /\ failed)
      <4>1. pending_final' = pending_final
        BY <2>1, <3>2 DEF Final
      <4>2. Passed(removed', written', pending_final, pending_final')
        BY <1>0, <4>1, PassedSame
      <4>3. Final(j) => removed[j.session] \/ j.revision <= written[j.session]
        BY <2>2, <3>2 DEF IInv, WriterKnows, Final
      <4>4. Passed(removed', written', {j}, pending_final')
        BY <2>2, <4>3 DEF Passed, KeptBy
      <4> QED
        BY <4>2, <4>4
    <3> QED
      BY <3>1, <3>2
  <2>6. current' \cup Spare' = pending_final'
    BY <2>2, <2>4
  <2>7. Forward
    BY <1>0, <2>2 DEF Forward
  <2>8. /\ Passed(removed', written', Spare, Spare')
        /\ Passed(removed', written', current, current' \cup Spare')
    BY <2>3, <2>4, <2>5, <2>6
  <2> QED
    BY <2>2, <2>7, <2>8, GrowStep
<1> QED
  BY <1>3, <1>4, <1>5, <1>6, <1>7, <1>8, <1>9, <1>10, <1>11, <1>12, <1>13 DEF WriterThread

\* Each step keeps what the drain answers for where the drain can count on it.
LEMMA DrainStep ==
    ASSUME ~SlowDrain
    PROVE  TypeInv /\ TypeInv' /\ IInv /\ FinalCovered /\ DrainInv /\ [Next]_vars => DrainInv'
<1> SUFFICES ASSUME TypeInv, TypeInv', IInv, FinalCovered, DrainInv, [Next]_vars
             PROVE  DrainInv'
  OBVIOUS
<1>1. CASE StorageRecovers \/ UNCHANGED vars
  <2>1. UNCHANGED <<removed, written, drain_floor, drain, drains, ordered, current,
                    pending_final, wpc>>
    BY <1>1 DEF StorageRecovers, vars, ledger, queue, writer, drainer
  <2>2. UNCHANGED <<Spare, OwnBarrier>>
    BY <2>1 DEF Spare, OwnBarrier
  <2> QED
    BY <2>1, <2>2 DEF DrainInv, BarrierNumbers, FloorKept, Before
<1> QED
  BY <1>1, HostDrainStep, DrainerStep, WriterDrainStep DEF Next

\* drain returns Ok only when every final accepted before it began is on disk,
\* for any number of sessions, drains, failures and retries, provided that the
\* draining thread is never held up for a whole RETRY_INTERVAL.
THEOREM DrainOkMeansDurable ==
    ASSUME ~SlowDrain
    PROVE  Spec => []DrainOkIsDurable
<1>1. Init => DrainInv
  BY DEF Init, DrainInv, BarrierNumbers, Elems
<1>2. TypeInv /\ TypeInv' /\ IInv /\ FinalCovered /\ DrainInv /\ [Next]_vars => DrainInv'
  BY DrainStep
<1>3. DrainInv => DrainOkIsDurable
  BY DEF DrainInv, DrainOkIsDurable, FloorKept, Kept, KeptBy, FinalIn
<1> QED
  BY <1>1, <1>2, <1>3, IInvCorrect, FinalsCovered, PTL DEF Spec
-----------------------------------------------------------------------------
(***************************************************************************)
(* The byte counter                                                        *)
(***************************************************************************)

\* What a job weighs is a natural number; only manifests weigh anything.
LEMMA JobWeighs ==
    ASSUME NEW j \in Job
    PROVE  /\ JobBytes(j) \in Nat
           /\ j \in Record => JobBytes(j) = j.size
           /\ j.kind # "manifest" => JobBytes(j) = 0
BY DEF JobBytes, Job, Record, Removal, Exclusive, Barrier

\* The weights of the jobs of a queue.
Weights(q) == [i \in DOMAIN q |-> JobBytes(q[i])]

\* The size of a queue is the sum of its weights.
LEMMA QueueSum ==
    ASSUME NEW q \in Seq(Job)
    PROVE  /\ Len(q) \in Nat /\ DOMAIN q = 1..Len(q)
           /\ QueueBytes(q) = SumTo(Weights(q), Len(q))
           /\ Counts(Weights(q), Len(q))
           /\ QueueBytes(q) \in Nat
<1>1. Len(q) \in Nat /\ DOMAIN q = 1..Len(q)
  OBVIOUS
<1>2. QueueBytes(q) = SumTo(Weights(q), Len(q))
  BY <1>1 DEF QueueBytes, SumFunction, SumTo, Weights
<1>3. \A i \in 1..Len(q) : q[i] \in Job /\ Weights(q)[i] = JobBytes(q[i])
  BY <1>1 DEF Weights
<1>4. Counts(Weights(q), Len(q))
  BY <1>3, JobWeighs DEF Counts
<1> QED
  BY <1>1, <1>2, <1>4, SumToNat

\* An empty queue has no bytes.
LEMMA EmptyQueueBytes == QueueBytes(<<>>) = 0
<1>1. <<>> \in Seq(Job) /\ Len(<<>>) = 0
  OBVIOUS
<1> QED
  BY <1>1, QueueSum, SumToZero

\* Appending a job adds its weight.
LEMMA AppendBytes ==
    ASSUME NEW q \in Seq(Job), NEW j \in Job
    PROVE  QueueBytes(Append(q, j)) = QueueBytes(q) + JobBytes(j)
<1>1. PICK n \in Nat : n = Len(q) /\ DOMAIN q = 1..n
  OBVIOUS
<1>0. Append(q, j) \in Seq(Job) /\ Len(Append(q, j)) = n + 1
  BY <1>1
<1>2. PICK p \in Seq(Job) : p = Append(q, j) /\ Len(p) = n + 1
  BY <1>0, Zenon
<1>3. p[n + 1] = j /\ \A i \in 1..n : p[i] = q[i]
  BY <1>1, <1>2
<1>4. DOMAIN p = 1..(n + 1)
  BY <1>2
<1>5. Weights(p)[n + 1] = JobBytes(j)
  BY <1>1, <1>3, <1>4 DEF Weights
<1>6. \A i \in 1..n : Weights(p)[i] = Weights(q)[i]
  BY <1>1, <1>3, <1>4 DEF Weights
<1>7. SumTo(Weights(p), n) = SumTo(Weights(q), n)
  BY <1>6, SumToSame
<1>8. QueueBytes(p) = SumTo(Weights(p), n) + Weights(p)[n + 1]
  BY <1>2, QueueSum, SumToNext
<1>9. QueueBytes(q) = SumTo(Weights(q), n)
  BY <1>1, QueueSum
<1> QED
  BY <1>2, <1>5, <1>7, <1>8, <1>9

\* The first job of a queue and the rest of it share its bytes.
LEMMA TailBytes ==
    ASSUME NEW q \in Seq(Job), q # <<>>
    PROVE  /\ Head(q) \in Job /\ Tail(q) \in Seq(Job)
           /\ QueueBytes(q) = JobBytes(Head(q)) + QueueBytes(Tail(q))
<1>1. PICK n \in Nat : Len(q) = n + 1
  OBVIOUS
<1>0. Tail(q) \in Seq(Job) /\ Len(Tail(q)) = n
  BY <1>1
<1>2. PICK p \in Seq(Job) : p = Tail(q) /\ Len(p) = n
  BY <1>0, Zenon
<1>3. DOMAIN q = 1..(n + 1) /\ DOMAIN p = 1..n
  BY <1>1, <1>2
<1>4. \A i \in 1..n : p[i] = q[1 + i]
  BY <1>1, <1>2
<1>5. Continues(Weights(q), 1, Weights(p), n)
  BY <1>3, <1>4 DEF Continues, Weights
<1>6. Weights(q)[1] = JobBytes(Head(q)) /\ Head(q) \in Job
  BY <1>1, <1>3 DEF Weights
<1>7. QueueBytes(q) = Weights(q)[1] + SumTo(Weights(p), n)
  BY <1>1, <1>5, QueueSum, SumToRest
<1> QED
  BY <1>2, <1>6, <1>7, QueueSum

\* A listing of records that is put behind a queue adds the sizes of its records.
LEMMA ConcatBytes ==
    ASSUME NEW q \in Seq(Job), NEW r \in Seq(Record)
    PROVE  QueueBytes(q \o r) = QueueBytes(q) + BytesOf(r)
<1>1. r \in Seq(Job)
  BY DEF Job
<1>2. PICK m \in Nat, n \in Nat : m = Len(q) /\ n = Len(r)
  OBVIOUS
<1>0. q \o r \in Seq(Job) /\ Len(q \o r) = m + n
  BY <1>1, <1>2
<1>3. PICK p \in Seq(Job) : p = q \o r /\ Len(p) = m + n
  BY <1>0, Zenon
<1>4. DOMAIN p = 1..(m + n) /\ DOMAIN q = 1..m /\ DOMAIN r = 1..n
  BY <1>2, <1>3
<1>5. (\A i \in 1..m : p[i] = q[i]) /\ \A i \in 1..n : p[m + i] = r[i]
  BY <1>2, <1>3
<1>6. \A i \in 1..m : Weights(p)[i] = Weights(q)[i]
  BY <1>4, <1>5 DEF Weights
<1>7. \A i \in 1..n : m + i \in 1..(m + n)
  OBVIOUS
<1>8. Continues(Weights(p), m, Weights(r), n)
  BY <1>4, <1>5, <1>7 DEF Continues, Weights
<1>9. QueueBytes(p) = SumTo(Weights(p), m) + SumTo(Weights(r), n)
  <2>1. QueueBytes(p) = SumTo(Weights(p), m + n) /\ Counts(Weights(p), m + n)
    BY <1>3, QueueSum
  <2> QED
    BY <1>8, <2>1, SumToJoin
<1>10. SumTo(Weights(p), m) = QueueBytes(q)
  BY <1>2, <1>6, QueueSum, SumToSame
<1>11. SumTo(Weights(r), n) = BytesOf(r)
  <2> DEFINE z == [i \in DOMAIN r |-> r[i].size]
  <2>1. BytesOf(r) = SumTo(z, n)
    BY <1>4 DEF BytesOf, SumFunction, SumTo
  <2>2. \A i \in 1..n : r[i] \in Record /\ r[i] \in Job
    BY <1>1, <1>4
  <2>3. \A i \in 1..n : Weights(r)[i] = z[i]
    BY <1>4, <2>2, JobWeighs DEF Weights
  <2> HIDE DEF z
  <2> QED
    BY <2>1, <2>3, SumToSame
<1> QED
  BY <1>3, <1>9, <1>10, <1>11

\* The weights of a set of jobs.
SetWeights(S) == [j \in S |-> JobBytes(j)]

\* The bytes of a finite set of jobs are a natural number, none for no jobs.
LEMMA HeldNat ==
    ASSUME NEW S \in SUBSET Job, IsFiniteSet(S)
    PROVE  HeldBytes(S) \in Nat /\ (S = {} => HeldBytes(S) = 0)
<1>1. HeldBytes(S) = SumFunctionOnSet(SetWeights(S), S)
  BY DEF HeldBytes, SumFunction, SetWeights
<1>2. \A j \in S : SetWeights(S)[j] \in Nat
  BY JobWeighs DEF SetWeights
<1> QED
  BY <1>1, <1>2, SumNat, SumEmpty

\* Taking a job out of a set takes its weight out of the bytes.
LEMMA HeldSplit ==
    ASSUME NEW S \in SUBSET Job, IsFiniteSet(S), NEW j \in S
    PROVE  /\ HeldBytes(S) = JobBytes(j) + HeldBytes(S \ {j})
           /\ IsFiniteSet(S \ {j}) /\ HeldBytes(S \ {j}) \in Nat
<1>1. PICK R \in SUBSET Job : R = S \ {j} /\ R \subseteq S /\ IsFiniteSet(R)
  BY FS_Subset
<1>2. HeldBytes(S) = SumFunctionOnSet(SetWeights(S), S)
  BY DEF HeldBytes, SumFunction, SetWeights
<1>3. HeldBytes(R) = SumFunctionOnSet(SetWeights(R), R)
  BY DEF HeldBytes, SumFunction, SetWeights
<1>4. \A i \in S : SetWeights(S)[i] \in Nat
  BY JobWeighs DEF SetWeights
<1>5. SumFunctionOnSet(SetWeights(S), S) = SetWeights(S)[j] + SumFunctionOnSet(SetWeights(S), R)
  BY <1>1, <1>4, SumSplit
<1>6. \A i \in R : SetWeights(S)[i] = SetWeights(R)[i]
  BY <1>1 DEF SetWeights
<1>7. SumFunctionOnSet(SetWeights(S), R) = SumFunctionOnSet(SetWeights(R), R)
  BY <1>1, <1>6, SumSame
<1>8. SetWeights(S)[j] = JobBytes(j)
  BY DEF SetWeights
<1>9. HeldBytes(R) \in Nat
  BY <1>1, HeldNat
<1> QED
  BY <1>1, <1>2, <1>3, <1>5, <1>7, <1>8, <1>9

\* Adding a job to a set adds its weight.
LEMMA HeldAdd ==
    ASSUME NEW S \in SUBSET Job, IsFiniteSet(S), NEW j \in Job, j \notin S
    PROVE  HeldBytes(S \cup {j}) = JobBytes(j) + HeldBytes(S) /\ IsFiniteSet(S \cup {j})
<1>0. S \cup {j} \in SUBSET Job /\ (S \cup {j}) \ {j} = S
  OBVIOUS
<1>1. PICK R \in SUBSET Job : R = S \cup {j} /\ j \in R /\ R \ {j} = S
  BY <1>0, Zenon
<1>2. IsFiniteSet(R)
  BY <1>1, FS_AddElement
<1>3. HeldBytes(R) = JobBytes(j) + HeldBytes(R \ {j})
  BY <1>1, <1>2, HeldSplit
<1> QED
  BY <1>1, <1>2, <1>3

\* One job has its own weight.
LEMMA HeldOne ==
    ASSUME NEW j \in Job
    PROVE  HeldBytes({j}) = JobBytes(j)
<1>1. {j} \in SUBSET Job /\ IsFiniteSet({j}) /\ j \in {j} /\ {j} \ {j} = {}
  BY FS_Singleton
<1>2. {} \in SUBSET Job /\ IsFiniteSet({})
  BY FS_EmptySet
<1> QED
  BY <1>1, <1>2, HeldSplit, HeldNat, JobWeighs

\* The counter is exact; a sum is defined over the queued metadata because it is
\* finite.
BytesInv == IsFiniteSet(metadata) /\ QueuedBytesExact

\* The three sums that the counter is made of.
LEMMA BytesTyped ==
    ASSUME TypeInv, IInv, BytesInv
    PROVE  /\ QueueBytes(ordered) \in Nat /\ HeldBytes(metadata) \in Nat
           /\ HeldBytes(current) \in Nat
           /\ ordered \in Seq(Job) /\ metadata \in SUBSET Job /\ metadata \in SUBSET Record
           /\ current \in SUBSET Job /\ IsFiniteSet(current)
           /\ queued_bytes \in Nat
<1>1. /\ ordered \in Seq(Job) /\ metadata \in SUBSET Job /\ metadata \in SUBSET Record
      /\ current \in SUBSET Job
  BY DEF TypeInv, TypeOK, Job
<1>2. IsFiniteSet(current)
  <2>1. CASE current = {}
    BY <2>1, FS_EmptySet
  <2>2. CASE current # {}
    <3>1. PICK j : current = {j}
      BY <2>2 DEF IInv, Shape
    <3> QED
      BY <3>1, FS_Singleton
  <2> QED
    BY <2>1, <2>2
<1>3. IsFiniteSet(metadata)
  BY DEF BytesInv
<1>4. QueueBytes(ordered) \in Nat
  BY <1>1, QueueSum
<1>5. HeldBytes(metadata) \in Nat /\ HeldBytes(current) \in Nat
  BY <1>1, <1>2, <1>3, HeldNat
<1>6. queued_bytes \in Nat
  BY <1>4, <1>5 DEF BytesInv, QueuedBytesExact
<1> QED
  BY <1>1, <1>2, <1>4, <1>5, <1>6

\* A step that leaves the counter and what it counts alone.
LEMMA BytesSame ==
    ASSUME BytesInv, UNCHANGED <<ordered, metadata, current, queued_bytes>>
    PROVE  BytesInv'
BY DEF BytesInv, QueuedBytesExact

\* A job of some weight joins the ordered queue.
LEMMA BytesAppended ==
    ASSUME TypeInv, IInv, BytesInv, NEW j \in Job,
           ordered' = Append(ordered, j), queued_bytes' = queued_bytes + JobBytes(j),
           UNCHANGED <<metadata, current>>
    PROVE  BytesInv'
<1>1. QueueBytes(ordered') = QueueBytes(ordered) + JobBytes(j)
  BY BytesTyped, AppendBytes
<1>2. JobBytes(j) \in Nat
  BY JobWeighs
<1> QED
  BY <1>1, <1>2, BytesTyped DEF BytesInv, QueuedBytesExact

\* The retained finals go back to the ordered queue.
LEMMA BytesRequeued ==
    ASSUME TypeInv, IInv, BytesInv, Requeue, UNCHANGED <<metadata, current>>
    PROVE  BytesInv'
<1>1. PICK q \in Listings(pending_final) :
          ordered' = ordered \o q /\ queued_bytes' = queued_bytes + BytesOf(q)
  BY DEF Requeue
<1>2. q \in Seq(Record)
  <2>1. q \in Seq(pending_final) /\ pending_final \subseteq Record
    BY ListingElems DEF TypeInv, TypeOK
  <2> QED
    BY <2>1
<1>3. QueueBytes(ordered') = QueueBytes(ordered) + BytesOf(q)
  BY <1>1, <1>2, BytesTyped, ConcatBytes
<1>4. BytesOf(q) \in Nat
  <2>1. DOMAIN q = 1..Len(q) /\ Len(q) \in Nat /\ \A i \in 1..Len(q) : q[i] \in Record
    BY <1>2
  <2>2. \A r \in Record : r.size \in Nat
    BY DEF Record
  <2>3. \A i \in DOMAIN q : q[i].size \in Nat
    BY <2>1, <2>2
  <2> DEFINE z == [i \in DOMAIN q |-> q[i].size]
  <2>4. Counts(z, Len(q))
    BY <2>1, <2>3 DEF Counts
  <2>5. BytesOf(q) = SumTo(z, Len(q))
    BY <2>1 DEF BytesOf, SumFunction, SumTo
  <2> HIDE DEF z
  <2> QED
    BY <2>1, <2>4, <2>5, SumToNat
<1> QED
  BY <1>1, <1>3, <1>4, BytesTyped DEF BytesInv, QueuedBytesExact

\* Metadata of one session is taken back: its record leaves the map, if there is one.
LEMMA SessionTaken ==
    ASSUME TypeInv, IInv, BytesInv, NEW s \in Sessions, NEW p \in OfSession(metadata, s)
    PROVE  /\ OfSession(metadata, s) = {p} /\ p \in metadata /\ p \in Job /\ p.session = s
           /\ JobBytes(p) = p.size /\ p.size \in Nat
           /\ IsFiniteSet(metadata \ {p})
           /\ HeldBytes(metadata) = p.size + HeldBytes(metadata \ {p})
           /\ HeldBytes(metadata \ {p}) \in Nat
           /\ Monus(queued_bytes, p.size) = queued_bytes - p.size
<1>1. p \in metadata /\ p.session = s
  BY DEF OfSession
<1>2. OfSession(metadata, s) = {p}
  BY <1>1 DEF OfSession, IInv, Shape
<1>3. p \in Job /\ p \in Record /\ p.size \in Nat
  BY <1>1, BytesTyped DEF Record
<1>4. JobBytes(p) = p.size
  BY <1>3, JobWeighs
<1>5. /\ HeldBytes(metadata) = p.size + HeldBytes(metadata \ {p})
      /\ IsFiniteSet(metadata \ {p}) /\ HeldBytes(metadata \ {p}) \in Nat
  BY <1>1, <1>4, BytesTyped, HeldSplit DEF BytesInv
<1>6. queued_bytes >= p.size
  BY <1>3, <1>5, BytesTyped DEF BytesInv, QueuedBytesExact
<1>7. Monus(queued_bytes, p.size) = queued_bytes - p.size
  BY <1>3, <1>6, BytesTyped DEF Monus
<1> QED
  BY <1>1, <1>2, <1>3, <1>4, <1>5, <1>7

\* A part w of a sum is taken out, or exchanged for another.
LEMMA Exchange ==
    ASSUME NEW a \in Nat, NEW b \in Nat, NEW c \in Nat, NEW w \in Nat, NEW n,
           n = a + (w + b) + c
    PROVE  n - w = a + b + c /\ \A z \in Nat : n - w + z = a + (z + b) + c
OBVIOUS

\* Each step keeps the counter exact: it moves by what enters and leaves.
LEMMA BytesStep == TypeInv /\ TypeInv' /\ IInv /\ IInv' /\ BytesInv /\ [Next]_vars => BytesInv'
<1> SUFFICES ASSUME TypeInv, TypeInv', IInv, IInv', BytesInv, [Next]_vars
             PROVE  BytesInv'
  OBVIOUS
<1>1. CASE \/ \E s \in Sessions, c \in Classes, z \in Sizes : NextRevision(s, c, z)
           \/ \E s \in Sessions : EncodeFails(s) \/ ReserveFinal(s) \/ MarkRemoved(s)
           \/ Stop \/ StorageRecovers \/ UNCHANGED vars
  <2>1. UNCHANGED <<ordered, metadata, current, queued_bytes>>
    BY <1>1 DEF NextRevision, EncodeFails, ReserveFinal, MarkRemoved, Stop, StorageRecovers,
                vars, queue, writer
  <2> QED
    BY <2>1, BytesSame
<1>2. CASE DrainTimeout \/ DrainReport
  BY <1>2, BytesSame DEF DrainTimeout, DrainReport, queue, writer
<1>3. CASE WriterExit \/ RetrySleep \/ RetryWake
  BY <1>3, BytesSame DEF WriterExit, RetrySleep, RetryWake, queue
<1>4. CASE \/ SkipRevision \/ BeginWrite \/ WriteSucceeds \/ WriteFails
           \/ ExecuteRemove \/ ExecuteExclusive \/ ExecuteBarrier
  <2>1. UNCHANGED <<ordered, metadata, current, queued_bytes>>
    BY <1>4 DEF SkipRevision, BeginWrite, WriteSucceeds, WriteFails, ExecuteRemove,
                ExecuteExclusive, ExecuteBarrier, queue
  <2> QED
    BY <2>1, BytesSame
<1>5. ASSUME NEW r \in transit, SubmitCritical(r) \/ SubmitFinal(r)
      PROVE  BytesInv'
  <2>1. r \in Record /\ r \in Job /\ JobBytes(r) = r.size
    BY JobWeighs DEF TypeInv, TypeOK, Job
  <2>2. UNCHANGED <<metadata, current>>
    BY <1>5 DEF SubmitCritical, SubmitFinal, writer
  <2>3. CASE ordered' = Append(ordered, r) /\ queued_bytes' = queued_bytes + r.size
    BY <2>1, <2>2, <2>3, BytesAppended
  <2>4. CASE UNCHANGED <<ordered, queued_bytes>>
    BY <2>2, <2>4, BytesSame
  <2> QED
    BY <1>5, <2>3, <2>4 DEF SubmitCritical, SubmitFinal
<1>6. CASE SpawnExclusive \/ DrainBarrier
  <2>1. PICK j \in Job : j.kind # "manifest" /\ ordered' = Append(ordered, j)
    <3>1. [kind |-> "exclusive"] \in Job
      BY DEF Job, Exclusive
    <3>2. [kind |-> "barrier", drain |-> drains] \in Job
      BY DEF Job, Barrier, TypeInv, TypeOK
    <3> QED
      BY <1>6, <3>1, <3>2 DEF SpawnExclusive, DrainBarrier
  <2>2. UNCHANGED <<metadata, current, queued_bytes>>
    BY <1>6 DEF SpawnExclusive, DrainBarrier, writer
  <2>3. JobBytes(j) = 0
    BY <2>1, JobWeighs
  <2>4. queued_bytes' = queued_bytes + JobBytes(j)
    BY <2>2, <2>3, BytesTyped
  <2> QED
    BY <2>1, <2>2, <2>4, BytesAppended
<1>7. CASE DrainBegin \/ RetryTimeout
  BY <1>7, BytesRequeued DEF DrainBegin, RetryTimeout, writer
<1>8. ASSUME NEW r \in transit, SubmitMetadata(r)
      PROVE  BytesInv'
  <2>1. r \in Record /\ r \in Job /\ r.session \in Sessions /\ r.size \in Nat /\ JobBytes(r) = r.size
    BY JobWeighs DEF TypeInv, TypeOK, Job, Record
  <2>2. UNCHANGED <<ordered, current>>
    BY <1>8 DEF SubmitMetadata, writer
  <2>3. ASSUME NEW p \in OfSession(metadata, r.session),
               queued_bytes' = Monus(queued_bytes, p.size) + r.size, metadata' = Put(metadata, r)
        PROVE  BytesInv'
    <3>1. PICK R \in SUBSET Job : R = metadata \ {p}
      BY BytesTyped
    <3>2. metadata' = R \cup {r} /\ r \notin R
      BY <2>1, <2>3, <3>1, SessionTaken DEF Put, OfSession
    <3>3. /\ IsFiniteSet(R) /\ HeldBytes(R) \in Nat /\ HeldBytes(metadata) = p.size + HeldBytes(R)
          /\ queued_bytes' = queued_bytes - p.size + r.size /\ p.size \in Nat
      BY <2>1, <2>3, <3>1, SessionTaken
    <3>4. HeldBytes(metadata') = r.size + HeldBytes(R) /\ IsFiniteSet(metadata')
      BY <2>1, <3>2, <3>3, HeldAdd
    <3>5. PICK w \in Nat, z \in Nat : w = p.size /\ z = r.size
      BY <2>1, <3>3
    <3>6. queued_bytes = QueueBytes(ordered) + (w + HeldBytes(R)) + HeldBytes(current)
      BY <3>3, <3>5 DEF BytesInv, QueuedBytesExact
    <3>7. queued_bytes' = QueueBytes(ordered) + (z + HeldBytes(R)) + HeldBytes(current)
      <4>1. queued_bytes' = queued_bytes - w + z
        BY <3>3, <3>5
      <4> QED
        BY <3>3, <3>6, <4>1, BytesTyped, Exchange
    <3> QED
      BY <2>2, <3>4, <3>5, <3>7 DEF BytesInv, QueuedBytesExact
  <2>4. CASE /\ OfSession(metadata, r.session) = {} /\ metadata' = Put(metadata, r)
             /\ queued_bytes' = queued_bytes + r.size
    <3>1. metadata' = metadata \cup {r} /\ r \notin metadata
      BY <2>4 DEF Put, OfSession
    <3>2. HeldBytes(metadata') = r.size + HeldBytes(metadata) /\ IsFiniteSet(metadata')
      BY <2>1, <3>1, BytesTyped, HeldAdd DEF BytesInv
    <3> QED
      BY <2>1, <2>2, <2>4, <3>2, BytesTyped DEF BytesInv, QueuedBytesExact
  <2>5. CASE UNCHANGED <<metadata, queued_bytes>>
    BY <2>2, <2>5, BytesSame
  <2> QED
    BY <1>8, <2>3, <2>4, <2>5 DEF SubmitMetadata
<1>9. ASSUME NEW s \in Sessions, EnqueueRemove(s)
      PROVE  BytesInv'
  <2>1. PICK j \in Job : j.kind # "manifest" /\ ordered' = Append(ordered, j)
    <3>1. [kind |-> "remove", session |-> s] \in Job
      BY DEF Job, Removal
    <3> QED
      BY <1>9, <3>1 DEF EnqueueRemove
  <2>2. QueueBytes(ordered') = QueueBytes(ordered)
    <3>1. JobBytes(j) = 0
      BY <2>1, JobWeighs
    <3> QED
      BY <2>1, <3>1, BytesTyped, AppendBytes
  <2>3. UNCHANGED current
    BY <1>9 DEF EnqueueRemove, writer
  <2>4. CASE OfSession(metadata, s) = {}
    <3>1. UNCHANGED <<metadata, queued_bytes>>
      BY <1>9, <2>4 DEF EnqueueRemove
    <3> QED
      BY <2>2, <2>3, <3>1 DEF BytesInv, QueuedBytesExact
  <2>5. CASE OfSession(metadata, s) # {}
    <3>1. PICK p \in OfSession(metadata, s) : queued_bytes' = Monus(queued_bytes, p.size)
      BY <1>9, <2>5 DEF EnqueueRemove
    <3>2. metadata' = metadata \ OfSession(metadata, s)
      BY <1>9 DEF EnqueueRemove
    <3>3. metadata' = metadata \ {p}
      BY <3>1, <3>2, SessionTaken
    <3>4. /\ IsFiniteSet(metadata') /\ HeldBytes(metadata') \in Nat
          /\ HeldBytes(metadata) = p.size + HeldBytes(metadata')
          /\ queued_bytes' = queued_bytes - p.size /\ p.size \in Nat
      BY <3>1, <3>3, SessionTaken
    <3>5. PICK w \in Nat : w = p.size
      BY <3>4
    <3>6. queued_bytes = QueueBytes(ordered) + (w + HeldBytes(metadata')) + HeldBytes(current)
      BY <3>4, <3>5 DEF BytesInv, QueuedBytesExact
    <3>7. queued_bytes' = QueueBytes(ordered) + HeldBytes(metadata') + HeldBytes(current)
      <4>1. queued_bytes' = queued_bytes - w
        BY <3>4, <3>5
      <4> QED
        BY <3>4, <3>6, <4>1, BytesTyped, Exchange
    <3> QED
      BY <2>2, <2>3, <3>4, <3>7 DEF BytesInv, QueuedBytesExact
  <2> QED
    BY <2>4, <2>5
<1>10. CASE TakeMetadata
  <2>1. PICK s \in Sessions : /\ OfSession(metadata, s) # {}
                              /\ current' = OfSession(metadata, s)
                              /\ metadata' = metadata \ OfSession(metadata, s)
    <3>1. \A i \in DOMAIN metadata_order : metadata_order[i] \in Sessions
      BY DEF TypeInv, TypeOK
    <3> QED
      BY <1>10, <3>1 DEF TakeMetadata, Serves
  <2>2. PICK p \in OfSession(metadata, s) : TRUE
    BY <2>1
  <2>3. current' = {p} /\ metadata' = metadata \ {p}
    BY <2>1, SessionTaken
  <2>4. /\ IsFiniteSet(metadata') /\ HeldBytes(metadata') \in Nat /\ p \in Job
        /\ HeldBytes(metadata) = JobBytes(p) + HeldBytes(metadata')
    BY <2>3, SessionTaken
  <2>5. HeldBytes(current') = JobBytes(p) /\ JobBytes(p) \in Nat
    BY <2>3, <2>4, HeldOne, JobWeighs
  <2>6. HeldBytes(current) = 0
    <3>1. current = {}
      BY <1>10 DEF TakeMetadata, IInv, Shape
    <3> QED
      BY <3>1, BytesTyped, HeldNat
  <2>7. UNCHANGED <<ordered, queued_bytes>>
    BY <1>10 DEF TakeMetadata
  <2> QED
    BY <2>4, <2>5, <2>6, <2>7, BytesTyped DEF BytesInv, QueuedBytesExact
<1>11. CASE TakeOrdered
  <2>1. /\ ordered # <<>> /\ current' = {Head(ordered)} /\ ordered' = Tail(ordered)
        /\ UNCHANGED <<metadata, queued_bytes>>
    BY <1>11 DEF TakeOrdered
  <2>2. /\ Head(ordered) \in Job
        /\ QueueBytes(ordered) = JobBytes(Head(ordered)) + QueueBytes(Tail(ordered))
        /\ Tail(ordered) \in Seq(Job)
    BY <2>1, BytesTyped, TailBytes
  <2>3. PICK j \in Job : j = Head(ordered)
    BY <2>2
  <2>4. HeldBytes(current') = JobBytes(j) /\ JobBytes(j) \in Nat
    BY <2>1, <2>3, HeldOne, JobWeighs
  <2>5. HeldBytes(current) = 0
    <3>1. current = {}
      BY <1>11 DEF TakeOrdered, IInv, Shape
    <3> QED
      BY <3>1, BytesTyped, HeldNat
  <2>6. QueueBytes(ordered) = JobBytes(j) + QueueBytes(ordered') /\ QueueBytes(ordered') \in Nat
    BY <2>1, <2>2, <2>3, QueueSum
  <2> QED
    BY <2>1, <2>4, <2>5, <2>6, BytesTyped DEF BytesInv, QueuedBytesExact
<1>12. CASE Settle
  <2>1. PICK j \in current : queued_bytes' = Monus(queued_bytes, JobBytes(j))
    BY <1>12 DEF Settle
  <2>2. current = {j} /\ j \in Job
    BY <2>1, BytesTyped DEF IInv, Shape
  <2>3. HeldBytes(current) = JobBytes(j) /\ JobBytes(j) \in Nat
    BY <2>2, HeldOne, JobWeighs
  <2>4. HeldBytes(current') = 0
    <3>1. current' = {} /\ {} \in SUBSET Job /\ IsFiniteSet({})
      BY <1>12, FS_EmptySet DEF Settle
    <3> QED
      BY <3>1, HeldNat
  <2>5. UNCHANGED <<ordered, metadata>>
    BY <1>12 DEF Settle
  <2>6. queued_bytes' = queued_bytes - JobBytes(j)
    BY <2>1, <2>3, BytesTyped DEF Monus, BytesInv, QueuedBytesExact
  <2> QED
    BY <2>3, <2>4, <2>5, <2>6, BytesTyped DEF BytesInv, QueuedBytesExact
<1> QED
  BY <1>1, <1>2, <1>3, <1>4, <1>5, <1>6, <1>7, <1>8, <1>9, <1>10, <1>11, <1>12
  DEF Next, HostThread, DrainThread, WriterThread

\* The counter of queued bytes never drifts from the sizes of what the queue and
\* the writer hold, for any budget, sizes and sessions: no saturating_sub ever
\* hides a byte that was counted twice or not at all.
THEOREM BytesCounted == Spec => []QueuedBytesExact
<1>1. Init => BytesInv
  <2> SUFFICES ASSUME Init PROVE BytesInv
    OBVIOUS
  <2>1. {} \in SUBSET Job /\ IsFiniteSet({})
    BY FS_EmptySet
  <2>2. HeldBytes({}) = 0 /\ QueueBytes(<<>>) = 0
    BY <2>1, HeldNat, EmptyQueueBytes
  <2> QED
    BY <2>1, <2>2 DEF Init, BytesInv, QueuedBytesExact
<1>2. TypeInv /\ TypeInv' /\ IInv /\ IInv' /\ BytesInv /\ [Next]_vars => BytesInv'
  BY BytesStep
<1>3. BytesInv => QueuedBytesExact
  BY DEF BytesInv
<1> QED
  BY <1>1, <1>2, <1>3, IInvCorrect, PTL DEF Spec
=============================================================================
