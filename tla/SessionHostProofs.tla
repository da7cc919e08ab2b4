------------------------- MODULE SessionHostProofs -------------------------
(***************************************************************************)
(* Proofs about the session registry, for any sessions, generations,       *)
(* threads and bounds.                                                     *)
(***************************************************************************)
EXTENDS SessionHost, FiniteSetTheorems, TLAPS

(***************************************************************************)
(* What a session thread's cells say, and how a step may change them       *)
(***************************************************************************)

\* The runtime was launched, and neither its start failed nor its end is
\* confirmed: it may own a process.
Open(r) == r.pc # "none" /\ r.startup # "failed" /\ (~r.exit \/ r.descendants)

\* The end of the child and of its descendants is confirmed.
Settled(r) == r.exit /\ ~r.descendants

\* The cells of one session thread agree with each other and with its child.
RuntimeInv(r) ==
    /\ r.pc \in {"none", "starting"} =>
          /\ r.startup = "none" /\ r.proc = "none" /\ ~r.exit
          /\ r.notice = "none" /\ ~r.exit_published
    /\ r.pc = "announce" => r.startup = "none" /\ ~r.exit
    /\ r.startup = "failed" => r.pc = "ended" /\ r.proc = "none" /\ ~r.exit
                               /\ r.notice = "none"
    /\ r.exit => r.proc = "dead"
    /\ r.pc = "record_exit" => /\ r.proc = "dead" /\ ~r.exit
                               /\ (r.descendants \/ ~r.kids)
                               /\ r.descendants => r.unverified
    /\ Settled(r) => ~r.kids /\ r.exit_published
    /\ r.exit_published => Settled(r)
    /\ r.exit /\ r.descendants => r.unverified
    /\ r.notice = "exited" => r.exit_published
    /\ r.proc = "none" => ~r.kids

\* An exit that was published has its notice on the way to the record.
Announced(r) == r.exit_published => r.notice = "exited"

\* What every step but the launch itself does to the cells of a session thread.
Evolves(r, r2) ==
    /\ r2 \in RuntimeTypes
    /\ RuntimeInv(r2)
    /\ r2.pc = "none" <=> r.pc = "none"
    /\ r2.pc = "starting" => r.pc = "starting"
    /\ r.startup = "failed" => r2.startup = "failed"
    /\ Open(r2) => Open(r)
    /\ Settled(r) => Settled(r2)

\* The cells of one session thread after a step.
LEMMA RuntimeUpdate ==
    ASSUME NEW f \in [Sessions -> [Generations -> RuntimeTypes]],
           NEW s \in Sessions, NEW g \in Generations, NEW r2 \in RuntimeTypes
    PROVE  LET f2 == [f EXCEPT ![s][g] = r2] IN
           /\ f2 \in [Sessions -> [Generations -> RuntimeTypes]]
           /\ f2[s][g] = r2
           /\ \A t \in Sessions, h \in Generations : <<t, h>> # <<s, g>> => f2[t][h] = f[t][h]
OBVIOUS

\* A step on the cells of one session thread.
CellsStep(s, g) ==
    \E r2 \in RuntimeTypes :
        /\ rt' = [rt EXCEPT ![s][g] = r2]
        /\ RuntimeInv(rt[s][g]) => Evolves(rt[s][g], r2)
        /\ r2.replies \subseteq rt[s][g].replies
        /\ NoticeLifecycle(s, g) \/ (RuntimeInv(rt[s][g]) /\ Announced(rt[s][g]) => Announced(r2))

RuntimesTyped == rt \in [Sessions -> [Generations -> RuntimeTypes]]

\* Each step of a session thread, and of its child, changes its own cells only
\* and in the way Evolves allows.
LEMMA SessionCells ==
    ASSUME RuntimesTyped, NEW s \in Sessions, NEW g \in Generations,
           Child(s, g) \/ SessionThread(s, g)
    PROVE  CellsStep(s, g)
<1> DEFINE r == rt[s][g]
<1>0. r \in RuntimeTypes
  BY DEF RuntimesTyped
<1>a. ASSUME NEW r2 \in RuntimeTypes, rt' = [rt EXCEPT ![s][g] = r2],
             RuntimeInv(r) => Evolves(r, r2), r2.replies \subseteq r.replies,
             NoticeLifecycle(s, g) \/ (RuntimeInv(r) /\ Announced(r) => Announced(r2))
      PROVE  CellsStep(s, g)
  BY <1>a DEF CellsStep
<1> HIDE DEF r
<1>1. CASE Start(s, g)
  <2>1. CASE rt' = [rt EXCEPT ![s][g].pc = "ended", ![s][g].startup = "failed"]
    <3>1. PICK r2 : r2 = [r EXCEPT !.pc = "ended", !.startup = "failed"]
      OBVIOUS
    <3>2. rt' = [rt EXCEPT ![s][g] = r2]
      BY <2>1, <3>1 DEF RuntimesTyped, r
    <3>3. r2 \in RuntimeTypes
      BY <1>0, <3>1 DEF RuntimeTypes
    <3>4. r.pc = "starting"
      BY <1>1 DEF Start, r
    <3>5. (RuntimeInv(r) => Evolves(r, r2))
          /\ r2.replies \subseteq r.replies /\ (RuntimeInv(r) /\ Announced(r) => Announced(r2))
      BY <1>0, <3>1, <3>4 DEF RuntimeTypes, RuntimeInv, Evolves, Announced, Open, Settled
    <3> QED
      BY <1>a, <3>2, <3>3, <3>5
  <2>2. ASSUME NEW unwaited \in BOOLEAN, NEW unwired \in BOOLEAN,
               LET v == [rt[s][g] EXCEPT !.pc = "announce", !.proc = "alive",
                                         !.waiter_failed = unwaited]
                   troubled == unwaited \/ unwired \/ v.stop_requested
               IN rt' = [rt EXCEPT ![s][g] = IF troubled THEN MarkUnverified(v) ELSE v]
        PROVE  CellsStep(s, g)
    <3>1. PICK v : v = [r EXCEPT !.pc = "announce", !.proc = "alive", !.waiter_failed = unwaited]
      OBVIOUS
    <3>2. v \in RuntimeTypes
      BY <1>0, <3>1 DEF RuntimeTypes
    <3>3. PICK r2 : r2 = IF unwaited \/ unwired \/ v.stop_requested THEN MarkUnverified(v) ELSE v
      OBVIOUS
    <3>4. r2 \in RuntimeTypes
      BY <3>2, <3>3 DEF RuntimeTypes, MarkUnverified
    <3>5. rt' = [rt EXCEPT ![s][g] = r2]
      BY <2>2, <3>1, <3>3 DEF r
    <3>6. r.pc = "starting"
      BY <1>1 DEF Start, r
    <3>7. (RuntimeInv(r) => Evolves(r, v))
          /\ v.replies \subseteq r.replies /\ (RuntimeInv(r) /\ Announced(r) => Announced(v))
      BY <1>0, <3>1, <3>2, <3>6 DEF RuntimeTypes, RuntimeInv, Evolves, Announced, Open, Settled
    <3>a. PICK w : w = [r EXCEPT !.pc = "announce", !.proc = "alive", !.waiter_failed = unwaited,
                                 !.unverified = TRUE, !.notice = "unverified"]
      OBVIOUS
    <3>b. w = MarkUnverified(v) /\ w \in RuntimeTypes
      BY <1>0, <3>1, <3>a DEF RuntimeTypes, MarkUnverified
    <3>8. (RuntimeInv(r) => Evolves(r, w))
          /\ w.replies \subseteq r.replies /\ (RuntimeInv(r) /\ Announced(r) => Announced(w))
      BY <1>0, <3>a, <3>b, <3>6 DEF RuntimeTypes, RuntimeInv, Evolves, Announced, Open, Settled
    <3>9. r2 = v \/ r2 = MarkUnverified(v)
      BY <3>3
    <3>10. (RuntimeInv(r) => Evolves(r, r2))
          /\ r2.replies \subseteq r.replies /\ (RuntimeInv(r) /\ Announced(r) => Announced(r2))
      BY <3>7, <3>8, <3>9, <3>b
    <3> QED
      BY <1>a, <3>4, <3>5, <3>10
  <2>3. {FALSE, WaiterMayFail} \subseteq BOOLEAN
    BY ConstantsAssumption
  <2>4. ASSUME ~(rt' = [rt EXCEPT ![s][g].pc = "ended", ![s][g].startup = "failed"])
        PROVE  \E unwaited, unwired \in {FALSE, WaiterMayFail} :
               LET v == [rt[s][g] EXCEPT !.pc = "announce", !.proc = "alive",
                                         !.waiter_failed = unwaited]
                   troubled == unwaited \/ unwired \/ v.stop_requested
               IN rt' = [rt EXCEPT ![s][g] = IF troubled THEN MarkUnverified(v) ELSE v]
    BY <1>1, <2>4, Zenon DEF Start
  <2> QED
    BY <2>1, <2>2, <2>3, <2>4
<1>2. CASE Announce(s, g)
  <2>1. PICK r2 : r2 = [r EXCEPT !.pc = "serving", !.startup = "ok"]
    OBVIOUS
  <2>2. rt' = [rt EXCEPT ![s][g] = r2] /\ r.pc = "announce"
    BY <1>2, <2>1 DEF Announce, RuntimesTyped, r
  <2>3. r2 \in RuntimeTypes
    BY <1>0, <2>1 DEF RuntimeTypes
  <2>4. (RuntimeInv(r) => Evolves(r, r2))
        /\ r2.replies \subseteq r.replies /\ (RuntimeInv(r) /\ Announced(r) => Announced(r2))
    BY <1>0, <2>1, <2>2 DEF RuntimeTypes, RuntimeInv, Evolves, Announced, Open, Settled
  <2> QED
    BY <1>a, <2>2, <2>3, <2>4
<1>3. CASE ChildForks(s, g)
  <2>1. PICK r2 : r2 = [r EXCEPT !.kids = TRUE]
    OBVIOUS
  <2>2. rt' = [rt EXCEPT ![s][g] = r2] /\ r.proc = "alive"
    BY <1>3, <2>1 DEF ChildForks, RuntimesTyped, r
  <2>3. r2 \in RuntimeTypes
    BY <1>0, <2>1 DEF RuntimeTypes
  <2>4. (RuntimeInv(r) => Evolves(r, r2))
        /\ r2.replies \subseteq r.replies /\ (RuntimeInv(r) /\ Announced(r) => Announced(r2))
    BY <1>0, <2>1, <2>2 DEF RuntimeTypes, RuntimeInv, Evolves, Announced, Open, Settled
  <2> QED
    BY <1>a, <2>2, <2>3, <2>4
<1>4. CASE ChildEnds(s, g)
  <2>1. PICK r2 : r2 = [r EXCEPT !.proc = "dead"]
    OBVIOUS
  <2>2. rt' = [rt EXCEPT ![s][g] = r2] /\ r.proc = "alive"
    BY <1>4, <2>1 DEF ChildEnds, RuntimesTyped, r
  <2>3. r2 \in RuntimeTypes
    BY <1>0, <2>1 DEF RuntimeTypes
  <2>4. (RuntimeInv(r) => Evolves(r, r2))
        /\ r2.replies \subseteq r.replies /\ (RuntimeInv(r) /\ Announced(r) => Announced(r2))
    BY <1>0, <2>1, <2>2 DEF RuntimeTypes, RuntimeInv, Evolves, Announced, Open, Settled
  <2> QED
    BY <1>a, <2>2, <2>3, <2>4
<1>5. CASE DescendantsEnd(s, g)
  <2>1. PICK r2 : r2 = [r EXCEPT !.kids = FALSE]
    OBVIOUS
  <2>2. rt' = [rt EXCEPT ![s][g] = r2]
    BY <1>5, <2>1 DEF DescendantsEnd, RuntimesTyped, r
  <2>3. r2 \in RuntimeTypes
    BY <1>0, <2>1 DEF RuntimeTypes
  <2>4. (RuntimeInv(r) => Evolves(r, r2))
        /\ r2.replies \subseteq r.replies /\ (RuntimeInv(r) /\ Announced(r) => Announced(r2))
    BY <1>0, <2>1, <2>2, ZenonT(40) DEF RuntimeTypes, RuntimeInv, Evolves, Announced, Open, Settled
  <2> QED
    BY <1>a, <2>2, <2>3, <2>4
<1>6. CASE ChildExited(s, g)
  <2>1. PICK v : v = [r EXCEPT !.pc = "record_exit", !.descendants = r.kids, !.unverified = FALSE]
    OBVIOUS
  <2>2. v \in RuntimeTypes
    BY <1>0, <2>1 DEF RuntimeTypes
  <2>3. PICK r2 : r2 = IF r.kids THEN MarkUnverified(v) ELSE v
    OBVIOUS
  <2>4. /\ rt' = [rt EXCEPT ![s][g] = r2]
        /\ r.pc = "serving" /\ r.notice = "none" /\ r.proc = "dead" /\ ~r.exit
    BY <1>6, <2>1, <2>3 DEF ChildExited, Serving, r
  <2>5. r2 \in RuntimeTypes
    BY <2>2, <2>3 DEF RuntimeTypes, MarkUnverified
  <2>6. (RuntimeInv(r) /\ ~r.kids => Evolves(r, v))
        /\ v.replies \subseteq r.replies /\ (RuntimeInv(r) /\ Announced(r) => Announced(v))
    BY <1>0, <2>1, <2>2, <2>4 DEF RuntimeTypes, RuntimeInv, Evolves, Announced, Open, Settled
  <2>a. PICK w : w = [r EXCEPT !.pc = "record_exit", !.descendants = r.kids,
                               !.unverified = TRUE, !.notice = "unverified"]
    OBVIOUS
  <2>b. w = MarkUnverified(v) /\ w \in RuntimeTypes
    BY <1>0, <2>1, <2>a DEF RuntimeTypes, MarkUnverified
  <2>7. (RuntimeInv(r) /\ r.kids => Evolves(r, w))
        /\ w.replies \subseteq r.replies /\ (RuntimeInv(r) /\ Announced(r) => Announced(w))
    BY <1>0, <2>a, <2>b, <2>4 DEF RuntimeTypes, RuntimeInv, Evolves, Announced, Open, Settled
  <2>8. (RuntimeInv(r) => Evolves(r, r2))
        /\ r2.replies \subseteq r.replies /\ (RuntimeInv(r) /\ Announced(r) => Announced(r2))
    BY <2>3, <2>6, <2>7, <2>b
  <2> QED
    BY <1>a, <2>4, <2>5, <2>8
<1>7. CASE RecordExit(s, g)
  <2>1. PICK v : v = [r EXCEPT !.pc = "serving", !.exit = TRUE]
    OBVIOUS
  <2>2. v \in RuntimeTypes
    BY <1>0, <2>1 DEF RuntimeTypes
  <2>3. PICK r2 : r2 = IF v.descendants THEN v ELSE ExitPublished(v)
    OBVIOUS
  <2>4. /\ rt' = [rt EXCEPT ![s][g] = r2]
        /\ r.pc = "record_exit" /\ r.notice = "none"
    BY <1>7, <2>1, <2>3 DEF RecordExit, r
  <2>5. r2 \in RuntimeTypes
    BY <2>2, <2>3 DEF RuntimeTypes, ExitPublished
  <2>6. (RuntimeInv(r) /\ v.descendants => Evolves(r, v))
        /\ v.replies \subseteq r.replies /\ (RuntimeInv(r) /\ Announced(r) => Announced(v))
    BY <1>0, <2>1, <2>2, <2>4 DEF RuntimeTypes, RuntimeInv, Evolves, Announced, Open, Settled
  <2>a. PICK w : w = [r EXCEPT !.pc = "serving", !.exit = TRUE, !.descendants = FALSE,
                               !.unverified = FALSE, !.exit_published = TRUE, !.notice = "exited"]
    OBVIOUS
  <2>b. w = ExitPublished(v) /\ w \in RuntimeTypes
    BY <1>0, <2>1, <2>a DEF RuntimeTypes, ExitPublished
  <2>c. v.descendants = r.descendants
    BY <1>0, <2>1 DEF RuntimeTypes
  <2>7. (RuntimeInv(r) /\ ~v.descendants => Evolves(r, w))
        /\ w.replies \subseteq r.replies /\ (RuntimeInv(r) /\ Announced(r) => Announced(w))
    BY <1>0, <2>a, <2>b, <2>c, <2>4 DEF RuntimeTypes, RuntimeInv, Evolves, Announced, Open, Settled
  <2>8. (RuntimeInv(r) => Evolves(r, r2))
        /\ r2.replies \subseteq r.replies /\ (RuntimeInv(r) /\ Announced(r) => Announced(r2))
    BY <2>3, <2>6, <2>7, <2>b
  <2> QED
    BY <1>a, <2>4, <2>5, <2>8
<1>8. CASE PublishExit(s, g)
  <2>1. PICK r2 : r2 = ExitPublished(r)
    OBVIOUS
  <2>2. rt' = [rt EXCEPT ![s][g] = r2] /\ r.pc = "serving" /\ r.exit /\ ~r.kids
    BY <1>8, <2>1 DEF PublishExit, Serving, RuntimesTyped, r
  <2>3. r2 \in RuntimeTypes
    BY <1>0, <2>1 DEF RuntimeTypes, ExitPublished
  <2>a. RuntimeInv(r) => Evolves(r, r2)
    BY <1>0, <2>1, <2>2, <2>3 DEF RuntimeTypes, RuntimeInv, Evolves, Open, Settled, ExitPublished
  <2>b. r2.replies \subseteq r.replies
    BY <1>0, <2>1 DEF RuntimeTypes, ExitPublished
  <2>c. Announced(r) => Announced(r2)
    BY <1>0, <2>1 DEF RuntimeTypes, Announced, ExitPublished
  <2>4. (RuntimeInv(r) => Evolves(r, r2))
        /\ r2.replies \subseteq r.replies /\ (RuntimeInv(r) /\ Announced(r) => Announced(r2))
    BY <2>a, <2>b, <2>c
  <2> QED
    BY <1>a, <2>2, <2>3, <2>4
<1>9. CASE WaiterFails(s, g)
  <2>1. PICK r2 : r2 = MarkUnverified([r EXCEPT !.waiter_failed = TRUE])
    OBVIOUS
  <2>2. rt' = [rt EXCEPT ![s][g] = r2] /\ r.pc = "serving" /\ ~r.exit
    BY <1>9, <2>1 DEF WaiterFails, Serving, RuntimesTyped, r
  <2>3. r2 \in RuntimeTypes
    BY <1>0, <2>1 DEF RuntimeTypes, MarkUnverified
  <2>4. (RuntimeInv(r) => Evolves(r, r2))
        /\ r2.replies \subseteq r.replies /\ (RuntimeInv(r) /\ Announced(r) => Announced(r2))
    BY <1>0, <2>1, <2>2 DEF RuntimeTypes, RuntimeInv, Evolves, Announced, Open, Settled, MarkUnverified
  <2> QED
    BY <1>a, <2>2, <2>3, <2>4
<1>10. CASE Finalize(s, g)
  <2>1. PICK r2 : r2 = [r EXCEPT !.completed = TRUE, !.retired = TRUE, !.notice = "completed"]
    OBVIOUS
  <2>2. rt' = [rt EXCEPT ![s][g] = r2] /\ r.pc = "serving" /\ r.exit /\ r.notice = "none"
    BY <1>10, <2>1 DEF Finalize, Serving, RuntimesTyped, r
  <2>3. r2 \in RuntimeTypes
    BY <1>0, <2>1 DEF RuntimeTypes
  <2>4. (RuntimeInv(r) => Evolves(r, r2))
        /\ r2.replies \subseteq r.replies /\ (RuntimeInv(r) /\ Announced(r) => Announced(r2))
    BY <1>0, <2>1, <2>2 DEF RuntimeTypes, RuntimeInv, Evolves, Announced, Open, Settled
  <2> QED
    BY <1>a, <2>2, <2>3, <2>4
<1>11. CASE StopOverdue(s, g)
  <2>1. PICK r2 : r2 = MarkUnverified([r EXCEPT !.overdue = TRUE, !.descendants = r.kids])
    OBVIOUS
  <2>2. /\ rt' = [rt EXCEPT ![s][g] = r2]
        /\ r.pc = "serving" /\ r.notice = "none" /\ (~r.exit \/ r.kids)
    BY <1>11, <2>1 DEF StopOverdue, Serving, RuntimesTyped, r
  <2>3. r2 \in RuntimeTypes
    BY <1>0, <2>1 DEF RuntimeTypes, MarkUnverified
  <2>4. (RuntimeInv(r) => Evolves(r, r2))
        /\ r2.replies \subseteq r.replies /\ (RuntimeInv(r) /\ Announced(r) => Announced(r2))
    BY <1>0, <2>1, <2>2 DEF RuntimeTypes, RuntimeInv, Evolves, Announced, Open, Settled, MarkUnverified
  <2> QED
    BY <1>a, <2>2, <2>3, <2>4
<1>12. CASE CompleteStop(s, g)
  <2>1. PICK r2 : r2 = [r EXCEPT !.stopping = FALSE, !.overdue = FALSE, !.replies = {}]
    OBVIOUS
  <2>2. rt' = [rt EXCEPT ![s][g] = r2]
    BY <1>12, <2>1 DEF CompleteStop, RuntimesTyped, r
  <2>3. r2 \in RuntimeTypes
    BY <1>0, <2>1 DEF RuntimeTypes
  <2>a. RuntimeInv(r) => Evolves(r, r2)
    BY <1>0, <2>1, <2>2, <2>3 DEF RuntimeTypes, RuntimeInv, Evolves, Open, Settled
  <2>b. r2.replies \subseteq r.replies
    BY <1>0, <2>1 DEF RuntimeTypes
  <2>c. Announced(r) => Announced(r2)
    BY <1>0, <2>1 DEF RuntimeTypes, Announced
  <2>4. (RuntimeInv(r) => Evolves(r, r2))
        /\ r2.replies \subseteq r.replies /\ (RuntimeInv(r) /\ Announced(r) => Announced(r2))
    BY <2>a, <2>b, <2>c
  <2> QED
    BY <1>a, <2>2, <2>3, <2>4
<1>13. CASE ThreadEnds(s, g)
  <2>1. PICK r2 : r2 = [r EXCEPT !.pc = "ended"]
    OBVIOUS
  <2>2. rt' = [rt EXCEPT ![s][g] = r2] /\ r.pc = "serving"
    BY <1>13, <2>1 DEF ThreadEnds, Serving, RuntimesTyped, r
  <2>3. r2 \in RuntimeTypes
    BY <1>0, <2>1 DEF RuntimeTypes
  <2>4. (RuntimeInv(r) => Evolves(r, r2))
        /\ r2.replies \subseteq r.replies /\ (RuntimeInv(r) /\ Announced(r) => Announced(r2))
    BY <1>0, <2>1, <2>2 DEF RuntimeTypes, RuntimeInv, Evolves, Announced, Open, Settled
  <2> QED
    BY <1>a, <2>2, <2>3, <2>4
<1>14. ASSUME NEW n \in {"none", "release", "record_completed"},
              rt' = [rt EXCEPT ![s][g].notice = n],
              r.notice # "none", NoticeLifecycle(s, g) \/ r.notice # "exited"
       PROVE  CellsStep(s, g)
  <2>1. PICK r2 : r2 = [r EXCEPT !.notice = n]
    OBVIOUS
  <2>2. rt' = [rt EXCEPT ![s][g] = r2]
    BY <1>14, <2>1 DEF RuntimesTyped, r
  <2>3. r2 \in RuntimeTypes
    BY <1>0, <2>1 DEF RuntimeTypes
  <2>4. (RuntimeInv(r) => Evolves(r, r2))
        /\ r2.replies \subseteq r.replies
        /\ (r.notice # "exited" /\ RuntimeInv(r) /\ Announced(r) => Announced(r2))
    BY <1>0, <1>14, <2>1 DEF RuntimeTypes, RuntimeInv, Evolves, Announced, Open, Settled
  <2> QED
    BY <1>a, <1>14, <2>2, <2>3, <2>4
<1>15. CASE NoticeLifecycle(s, g)
  <2>1. PICK n : n = IF rt[s][g].notice = "exited" THEN "release" ELSE "none"
    OBVIOUS
  <2>2. rt' = [rt EXCEPT ![s][g].notice = n] /\ r.notice # "none" /\ n \in {"none", "release"}
    BY <1>15, <2>1 DEF NoticeLifecycle, RuntimesTyped, r
  <2> QED
    BY <1>14, <1>15, <2>2
<1>16. CASE NoticeCompleted(s, g)
  <2>1. PICK n : n = IF present[s] /\ gen[s] = g THEN "record_completed" ELSE "none"
    OBVIOUS
  <2>2. rt' = [rt EXCEPT ![s][g].notice = n] /\ r.notice = "completed"
        /\ n \in {"none", "record_completed"}
    BY <1>16, <2>1 DEF NoticeCompleted, RuntimesTyped, r
  <2> QED
    BY <1>14, <2>2
<1>17. CASE RecordCompleted(s, g) \/ ReleaseRuntime(s, g)
  BY <1>14, <1>17 DEF RecordCompleted, ReleaseRuntime, r
<1> QED
  BY <1>1, <1>2, <1>3, <1>4, <1>5, <1>6, <1>7, <1>8, <1>9, <1>10, <1>11, <1>12, <1>13,
     <1>15, <1>16, <1>17 DEF Child, SessionThread
-----------------------------------------------------------------------------
(***************************************************************************)
(* Type correctness, group by group.  Threads at work name a session and a *)
(* generation, so that the cells they write are those of a session thread. *)
(***************************************************************************)

LauncherNamed(v) ==
    /\ v.pc # "idle" => v.s \in Sessions /\ v.gen \in Generations
    /\ v.pc \in {"ledger", "restart", "persist_restart"} => v.prior[1] \in Generations

StopperNamed(v) ==
    /\ v.pc # "idle" => v.s \in Sessions
    /\ v.pc \in {"check", "send", "waiting", "report"} => v.gen \in Generations

RecordsNamed ==
    \A s \in Sessions :
        /\ present[s] => gen[s] \in Generations
        /\ launch[s] # NoLaunch => launch[s].gen \in Generations

BooksTyped ==
    /\ known \subseteq Sessions
    /\ present \in [Sessions -> BOOLEAN]
    /\ gen \in [Sessions -> 0..MaxGeneration]
    /\ lifecycle \in [Sessions -> Lifecycles]
    /\ mine \in [Sessions -> BOOLEAN]
    /\ launch \in [Sessions -> LaunchTypes]
    /\ slot \in [Sessions -> 0..MaxGeneration]
    /\ completed \in [Sessions -> 0..MaxGeneration]
    /\ ledger \in [Sessions -> Launchers \cup {"free"}]
    /\ RecordsNamed

LaunchersTyped == lt \in [Launchers -> LauncherTypes] /\ \A l \in Launchers : LauncherNamed(lt[l])

StoppersTyped == st \in [Stoppers -> StopperTypes] /\ \A p \in Stoppers : StopperNamed(st[p])

RequestersTyped == sd \in [Requesters -> RequesterTypes]

SwitchesTyped == shutting_down \in BOOLEAN /\ attempts \in 0..MaxShutdowns /\ down \in BOOLEAN

TypeInv ==
    /\ BooksTyped /\ RuntimesTyped
    /\ LaunchersTyped /\ StoppersTyped /\ RequestersTyped
    /\ SwitchesTyped

\* The first generation can be launched.
LEMMA FirstGeneration == 1 \in Generations /\ Generations \subseteq 0..MaxGeneration
BY ConstantsAssumption DEF Generations

\* One launcher moves; it is well typed and names what it works on.
LEMMA LauncherMoves ==
    ASSUME LaunchersTyped, NEW l \in Launchers, NEW v \in LauncherTypes, LauncherNamed(v),
           lt' = [lt EXCEPT ![l] = v]
    PROVE  /\ LaunchersTyped'
           /\ lt'[l] = v
           /\ \A k \in Launchers : k # l => lt'[k] = lt[k]
BY DEF LaunchersTyped

\* One stopping thread moves.
LEMMA StopperMoves ==
    ASSUME StoppersTyped, NEW p \in Stoppers, NEW v \in StopperTypes, StopperNamed(v),
           st' = [st EXCEPT ![p] = v]
    PROVE  /\ StoppersTyped'
           /\ st'[p] = v
           /\ \A k \in Stoppers : k # p => st'[k] = st[k]
BY DEF StoppersTyped

\* The session map after a step on the record of one session.
LEMMA BooksStay ==
    ASSUME TypeInv, UNCHANGED records PROVE BooksTyped'
BY DEF TypeInv, BooksTyped, RecordsNamed, records

\* A prior manifest is a generation, a lifecycle and an owner.
LEMMA PriorParts ==
    /\ \A a \in Priors : a[1] \in 0..MaxGeneration /\ a[2] \in Lifecycles /\ a[3] \in BOOLEAN
    /\ \A g \in 0..MaxGeneration, c \in Lifecycles, b \in BOOLEAN : <<g, c, b>> \in Priors
BY DEF Priors

\* A launcher without a task names nothing.
LEMMA IdleLauncherType == IdleLauncher \in LauncherTypes /\ LauncherNamed(IdleLauncher)
<1>1. 0 \in 0..MaxGeneration /\ 0 \in 0..MaxShutdowns
  BY ConstantsAssumption
<1>2. "none" \in Lifecycles
  BY DEF Lifecycles
<1>3. <<0, "none", FALSE>> \in Priors
  BY <1>1, <1>2, PriorParts
<1> QED
  BY <1>1, <1>3 DEF IdleLauncher, LauncherTypes, LauncherNamed

\* What a launcher may do next.
LEMMA LauncherPlaces ==
    ASSUME NEW v \in LauncherTypes, LauncherNamed(v), v.pc # "idle",
           NEW pc \in {"spawn", "register", "wait", "commit", "fail", "stop", "persist_create"}
    PROVE  /\ [v EXCEPT !.pc = pc] \in LauncherTypes
           /\ LauncherNamed([v EXCEPT !.pc = pc])
           /\ [v EXCEPT !.pc = pc, !.waits = FALSE, !.attempts = 0] \in LauncherTypes
           /\ LauncherNamed([v EXCEPT !.pc = pc, !.waits = FALSE, !.attempts = 0])
<1>2. 0 \in 0..MaxGeneration /\ 0 \in 0..MaxShutdowns
  BY ConstantsAssumption
<1> QED
  BY <1>2 DEF LauncherTypes, LauncherNamed

-----------------------------------------------------------------------------
(***************************************************************************)
(* What the steps of the host's threads do to the cells                    *)
(***************************************************************************)

\* Every session thread's cells change as Evolves allows, if they change at all.
CellsEvolve ==
    /\ RuntimesTyped'
    /\ \A s \in Sessions, g \in Generations :
          RuntimeInv(rt[s][g]) => Evolves(rt[s][g], rt'[s][g])

\* No stop is added to those a session thread will answer.
RepliesKept ==
    \A s \in Sessions, g \in Generations : rt'[s][g].replies \subseteq rt[s][g].replies

\* An exit on its way to the record stays so.
AnnouncedKept ==
    \A s \in Sessions, g \in Generations :
        RuntimeInv(rt[s][g]) /\ Announced(rt[s][g]) => Announced(rt'[s][g])

\* Cells that do not change evolve, ...
LEMMA CellsStay ==
    ASSUME RuntimesTyped, UNCHANGED rt
    PROVE  CellsEvolve /\ RepliesKept /\ AnnouncedKept
<1>1. ASSUME NEW s \in Sessions, NEW g \in Generations, RuntimeInv(rt[s][g])
      PROVE  Evolves(rt[s][g], rt'[s][g])
  <2>1. rt'[s][g] = rt[s][g] /\ rt[s][g] \in RuntimeTypes
    BY DEF RuntimesTyped
  <2>2. \A r \in RuntimeTypes : RuntimeInv(r) => Evolves(r, r)
    BY DEF Evolves
  <2> QED
    BY <1>1, <2>1, <2>2
<1> QED
  BY <1>1 DEF CellsEvolve, RepliesKept, AnnouncedKept, RuntimesTyped

\* ... and so they do when one session thread's cells take an allowed step.
LEMMA OneCellEvolves ==
    ASSUME RuntimesTyped, NEW s \in Sessions, NEW g \in Generations, NEW r2 \in RuntimeTypes,
           rt' = [rt EXCEPT ![s][g] = r2], RuntimeInv(rt[s][g]) => Evolves(rt[s][g], r2)
    PROVE  /\ CellsEvolve
           /\ r2.replies \subseteq rt[s][g].replies => RepliesKept
           /\ (RuntimeInv(rt[s][g]) /\ Announced(rt[s][g]) => Announced(r2)) => AnnouncedKept
<1>2. /\ RuntimesTyped'
      /\ rt'[s][g] = r2
      /\ \A t \in Sessions, h \in Generations : <<t, h>> # <<s, g>> => rt'[t][h] = rt[t][h]
  BY RuntimeUpdate DEF RuntimesTyped
<1>3. \A r \in RuntimeTypes : RuntimeInv(r) => Evolves(r, r)
  BY DEF Evolves
<1>4. ASSUME NEW t \in Sessions, NEW h \in Generations, RuntimeInv(rt[t][h])
      PROVE  Evolves(rt[t][h], rt'[t][h])
  <2>1. CASE t = s /\ h = g
    BY <1>2, <1>4, <2>1
  <2>2. CASE <<t, h>> # <<s, g>>
    <3>1. rt'[t][h] = rt[t][h] /\ rt[t][h] \in RuntimeTypes
      BY <1>2, <2>2 DEF RuntimesTyped
    <3> QED
      BY <1>3, <1>4, <3>1
  <2> QED
    BY <2>1, <2>2
<1>5. r2.replies \subseteq rt[s][g].replies => RepliesKept
  BY <1>2 DEF RepliesKept
<1>6. (RuntimeInv(rt[s][g]) /\ Announced(rt[s][g]) => Announced(r2)) => AnnouncedKept
  BY <1>2 DEF AnnouncedKept
<1> QED
  BY <1>2, <1>4, <1>5, <1>6 DEF CellsEvolve

\* A stop request is a flag of the cells.
LEMMA RequestCells ==
    ASSUME RuntimesTyped, NEW s \in Sessions, NEW g \in Generations, NEW b \in BOOLEAN,
           rt' = [rt EXCEPT ![s][g].stop_requested = b]
    PROVE  CellsEvolve /\ RepliesKept /\ AnnouncedKept
<1>1. PICK r : r = rt[s][g]
  OBVIOUS
<1>2. PICK r2 : r2 = [r EXCEPT !.stop_requested = b]
  OBVIOUS
<1>3. rt' = [rt EXCEPT ![s][g] = r2] /\ r \in RuntimeTypes
  BY <1>1, <1>2 DEF RuntimesTyped
<1>4. r2 \in RuntimeTypes
  BY <1>2, <1>3 DEF RuntimeTypes
<1>5. (RuntimeInv(r) => Evolves(r, r2)) /\ r2.replies = r.replies
      /\ (Announced(r) => Announced(r2))
  BY <1>2, <1>3, <1>4 DEF RuntimeTypes, RuntimeInv, Evolves, Announced, Open, Settled
<1> QED
  BY <1>1, <1>3, <1>4, <1>5, OneCellEvolves, ZenonT(40)

\* The steps of a launcher, but the launch itself, ...
LEMMA LauncherCells ==
    ASSUME TypeInv, NEW l \in Launchers, Launching(l)
    PROVE  /\ CellsEvolve \/ (Spawn(l) /\ lt[l].pc = "spawn")
           /\ RepliesKept /\ AnnouncedKept
<1>0. RuntimesTyped /\ lt[l] \in LauncherTypes /\ LauncherNamed(lt[l])
  BY DEF TypeInv, LaunchersTyped
<1>1. CASE UNCHANGED rt
  BY <1>0, <1>1, CellsStay
<1>2. CASE Register(l)
  <2>1. lt[l].s \in Sessions /\ lt[l].gen \in Generations
    BY <1>0, <1>2 DEF Register, LauncherNamed
  <2>2. PICK b : b = (rt[lt[l].s][lt[l].gen].stop_requested \/ ~Owned(lt[l].s, l)
                      \/ launch[lt[l].s].cancelled)
    OBVIOUS
  <2>3. b \in BOOLEAN
    BY <2>2, Zenon
  <2>4. rt' = [rt EXCEPT ![lt[l].s][lt[l].gen].stop_requested = b]
    BY <1>0, <1>2, <2>1, <2>2 DEF Register, RuntimesTyped
  <2> QED
    BY <1>0, <2>1, <2>3, <2>4, RequestCells
<1>3. CASE Await(l)
  <2>1. lt[l].s \in Sessions /\ lt[l].gen \in Generations
    BY <1>0, <1>3 DEF Await, LauncherNamed
  <2>2. PICK r : r = rt[lt[l].s][lt[l].gen]
    OBVIOUS
  <2>3. CASE r.startup = "ok" /\ rt' = [rt EXCEPT ![lt[l].s][lt[l].gen] = Received(@)]
    <3>1. r \in RuntimeTypes
      BY <1>0, <2>1, <2>2 DEF RuntimesTyped
    <3>2. PICK b : b = (r.unverified \/ r.stop_requested)
      OBVIOUS
    <3>3. b \in BOOLEAN
      BY <3>2, Zenon
    <3>4. PICK r2 : r2 = [r EXCEPT !.unverified = b, !.startup = "taken"]
      OBVIOUS
    <3>5. r2 = Received(r)
      BY <3>1, <3>2, <3>4 DEF Received
    <3>6. rt' = [rt EXCEPT ![lt[l].s][lt[l].gen] = r2]
      BY <1>0, <2>1, <2>2, <2>3, <3>5 DEF RuntimesTyped
    <3>7. r2 \in RuntimeTypes
      BY <3>1, <3>3, <3>4 DEF RuntimeTypes
    <3>8. b = r.unverified \/ b = TRUE
      BY <3>1, <3>2 DEF RuntimeTypes
    <3>9. (RuntimeInv(r) => Evolves(r, r2)) /\ r2.replies = r.replies
          /\ (Announced(r) => Announced(r2))
      BY <2>3, <3>1, <3>4, <3>7, <3>8
      DEF RuntimeTypes, RuntimeInv, Evolves, Announced, Open, Settled
    <3> QED
      BY <1>0, <2>1, <2>2, <3>6, <3>7, <3>9, OneCellEvolves
  <2> QED
    BY <1>1, <1>3, <2>2, <2>3 DEF Await
<1>4. CASE Spawn(l)
  <2>1. lt[l].s \in Sessions /\ lt[l].gen \in Generations
    BY <1>0, <1>4 DEF Spawn, LauncherNamed
  <2>2. CASE rt' = [rt EXCEPT ![lt[l].s][lt[l].gen].pc = "starting"]
    <3>1. PICK r : r = rt[lt[l].s][lt[l].gen]
      OBVIOUS
    <3>2. PICK r2 : r2 = [r EXCEPT !.pc = "starting"]
      OBVIOUS
    <3>3. r \in RuntimeTypes
      BY <1>0, <2>1, <3>1 DEF RuntimesTyped
    <3>4. r2 \in RuntimeTypes /\ r2.replies = r.replies /\ (Announced(r) => Announced(r2))
      BY <3>2, <3>3 DEF RuntimeTypes, Announced
    <3>5. rt' = [rt EXCEPT ![lt[l].s][lt[l].gen] = r2]
      BY <1>0, <2>1, <2>2, <3>1, <3>2 DEF RuntimesTyped
    <3>6. /\ rt'[lt[l].s][lt[l].gen] = r2
          /\ \A t \in Sessions, h \in Generations :
                <<t, h>> # <<lt[l].s, lt[l].gen>> => rt'[t][h] = rt[t][h]
      BY <1>0, <2>1, <3>4, <3>5, RuntimeUpdate DEF RuntimesTyped
    <3>7. RepliesKept /\ AnnouncedKept
      BY <3>1, <3>4, <3>6 DEF RepliesKept, AnnouncedKept
    <3> QED
      BY <1>4, <3>7 DEF Spawn
  <2> QED
    BY <1>1, <1>4, <2>2 DEF Spawn
<1> QED
  BY <1>1, <1>2, <1>3, <1>4
  DEF Launching, CreateBegin, RestartBegin, CreateAdmit, CreatePersist, RestartLedger,
      RestartAdmit, RestartPersist, AdmissionWait, LaunchRefused, Commit, FailLaunch

\* ... and those of a stopping thread.
LEMMA StopperCells ==
    ASSUME TypeInv, NEW p \in Stoppers, Stopping(p)
    PROVE  CellsEvolve /\ (RepliesKept \/ StopSend(p)) /\ AnnouncedKept
<1>0. RuntimesTyped /\ st[p] \in StopperTypes /\ StopperNamed(st[p])
  BY DEF TypeInv, StoppersTyped
<1>1. CASE UNCHANGED rt
  BY <1>0, <1>1, CellsStay
<1>2. CASE StopBegin(p)
  <2>1. st[p].s \in Sessions
    BY <1>0, <1>2 DEF StopBegin, StopperNamed
  <2>2. CASE /\ launch[st[p].s] # NoLaunch
             /\ rt' = [rt EXCEPT ![st[p].s][launch[st[p].s].gen].stop_requested =
                          @ \/ launch[st[p].s].armed]
    <3>1. launch[st[p].s].gen \in Generations
      BY <2>1, <2>2 DEF TypeInv, BooksTyped, RecordsNamed
    <3>2. PICK b : b = (rt[st[p].s][launch[st[p].s].gen].stop_requested \/ launch[st[p].s].armed)
      OBVIOUS
    <3>3. b \in BOOLEAN
      BY <3>2, Zenon
    <3>4. rt' = [rt EXCEPT ![st[p].s][launch[st[p].s].gen].stop_requested = b]
      BY <1>0, <2>1, <2>2, <3>1, <3>2 DEF RuntimesTyped
    <3> QED
      BY <1>0, <2>1, <3>1, <3>3, <3>4, RequestCells
  <2> QED
    BY <1>1, <1>2, <2>2 DEF StopBegin
<1>3. CASE StopCheck(p)
  <2>1. st[p].s \in Sessions /\ st[p].gen \in Generations
    BY <1>0, <1>3 DEF StopCheck, StopperNamed
  <2> QED
    BY <1>0, <1>3, <2>1, RequestCells DEF StopCheck
<1>4. CASE StopSend(p) \/ StopTimeout(p)
  <2>1. st[p].s \in Sessions /\ st[p].gen \in Generations
    BY <1>0, <1>4 DEF StopSend, StopTimeout, StopperNamed
  <2>2. PICK r : r = rt[st[p].s][st[p].gen]
    OBVIOUS
  <2>3. r \in RuntimeTypes
    BY <1>0, <2>1, <2>2 DEF RuntimesTyped
  <2>4. CASE StopSend(p) /\ rt' = [rt EXCEPT ![st[p].s][st[p].gen] = BeginStop(@, p)]
    <3>1. PICK r2 : r2 = [r EXCEPT !.stopping = TRUE, !.replies = r.replies \cup {p}]
      OBVIOUS
    <3>2. rt' = [rt EXCEPT ![st[p].s][st[p].gen] = r2]
      BY <1>0, <2>1, <2>2, <2>3, <2>4, <3>1 DEF RuntimesTyped, BeginStop
    <3>3. r2 \in RuntimeTypes
      BY <2>3, <3>1 DEF RuntimeTypes
    <3>4. (RuntimeInv(r) => Evolves(r, r2)) /\ (Announced(r) => Announced(r2))
      BY <2>3, <3>1, <3>3 DEF RuntimeTypes, RuntimeInv, Evolves, Announced, Open, Settled
    <3> QED
      BY <1>0, <2>1, <2>2, <2>4, <3>2, <3>3, <3>4, OneCellEvolves
  <2>5. CASE rt' = [rt EXCEPT ![st[p].s][st[p].gen].replies = @ \ {p}]
    <3>1. PICK r2 : r2 = [r EXCEPT !.replies = r.replies \ {p}]
      OBVIOUS
    <3>2. rt' = [rt EXCEPT ![st[p].s][st[p].gen] = r2]
      BY <1>0, <2>1, <2>2, <2>3, <2>5, <3>1 DEF RuntimesTyped
    <3>3. r2 \in RuntimeTypes
      BY <2>3, <3>1 DEF RuntimeTypes
    <3>4. (RuntimeInv(r) => Evolves(r, r2)) /\ r2.replies \subseteq r.replies
          /\ (Announced(r) => Announced(r2))
      BY <2>3, <3>1, <3>3 DEF RuntimeTypes, RuntimeInv, Evolves, Announced, Open, Settled
    <3> QED
      BY <1>0, <2>1, <2>2, <3>2, <3>3, <3>4, OneCellEvolves
  <2> QED
    BY <1>1, <1>4, <2>4, <2>5 DEF StopSend, StopTimeout
<1> QED
  BY <1>1, <1>2, <1>3, <1>4
  DEF Stopping, ClientStop, CancelledStop, ShutdownStop, StopCommit, StopInspect

\* The places of a restart before it is written.
LEMMA RestarterPlaces ==
    ASSUME NEW v \in LauncherTypes, LauncherNamed(v), v.pc \in {"ledger", "restart"},
           NEW pc \in {"restart", "persist_restart"}
    PROVE  /\ [v EXCEPT !.pc = pc] \in LauncherTypes
           /\ LauncherNamed([v EXCEPT !.pc = pc])
           /\ [v EXCEPT !.pc = pc, !.waits = FALSE, !.attempts = 0] \in LauncherTypes
           /\ LauncherNamed([v EXCEPT !.pc = pc, !.waits = FALSE, !.attempts = 0])
<1>2. 0 \in 0..MaxGeneration /\ 0 \in 0..MaxShutdowns
  BY ConstantsAssumption
<1> QED
  BY <1>2 DEF LauncherTypes, LauncherNamed

\* A record updated by a step of a launcher.
LEMMA LaunchType ==
    /\ NoLaunch \in LaunchTypes
    /\ \A l \in Launchers, g \in 0..MaxGeneration :
          [NoLaunch EXCEPT !.op = l, !.gen = g] \in LaunchTypes
    /\ \A v \in LaunchTypes, b \in BOOLEAN :
          [v EXCEPT !.armed = b] \in LaunchTypes /\ [v EXCEPT !.cancelled = b] \in LaunchTypes
<1>1. 0 \in 0..MaxGeneration
  BY ConstantsAssumption
<1> QED
  BY <1>1 DEF NoLaunch, LaunchTypes

\* Each step of a launcher keeps the types.
LEMMA LaunchingTypes ==
    ASSUME TypeInv, NEW l \in Launchers, Launching(l)
    PROVE  TypeInv'
<1>0. /\ lt[l] \in LauncherTypes /\ LauncherNamed(lt[l])
      /\ LaunchersTyped
      /\ 1 \in Generations /\ Generations \subseteq 0..MaxGeneration
      /\ 0 \in 0..MaxGeneration
  BY FirstGeneration, ConstantsAssumption DEF TypeInv, LaunchersTyped
<1>1. ASSUME UNCHANGED <<st, sd, shutting_down, attempts, down>>,
             LaunchersTyped', BooksTyped', RuntimesTyped'
      PROVE  TypeInv'
  BY <1>1 DEF TypeInv, StoppersTyped, RequestersTyped, SwitchesTyped
<1>2. RuntimesTyped'
  <2>1. CASE CellsEvolve
    BY <2>1 DEF CellsEvolve
  <2>2. CASE Spawn(l)
    <3>1. lt[l].s \in Sessions /\ lt[l].gen \in Generations
      BY <1>0, <2>2 DEF Spawn, LauncherNamed
    <3>r. PICK r : r = rt[lt[l].s][lt[l].gen]
      OBVIOUS
    <3>2. PICK r2 : r2 = [r EXCEPT !.pc = "starting"]
      OBVIOUS
    <3>t. r \in RuntimeTypes
      BY <3>1, <3>r DEF TypeInv, RuntimesTyped
    <3>3. r2 \in RuntimeTypes
      BY <3>2, <3>t DEF RuntimeTypes
    <3>4. UNCHANGED rt \/ rt' = [rt EXCEPT ![lt[l].s][lt[l].gen] = r2]
      BY <2>2, <3>1, <3>2, <3>r DEF Spawn, TypeInv, RuntimesTyped
    <3> QED
      BY <3>1, <3>3, <3>4 DEF TypeInv, RuntimesTyped
  <2> QED
    BY <2>1, <2>2, LauncherCells
<1>3. ASSUME Finish(l) PROVE LaunchersTyped'
  BY <1>0, <1>3, IdleLauncherType, LauncherMoves DEF Finish
<1>4. ASSUME lt[l].pc # "idle",
             NEW pc \in {"spawn", "register", "wait", "commit", "fail", "stop", "persist_create"},
             Goto(l, pc)
      PROVE  LaunchersTyped'
  <2>1. lt' = [lt EXCEPT ![l] = [lt[l] EXCEPT !.pc = pc]]
    BY <1>0, <1>4 DEF Goto
  <2> QED
    BY <1>0, <1>4, <2>1, LauncherPlaces, LauncherMoves
<1>6. ASSUME NEW s \in Sessions, CreateBegin(l, s) PROVE TypeInv'
  <2>1. PICK v : v = [IdleLauncher EXCEPT !.pc = "create", !.s = s, !.gen = 1]
    OBVIOUS
  <2>2. v \in LauncherTypes
    BY <1>0, <2>1, IdleLauncherType DEF LauncherTypes
  <2>3. LauncherNamed(v)
    BY <1>0, <2>1, IdleLauncherType DEF LauncherTypes, LauncherNamed
  <2>4. LaunchersTyped'
    BY <1>0, <1>6, <2>1, <2>2, <2>3, LauncherMoves DEF CreateBegin
  <2>5. BooksTyped'
    BY <1>6 DEF CreateBegin, TypeInv, BooksTyped, RecordsNamed
  <2> QED
    BY <1>1, <1>2, <1>6, <2>4, <2>5 DEF CreateBegin
<1>7. ASSUME NEW s \in Sessions, RestartBegin(l, s) PROVE TypeInv'
  <2>1. PICK v : v = [IdleLauncher EXCEPT !.pc = "ledger", !.s = s,
                  !.gen = gen[s] + 1, !.prior = <<gen[s], lifecycle[s], mine[s]>>]
    OBVIOUS
  <2>2. /\ gen[s] \in Generations /\ gen[s] + 1 \in Generations
        /\ lifecycle[s] \in Lifecycles /\ mine[s] \in BOOLEAN
    BY <1>7, ConstantsAssumption DEF RestartBegin, TypeInv, BooksTyped, RecordsNamed, Generations
  <2>3. <<gen[s], lifecycle[s], mine[s]>> \in Priors
    BY <1>0, <2>2, PriorParts
  <2>4. v \in LauncherTypes
    BY <1>0, <2>1, <2>2, <2>3, IdleLauncherType DEF LauncherTypes
  <2>5. v.s = s /\ v.gen = gen[s] + 1 /\ v.prior = <<gen[s], lifecycle[s], mine[s]>>
    BY <2>1, IdleLauncherType DEF LauncherTypes
  <2>6. LauncherNamed(v)
    BY <2>2, <2>5 DEF LauncherNamed
  <2>7. LaunchersTyped'
    BY <1>0, <1>7, <2>1, <2>4, <2>6, LauncherMoves DEF RestartBegin
  <2> QED
    BY <1>1, <1>2, <1>7, <2>7, BooksStay DEF RestartBegin
<1>8. CASE CreateAdmit(l)
  <2>0. lt[l].s \in Sessions /\ lt[l].pc # "idle"
    BY <1>0, <1>8 DEF CreateAdmit, LauncherNamed
  <2>1. lt' = [lt EXCEPT ![l] = [lt[l] EXCEPT !.pc = "persist_create", !.waits = FALSE, !.attempts = 0]]
    BY <1>0, <1>8 DEF CreateAdmit, Proceed
  <2>2. LaunchersTyped'
    BY <1>0, <2>0, <2>1, LauncherPlaces, LauncherMoves
  <2>3. [NoLaunch EXCEPT !.op = l, !.gen = 1] \in LaunchTypes
        /\ [NoLaunch EXCEPT !.op = l, !.gen = 1].gen = 1
    BY <1>0, LaunchType DEF NoLaunch
  <2>4. "starting" \in Lifecycles
    BY DEF Lifecycles
  <2>5. BooksTyped'
    BY <1>0, <1>8, <2>0, <2>3, <2>4 DEF CreateAdmit, TypeInv, BooksTyped, RecordsNamed
  <2> QED
    BY <1>1, <1>2, <1>8, <2>2, <2>5 DEF CreateAdmit
<1>9. CASE CreatePersist(l)
  <2>0. lt[l].s \in Sessions /\ lt[l].pc # "idle"
    BY <1>0, <1>9 DEF CreatePersist, LauncherNamed
  <2>1. LaunchersTyped'
    BY <1>3, <1>4, <1>9, <2>0 DEF CreatePersist
  <2>2. BooksTyped'
    BY <1>9, <2>0, LaunchType, ZenonT(40) DEF CreatePersist, TypeInv, BooksTyped, RecordsNamed
  <2> QED
    BY <1>1, <1>2, <1>9, <2>1, <2>2 DEF CreatePersist
<1>10. CASE RestartLedger(l)
  <2>0. lt[l].s \in Sessions /\ lt[l].pc = "ledger"
    BY <1>0, <1>10 DEF RestartLedger, LauncherNamed
  <2>1. ASSUME Goto(l, "restart") PROVE LaunchersTyped'
    <3>1. lt' = [lt EXCEPT ![l] = [lt[l] EXCEPT !.pc = "restart"]]
      BY <1>0, <2>1 DEF Goto
    <3>2. [lt[l] EXCEPT !.pc = "restart"] \in LauncherTypes
          /\ LauncherNamed([lt[l] EXCEPT !.pc = "restart"])
      BY <1>0, <2>0, RestarterPlaces
    <3> QED
      BY <1>0, <3>1, <3>2, LauncherMoves
  <2>2. LaunchersTyped'
    BY <1>3, <1>10, <2>1 DEF RestartLedger
  <2>3. ledger' \in [Sessions -> Launchers \cup {"free"}]
    BY <1>10, <2>0 DEF RestartLedger, TypeInv, BooksTyped
  <2>4. BooksTyped'
    BY <1>10, <2>3 DEF RestartLedger, TypeInv, BooksTyped, RecordsNamed
  <2> QED
    BY <1>1, <1>2, <1>10, <2>2, <2>4 DEF RestartLedger
<1>11. CASE RestartAdmit(l)
  <2>0. lt[l].s \in Sessions /\ lt[l].pc = "restart" /\ lt[l].gen \in Generations
    BY <1>0, <1>11 DEF RestartAdmit, LauncherNamed
  <2>1. lt' = [lt EXCEPT ![l] = [lt[l] EXCEPT !.pc = "persist_restart", !.waits = FALSE, !.attempts = 0]]
    BY <1>0, <1>11 DEF RestartAdmit, Proceed
  <2>2. [lt[l] EXCEPT !.pc = "persist_restart", !.waits = FALSE, !.attempts = 0] \in LauncherTypes
        /\ LauncherNamed([lt[l] EXCEPT !.pc = "persist_restart", !.waits = FALSE, !.attempts = 0])
    BY <1>0, <2>0, RestarterPlaces
  <2>3. LaunchersTyped'
    BY <1>0, <2>1, <2>2, LauncherMoves
  <2>4. [NoLaunch EXCEPT !.op = l, !.gen = lt[l].gen] \in LaunchTypes
        /\ [NoLaunch EXCEPT !.op = l, !.gen = lt[l].gen].gen = lt[l].gen
    BY <1>0, <2>0, LaunchType DEF NoLaunch
  <2>5. "starting" \in Lifecycles
    BY DEF Lifecycles
  <2>6. BooksTyped'
    BY <1>0, <1>11, <2>0, <2>4, <2>5 DEF RestartAdmit, TypeInv, BooksTyped, RecordsNamed
  <2> QED
    BY <1>1, <1>2, <1>11, <2>3, <2>6 DEF RestartAdmit
<1>12. CASE RestartPersist(l)
  <2>0. lt[l].s \in Sessions /\ lt[l].pc = "persist_restart"
        /\ lt[l].prior \in Priors /\ lt[l].prior[1] \in Generations
    BY <1>0, <1>12 DEF RestartPersist, LauncherNamed, LauncherTypes
  <2>1. LaunchersTyped'
    BY <1>3, <1>4, <1>12, <2>0 DEF RestartPersist
  <2>2. /\ ledger' \in [Sessions -> Launchers \cup {"free"}]
        /\ UNCHANGED <<known, present, slot, completed>>
    BY <1>12, <2>0 DEF RestartPersist, TypeInv, BooksTyped
  <2>3. lt[l].prior[2] \in Lifecycles /\ lt[l].prior[3] \in BOOLEAN
    BY <2>0, PriorParts
  <2>4. CASE UNCHANGED <<gen, lifecycle, mine, launch>>
    <3>1. BooksTyped'
      BY <2>2, <2>4 DEF TypeInv, BooksTyped, RecordsNamed
    <3> QED
      BY <1>1, <1>2, <1>12, <2>1, <3>1 DEF RestartPersist
  <2>5. CASE /\ launch' = [launch EXCEPT ![lt[l].s] = NoLaunch]
             /\ gen' = [gen EXCEPT ![lt[l].s] = lt[l].prior[1]]
             /\ lifecycle' = [lifecycle EXCEPT ![lt[l].s] = lt[l].prior[2]]
             /\ mine' = [mine EXCEPT ![lt[l].s] = lt[l].prior[3]]
    <3>1. BooksTyped'
      BY <1>0, <2>0, <2>2, <2>3, <2>5, LaunchType DEF TypeInv, BooksTyped, RecordsNamed
    <3> QED
      BY <1>1, <1>2, <1>12, <2>1, <3>1 DEF RestartPersist
  <2> QED
    BY <1>12, <2>4, <2>5 DEF RestartPersist
<1>13. CASE AdmissionWait(l)
  <2>1. lt' = [lt EXCEPT ![l] = [lt[l] EXCEPT !.waits = TRUE, !.attempts = attempts]]
    BY <1>0, <1>13 DEF AdmissionWait
  <2>2. attempts \in 0..MaxShutdowns
    BY DEF TypeInv, SwitchesTyped
  <2>3. [lt[l] EXCEPT !.waits = TRUE, !.attempts = attempts] \in LauncherTypes
        /\ LauncherNamed([lt[l] EXCEPT !.waits = TRUE, !.attempts = attempts])
    BY <1>0, <2>2 DEF LauncherTypes, LauncherNamed
  <2>4. LaunchersTyped'
    BY <1>0, <2>1, <2>3, LauncherMoves
  <2> QED
    BY <1>1, <1>2, <1>13, <2>4, BooksStay DEF AdmissionWait
<1>14. CASE LaunchRefused(l)
  <2>0. lt[l].s \in Sessions
    BY <1>0, <1>14 DEF LaunchRefused, LauncherNamed
  <2>1. ledger' \in [Sessions -> Launchers \cup {"free"}]
    BY <1>14, <2>0 DEF LaunchRefused, TypeInv, BooksTyped
  <2>2. BooksTyped'
    BY <1>14, <2>1 DEF LaunchRefused, TypeInv, BooksTyped, RecordsNamed
  <2> QED
    BY <1>1, <1>2, <1>3, <1>14, <2>2 DEF LaunchRefused
<1>15. CASE Spawn(l)
  <2>1. LaunchersTyped'
    BY <1>4, <1>15 DEF Spawn
  <2> QED
    BY <1>1, <1>2, <1>15, <2>1, BooksStay DEF Spawn
<1>16. CASE Register(l)
  <2>0. lt[l].s \in Sessions
    BY <1>0, <1>16 DEF Register, LauncherNamed
  <2>1. LaunchersTyped'
    BY <1>4, <1>16 DEF Register
  <2>2. PICK b : b = (launch[lt[l].s].armed \/ Owned(lt[l].s, l))
    OBVIOUS
  <2>3. b \in BOOLEAN
    BY <2>2, Zenon
  <2>u. PICK u : u = launch[lt[l].s]
    OBVIOUS
  <2>t. u \in LaunchTypes
    BY <2>0, <2>u DEF TypeInv, BooksTyped
  <2>4. PICK v : v = [u EXCEPT !.armed = b]
    OBVIOUS
  <2>5. v \in LaunchTypes /\ v.gen = u.gen
    BY <2>3, <2>4, <2>t DEF LaunchTypes
  <2>6. launch' = [launch EXCEPT ![lt[l].s] = v]
    BY <1>16, <2>0, <2>2, <2>4, <2>u DEF Register, TypeInv, BooksTyped
  <2>7. u = NoLaunch => v = NoLaunch
    <3> HAVE u = NoLaunch
    <3>1. u.op = "none" /\ ~u.armed
      BY DEF NoLaunch
    <3>2. ~Owned(lt[l].s, l)
      BY <2>u, <3>1, ConstantsAssumption DEF Owned
    <3>3. ~b
      BY <2>2, <2>u, <3>1, <3>2
    <3> QED
      BY <2>3, <2>4, <3>3 DEF NoLaunch
  <2>8. BooksTyped'
    BY <1>16, <2>0, <2>5, <2>6, <2>7, <2>u DEF Register, TypeInv, BooksTyped, RecordsNamed
  <2> QED
    BY <1>1, <1>2, <1>16, <2>1, <2>8 DEF Register
<1>17. CASE Await(l)
  <2>1. LaunchersTyped'
    BY <1>4, <1>17 DEF Await
  <2> QED
    BY <1>1, <1>2, <1>17, <2>1, BooksStay DEF Await
<1>18. CASE Commit(l)
  <2>0. lt[l].s \in Sessions /\ lt[l].gen \in Generations /\ lt[l].pc # "idle"
    BY <1>0, <1>18 DEF Commit, LauncherNamed
  <2>1. LaunchersTyped'
    BY <1>3, <1>4, <1>18, <2>0 DEF Commit
  <2>2. LifecycleAtCommit(lt[l].s, lt[l].gen) \in Lifecycles
    BY DEF LifecycleAtCommit, Lifecycles
  <2>3. /\ UNCHANGED <<known, present, gen, mine, ledger>>
        /\ \/ UNCHANGED <<lifecycle, slot, completed, launch>>
           \/ /\ lifecycle' = [lifecycle EXCEPT ![lt[l].s] = LifecycleAtCommit(lt[l].s, lt[l].gen)]
              /\ slot' = [slot EXCEPT ![lt[l].s] = lt[l].gen]
              /\ completed' = [completed EXCEPT ![lt[l].s] = 0]
              /\ launch' = [launch EXCEPT ![lt[l].s] = NoLaunch]
    BY <1>18 DEF Commit
  <2>4. BooksTyped'
    <3>a. CASE UNCHANGED <<lifecycle, slot, completed, launch>>
      BY <2>3, <3>a DEF TypeInv, BooksTyped, RecordsNamed
    <3>b. CASE /\ lifecycle' = [lifecycle EXCEPT ![lt[l].s] = LifecycleAtCommit(lt[l].s, lt[l].gen)]
               /\ slot' = [slot EXCEPT ![lt[l].s] = lt[l].gen]
               /\ completed' = [completed EXCEPT ![lt[l].s] = 0]
               /\ launch' = [launch EXCEPT ![lt[l].s] = NoLaunch]
      <4>1. lifecycle' \in [Sessions -> Lifecycles] /\ launch' \in [Sessions -> LaunchTypes]
        BY <2>0, <2>2, <3>b, LaunchType DEF TypeInv, BooksTyped
      <4>2. slot' \in [Sessions -> 0..MaxGeneration] /\ completed' \in [Sessions -> 0..MaxGeneration]
        BY <1>0, <2>0, <3>b DEF TypeInv, BooksTyped
      <4>3. RecordsNamed'
        BY <2>0, <2>3, <3>b DEF TypeInv, BooksTyped, RecordsNamed
      <4> QED
        BY <2>3, <4>1, <4>2, <4>3 DEF TypeInv, BooksTyped
    <3> QED
      BY <2>3, <3>a, <3>b
  <2> QED
    BY <1>1, <1>2, <1>18, <2>1, <2>4 DEF Commit
<1>19. CASE FailLaunch(l)
  <2>0. lt[l].s \in Sessions
    BY <1>0, <1>19 DEF FailLaunch, LauncherNamed
  <2>1. LaunchersTyped'
    BY <1>3, <1>19 DEF FailLaunch
  <2>2. "failed" \in Lifecycles
    BY DEF Lifecycles
  <2>3. BooksTyped'
    BY <1>19, <2>0, <2>2, LaunchType DEF FailLaunch, TypeInv, BooksTyped, RecordsNamed
  <2> QED
    BY <1>1, <1>2, <1>19, <2>1, <2>3 DEF FailLaunch
<1> QED
  BY <1>6, <1>7, <1>8, <1>9, <1>10, <1>11, <1>12, <1>13, <1>14, <1>15, <1>16, <1>17, <1>18,
     <1>19 DEF Launching

\* A stopping thread is asked, goes on, or is done.
LEMMA StopperPlaces ==
    /\ IdleStopper \in StopperTypes /\ StopperNamed(IdleStopper)
    /\ \A s \in Sessions, g \in 0..MaxGeneration, n \in 0..MaxShutdowns :
          LET v == [IdleStopper EXCEPT !.pc = "begin", !.s = s, !.gen = g, !.for = n] IN
          v \in StopperTypes /\ StopperNamed(v)
    /\ \A v \in StopperTypes, b \in BOOLEAN : v.s \in Sessions =>
          LET v2 == [v EXCEPT !.pc = "inspect", !.clean = b] IN
          v2 \in StopperTypes /\ StopperNamed(v2)
    /\ \A v \in StopperTypes, b \in BOOLEAN, pc \in {"report", "send", "waiting"} :
          v.s \in Sessions /\ v.gen \in Generations =>
             LET v2 == [v EXCEPT !.pc = pc, !.clean = b] IN
             v2 \in StopperTypes /\ StopperNamed(v2)
<1>1. 0 \in 0..MaxGeneration /\ 0 \in 0..MaxShutdowns
  BY ConstantsAssumption
<1> QED
  BY <1>1, ZenonT(40) DEF IdleStopper, StopperTypes, StopperNamed

\* An answer to a shutdown keeps the requesters well typed.
LEMMA AnswerTypes ==
    ASSUME RequestersTyped, NEW p \in Stoppers, NEW ok, Answer(p, ok)
    PROVE  RequestersTyped'
<1>1. ASSUME NEW q \in Requesters PROVE sd'[q] \in RequesterTypes
  <2>1. PICK v : v = sd[q]
    OBVIOUS
  <2>2. PICK b : b = (v.unresolved \/ ~ok)
    OBVIOUS
  <2>3. b \in BOOLEAN
    BY <2>2, Zenon
  <2>4. v \in RequesterTypes
    BY <2>1 DEF RequestersTyped
  <2>5. [v EXCEPT !.pending = v.pending \ {st[p].s}, !.unresolved = b] \in RequesterTypes
    BY <2>3, <2>4 DEF RequesterTypes
  <2>6. sd'[q] = IF v.pc = "stopping" /\ v.id = st[p].for
                 THEN [v EXCEPT !.pending = v.pending \ {st[p].s}, !.unresolved = b]
                 ELSE v
    BY <2>1, <2>2 DEF Answer
  <2> QED
    BY <2>4, <2>5, <2>6
<1>2. sd' = [q \in Requesters |-> sd'[q]]
  BY DEF Answer
<1> QED
  BY <1>1, <1>2 DEF RequestersTyped

\* Each step of a stopping thread keeps the types.
LEMMA StoppingTypes ==
    ASSUME TypeInv, NEW p \in Stoppers, Stopping(p)
    PROVE  TypeInv'
<1>0. /\ st[p] \in StopperTypes /\ StopperNamed(st[p]) /\ StoppersTyped /\ RequestersTyped
      /\ Generations \subseteq 0..MaxGeneration /\ 0 \in 0..MaxGeneration /\ 0 \in 0..MaxShutdowns
  BY FirstGeneration, ConstantsAssumption DEF TypeInv, StoppersTyped
<1>1. RuntimesTyped'
  BY StopperCells DEF CellsEvolve
<1>2. ASSUME UNCHANGED <<shutting_down, attempts, down>>, StoppersTyped', RequestersTyped',
             LaunchersTyped', BooksTyped'
      PROVE  TypeInv'
  BY <1>1, <1>2 DEF TypeInv, SwitchesTyped
<1>3. UNCHANGED lt => LaunchersTyped'
  BY DEF TypeInv, LaunchersTyped
<1>4. UNCHANGED sd => RequestersTyped'
  BY DEF TypeInv, RequestersTyped
<1>5. ASSUME NEW s \in Sessions, NEW g \in 0..MaxGeneration, NEW n \in 0..MaxShutdowns,
             StopAsked(p, s, g, n)
      PROVE  StoppersTyped'
  BY <1>0, <1>5, StopperPlaces, StopperMoves DEF StopAsked
<1>6. ASSUME st' = [st EXCEPT ![p] = IdleStopper] PROVE StoppersTyped'
  BY <1>0, <1>6, StopperPlaces, StopperMoves
<1>7. ASSUME NEW s \in Sessions, ClientStop(p, s) PROVE TypeInv'
  <2>1. PICK g \in {0, gen[s]} : StopAsked(p, s, g, 0)
    BY <1>7 DEF ClientStop
  <2>2. g \in 0..MaxGeneration
    BY <1>0, <2>1 DEF TypeInv, BooksTyped
  <2>3. StoppersTyped'
    BY <1>0, <1>5, <2>1, <2>2
  <2> QED
    BY <1>2, <1>3, <1>4, <1>7, <2>3, BooksStay DEF ClientStop
<1>8. ASSUME NEW l \in Launchers, CancelledStop(p, l) PROVE TypeInv'
  <2>1. lt[l].s \in Sessions /\ lt[l].gen \in Generations
    BY <1>8 DEF CancelledStop, TypeInv, LaunchersTyped, LauncherNamed
  <2>2. StoppersTyped'
    BY <1>0, <1>5, <1>8, <2>1 DEF CancelledStop
  <2>3. LaunchersTyped'
    BY <1>8, IdleLauncherType, LauncherMoves DEF CancelledStop, Finish, TypeInv
  <2> QED
    BY <1>2, <1>4, <1>8, <2>2, <2>3, BooksStay DEF CancelledStop
<1>9. ASSUME NEW q \in Requesters, ShutdownStop(p, q) PROVE TypeInv'
  <2>1. PICK a \in sd[q].asked : /\ StopAsked(p, a[1], a[2], sd[q].id)
                                 /\ sd' = [sd EXCEPT ![q].asked = @ \ {a}]
    BY <1>9 DEF ShutdownStop
  <2>2. PICK v : v = sd[q]
    OBVIOUS
  <2>3. v \in RequesterTypes
    BY <1>0, <2>2 DEF RequestersTyped
  <2>4. v.asked \subseteq Sessions \X Generations /\ v.id \in 0..MaxShutdowns
    BY <2>3 DEF RequesterTypes
  <2>5. a[1] \in Sessions /\ a[2] \in Generations
    BY <2>1, <2>2, <2>4
  <2>6. StoppersTyped'
    BY <1>0, <1>5, <2>1, <2>2, <2>4, <2>5
  <2>7. [v EXCEPT !.asked = v.asked \ {a}] \in RequesterTypes
    BY <2>3 DEF RequesterTypes
  <2>8. sd' = [sd EXCEPT ![q] = [v EXCEPT !.asked = v.asked \ {a}]]
    BY <1>0, <2>1, <2>2 DEF RequestersTyped
  <2>9. RequestersTyped'
    BY <1>0, <2>7, <2>8 DEF RequestersTyped
  <2> QED
    BY <1>2, <1>3, <1>9, <2>6, <2>9, BooksStay DEF ShutdownStop
<1>10. CASE StopBegin(p)
  <2>0. st[p].s \in Sessions
    BY <1>0, <1>10 DEF StopBegin, StopperNamed
  <2>1. PICK v : v = st[p]
    OBVIOUS
  <2>2. StoppersTyped'
    <3>1. CASE st' = [st EXCEPT ![p] = IdleStopper]
      BY <1>6, <3>1
    <3>2. CASE st' = [st EXCEPT ![p].pc = "inspect", ![p].clean = TRUE]
      <4>1. st' = [st EXCEPT ![p] = [v EXCEPT !.pc = "inspect", !.clean = TRUE]]
        BY <1>0, <2>1, <3>2 DEF StoppersTyped
      <4> QED
        BY <1>0, <2>0, <2>1, <4>1, StopperPlaces, StopperMoves
    <3>3. CASE slot[st[p].s] # 0 /\ st' = [st EXCEPT ![p].pc = "check", ![p].gen = slot[st[p].s]]
      <4>1. slot[st[p].s] \in Generations
        BY <2>0, <3>3, ConstantsAssumption DEF TypeInv, BooksTyped, Generations
      <4>2. PICK g : g = slot[st[p].s]
        OBVIOUS
      <4>3. st' = [st EXCEPT ![p] = [v EXCEPT !.pc = "check", !.gen = g]]
        BY <1>0, <2>1, <3>3, <4>2 DEF StoppersTyped
      <4>4. PICK v2 : v2 = [v EXCEPT !.pc = "check", !.gen = g]
        OBVIOUS
      <4>5. v2 \in StopperTypes /\ StopperNamed(v2)
        BY <1>0, <2>0, <2>1, <4>1, <4>2, <4>4 DEF StopperTypes, StopperNamed
      <4> QED
        BY <1>0, <4>3, <4>4, <4>5, StopperMoves
    <3> QED
      BY <1>10, <3>1, <3>2, <3>3 DEF StopBegin
  <2>3. RequestersTyped'
    <3>1. UNCHANGED sd \/ Answer(p, FALSE)
      BY <1>10 DEF StopBegin
    <3> QED
      BY <1>0, <1>4, <3>1, AnswerTypes
  <2>4. UNCHANGED launch \/ (launch[st[p].s] # NoLaunch
                             /\ launch' = [launch EXCEPT ![st[p].s].cancelled = TRUE])
    BY <1>10 DEF StopBegin
  <2>5. launch' \in [Sessions -> LaunchTypes] /\ RecordsNamed'
    <3>1. CASE UNCHANGED launch
      BY <1>10, <3>1 DEF StopBegin, TypeInv, BooksTyped, RecordsNamed
    <3>2. CASE launch[st[p].s] # NoLaunch /\ launch' = [launch EXCEPT ![st[p].s].cancelled = TRUE]
      <4>1. PICK u : u = launch[st[p].s]
        OBVIOUS
      <4>2. u \in LaunchTypes /\ u.gen \in Generations
        BY <2>0, <3>2, <4>1 DEF TypeInv, BooksTyped, RecordsNamed
      <4>3. PICK u2 : u2 = [u EXCEPT !.cancelled = TRUE]
        OBVIOUS
      <4>4. u2 \in LaunchTypes /\ u2.gen = u.gen
        BY <4>2, <4>3 DEF LaunchTypes
      <4>5. launch' = [launch EXCEPT ![st[p].s] = u2]
        BY <2>0, <3>2, <4>1, <4>3 DEF TypeInv, BooksTyped
      <4> QED
        BY <1>10, <2>0, <4>2, <4>4, <4>5 DEF StopBegin, TypeInv, BooksTyped, RecordsNamed
    <3> QED
      BY <2>4, <3>1, <3>2
  <2>6. BooksTyped'
    BY <1>10, <2>5 DEF StopBegin, TypeInv, BooksTyped
  <2> QED
    BY <1>2, <1>3, <1>10, <2>2, <2>3, <2>6 DEF StopBegin
<1>11. CASE StopCheck(p)
  <2>1. st[p].s \in Sessions /\ st[p].gen \in Generations
    BY <1>0, <1>11 DEF StopCheck, StopperNamed
  <2>2. PICK b : b = (LET r == rt[st[p].s][st[p].gen]
                      IN r.retired /\ r.exit /\ ~r.descendants /\ ~r.unverified)
    OBVIOUS
  <2>3. b \in BOOLEAN
    BY <2>2, Zenon
  <2>4. PICK pc : pc = IF b THEN "report" ELSE "send"
    OBVIOUS
  <2>5. st' = [st EXCEPT ![p] = [st[p] EXCEPT !.pc = pc, !.clean = b]]
    BY <1>0, <1>11, <2>2, <2>4 DEF StopCheck, StoppersTyped
  <2>6. StoppersTyped'
    BY <1>0, <2>1, <2>3, <2>4, <2>5, StopperPlaces, StopperMoves
  <2> QED
    BY <1>2, <1>3, <1>4, <1>11, <2>6, BooksStay DEF StopCheck
<1>12. CASE StopSend(p) \/ StopTimeout(p)
  <2>1. st[p].s \in Sessions /\ st[p].gen \in Generations
    BY <1>0, <1>12 DEF StopSend, StopTimeout, StopperNamed
  <2>2. PICK v : v = st[p]
    OBVIOUS
  <2>3. v \in StopperTypes
    BY <1>0, <2>2
  <2>4. v.clean \in BOOLEAN
    BY <2>3 DEF StopperTypes
  <2>5. \A pc : [v EXCEPT !.pc = pc] = [v EXCEPT !.pc = pc, !.clean = v.clean]
    BY <2>3 DEF StopperTypes
  <2>6. \E pc \in {"report", "waiting"}, b \in BOOLEAN :
           st' = [st EXCEPT ![p] = [v EXCEPT !.pc = pc, !.clean = b]]
    <3>1. CASE \E pc \in {"report", "waiting"} : st' = [st EXCEPT ![p].pc = pc]
      <4>1. PICK pc \in {"report", "waiting"} : st' = [st EXCEPT ![p].pc = pc]
        BY <3>1
      <4>2. st' = [st EXCEPT ![p] = [v EXCEPT !.pc = pc]]
        BY <1>0, <2>2, <4>1 DEF StoppersTyped
      <4>3. st' = [st EXCEPT ![p] = [v EXCEPT !.pc = pc, !.clean = v.clean]]
        BY <2>5, <4>2
      <4> QED
        BY <2>4, <4>3
    <3>2. CASE st' = [st EXCEPT ![p].pc = "report", ![p].clean = FALSE]
      BY <1>0, <2>2, <3>2 DEF StoppersTyped
    <3> QED
      BY <1>12, <3>1, <3>2 DEF StopSend, StopTimeout
  <2>7. StoppersTyped'
    BY <1>0, <2>1, <2>2, <2>6, StopperPlaces, StopperMoves
  <2> QED
    BY <1>2, <1>3, <1>4, <1>12, <2>7, BooksStay DEF StopSend, StopTimeout
<1>13. CASE StopCommit(p)
  <2>1. st[p].s \in Sessions
    BY <1>0, <1>13 DEF StopCommit, StopperNamed
  <2>2. PICK v : v = st[p]
    OBVIOUS
  <2>3. v \in StopperTypes
    BY <1>0, <2>2
  <2>4. v.clean \in BOOLEAN /\ [v EXCEPT !.pc = "inspect"]
                              = [v EXCEPT !.pc = "inspect", !.clean = v.clean]
    BY <2>3 DEF StopperTypes
  <2>5. st' = [st EXCEPT ![p] = [v EXCEPT !.pc = "inspect"]]
    BY <1>0, <1>13, <2>2 DEF StopCommit, StoppersTyped
  <2>6. StoppersTyped'
    BY <1>0, <2>1, <2>2, <2>3, <2>4, <2>5, StopperPlaces, StopperMoves, ZenonT(40)
  <2>7. LifecycleAfterStop(st[p].clean) \in Lifecycles
    BY DEF LifecycleAfterStop, Lifecycles
  <2>8. BooksTyped'
    BY <1>13, <2>1, <2>7 DEF StopCommit, TypeInv, BooksTyped, RecordsNamed
  <2> QED
    BY <1>2, <1>3, <1>4, <1>13, <2>6, <2>8 DEF StopCommit
<1>14. CASE StopInspect(p)
  <2>1. RequestersTyped'
    BY <1>0, <1>14, AnswerTypes DEF StopInspect
  <2>2. StoppersTyped'
    BY <1>6, <1>14 DEF StopInspect
  <2> QED
    BY <1>2, <1>3, <1>14, <2>1, <2>2, BooksStay DEF StopInspect
<1> QED
  BY <1>7, <1>8, <1>9, <1>10, <1>11, <1>12, <1>13, <1>14 DEF Stopping

\* Each step of a shutdown keeps the types.
LEMMA ShutdownTypes ==
    ASSUME TypeInv, NEW q \in Requesters, ShuttingDown(q)
    PROVE  TypeInv'
<1>0. /\ UNCHANGED <<records, rt, lt, st>>
      /\ BooksTyped' /\ RuntimesTyped' /\ LaunchersTyped' /\ StoppersTyped'
  <2>1. UNCHANGED <<records, rt, lt, st>>
    BY DEF ShuttingDown, ShutdownBegin, ShutdownResolved, ShutdownUnresolved, ShutdownRecords,
           ShutdownDrain, ShutdownAnswered, ShutdownAbandoned
  <2> QED
    BY <2>1, BooksStay DEF TypeInv, RuntimesTyped, LaunchersTyped, StoppersTyped
<1>1. PICK v : v = sd[q]
  OBVIOUS
<1>2. v \in RequesterTypes
  BY <1>1 DEF TypeInv, RequestersTyped
<1>3. ASSUME NEW w \in RequesterTypes, sd' = [sd EXCEPT ![q] = w] PROVE RequestersTyped'
  BY <1>3 DEF TypeInv, RequestersTyped
<1>4. ASSUME NEW pc \in {"records", "drain"} PROVE [v EXCEPT !.pc = pc] \in RequesterTypes
  BY <1>2 DEF RequesterTypes
<1>5. IdleRequester \in RequesterTypes
  BY ConstantsAssumption DEF IdleRequester, RequesterTypes
<1>6. ASSUME NEW ok \in BOOLEAN, Reply(q, ok) PROVE RequestersTyped'
  <2>1. [IdleRequester EXCEPT !.pc = "reply", !.ok = ok] \in RequesterTypes
    BY <1>5 DEF RequesterTypes
  <2> QED
    BY <1>3, <1>6, <2>1 DEF Reply
<1>7. ASSUME NEW pc \in {"records", "drain"}, sd' = [sd EXCEPT ![q].pc = pc] PROVE RequestersTyped'
  <2>1. sd' = [sd EXCEPT ![q] = [v EXCEPT !.pc = pc]]
    BY <1>1, <1>7 DEF TypeInv, RequestersTyped
  <2> QED
    BY <1>3, <1>4, <2>1
<1>8. ASSUME RequestersTyped', SwitchesTyped' PROVE TypeInv'
  BY <1>0, <1>8 DEF TypeInv
<1>9. ASSUME NEW force \in BOOLEAN, ShutdownBegin(q, force) PROVE TypeInv'
  <2>1. CASE Reply(q, FALSE) /\ UNCHANGED <<shutting_down, attempts>>
    <3>1. SwitchesTyped'
      BY <1>9, <2>1 DEF ShutdownBegin, TypeInv, SwitchesTyped
    <3> QED
      BY <1>6, <1>8, <2>1, <3>1
  <2>2. CASE \E owned \in SUBSET {s \in Sessions : present[s]} :
                /\ shutting_down' = TRUE
                /\ attempts' = attempts + 1
                /\ sd' = [sd EXCEPT ![q] = [IdleRequester EXCEPT
                             !.pc = "stopping", !.id = attempts + 1, !.pending = owned,
                             !.asked = {<<s, gen[s]>> : s \in owned}]]
    <3>1. PICK owned \in SUBSET {s \in Sessions : present[s]} :
                /\ shutting_down' = TRUE
                /\ attempts' = attempts + 1
                /\ sd' = [sd EXCEPT ![q] = [IdleRequester EXCEPT
                             !.pc = "stopping", !.id = attempts + 1, !.pending = owned,
                             !.asked = {<<s, gen[s]>> : s \in owned}]]
      BY <2>2
    <3>2. attempts + 1 \in 0..MaxShutdowns
      <4>1. attempts \in Nat /\ attempts' # attempts
        BY <3>1, ConstantsAssumption DEF TypeInv, SwitchesTyped
      <4>2. attempts < MaxShutdowns
        BY <1>9, <4>1 DEF ShutdownBegin
      <4> QED
        BY <4>1, <4>2, ConstantsAssumption
    <3>3. \A s \in owned : s \in Sessions /\ gen[s] \in Generations
      BY DEF TypeInv, BooksTyped, RecordsNamed
    <3>4. PICK asked : asked = {<<s, gen[s]>> : s \in owned}
      OBVIOUS
    <3>5. asked \subseteq Sessions \X Generations
      BY <3>3, <3>4
    <3>6. [IdleRequester EXCEPT !.pc = "stopping", !.id = attempts + 1, !.pending = owned,
                                !.asked = asked] \in RequesterTypes
      BY <1>5, <3>2, <3>3, <3>5 DEF RequesterTypes
    <3>7. RequestersTyped'
      BY <1>3, <3>1, <3>4, <3>6
    <3>8. SwitchesTyped'
      BY <1>9, <3>1, <3>2 DEF ShutdownBegin, TypeInv, SwitchesTyped
    <3> QED
      BY <1>8, <3>7, <3>8
  <2>3. {s \in Sessions : present[s] /\ mine[s] /\ OwnsProcess(s)} \in SUBSET {s \in Sessions : present[s]}
    OBVIOUS
  <2> QED
    BY <1>9, <2>1, <2>2, <2>3 DEF ShutdownBegin
<1>10. CASE ShutdownResolved(q)
  BY <1>7, <1>8, <1>10 DEF ShutdownResolved, TypeInv, SwitchesTyped
<1>11. CASE ShutdownUnresolved(q)
  BY <1>6, <1>8, <1>11 DEF ShutdownUnresolved, GiveUp, Lift, TypeInv, SwitchesTyped
<1>12. CASE ShutdownRecords(q)
  <2>1. SwitchesTyped'
    BY <1>12 DEF ShutdownRecords, GiveUp, Lift, TypeInv, SwitchesTyped
  <2>2. RequestersTyped'
    BY <1>6, <1>7, <1>12 DEF ShutdownRecords, GiveUp
  <2> QED
    BY <1>8, <2>1, <2>2
<1>13. CASE ShutdownDrain(q)
  <2>1. SwitchesTyped'
    BY <1>13 DEF ShutdownDrain, GiveUp, Lift, TypeInv, SwitchesTyped
  <2>2. RequestersTyped'
    BY <1>6, <1>13 DEF ShutdownDrain, GiveUp
  <2> QED
    BY <1>8, <2>1, <2>2
<1>14. CASE ShutdownAnswered(q) \/ ShutdownAbandoned(q)
  <2>1. RequestersTyped'
    BY <1>3, <1>5, <1>14 DEF ShutdownAnswered, ShutdownAbandoned
  <2>2. shutting_down' \in BOOLEAN /\ attempts' \in 0..MaxShutdowns
    BY <1>14 DEF ShutdownAnswered, ShutdownAbandoned, Lift, TypeInv, SwitchesTyped
  <2>3. down' \in BOOLEAN
    <3>1. CASE ShutdownAbandoned(q)
      BY <3>1 DEF ShutdownAbandoned, TypeInv, SwitchesTyped
    <3>2. CASE down' = (down \/ sd[q].ok)
      BY <3>2, Zenon
    <3> QED
      BY <1>14, <3>1, <3>2 DEF ShutdownAnswered
  <2>4. SwitchesTyped'
    BY <2>2, <2>3 DEF SwitchesTyped
  <2> QED
    BY <1>8, <2>1, <2>4
<1> QED
  BY <1>9, <1>10, <1>11, <1>12, <1>13, <1>14 DEF ShuttingDown

\* A session thread answers the threads that wait for it, and no other.
RepliesInv ==
    \A p \in Stoppers, s \in Sessions, g \in Generations :
        p \in rt[s][g].replies => st[p].pc = "waiting" /\ st[p].s = s /\ st[p].gen = g

\* Each step of a session thread keeps the types.
LEMMA SessionTypes ==
    ASSUME TypeInv, RepliesInv, NEW s \in Sessions, NEW g \in Generations,
           Child(s, g) \/ SessionThread(s, g)
    PROVE  TypeInv'
<1>0. UNCHANGED <<lt, sd, shutting_down, attempts, down>>
  BY DEF Child, SessionThread, ChildForks, ChildEnds, DescendantsEnd, Start, Announce, ChildExited,
         RecordExit, PublishExit, WaiterFails, Finalize, StopOverdue, CompleteStop, ThreadEnds,
         NoticeLifecycle, NoticeCompleted, RecordCompleted, ReleaseRuntime, threads
<1>1. RuntimesTyped'
  BY SessionCells, OneCellEvolves DEF CellsEvolve, CellsStep, TypeInv
<1>2. ASSUME BooksTyped', StoppersTyped' PROVE TypeInv'
  BY <1>0, <1>1, <1>2 DEF TypeInv, LaunchersTyped, RequestersTyped, SwitchesTyped
<1>3. UNCHANGED st => StoppersTyped'
  BY DEF TypeInv, StoppersTyped
<1>4. CASE UNCHANGED <<records, st>>
  BY <1>2, <1>3, <1>4, BooksStay
<1>5. CASE CompleteStop(s, g)
  <2>1. ASSUME NEW p \in Stoppers PROVE st'[p] \in StopperTypes /\ StopperNamed(st'[p])
    <3>1. PICK b : b = (rt[s][g].exit /\ ~rt[s][g].unverified /\ ~rt[s][g].descendants)
      OBVIOUS
    <3>2. b \in BOOLEAN
      BY <3>1, Zenon
    <3>3. PICK v : v = st[p]
      OBVIOUS
    <3>4. st'[p] = IF p \in rt[s][g].replies THEN [v EXCEPT !.pc = "report", !.clean = b] ELSE v
      BY <1>5, <3>1, <3>3 DEF CompleteStop
    <3>5. v \in StopperTypes /\ StopperNamed(v)
      BY <3>3 DEF TypeInv, StoppersTyped
    <3>6. p \in rt[s][g].replies => v.s \in Sessions /\ v.gen \in Generations
      BY <3>3 DEF RepliesInv
    <3> QED
      BY <3>2, <3>4, <3>5, <3>6, StopperPlaces
  <2>2. StoppersTyped'
    BY <1>5, <2>1 DEF CompleteStop, StoppersTyped
  <2> QED
    BY <1>2, <1>5, <2>2, BooksStay DEF CompleteStop
<1>6. CASE NoticeLifecycle(s, g)
  <2>1. rt[s][g].notice \in Lifecycles
    BY <1>6 DEF NoticeLifecycle, Lifecycles
  <2>2. BooksTyped'
    BY <1>6, <2>1 DEF NoticeLifecycle, TypeInv, BooksTyped, RecordsNamed
  <2> QED
    BY <1>2, <1>3, <1>6, <2>2 DEF NoticeLifecycle, threads
<1>7. CASE RecordCompleted(s, g)
  <2>1. g \in 0..MaxGeneration
    BY FirstGeneration
  <2>2. BooksTyped'
    BY <1>7, <2>1 DEF RecordCompleted, TypeInv, BooksTyped, RecordsNamed
  <2> QED
    BY <1>2, <1>3, <1>7, <2>2 DEF RecordCompleted, threads
<1>8. CASE ReleaseRuntime(s, g)
  <2>1. 0 \in 0..MaxGeneration
    BY ConstantsAssumption
  <2>2. BooksTyped'
    BY <1>8, <2>1 DEF ReleaseRuntime, TypeInv, BooksTyped, RecordsNamed
  <2> QED
    BY <1>2, <1>3, <1>8, <2>2 DEF ReleaseRuntime, threads
<1> QED
  BY <1>4, <1>5, <1>6, <1>7, <1>8
  DEF Child, SessionThread, ChildForks, ChildEnds, DescendantsEnd, Start, Announce, ChildExited,
      RecordExit, PublishExit, WaiterFails, Finalize, StopOverdue, ThreadEnds, NoticeCompleted,
      threads

\* A removal keeps the types.
LEMMA RemovalTypes ==
    ASSUME TypeInv, NEW s \in Sessions, Remove(s) \/ Trim(s)
    PROVE  TypeInv'
<1>1. Drop(s)
  BY DEF Remove, Trim
<1>2. BooksTyped'
  BY <1>1, ConstantsAssumption DEF Drop, TypeInv, BooksTyped, RecordsNamed
<1> QED
  BY <1>1, <1>2 DEF Drop, threads, TypeInv, RuntimesTyped, LaunchersTyped, StoppersTyped,
                    RequestersTyped, SwitchesTyped

\* A stop that is waited for stays waited for until it is answered or given up.
LEMMA RepliesStep ==
    ASSUME TypeInv, RepliesInv, [Next]_vars
    PROVE  RepliesInv'
<1>0. RuntimesTyped /\ StoppersTyped
  BY DEF TypeInv
<1>1. ASSUME RepliesKept, UNCHANGED st PROVE RepliesInv'
  BY <1>1 DEF RepliesKept, RepliesInv
<1>2. CASE UNCHANGED vars
  BY <1>2 DEF vars, threads, RepliesInv
<1>3. ASSUME NEW l \in Launchers, Launching(l) PROVE RepliesInv'
  <2>1. UNCHANGED st
    BY <1>3 DEF Launching, CreateBegin, RestartBegin, CreateAdmit, CreatePersist, RestartLedger,
                RestartAdmit, RestartPersist, AdmissionWait, LaunchRefused, Spawn, Register, Await,
                Commit, FailLaunch
  <2> QED
    BY <1>1, <1>3, <2>1, LauncherCells
<1>4. ASSUME NEW p \in Stoppers, Stopping(p) PROVE RepliesInv'
  <2>0. \A k \in Stoppers : k # p => st'[k] = st[k]
    BY <1>0, <1>4
    DEF Stopping, ClientStop, CancelledStop, ShutdownStop, StopAsked, StopBegin, StopCheck,
        StopSend, StopTimeout, StopCommit, StopInspect, StoppersTyped
  <2>1. CASE st[p].pc # "waiting" /\ RepliesKept
    BY <2>0, <2>1 DEF RepliesKept, RepliesInv
  <2>2. CASE StopTimeout(p)
    <3>1. st[p].s \in Sessions /\ st[p].gen \in Generations
      BY <1>0, <2>2 DEF StopTimeout, StoppersTyped, StopperNamed
    <3>2. PICK r : r = rt[st[p].s][st[p].gen]
      OBVIOUS
    <3>3. r \in RuntimeTypes
      BY <1>0, <3>1, <3>2 DEF RuntimesTyped
    <3>4. rt' = [rt EXCEPT ![st[p].s][st[p].gen] = [r EXCEPT !.replies = r.replies \ {p}]]
      BY <1>0, <2>2, <3>1, <3>2 DEF StopTimeout, RuntimesTyped
    <3>5. [r EXCEPT !.replies = r.replies \ {p}] \in RuntimeTypes
          /\ [r EXCEPT !.replies = r.replies \ {p}].replies = r.replies \ {p}
      BY <3>3 DEF RuntimeTypes
    <3>6. /\ rt'[st[p].s][st[p].gen].replies = r.replies \ {p}
          /\ \A t \in Sessions, h \in Generations :
                <<t, h>> # <<st[p].s, st[p].gen>> => rt'[t][h] = rt[t][h]
      BY <1>0, <3>1, <3>4, <3>5, RuntimeUpdate DEF RuntimesTyped
    <3> QED
      BY <2>0, <3>1, <3>2, <3>6 DEF RepliesInv
  <2>3. CASE StopSend(p) /\ ~RepliesKept
    <3>1. st[p].s \in Sessions /\ st[p].gen \in Generations
      BY <1>0, <2>3 DEF StopSend, StoppersTyped, StopperNamed
    <3>2. PICK r : r = rt[st[p].s][st[p].gen]
      OBVIOUS
    <3>3. r \in RuntimeTypes
      BY <1>0, <3>1, <3>2 DEF RuntimesTyped
    <3>4. /\ ~UNCHANGED rt
          /\ st' = [st EXCEPT ![p].pc = "waiting"]
          /\ rt' = [rt EXCEPT ![st[p].s][st[p].gen] =
                                 [r EXCEPT !.stopping = TRUE, !.replies = r.replies \cup {p}]]
      BY <1>0, <2>3, <3>1, <3>2, CellsStay DEF StopSend, RuntimesTyped, BeginStop
    <3>5. [r EXCEPT !.stopping = TRUE, !.replies = r.replies \cup {p}] \in RuntimeTypes
          /\ [r EXCEPT !.stopping = TRUE, !.replies = r.replies \cup {p}].replies = r.replies \cup {p}
      BY <3>3 DEF RuntimeTypes
    <3>6. /\ rt'[st[p].s][st[p].gen].replies = r.replies \cup {p}
          /\ \A t \in Sessions, h \in Generations :
                <<t, h>> # <<st[p].s, st[p].gen>> => rt'[t][h] = rt[t][h]
      BY <1>0, <3>1, <3>4, <3>5, RuntimeUpdate DEF RuntimesTyped
    <3>7. st'[p].pc = "waiting" /\ st'[p].s = st[p].s /\ st'[p].gen = st[p].gen /\ st[p].pc = "send"
      BY <1>0, <2>3, <3>4 DEF StopSend, StoppersTyped, StopperTypes
    <3>8. ASSUME NEW k \in Stoppers, NEW t \in Sessions, NEW h \in Generations, k \in rt'[t][h].replies
          PROVE  st'[k].pc = "waiting" /\ st'[k].s = t /\ st'[k].gen = h
      <4>1. CASE k # p
        BY <2>0, <3>1, <3>2, <3>6, <3>8, <4>1 DEF RepliesInv
      <4>2. CASE k = p
        BY <3>1, <3>2, <3>6, <3>7, <3>8, <4>2 DEF RepliesInv
      <4> QED
        BY <4>1, <4>2
    <3> QED
      BY <3>8 DEF RepliesInv
  <2>4. st[p].pc = "waiting" => StopTimeout(p)
    BY <1>4 DEF Stopping, ClientStop, CancelledStop, ShutdownStop, StopBegin, StopCheck,
                StopSend, StopTimeout, StopCommit, StopInspect
  <2> QED
    BY <1>4, <2>1, <2>2, <2>3, <2>4, StopperCells
<1>5. ASSUME NEW q \in Requesters, ShuttingDown(q) PROVE RepliesInv'
  <2>1. UNCHANGED <<rt, st>>
    BY <1>5 DEF ShuttingDown, ShutdownBegin, ShutdownResolved, ShutdownUnresolved, ShutdownRecords,
                ShutdownDrain, ShutdownAnswered, ShutdownAbandoned
  <2> QED
    BY <1>0, <1>1, <2>1, CellsStay
<1>6. ASSUME NEW s \in Sessions, NEW g \in Generations, Child(s, g) \/ SessionThread(s, g)
      PROVE  RepliesInv'
  <2>1. RepliesKept
    BY <1>0, <1>6, SessionCells, OneCellEvolves DEF CellsStep
  <2>2. CASE CompleteStop(s, g)
    <3>1. PICK r : r = rt[s][g]
      OBVIOUS
    <3>2. r \in RuntimeTypes
      BY <1>0, <3>1 DEF RuntimesTyped
    <3>3. PICK r2 : r2 = [r EXCEPT !.stopping = FALSE, !.overdue = FALSE, !.replies = {}]
      OBVIOUS
    <3>4. rt' = [rt EXCEPT ![s][g] = r2]
      BY <1>0, <2>2, <3>1, <3>3 DEF CompleteStop, RuntimesTyped
    <3>5. r2 \in RuntimeTypes /\ r2.replies = {}
      BY <3>2, <3>3 DEF RuntimeTypes
    <3>6. /\ rt'[s][g].replies = {}
          /\ \A t \in Sessions, h \in Generations : <<t, h>> # <<s, g>> => rt'[t][h] = rt[t][h]
      BY <1>0, <3>4, <3>5, RuntimeUpdate DEF RuntimesTyped
    <3>7. \A p \in Stoppers : p \notin r.replies => st'[p] = st[p]
      BY <2>2, <3>1 DEF CompleteStop
    <3> QED
      BY <3>1, <3>6, <3>7 DEF RepliesInv
  <2>3. UNCHANGED st \/ CompleteStop(s, g)
    BY <1>6 DEF Child, SessionThread, ChildForks, ChildEnds, DescendantsEnd, Start, Announce,
         ChildExited, RecordExit, PublishExit, WaiterFails, Finalize, StopOverdue, ThreadEnds,
         NoticeLifecycle, NoticeCompleted, RecordCompleted, ReleaseRuntime, threads
  <2> QED
    BY <1>1, <2>1, <2>2, <2>3
<1>7. ASSUME NEW s \in Sessions, Remove(s) \/ Trim(s) PROVE RepliesInv'
  BY <1>7 DEF Remove, Trim, Drop, threads, RepliesInv
<1> QED
  BY <1>2, <1>3, <1>4, <1>5, <1>6, <1>7 DEF Next

\* The types hold at the start and after every step.
LEMMA TypesInit == ASSUME Init PROVE TypeInv /\ RepliesInv
<1>0. /\ 1 \in Generations /\ Generations \subseteq 0..MaxGeneration
      /\ 0 \in 0..MaxGeneration /\ 0 \in 0..MaxShutdowns
  BY FirstGeneration, ConstantsAssumption
<1>1. BooksTyped
  <2>1. /\ known \subseteq Sessions /\ present \in [Sessions -> BOOLEAN]
        /\ mine \in [Sessions -> BOOLEAN] /\ ledger \in [Sessions -> Launchers \cup {"free"}]
    BY ConstantsAssumption DEF Init
  <2>2. /\ gen \in [Sessions -> 0..MaxGeneration] /\ slot \in [Sessions -> 0..MaxGeneration]
        /\ completed \in [Sessions -> 0..MaxGeneration]
    BY <1>0 DEF Init
  <2>3. lifecycle \in [Sessions -> Lifecycles]
    BY DEF Init, Lifecycles
  <2>4. launch \in [Sessions -> LaunchTypes]
    BY LaunchType DEF Init
  <2>5. RecordsNamed
    BY <1>0 DEF Init, RecordsNamed
  <2> QED
    BY <2>1, <2>2, <2>3, <2>4, <2>5 DEF BooksTyped
<1>2. NoRuntime \in RuntimeTypes /\ NoRuntime.replies = {}
  BY DEF NoRuntime, RuntimeTypes
<1>3. RuntimesTyped
  BY <1>2 DEF Init, RuntimesTyped
<1>4. LaunchersTyped
  BY IdleLauncherType DEF Init, LaunchersTyped
<1>5. StoppersTyped
  BY StopperPlaces DEF Init, StoppersTyped
<1>6. IdleRequester \in RequesterTypes
  BY <1>0 DEF IdleRequester, RequesterTypes
<1>7. RequestersTyped /\ SwitchesTyped
  BY <1>0, <1>6 DEF Init, RequestersTyped, SwitchesTyped
<1>8. RepliesInv
  BY <1>2 DEF Init, RepliesInv
<1> QED
  BY <1>1, <1>3, <1>4, <1>5, <1>7, <1>8 DEF TypeInv

\* ... and every step keeps them.
LEMMA TypesStep == ASSUME TypeInv, RepliesInv, [Next]_vars PROVE TypeInv' /\ RepliesInv'
<1>1. CASE UNCHANGED vars
  BY <1>1, RepliesStep
  DEF vars, records, threads, TypeInv, BooksTyped, RecordsNamed, RuntimesTyped, LaunchersTyped,
      StoppersTyped, RequestersTyped, SwitchesTyped
<1>2. CASE Next
  <2>1. TypeInv'
    BY <1>2, LaunchingTypes, StoppingTypes, ShutdownTypes, SessionTypes, RemovalTypes DEF Next
  <2> QED
    BY <2>1, RepliesStep
<1> QED
  BY <1>1, <1>2

\* The history variables: which sessions are undone, and that the refusal was lifted.
HistoryTyped == undone \subseteq Sessions /\ lifted \in BOOLEAN

\* They are touched by a failed restart, a commit and the requesters only.
LEMMA HistoryStep == ASSUME TypeInv, HistoryTyped, [Next]_vars PROVE HistoryTyped'
<1>1. ASSUME UNCHANGED history PROVE HistoryTyped'
  BY <1>1 DEF history, HistoryTyped
<1>2. ASSUME NEW l \in Launchers, Launching(l) PROVE HistoryTyped'
  <2>1. CASE RestartPersist(l) \/ Commit(l)
    <3>1. lt[l].s \in Sessions
      BY <2>1 DEF RestartPersist, Commit, TypeInv, LaunchersTyped, LauncherNamed
    <3> QED
      BY <2>1, <3>1 DEF RestartPersist, Commit, HistoryTyped
  <2> QED
    BY <1>1, <1>2, <2>1
    DEF Launching, CreateBegin, CreateAdmit, CreatePersist, RestartBegin, RestartLedger,
        RestartAdmit, AdmissionWait, LaunchRefused, Spawn, Register, Await, FailLaunch
<1>3. ASSUME NEW p \in Stoppers, Stopping(p) PROVE HistoryTyped'
  BY <1>1, <1>3 DEF Stopping, ClientStop, CancelledStop, ShutdownStop, StopBegin, StopCheck,
                    StopSend, StopTimeout, StopCommit, StopInspect
<1>4. ASSUME NEW q \in Requesters, ShuttingDown(q) PROVE HistoryTyped'
  <2>1. ASSUME Lift(q) PROVE lifted' \in BOOLEAN
    BY <2>1, Zenon DEF Lift
  <2>2. ASSUME lifted' = OtherRelies(q) PROVE lifted' \in BOOLEAN
    BY <2>2, Zenon DEF OtherRelies
  <2>3. CASE UNCHANGED undone /\ (Lift(q) \/ lifted' = OtherRelies(q) \/ UNCHANGED lifted)
    BY <2>1, <2>2, <2>3 DEF HistoryTyped
  <2> QED
    BY <1>4, <2>3
    DEF ShuttingDown, ShutdownBegin, ShutdownResolved, ShutdownUnresolved, ShutdownRecords,
        ShutdownDrain, ShutdownAnswered, ShutdownAbandoned, GiveUp, history
<1>5. ASSUME NEW s \in Sessions, NEW g \in Generations, Child(s, g) \/ SessionThread(s, g)
      PROVE  HistoryTyped'
  BY <1>1, <1>5
  DEF Child, SessionThread, ChildForks, ChildEnds, DescendantsEnd, Start, Announce, ChildExited,
      RecordExit, PublishExit, WaiterFails, Finalize, StopOverdue, CompleteStop, ThreadEnds,
      NoticeLifecycle, NoticeCompleted, RecordCompleted, ReleaseRuntime
<1>6. ASSUME NEW s \in Sessions, Remove(s) \/ Trim(s) PROVE HistoryTyped'
  BY <1>1, <1>6 DEF Remove, Trim, Drop
<1>7. CASE UNCHANGED vars
  BY <1>1, <1>7 DEF vars
<1> QED
  BY <1>2, <1>3, <1>4, <1>5, <1>6, <1>7 DEF Next

\* The type invariant of the session registry, for any number of sessions,
\* generations and threads.
THEOREM HostTypes == Spec => []TypeOK
<1>1. TypeInv /\ HistoryTyped => TypeOK
  BY DEF TypeInv, BooksTyped, RuntimesTyped, LaunchersTyped, StoppersTyped, RequestersTyped,
         SwitchesTyped, HistoryTyped, TypeOK
<1>2. Init => HistoryTyped
  BY DEF Init, HistoryTyped
<1> QED
  BY <1>1, <1>2, TypesInit, TypesStep, HistoryStep, PTL DEF Spec

-----------------------------------------------------------------------------
(***************************************************************************)
(* Who answers for a process: the invariant of the registry                *)
(***************************************************************************)

\* A launcher is here from the admission of its launch to its commit or failure.
LaunchPcs == {"persist_create", "persist_restart", "spawn", "register", "wait", "commit", "fail"}

\* The launch that a launcher works on is the one its record shows, and the
\* session thread is as far as the launcher is.
LauncherInv(l) ==
    /\ lt[l].pc \in LaunchPcs =>
          /\ present[lt[l].s] /\ mine[lt[l].s] /\ gen[lt[l].s] = lt[l].gen
          /\ launch[lt[l].s].op = l /\ launch[lt[l].s].gen = lt[l].gen
    /\ lt[l].pc \in {"persist_create", "persist_restart", "spawn"} =>
          rt[lt[l].s][lt[l].gen].pc = "none" /\ lifecycle[lt[l].s] = "starting"
    /\ lt[l].pc \in {"register", "wait", "commit"} => rt[lt[l].s][lt[l].gen].pc # "none"
    /\ lt[l].pc = "fail" => \/ rt[lt[l].s][lt[l].gen].pc = "none"
                            \/ rt[lt[l].s][lt[l].gen].startup = "failed"
    /\ lt[l].pc \in {"ledger", "restart", "persist_restart"} =>
          lt[l].prior[1] = lt[l].gen - 1 /\ lt[l].prior[2] # "starting"

\* A session under creation is unknown to everyone else.
CreatorInv(l) ==
    lt[l].pc = "create" =>
        /\ lt[l].gen = 1 /\ lt[l].s \in known /\ ~present[lt[l].s]
        /\ \A h \in Generations : rt[lt[l].s][h].pc = "none"
        /\ \A k \in Launchers : lt[k].pc # "idle" /\ lt[k].s = lt[l].s => k = l

\* The record of a session knows its launch and every process that may be left.
BookInv(s) ==
    /\ launch[s] # NoLaunch =>
          \E l \in Launchers : launch[s].op = l /\ lt[l].s = s /\ lt[l].pc \in LaunchPcs
    /\ present[s] /\ lifecycle[s] = "starting" => launch[s] # NoLaunch
    /\ s \notin known => /\ ~present[s]
                         /\ \A g \in Generations : rt[s][g].pc = "none"
                         /\ \A l \in Launchers : lt[l].pc # "idle" => lt[l].s # s
    /\ slot[s] # 0 => rt[s][slot[s]].pc # "none"
    /\ \A g \in Generations : rt[s][g].pc # "none" => g <= gen[s]
    /\ \A g \in Generations : Open(rt[s][g]) =>
          /\ present[s] /\ mine[s] /\ gen[s] = g
          /\ launch[s] = NoLaunch => slot[s] = g
    /\ present[s] /\ mine[s] /\ lifecycle[s] = "exited" /\ gen[s] # 0 => ~Open(rt[s][gen[s]])

\* A stop that reports a clean end saw one.
StopperInv(p) ==
    /\ st[p].pc \in {"check", "send", "waiting", "report"} => rt[st[p].s][st[p].gen].pc # "none"
    /\ st[p].pc \in {"send", "waiting"} => ~st[p].clean
    /\ st[p].pc = "report" /\ st[p].clean => Settled(rt[st[p].s][st[p].gen])

CellsInv == \A s \in Sessions, g \in Generations : RuntimeInv(rt[s][g])
BooksInv == \A s \in Sessions : BookInv(s)
LaunchersInv == \A l \in Launchers : LauncherInv(l) /\ CreatorInv(l)
StoppersInv == \A p \in Stoppers : StopperInv(p)

RegistryInv == TypeInv /\ RepliesInv /\ CellsInv /\ BooksInv /\ LaunchersInv /\ StoppersInv

\* Cells that evolve keep their invariant.
LEMMA CellsInvKept == ASSUME CellsInv, CellsEvolve PROVE CellsInv'
BY DEF CellsInv, CellsEvolve, Evolves

\* The cells of one session evolve.
CellsAt(s) == \A g \in Generations : Evolves(rt[s][g], rt'[s][g])

\* The record of one session is the same.
SameBook(s) ==
    /\ present'[s] = present[s] /\ gen'[s] = gen[s] /\ lifecycle'[s] = lifecycle[s]
    /\ mine'[s] = mine[s] /\ launch'[s] = launch[s] /\ slot'[s] = slot[s]

\* A step by a launcher that works on session s, or begins or ends to.
OneLauncher(l, s) ==
    /\ \A k \in Launchers : k # l => lt'[k] = lt[k]
    /\ lt[l].pc # "idle" => lt[l].s = s
    /\ lt'[l].pc # "idle" => lt'[l].s = s

\* A step on another session leaves a record in order, ...
LEMMA OtherBook ==
    ASSUME TypeInv, TypeInv', NEW t \in Sessions, BookInv(t), CellsAt(t), SameBook(t),
           NEW l \in Launchers, NEW s \in Sessions, OneLauncher(l, s), t # s,
           known \subseteq known', known' \subseteq known \cup {s}
    PROVE  BookInv(t)'
<1>0. \A g \in Generations : rt[t][g] \in RuntimeTypes /\ rt'[t][g] \in RuntimeTypes
  BY DEF TypeInv, RuntimesTyped
<1>1. \A g \in Generations : /\ rt'[t][g].pc = "none" <=> rt[t][g].pc = "none"
                             /\ Open(rt'[t][g]) => Open(rt[t][g])
  BY DEF CellsAt, Evolves
<1>2. /\ launch'[t] # NoLaunch =>
          \E k \in Launchers : launch'[t].op = k /\ lt'[k].s = t /\ lt'[k].pc \in LaunchPcs
      /\ present'[t] /\ lifecycle'[t] = "starting" => launch'[t] # NoLaunch
  <2>1. ASSUME launch'[t] # NoLaunch
        PROVE  \E k \in Launchers : launch'[t].op = k /\ lt'[k].s = t /\ lt'[k].pc \in LaunchPcs
    <3>1. PICK k \in Launchers : launch[t].op = k /\ lt[k].s = t /\ lt[k].pc \in LaunchPcs
      BY <2>1 DEF SameBook, BookInv
    <3>2. k # l
      BY <3>1 DEF OneLauncher, LaunchPcs
    <3> QED
      BY <3>1, <3>2 DEF OneLauncher, SameBook
  <2> QED
    BY <2>1 DEF SameBook, BookInv
<1>3. t \notin known' => /\ ~present'[t]
                         /\ \A g \in Generations : rt'[t][g].pc = "none"
                         /\ \A k \in Launchers : lt'[k].pc # "idle" => lt'[k].s # t
  BY <1>1 DEF SameBook, BookInv, OneLauncher
<1>4. slot'[t] # 0 => rt'[t][slot'[t]].pc # "none"
  <2>1. slot[t] # 0 => slot[t] \in Generations
    BY ConstantsAssumption DEF TypeInv, BooksTyped, Generations
  <2> QED
    BY <1>1, <2>1 DEF SameBook, BookInv
<1>5. \A g \in Generations : rt'[t][g].pc # "none" => g <= gen'[t]
  BY <1>1 DEF SameBook, BookInv
<1>6. \A g \in Generations : Open(rt'[t][g]) =>
          /\ present'[t] /\ mine'[t] /\ gen'[t] = g
          /\ launch'[t] = NoLaunch => slot'[t] = g
  BY <1>1 DEF SameBook, BookInv
<1>7. present'[t] /\ mine'[t] /\ lifecycle'[t] = "exited" /\ gen'[t] # 0 => ~Open(rt'[t][gen'[t]])
  <2>1. gen[t] # 0 => gen[t] \in Generations
    BY ConstantsAssumption DEF TypeInv, BooksTyped, Generations
  <2> QED
    BY <1>1, <2>1 DEF SameBook, BookInv
<1> QED
  BY <1>2, <1>3, <1>4, <1>5, <1>6, <1>7 DEF BookInv

\* ... and the launchers that do not work on that session too.
LEMMA OtherLauncher ==
    ASSUME TypeInv, NEW k \in Launchers, LauncherInv(k), CreatorInv(k),
           NEW l \in Launchers, NEW s \in Sessions, OneLauncher(l, s), k # l,
           known \subseteq known',
           lt[k].pc \in LaunchPcs \cup {"create"} =>
               lt[k].s # s /\ SameBook(lt[k].s) /\ CellsAt(lt[k].s)
    PROVE  LauncherInv(k)' /\ CreatorInv(k)'
<1>0. lt'[k] = lt[k] /\ LauncherNamed(lt[k])
  BY DEF OneLauncher, TypeInv, LaunchersTyped
<1>1. CASE lt[k].pc \notin LaunchPcs \cup {"create"}
  BY <1>0, <1>1 DEF LauncherInv, CreatorInv, LaunchPcs
<1>2. CASE lt[k].pc \in LaunchPcs \cup {"create"}
  <2>1. PICK t \in Sessions, g \in Generations : lt[k].s = t /\ lt[k].gen = g
    BY <1>0, <1>2 DEF LauncherNamed, LaunchPcs
  <2>2. SameBook(t) /\ CellsAt(t) /\ t # s
    BY <1>2, <2>1
  <2>3. \A h \in Generations :
           /\ rt'[t][h].pc = "none" <=> rt[t][h].pc = "none"
           /\ rt[t][h].startup = "failed" => rt'[t][h].startup = "failed"
    BY <2>2 DEF CellsAt, Evolves
  <2>4. LauncherInv(k)'
    BY <1>0, <2>1, <2>2, <2>3 DEF LauncherInv, SameBook, LaunchPcs
  <2>5. CreatorInv(k)'
    BY <1>0, <2>1, <2>2, <2>3 DEF CreatorInv, SameBook, OneLauncher
  <2> QED
    BY <2>4, <2>5
<1> QED
  BY <1>1, <1>2

\* What a step by anyone but a launcher may do to a record.
QuietBook(s) ==
    /\ present'[s] = present[s] /\ mine'[s] = mine[s] /\ gen'[s] = gen[s]
    /\ launch'[s].op = launch[s].op /\ launch'[s].gen = launch[s].gen
    /\ launch'[s] = NoLaunch <=> launch[s] = NoLaunch
    /\ \/ lifecycle'[s] = lifecycle[s]
       \/ ~present[s]
       \/ /\ gen[s] \in Generations /\ rt[s][gen[s]].pc # "none" /\ lifecycle'[s] # "starting"
          /\ lifecycle'[s] = "exited" => ~Open(rt'[s][gen[s]])
    /\ \/ slot'[s] = slot[s]
       \/ slot'[s] = 0 /\ (launch[s] = NoLaunch => \A g \in Generations : ~Open(rt[s][g]))

\* A launcher that has no launch under way gives up, or comes one step closer.
CalmLauncher(k) ==
    \/ lt'[k].pc = "idle" /\ lt[k].pc \notin LaunchPcs
    \/ /\ lt'[k].s = lt[k].s /\ lt'[k].gen = lt[k].gen /\ lt'[k].prior = lt[k].prior
       /\ lt'[k].pc = lt[k].pc \/ (lt[k].pc = "ledger" /\ lt'[k].pc = "restart")

\* Such a step leaves the records and the launchers in order.
LEMMA QuietStep ==
    ASSUME TypeInv, TypeInv', CellsInv, BooksInv, LaunchersInv, CellsEvolve, UNCHANGED known,
           \A k \in Launchers : CalmLauncher(k),
           \A s \in Sessions : QuietBook(s)
    PROVE  BooksInv' /\ LaunchersInv'
<1>0. \A s \in Sessions, g \in Generations :
           /\ rt'[s][g].pc = "none" <=> rt[s][g].pc = "none"
           /\ rt[s][g].startup = "failed" => rt'[s][g].startup = "failed"
           /\ Open(rt'[s][g]) => Open(rt[s][g])
  BY DEF CellsInv, CellsEvolve, Evolves
<1>1. ASSUME NEW t \in Sessions PROVE BookInv(t)'
  <2>0. BookInv(t) /\ QuietBook(t)
    BY DEF BooksInv
  <2>1. ASSUME launch'[t] # NoLaunch
        PROVE  \E k \in Launchers : launch'[t].op = k /\ lt'[k].s = t /\ lt'[k].pc \in LaunchPcs
    <3>1. PICK k \in Launchers : launch[t].op = k /\ lt[k].s = t /\ lt[k].pc \in LaunchPcs
      BY <2>0, <2>1 DEF QuietBook, BookInv
    <3>2. lt'[k].s = lt[k].s /\ lt'[k].pc = lt[k].pc
      BY <3>1 DEF CalmLauncher, LaunchPcs
    <3> QED
      BY <2>0, <3>1, <3>2 DEF QuietBook
  <2>2. present'[t] /\ lifecycle'[t] = "starting" => launch'[t] # NoLaunch
    BY <2>0 DEF QuietBook, BookInv
  <2>3. t \notin known' => /\ ~present'[t]
                           /\ \A g \in Generations : rt'[t][g].pc = "none"
                           /\ \A k \in Launchers : lt'[k].pc # "idle" => lt'[k].s # t
    <3>1. \A k \in Launchers : lt'[k].pc # "idle" => lt[k].pc # "idle" /\ lt'[k].s = lt[k].s
      BY DEF CalmLauncher
    <3> QED
      BY <1>0, <2>0, <3>1 DEF QuietBook, BookInv
  <2>4. slot'[t] # 0 => rt'[t][slot'[t]].pc # "none"
    <3>1. slot[t] # 0 => slot[t] \in Generations
      BY ConstantsAssumption DEF TypeInv, BooksTyped, Generations
    <3> QED
      BY <1>0, <2>0, <3>1 DEF QuietBook, BookInv
  <2>5. \A g \in Generations : rt'[t][g].pc # "none" => g <= gen'[t]
    BY <1>0, <2>0 DEF QuietBook, BookInv
  <2>6. \A g \in Generations : Open(rt'[t][g]) =>
          /\ present'[t] /\ mine'[t] /\ gen'[t] = g
          /\ launch'[t] = NoLaunch => slot'[t] = g
    BY <1>0, <2>0 DEF QuietBook, BookInv
  <2>7. present'[t] /\ mine'[t] /\ lifecycle'[t] = "exited" /\ gen'[t] # 0 => ~Open(rt'[t][gen'[t]])
    <3>1. gen[t] # 0 => gen[t] \in Generations
      BY ConstantsAssumption DEF TypeInv, BooksTyped, Generations
    <3> QED
      BY <1>0, <2>0, <3>1 DEF QuietBook, BookInv
  <2> QED
    BY <2>1, <2>2, <2>3, <2>4, <2>5, <2>6, <2>7 DEF BookInv
<1>2. ASSUME NEW k \in Launchers PROVE LauncherInv(k)' /\ CreatorInv(k)'
  <2>1. CASE lt'[k].pc = "idle"
    BY <2>1 DEF LauncherInv, CreatorInv, LaunchPcs
  <2>2. CASE lt'[k].pc # "idle"
    <3>0. LauncherInv(k) /\ CreatorInv(k)
      BY DEF LaunchersInv
    <3>1. /\ lt[k].pc # "idle" /\ lt'[k].s = lt[k].s /\ lt'[k].gen = lt[k].gen
          /\ lt'[k].prior = lt[k].prior
          /\ lt'[k].pc = lt[k].pc \/ (lt[k].pc = "ledger" /\ lt'[k].pc = "restart")
      BY <2>2 DEF CalmLauncher
    <3>2. PICK t \in Sessions, g \in Generations : lt[k].s = t /\ lt[k].gen = g
      BY <3>1 DEF TypeInv, LaunchersTyped, LauncherNamed
    <3>3. QuietBook(t)
      OBVIOUS
    <3>4. LauncherInv(k)'
      BY <1>0, <3>0, <3>1, <3>2, <3>3 DEF LauncherInv, QuietBook, LaunchPcs
    <3>5. \A j \in Launchers : lt'[j].pc # "idle" => lt[j].pc # "idle" /\ lt'[j].s = lt[j].s
      BY DEF CalmLauncher
    <3>6. CreatorInv(k)'
      BY <1>0, <3>0, <3>1, <3>2, <3>3, <3>5 DEF CreatorInv, QuietBook
    <3> QED
      BY <3>4, <3>6
  <2> QED
    BY <2>1, <2>2
<1> QED
  BY <1>1, <1>2 DEF BooksInv, LaunchersInv

\* A stop that does not move keeps its word while the cells evolve.
LEMMA StopperKeeps ==
    ASSUME TypeInv, CellsInv, CellsEvolve, NEW p \in Stoppers, StopperInv(p), st'[p] = st[p]
    PROVE  StopperInv(p)'
<1>1. CASE st[p].pc \in {"check", "send", "waiting", "report"}
  <2>1. PICK s \in Sessions, g \in Generations : st[p].s = s /\ st[p].gen = g
    BY <1>1 DEF TypeInv, StoppersTyped, StopperNamed
  <2>2. /\ rt[s][g].pc # "none" => rt'[s][g].pc # "none"
        /\ Settled(rt[s][g]) => Settled(rt'[s][g])
    BY DEF CellsInv, CellsEvolve, Evolves
  <2> QED
    BY <1>1, <2>1, <2>2 DEF StopperInv
<1>2. CASE st[p].pc \notin {"check", "send", "waiting", "report"}
  BY <1>2 DEF StopperInv
<1> QED
  BY <1>1, <1>2

\* A launcher at work has its session to itself.
LEMMA SoleLauncher ==
    ASSUME LaunchersInv, NEW l \in Launchers, lt[l].pc \in LaunchPcs,
           NEW k \in Launchers, k # l, lt[k].s = lt[l].s
    PROVE  lt[k].pc \notin LaunchPcs \cup {"create"}
BY DEF LaunchersInv, LauncherInv, CreatorInv

\* So has the thread that restarts a session which has no launch.
LEMMA SoleRestart ==
    ASSUME LaunchersInv, NEW s \in Sessions, present[s], launch[s] = NoLaunch,
           NEW k \in Launchers, lt[k].s = s
    PROVE  lt[k].pc \notin LaunchPcs \cup {"create"}
<1>1. NoLaunch.op # k
  BY ConstantsAssumption DEF NoLaunch
<1> QED
  BY <1>1 DEF LaunchersInv, LauncherInv, CreatorInv

\* A step of a launcher has to be looked at for its own session only.
LEMMA LaunchFrame ==
    ASSUME TypeInv, TypeInv', BooksInv, LaunchersInv,
           NEW l \in Launchers, NEW s \in Sessions, OneLauncher(l, s),
           known \subseteq known', known' \subseteq known \cup {s},
           \A t \in Sessions : t # s => SameBook(t) /\ CellsAt(t),
           \A k \in Launchers : k # l /\ lt[k].s = s => lt[k].pc \notin LaunchPcs \cup {"create"},
           BookInv(s)', LauncherInv(l)', CreatorInv(l)'
    PROVE  BooksInv' /\ LaunchersInv'
<1>1. ASSUME NEW t \in Sessions PROVE BookInv(t)'
  <2>1. CASE t # s
    <3>1. BookInv(t) /\ SameBook(t) /\ CellsAt(t)
      BY <2>1 DEF BooksInv
    <3> QED
      BY <2>1, <3>1, OtherBook
  <2> QED
    BY <2>1
<1>2. ASSUME NEW k \in Launchers PROVE LauncherInv(k)' /\ CreatorInv(k)'
  <2>1. CASE k # l
    <3>1. LauncherInv(k) /\ CreatorInv(k)
      BY DEF LaunchersInv
    <3>2. ASSUME lt[k].pc \in LaunchPcs \cup {"create"}
          PROVE  lt[k].s # s /\ SameBook(lt[k].s) /\ CellsAt(lt[k].s)
      <4>1. lt[k].s \in Sessions
        BY <3>2 DEF TypeInv, LaunchersTyped, LauncherNamed, LaunchPcs
      <4> QED
        BY <2>1, <3>2, <4>1
    <3> QED
      BY <2>1, <3>1, <3>2, OtherLauncher
  <2> QED
    BY <2>1
<1> QED
  BY <1>1, <1>2 DEF BooksInv, LaunchersInv

\* What is known of a session before one of its launcher's steps.
LEMMA EvolvedCells ==
    ASSUME TypeInv, CellsInv, CellsEvolve, NEW s \in Sessions
    PROVE  /\ CellsAt(s)
           /\ \A g \in Generations :
                 /\ rt'[s][g].pc = "none" <=> rt[s][g].pc = "none"
                 /\ rt[s][g].startup = "failed" => rt'[s][g].startup = "failed"
                 /\ Open(rt'[s][g]) => Open(rt[s][g])
BY DEF CellsInv, CellsEvolve, CellsAt, Evolves

\* create begins with an identity nobody has.
LEMMA CreateBeginInv ==
    ASSUME RegistryInv, TypeInv', CellsEvolve, NEW l \in Launchers, NEW s \in Sessions,
           CreateBegin(l, s)
    PROVE  BooksInv' /\ LaunchersInv'
<1>0. TypeInv /\ CellsInv /\ BooksInv /\ LaunchersInv /\ BookInv(s)
  BY DEF RegistryInv, BooksInv
<1>1. PICK v : v = [IdleLauncher EXCEPT !.pc = "create", !.s = s, !.gen = 1]
  OBVIOUS
<1>2. v.pc = "create" /\ v.s = s /\ v.gen = 1
  BY <1>1 DEF IdleLauncher
<1>3. lt'[l] = v /\ \A k \in Launchers : k # l => lt'[k] = lt[k]
  BY <1>0, <1>1 DEF CreateBegin, TypeInv, LaunchersTyped
<1>4. OneLauncher(l, s)
  BY <1>2, <1>3 DEF OneLauncher, CreateBegin
<1>5. \A t \in Sessions : SameBook(t) /\ CellsAt(t)
  BY <1>0, EvolvedCells DEF CreateBegin, SameBook
<1>6. \A k \in Launchers : lt[k].s = s => lt[k].pc = "idle"
  BY <1>0 DEF BookInv, CreateBegin
<1>7. /\ known' = known \cup {s} /\ ~present[s] /\ rt' = rt
      /\ \A g \in Generations : rt[s][g].pc = "none"
  BY <1>0 DEF BookInv, CreateBegin
<1>8. slot[s] = 0
  <2>1. slot[s] # 0 => slot[s] \in Generations
    BY <1>0, ConstantsAssumption DEF TypeInv, BooksTyped, Generations
  <2> QED
    BY <1>0, <1>7, <2>1 DEF BookInv
<1>9. launch[s] = NoLaunch
  BY <1>0, <1>6 DEF BookInv, LaunchPcs
<1>10. BookInv(s)'
  BY <1>0, <1>5, <1>7, <1>8, <1>9 DEF SameBook, BookInv, Open
<1>11. LauncherInv(l)'
  BY <1>2, <1>3 DEF LauncherInv, LaunchPcs
<1>12. CreatorInv(l)'
  BY <1>2, <1>3, <1>5, <1>6, <1>7 DEF CreatorInv, SameBook
<1>13. \A k \in Launchers : k # l /\ lt[k].s = s => lt[k].pc \notin LaunchPcs \cup {"create"}
  BY <1>6 DEF LaunchPcs
<1> QED
  BY <1>0, <1>4, <1>5, <1>7, <1>10, <1>11, <1>12, <1>13, LaunchFrame

\* No launcher is called by the name of no launcher.
LEMMA NoLaunchIsFree == \A l \in Launchers : NoLaunch.op # l
BY ConstantsAssumption DEF NoLaunch

\* The launch of a new session is admitted.
LEMMA CreateAdmitInv ==
    ASSUME RegistryInv, TypeInv', CellsEvolve, NEW l \in Launchers, CreateAdmit(l)
    PROVE  BooksInv' /\ LaunchersInv'
<1>0. TypeInv /\ CellsInv /\ BooksInv /\ LaunchersInv /\ LauncherInv(l) /\ CreatorInv(l)
  BY DEF RegistryInv, LaunchersInv
<1>1. PICK s \in Sessions : lt[l].s = s
  BY <1>0 DEF CreateAdmit, TypeInv, LaunchersTyped, LauncherNamed
<1>2. /\ lt[l].pc = "create" /\ lt[l].gen = 1 /\ s \in known /\ ~present[s]
      /\ \A h \in Generations : rt[s][h].pc = "none"
      /\ \A k \in Launchers : lt[k].pc # "idle" /\ lt[k].s = s => k = l
      /\ BookInv(s) /\ 1 \in Generations
  BY <1>0, <1>1, FirstGeneration DEF CreateAdmit, CreatorInv, BooksInv
<1>3. /\ lt'[l].pc = "persist_create" /\ lt'[l].s = s /\ lt'[l].gen = 1
      /\ \A k \in Launchers : k # l => lt'[k] = lt[k]
  BY <1>0, <1>1, <1>2 DEF CreateAdmit, Proceed, TypeInv, LaunchersTyped, LauncherTypes
<1>4. OneLauncher(l, s)
  BY <1>1, <1>3 DEF OneLauncher
<1>5. /\ \A t \in Sessions : t # s => SameBook(t) /\ CellsAt(t)
      /\ rt' = rt /\ UNCHANGED <<known, slot>>
  BY <1>0, <1>1, EvolvedCells DEF CreateAdmit, SameBook, TypeInv, BooksTyped
<1>6. /\ present'[s] /\ gen'[s] = 1 /\ lifecycle'[s] = "starting" /\ mine'[s]
      /\ launch'[s] = [NoLaunch EXCEPT !.op = l, !.gen = 1]
  BY <1>0, <1>1 DEF CreateAdmit, TypeInv, BooksTyped
<1>7. launch'[s].op = l /\ launch'[s].gen = 1 /\ launch'[s] # NoLaunch
  <2>1. PICK v : v = launch'[s]
    OBVIOUS
  <2>2. v = [NoLaunch EXCEPT !.op = l, !.gen = 1]
    BY <1>6, <2>1
  <2>3. v.op = l /\ v.gen = 1
    BY <2>2 DEF NoLaunch
  <2>4. v # NoLaunch
    BY <2>3, NoLaunchIsFree
  <2> QED
    BY <2>1, <2>3, <2>4
<1>8. slot[s] = 0
  <2>1. slot[s] # 0 => slot[s] \in Generations
    BY <1>0, ConstantsAssumption DEF TypeInv, BooksTyped, Generations
  <2> QED
    BY <1>2, <2>1 DEF BookInv
<1>9. \A k \in Launchers : k # l /\ lt[k].s = s => lt[k].pc \notin LaunchPcs \cup {"create"}
  BY <1>2 DEF LaunchPcs
<1>10. BookInv(s)'
  BY <1>2, <1>3, <1>5, <1>6, <1>7, <1>8 DEF BookInv, Open, LaunchPcs
<1>11. LauncherInv(l)' /\ CreatorInv(l)'
  BY <1>2, <1>3, <1>5, <1>6, <1>7 DEF LauncherInv, CreatorInv, LaunchPcs
<1> QED
  BY <1>0, <1>4, <1>5, <1>9, <1>10, <1>11, LaunchFrame

\* The session of a launch at work.
LEMMA AtWork ==
    ASSUME RegistryInv, NEW l \in Launchers, lt[l].pc \in LaunchPcs
    PROVE  /\ lt[l].s \in Sessions /\ lt[l].gen \in Generations
           /\ present[lt[l].s] /\ mine[lt[l].s] /\ gen[lt[l].s] = lt[l].gen
           /\ launch[lt[l].s].op = l /\ launch[lt[l].s].gen = lt[l].gen
           /\ launch[lt[l].s] # NoLaunch /\ Owned(lt[l].s, l) /\ lt[l].s \in known
           /\ BookInv(lt[l].s) /\ LauncherInv(l)
           /\ \A k \in Launchers : k # l /\ lt[k].s = lt[l].s =>
                  lt[k].pc \notin LaunchPcs \cup {"create"}
<1>1. LauncherInv(l) /\ LaunchersInv
  BY DEF RegistryInv, LaunchersInv
<1>2. lt[l].s \in Sessions /\ lt[l].gen \in Generations
  BY DEF RegistryInv, TypeInv, LaunchersTyped, LauncherNamed, LaunchPcs
<1>3. BookInv(lt[l].s)
  BY <1>2 DEF RegistryInv, BooksInv
<1>4. \A k \in Launchers : k # l /\ lt[k].s = lt[l].s => lt[k].pc \notin LaunchPcs \cup {"create"}
  BY <1>1, SoleLauncher
<1>5. NoLaunch.op # l
  BY ConstantsAssumption DEF NoLaunch
<1> QED
  BY <1>1, <1>2, <1>3, <1>4, <1>5 DEF LauncherInv, BookInv, Owned

\* A new session is written or withdrawn.
LEMMA CreatePersistInv ==
    ASSUME RegistryInv, TypeInv', CellsEvolve, NEW l \in Launchers, CreatePersist(l)
    PROVE  BooksInv' /\ LaunchersInv'
<1>0. TypeInv /\ CellsInv /\ BooksInv /\ LaunchersInv
  BY DEF RegistryInv
<1>1. PICK s \in Sessions, g \in Generations : lt[l].s = s /\ lt[l].gen = g
  BY AtWork DEF CreatePersist, LaunchPcs
<1>2. /\ lt[l].pc = "persist_create" /\ rt' = rt
      /\ UNCHANGED <<known, gen, lifecycle, mine, slot>>
      /\ rt[s][g].pc = "none" /\ lifecycle[s] = "starting"
      /\ present[s] /\ mine[s] /\ gen[s] = g /\ launch[s].op = l /\ launch[s].gen = g
      /\ launch[s] # NoLaunch /\ Owned(s, l) /\ BookInv(s) /\ s \in known
      /\ \A k \in Launchers : k # l /\ lt[k].s = s => lt[k].pc \notin LaunchPcs \cup {"create"}
  BY <1>1, AtWork DEF CreatePersist, LaunchPcs, LauncherInv
<1>3. slot[s] # 0 => slot[s] \in Generations
  BY <1>0, ConstantsAssumption DEF TypeInv, BooksTyped, Generations
<1>4. \A t \in Sessions : t # s => SameBook(t) /\ CellsAt(t)
  BY <1>0, <1>1, EvolvedCells DEF CreatePersist, SameBook, TypeInv, BooksTyped
<1>5. CASE Goto(l, "spawn") /\ UNCHANGED <<present, launch>>
  <2>1. /\ lt'[l].pc = "spawn" /\ lt'[l].s = s /\ lt'[l].gen = g
        /\ \A k \in Launchers : k # l => lt'[k] = lt[k]
    BY <1>0, <1>1, <1>5 DEF Goto, TypeInv, LaunchersTyped, LauncherTypes
  <2>2. OneLauncher(l, s)
    BY <1>1, <2>1 DEF OneLauncher
  <2>3. BookInv(s)'
    BY <1>2, <1>5, <2>1 DEF BookInv, LaunchPcs
  <2>4. LauncherInv(l)' /\ CreatorInv(l)'
    BY <1>2, <1>5, <2>1 DEF LauncherInv, CreatorInv, LaunchPcs
  <2> QED
    BY <1>0, <1>2, <1>4, <2>2, <2>3, <2>4, LaunchFrame
<1>6. CASE /\ Finish(l)
           /\ present' = [present EXCEPT ![s] = @ /\ ~Owned(s, l)]
           /\ launch' = [launch EXCEPT ![s] = IF Owned(s, l) THEN NoLaunch ELSE @]
  <2>1. lt'[l].pc = "idle" /\ \A k \in Launchers : k # l => lt'[k] = lt[k]
    BY <1>0, <1>6 DEF Finish, IdleLauncher, TypeInv, LaunchersTyped
  <2>2. OneLauncher(l, s)
    BY <1>1, <2>1 DEF OneLauncher
  <2>3. ~present'[s] /\ launch'[s] = NoLaunch
    BY <1>0, <1>2, <1>6 DEF TypeInv, BooksTyped
  <2>4. \A h \in Generations : ~Open(rt[s][h])
    BY <1>2 DEF BookInv, Open
  <2>5. BookInv(s)'
    BY <1>2, <2>3, <2>4 DEF BookInv
  <2>6. LauncherInv(l)' /\ CreatorInv(l)'
    BY <2>1 DEF LauncherInv, CreatorInv, LaunchPcs
  <2> QED
    BY <1>0, <1>2, <1>4, <2>2, <2>5, <2>6, LaunchFrame
<1> QED
  BY <1>1, <1>5, <1>6 DEF CreatePersist

\* restart begins with a record that may be replaced.
LEMMA RestartBeginInv ==
    ASSUME RegistryInv, TypeInv', CellsEvolve, NEW l \in Launchers, NEW s \in Sessions,
           RestartBegin(l, s)
    PROVE  BooksInv' /\ LaunchersInv'
<1>0. TypeInv /\ CellsInv /\ BooksInv /\ LaunchersInv /\ BookInv(s)
  BY DEF RegistryInv, BooksInv
<1>1. PICK v : v = [IdleLauncher EXCEPT !.pc = "ledger", !.s = s, !.gen = gen[s] + 1,
                                        !.prior = <<gen[s], lifecycle[s], mine[s]>>]
  OBVIOUS
<1>2. /\ v.pc = "ledger" /\ v.s = s /\ v.gen = gen[s] + 1
      /\ v.prior = <<gen[s], lifecycle[s], mine[s]>>
  BY <1>1 DEF IdleLauncher
<1>3. lt'[l] = v /\ \A k \in Launchers : k # l => lt'[k] = lt[k]
  BY <1>0, <1>1 DEF RestartBegin, TypeInv, LaunchersTyped
<1>4. OneLauncher(l, s)
  BY <1>2, <1>3 DEF OneLauncher, RestartBegin
<1>5. /\ \A t \in Sessions : SameBook(t) /\ CellsAt(t)
      /\ rt' = rt /\ known' = known
  BY <1>0, EvolvedCells DEF RestartBegin, records, SameBook
<1>6. present[s] /\ launch[s] = NoLaunch /\ lifecycle[s] # "starting" /\ lt[l].pc = "idle"
  BY DEF RestartBegin, Replaceable
<1>7. \A k \in Launchers : k # l /\ lt[k].s = s => lt[k].pc \notin LaunchPcs \cup {"create"}
  BY <1>0, <1>6, SoleRestart
<1>8. BookInv(s)'
  BY <1>0, <1>5, <1>6 DEF SameBook, BookInv
<1>9. gen[s] = (gen[s] + 1) - 1
  BY <1>0 DEF TypeInv, BooksTyped
<1>10. LauncherInv(l)' /\ CreatorInv(l)'
  BY <1>2, <1>3, <1>6, <1>9 DEF LauncherInv, CreatorInv, LaunchPcs
<1> QED
  BY <1>0, <1>4, <1>5, <1>7, <1>8, <1>10, LaunchFrame

\* A record that may be replaced has no process left.
LEMMA ReplaceableIsOver ==
    ASSUME RegistryInv, NEW s \in Sessions, present[s], Replaceable(s)
    PROVE  \A g \in Generations : ~Open(rt[s][g])
<1> SUFFICES ASSUME NEW g \in Generations, Open(rt[s][g]) PROVE FALSE
  OBVIOUS
<1>1. launch[s] = NoLaunch /\ slot[s] = g
  BY DEF Replaceable, RegistryInv, BooksInv, BookInv
<1>2. g # 0
  BY ConstantsAssumption DEF Generations
<1> QED
  BY <1>1, <1>2 DEF Replaceable, Live, Open

\* The launch of a further generation is admitted.
LEMMA RestartAdmitInv ==
    ASSUME RegistryInv, TypeInv', CellsEvolve, NEW l \in Launchers, RestartAdmit(l)
    PROVE  BooksInv' /\ LaunchersInv'
<1>0. TypeInv /\ CellsInv /\ BooksInv /\ LaunchersInv /\ LauncherInv(l)
  BY DEF RegistryInv, LaunchersInv
<1>1. PICK s \in Sessions, g \in Generations : lt[l].s = s /\ lt[l].gen = g
  BY <1>0 DEF RestartAdmit, TypeInv, LaunchersTyped, LauncherNamed
<1>2. /\ lt[l].pc = "restart" /\ gen[s] = g - 1 /\ lt[l].prior[1] = g - 1
      /\ lt[l].prior[2] # "starting" /\ present[s] /\ Replaceable(s)
      /\ launch[s] = NoLaunch /\ BookInv(s) /\ s \in known
  BY <1>0, <1>1 DEF RestartAdmit, LauncherInv, StillReplaceable, Replaceable, BooksInv, BookInv
<1>3. /\ lt'[l].pc = "persist_restart" /\ lt'[l].s = s /\ lt'[l].gen = g
      /\ lt'[l].prior = lt[l].prior
      /\ \A k \in Launchers : k # l => lt'[k] = lt[k]
  BY <1>0, <1>1 DEF RestartAdmit, Proceed, TypeInv, LaunchersTyped, LauncherTypes
<1>4. OneLauncher(l, s)
  BY <1>1, <1>3 DEF OneLauncher
<1>5. /\ \A t \in Sessions : t # s => SameBook(t) /\ CellsAt(t)
      /\ rt' = rt /\ UNCHANGED <<known, slot, present>>
  BY <1>0, <1>1, EvolvedCells DEF RestartAdmit, SameBook, TypeInv, BooksTyped
<1>6. /\ gen'[s] = g /\ lifecycle'[s] = "starting" /\ mine'[s]
      /\ launch'[s] = [NoLaunch EXCEPT !.op = l, !.gen = g]
  BY <1>0, <1>1 DEF RestartAdmit, TypeInv, BooksTyped
<1>7. launch'[s].op = l /\ launch'[s].gen = g /\ launch'[s] # NoLaunch
  <2>1. PICK v : v = launch'[s]
    OBVIOUS
  <2>2. v = [NoLaunch EXCEPT !.op = l, !.gen = g]
    BY <1>6, <2>1
  <2>3. v.op = l /\ v.gen = g
    BY <2>2 DEF NoLaunch
  <2>4. v # NoLaunch
    BY <2>3, NoLaunchIsFree
  <2> QED
    BY <2>1, <2>3, <2>4
<1>8. \A h \in Generations : ~Open(rt[s][h])
  BY <1>2, ReplaceableIsOver
<1>9. \A h \in Generations : rt[s][h].pc # "none" => h <= g /\ h # g
  BY <1>2 DEF BookInv, Generations
<1>10. \A k \in Launchers : k # l /\ lt[k].s = s => lt[k].pc \notin LaunchPcs \cup {"create"}
  BY <1>0, <1>2, SoleRestart
<1>11. slot[s] # 0 => rt[s][slot[s]].pc # "none"
  BY <1>2 DEF BookInv
<1>12. BookInv(s)'
  BY <1>2, <1>3, <1>5, <1>6, <1>7, <1>8, <1>9, <1>11 DEF BookInv, LaunchPcs
<1>13. LauncherInv(l)' /\ CreatorInv(l)'
  BY <1>2, <1>3, <1>5, <1>6, <1>7, <1>9 DEF LauncherInv, CreatorInv, LaunchPcs
<1> QED
  BY <1>0, <1>4, <1>5, <1>10, <1>12, <1>13, LaunchFrame

\* A further generation is written or taken back.
LEMMA RestartPersistInv ==
    ASSUME RegistryInv, TypeInv', CellsEvolve, NEW l \in Launchers, RestartPersist(l)
    PROVE  BooksInv' /\ LaunchersInv'
<1>0. TypeInv /\ CellsInv /\ BooksInv /\ LaunchersInv
  BY DEF RegistryInv
<1>1. PICK s \in Sessions, g \in Generations : lt[l].s = s /\ lt[l].gen = g
  BY AtWork DEF RestartPersist, LaunchPcs
<1>2. /\ lt[l].pc = "persist_restart" /\ rt' = rt
      /\ UNCHANGED <<known, present, slot>>
      /\ rt[s][g].pc = "none" /\ lifecycle[s] = "starting"
      /\ present[s] /\ mine[s] /\ gen[s] = g /\ launch[s].op = l /\ launch[s].gen = g
      /\ launch[s] # NoLaunch /\ Owned(s, l) /\ BookInv(s) /\ s \in known
      /\ lt[l].prior[1] = g - 1 /\ lt[l].prior[2] # "starting" /\ lt[l].prior[1] \in Generations
      /\ \A k \in Launchers : k # l /\ lt[k].s = s => lt[k].pc \notin LaunchPcs \cup {"create"}
  BY <1>0, <1>1, AtWork
  DEF RestartPersist, LaunchPcs, LauncherInv, TypeInv, LaunchersTyped, LauncherNamed
<1>4. \A t \in Sessions : t # s => SameBook(t) /\ CellsAt(t)
  BY <1>0, <1>1, EvolvedCells DEF RestartPersist, SameBook, TypeInv, BooksTyped
<1>5. CASE Goto(l, "spawn") /\ UNCHANGED <<gen, lifecycle, mine, launch>>
  <2>1. /\ lt'[l].pc = "spawn" /\ lt'[l].s = s /\ lt'[l].gen = g
        /\ \A k \in Launchers : k # l => lt'[k] = lt[k]
    BY <1>0, <1>1, <1>5 DEF Goto, TypeInv, LaunchersTyped, LauncherTypes
  <2>2. OneLauncher(l, s)
    BY <1>1, <2>1 DEF OneLauncher
  <2>3. BookInv(s)'
    BY <1>2, <1>5, <2>1 DEF BookInv, LaunchPcs
  <2>4. LauncherInv(l)' /\ CreatorInv(l)'
    BY <1>2, <1>5, <2>1 DEF LauncherInv, CreatorInv, LaunchPcs
  <2> QED
    BY <1>0, <1>2, <1>4, <2>2, <2>3, <2>4, LaunchFrame
<1>6. CASE /\ Finish(l)
           /\ launch' = [launch EXCEPT ![s] = NoLaunch]
           /\ gen' = [gen EXCEPT ![s] = lt[l].prior[1]]
           /\ lifecycle' = [lifecycle EXCEPT ![s] = lt[l].prior[2]]
  <2>1. lt'[l].pc = "idle" /\ \A k \in Launchers : k # l => lt'[k] = lt[k]
    BY <1>0, <1>6 DEF Finish, IdleLauncher, TypeInv, LaunchersTyped
  <2>2. OneLauncher(l, s)
    BY <1>1, <2>1 DEF OneLauncher
  <2>3. launch'[s] = NoLaunch /\ gen'[s] = g - 1 /\ lifecycle'[s] # "starting"
    BY <1>0, <1>2, <1>6 DEF TypeInv, BooksTyped
  <2>4. \A h \in Generations : ~Open(rt[s][h])
    BY <1>2 DEF BookInv, Open
  <2>5. \A h \in Generations : rt[s][h].pc # "none" => h <= g - 1
    BY <1>2 DEF BookInv, Generations
  <2>6. g - 1 \in Generations
    BY <1>2
  <2>7. BookInv(s)'
    BY <1>2, <2>3, <2>4, <2>5, <2>6 DEF BookInv
  <2>8. LauncherInv(l)' /\ CreatorInv(l)'
    BY <2>1 DEF LauncherInv, CreatorInv, LaunchPcs
  <2> QED
    BY <1>0, <1>2, <1>4, <2>2, <2>7, <2>8, LaunchFrame
<1> QED
  BY <1>1, <1>2, <1>5, <1>6 DEF RestartPersist

\* The session thread is started, or cannot be.
LEMMA SpawnInv ==
    ASSUME RegistryInv, TypeInv', NEW l \in Launchers, Spawn(l)
    PROVE  CellsInv' /\ BooksInv' /\ LaunchersInv' /\ StoppersInv'
<1>0. TypeInv /\ CellsInv /\ BooksInv /\ LaunchersInv /\ StoppersInv
  BY DEF RegistryInv
<1>1. PICK s \in Sessions, g \in Generations : lt[l].s = s /\ lt[l].gen = g
  BY AtWork DEF Spawn, LaunchPcs
<1>2. /\ lt[l].pc = "spawn" /\ UNCHANGED <<known, present, gen, lifecycle, mine, launch, slot, st>>
      /\ rt[s][g].pc = "none" /\ lifecycle[s] = "starting"
      /\ present[s] /\ mine[s] /\ gen[s] = g /\ launch[s].op = l /\ launch[s].gen = g
      /\ launch[s] # NoLaunch /\ BookInv(s) /\ s \in known
      /\ \A k \in Launchers : k # l /\ lt[k].s = s => lt[k].pc \notin LaunchPcs \cup {"create"}
  BY <1>1, AtWork DEF Spawn, LaunchPcs, LauncherInv, records
<1>3. \A r \in RuntimeTypes : RuntimeInv(r) => Evolves(r, r)
  BY DEF Evolves
<1>4. CASE Goto(l, "fail") /\ UNCHANGED rt
  <2>1. /\ lt'[l].pc = "fail" /\ lt'[l].s = s /\ lt'[l].gen = g
        /\ \A k \in Launchers : k # l => lt'[k] = lt[k]
    BY <1>0, <1>1, <1>4 DEF Goto, TypeInv, LaunchersTyped, LauncherTypes
  <2>2. OneLauncher(l, s)
    BY <1>1, <2>1 DEF OneLauncher
  <2>3. CellsEvolve
    BY <1>0, <1>4, CellsStay DEF TypeInv
  <2>4. \A t \in Sessions : t # s => SameBook(t) /\ CellsAt(t)
    BY <1>0, <1>2, <2>3, EvolvedCells DEF SameBook
  <2>5. BookInv(s)'
    BY <1>2, <1>4, <2>1 DEF BookInv, LaunchPcs
  <2>6. LauncherInv(l)' /\ CreatorInv(l)'
    BY <1>2, <1>4, <2>1 DEF LauncherInv, CreatorInv, LaunchPcs
  <2>7. CellsInv' /\ StoppersInv'
    BY <1>0, <1>2, <2>3, CellsInvKept, StopperKeeps DEF StoppersInv
  <2> QED
    BY <1>0, <1>2, <2>2, <2>4, <2>5, <2>6, <2>7, LaunchFrame
<1>5. CASE Goto(l, "register") /\ rt' = [rt EXCEPT ![s][g].pc = "starting"]
  <2>1. /\ lt'[l].pc = "register" /\ lt'[l].s = s /\ lt'[l].gen = g
        /\ \A k \in Launchers : k # l => lt'[k] = lt[k]
    BY <1>0, <1>1, <1>5 DEF Goto, TypeInv, LaunchersTyped, LauncherTypes
  <2>2. OneLauncher(l, s)
    BY <1>1, <2>1 DEF OneLauncher
  <2>3. PICK r : r = rt[s][g]
    OBVIOUS
  <2>4. r \in RuntimeTypes /\ RuntimeInv(r) /\ r.pc = "none"
    BY <1>0, <1>2, <2>3 DEF TypeInv, RuntimesTyped, CellsInv
  <2>5. PICK r2 : r2 = [r EXCEPT !.pc = "starting"]
    OBVIOUS
  <2>6. r2 \in RuntimeTypes /\ RuntimeInv(r2) /\ r2.pc = "starting"
    BY <2>4, <2>5 DEF RuntimeTypes, RuntimeInv, Settled
  <2>7. rt' = [rt EXCEPT ![s][g] = r2]
    BY <1>0, <1>5, <2>3, <2>5 DEF TypeInv, RuntimesTyped
  <2>8. /\ rt'[s][g] = r2
        /\ \A t \in Sessions, h \in Generations : <<t, h>> # <<s, g>> => rt'[t][h] = rt[t][h]
    BY <1>0, <2>6, <2>7, RuntimeUpdate DEF TypeInv, RuntimesTyped
  <2>9. CellsInv'
    BY <1>0, <2>6, <2>8 DEF CellsInv
  <2>10. ASSUME NEW t \in Sessions, t # s PROVE SameBook(t) /\ CellsAt(t)
    <3>1. \A h \in Generations : rt'[t][h] = rt[t][h] /\ rt[t][h] \in RuntimeTypes /\ RuntimeInv(rt[t][h])
      BY <1>0, <2>8, <2>10 DEF CellsInv, TypeInv, RuntimesTyped
    <3>2. CellsAt(t)
      BY <1>3, <3>1 DEF CellsAt
    <3> QED
      BY <1>2, <3>2 DEF SameBook
  <2>11. \A h \in Generations : h # g => rt'[s][h] = rt[s][h]
    BY <2>8
  <2>12. slot[s] # g
    BY <1>2, ConstantsAssumption DEF BookInv, Generations
  <2>13. slot'[s] # 0 => rt'[s][slot'[s]].pc # "none"
    <3>1. slot[s] # 0 => slot[s] \in Generations
      BY <1>0, ConstantsAssumption DEF TypeInv, BooksTyped, Generations
    <3> QED
      BY <1>2, <2>11, <2>12, <3>1 DEF BookInv
  <2>14. \A h \in Generations : rt'[s][h].pc # "none" => h <= gen'[s]
    BY <1>2, <2>11 DEF BookInv, Generations
  <2>15. \A h \in Generations : Open(rt'[s][h]) =>
          /\ present'[s] /\ mine'[s] /\ gen'[s] = h
          /\ launch'[s] = NoLaunch => slot'[s] = h
    BY <1>2, <2>11 DEF BookInv
  <2>16. BookInv(s)'
    BY <1>2, <2>1, <2>13, <2>14, <2>15 DEF BookInv, LaunchPcs
  <2>17. LauncherInv(l)' /\ CreatorInv(l)'
    BY <1>2, <2>1, <2>6, <2>8 DEF LauncherInv, CreatorInv, LaunchPcs
  <2>18. ASSUME NEW p \in Stoppers PROVE StopperInv(p)'
    <3>1. StopperInv(p) /\ st'[p] = st[p]
      BY <1>0, <1>2 DEF StoppersInv
    <3>2. CASE st[p].pc \in {"check", "send", "waiting", "report"}
      <4>1. PICK t \in Sessions, h \in Generations : st[p].s = t /\ st[p].gen = h
        BY <1>0, <3>2 DEF TypeInv, StoppersTyped, StopperNamed
      <4>2. <<t, h>> # <<s, g>>
        BY <1>2, <3>1, <3>2, <4>1 DEF StopperInv
      <4>3. rt'[t][h] = rt[t][h]
        BY <2>8, <4>2
      <4> QED
        BY <3>1, <4>1, <4>3 DEF StopperInv
    <3>3. CASE st[p].pc \notin {"check", "send", "waiting", "report"}
      BY <3>1, <3>3 DEF StopperInv
    <3> QED
      BY <3>2, <3>3
  <2>19. StoppersInv'
    BY <2>18 DEF StoppersInv
  <2> QED
    BY <1>0, <1>2, <2>2, <2>9, <2>10, <2>16, <2>17, <2>19, LaunchFrame
<1> QED
  BY <1>1, <1>4, <1>5 DEF Spawn

\* The launch gets its canceller.
LEMMA RegisterInv ==
    ASSUME RegistryInv, TypeInv', CellsEvolve, NEW l \in Launchers, Register(l)
    PROVE  BooksInv' /\ LaunchersInv'
<1>0. TypeInv /\ CellsInv /\ BooksInv /\ LaunchersInv
  BY DEF RegistryInv
<1>1. PICK s \in Sessions, g \in Generations : lt[l].s = s /\ lt[l].gen = g
  BY AtWork DEF Register, LaunchPcs
<1>2. /\ lt[l].pc = "register" /\ UNCHANGED <<known, present, gen, lifecycle, mine, slot>>
      /\ rt[s][g].pc # "none"
      /\ present[s] /\ mine[s] /\ gen[s] = g /\ launch[s].op = l /\ launch[s].gen = g
      /\ launch[s] # NoLaunch /\ BookInv(s) /\ s \in known
      /\ \A k \in Launchers : k # l /\ lt[k].s = s => lt[k].pc \notin LaunchPcs \cup {"create"}
  BY <1>1, AtWork DEF Register, LaunchPcs, LauncherInv
<1>3. /\ lt'[l].pc = "wait" /\ lt'[l].s = s /\ lt'[l].gen = g
      /\ \A k \in Launchers : k # l => lt'[k] = lt[k]
  BY <1>0, <1>1 DEF Register, Goto, TypeInv, LaunchersTyped, LauncherTypes
<1>4. OneLauncher(l, s)
  BY <1>1, <1>3 DEF OneLauncher
<1>5. \A t \in Sessions : t # s => SameBook(t) /\ CellsAt(t)
  BY <1>0, <1>1, EvolvedCells DEF Register, SameBook, TypeInv, BooksTyped
<1>6. launch'[s].op = l /\ launch'[s].gen = g
  BY <1>0, <1>1, <1>2 DEF Register, TypeInv, BooksTyped, LaunchTypes
<1>7. launch'[s] # NoLaunch
  BY <1>6, NoLaunchIsFree
<1>8. \A h \in Generations : /\ rt'[s][h].pc = "none" <=> rt[s][h].pc = "none"
                             /\ Open(rt'[s][h]) => Open(rt[s][h])
  BY <1>0, EvolvedCells
<1>9. slot[s] # 0 => slot[s] \in Generations
  BY <1>0, ConstantsAssumption DEF TypeInv, BooksTyped, Generations
<1>10. BookInv(s)'
  BY <1>2, <1>3, <1>6, <1>7, <1>8, <1>9 DEF BookInv, LaunchPcs
<1>11. LauncherInv(l)' /\ CreatorInv(l)'
  BY <1>2, <1>3, <1>6, <1>8 DEF LauncherInv, CreatorInv, LaunchPcs
<1> QED
  BY <1>0, <1>2, <1>4, <1>5, <1>10, <1>11, LaunchFrame

\* The outcome of the start arrives.
LEMMA AwaitInv ==
    ASSUME RegistryInv, TypeInv', CellsEvolve, NEW l \in Launchers, Await(l)
    PROVE  BooksInv' /\ LaunchersInv'
<1>0. TypeInv /\ CellsInv /\ BooksInv /\ LaunchersInv
  BY DEF RegistryInv
<1>1. PICK s \in Sessions, g \in Generations : lt[l].s = s /\ lt[l].gen = g
  BY AtWork DEF Await, LaunchPcs
<1>2. /\ lt[l].pc = "wait" /\ UNCHANGED <<known, present, gen, lifecycle, mine, launch, slot>>
      /\ rt[s][g].pc # "none"
      /\ present[s] /\ mine[s] /\ gen[s] = g /\ launch[s].op = l /\ launch[s].gen = g
      /\ launch[s] # NoLaunch /\ BookInv(s) /\ s \in known
      /\ \A k \in Launchers : k # l /\ lt[k].s = s => lt[k].pc \notin LaunchPcs \cup {"create"}
  BY <1>1, AtWork DEF Await, LaunchPcs, LauncherInv, records
<1>3. /\ lt'[l].pc \in {"commit", "fail"} /\ lt'[l].s = s /\ lt'[l].gen = g
      /\ lt'[l].pc = "fail" => rt[s][g].startup = "failed"
      /\ \A k \in Launchers : k # l => lt'[k] = lt[k]
  BY <1>0, <1>1 DEF Await, Goto, TypeInv, LaunchersTyped, LauncherTypes
<1>4. OneLauncher(l, s)
  BY <1>1, <1>3 DEF OneLauncher
<1>5. \A t \in Sessions : t # s => SameBook(t) /\ CellsAt(t)
  BY <1>0, <1>2, EvolvedCells DEF SameBook
<1>8. \A h \in Generations : /\ rt'[s][h].pc = "none" <=> rt[s][h].pc = "none"
                             /\ rt[s][h].startup = "failed" => rt'[s][h].startup = "failed"
                             /\ Open(rt'[s][h]) => Open(rt[s][h])
  BY <1>0, EvolvedCells
<1>9. slot[s] # 0 => slot[s] \in Generations
  BY <1>0, ConstantsAssumption DEF TypeInv, BooksTyped, Generations
<1>10. BookInv(s)'
  BY <1>2, <1>3, <1>8, <1>9 DEF BookInv, LaunchPcs
<1>11. LauncherInv(l)' /\ CreatorInv(l)'
  BY <1>2, <1>3, <1>8 DEF LauncherInv, CreatorInv, LaunchPcs
<1> QED
  BY <1>0, <1>2, <1>4, <1>5, <1>10, <1>11, LaunchFrame

\* The runtime becomes the record's.
LEMMA CommitInv ==
    ASSUME RegistryInv, TypeInv', CellsEvolve, NEW l \in Launchers, Commit(l)
    PROVE  BooksInv' /\ LaunchersInv'
<1>0. TypeInv /\ CellsInv /\ BooksInv /\ LaunchersInv
  BY DEF RegistryInv
<1>1. PICK s \in Sessions, g \in Generations : lt[l].s = s /\ lt[l].gen = g
  BY AtWork DEF Commit, LaunchPcs
<1>2. /\ lt[l].pc = "commit" /\ UNCHANGED <<known, present, gen, mine>> /\ rt' = rt
      /\ rt[s][g].pc # "none"
      /\ present[s] /\ mine[s] /\ gen[s] = g /\ launch[s].op = l /\ launch[s].gen = g
      /\ launch[s] # NoLaunch /\ Owned(s, l) /\ BookInv(s) /\ s \in known
      /\ \A k \in Launchers : k # l /\ lt[k].s = s => lt[k].pc \notin LaunchPcs \cup {"create"}
  BY <1>1, AtWork DEF Commit, LaunchPcs, LauncherInv
<1>3. /\ lt'[l].pc \in {"stop", "idle"}
      /\ lt'[l].pc = "stop" => lt'[l].s = s
      /\ \A k \in Launchers : k # l => lt'[k] = lt[k]
  <2>1. CASE Goto(l, "stop")
    BY <1>0, <1>1, <2>1 DEF Goto, TypeInv, LaunchersTyped, LauncherTypes
  <2>2. CASE Finish(l)
    BY <1>0, <2>2 DEF Finish, IdleLauncher, TypeInv, LaunchersTyped
  <2> QED
    BY <2>1, <2>2 DEF Commit
<1>4. OneLauncher(l, s)
  BY <1>1, <1>3 DEF OneLauncher
<1>5. \A t \in Sessions : t # s => SameBook(t) /\ CellsAt(t)
  BY <1>0, <1>1, <1>2, EvolvedCells DEF Commit, SameBook, TypeInv, BooksTyped
<1>6. /\ lifecycle'[s] = LifecycleAtCommit(s, g) /\ slot'[s] = g /\ launch'[s] = NoLaunch
  BY <1>0, <1>1, <1>2 DEF Commit, TypeInv, BooksTyped
<1>7. lifecycle'[s] # "starting" /\ (lifecycle'[s] = "exited" => ~Open(rt[s][g]))
  BY <1>0, <1>6 DEF LifecycleAtCommit, CellsInv, RuntimeInv, Open
<1>8. g # 0
  BY ConstantsAssumption DEF Generations
<1>9. BookInv(s)'
  BY <1>2, <1>6, <1>7, <1>8 DEF BookInv
<1>10. LauncherInv(l)' /\ CreatorInv(l)'
  BY <1>3 DEF LauncherInv, CreatorInv, LaunchPcs
<1> QED
  BY <1>0, <1>2, <1>4, <1>5, <1>9, <1>10, LaunchFrame

\* The launch has failed and no child is left of it.
LEMMA FailLaunchInv ==
    ASSUME RegistryInv, TypeInv', CellsEvolve, NEW l \in Launchers, FailLaunch(l)
    PROVE  BooksInv' /\ LaunchersInv'
<1>0. TypeInv /\ CellsInv /\ BooksInv /\ LaunchersInv
  BY DEF RegistryInv
<1>1. PICK s \in Sessions, g \in Generations : lt[l].s = s /\ lt[l].gen = g
  BY AtWork DEF FailLaunch, LaunchPcs
<1>2. /\ lt[l].pc = "fail" /\ UNCHANGED <<known, present, gen, mine, slot>> /\ rt' = rt
      /\ rt[s][g].pc = "none" \/ rt[s][g].startup = "failed"
      /\ present[s] /\ mine[s] /\ gen[s] = g /\ launch[s].op = l /\ launch[s].gen = g
      /\ launch[s] # NoLaunch /\ Owned(s, l) /\ BookInv(s) /\ s \in known
      /\ \A k \in Launchers : k # l /\ lt[k].s = s => lt[k].pc \notin LaunchPcs \cup {"create"}
  BY <1>1, AtWork DEF FailLaunch, LaunchPcs, LauncherInv
<1>3. lt'[l].pc = "idle" /\ \A k \in Launchers : k # l => lt'[k] = lt[k]
  BY <1>0 DEF FailLaunch, Finish, IdleLauncher, TypeInv, LaunchersTyped
<1>4. OneLauncher(l, s)
  BY <1>1, <1>3 DEF OneLauncher
<1>5. \A t \in Sessions : t # s => SameBook(t) /\ CellsAt(t)
  BY <1>0, <1>1, <1>2, EvolvedCells DEF FailLaunch, SameBook, TypeInv, BooksTyped
<1>6. lifecycle'[s] = "failed" /\ launch'[s] = NoLaunch
  BY <1>0, <1>1, <1>2 DEF FailLaunch, TypeInv, BooksTyped
<1>7. \A h \in Generations : ~Open(rt[s][h])
  BY <1>2 DEF BookInv, Open
<1>8. BookInv(s)'
  BY <1>2, <1>6, <1>7 DEF BookInv
<1>9. LauncherInv(l)' /\ CreatorInv(l)'
  BY <1>3 DEF LauncherInv, CreatorInv, LaunchPcs
<1> QED
  BY <1>0, <1>2, <1>4, <1>5, <1>8, <1>9, LaunchFrame

\* A launcher takes the ledger, waits for a place, or gives up.
LEMMA CalmLaunching ==
    ASSUME RegistryInv, TypeInv', CellsEvolve, NEW l \in Launchers,
           RestartLedger(l) \/ AdmissionWait(l) \/ LaunchRefused(l)
    PROVE  BooksInv' /\ LaunchersInv'
<1>0. TypeInv /\ CellsInv /\ BooksInv /\ LaunchersInv
  BY DEF RegistryInv
<1>1. UNCHANGED <<known, present, gen, lifecycle, mine, launch, slot>>
  BY DEF RestartLedger, AdmissionWait, LaunchRefused, records
<1>2. \A k \in Launchers : CalmLauncher(k)
  <2>1. CASE lt[l].pc = "ledger" /\ Goto(l, "restart")
    BY <1>0, <2>1 DEF Goto, CalmLauncher, TypeInv, LaunchersTyped, LauncherTypes
  <2>2. CASE lt[l].pc \in {"create", "ledger", "restart"} /\ Finish(l)
    BY <1>0, <2>2 DEF Finish, IdleLauncher, CalmLauncher, LaunchPcs, TypeInv, LaunchersTyped
  <2>3. CASE AdmissionWait(l)
    BY <1>0, <2>3 DEF AdmissionWait, CalmLauncher, TypeInv, LaunchersTyped, LauncherTypes
  <2> QED
    BY <2>1, <2>2, <2>3 DEF RestartLedger, LaunchRefused
<1>3. \A s \in Sessions : QuietBook(s)
  BY <1>1 DEF QuietBook
<1> QED
  BY <1>0, <1>1, <1>2, <1>3, QuietStep

\* Each step of a launcher keeps the invariant of the registry.
LEMMA LaunchingInv ==
    ASSUME RegistryInv, TypeInv', RepliesInv', NEW l \in Launchers, Launching(l)
    PROVE  RegistryInv'
<1>0. TypeInv /\ CellsInv /\ StoppersInv
  BY DEF RegistryInv
<1>1. CASE Spawn(l)
  BY <1>1, SpawnInv DEF RegistryInv
<1>2. CASE ~Spawn(l)
  <2>1. CellsEvolve
    BY <1>0, <1>2, LauncherCells
  <2>2. CellsInv'
    BY <1>0, <2>1, CellsInvKept
  <2>3. UNCHANGED st
    BY DEF Launching, CreateBegin, RestartBegin, CreateAdmit, CreatePersist, RestartLedger,
           RestartAdmit, RestartPersist, AdmissionWait, LaunchRefused, Spawn, Register, Await,
           Commit, FailLaunch
  <2>4. StoppersInv'
    BY <1>0, <2>1, <2>3, StopperKeeps DEF StoppersInv
  <2>5. BooksInv' /\ LaunchersInv'
    BY <1>2, <2>1, CreateBeginInv, CreateAdmitInv, CreatePersistInv, RestartBeginInv,
       RestartAdmitInv, RestartPersistInv, RegisterInv, AwaitInv, CommitInv, FailLaunchInv,
       CalmLaunching DEF Launching
  <2> QED
    BY <2>2, <2>4, <2>5 DEF RegistryInv
<1> QED
  BY <1>1, <1>2

\* Each step of a stopping thread keeps the invariant of the registry.
LEMMA StoppingInv ==
    ASSUME RegistryInv, TypeInv', RepliesInv', NEW p \in Stoppers, Stopping(p)
    PROVE  RegistryInv'
<1>0. TypeInv /\ CellsInv /\ StoppersInv /\ BooksInv /\ LaunchersInv /\ StopperInv(p)
  BY DEF RegistryInv, StoppersInv
<1>1. CellsEvolve
  BY <1>0, StopperCells
<1>2. CellsInv'
  BY <1>0, <1>1, CellsInvKept
<1>3. ASSUME \A k \in Stoppers : k # p => st'[k] = st[k], StopperInv(p)' PROVE StoppersInv'
  BY <1>0, <1>1, <1>3, StopperKeeps DEF StoppersInv
<1>4. UNCHANGED lt => \A k \in Launchers : CalmLauncher(k)
  BY DEF CalmLauncher
<1>5. UNCHANGED records => \A s \in Sessions : QuietBook(s)
  BY DEF records, QuietBook
<1>6. ASSUME UNCHANGED known, \A k \in Launchers : CalmLauncher(k),
             \A s \in Sessions : QuietBook(s), StoppersInv'
      PROVE  RegistryInv'
  BY <1>0, <1>1, <1>2, <1>6, QuietStep DEF RegistryInv
<1>7. \A k \in Stoppers : k # p => st'[k] = st[k]
  BY <1>0 DEF Stopping, ClientStop, CancelledStop, ShutdownStop, StopAsked, StopBegin, StopCheck,
              StopSend, StopTimeout, StopCommit, StopInspect, TypeInv, StoppersTyped
<1>8. ASSUME st'[p].pc \in {"idle", "begin", "inspect"} PROVE StoppersInv'
  BY <1>3, <1>7, <1>8 DEF StopperInv
<1>9. ASSUME NEW s, NEW g, NEW n, StopAsked(p, s, g, n) PROVE StoppersInv'
  <2>1. st'[p].pc = "begin"
    BY <1>0, <1>9 DEF StopAsked, IdleStopper, TypeInv, StoppersTyped
  <2> QED
    BY <1>8, <2>1
<1>10. ASSUME NEW s \in Sessions, ClientStop(p, s) PROVE RegistryInv'
  BY <1>4, <1>5, <1>6, <1>9, <1>10 DEF ClientStop, records
<1>11. ASSUME NEW l \in Launchers, CancelledStop(p, l) PROVE RegistryInv'
  <2>1. \A k \in Launchers : CalmLauncher(k)
    BY <1>0, <1>11 DEF CancelledStop, Finish, IdleLauncher, CalmLauncher, LaunchPcs, TypeInv,
                       LaunchersTyped
  <2> QED
    BY <1>5, <1>6, <1>9, <1>11, <2>1 DEF CancelledStop, records
<1>12. ASSUME NEW q \in Requesters, ShutdownStop(p, q) PROVE RegistryInv'
  BY <1>4, <1>5, <1>6, <1>9, <1>12 DEF ShutdownStop, records
<1>13. CASE StopBegin(p)
  <2>0. PICK s \in Sessions : st[p].s = s
    BY <1>0, <1>13 DEF StopBegin, TypeInv, StoppersTyped, StopperNamed
  <2>1. UNCHANGED <<known, present, gen, lifecycle, mine, slot, lt>>
    BY <1>13 DEF StopBegin
  <2>2. \A t \in Sessions : QuietBook(t)
    <3>1. CASE UNCHANGED launch
      BY <2>1, <3>1 DEF QuietBook
    <3>2. CASE launch[s] # NoLaunch /\ launch' = [launch EXCEPT ![s].cancelled = TRUE]
      <4>1. PICK k \in Launchers : launch[s].op = k
        BY <1>0, <3>2 DEF BooksInv, BookInv
      <4>2. launch'[s].op = k /\ launch'[s].gen = launch[s].gen
        BY <1>0, <3>2, <4>1 DEF TypeInv, BooksTyped, LaunchTypes
      <4>3. launch'[s] # NoLaunch
        BY <4>2, NoLaunchIsFree
      <4>4. \A t \in Sessions : t # s => launch'[t] = launch[t]
        BY <1>0, <3>2 DEF TypeInv, BooksTyped
      <4> QED
        BY <2>1, <3>2, <4>1, <4>2, <4>3, <4>4 DEF QuietBook
    <3> QED
      BY <1>13, <2>0, <3>1, <3>2 DEF StopBegin
  <2>3. StopperInv(p)'
    <3>1. CASE st'[p].pc \in {"idle", "inspect"}
      BY <3>1 DEF StopperInv
    <3>2. CASE slot[s] # 0 /\ UNCHANGED rt /\ st' = [st EXCEPT ![p].pc = "check", ![p].gen = slot[s]]
      <4>1. st'[p].pc = "check" /\ st'[p].s = s /\ st'[p].gen = slot[s]
        BY <1>0, <2>0, <3>2 DEF TypeInv, StoppersTyped, StopperTypes
      <4>2. rt[s][slot[s]].pc # "none"
        BY <1>0, <3>2 DEF BooksInv, BookInv
      <4> QED
        BY <3>2, <4>1, <4>2 DEF StopperInv
    <3>3. CASE st' = [st EXCEPT ![p] = IdleStopper]
      BY <1>0, <3>1, <3>3 DEF IdleStopper, TypeInv, StoppersTyped
    <3>4. CASE st' = [st EXCEPT ![p].pc = "inspect", ![p].clean = TRUE]
      BY <1>0, <3>1, <3>4 DEF TypeInv, StoppersTyped, StopperTypes
    <3> QED
      BY <1>13, <2>0, <3>2, <3>3, <3>4 DEF StopBegin
  <2> QED
    BY <1>3, <1>4, <1>6, <1>7, <2>1, <2>2, <2>3
<1>14. CASE StopCheck(p) \/ StopSend(p) \/ StopTimeout(p)
  <2>0. PICK s \in Sessions, g \in Generations : st[p].s = s /\ st[p].gen = g
    BY <1>0, <1>14 DEF StopCheck, StopSend, StopTimeout, TypeInv, StoppersTyped, StopperNamed
  <2>1. UNCHANGED <<records, lt>>
    BY <1>14 DEF StopCheck, StopSend, StopTimeout
  <2>2. rt[s][g].pc # "none" /\ (st[p].pc = "send" => ~st[p].clean)
    BY <1>0, <1>14, <2>0 DEF StopCheck, StopSend, StopTimeout, StopperInv
  <2>3. /\ rt'[s][g].pc # "none"
        /\ Settled(rt[s][g]) => Settled(rt'[s][g])
    BY <1>0, <1>1, <2>2 DEF CellsEvolve, CellsInv, Evolves
  <2>4. st'[p].s = s /\ st'[p].gen = g
    BY <1>0, <1>14, <2>0 DEF StopCheck, StopSend, StopTimeout, TypeInv, StoppersTyped, StopperTypes
  <2>5. \/ st'[p].pc \in {"send", "waiting", "report"} /\ ~st'[p].clean
        \/ st'[p].pc = "report" /\ Settled(rt[s][g])
    <3>1. CASE StopCheck(p)
      <4>1. PICK over \in BOOLEAN :
                /\ over => rt[s][g].exit /\ ~rt[s][g].descendants
                /\ st' = [st EXCEPT ![p].pc = IF over THEN "report" ELSE "send", ![p].clean = over]
        <5>1. PICK over : over = (/\ rt[s][g].retired /\ rt[s][g].exit
                                  /\ ~rt[s][g].descendants /\ ~rt[s][g].unverified)
          OBVIOUS
        <5>2. over \in BOOLEAN
          BY <5>1, Zenon
        <5>3. st' = [st EXCEPT ![p].pc = IF over THEN "report" ELSE "send", ![p].clean = over]
          BY <2>0, <3>1, <5>1 DEF StopCheck
        <5> QED
          BY <5>1, <5>2, <5>3
      <4>2. st'[p].pc = (IF over THEN "report" ELSE "send") /\ st'[p].clean = over
        BY <1>0, <4>1 DEF TypeInv, StoppersTyped, StopperTypes
      <4> QED
        BY <4>1, <4>2 DEF Settled
    <3>2. CASE StopSend(p)
      <4>1. st'[p].pc \in {"waiting", "report"} /\ st'[p].clean = st[p].clean
        BY <1>0, <3>2 DEF StopSend, TypeInv, StoppersTyped, StopperTypes
      <4>2. ~st[p].clean
        BY <2>2, <3>2 DEF StopSend
      <4> QED
        BY <4>1, <4>2
    <3>3. CASE StopTimeout(p)
      BY <1>0, <3>3 DEF StopTimeout, TypeInv, StoppersTyped, StopperTypes
    <3> QED
      BY <1>14, <3>1, <3>2, <3>3
  <2>6. StopperInv(p)'
    BY <2>3, <2>4, <2>5 DEF StopperInv
  <2> QED
    BY <1>3, <1>4, <1>5, <1>6, <1>7, <2>1, <2>6 DEF records
<1>15. CASE StopCommit(p)
  <2>0. PICK s \in Sessions, g \in Generations : st[p].s = s /\ st[p].gen = g
    BY <1>0, <1>15 DEF StopCommit, TypeInv, StoppersTyped, StopperNamed
  <2>1. UNCHANGED <<known, present, gen, mine, launch, slot, lt, rt>>
    BY <1>15 DEF StopCommit
  <2>2. rt[s][g].pc # "none" /\ (st[p].clean => Settled(rt[s][g]))
    BY <1>0, <1>15, <2>0 DEF StopCommit, StopperInv
  <2>3. /\ \A t \in Sessions : t # s => lifecycle'[t] = lifecycle[t]
        /\ gen[s] # g => lifecycle'[s] = lifecycle[s]
        /\ gen[s] = g => lifecycle'[s] = LifecycleAfterStop(st[p].clean)
    BY <1>0, <1>15, <2>0 DEF StopCommit, TypeInv, BooksTyped
  <2>4. gen[s] = g => /\ lifecycle'[s] # "starting"
                      /\ lifecycle'[s] = "exited" => ~Open(rt'[s][g])
    BY <2>1, <2>2, <2>3 DEF LifecycleAfterStop, Open, Settled
  <2>5. \A t \in Sessions : QuietBook(t)
    BY <2>1, <2>2, <2>3, <2>4 DEF QuietBook
  <2>6. StoppersInv'
    BY <1>0, <1>8, <1>15 DEF StopCommit, TypeInv, StoppersTyped, StopperTypes
  <2> QED
    BY <1>4, <1>6, <2>1, <2>5, <2>6
<1>16. CASE StopInspect(p)
  <2>1. StoppersInv'
    BY <1>0, <1>8, <1>16 DEF StopInspect, IdleStopper, TypeInv, StoppersTyped
  <2> QED
    BY <1>4, <1>5, <1>6, <1>16, <2>1 DEF StopInspect, records
<1> QED
  BY <1>10, <1>11, <1>12, <1>13, <1>14, <1>15, <1>16 DEF Stopping

\* Each step of a session thread keeps the invariant of the registry.
LEMMA SessionInv ==
    ASSUME RegistryInv, TypeInv', RepliesInv', NEW s \in Sessions, NEW g \in Generations,
           Child(s, g) \/ SessionThread(s, g)
    PROVE  RegistryInv'
<1>0. TypeInv /\ RepliesInv /\ CellsInv /\ StoppersInv /\ BooksInv /\ LaunchersInv
      /\ RuntimeInv(rt[s][g])
  BY DEF RegistryInv, CellsInv
<1>1. CellsEvolve
  BY <1>0, SessionCells, OneCellEvolves DEF CellsStep, TypeInv
<1>2. CellsInv'
  BY <1>0, <1>1, CellsInvKept
<1>3. /\ UNCHANGED <<known, present, gen, mine, launch, lt>>
      /\ \A k \in Launchers : CalmLauncher(k)
  <2>1. UNCHANGED <<known, present, gen, mine, launch, lt>>
    BY DEF Child, SessionThread, ChildForks, ChildEnds, DescendantsEnd, Start, Announce,
           ChildExited, RecordExit, PublishExit, WaiterFails, Finalize, StopOverdue, CompleteStop,
           ThreadEnds, NoticeLifecycle, NoticeCompleted, RecordCompleted, ReleaseRuntime, threads,
           records
  <2> QED
    BY <2>1 DEF CalmLauncher
<1>4. StoppersInv'
  <2>1. CASE UNCHANGED st
    BY <1>0, <1>1, <2>1, StopperKeeps DEF StoppersInv
  <2>2. CASE CompleteStop(s, g)
    <3>1. ASSUME NEW p \in Stoppers PROVE StopperInv(p)'
      <4>1. CASE p \notin rt[s][g].replies
        BY <1>0, <1>1, <2>2, <4>1, StopperKeeps DEF CompleteStop, StoppersInv
      <4>2. CASE p \in rt[s][g].replies
        <5>1. st[p].pc = "waiting" /\ st[p].s = s /\ st[p].gen = g /\ st[p] \in StopperTypes
          BY <1>0, <4>2 DEF RepliesInv, TypeInv, StoppersTyped
        <5>2. rt[s][g].pc # "none"
          BY <1>0, <5>1 DEF StoppersInv, StopperInv
        <5>3. PICK b \in BOOLEAN : /\ b => rt[s][g].exit /\ ~rt[s][g].descendants
                                   /\ st'[p] = [st[p] EXCEPT !.pc = "report", !.clean = b]
          <6>1. PICK b : b = (rt[s][g].exit /\ ~rt[s][g].unverified /\ ~rt[s][g].descendants)
            OBVIOUS
          <6>2. b \in BOOLEAN
            BY <6>1, Zenon
          <6>3. st'[p] = [st[p] EXCEPT !.pc = "report", !.clean = b]
            BY <2>2, <4>2, <6>1 DEF CompleteStop
          <6> QED
            BY <6>1, <6>2, <6>3
        <5>4. st'[p].pc = "report" /\ st'[p].s = s /\ st'[p].gen = g /\ st'[p].clean = b
          BY <5>1, <5>3 DEF StopperTypes
        <5>5. rt'[s][g].pc # "none" /\ (Settled(rt[s][g]) => Settled(rt'[s][g]))
          BY <1>0, <1>1, <5>2 DEF CellsEvolve, Evolves
        <5> QED
          BY <5>3, <5>4, <5>5 DEF StopperInv, Settled
      <4> QED
        BY <4>1, <4>2
    <3> QED
      BY <3>1 DEF StoppersInv
  <2> QED
    BY <2>1, <2>2
    DEF Child, SessionThread, ChildForks, ChildEnds, DescendantsEnd, Start, Announce,
        ChildExited, RecordExit, PublishExit, WaiterFails, Finalize, StopOverdue,
        ThreadEnds, NoticeLifecycle, NoticeCompleted, RecordCompleted, ReleaseRuntime, threads
<1>5. \A t \in Sessions : QuietBook(t)
  <2>1. CASE UNCHANGED <<lifecycle, slot>>
    BY <1>3, <2>1 DEF QuietBook
  <2>2. CASE NoticeLifecycle(s, g)
    <3>1. UNCHANGED slot /\ rt[s][g].notice \in {"unverified", "exited"}
      BY <2>2 DEF NoticeLifecycle
    <3>2. /\ \A t \in Sessions : t # s => lifecycle'[t] = lifecycle[t]
          /\ ~(present[s] /\ gen[s] = g) => lifecycle'[s] = lifecycle[s]
          /\ present[s] /\ gen[s] = g => lifecycle'[s] = rt[s][g].notice
      BY <1>0, <2>2 DEF NoticeLifecycle, TypeInv, BooksTyped
    <3>3. rt[s][g].pc # "none" /\ (rt[s][g].notice = "exited" => Settled(rt[s][g]))
      BY <1>0, <3>1 DEF RuntimeInv
    <3>4. Settled(rt[s][g]) => Settled(rt'[s][g])
      BY <1>0, <1>1 DEF CellsEvolve, Evolves
    <3>5. rt[s][g].notice = "exited" => ~Open(rt'[s][g])
      BY <3>3, <3>4 DEF Open, Settled
    <3> QED
      BY <1>3, <3>1, <3>2, <3>3, <3>5 DEF QuietBook
  <2>3. CASE ReleaseRuntime(s, g)
    <3>1. /\ UNCHANGED lifecycle
          /\ \A t \in Sessions : t # s => slot'[t] = slot[t]
          /\ slot'[s] = slot[s] \/ (slot'[s] = 0 /\ Releasable(s, g))
      BY <1>0, <2>3 DEF ReleaseRuntime, TypeInv, BooksTyped
    <3>2. ASSUME Releasable(s, g), NEW h \in Generations, Open(rt[s][h]), launch[s] = NoLaunch
          PROVE  FALSE
      <4>1. slot[s] = h /\ slot[s] = g
        BY <1>0, <3>2 DEF BooksInv, BookInv, Releasable
      <4> QED
        BY <3>2, <4>1 DEF Releasable, RuntimeOwns, Open
    <3> QED
      BY <1>3, <3>1, <3>2 DEF QuietBook
  <2> QED
    BY <2>1, <2>2, <2>3
    DEF Child, SessionThread, ChildForks, ChildEnds, DescendantsEnd, Start, Announce,
        ChildExited, RecordExit, PublishExit, WaiterFails, Finalize, StopOverdue, CompleteStop,
        ThreadEnds, NoticeCompleted, RecordCompleted, records
<1> QED
  BY <1>0, <1>1, <1>2, <1>3, <1>4, <1>5, QuietStep DEF RegistryInv

\* A removal leaves no process behind.
LEMMA RemovalInvariant ==
    ASSUME RegistryInv, TypeInv', RepliesInv', NEW s \in Sessions, Remove(s) \/ Trim(s)
    PROVE  RegistryInv'
<1>0. TypeInv /\ CellsInv /\ StoppersInv /\ BooksInv /\ LaunchersInv
  BY DEF RegistryInv
<1>1. /\ Drop(s) /\ present[s] /\ launch[s] = NoLaunch /\ lifecycle[s] # "starting"
      /\ ~(OwnsProcess(s) /\ mine[s])
  BY DEF Remove, Trim, OwnsProcess
<1>2. UNCHANGED <<known, gen, lifecycle, mine, launch, rt, lt, st>>
  BY <1>1 DEF Drop, threads
<1>3. ~present'[s] /\ slot'[s] = 0
      /\ \A t \in Sessions : t # s => present'[t] = present[t] /\ slot'[t] = slot[t]
  BY <1>0, <1>1 DEF Drop, TypeInv, BooksTyped
<1>4. CellsEvolve
  BY <1>0, <1>2, CellsStay DEF TypeInv
<1>5. CellsInv' /\ StoppersInv'
  BY <1>0, <1>2, <1>4, CellsInvKept, StopperKeeps DEF StoppersInv
<1>6. \A g \in Generations : ~Open(rt[s][g])
  <2> SUFFICES ASSUME NEW g \in Generations, Open(rt[s][g]) PROVE FALSE
    OBVIOUS
  <2>1. mine[s] /\ slot[s] = g
    BY <1>0, <1>1 DEF BooksInv, BookInv
  <2>2. g # 0
    BY ConstantsAssumption DEF Generations
  <2> QED
    BY <1>1, <2>1, <2>2 DEF OwnsProcess, RuntimeOwns, Open
<1>7. ASSUME NEW t \in Sessions PROVE BookInv(t)'
  <2>0. BookInv(t)
    BY <1>0 DEF BooksInv
  <2>1. CASE t = s
    BY <1>1, <1>2, <1>3, <1>6, <2>0, <2>1 DEF BookInv
  <2>2. CASE t # s
    BY <1>2, <1>3, <2>0, <2>2 DEF BookInv
  <2> QED
    BY <2>1, <2>2
<1>8. ASSUME NEW k \in Launchers PROVE LauncherInv(k)' /\ CreatorInv(k)'
  <2>0. LauncherInv(k) /\ CreatorInv(k)
    BY <1>0 DEF LaunchersInv
  <2>1. CASE lt[k].pc \in LaunchPcs \cup {"create"}
    <3>1. lt[k].s \in Sessions /\ lt[k].s # s
      BY <1>0, <1>1, <2>1, SoleRestart DEF TypeInv, LaunchersTyped, LauncherNamed, LaunchPcs
    <3> QED
      BY <1>2, <1>3, <2>0, <3>1 DEF LauncherInv, CreatorInv
  <2>2. CASE lt[k].pc \notin LaunchPcs \cup {"create"}
    BY <1>2, <2>0, <2>2 DEF LauncherInv, CreatorInv, LaunchPcs
  <2> QED
    BY <2>1, <2>2
<1> QED
  BY <1>5, <1>7, <1>8 DEF RegistryInv, BooksInv, LaunchersInv

\* The invariant holds when the host has read its records, ...
LEMMA RegistryInit == ASSUME Init PROVE RegistryInv
<1>1. TypeInv /\ RepliesInv
  BY TypesInit
<1>2. RuntimeInv(NoRuntime) /\ NoRuntime.pc = "none"
  BY DEF RuntimeInv, NoRuntime, Settled
<1>3. CellsInv
  BY <1>2 DEF CellsInv, Init
<1>4. LaunchersInv
  BY DEF LaunchersInv, LauncherInv, CreatorInv, LaunchPcs, IdleLauncher, Init
<1>5. StoppersInv
  BY DEF StoppersInv, StopperInv, IdleStopper, Init
<1>6. ASSUME NEW s \in Sessions PROVE BookInv(s)
  <2>1. \A g \in Generations : rt[s][g].pc = "none"
    BY <1>2 DEF Init
  <2>2. \A l \in Launchers : lt[l].pc = "idle"
    BY DEF Init, IdleLauncher
  <2> QED
    BY <2>1, <2>2 DEF BookInv, Open, Init
<1> QED
  BY <1>1, <1>3, <1>4, <1>5, <1>6 DEF RegistryInv, BooksInv

\* ... and after every step.
LEMMA RegistryStep == ASSUME RegistryInv, [Next]_vars PROVE RegistryInv'
<1>1. TypeInv' /\ RepliesInv'
  BY TypesStep DEF RegistryInv
<1>2. ASSUME UNCHANGED <<records, rt, lt, st>> PROVE RegistryInv'
  <2>1. UNCHANGED <<known, present, gen, lifecycle, mine, launch, slot>>
    BY <1>2 DEF records
  <2>2. CellsInv' /\ StoppersInv'
    BY <1>2 DEF RegistryInv, CellsInv, StoppersInv, StopperInv
  <2>3. BooksInv' /\ LaunchersInv'
    BY <1>2, <2>1 DEF RegistryInv, BooksInv, BookInv, LaunchersInv, LauncherInv, CreatorInv
  <2> QED
    BY <1>1, <2>2, <2>3 DEF RegistryInv
<1>3. CASE UNCHANGED vars
  BY <1>2, <1>3 DEF vars, threads
<1>4. ASSUME NEW q \in Requesters, ShuttingDown(q) PROVE RegistryInv'
  BY <1>2, <1>4 DEF ShuttingDown, ShutdownBegin, ShutdownResolved, ShutdownUnresolved,
                    ShutdownRecords, ShutdownDrain, ShutdownAnswered, ShutdownAbandoned
<1> QED
  BY <1>1, <1>3, <1>4, LaunchingInv, StoppingInv, SessionInv, RemovalInvariant DEF Next

\* The registry, its session threads and its host threads stay in agreement.
THEOREM RegistryInvariant == Spec => []RegistryInv
BY RegistryInit, RegistryStep, PTL DEF Spec

\* A child, or a descendant of it, that lives is one the cells count on.
LEMMA AliveIsOpen ==
    ASSUME RegistryInv, NEW s \in Sessions, NEW g \in Generations, Alive(s, g)
    PROVE  Open(rt[s][g])
<1>1. RuntimeInv(rt[s][g]) /\ rt[s][g] \in RuntimeTypes
  BY DEF RegistryInv, CellsInv, TypeInv, RuntimesTyped
<1> QED
  BY <1>1 DEF Alive, Open, RuntimeInv, Settled, RuntimeTypes

\* No process of a session is ever outside the host's books, whatever the order of
\* creates, restarts, stops, removals and shutdowns.
THEOREM NoOrphans == Spec => []NothingOrphaned
<1>1. ASSUME RegistryInv PROVE NothingOrphaned
  <2> SUFFICES ASSUME NEW s \in Sessions, NEW g \in Generations, Alive(s, g)
               PROVE  present[s] /\ mine[s] /\ gen[s] = g /\ OwnsProcess(s)
    BY DEF NothingOrphaned
  <2>1. Open(rt[s][g])
    BY <1>1, AliveIsOpen
  <2>2. /\ present[s] /\ mine[s] /\ gen[s] = g
        /\ launch[s] = NoLaunch => slot[s] = g
    BY <1>1, <2>1 DEF RegistryInv, BooksInv, BookInv
  <2>3. g # 0
    BY ConstantsAssumption DEF Generations
  <2> QED
    BY <2>1, <2>2, <2>3 DEF OwnsProcess, RuntimeOwns, Open
<1> QED
  BY <1>1, RegistryInvariant, PTL

\* A record of this host that says exited has no process left.
THEOREM ExitedMeansDead == Spec => []ExitedIsDead
<1>1. ASSUME RegistryInv PROVE ExitedIsDead
  <2> SUFFICES ASSUME NEW s \in Sessions, present[s], mine[s], lifecycle[s] = "exited",
                      gen[s] # 0, Alive(s, gen[s])
               PROVE  FALSE
    BY DEF ExitedIsDead
  <2>1. gen[s] \in Generations
    BY <1>1, ConstantsAssumption DEF RegistryInv, TypeInv, BooksTyped, Generations
  <2>2. Open(rt[s][gen[s]])
    BY <1>1, <2>1, AliveIsOpen
  <2> QED
    BY <1>1, <2>2 DEF RegistryInv, BooksInv, BookInv
<1> QED
  BY <1>1, RegistryInvariant, PTL

\* A record that says starting has the thread that will commit or fail it.
THEOREM StartingIsOwned == Spec => []StartingHasOwner
<1>1. ASSUME RegistryInv PROVE StartingHasOwner
  <2> SUFFICES ASSUME NEW s \in Sessions, present[s], mine[s], lifecycle[s] = "starting"
               PROVE  \E l \in Launchers :
                          /\ launch[s].op = l /\ launch[s].gen = gen[s]
                          /\ lt[l].s = s /\ lt[l].gen = gen[s]
                          /\ lt[l].pc \in LaunchPcs
    BY DEF StartingHasOwner, LaunchPcs
  <2>1. PICK l \in Launchers : launch[s].op = l /\ lt[l].s = s /\ lt[l].pc \in LaunchPcs
    BY <1>1 DEF RegistryInv, BooksInv, BookInv
  <2> QED
    BY <1>1, <2>1 DEF RegistryInv, LaunchersInv, LauncherInv
<1> QED
  BY <1>1, RegistryInvariant, PTL

\* A generation is launched once, however many threads restart the session: no step
\* takes a session thread back to its start.
THEOREM LaunchedOnce == Spec => GenerationLaunchedOnce
<1>1. ASSUME RegistryInv, Next, NEW s \in Sessions, NEW g \in Generations,
             rt[s][g].pc # "none", rt'[s][g].pc = "starting"
      PROVE  rt[s][g].pc = "starting"
  <2>0. TypeInv /\ RuntimeInv(rt[s][g])
    BY <1>1 DEF RegistryInv, CellsInv
  <2>1. CASE CellsEvolve
    BY <1>1, <2>0, <2>1 DEF CellsEvolve, Evolves
  <2>2. CASE UNCHANGED rt
    BY <1>1, <2>2
  <2>3. ASSUME NEW l \in Launchers, Launching(l) PROVE rt[s][g].pc = "starting"
    <3>1. CASE Spawn(l)
      <4>1. LauncherInv(l) /\ lt[l].s \in Sessions /\ lt[l].gen \in Generations
        BY <1>1, <3>1, <2>0 DEF RegistryInv, LaunchersInv, TypeInv, LaunchersTyped, LauncherNamed,
                                Spawn
      <4>2. ~(lt[l].s = s /\ lt[l].gen = g)
        BY <1>1, <3>1, <4>1 DEF LauncherInv, Spawn
      <4>3. rt'[s][g] = rt[s][g]
        <5>1. CASE UNCHANGED rt
          BY <5>1
        <5>2. CASE rt' = [rt EXCEPT ![lt[l].s][lt[l].gen].pc = "starting"]
          BY <2>0, <4>1, <4>2, <5>2 DEF TypeInv, RuntimesTyped
        <5> QED
          BY <3>1, <5>1, <5>2 DEF Spawn
      <4> QED
        BY <1>1, <4>3
    <3> QED
      BY <2>0, <2>1, <2>3, <3>1, LauncherCells
  <2>4. ASSUME NEW p \in Stoppers, Stopping(p) PROVE rt[s][g].pc = "starting"
    BY <2>0, <2>1, <2>4, StopperCells
  <2>5. ASSUME NEW q \in Requesters, ShuttingDown(q) PROVE rt[s][g].pc = "starting"
    BY <2>2, <2>5 DEF ShuttingDown, ShutdownBegin, ShutdownResolved, ShutdownUnresolved,
                      ShutdownRecords, ShutdownDrain, ShutdownAnswered, ShutdownAbandoned
  <2>6. ASSUME NEW t \in Sessions, NEW h \in Generations, Child(t, h) \/ SessionThread(t, h)
        PROVE  rt[s][g].pc = "starting"
    BY <2>0, <2>1, <2>6, SessionCells, OneCellEvolves DEF CellsStep, TypeInv
  <2>7. ASSUME NEW t \in Sessions, Remove(t) \/ Trim(t) PROVE rt[s][g].pc = "starting"
    BY <2>2, <2>7 DEF Remove, Trim, Drop
  <2> QED
    BY <1>1, <2>3, <2>4, <2>5, <2>6, <2>7 DEF Next
<1>2. ASSUME RegistryInv, [Next]_vars
      PROVE  [\A s \in Sessions, g \in Generations :
                 rt[s][g].pc # "none" =>
                     (rt'[s][g].pc = "starting" => rt[s][g].pc = "starting")]_vars
  BY <1>1, <1>2
<1> QED
  BY <1>2, RegistryInvariant, PTL DEF Spec, GenerationLaunchedOnce

-----------------------------------------------------------------------------
(***************************************************************************)
(* The queue of unresolved launches                                        *)
(***************************************************************************)

\* Only an admission, which looks at the length of the queue first, adds to the
\* queue, and it adds one launch.
LEMMA QueueGrows ==
    ASSUME RegistryInv, [Next]_vars
    PROVE  \/ PendingLaunches' \subseteq PendingLaunches
           \/ /\ Cardinality(PendingLaunches) < MaxPending
              /\ \E s \in Sessions : PendingLaunches' \subseteq PendingLaunches \cup {s}
<1>0. TypeInv /\ LaunchersInv /\ BooksTyped
  BY DEF RegistryInv, TypeInv
<1>1. ASSUME UNCHANGED <<present, launch>> PROVE PendingLaunches' \subseteq PendingLaunches
  BY <1>1 DEF PendingLaunches
<1>2. ASSUME NEW s \in Sessions, \A t \in Sessions : t # s =>
                                    present'[t] = present[t] /\ launch'[t] = launch[t]
      PROVE  PendingLaunches' \subseteq PendingLaunches \cup {s}
  BY <1>2 DEF PendingLaunches
<1>3. ASSUME NEW s \in Sessions, s \in PendingLaunches \/ s \notin PendingLaunches',
             \A t \in Sessions : t # s => present'[t] = present[t] /\ launch'[t] = launch[t]
      PROVE  PendingLaunches' \subseteq PendingLaunches
  BY <1>3 DEF PendingLaunches
<1>4. ASSUME NEW l \in Launchers, lt[l].pc \in LaunchPcs
      PROVE  lt[l].s \in Sessions /\ lt[l].s \in PendingLaunches
  <2>1. lt[l].s \in Sessions /\ LauncherInv(l)
    BY <1>0, <1>4 DEF TypeInv, LaunchersTyped, LauncherNamed, LaunchPcs, LaunchersInv
  <2> QED
    BY <1>4, <2>1, NoLaunchIsFree DEF LauncherInv, PendingLaunches
<1>5. ASSUME NEW l \in Launchers, Launching(l)
      PROVE  \/ PendingLaunches' \subseteq PendingLaunches
             \/ /\ Cardinality(PendingLaunches) < MaxPending
                /\ \E s \in Sessions : PendingLaunches' \subseteq PendingLaunches \cup {s}
  <2>1. CASE UNCHANGED <<present, launch>>
    BY <1>1, <2>1
  <2>2. CASE CreateAdmit(l) \/ RestartAdmit(l)
    <3>1. lt[l].s \in Sessions /\ Cardinality(PendingLaunches) < MaxPending
      BY <1>0, <2>2 DEF CreateAdmit, RestartAdmit, Admitted, TypeInv, LaunchersTyped, LauncherNamed
    <3>2. \A t \in Sessions : t # lt[l].s => present'[t] = present[t] /\ launch'[t] = launch[t]
      BY <1>0, <2>2, <3>1 DEF CreateAdmit, RestartAdmit, BooksTyped
    <3> QED
      BY <1>2, <3>1, <3>2
  <2>3. CASE CreatePersist(l) \/ RestartPersist(l) \/ Register(l) \/ Commit(l) \/ FailLaunch(l)
    <3>1. lt[l].s \in Sessions /\ lt[l].s \in PendingLaunches
      BY <1>4, <2>3 DEF CreatePersist, RestartPersist, Register, Commit, FailLaunch, LaunchPcs
    <3>2. \A t \in Sessions : t # lt[l].s => present'[t] = present[t] /\ launch'[t] = launch[t]
      <4>1. CASE CreatePersist(l)
        BY <1>0, <3>1, <4>1 DEF CreatePersist, BooksTyped
      <4>2. CASE RestartPersist(l)
        BY <1>0, <3>1, <4>2 DEF RestartPersist, BooksTyped
      <4>3. CASE Register(l)
        BY <1>0, <3>1, <4>3 DEF Register, BooksTyped
      <4>4. CASE Commit(l)
        BY <1>0, <3>1, <4>4 DEF Commit, BooksTyped
      <4>5. CASE FailLaunch(l)
        BY <1>0, <3>1, <4>5 DEF FailLaunch, BooksTyped
      <4> QED
        BY <2>3, <4>1, <4>2, <4>3, <4>4, <4>5
    <3> QED
      BY <1>3, <3>1, <3>2
  <2> QED
    BY <1>5, <2>1, <2>2, <2>3
    DEF Launching, CreateBegin, RestartBegin, RestartLedger, AdmissionWait, LaunchRefused, Spawn,
        Await, records
<1>6. ASSUME NEW p \in Stoppers, Stopping(p) PROVE PendingLaunches' \subseteq PendingLaunches
  <2>1. CASE UNCHANGED <<present, launch>>
    BY <1>1, <2>1
  <2>2. CASE StopBegin(p) /\ launch' # launch
    <3>1. /\ st[p].s \in Sessions /\ present[st[p].s] /\ launch[st[p].s] # NoLaunch
          /\ UNCHANGED present
          /\ launch' = [launch EXCEPT ![st[p].s].cancelled = TRUE]
      BY <1>0, <2>2 DEF StopBegin, TypeInv, StoppersTyped, StopperNamed
    <3>2. \A t \in Sessions : t # st[p].s => present'[t] = present[t] /\ launch'[t] = launch[t]
      BY <1>0, <3>1 DEF BooksTyped
    <3>3. st[p].s \in PendingLaunches
      BY <3>1 DEF PendingLaunches
    <3> QED
      BY <1>3, <3>1, <3>2, <3>3
  <2>3. StopBegin(p) => UNCHANGED present
    BY DEF StopBegin
  <2> QED
    BY <1>6, <2>1, <2>2, <2>3
    DEF Stopping, ClientStop, CancelledStop, ShutdownStop, StopCheck, StopSend, StopTimeout,
        StopCommit, StopInspect, records
<1>7. ASSUME NEW q \in Requesters, ShuttingDown(q)
      PROVE  PendingLaunches' \subseteq PendingLaunches
  <2>1. UNCHANGED <<present, launch>>
    BY <1>7 DEF ShuttingDown, ShutdownBegin, ShutdownResolved, ShutdownUnresolved, ShutdownRecords,
                ShutdownDrain, ShutdownAnswered, ShutdownAbandoned, records
  <2> QED
    BY <1>1, <2>1
<1>8. ASSUME NEW s \in Sessions, NEW g \in Generations, Child(s, g) \/ SessionThread(s, g)
      PROVE  PendingLaunches' \subseteq PendingLaunches
  <2>1. UNCHANGED <<present, launch>>
    BY <1>8 DEF Child, SessionThread, ChildForks, ChildEnds, DescendantsEnd, Start, Announce,
           ChildExited, RecordExit, PublishExit, WaiterFails, Finalize, StopOverdue, CompleteStop,
           ThreadEnds, NoticeLifecycle, NoticeCompleted, RecordCompleted, ReleaseRuntime, records
  <2> QED
    BY <1>1, <2>1
<1>9. ASSUME NEW s \in Sessions, Remove(s) \/ Trim(s)
      PROVE  PendingLaunches' \subseteq PendingLaunches
  <2>1. Drop(s)
    BY <1>9 DEF Remove, Trim
  <2>2. /\ s \notin PendingLaunches'
        /\ \A t \in Sessions : t # s => present'[t] = present[t] /\ launch'[t] = launch[t]
    BY <1>0, <2>1 DEF Drop, PendingLaunches, BooksTyped
  <2> QED
    BY <1>3, <2>2
<1>10. CASE UNCHANGED vars
  BY <1>1, <1>10 DEF vars, records
<1> QED
  BY <1>5, <1>6, <1>7, <1>8, <1>9, <1>10 DEF Next

\* The queue of unresolved launches stays within MAX_PENDING_LAUNCHES: the length
\* that an admission looked at is still the length when it adds its own launch.
THEOREM QueueIsBounded == Spec => []LaunchesBounded
<1> DEFINE Bounded == IsFiniteSet(PendingLaunches) /\ Cardinality(PendingLaunches) \in 0..MaxPending
<1>1. ASSUME Init PROVE Bounded
  <2>1. PendingLaunches = {}
    BY <1>1 DEF Init, PendingLaunches
  <2>2. IsFiniteSet({}) /\ Cardinality({}) = 0
    BY FS_EmptySet
  <2> QED
    BY <2>1, <2>2, ConstantsAssumption
<1>2. ASSUME RegistryInv, [Next]_vars, Bounded PROVE Bounded'
  <2>1. ASSUME NEW X, PendingLaunches' \subseteq X, IsFiniteSet(X), Cardinality(X) \in 0..MaxPending
        PROVE  Bounded'
    <3>1. IsFiniteSet(PendingLaunches') /\ Cardinality(PendingLaunches') <= Cardinality(X)
      BY <2>1, FS_Subset
    <3>2. Cardinality(PendingLaunches') \in Nat
      BY <3>1, FS_CardinalityType
    <3> QED
      BY <2>1, <3>1, <3>2, ConstantsAssumption
  <2>2. CASE PendingLaunches' \subseteq PendingLaunches
    BY <1>2, <2>1, <2>2
  <2>3. ASSUME Cardinality(PendingLaunches) < MaxPending, NEW s \in Sessions,
               PendingLaunches' \subseteq PendingLaunches \cup {s}
        PROVE  Bounded'
    <3>1. /\ IsFiniteSet(PendingLaunches \cup {s})
          /\ \/ Cardinality(PendingLaunches \cup {s}) = Cardinality(PendingLaunches)
             \/ Cardinality(PendingLaunches \cup {s}) = Cardinality(PendingLaunches) + 1
      BY <1>2, FS_AddElement
    <3>2. Cardinality(PendingLaunches \cup {s}) \in 0..MaxPending
      BY <1>2, <2>3, <3>1, ConstantsAssumption
    <3> QED
      BY <2>1, <2>3, <3>1, <3>2
  <2> QED
    BY <1>2, <2>2, <2>3, QueueGrows
<1>3. ASSUME Bounded PROVE LaunchesBounded
  BY <1>3, ConstantsAssumption DEF LaunchesBounded
<1> QED
  BY <1>1, <1>2, <1>3, RegistryInvariant, PTL DEF Spec

-----------------------------------------------------------------------------
(***************************************************************************)
(* Records that say running                                                *)
(***************************************************************************)

\* A record that says running has no launch and, unless it was put back by a restart
\* that could not be written, holds the runtime of its generation, and if that
\* runtime's exit is published, the notice of it is on its way.
RunningAt(s) ==
    present[s] /\ mine[s] /\ lifecycle[s] = "running" =>
        /\ launch[s] = NoLaunch
        /\ s \notin undone =>
              slot[s] = gen[s] /\ gen[s] # 0 /\ Announced(rt[s][gen[s]])
RunningInv == \A s \in Sessions : RunningAt(s)

\* A record that stays what it was, of a runtime whose notice stays on its way, is
\* still current.
LEMMA RunningKept ==
    ASSUME RegistryInv, NEW s \in Sessions, RunningAt(s), SameBook(s),
           s \in undone => s \in undone',
           \A g \in Generations : g = gen[s] /\ Announced(rt[s][g]) => Announced(rt'[s][g])
    PROVE  RunningAt(s)'
<1>1. gen[s] \in 0..MaxGeneration /\ (gen[s] # 0 => gen[s] \in Generations)
  BY ConstantsAssumption DEF RegistryInv, TypeInv, BooksTyped, Generations
<1> QED
  BY <1>1 DEF RunningAt, SameBook

\* The launchers keep such records current; a restart that puts one back says so.
LEMMA LaunchingRunning ==
    ASSUME RegistryInv, RunningInv, NEW l \in Launchers, Launching(l)
    PROVE  RunningInv'
<1>0. TypeInv /\ BooksTyped /\ CellsInv /\ AnnouncedKept /\ LauncherInv(l)
  BY LauncherCells DEF RegistryInv, TypeInv, LaunchersInv
<1>1. ASSUME NEW s \in Sessions, SameBook(s), s \in undone => s \in undone' PROVE RunningAt(s)'
  BY <1>0, <1>1, RunningKept DEF RunningInv, CellsInv, AnnouncedKept
<1>2. ASSUME NEW s \in Sessions, RunningAt(s)', \A t \in Sessions : t # s => SameBook(t),
             undone \ {s} \subseteq undone'
      PROVE  RunningInv'
  BY <1>1, <1>2 DEF RunningInv
<1>3. CASE UNCHANGED <<present, gen, lifecycle, mine, launch, slot, undone>>
  BY <1>1, <1>3 DEF SameBook, RunningInv
<1>4. CASE CreateAdmit(l) \/ RestartAdmit(l)
  <2>1. PICK s \in Sessions : lt[l].s = s
    BY <1>0, <1>4 DEF CreateAdmit, RestartAdmit, TypeInv, LaunchersTyped, LauncherNamed
  <2>2. /\ lifecycle'[s] = "starting" /\ UNCHANGED undone
        /\ \A t \in Sessions : t # s => SameBook(t)
    BY <1>0, <1>4, <2>1 DEF CreateAdmit, RestartAdmit, BooksTyped, SameBook, history
  <2> QED
    BY <1>2, <2>2 DEF RunningAt
<1>5. CASE Register(l) \/ Commit(l) \/ FailLaunch(l)
  <2>1. PICK s \in Sessions : lt[l].s = s
    BY <1>0, <1>5 DEF Register, Commit, FailLaunch, TypeInv, LaunchersTyped, LauncherNamed
  <2>2. PICK g \in Generations : lt[l].gen = g
    BY <1>0, <1>5 DEF Register, Commit, FailLaunch, TypeInv, LaunchersTyped, LauncherNamed
  <2>3. /\ lt[l].pc \in LaunchPcs /\ present[s] /\ mine[s] /\ gen[s] = g
        /\ launch[s].op = l /\ launch[s].gen = g /\ launch[s] # NoLaunch
    BY <1>0, <1>5, <2>1, <2>2, NoLaunchIsFree
    DEF Register, Commit, FailLaunch, LaunchPcs, LauncherInv
  <2>4. RunningAt(s) /\ lifecycle[s] # "running"
    BY <2>3 DEF RunningInv, RunningAt
  <2>5. CASE Register(l)
    <3>1. UNCHANGED <<lifecycle, undone>> /\ \A t \in Sessions : t # s => SameBook(t)
      BY <1>0, <2>1, <2>5 DEF Register, BooksTyped, SameBook, history
    <3> QED
      BY <1>2, <2>4, <3>1 DEF RunningAt
  <2>6. CASE FailLaunch(l)
    <3>1. /\ lifecycle'[s] = "failed" /\ UNCHANGED undone
          /\ \A t \in Sessions : t # s => SameBook(t)
      BY <1>0, <2>1, <2>3, <2>6 DEF FailLaunch, BooksTyped, SameBook, Owned, history
    <3> QED
      BY <1>2, <3>1 DEF RunningAt
  <2>7. CASE Commit(l)
    <3>1. /\ launch'[s] = NoLaunch /\ slot'[s] = g /\ UNCHANGED <<gen, rt>>
          /\ lifecycle'[s] = LifecycleAtCommit(s, g) /\ undone' = undone \ {s}
          /\ \A t \in Sessions : t # s => SameBook(t)
      BY <1>0, <2>1, <2>2, <2>3, <2>7 DEF Commit, BooksTyped, SameBook, Owned
    <3>2. ASSUME lifecycle'[s] = "running" PROVE Announced(rt[s][g])
      <4>1. ~rt[s][g].exit
        BY <3>1, <3>2 DEF LifecycleAtCommit
      <4> QED
        BY <1>0, <4>1 DEF CellsInv, RuntimeInv, Settled, Announced
    <3>3. g # 0
      BY ConstantsAssumption DEF Generations
    <3>4. RunningAt(s)'
      BY <2>3, <3>1, <3>2, <3>3 DEF RunningAt
    <3> QED
      BY <1>2, <3>1, <3>4
  <2> QED
    BY <1>5, <2>5, <2>6, <2>7
<1>6. CASE CreatePersist(l) /\ ~UNCHANGED <<present, launch>>
  <2>1. PICK s \in Sessions : lt[l].s = s
    BY <1>0, <1>6 DEF CreatePersist, TypeInv, LaunchersTyped, LauncherNamed
  <2>2. present[s] /\ launch[s].op = l
    BY <1>0, <1>6, <2>1 DEF CreatePersist, LauncherInv, LaunchPcs
  <2>3. /\ ~present'[s] /\ UNCHANGED undone
        /\ \A t \in Sessions : t # s => SameBook(t)
    BY <1>0, <1>6, <2>1, <2>2 DEF CreatePersist, BooksTyped, SameBook, Owned, history
  <2> QED
    BY <1>2, <2>3 DEF RunningAt
<1>7. CASE RestartPersist(l) /\ ~UNCHANGED <<gen, lifecycle, mine, launch, undone>>
  <2>1. PICK s \in Sessions : lt[l].s = s
    BY <1>0, <1>7 DEF RestartPersist, TypeInv, LaunchersTyped, LauncherNamed
  <2>2. /\ launch'[s] = NoLaunch /\ undone' = undone \cup {s}
        /\ \A t \in Sessions : t # s => SameBook(t)
    BY <1>0, <1>7, <2>1 DEF RestartPersist, BooksTyped, SameBook
  <2> QED
    BY <1>2, <2>2 DEF RunningAt
<1> QED
  BY <1>3, <1>4, <1>5, <1>6, <1>7
  DEF Launching, CreateBegin, CreatePersist, RestartBegin, RestartLedger, RestartPersist,
      AdmissionWait, LaunchRefused, Spawn, Await, records, history

\* So do the stops.
LEMMA StoppingRunning ==
    ASSUME RegistryInv, RunningInv, NEW p \in Stoppers, Stopping(p)
    PROVE  RunningInv'
<1>0. TypeInv /\ BooksTyped /\ CellsInv /\ AnnouncedKept
  BY StopperCells DEF RegistryInv, TypeInv
<1>u. UNCHANGED undone
  BY DEF Stopping, ClientStop, CancelledStop, ShutdownStop, StopBegin, StopCheck, StopSend,
         StopTimeout, StopCommit, StopInspect, history
<1>1. ASSUME NEW s \in Sessions, SameBook(s) PROVE RunningAt(s)'
  BY <1>0, <1>u, <1>1, RunningKept DEF RunningInv, CellsInv, AnnouncedKept
<1>2. ASSUME NEW s \in Sessions, RunningAt(s)', \A t \in Sessions : t # s => SameBook(t)
      PROVE  RunningInv'
  BY <1>1, <1>2 DEF RunningInv
<1>3. CASE UNCHANGED <<present, gen, lifecycle, mine, launch, slot>>
  BY <1>1, <1>3 DEF SameBook, RunningInv
<1>4. CASE StopBegin(p) /\ launch' # launch
  <2>1. PICK s \in Sessions : st[p].s = s
    BY <1>0, <1>4 DEF StopBegin, TypeInv, StoppersTyped, StopperNamed
  <2>2. /\ launch[s] # NoLaunch /\ UNCHANGED <<present, lifecycle, mine>>
        /\ \A t \in Sessions : t # s => SameBook(t)
    BY <1>0, <1>4, <2>1 DEF StopBegin, BooksTyped, SameBook
  <2>3. RunningAt(s)'
    BY <2>2 DEF RunningInv, RunningAt
  <2> QED
    BY <1>2, <2>2, <2>3
<1>5. CASE StopCommit(p)
  <2>1. PICK s \in Sessions : st[p].s = s
    BY <1>0, <1>5 DEF StopCommit, TypeInv, StoppersTyped, StopperNamed
  <2>2. /\ lifecycle'[s] = lifecycle[s] \/ lifecycle'[s] # "running"
        /\ UNCHANGED <<present, gen, mine, launch, slot>>
        /\ \A t \in Sessions : t # s => SameBook(t)
    BY <1>0, <1>5, <2>1 DEF StopCommit, BooksTyped, SameBook, LifecycleAfterStop
  <2>3. RunningAt(s)'
    BY <1>1, <2>2 DEF SameBook, RunningAt
  <2> QED
    BY <1>2, <2>2, <2>3
<1> QED
  BY <1>3, <1>4, <1>5
  DEF Stopping, ClientStop, CancelledStop, ShutdownStop, StopBegin, StopCheck, StopSend,
      StopTimeout, StopInspect, records

\* So does a session thread: its exit is taken to the record before the record lets
\* go of it.
LEMMA SessionRunning ==
    ASSUME RegistryInv, RunningInv, NEW s \in Sessions, NEW g \in Generations,
           Child(s, g) \/ SessionThread(s, g)
    PROVE  RunningInv'
<1>0. TypeInv /\ BooksTyped /\ RuntimesTyped /\ CellsInv /\ RuntimeInv(rt[s][g])
  BY DEF RegistryInv, TypeInv, CellsInv
<1>1. PICK r2 \in RuntimeTypes :
          /\ rt' = [rt EXCEPT ![s][g] = r2]
          /\ NoticeLifecycle(s, g) \/ (Announced(rt[s][g]) => Announced(r2))
  BY <1>0, SessionCells DEF CellsStep
<1>2. /\ rt'[s][g] = r2
      /\ \A t \in Sessions, h \in Generations : t # s \/ h # g => rt'[t][h] = rt[t][h]
  BY <1>0, <1>1 DEF RuntimesTyped
<1>3. UNCHANGED <<present, gen, mine, launch, undone>>
  BY DEF Child, SessionThread, ChildForks, ChildEnds, DescendantsEnd, Start, Announce,
         ChildExited, RecordExit, PublishExit, WaiterFails, Finalize, StopOverdue, CompleteStop,
         ThreadEnds, NoticeLifecycle, NoticeCompleted, RecordCompleted, ReleaseRuntime, records,
         history
<1>4. ASSUME NEW t \in Sessions, SameBook(t), t # s PROVE RunningAt(t)'
  BY <1>2, <1>3, <1>4, RunningKept DEF RunningInv
<1>5. ASSUME RunningAt(s)', \A t \in Sessions : t # s => SameBook(t) PROVE RunningInv'
  BY <1>4, <1>5 DEF RunningInv
<1>6. CASE NoticeLifecycle(s, g)
  <2>1. /\ UNCHANGED slot
        /\ \A t \in Sessions : t # s => lifecycle'[t] = lifecycle[t]
        /\ present[s] /\ gen[s] = g => lifecycle'[s] # "running"
        /\ ~(present[s] /\ gen[s] = g) => lifecycle'[s] = lifecycle[s]
    BY <1>0, <1>6 DEF NoticeLifecycle, BooksTyped
  <2>2. CASE ~present[s] \/ gen[s] = g
    BY <1>3, <1>5, <2>1, <2>2 DEF RunningAt, SameBook
  <2>3. CASE present[s] /\ gen[s] # g
    <3>1. SameBook(s)
      BY <1>3, <2>1, <2>3 DEF SameBook
    <3>2. RunningAt(s)'
      BY <1>2, <1>3, <2>3, <3>1, RunningKept DEF RunningInv
    <3> QED
      BY <1>3, <1>5, <2>1, <3>2 DEF SameBook
  <2> QED
    BY <2>2, <2>3
<1>7. CASE ~NoticeLifecycle(s, g) /\ UNCHANGED <<lifecycle, slot>>
  <2>1. \A t \in Sessions : SameBook(t)
    BY <1>3, <1>7 DEF SameBook
  <2>2. RunningAt(s)'
    BY <1>1, <1>2, <1>3, <1>7, <2>1, RunningKept DEF RunningInv
  <2> QED
    BY <1>5, <2>1, <2>2
<1>8. CASE ~NoticeLifecycle(s, g) /\ ReleaseRuntime(s, g)
  <2>1. /\ UNCHANGED lifecycle /\ rt[s][g].notice = "release"
        /\ \A t \in Sessions : t # s => slot'[t] = slot[t]
        /\ slot'[s] = slot[s] \/ (slot'[s] = 0 /\ Releasable(s, g))
    BY <1>0, <1>8 DEF ReleaseRuntime, BooksTyped
  <2>2. \A t \in Sessions : t # s => SameBook(t)
    BY <1>3, <2>1 DEF SameBook
  <2>3. CASE slot'[s] = slot[s]
    <3>1. RunningAt(s)'
      BY <1>1, <1>2, <1>3, <1>8, <2>1, <2>3, RunningKept DEF RunningInv, SameBook
    <3> QED
      BY <1>5, <2>2, <3>1
  <2>4. CASE Releasable(s, g)
    <3>1. slot[s] = g /\ rt[s][g].exit_published
      BY <1>0, <2>4 DEF Releasable, RuntimeOwns, RuntimeInv, Settled
    <3>2. ~Announced(rt[s][g])
      BY <2>1, <3>1 DEF Announced
    <3>3. ~(present[s] /\ mine[s] /\ lifecycle[s] = "running") \/ s \in undone
      BY <3>1, <3>2 DEF RunningInv, RunningAt
    <3>4. RunningAt(s)'
      BY <1>3, <2>1, <3>3 DEF RunningInv, RunningAt
    <3> QED
      BY <1>5, <2>2, <3>4
  <2> QED
    BY <2>1, <2>3, <2>4
<1> QED
  BY <1>6, <1>7, <1>8
  DEF Child, SessionThread, ChildForks, ChildEnds, DescendantsEnd, Start, Announce,
      ChildExited, RecordExit, PublishExit, WaiterFails, Finalize, StopOverdue, CompleteStop,
      ThreadEnds, NoticeCompleted, RecordCompleted, records

\* A record that says running is not stale, whether or not records can be written,
\* for any number of launchers and stops; exempt by name is the record a restart that
\* could not be written put back.
THEOREM RunningNotStale == Spec => []RunningIsCurrent
<1>1. ASSUME Init PROVE RunningInv
  BY <1>1 DEF Init, RunningInv, RunningAt
<1>2. ASSUME RegistryInv, RunningInv, [Next]_vars PROVE RunningInv'
  <2>1. ASSUME NEW s \in Sessions, SameBook(s), UNCHANGED <<rt, undone>> PROVE RunningAt(s)'
    BY <1>2, <2>1, RunningKept DEF RunningInv
  <2>2. CASE UNCHANGED <<records, rt, undone>>
    BY <2>1, <2>2 DEF records, SameBook, RunningInv
  <2>3. ASSUME NEW q \in Requesters, ShuttingDown(q) PROVE RunningInv'
    BY <2>2, <2>3 DEF ShuttingDown, ShutdownBegin, ShutdownResolved, ShutdownUnresolved,
                      ShutdownRecords, ShutdownDrain, ShutdownAnswered, ShutdownAbandoned,
                      history
  <2>4. ASSUME NEW s \in Sessions, Remove(s) \/ Trim(s) PROVE RunningInv'
    <3>1. Drop(s) /\ BooksTyped
      BY <1>2, <2>4 DEF Remove, Trim, RegistryInv, TypeInv
    <3>2. ~present'[s] /\ UNCHANGED <<rt, undone>> /\ \A t \in Sessions : t # s => SameBook(t)
      BY <3>1 DEF Drop, BooksTyped, SameBook, history
    <3>3. ASSUME NEW t \in Sessions PROVE RunningAt(t)'
      BY <2>1, <3>2 DEF RunningAt
    <3> QED
      BY <3>3 DEF RunningInv
  <2>5. CASE UNCHANGED vars
    BY <2>2, <2>5 DEF vars, history
  <2> QED
    BY <1>2, <2>3, <2>4, <2>5, LaunchingRunning, StoppingRunning, SessionRunning DEF Next
<1>3. ASSUME RunningInv PROVE RunningIsCurrent
  BY <1>3 DEF RunningInv, RunningAt, RunningIsCurrent, Announced
<1> QED
  BY <1>1, <1>2, <1>3, RegistryInvariant, PTL DEF Spec

-----------------------------------------------------------------------------
(***************************************************************************)
(* What a shutdown leaves behind                                           *)
(***************************************************************************)

\* The session has a launch or may own a process.
Engaged(s) == launch[s] # NoLaunch \/ \E g \in Generations : Open(rt[s][g])

\* The shutdown found everything stopped.
Ending(q) == sd[q].pc \in {"records", "drain"} \/ (sd[q].pc = "reply" /\ sd[q].ok)

\* A stop is at work on the process its session has, if there is one, and one that
\* will report success leaves none.
StopHonest(p) ==
    /\ st[p].pc \in {"check", "send", "waiting", "report"} /\ Engaged(st[p].s) =>
          launch[st[p].s] = NoLaunch /\ gen[st[p].s] = st[p].gen
    /\ st[p].pc = "inspect" /\ st[p].clean => ~Engaged(st[p].s)

StopsInv ==
    /\ \A p \in Stoppers : st[p].for <= attempts
    /\ \A q \in Requesters : sd[q].id <= attempts
    /\ shutting_down => /\ attempts # 0
                        /\ \A p \in Stoppers : st[p].for = attempts => StopHonest(p)

\* A shutdown waits for every session that is engaged, until it knows of a failure.
RequestInv(q) ==
    /\ sd[q].pc = "stopping" =>
          /\ shutting_down /\ sd[q].id = attempts
          /\ \A s \in Sessions : Engaged(s) => s \in sd[q].pending \/ sd[q].unresolved
    /\ Ending(q) => shutting_down /\ \A s \in Sessions : ~Engaged(s)

\* Every shutdown that counts on the refusal has it, and one that was acknowledged
\* left nothing, unless the refusal was lifted behind its back.
DownInv ==
    /\ StopsInv
    /\ ~lifted => /\ \A q \in Requesters : RequestInv(q)
                  /\ down => shutting_down /\ \A s \in Sessions : ~Engaged(s)

\* No session becomes engaged by a step in which its launch and its generation stay
\* and its cells evolve.
Calm(s) ==
    /\ launch'[s] # NoLaunch => launch[s] # NoLaunch
    /\ gen'[s] = gen[s] \/ launch[s] # NoLaunch
    /\ \A g \in Generations : Open(rt'[s][g]) => Open(rt[s][g]) \/ launch[s] # NoLaunch

\* While the host shuts down nothing new begins: a step neither engages a session
\* nor changes the generation of a process it has.
LEMMA NothingNew ==
    ASSUME RegistryInv, [Next]_vars, shutting_down, NEW s \in Sessions
    PROVE  /\ Engaged(s)' => Engaged(s)
           /\ Engaged(s)' /\ launch[s] = NoLaunch => launch'[s] = NoLaunch /\ gen'[s] = gen[s]
<1>0. TypeInv /\ BooksTyped /\ RuntimesTyped /\ CellsInv /\ LaunchersInv
  BY DEF RegistryInv, TypeInv
<1>1. SUFFICES Calm(s)
  BY DEF Calm, Engaged
<1>2. ASSUME CellsEvolve PROVE \A g \in Generations : Open(rt'[s][g]) => Open(rt[s][g])
  BY <1>0, <1>2, EvolvedCells
<1>3. ASSUME CellsEvolve, UNCHANGED <<launch, gen>> PROVE Calm(s)
  BY <1>2, <1>3 DEF Calm
<1>4. ASSUME NEW l \in Launchers, Launching(l) PROVE Calm(s)
  <2>1. CellsEvolve \/ Spawn(l)
    BY <1>0, <1>4, LauncherCells
  <2>2. CASE lt[l].pc \in LaunchPcs /\ lt[l].s = s
    <3>1. launch[s] # NoLaunch
      BY <1>0, <2>2, NoLaunchIsFree DEF LaunchersInv, LauncherInv
    <3> QED
      BY <3>1 DEF Calm
  <2>3. CASE lt[l].pc \in LaunchPcs /\ lt[l].s # s
    <3>1. PICK t \in Sessions : lt[l].s = t
      BY <1>0, <2>3 DEF TypeInv, LaunchersTyped, LauncherNamed, LaunchPcs
    <3>2. launch'[s] = launch[s] /\ gen'[s] = gen[s]
      <4>1. CASE CreatePersist(l)
        BY <1>0, <2>3, <3>1, <4>1 DEF CreatePersist, BooksTyped
      <4>2. CASE RestartPersist(l)
        BY <1>0, <2>3, <3>1, <4>2 DEF RestartPersist, BooksTyped
      <4>3. CASE Register(l)
        BY <1>0, <2>3, <3>1, <4>3 DEF Register, BooksTyped
      <4>4. CASE Commit(l)
        BY <1>0, <2>3, <3>1, <4>4 DEF Commit, BooksTyped
      <4>5. CASE FailLaunch(l)
        BY <1>0, <2>3, <3>1, <4>5 DEF FailLaunch, BooksTyped
      <4>6. CASE Spawn(l) \/ Await(l)
        BY <4>6 DEF Spawn, Await, records
      <4> QED
        BY <1>4, <2>3, <4>1, <4>2, <4>3, <4>4, <4>5, <4>6
        DEF Launching, CreateBegin, CreateAdmit, RestartBegin, RestartLedger, RestartAdmit,
            AdmissionWait, LaunchRefused, LaunchPcs
    <3>3. \A g \in Generations : Open(rt'[s][g]) => Open(rt[s][g])
      <4>1. CASE CellsEvolve
        BY <1>2, <4>1
      <4>2. CASE Spawn(l)
        <5>1. lt[l].gen \in Generations
          BY <1>0, <4>2 DEF Spawn, TypeInv, LaunchersTyped, LauncherNamed
        <5>2. rt'[s] = rt[s]
          <6>1. CASE UNCHANGED rt
            BY <6>1
          <6>2. CASE rt' = [rt EXCEPT ![lt[l].s][lt[l].gen].pc = "starting"]
            BY <1>0, <2>3, <3>1, <5>1, <6>2 DEF RuntimesTyped
          <6> QED
            BY <4>2, <6>1, <6>2 DEF Spawn
        <5> QED
          BY <5>2
      <4> QED
        BY <2>1, <4>1, <4>2
    <3> QED
      BY <3>2, <3>3 DEF Calm
  <2>4. CASE lt[l].pc \notin LaunchPcs
    <3>1. ~Admitted(l)
      BY DEF Admitted
    <3>2. UNCHANGED <<launch, gen, rt>>
      BY <1>4, <2>4, <3>1
      DEF Launching, CreateBegin, CreateAdmit, CreatePersist, RestartBegin, RestartLedger,
          RestartAdmit, RestartPersist, AdmissionWait, LaunchRefused, Spawn, Register, Await,
          Commit, FailLaunch, LaunchPcs, records
    <3> QED
      BY <3>2 DEF Calm
  <2> QED
    BY <2>2, <2>3, <2>4
<1>5. ASSUME NEW p \in Stoppers, Stopping(p) PROVE Calm(s)
  <2>1. CellsEvolve
    BY <1>0, <1>5, StopperCells
  <2>2. CASE UNCHANGED <<launch, gen>>
    BY <1>3, <2>1, <2>2
  <2>3. CASE StopBegin(p)
    <3>1. PICK t \in Sessions : st[p].s = t
      BY <1>0, <2>3 DEF StopBegin, TypeInv, StoppersTyped, StopperNamed
    <3>2. UNCHANGED gen /\ (launch'[s] = launch[s] \/ launch[s] # NoLaunch)
      BY <1>0, <2>3, <3>1 DEF StopBegin, BooksTyped
    <3> QED
      BY <1>2, <2>1, <3>2 DEF Calm
  <2> QED
    BY <1>5, <2>2, <2>3
    DEF Stopping, ClientStop, CancelledStop, ShutdownStop, StopCheck, StopSend, StopTimeout,
        StopCommit, StopInspect, records
<1>6. ASSUME NEW q \in Requesters, ShuttingDown(q) PROVE Calm(s)
  <2>1. UNCHANGED <<launch, gen, rt>>
    BY <1>6 DEF ShuttingDown, ShutdownBegin, ShutdownResolved, ShutdownUnresolved, ShutdownRecords,
                ShutdownDrain, ShutdownAnswered, ShutdownAbandoned, records
  <2> QED
    BY <2>1 DEF Calm
<1>7. ASSUME NEW t \in Sessions, NEW g \in Generations, Child(t, g) \/ SessionThread(t, g)
      PROVE  Calm(s)
  <2>1. CellsEvolve
    BY <1>0, <1>7, SessionCells, OneCellEvolves DEF CellsStep
  <2>2. UNCHANGED <<launch, gen>>
    BY <1>7 DEF Child, SessionThread, ChildForks, ChildEnds, DescendantsEnd, Start, Announce,
           ChildExited, RecordExit, PublishExit, WaiterFails, Finalize, StopOverdue, CompleteStop,
           ThreadEnds, NoticeLifecycle, NoticeCompleted, RecordCompleted, ReleaseRuntime, records
  <2> QED
    BY <1>3, <2>1, <2>2
<1>8. ASSUME NEW t \in Sessions, Remove(t) \/ Trim(t) PROVE Calm(s)
  BY <1>8 DEF Remove, Trim, Drop, Calm
<1>9. CASE UNCHANGED vars
  BY <1>9 DEF vars, records, Calm
<1> QED
  BY <1>4, <1>5, <1>6, <1>7, <1>8, <1>9 DEF Next

\* A stop that stays at its session and generation, and does not come to its last
\* step, stays honest while the host shuts down.
LEMMA HonestKept ==
    ASSUME RegistryInv, [Next]_vars, shutting_down, NEW p \in Stoppers, StopHonest(p),
           \/ st'[p] = st[p]
           \/ st'[p].pc \in {"idle", "begin"}
           \/ /\ st[p].pc \in {"check", "send", "waiting"}
              /\ st'[p].pc \in {"send", "waiting", "report"}
              /\ st'[p].s = st[p].s /\ st'[p].gen = st[p].gen
    PROVE  StopHonest(p)'
<1>1. CASE st'[p].pc \in {"idle", "begin"}
  BY <1>1 DEF StopHonest
<1>2. CASE st'[p].pc \notin {"idle", "begin"}
  <2>1. PICK s \in Sessions : st[p].s = s
    <3>1. st[p].pc # "idle"
      BY <1>2
    <3> QED
      BY <3>1 DEF RegistryInv, TypeInv, StoppersTyped, StopperNamed
  <2>2. /\ Engaged(s)' => Engaged(s)
        /\ Engaged(s)' /\ launch[s] = NoLaunch => launch'[s] = NoLaunch /\ gen'[s] = gen[s]
    BY NothingNew
  <2>3. st'[p].s = s /\ st'[p].gen = st[p].gen
    BY <1>2, <2>1
  <2>4. /\ st'[p].pc \in {"check", "send", "waiting", "report"} =>
              st[p].pc \in {"check", "send", "waiting", "report"}
        /\ st'[p].pc = "inspect" => st'[p] = st[p]
    BY <1>2
  <2> QED
    BY <2>1, <2>2, <2>3, <2>4 DEF StopHonest
<1> QED
  BY <1>1, <1>2

\* A session in good order is engaged by the runtime in its record, if it has no
\* launch.
LEMMA EngagedBy ==
    ASSUME RegistryInv, NEW s \in Sessions, Engaged(s)
    PROVE  /\ present[s] /\ mine[s] /\ OwnsProcess(s)
           /\ launch[s] = NoLaunch => /\ gen[s] \in Generations /\ slot[s] = gen[s]
                                      /\ Open(rt[s][gen[s]])
<1>0. BookInv(s) /\ LaunchersInv
  BY DEF RegistryInv, BooksInv
<1>1. CASE launch[s] # NoLaunch
  BY <1>0, <1>1 DEF BookInv, LaunchersInv, LauncherInv, OwnsProcess
<1>2. CASE launch[s] = NoLaunch
  <2>1. PICK g \in Generations : Open(rt[s][g])
    BY <1>2 DEF Engaged
  <2>2. present[s] /\ mine[s] /\ gen[s] = g /\ slot[s] = g /\ g # 0
    BY <1>0, <1>2, <2>1, ConstantsAssumption DEF BookInv, Generations
  <2> QED
    BY <1>2, <2>1, <2>2 DEF OwnsProcess, RuntimeOwns, Open
<1> QED
  BY <1>1, <1>2

\* Each step of a stopping thread keeps the stops of a shutdown honest.
LEMMA StoppingHonest ==
    ASSUME RegistryInv, shutting_down, NEW p \in Stoppers, Stopping(p),
           NEW k \in Stoppers, StopHonest(k)
    PROVE  StopHonest(k)'
<1>0. TypeInv /\ BooksTyped /\ StoppersTyped /\ st[p] \in StopperTypes /\ st \in [Stoppers -> StopperTypes]
  BY DEF RegistryInv, TypeInv, StoppersTyped
<1>n. [Next]_vars
  BY DEF Next
<1>1. ASSUME st'[k] = st[k] PROVE StopHonest(k)'
  BY <1>n, <1>1, HonestKept
<1>2. CASE k # p
  <2>1. st'[k] = st[k]
    BY <1>0, <1>2 DEF Stopping, ClientStop, CancelledStop, ShutdownStop, StopAsked, StopBegin,
                      StopCheck, StopSend, StopTimeout, StopCommit, StopInspect
  <2> QED
    BY <1>1, <2>1
<1>3. ASSUME k = p, st'[p].pc \in {"idle", "begin"} PROVE StopHonest(k)'
  BY <1>n, <1>3, HonestKept
<1>4. ASSUME k = p, st[p].pc \in {"check", "send", "waiting"},
             st'[p].pc \in {"send", "waiting", "report"},
             st'[p].s = st[p].s, st'[p].gen = st[p].gen
      PROVE  StopHonest(k)'
  BY <1>n, <1>4, HonestKept
<1>5. CASE k = p /\ (\/ \E s \in Sessions : ClientStop(p, s)
                     \/ \E l \in Launchers : CancelledStop(p, l)
                     \/ \E q \in Requesters : ShutdownStop(p, q))
  <2>1. st'[p].pc = "begin"
    <3>1. \E s, g, for : StopAsked(p, s, g, for)
      BY <1>5 DEF ClientStop, CancelledStop, ShutdownStop
    <3> QED
      BY <1>0, <3>1 DEF StopAsked, IdleStopper
  <2> QED
    BY <1>3, <1>5, <2>1
<1>6. CASE k = p /\ (StopCheck(p) \/ StopSend(p) \/ StopTimeout(p))
  <2>1. /\ st[p].pc \in {"check", "send", "waiting"}
        /\ st'[p].pc \in {"send", "waiting", "report"}
        /\ st'[p].s = st[p].s /\ st'[p].gen = st[p].gen
    <3>1. CASE StopCheck(p)
      <4>1. PICK b : b = (/\ rt[st[p].s][st[p].gen].retired /\ rt[st[p].s][st[p].gen].exit
                          /\ ~rt[st[p].s][st[p].gen].descendants
                          /\ ~rt[st[p].s][st[p].gen].unverified)
        OBVIOUS
      <4>2. st' = [st EXCEPT ![p].pc = IF b THEN "report" ELSE "send", ![p].clean = b]
        BY <3>1, <4>1 DEF StopCheck
      <4> QED
        BY <1>0, <3>1, <4>2, SMTT(30) DEF StopCheck, StopperTypes
    <3>2. CASE StopSend(p)
      BY <1>0, <3>2 DEF StopSend, StopperTypes
    <3>3. CASE StopTimeout(p)
      BY <1>0, <3>3 DEF StopTimeout, StopperTypes
    <3> QED
      BY <1>6, <3>1, <3>2, <3>3
  <2> QED
    BY <1>4, <1>6, <2>1
<1>7. CASE k = p /\ StopInspect(p)
  <2>1. st'[p].pc = "idle"
    BY <1>0, <1>7 DEF StopInspect, IdleStopper
  <2> QED
    BY <1>3, <1>7, <2>1
<1>8. CASE k = p /\ StopCommit(p)
  <2>1. PICK s \in Sessions : st[p].s = s
    BY <1>0, <1>8 DEF StopCommit, StoppersTyped, StopperNamed
  <2>2. st'[p].pc = "inspect" /\ st'[p].s = s /\ st'[p].clean = st[p].clean
    BY <1>0, <1>8, <2>1 DEF StopCommit, StopperTypes
  <2>3. ASSUME Engaged(s), st[p].clean PROVE FALSE
    <3>1. launch[s] = NoLaunch /\ gen[s] = st[p].gen
      BY <1>8, <2>1, <2>3 DEF StopHonest, StopCommit
    <3>2. Open(rt[s][gen[s]])
      BY <2>3, <3>1, EngagedBy
    <3>3. Settled(rt[s][gen[s]])
      BY <1>8, <2>1, <2>3, <3>1 DEF RegistryInv, StoppersInv, StopperInv, StopCommit
    <3> QED
      BY <3>2, <3>3 DEF Open, Settled
  <2>4. Engaged(s)' => Engaged(s)
    BY <1>n, NothingNew
  <2> QED
    BY <1>8, <2>2, <2>3, <2>4 DEF StopHonest
<1>9. CASE k = p /\ StopBegin(p)
  <2>1. PICK s \in Sessions : st[p].s = s
    BY <1>0, <1>9 DEF StopBegin, StoppersTyped, StopperNamed
  <2>2. Engaged(s)' => Engaged(s)
    BY <1>n, NothingNew
  <2>3. CASE st' = [st EXCEPT ![p] = IdleStopper]
    <3>1. st'[p].pc = "idle"
      BY <1>0, <2>3 DEF IdleStopper
    <3> QED
      BY <1>3, <1>9, <3>1
  <2>4. CASE /\ st' = [st EXCEPT ![p].pc = "inspect", ![p].clean = TRUE]
             /\ launch[s] = NoLaunch
             /\ slot[s] = 0 \/ ~RuntimeOwns(rt[s][slot[s]])
    <3>1. st'[p].pc = "inspect" /\ st'[p].s = s
      BY <1>0, <2>1, <2>4 DEF StopperTypes
    <3>2. ASSUME Engaged(s) PROVE FALSE
      <4>1. gen[s] \in Generations /\ slot[s] = gen[s] /\ Open(rt[s][gen[s]])
        BY <2>4, <3>2, EngagedBy
      <4>2. slot[s] # 0
        BY <4>1, ConstantsAssumption DEF Generations
      <4> QED
        BY <2>4, <4>1, <4>2 DEF RuntimeOwns, Open
    <3> QED
      BY <1>9, <2>2, <3>1, <3>2 DEF StopHonest
  <2>5. CASE /\ st' = [st EXCEPT ![p].pc = "check", ![p].gen = slot[s]]
             /\ launch[s] = NoLaunch /\ UNCHANGED <<launch, gen>>
    <3>1. st'[p].pc = "check" /\ st'[p].s = s /\ st'[p].gen = slot[s]
      BY <1>0, <2>1, <2>5 DEF StopperTypes
    <3>2. Engaged(s) => slot[s] = gen[s]
      BY <2>5, EngagedBy
    <3> QED
      BY <1>9, <2>2, <2>5, <3>1, <3>2 DEF StopHonest
  <2> QED
    BY <1>9, <2>1, <2>3, <2>4, <2>5 DEF StopBegin
<1> QED
  BY <1>2, <1>5, <1>6, <1>7, <1>8, <1>9 DEF Stopping

\* What the answer of a stop changes for a requester: it no longer waits for the
\* session, or knows of the failure.
LEMMA AnswerEffect ==
    ASSUME RequestersTyped, NEW p \in Stoppers, NEW ok, Answer(p, ok), NEW q \in Requesters
    PROVE  /\ sd'[q].pc = sd[q].pc /\ sd'[q].id = sd[q].id /\ sd'[q].ok = sd[q].ok
           /\ \A s \in Sessions : s \in sd[q].pending \/ sd[q].unresolved =>
                 \/ s \in sd'[q].pending \/ sd'[q].unresolved
                 \/ s = st[p].s /\ ok /\ sd[q].pc = "stopping" /\ sd[q].id = st[p].for
<1>1. PICK v \in RequesterTypes : v = sd[q]
  BY DEF RequestersTyped
<1>2. PICK b : b = (v.unresolved \/ ~ok)
  OBVIOUS
<1>3. sd'[q] = IF v.pc = "stopping" /\ v.id = st[p].for
               THEN [v EXCEPT !.pending = v.pending \ {st[p].s}, !.unresolved = b]
               ELSE v
  BY <1>1, <1>2 DEF Answer
<1>4. CASE v.pc = "stopping" /\ v.id = st[p].for
  <2>1. sd'[q] = [v EXCEPT !.pending = v.pending \ {st[p].s}, !.unresolved = b]
    BY <1>3, <1>4
  <2>2. /\ sd'[q].pc = v.pc /\ sd'[q].id = v.id /\ sd'[q].ok = v.ok
        /\ sd'[q].pending = v.pending \ {st[p].s} /\ sd'[q].unresolved = b
    BY <2>1 DEF RequesterTypes
  <2> QED
    BY <1>1, <1>2, <1>4, <2>2
<1>5. CASE ~(v.pc = "stopping" /\ v.id = st[p].for)
  BY <1>1, <1>3, <1>5
<1> QED
  BY <1>4, <1>5

\* A requester that a step leaves waiting for all that is engaged keeps its promise.
LEMMA RequestKept ==
    ASSUME RegistryInv, [Next]_vars, UNCHANGED <<shutting_down, attempts>>,
           NEW q \in Requesters, RequestInv(q),
           sd'[q].pc = sd[q].pc, sd'[q].id = sd[q].id, sd'[q].ok = sd[q].ok,
           \A s \in Sessions : s \in sd[q].pending \/ sd[q].unresolved =>
               s \in sd'[q].pending \/ sd'[q].unresolved \/ ~shutting_down \/ ~Engaged(s)
    PROVE  RequestInv(q)'
<1>1. shutting_down => \A s \in Sessions : Engaged(s)' => Engaged(s)
  BY NothingNew
<1> QED
  BY <1>1 DEF RequestInv, Ending

\* A step that leaves the requests alone and every stop honest keeps the invariant.
LEMMA DownKept ==
    ASSUME RegistryInv, DownInv, [Next]_vars, UNCHANGED <<shutting_down, attempts, down, lifted>>,
           \A q \in Requesters : sd'[q].id = sd[q].id,
           ~lifted => \A q \in Requesters : RequestInv(q)',
           \A p \in Stoppers : st'[p].for <= attempts,
           \A p \in Stoppers : shutting_down /\ st'[p].for = attempts => StopHonest(p)'
    PROVE  DownInv'
<1>1. shutting_down => \A s \in Sessions : Engaged(s)' => Engaged(s)
  BY NothingNew
<1> QED
  BY <1>1 DEF DownInv, StopsInv

\* The steps of the stopping threads keep the invariant: a shutdown stops waiting
\* for a session only when it is disengaged, or knowing of a failure.
LEMMA StoppingDown ==
    ASSUME RegistryInv, DownInv, NEW p \in Stoppers, Stopping(p)
    PROVE  DownInv'
<1>0. /\ TypeInv /\ StoppersTyped /\ RequestersTyped /\ st \in [Stoppers -> StopperTypes]
      /\ attempts \in Nat
  BY ConstantsAssumption DEF RegistryInv, TypeInv, StoppersTyped, SwitchesTyped
<1>n. [Next]_vars
  BY DEF Next
<1>1. UNCHANGED <<shutting_down, attempts, down, lifted>>
  BY DEF Stopping, ClientStop, CancelledStop, ShutdownStop, StopBegin, StopCheck, StopSend,
         StopTimeout, StopCommit, StopInspect, history
<1>2. ASSUME NEW k \in Stoppers
      PROVE  \/ st'[k].for = st[k].for
             \/ st'[k].pc \in {"idle", "begin"} /\ st'[k].for <= attempts
  <2>1. ASSUME NEW s, NEW g, NEW for \in 0..attempts, StopAsked(p, s, g, for)
        PROVE  \/ st'[k].for = st[k].for
               \/ st'[k].pc \in {"idle", "begin"} /\ st'[k].for <= attempts
    BY <1>0, <2>1 DEF StopAsked, IdleStopper
  <2>2. CASE st' = [st EXCEPT ![p] = IdleStopper]
    BY <1>0, <2>2 DEF IdleStopper
  <2>3. CASE \E s \in Sessions : ClientStop(p, s)
    BY <1>0, <2>1, <2>3 DEF ClientStop
  <2>4. CASE \E l \in Launchers : CancelledStop(p, l)
    BY <1>0, <2>1, <2>4 DEF CancelledStop
  <2>5. CASE \E q \in Requesters : ShutdownStop(p, q)
    <3>1. PICK q \in Requesters : ShutdownStop(p, q)
      BY <2>5
    <3>2. sd[q].id \in 0..attempts
      BY <1>0, ConstantsAssumption DEF DownInv, StopsInv, RequestersTyped, RequesterTypes
    <3> QED
      BY <2>1, <3>1, <3>2 DEF ShutdownStop
  <2>6. CASE StopBegin(p)
    <3>1. CASE st' = [st EXCEPT ![p].pc = "inspect", ![p].clean = TRUE]
      BY <1>0, <3>1 DEF StopperTypes
    <3>2. CASE st' = [st EXCEPT ![p].pc = "check", ![p].gen = slot[st[p].s]]
      BY <1>0, <3>2 DEF StopperTypes
    <3> QED
      BY <2>2, <2>6, <3>1, <3>2 DEF StopBegin
  <2>7. CASE StopCheck(p)
    <3>1. PICK b : b = (/\ rt[st[p].s][st[p].gen].retired /\ rt[st[p].s][st[p].gen].exit
                        /\ ~rt[st[p].s][st[p].gen].descendants
                        /\ ~rt[st[p].s][st[p].gen].unverified)
      OBVIOUS
    <3>2. st' = [st EXCEPT ![p].pc = IF b THEN "report" ELSE "send", ![p].clean = b]
      BY <2>7, <3>1 DEF StopCheck
    <3> QED
      BY <1>0, <3>2 DEF StopperTypes
  <2>8. CASE StopSend(p)
    BY <1>0, <2>8 DEF StopSend, StopperTypes
  <2>9. CASE StopTimeout(p)
    BY <1>0, <2>9 DEF StopTimeout, StopperTypes
  <2>10. CASE StopCommit(p)
    BY <1>0, <2>10 DEF StopCommit, StopperTypes
  <2>11. CASE StopInspect(p)
    BY <2>2, <2>11 DEF StopInspect
  <2> QED
    BY <2>3, <2>4, <2>5, <2>6, <2>7, <2>8, <2>9, <2>10, <2>11 DEF Stopping
<1>3. ASSUME NEW k \in Stoppers PROVE st'[k].for <= attempts
  <2>1. st[k].for <= attempts
    BY DEF DownInv, StopsInv
  <2> QED
    BY <1>2, <2>1
<1>4. ASSUME NEW k \in Stoppers, shutting_down, st'[k].for = attempts PROVE StopHonest(k)'
  <2>1. CASE st'[k].pc \in {"idle", "begin"}
    BY <2>1 DEF StopHonest
  <2>2. CASE st'[k].for = st[k].for
    BY <1>4, <2>2, StoppingHonest DEF DownInv, StopsInv
  <2> QED
    BY <1>2, <2>1, <2>2
<1> DEFINE Kept(q) ==
        /\ sd'[q].pc = sd[q].pc /\ sd'[q].id = sd[q].id /\ sd'[q].ok = sd[q].ok
        /\ RequestInv(q) => \A s \in Sessions : s \in sd[q].pending \/ sd[q].unresolved =>
               s \in sd'[q].pending \/ sd'[q].unresolved \/ ~shutting_down \/ ~Engaged(s)
<1>5. ASSUME NEW q \in Requesters PROVE Kept(q)
  <2>1. CASE UNCHANGED sd
    BY <2>1
  <2>2. ASSUME NEW r \in Requesters, ShutdownStop(p, r) PROVE Kept(q)
    <3>1. PICK a : sd' = [sd EXCEPT ![r].asked = @ \ {a}]
      BY <2>2 DEF ShutdownStop
    <3>2. /\ sd'[q].pc = sd[q].pc /\ sd'[q].id = sd[q].id /\ sd'[q].ok = sd[q].ok
          /\ sd'[q].pending = sd[q].pending /\ sd'[q].unresolved = sd[q].unresolved
      BY <1>0, <3>1 DEF RequestersTyped, RequesterTypes
    <3> QED
      BY <3>2
  <2>3. CASE Answer(p, FALSE)
    <3>1. /\ sd'[q].pc = sd[q].pc /\ sd'[q].id = sd[q].id /\ sd'[q].ok = sd[q].ok
          /\ \A s \in Sessions : s \in sd[q].pending \/ sd[q].unresolved =>
                s \in sd'[q].pending \/ sd'[q].unresolved
      BY <1>0, <2>3, AnswerEffect
    <3> QED
      BY <3>1
  <2>4. CASE StopInspect(p)
    <3>1. PICK ok : /\ Answer(p, ok)
                    /\ ok = (/\ st[p].clean /\ present[st[p].s]
                             /\ slot[st[p].s] # 0 => ~rt[st[p].s][slot[st[p].s]].descendants)
      BY <2>4 DEF StopInspect
    <3>2. /\ sd'[q].pc = sd[q].pc /\ sd'[q].id = sd[q].id /\ sd'[q].ok = sd[q].ok
          /\ \A s \in Sessions : s \in sd[q].pending \/ sd[q].unresolved =>
                \/ s \in sd'[q].pending \/ sd'[q].unresolved
                \/ s = st[p].s /\ ok /\ sd[q].pc = "stopping" /\ sd[q].id = st[p].for
      BY <1>0, <3>1, AnswerEffect
    <3>3. ASSUME RequestInv(q), ok, sd[q].pc = "stopping", sd[q].id = st[p].for
          PROVE  ~Engaged(st[p].s)
      <4>1. shutting_down /\ st[p].for = attempts
        BY <3>3 DEF RequestInv
      <4>2. StopHonest(p)
        BY <4>1 DEF DownInv, StopsInv
      <4>3. st[p].pc = "inspect" /\ st[p].clean
        BY <2>4, <3>1, <3>3 DEF StopInspect
      <4> QED
        BY <4>2, <4>3 DEF StopHonest
    <3> QED
      BY <3>2, <3>3
  <2> QED
    BY <2>1, <2>2, <2>3, <2>4
    DEF Stopping, ClientStop, CancelledStop, StopBegin, StopCheck, StopSend, StopTimeout,
        StopCommit
<1>6. ASSUME ~lifted, NEW q \in Requesters PROVE RequestInv(q)'
  <2>1. RequestInv(q)
    BY <1>6 DEF DownInv
  <2> QED
    BY <1>n, <1>1, <1>5, <2>1, RequestKept
<1> QED
  BY <1>n, <1>1, <1>3, <1>4, <1>5, <1>6, DownKept

\* The steps of a requester keep it: it begins with all that is engaged, ends with
\* nothing engaged, and whatever else happens it lets new processes in again, noting
\* whether another shutdown still counted on the refusal.
LEMMA ShuttingDownDown ==
    ASSUME RegistryInv, DownInv, NEW q \in Requesters, ShuttingDown(q)
    PROVE  DownInv'
<1>0. /\ sd \in [Requesters -> RequesterTypes] /\ attempts \in Nat /\ StopsInv
      /\ st \in [Stoppers -> StopperTypes] /\ \A p \in Stoppers : st[p].for \in Nat
      /\ \A r \in Requesters : sd[r].id \in Nat
      /\ ~lifted => \A r \in Requesters : RequestInv(r)
  BY ConstantsAssumption
  DEF RegistryInv, TypeInv, RequestersTyped, StoppersTyped, SwitchesTyped, DownInv, StopperTypes,
      RequesterTypes
<1>1. UNCHANGED <<launch, gen, rt, st>>
  BY DEF ShuttingDown, ShutdownBegin, ShutdownResolved, ShutdownUnresolved, ShutdownRecords,
         ShutdownDrain, ShutdownAnswered, ShutdownAbandoned, records
<1>2. /\ \A s \in Sessions : Engaged(s)' <=> Engaged(s)
      /\ \A p \in Stoppers : StopHonest(p) => StopHonest(p)'
  BY <1>1 DEF Engaged, StopHonest
<1>3. \A r \in Requesters : r # q => sd'[r] = sd[r]
  <2>1. ASSUME NEW ok, Reply(q, ok) PROVE \A r \in Requesters : r # q => sd'[r] = sd[r]
    BY <1>0, <2>1 DEF Reply
  <2> QED
    BY <1>0, <2>1
    DEF ShuttingDown, ShutdownBegin, ShutdownResolved, ShutdownUnresolved, ShutdownRecords,
        ShutdownDrain, ShutdownAnswered, ShutdownAbandoned, GiveUp
<1>4. ASSUME sd'[q].id \in Nat, sd'[q].id <= attempts',
             \/ UNCHANGED attempts /\ (shutting_down' => shutting_down)
             \/ shutting_down' /\ attempts' = attempts + 1
      PROVE  StopsInv'
  <2>1. attempts' \in Nat /\ attempts <= attempts'
    BY <1>0, <1>4
  <2>2. \A r \in Requesters : sd'[r].id <= attempts'
    BY <1>0, <1>3, <1>4, <2>1 DEF StopsInv
  <2>3. CASE shutting_down' /\ attempts' = attempts + 1
    <3>1. \A p \in Stoppers : st'[p].for \in Nat /\ st'[p].for <= attempts
      BY <1>0, <1>1 DEF StopsInv
    <3>2. \A p \in Stoppers : st'[p].for <= attempts' /\ st'[p].for # attempts'
      BY <1>0, <2>3, <3>1
    <3>3. attempts' # 0
      BY <1>0, <2>3
    <3> QED
      BY <2>2, <3>2, <3>3 DEF StopsInv
  <2>4. CASE UNCHANGED attempts /\ (shutting_down' => shutting_down)
    BY <1>0, <1>1, <1>2, <2>2, <2>4 DEF StopsInv
  <2> QED
    BY <1>4, <2>3, <2>4
<1>5. ASSUME UNCHANGED <<shutting_down, attempts>>, NEW r \in Requesters, r # q, RequestInv(r)
      PROVE  RequestInv(r)'
  BY <1>2, <1>3, <1>5 DEF RequestInv, Ending
<1>6. ASSUME NEW r \in Requesters, r # q, ~Relies(r) PROVE RequestInv(r)'
  BY <1>3, <1>6 DEF RequestInv, Ending, Relies
<1>7. ASSUME sd'[q].pc \in {"reply", "idle"}, ~sd'[q].ok PROVE RequestInv(q)'
  BY <1>7 DEF RequestInv, Ending
<1>8. ASSUME sd'[q].id = 0 \/ sd'[q].id = sd[q].id,
             UNCHANGED <<shutting_down, attempts, lifted>>,
             ~lifted => /\ RequestInv(q)'
                        /\ down' => shutting_down /\ \A s \in Sessions : ~Engaged(s)
      PROVE  DownInv'
  <2>1. StopsInv'
    BY <1>0, <1>4, <1>8 DEF StopsInv
  <2>2. ASSUME ~lifted' PROVE \A r \in Requesters : RequestInv(r)'
    BY <1>0, <1>5, <1>8, <2>2
  <2> QED
    BY <1>2, <1>8, <2>1, <2>2 DEF DownInv
<1>9. ASSUME Lift(q), UNCHANGED <<attempts, down>>, sd'[q].pc \in {"reply", "idle"}, ~sd'[q].ok,
             sd'[q].id = 0
      PROVE  DownInv'
  <2>1. StopsInv'
    BY <1>0, <1>4, <1>9 DEF Lift
  <2>2. ASSUME ~lifted' PROVE ~down /\ \A r \in Requesters : RequestInv(r)'
    <3>1. ~down /\ ~OtherRelies(q)
      BY <1>9, <2>2 DEF Lift
    <3>2. \A r \in Requesters : r # q => ~Relies(r)
      BY <3>1 DEF OtherRelies
    <3> QED
      BY <1>6, <1>7, <1>9, <3>1, <3>2
  <2> QED
    BY <1>9, <2>1, <2>2 DEF DownInv
<1>10. ASSUME NEW ok \in BOOLEAN, Reply(q, ok)
       PROVE  sd'[q].pc = "reply" /\ sd'[q].ok = ok /\ sd'[q].id = 0
  BY <1>0, <1>10 DEF Reply, IdleRequester
<1>11. ASSUME GiveUp(q), UNCHANGED <<attempts, down>> PROVE DownInv'
  BY <1>9, <1>10, <1>11 DEF GiveUp
<1>12. CASE \E force \in BOOLEAN : ShutdownBegin(q, force)
  <2>1. ~down /\ ~down'
    BY <1>12 DEF ShutdownBegin
  <2>2. CASE Reply(q, FALSE) /\ UNCHANGED <<shutting_down, attempts, lifted>>
    BY <1>7, <1>8, <1>10, <2>1, <2>2
  <2>3. CASE ~(Reply(q, FALSE) /\ UNCHANGED <<shutting_down, attempts, lifted>>)
    <3> DEFINE owned == {s \in Sessions : present[s] /\ mine[s] /\ OwnsProcess(s)}
    <3>1. /\ shutting_down' /\ attempts' = attempts + 1 /\ lifted' = OtherRelies(q)
          /\ sd' = [sd EXCEPT ![q] = [IdleRequester EXCEPT
                       !.pc = "stopping", !.id = attempts + 1, !.pending = owned,
                       !.asked = {<<s, gen[s]>> : s \in owned}]]
      BY <1>12, <2>3 DEF ShutdownBegin
    <3>2. \A s \in Sessions : Engaged(s) => s \in owned
      BY EngagedBy
    <3> HIDE DEF owned
    <3>3. sd'[q].pc = "stopping" /\ sd'[q].id = attempts + 1 /\ sd'[q].pending = owned
      BY <1>0, <3>1 DEF IdleRequester
    <3>4. RequestInv(q)'
      BY <1>2, <3>1, <3>2, <3>3 DEF RequestInv, Ending
    <3>5. StopsInv'
      BY <1>0, <1>4, <3>1, <3>3
    <3>6. ASSUME ~lifted' PROVE \A r \in Requesters : RequestInv(r)'
      <4>1. \A r \in Requesters : r # q => ~Relies(r)
        BY <3>1, <3>6 DEF OtherRelies
      <4> QED
        BY <1>6, <3>4, <4>1
    <3> QED
      BY <2>1, <3>5, <3>6 DEF DownInv
  <2> QED
    BY <2>2, <2>3
<1>13. CASE ShutdownResolved(q)
  <2>1. /\ sd'[q].pc = "records" /\ UNCHANGED <<shutting_down, attempts, down, lifted>>
        /\ sd[q].pc = "stopping" /\ sd[q].pending = {} /\ ~sd[q].unresolved
        /\ sd'[q].id = sd[q].id
    BY <1>0, <1>13 DEF ShutdownResolved, RequesterTypes, history
  <2>2. ASSUME ~lifted PROVE RequestInv(q)' /\ shutting_down /\ \A s \in Sessions : ~Engaged(s)
    <3>1. shutting_down /\ \A s \in Sessions : ~Engaged(s)
      BY <1>0, <2>1, <2>2 DEF RequestInv
    <3> QED
      BY <1>2, <2>1, <3>1 DEF RequestInv, Ending
  <2> QED
    BY <1>8, <2>1, <2>2
<1>14. CASE ShutdownUnresolved(q)
  BY <1>11, <1>14 DEF ShutdownUnresolved
<1>15. CASE ShutdownRecords(q) \/ ShutdownDrain(q)
  <2>1. sd[q].pc \in {"records", "drain"} /\ UNCHANGED <<attempts, down>>
    BY <1>15 DEF ShutdownRecords, ShutdownDrain
  <2>2. CASE GiveUp(q)
    BY <1>11, <2>1, <2>2
  <2>3. CASE ~GiveUp(q)
    <3>1. /\ sd'[q].pc \in {"drain", "reply"} /\ UNCHANGED <<shutting_down, lifted>>
          /\ sd'[q].id = 0 \/ sd'[q].id = sd[q].id
      BY <1>0, <1>10, <1>15, <2>3 DEF ShutdownRecords, ShutdownDrain, RequesterTypes
    <3>2. ASSUME ~lifted PROVE RequestInv(q)' /\ shutting_down /\ \A s \in Sessions : ~Engaged(s)
      <4>1. shutting_down /\ \A s \in Sessions : ~Engaged(s)
        BY <1>0, <2>1, <3>2 DEF RequestInv, Ending
      <4> QED
        BY <1>2, <2>1, <3>1, <4>1 DEF RequestInv
    <3> QED
      BY <1>8, <2>1, <3>1, <3>2
  <2> QED
    BY <2>2, <2>3
<1>16. CASE ShutdownAnswered(q) \/ ShutdownAbandoned(q)
  <2>1. /\ sd[q].pc = "reply" /\ UNCHANGED attempts
        /\ sd'[q].pc = "idle" /\ ~sd'[q].ok /\ sd'[q].id = 0
    BY <1>0, <1>16 DEF ShutdownAnswered, ShutdownAbandoned, IdleRequester
  <2>2. CASE ShutdownAbandoned(q)
    BY <1>9, <2>1, <2>2 DEF ShutdownAbandoned
  <2>3. CASE ShutdownAnswered(q)
    <3>1. UNCHANGED <<shutting_down, lifted>> /\ down' = (down \/ sd[q].ok)
      BY <2>3 DEF ShutdownAnswered, history
    <3>2. ASSUME ~lifted, down' PROVE shutting_down /\ \A s \in Sessions : ~Engaged(s)
      <4>1. down \/ sd[q].ok
        BY <3>1, <3>2
      <4> QED
        BY <1>0, <2>1, <3>2, <4>1 DEF DownInv, RequestInv, Ending
    <3> QED
      BY <1>7, <1>8, <2>1, <3>1, <3>2
  <2> QED
    BY <1>16, <2>2, <2>3
<1> QED
  BY <1>12, <1>13, <1>14, <1>15, <1>16 DEF ShuttingDown

\* The steps of all the others keep it.
LEMMA OthersDown ==
    ASSUME RegistryInv, DownInv, [Next]_vars,
           UNCHANGED <<sd, shutting_down, attempts, down, lifted>>,
           \A p \in Stoppers :
               \/ st'[p] = st[p]
               \/ /\ st[p].pc = "waiting" /\ st'[p].pc = "report" /\ st'[p].for = st[p].for
                  /\ st'[p].s = st[p].s /\ st'[p].gen = st[p].gen
    PROVE  DownInv'
<1>1. ~lifted => \A q \in Requesters : RequestInv(q)'
  BY RequestKept DEF DownInv
<1>2. \A p \in Stoppers : st'[p].for = st[p].for
  OBVIOUS
<1>3. \A p \in Stoppers : st'[p].for <= attempts
  BY <1>2 DEF DownInv, StopsInv
<1>4. ASSUME NEW p \in Stoppers, shutting_down, st'[p].for = attempts PROVE StopHonest(p)'
  <2>1. StopHonest(p)
    BY <1>2, <1>4 DEF DownInv, StopsInv
  <2> QED
    BY <1>4, <2>1, HonestKept
<1> QED
  BY <1>1, <1>3, <1>4, DownKept

\* The invariant of the shutdown is kept by every step.
LEMMA DownStep ==
    ASSUME RegistryInv, DownInv, [Next]_vars
    PROVE  DownInv'
<1>0. st \in [Stoppers -> StopperTypes] /\ RepliesInv
  BY DEF RegistryInv, TypeInv, StoppersTyped
<1>1. ASSUME UNCHANGED <<sd, shutting_down, attempts, down, lifted, st>> PROVE DownInv'
  BY <1>1, OthersDown
<1>2. ASSUME NEW l \in Launchers, Launching(l) PROVE DownInv'
  BY <1>1, <1>2
  DEF Launching, CreateBegin, CreateAdmit, CreatePersist, RestartBegin, RestartLedger,
      RestartAdmit, RestartPersist, AdmissionWait, LaunchRefused, Spawn, Register, Await,
      Commit, FailLaunch, history
<1>3. ASSUME NEW s \in Sessions, NEW g \in Generations, Child(s, g) \/ SessionThread(s, g)
      PROVE  DownInv'
  <2>1. CASE CompleteStop(s, g)
    <3>1. ASSUME NEW p \in Stoppers
          PROVE  \/ st'[p] = st[p]
                 \/ /\ st[p].pc = "waiting" /\ st'[p].pc = "report" /\ st'[p].for = st[p].for
                    /\ st'[p].s = st[p].s /\ st'[p].gen = st[p].gen
      <4>1. CASE p \notin rt[s][g].replies
        BY <2>1, <4>1 DEF CompleteStop
      <4>2. CASE p \in rt[s][g].replies
        <5>1. PICK b : b = (rt[s][g].exit /\ ~rt[s][g].unverified /\ ~rt[s][g].descendants)
          OBVIOUS
        <5>2. st'[p] = [st[p] EXCEPT !.pc = "report", !.clean = b]
          BY <2>1, <4>2, <5>1 DEF CompleteStop
        <5>3. st[p].pc = "waiting"
          BY <1>0, <4>2 DEF RepliesInv
        <5> QED
          BY <1>0, <5>2, <5>3 DEF StopperTypes
      <4> QED
        BY <4>1, <4>2
    <3>2. UNCHANGED <<sd, shutting_down, attempts, down, lifted>>
      BY <2>1 DEF CompleteStop, history
    <3> QED
      BY <3>1, <3>2, OthersDown
  <2>2. CASE UNCHANGED <<sd, shutting_down, attempts, down, lifted, st>>
    BY <1>1, <2>2
  <2> QED
    BY <1>3, <2>1, <2>2
    DEF Child, SessionThread, ChildForks, ChildEnds, DescendantsEnd, Start, Announce,
        ChildExited, RecordExit, PublishExit, WaiterFails, Finalize, StopOverdue,
        ThreadEnds, NoticeLifecycle, NoticeCompleted, RecordCompleted, ReleaseRuntime, threads,
        history
<1>4. ASSUME NEW s \in Sessions, Remove(s) \/ Trim(s) PROVE DownInv'
  BY <1>1, <1>4 DEF Remove, Trim, Drop, threads, history
<1>5. CASE UNCHANGED vars
  BY <1>1, <1>5 DEF vars, threads, history
<1> QED
  BY <1>2, <1>3, <1>4, <1>5, StoppingDown, ShuttingDownDown DEF Next

\* A shutdown that was acknowledged left no process and no launch behind, for any
\* number of requesters, launchers and stops; exempt by name is a host whose refusal of
\* new processes another requester lifted meanwhile.
THEOREM DownMeansStopped == Spec => []DownOwnsNothing
<1>1. ASSUME Init PROVE DownInv
  <2>1. /\ \A q \in Requesters : sd[q].pc = "idle"
        /\ \A q \in Requesters : sd[q].id = 0
        /\ \A p \in Stoppers : st[p].for = 0
        /\ attempts = 0 /\ ~shutting_down /\ ~down
    BY <1>1 DEF Init, IdleRequester, IdleStopper
  <2> QED
    BY <2>1 DEF DownInv, StopsInv, RequestInv, Ending
<1>2. ASSUME RegistryInv, DownInv PROVE DownOwnsNothing
  <2>1. ASSUME down, ~lifted, NEW s \in Sessions, NEW g \in Generations, Alive(s, g) PROVE FALSE
    BY <1>2, <2>1, AliveIsOpen DEF DownInv, Engaged
  <2>2. ASSUME down, ~lifted, NEW l \in Launchers,
               lt[l].pc \in {"spawn", "register", "wait", "commit"}
        PROVE  FALSE
    <3>1. lt[l].s \in Sessions /\ launch[lt[l].s].op = l
      BY <1>2, <2>2 DEF RegistryInv, TypeInv, LaunchersTyped, LauncherNamed, LaunchersInv,
                        LauncherInv, LaunchPcs
    <3>2. Engaged(lt[l].s)
      BY <3>1, NoLaunchIsFree DEF Engaged
    <3> QED
      BY <1>2, <2>2, <3>1, <3>2 DEF DownInv
  <2> QED
    BY <2>1, <2>2 DEF DownOwnsNothing
<1> QED
  BY <1>1, <1>2, DownStep, RegistryInvariant, PTL DEF Spec
=============================================================================
