---------------------------- MODULE SessionHost ----------------------------
(***************************************************************************)
(* The session registry of the host (crates/paneflow-host/src/host.rs):    *)
(* who owns a session's process while it is created, launched, stopped,    *)
(* restarted, removed and shut down by threads that share one map lock.    *)
(*                                                                         *)
(* An action is the code between two acquisitions of the session map's     *)
(* lock (or of the manifest's, or one step of a session thread).  Every    *)
(* generation of a session has a session thread of its own                 *)
(* (runtime.rs), of which the module keeps the cells the host reads and    *)
(* the observer calls it makes; its stop protocol is abstracted to its     *)
(* three answers.  Records are written by Persistence: here a write either *)
(* succeeds or fails.                                                      *)
(***************************************************************************)
EXTENDS Integers, FiniteSets

CONSTANTS
    Sessions,          \* session identities, never reused after a removal
    Adopted,           \* the sessions adopt_previous_records found as lost
    MaxGeneration,     \* bound: generations per session
    MaxPending,        \* MAX_PENDING_LAUNCHES
    Launchers,         \* threads in create or restart, and late launch owners
    Stoppers,          \* threads in stop_until
    Requesters,        \* threads in request_shutdown
    MaxShutdowns,      \* bound: shutdowns begun
    StorageMayFail,    \* may a record fail to be written?
    WaiterMayFail      \* may the thread that waits for the child, or the wiring of its
                       \* terminal, fail?

ASSUME ConstantsAssumption ==
    /\ Adopted \subseteq Sessions
    /\ "none" \notin Launchers
    /\ MaxGeneration \in Nat \ {0}
    /\ MaxPending \in Nat \ {0}
    /\ MaxShutdowns \in Nat
    /\ StorageMayFail \in BOOLEAN
    /\ WaiterMayFail \in BOOLEAN

VARIABLES
    \* the session map: records and their manifests
    known,             \* identities given to a session so far
    present,           \* the map has a record
    gen, lifecycle,    \* manifest.generation, manifest.lifecycle
    mine,              \* manifest.host_instance is this host
    launch,            \* PendingLaunch
    slot,              \* record.runtime: the generation of the runtime, or 0
    completed,         \* record.completed: the generation recorded, or 0
    ledger,            \* the thread that holds the seed ledger, or "free"
    \* session threads, one per generation of a session
    rt,
    \* host threads
    lt, st, sd,
    shutting_down, attempts,
    down,              \* a shutdown was acknowledged: the server ends
    \* history, read by no action: what the code undoes behind a thread's back
    undone,            \* sessions whose restart was not written: the record it had
                       \* read was put back, and no launch was committed since
    lifted             \* the refusal of new processes was lifted by one requester
                       \* while another shutdown still relied on it

history == <<undone, lifted>>
records == <<known, present, gen, lifecycle, mine, launch, slot, completed, ledger>>
threads == <<lt, st, sd>>
vars == <<records, rt, threads, shutting_down, attempts, down, history>>

Generations == 1..MaxGeneration

Lifecycles == {"none", "starting", "running", "exited", "failed", "lost", "unverified"}

NoLaunch == [op |-> "none", gen |-> 0, armed |-> FALSE, cancelled |-> FALSE]

\* A session thread that was never launched.  proc and kids are the real state of
\* the child and of its tracked descendants; the other cells are what is known.
NoRuntime == [pc |-> "none", startup |-> "none", proc |-> "none", kids |-> FALSE,
              exit |-> FALSE, unverified |-> FALSE, descendants |-> FALSE,
              retired |-> FALSE, stop_requested |-> FALSE, waiter_failed |-> FALSE,
              exit_published |-> FALSE, completed |-> FALSE, notice |-> "none",
              stopping |-> FALSE, overdue |-> FALSE, replies |-> {}]

IdleLauncher == [pc |-> "idle", s |-> "none", gen |-> 0, waits |-> FALSE, attempts |-> 0,
                 prior |-> <<0, "none", FALSE>>]
IdleStopper == [pc |-> "idle", s |-> "none", gen |-> 0, for |-> 0, clean |-> FALSE]
IdleRequester == [pc |-> "idle", id |-> 0, asked |-> {}, pending |-> {},
                  unresolved |-> FALSE, ok |-> FALSE]

Init ==
    /\ known = Adopted
    /\ present = [s \in Sessions |-> s \in Adopted]
    /\ gen = [s \in Sessions |-> IF s \in Adopted THEN 1 ELSE 0]
    /\ lifecycle = [s \in Sessions |-> IF s \in Adopted THEN "lost" ELSE "none"]
    /\ mine = [s \in Sessions |-> FALSE]
    /\ launch = [s \in Sessions |-> NoLaunch]
    /\ slot = [s \in Sessions |-> 0]
    /\ completed = [s \in Sessions |-> 0]
    /\ ledger = [s \in Sessions |-> "free"]
    /\ rt = [s \in Sessions |-> [g \in Generations |-> NoRuntime]]
    /\ lt = [l \in Launchers |-> IdleLauncher]
    /\ st = [p \in Stoppers |-> IdleStopper]
    /\ sd = [q \in Requesters |-> IdleRequester]
    /\ shutting_down = FALSE
    /\ attempts = 0
    /\ down = FALSE
    /\ undone = {}
    /\ lifted = FALSE
-----------------------------------------------------------------------------
(***************************************************************************)
(* What a record says                                                      *)
(***************************************************************************)

\* SessionRuntime::is_live, owns_process of the runtime in the record
Live(s) == slot[s] # 0 /\ ~rt[s][slot[s]].exit /\ ~rt[s][slot[s]].unverified

RuntimeOwns(r) == ~r.exit \/ r.descendants

\* SessionRecord::owns_process
OwnsProcess(s) ==
    \/ launch[s] # NoLaunch
    \/ slot[s] # 0 /\ (RuntimeOwns(rt[s][slot[s]]) \/ rt[s][slot[s]].unverified)
    \/ lifecycle[s] = "unverified"

\* SessionSummary::owns_process of an owned session
SummaryOwns(s) ==
    /\ present[s] /\ mine[s]
    /\ \/ launch[s] # NoLaunch
       \/ Live(s)
       \/ slot[s] # 0 /\ rt[s][slot[s]].descendants
       \/ lifecycle[s] = "unverified"

\* refuse_replacement
Replaceable(s) ==
    /\ launch[s] = NoLaunch
    /\ ~Live(s)
    /\ lifecycle[s] # "starting"
    /\ slot[s] # 0 => ~rt[s][slot[s]].unverified /\ ~rt[s][slot[s]].descendants
    /\ ~(lifecycle[s] = "unverified" /\ mine[s])

PendingLaunches == {s \in Sessions : present[s] /\ launch[s] # NoLaunch}

\* Mutant: admit_launch lets one launch too many wait.
AdmitsOneMore(l) ==
    /\ ~shutting_down
    /\ lt[l].waits => attempts = lt[l].attempts
    /\ Cardinality(PendingLaunches) <= MaxPending

\* Mutant: admit_launch looks at the queue only, not at the shutdown.
AdmitsDuringShutdown(l) == Cardinality(PendingLaunches) < MaxPending

\* admit_launch lets the caller go on.  One that had to wait for a place does not
\* go on past a shutdown begun meanwhile, even one that has failed since.
Admitted(l) ==
    /\ ~shutting_down
    /\ lt[l].waits => attempts = lt[l].attempts
    /\ Cardinality(PendingLaunches) < MaxPending

Owned(s, l) == present[s] /\ launch[s].op = l

Goto(l, pc) == lt' = [lt EXCEPT ![l].pc = pc]

Proceed(l, pc) == lt' = [lt EXCEPT ![l].pc = pc, ![l].waits = FALSE, ![l].attempts = 0]

Finish(l) == lt' = [lt EXCEPT ![l] = IdleLauncher]
-----------------------------------------------------------------------------
(***************************************************************************)
(* create and restart                                                      *)
(***************************************************************************)

CreateBegin(l, s) ==
    /\ lt[l].pc = "idle"
    /\ s \notin known
    /\ ~shutting_down
    /\ known' = known \cup {s}
    /\ lt' = [lt EXCEPT ![l] = [IdleLauncher EXCEPT !.pc = "create", !.s = s, !.gen = 1]]
    /\ UNCHANGED <<present, gen, lifecycle, mine, launch, slot, completed, ledger,
                   rt, st, sd, shutting_down, attempts, down, history>>

CreateAdmit(l) ==
    LET s == lt[l].s IN
    /\ lt[l].pc = "create"
    /\ Admitted(l)
    /\ ~present[s]
    /\ present' = [present EXCEPT ![s] = TRUE]
    /\ gen' = [gen EXCEPT ![s] = 1]
    /\ lifecycle' = [lifecycle EXCEPT ![s] = "starting"]
    /\ mine' = [mine EXCEPT ![s] = TRUE]
    /\ launch' = [launch EXCEPT ![s] = [NoLaunch EXCEPT !.op = l, !.gen = 1]]
    /\ Proceed(l, "persist_create")
    /\ UNCHANGED <<known, slot, completed, ledger, rt, st, sd, shutting_down,
                   attempts, down, history>>

\* The record of a new session is written, or the session is withdrawn.
CreatePersist(l) ==
    LET s == lt[l].s IN
    /\ lt[l].pc = "persist_create"
    /\ \/ /\ Goto(l, "spawn")
          /\ UNCHANGED <<present, launch>>
       \/ /\ StorageMayFail
          /\ Finish(l)
          /\ present' = [present EXCEPT ![s] = @ /\ ~Owned(s, l)]
          /\ launch' = [launch EXCEPT ![s] = IF Owned(s, l) THEN NoLaunch ELSE @]
    /\ UNCHANGED <<known, gen, lifecycle, mine, slot, completed, ledger, rt, st, sd,
                   shutting_down, attempts, down, history>>

\* Mutant: restart skips a generation.
RestartSkipsOne(l, s) ==
    /\ lt[l].pc = "idle"
    /\ ~shutting_down
    /\ present[s] /\ gen[s] < MaxGeneration
    /\ Replaceable(s)
    /\ lt' = [lt EXCEPT ![l] = [IdleLauncher EXCEPT !.pc = "ledger", !.s = s,
                  !.gen = gen[s] + 2, !.prior = <<gen[s], lifecycle[s], mine[s]>>]]
    /\ UNCHANGED <<records, rt, st, sd, shutting_down, attempts, down, history>>

\* The first look of restart: the manifest it would replace is remembered.
RestartBegin(l, s) ==
    /\ lt[l].pc = "idle"
    /\ ~shutting_down
    /\ present[s] /\ gen[s] < MaxGeneration
    /\ Replaceable(s)
    /\ lt' = [lt EXCEPT ![l] = [IdleLauncher EXCEPT !.pc = "ledger", !.s = s,
                  !.gen = gen[s] + 1, !.prior = <<gen[s], lifecycle[s], mine[s]>>]]
    /\ UNCHANGED <<records, rt, st, sd, shutting_down, attempts, down, history>>

\* It takes the seed ledger, which it holds until the restart is written.
RestartLedger(l) ==
    LET s == lt[l].s IN
    /\ lt[l].pc = "ledger"
    /\ \/ /\ present[s] /\ ledger[s] = "free"
          /\ ledger' = [ledger EXCEPT ![s] = l]
          /\ Goto(l, "restart")
       \/ /\ ~present[s]
          /\ Finish(l)
          /\ UNCHANGED ledger
    /\ UNCHANGED <<known, present, gen, lifecycle, mine, launch, slot, completed, rt,
                   st, sd, shutting_down, attempts, down, history>>

\* Mutant: the second look of restart ignores the generation.
ReplaceableAnyGeneration(l) == present[lt[l].s] /\ Replaceable(lt[l].s)

\* The precheck of admit_launch in restart, after the ledger was taken.
StillReplaceable(l) ==
    LET s == lt[l].s IN present[s] /\ gen[s] = lt[l].prior[1] /\ Replaceable(s)

RestartAdmit(l) ==
    LET s == lt[l].s IN
    /\ lt[l].pc = "restart"
    /\ StillReplaceable(l)
    /\ Admitted(l)
    /\ gen' = [gen EXCEPT ![s] = lt[l].gen]
    /\ lifecycle' = [lifecycle EXCEPT ![s] = "starting"]
    /\ mine' = [mine EXCEPT ![s] = TRUE]
    /\ launch' = [launch EXCEPT ![s] = [NoLaunch EXCEPT !.op = l, !.gen = lt[l].gen]]
    /\ Proceed(l, "persist_restart")
    /\ UNCHANGED <<known, present, slot, completed, ledger, rt, st, sd,
                   shutting_down, attempts, down, history>>

\* The new generation is written, or the manifest it replaced comes back.
RestartPersist(l) ==
    LET s == lt[l].s IN
    /\ lt[l].pc = "persist_restart"
    /\ ledger' = [ledger EXCEPT ![s] = "free"]
    /\ \/ /\ Goto(l, "spawn")
          /\ UNCHANGED <<gen, lifecycle, mine, launch, undone>>
       \/ /\ StorageMayFail
          /\ Finish(l)
          /\ IF Owned(s, l)
             THEN /\ launch' = [launch EXCEPT ![s] = NoLaunch]
                  /\ gen' = [gen EXCEPT ![s] = lt[l].prior[1]]
                  /\ lifecycle' = [lifecycle EXCEPT ![s] = lt[l].prior[2]]
                  /\ mine' = [mine EXCEPT ![s] = lt[l].prior[3]]
                  /\ undone' = undone \cup {s}
             ELSE UNCHANGED <<gen, lifecycle, mine, launch, undone>>
    /\ UNCHANGED <<known, present, slot, completed, rt, st, sd, shutting_down,
                   attempts, down, lifted>>

\* admit_launch keeps a caller waiting that finds the queue full ...
AdmissionWait(l) ==
    /\ \/ lt[l].pc = "create" /\ ~present[lt[l].s]
       \/ lt[l].pc = "restart" /\ StillReplaceable(l)
    /\ ~lt[l].waits /\ ~shutting_down /\ ~Admitted(l)
    /\ lt' = [lt EXCEPT ![l].waits = TRUE, ![l].attempts = attempts]
    /\ UNCHANGED <<records, rt, st, sd, shutting_down, attempts, down, history>>

\* ... and answers ShuttingDown, Busy, or what its precheck found.  Before it comes
\* to that, restart may be unable to make the session's directory.
LaunchRefused(l) ==
    LET s == lt[l].s IN
    /\ \/ lt[l].pc = "create" /\ (present[s] \/ ~Admitted(l))
       \/ lt[l].pc = "restart" /\ (~StillReplaceable(l) \/ ~Admitted(l) \/ StorageMayFail)
    /\ Finish(l)
    /\ ledger' = [ledger EXCEPT ![s] = IF @ = l THEN "free" ELSE @]
    /\ UNCHANGED <<known, present, gen, lifecycle, mine, launch, slot, completed, rt,
                   st, sd, shutting_down, attempts, down, history>>
-----------------------------------------------------------------------------
(***************************************************************************)
(* launch, its late owner, commit_launch and fail_launch                   *)
(***************************************************************************)

\* SessionRuntime::launch starts the session thread, or cannot.
Spawn(l) ==
    /\ lt[l].pc = "spawn"
    /\ \/ /\ rt' = [rt EXCEPT ![lt[l].s][lt[l].gen].pc = "starting"]
          /\ Goto(l, "register")
       \/ /\ Goto(l, "fail")
          /\ UNCHANGED rt
    /\ UNCHANGED <<records, st, sd, shutting_down, attempts, down, history>>

\* The launch is given its canceller, and is cancelled if a stop came first or
\* the record forgot it.
Register(l) ==
    LET s == lt[l].s
        g == lt[l].gen
    IN
    /\ lt[l].pc = "register"
    /\ launch' = [launch EXCEPT ![s].armed = @ \/ Owned(s, l)]
    /\ rt' = [rt EXCEPT ![s][g].stop_requested = @ \/ ~Owned(s, l) \/ launch[s].cancelled]
    /\ Goto(l, "wait")
    /\ UNCHANGED <<known, present, gen, lifecycle, mine, slot, completed, ledger, st,
                   sd, shutting_down, attempts, down, history>>

\* LaunchHandle::wait: a launch cancelled meanwhile is handed over as unverified.
Received(r) == [r EXCEPT !.unverified = @ \/ r.stop_requested, !.startup = "taken"]

\* The wait, by the caller until its deadline and then by the late
\* owner (or the scan that stands in for it) for as long as it takes.
Await(l) ==
    LET s == lt[l].s
        g == lt[l].gen
    IN
    /\ lt[l].pc = "wait"
    /\ \/ /\ rt[s][g].startup = "ok"
          /\ rt' = [rt EXCEPT ![s][g] = Received(@)]
          /\ Goto(l, "commit")
       \/ /\ rt[s][g].startup = "failed"
          /\ Goto(l, "fail")
          /\ UNCHANGED rt
    /\ UNCHANGED <<records, st, sd, shutting_down, attempts, down, history>>

\* Mutant: commit_launch takes every child it can watch for a running one.
RunningAtCommit(s, g) ==
    IF launch[s].cancelled \/ rt[s][g].unverified THEN "unverified" ELSE "running"

LifecycleAtCommit(s, g) ==
    IF launch[s].cancelled \/ rt[s][g].unverified THEN "unverified"
    ELSE IF rt[s][g].exit THEN "exited" ELSE "running"

\* commit_launch: the runtime becomes the record's.  A launch that was cancelled
\* meanwhile goes on to stop.
Commit(l) ==
    LET s == lt[l].s
        g == lt[l].gen
    IN
    /\ lt[l].pc = "commit"
    /\ IF Owned(s, l)
       THEN /\ lifecycle' = [lifecycle EXCEPT ![s] = LifecycleAtCommit(s, g)]
            /\ slot' = [slot EXCEPT ![s] = g]
            /\ completed' = [completed EXCEPT ![s] = 0]
            /\ launch' = [launch EXCEPT ![s] = NoLaunch]
            /\ undone' = undone \ {s}
            /\ IF launch[s].cancelled THEN Goto(l, "stop") ELSE Finish(l)
       ELSE /\ Finish(l)
            /\ UNCHANGED <<lifecycle, slot, completed, launch, undone>>
    /\ UNCHANGED <<known, present, gen, mine, ledger, rt, st, sd, shutting_down,
                   attempts, down, lifted>>

\* Mutant: a failed launch is forgotten but its record still says starting.
FailKeepsStarting(l) ==
    LET s == lt[l].s IN
    /\ lt[l].pc = "fail"
    /\ launch' = [launch EXCEPT ![s] = IF Owned(s, l) THEN NoLaunch ELSE @]
    /\ Finish(l)
    /\ UNCHANGED <<known, present, gen, lifecycle, mine, slot, completed, ledger, rt,
                   st, sd, shutting_down, attempts, down, history>>

\* Mutant: a failed launch keeps its place.
FailKeepsLaunch(l) ==
    /\ lt[l].pc = "fail"
    /\ Finish(l)
    /\ UNCHANGED <<records, rt, st, sd, shutting_down, attempts, down, history>>

FailLaunch(l) ==
    LET s == lt[l].s IN
    /\ lt[l].pc = "fail"
    /\ launch' = [launch EXCEPT ![s] = IF Owned(s, l) THEN NoLaunch ELSE @]
    /\ lifecycle' = [lifecycle EXCEPT ![s] =
                        IF Owned(s, l) /\ gen[s] = launch[s].gen THEN "failed" ELSE @]
    /\ Finish(l)
    /\ UNCHANGED <<known, present, gen, mine, slot, completed, ledger, rt, st, sd,
                   shutting_down, attempts, down, history>>
-----------------------------------------------------------------------------
(***************************************************************************)
(* stop_until                                                              *)
(***************************************************************************)

\* The answer a stop gives the shutdown that asked for it, if it still listens.
Answer(p, ok) ==
    sd' = [q \in Requesters |->
              IF sd[q].pc = "stopping" /\ sd[q].id = st[p].for
              THEN [sd[q] EXCEPT !.pending = @ \ {st[p].s}, !.unresolved = @ \/ ~ok]
              ELSE sd[q]]

\* A thread starts stop_until, for a client, for a cancelled launch (whose
\* launcher then is done), or for each owned session of a shutdown.
StopAsked(p, s, g, for) ==
    st' = [st EXCEPT ![p] = [IdleStopper EXCEPT !.pc = "begin", !.s = s, !.gen = g,
                                                 !.for = for]]

ClientStop(p, s) ==
    /\ st[p].pc = "idle"
    /\ present[s]
    /\ \E g \in {0, gen[s]} : StopAsked(p, s, g, 0)
    /\ UNCHANGED <<records, rt, lt, sd, shutting_down, attempts, down, history>>

CancelledStop(p, l) ==
    /\ st[p].pc = "idle"
    /\ lt[l].pc = "stop"
    /\ StopAsked(p, lt[l].s, lt[l].gen, 0)
    /\ Finish(l)
    /\ UNCHANGED <<records, rt, sd, shutting_down, attempts, down, history>>

ShutdownStop(p, q) ==
    /\ st[p].pc = "idle"
    /\ sd[q].pc = "stopping"
    /\ \E a \in sd[q].asked :
          /\ StopAsked(p, a[1], a[2], sd[q].id)
          /\ sd' = [sd EXCEPT ![q].asked = @ \ {a}]
    /\ UNCHANGED <<records, rt, lt, shutting_down, attempts, down, history>>

\* The part under the map lock: a pending launch is cancelled, a session that
\* owns nothing is done with, any other is to be stopped.  A stop names the
\* generation it is for, or none.
StopBegin(p) ==
    LET s == st[p].s
        found == present[s] /\ st[p].gen \in {0, gen[s]}
        pending == launch[s] # NoLaunch
        over == IF slot[s] = 0 THEN lifecycle[s] \in {"exited", "failed"}
                ELSE ~RuntimeOwns(rt[s][slot[s]]) /\ ~rt[s][slot[s]].unverified
        Done(ok) == /\ Answer(p, ok)
                    /\ st' = [st EXCEPT ![p] = IdleStopper]
    IN
    /\ st[p].pc = "begin"
    /\ \/ /\ ~found
          /\ Done(FALSE)
          /\ UNCHANGED <<launch, rt>>
       \/ /\ found /\ pending
          /\ launch' = [launch EXCEPT ![s].cancelled = TRUE]
          /\ rt' = [rt EXCEPT ![s][launch[s].gen].stop_requested = @ \/ launch[s].armed]
          /\ Done(FALSE)
       \/ /\ found /\ ~pending /\ slot[s] = 0 /\ ~over
          /\ Done(FALSE)
          /\ UNCHANGED <<launch, rt>>
       \/ /\ found /\ ~pending /\ over
          /\ st' = [st EXCEPT ![p].pc = "inspect", ![p].clean = TRUE]
          /\ UNCHANGED <<launch, rt, sd>>
       \/ /\ found /\ ~pending /\ slot[s] # 0 /\ ~over
          /\ st' = [st EXCEPT ![p].pc = "check", ![p].gen = slot[s]]
          /\ UNCHANGED <<launch, rt, sd>>
    /\ UNCHANGED <<known, present, gen, lifecycle, mine, slot, completed, ledger, lt,
                   shutting_down, attempts, down, history>>

\* SessionRuntime::stop_until: a confirmed end is answered at once ...
StopCheck(p) ==
    LET r == rt[st[p].s][st[p].gen]
        over == r.retired /\ r.exit /\ ~r.descendants /\ ~r.unverified
    IN
    /\ st[p].pc = "check"
    /\ st' = [st EXCEPT ![p].pc = IF over THEN "report" ELSE "send", ![p].clean = over]
    /\ rt' = [rt EXCEPT ![st[p].s][st[p].gen].stop_requested = TRUE]
    /\ UNCHANGED <<records, lt, sd, shutting_down, attempts, down, history>>

\* begin_stop: the caller joins the stop of the session thread.
BeginStop(r, p) == [r EXCEPT !.stopping = TRUE, !.replies = @ \cup {p}]

\* ... a session thread that is gone cannot be asked, any other is sent the command.
StopSend(p) ==
    LET s == st[p].s
        g == st[p].gen
    IN
    /\ st[p].pc = "send"
    /\ IF rt[s][g].pc = "ended"
       THEN /\ st' = [st EXCEPT ![p].pc = "report"]
            /\ UNCHANGED rt
       ELSE /\ st' = [st EXCEPT ![p].pc = "waiting"]
            /\ rt' = [rt EXCEPT ![s][g] = BeginStop(@, p)]
    /\ UNCHANGED <<records, lt, sd, shutting_down, attempts, down, history>>

\* recv_timeout, or send_bounded before it: no answer in time for this thread.
StopTimeout(p) ==
    /\ st[p].pc \in {"send", "waiting"}
    /\ st' = [st EXCEPT ![p].pc = "report", ![p].clean = FALSE]
    /\ rt' = [rt EXCEPT ![st[p].s][st[p].gen].replies = @ \ {p}]
    /\ UNCHANGED <<records, lt, sd, shutting_down, attempts, down, history>>

LifecycleAfterStop(clean) == IF clean THEN "exited" ELSE "unverified"

\* The outcome goes into the manifest of the generation that was stopped.
StopCommit(p) ==
    LET s == st[p].s IN
    /\ st[p].pc = "report"
    /\ lifecycle' = [lifecycle EXCEPT ![s] =
                        IF gen[s] = st[p].gen THEN LifecycleAfterStop(st[p].clean) ELSE @]
    /\ st' = [st EXCEPT ![p].pc = "inspect"]
    /\ UNCHANGED <<known, present, gen, mine, launch, slot, completed, ledger, rt, lt,
                   sd, shutting_down, attempts, down, history>>

\* The final record is written and the caller told how the session stands.
StopInspect(p) ==
    LET s == st[p].s IN
    /\ st[p].pc = "inspect"
    /\ Answer(p, /\ st[p].clean /\ present[s]
                 /\ slot[s] # 0 => ~rt[s][slot[s]].descendants)
    /\ st' = [st EXCEPT ![p] = IdleStopper]
    /\ UNCHANGED <<records, rt, lt, shutting_down, attempts, down, history>>
-----------------------------------------------------------------------------
(***************************************************************************)
(* The session thread of a generation, and the child it owns               *)
(***************************************************************************)

\* The thread may take its next step: it is not inside an observer call.
Serving(s, g) == rt[s][g].pc = "serving" /\ rt[s][g].notice = "none"

MarkUnverified(r) == [r EXCEPT !.unverified = TRUE, !.notice = "unverified"]

\* publish_exit, and the cells record_exit sets before it
ExitPublished(r) == [r EXCEPT !.exit = TRUE, !.descendants = FALSE, !.unverified = FALSE,
                              !.exit_published = TRUE, !.notice = "exited"]

\* start: there is no child, or there is one that no thread waits for, or whose
\* terminal is not wired, or whose launch was cancelled meanwhile.
Start(s, g) ==
    /\ rt[s][g].pc = "starting"
    /\ \/ rt' = [rt EXCEPT ![s][g].pc = "ended", ![s][g].startup = "failed"]
       \/ \E unwaited, unwired \in {FALSE, WaiterMayFail} :
             LET r == [rt[s][g] EXCEPT !.pc = "announce", !.proc = "alive",
                                       !.waiter_failed = unwaited]
                 troubled == unwaited \/ unwired \/ r.stop_requested
             IN rt' = [rt EXCEPT ![s][g] = IF troubled THEN MarkUnverified(r) ELSE r]
    /\ UNCHANGED <<records, threads, shutting_down, attempts, down, history>>

Announce(s, g) ==
    /\ rt[s][g].pc = "announce" /\ rt[s][g].notice = "none"
    /\ rt' = [rt EXCEPT ![s][g].pc = "serving", ![s][g].startup = "ok"]
    /\ UNCHANGED <<records, threads, shutting_down, attempts, down, history>>

\* The child forks, ends, or its descendants end, by themselves or by a signal.
ChildForks(s, g) ==
    /\ rt[s][g].proc = "alive" /\ ~rt[s][g].kids
    /\ rt' = [rt EXCEPT ![s][g].kids = TRUE]
    /\ UNCHANGED <<records, threads, shutting_down, attempts, down, history>>

ChildEnds(s, g) ==
    /\ rt[s][g].proc = "alive"
    /\ rt' = [rt EXCEPT ![s][g].proc = "dead"]
    /\ UNCHANGED <<records, threads, shutting_down, attempts, down, history>>

DescendantsEnd(s, g) ==
    /\ rt[s][g].kids
    /\ rt' = [rt EXCEPT ![s][g].kids = FALSE]
    /\ UNCHANGED <<records, threads, shutting_down, attempts, down, history>>

\* on_child_exited and record_exit, up to the cell that makes the exit visible.
ChildExited(s, g) ==
    LET kids == rt[s][g].kids
        r == [rt[s][g] EXCEPT !.pc = "record_exit", !.descendants = kids, !.unverified = FALSE]
    IN
    /\ Serving(s, g)
    /\ rt[s][g].proc = "dead" /\ ~rt[s][g].waiter_failed /\ ~rt[s][g].exit
    /\ rt' = [rt EXCEPT ![s][g] = IF kids THEN MarkUnverified(r) ELSE r]
    /\ UNCHANGED <<records, threads, shutting_down, attempts, down, history>>

\* Mutant: the exit is published whether or not descendants remain.
PublishesAtOnce(s, g) ==
    /\ rt[s][g].pc = "record_exit" /\ rt[s][g].notice = "none"
    /\ rt' = [rt EXCEPT ![s][g] = ExitPublished([@ EXCEPT !.pc = "serving"])]
    /\ UNCHANGED <<records, threads, shutting_down, attempts, down, history>>

\* The rest of record_exit: without descendants the exit is published.
RecordExit(s, g) ==
    LET r == [rt[s][g] EXCEPT !.pc = "serving", !.exit = TRUE] IN
    /\ rt[s][g].pc = "record_exit" /\ rt[s][g].notice = "none"
    /\ rt' = [rt EXCEPT ![s][g] = IF r.descendants THEN r ELSE ExitPublished(r)]
    /\ UNCHANGED <<records, threads, shutting_down, attempts, down, history>>

\* reconcile_descendants, or advance_stop, finds the last descendant gone.
PublishExit(s, g) ==
    /\ Serving(s, g)
    /\ rt[s][g].exit /\ ~rt[s][g].exit_published /\ ~rt[s][g].kids
    /\ rt' = [rt EXCEPT ![s][g] = ExitPublished(@)]
    /\ UNCHANGED <<records, threads, shutting_down, attempts, down, history>>

\* Waiting for the child failed: its end will not be observed.
WaiterFails(s, g) ==
    /\ WaiterMayFail
    /\ Serving(s, g)
    /\ ~rt[s][g].exit /\ ~rt[s][g].waiter_failed
    /\ rt' = [rt EXCEPT ![s][g] = MarkUnverified([@ EXCEPT !.waiter_failed = TRUE])]
    /\ UNCHANGED <<records, threads, shutting_down, attempts, down, history>>

\* finalize: the output is drained or given up, the terminal retired.
Finalize(s, g) ==
    /\ Serving(s, g)
    /\ rt[s][g].exit /\ ~rt[s][g].completed
    /\ rt' = [rt EXCEPT ![s][g].completed = TRUE, ![s][g].retired = TRUE,
                        ![s][g].notice = "completed"]
    /\ UNCHANGED <<records, threads, shutting_down, attempts, down, history>>

\* advance_stop at the deadline, or once it finds that the child of a failed
\* waiter is gone: the end of the tree is not confirmed.
StopOverdue(s, g) ==
    /\ Serving(s, g)
    /\ rt[s][g].stopping /\ ~rt[s][g].overdue
    /\ ~rt[s][g].exit \/ rt[s][g].kids
    /\ rt' = [rt EXCEPT ![s][g] = MarkUnverified([@ EXCEPT !.overdue = TRUE,
                                                          !.descendants = rt[s][g].kids])]
    /\ UNCHANGED <<records, threads, shutting_down, attempts, down, history>>

\* complete_stop: every waiting caller gets the report.
CompleteStop(s, g) ==
    LET r == rt[s][g] IN
    /\ Serving(s, g)
    /\ r.stopping /\ (r.overdue \/ r.exit_published)
    /\ st' = [p \in Stoppers |->
                 IF p \in r.replies
                 THEN [st[p] EXCEPT !.pc = "report",
                                    !.clean = r.exit /\ ~r.unverified /\ ~r.descendants]
                 ELSE st[p]]
    /\ rt' = [rt EXCEPT ![s][g].stopping = FALSE, ![s][g].overdue = FALSE,
                        ![s][g].replies = {}]
    /\ UNCHANGED <<records, lt, sd, shutting_down, attempts, down, history>>

\* The thread ends once there is nothing left to own or to answer.
ThreadEnds(s, g) ==
    /\ Serving(s, g)
    /\ rt[s][g].completed /\ rt[s][g].exit /\ ~rt[s][g].descendants
    /\ ~rt[s][g].unverified /\ ~rt[s][g].stopping
    /\ rt' = [rt EXCEPT ![s][g].pc = "ended"]
    /\ UNCHANGED <<records, threads, shutting_down, attempts, down, history>>
-----------------------------------------------------------------------------
(***************************************************************************)
(* observer_for: what the session thread reports to the host               *)
(***************************************************************************)

\* commit of an Unverified or Exited notice, dropped when the session moved on.
NoticeLifecycle(s, g) ==
    /\ rt[s][g].notice \in {"unverified", "exited"}
    /\ lifecycle' = [lifecycle EXCEPT ![s] =
                        IF present[s] /\ gen[s] = g THEN rt[s][g].notice ELSE @]
    /\ rt' = [rt EXCEPT ![s][g].notice = IF @ = "exited" THEN "release" ELSE "none"]
    /\ UNCHANGED <<known, present, gen, mine, launch, slot, completed, ledger, threads,
                   shutting_down, attempts, down, history>>

\* complete_session looks whether the record is still of this generation ...
NoticeCompleted(s, g) ==
    /\ rt[s][g].notice = "completed"
    /\ rt' = [rt EXCEPT ![s][g].notice =
                 IF present[s] /\ gen[s] = g THEN "record_completed" ELSE "none"]
    /\ UNCHANGED <<records, threads, shutting_down, attempts, down, history>>

\* ... and later files the completed record.
RecordCompleted(s, g) ==
    /\ rt[s][g].notice = "record_completed"
    /\ completed' = [completed EXCEPT ![s] = IF present[s] THEN g ELSE @]
    /\ rt' = [rt EXCEPT ![s][g].notice = "release"]
    /\ UNCHANGED <<known, present, gen, lifecycle, mine, launch, slot, ledger, threads,
                   shutting_down, attempts, down, history>>

Releasable(s, g) ==
    /\ present[s] /\ slot[s] = g
    /\ rt[s][g].retired /\ rt[s][g].exit
    /\ ~RuntimeOwns(rt[s][g]) /\ ~rt[s][g].unverified
    /\ completed[s] = g

\* release_retired_runtime
ReleaseRuntime(s, g) ==
    /\ rt[s][g].notice = "release"
    /\ slot' = [slot EXCEPT ![s] = IF Releasable(s, g) THEN 0 ELSE @]
    /\ rt' = [rt EXCEPT ![s][g].notice = "none"]
    /\ UNCHANGED <<known, present, gen, lifecycle, mine, launch, completed, ledger,
                   threads, shutting_down, attempts, down, history>>
-----------------------------------------------------------------------------

(***************************************************************************)
(* remove and the retention of terminated records                          *)
(***************************************************************************)

Drop(s) ==
    /\ present' = [present EXCEPT ![s] = FALSE]
    /\ slot' = [slot EXCEPT ![s] = 0]
    /\ UNCHANGED <<known, gen, lifecycle, mine, launch, completed, ledger, rt, threads,
                   shutting_down, attempts, down, history>>

\* Mutant: remove only asks whether the session is live.
RemovesUnverified(s) ==
    /\ present[s]
    /\ launch[s] = NoLaunch
    /\ ~Live(s) /\ lifecycle[s] \notin {"starting", "running"}
    /\ Drop(s)

Remove(s) ==
    /\ present[s]
    /\ launch[s] = NoLaunch
    /\ ~Live(s) /\ lifecycle[s] \notin {"starting", "running"}
    /\ ~(OwnsProcess(s) /\ mine[s])
    /\ Drop(s)

\* trim_terminated_records: the record is past its retention.
Trim(s) ==
    /\ present[s]
    /\ ~OwnsProcess(s)
    /\ lifecycle[s] \in {"lost", "exited", "failed"}
    /\ Drop(s)
-----------------------------------------------------------------------------
(***************************************************************************)
(* request_shutdown and shutdown_until                                     *)
(***************************************************************************)

\* History: the shutdown of r counts on it that no process begins.
Relies(r) ==
    sd[r].pc \in {"stopping", "records", "drain"} \/ (sd[r].pc = "reply" /\ sd[r].ok)

OtherRelies(q) == \E r \in Requesters \ {q} : Relies(r)

\* The flag is one for all shutdowns: whoever lifts it lifts it for every other.
Lift(q) ==
    /\ shutting_down' = FALSE
    /\ lifted' = (lifted \/ down \/ OtherRelies(q))

Reply(q, ok) ==
    sd' = [sd EXCEPT ![q] = [IdleRequester EXCEPT !.pc = "reply", !.ok = ok]]

\* Mutant: a shutdown that fails leaves the host refusing new processes.
KeepsRefusing(q) ==
    /\ Reply(q, FALSE)
    /\ UNCHANGED <<shutting_down, lifted>>

\* A shutdown that fails lets new processes in again.
GiveUp(q) ==
    /\ Lift(q)
    /\ Reply(q, FALSE)

ShutdownBegin(q, force) ==
    LET owned == {s \in Sessions : present[s] /\ mine[s] /\ OwnsProcess(s)}
        refused == shutting_down \/ (~force /\ owned # {})
    IN
    /\ sd[q].pc = "idle"
    /\ ~down /\ (refused \/ attempts < MaxShutdowns)
    /\ IF refused
       THEN /\ Reply(q, FALSE)
            /\ UNCHANGED <<shutting_down, attempts, lifted>>
       ELSE /\ shutting_down' = TRUE
            /\ lifted' = OtherRelies(q)
            /\ attempts' = attempts + 1
            /\ sd' = [sd EXCEPT ![q] = [IdleRequester EXCEPT
                         !.pc = "stopping", !.id = attempts + 1, !.pending = owned,
                         !.asked = {<<s, gen[s]>> : s \in owned}]]
    /\ UNCHANGED <<records, rt, lt, st, down, undone>>

\* Every stop has answered and nothing is owned any more ...
ShutdownResolved(q) ==
    /\ sd[q].pc = "stopping" /\ sd[q].asked = {} /\ sd[q].pending = {}
    /\ ~sd[q].unresolved /\ \A s \in Sessions : ~SummaryOwns(s)
    /\ sd' = [sd EXCEPT ![q].pc = "records"]
    /\ UNCHANGED <<records, rt, lt, st, shutting_down, attempts, down, history>>

\* ... or something is, or the deadline passes first.
ShutdownUnresolved(q) ==
    /\ sd[q].pc = "stopping" /\ sd[q].asked = {}
    /\ sd[q].pending # {} \/ sd[q].unresolved \/ \E s \in Sessions : SummaryOwns(s)
    /\ GiveUp(q)
    /\ UNCHANGED <<records, rt, lt, st, attempts, down, undone>>

AwaitsCompletedRecord(s) ==
    present[s] /\ slot[s] # 0 /\ rt[s][slot[s]].exit /\ completed[s] # slot[s]

\* wait_for_completed_records, until the deadline
ShutdownRecords(q) ==
    /\ sd[q].pc = "records"
    /\ \/ /\ \A s \in Sessions : ~AwaitsCompletedRecord(s)
          /\ sd' = [sd EXCEPT ![q].pc = "drain"]
          /\ UNCHANGED <<shutting_down, lifted>>
       \/ /\ \E s \in Sessions : AwaitsCompletedRecord(s)
          /\ GiveUp(q)
    /\ UNCHANGED <<records, rt, lt, st, attempts, down, undone>>

ShutdownDrain(q) ==
    /\ sd[q].pc = "drain"
    /\ \/ /\ Reply(q, TRUE)
          /\ UNCHANGED <<shutting_down, lifted>>
       \/ StorageMayFail /\ GiveUp(q)
    /\ UNCHANGED <<records, rt, lt, st, attempts, down, undone>>

\* The requester is there to take the answer, and the server ends on success ...
ShutdownAnswered(q) ==
    /\ sd[q].pc = "reply"
    /\ down' = (down \/ sd[q].ok)
    /\ sd' = [sd EXCEPT ![q] = IdleRequester]
    /\ UNCHANGED <<records, rt, lt, st, shutting_down, attempts, history>>

\* ... or it had stopped waiting.
ShutdownAbandoned(q) ==
    /\ sd[q].pc = "reply"
    /\ Lift(q)
    /\ sd' = [sd EXCEPT ![q] = IdleRequester]
    /\ UNCHANGED <<records, rt, lt, st, attempts, down, undone>>
-----------------------------------------------------------------------------
Launching(l) ==
    \/ \E s \in Sessions : CreateBegin(l, s) \/ RestartBegin(l, s)
    \/ CreateAdmit(l) \/ CreatePersist(l)
    \/ RestartLedger(l) \/ RestartAdmit(l) \/ RestartPersist(l)
    \/ AdmissionWait(l) \/ LaunchRefused(l)
    \/ Spawn(l) \/ Register(l) \/ Await(l) \/ Commit(l) \/ FailLaunch(l)

Stopping(p) ==
    \/ \E s \in Sessions : ClientStop(p, s)
    \/ \E l \in Launchers : CancelledStop(p, l)
    \/ \E q \in Requesters : ShutdownStop(p, q)
    \/ StopBegin(p) \/ StopCheck(p) \/ StopSend(p) \/ StopTimeout(p)
    \/ StopCommit(p) \/ StopInspect(p)

ShuttingDown(q) ==
    \/ \E force \in BOOLEAN : ShutdownBegin(q, force)
    \/ ShutdownResolved(q) \/ ShutdownUnresolved(q)
    \/ ShutdownRecords(q) \/ ShutdownDrain(q)
    \/ ShutdownAnswered(q) \/ ShutdownAbandoned(q)

Child(s, g) == ChildForks(s, g) \/ ChildEnds(s, g) \/ DescendantsEnd(s, g)

SessionThread(s, g) ==
    \/ Start(s, g) \/ Announce(s, g)
    \/ ChildExited(s, g) \/ RecordExit(s, g) \/ PublishExit(s, g)
    \/ WaiterFails(s, g) \/ Finalize(s, g)
    \/ StopOverdue(s, g) \/ CompleteStop(s, g) \/ ThreadEnds(s, g)
    \/ NoticeLifecycle(s, g) \/ NoticeCompleted(s, g)
    \/ RecordCompleted(s, g) \/ ReleaseRuntime(s, g)

Next ==
    \/ \E l \in Launchers : Launching(l)
    \/ \E p \in Stoppers : Stopping(p)
    \/ \E q \in Requesters : ShuttingDown(q)
    \/ \E s \in Sessions, g \in Generations : Child(s, g) \/ SessionThread(s, g)
    \/ \E s \in Sessions : Remove(s) \/ Trim(s)

Spec == Init /\ [][Next]_vars

(***************************************************************************)
(* Fairness: every thread of the host that can go on does (the operating   *)
(* system schedules them, and each wait in them has a deadline or is for a *)
(* thread of the host), and a shutdown finds a thread for each stop it     *)
(* asks for.  Clients need not call anything and children need not end.    *)
(***************************************************************************)
LauncherGoesOn(l) ==
    \/ CreateAdmit(l) \/ CreatePersist(l)
    \/ RestartLedger(l) \/ RestartAdmit(l) \/ RestartPersist(l)
    \/ AdmissionWait(l) \/ LaunchRefused(l)
    \/ Spawn(l) \/ Register(l) \/ Await(l) \/ Commit(l) \/ FailLaunch(l)

StopperGoesOn(p) ==
    \/ StopBegin(p) \/ StopCheck(p) \/ StopSend(p) \/ StopTimeout(p)
    \/ StopCommit(p) \/ StopInspect(p)

ShutdownGoesOn(q) ==
    \/ ShutdownResolved(q) \/ ShutdownUnresolved(q)
    \/ ShutdownRecords(q) \/ ShutdownDrain(q)
    \/ ShutdownAnswered(q) \/ ShutdownAbandoned(q)

FairSpec ==
    /\ Spec
    /\ \A l \in Launchers : WF_vars(LauncherGoesOn(l))
    /\ \A p \in Stoppers : WF_vars(StopperGoesOn(p))
    /\ \A q \in Requesters :
          /\ WF_vars(ShutdownGoesOn(q))
          /\ SF_vars(\E p \in Stoppers : ShutdownStop(p, q))
    /\ \A s \in Sessions, g \in Generations : WF_vars(SessionThread(s, g))
-----------------------------------------------------------------------------
(***************************************************************************)
(* Properties                                                              *)
(***************************************************************************)

LaunchTypes == [op : Launchers \cup {"none"}, gen : 0..MaxGeneration, armed : BOOLEAN,
                cancelled : BOOLEAN]
RuntimeTypes ==
    [pc : {"none", "starting", "announce", "serving", "record_exit", "ended"},
     startup : {"none", "ok", "failed", "taken"}, proc : {"none", "alive", "dead"},
     kids : BOOLEAN, exit : BOOLEAN, unverified : BOOLEAN, descendants : BOOLEAN,
     retired : BOOLEAN, stop_requested : BOOLEAN, waiter_failed : BOOLEAN,
     exit_published : BOOLEAN, completed : BOOLEAN,
     notice : {"none", "unverified", "exited", "completed", "record_completed", "release"},
     stopping : BOOLEAN, overdue : BOOLEAN, replies : SUBSET Stoppers]
Priors == (0..MaxGeneration) \X Lifecycles \X BOOLEAN
LauncherTypes ==
    [pc : {"idle", "create", "persist_create", "ledger", "restart", "persist_restart",
           "spawn", "register", "wait", "commit", "fail", "stop"},
     s : Sessions \cup {"none"}, gen : 0..MaxGeneration,
     waits : BOOLEAN, attempts : 0..MaxShutdowns,
     prior : Priors]
StopperTypes ==
    [pc : {"idle", "begin", "check", "send", "waiting", "report", "inspect"},
     s : Sessions \cup {"none"}, gen : 0..MaxGeneration, for : 0..MaxShutdowns,
     clean : BOOLEAN]
RequesterTypes ==
    [pc : {"idle", "stopping", "records", "drain", "reply"}, id : 0..MaxShutdowns,
     asked : SUBSET (Sessions \X Generations), pending : SUBSET Sessions,
     unresolved : BOOLEAN, ok : BOOLEAN]

\* The type invariant of the registry, its session threads and its host threads.
TypeOK ==
    /\ known \subseteq Sessions
    /\ present \in [Sessions -> BOOLEAN]
    /\ gen \in [Sessions -> 0..MaxGeneration]
    /\ lifecycle \in [Sessions -> Lifecycles]
    /\ mine \in [Sessions -> BOOLEAN]
    /\ launch \in [Sessions -> LaunchTypes]
    /\ slot \in [Sessions -> 0..MaxGeneration]
    /\ completed \in [Sessions -> 0..MaxGeneration]
    /\ ledger \in [Sessions -> Launchers \cup {"free"}]
    /\ rt \in [Sessions -> [Generations -> RuntimeTypes]]
    /\ lt \in [Launchers -> LauncherTypes]
    /\ st \in [Stoppers -> StopperTypes]
    /\ sd \in [Requesters -> RequesterTypes]
    /\ shutting_down \in BOOLEAN
    /\ attempts \in 0..MaxShutdowns
    /\ down \in BOOLEAN
    /\ undone \subseteq Sessions
    /\ lifted \in BOOLEAN

Alive(s, g) == rt[s][g].proc = "alive" \/ rt[s][g].kids

\* No process of a session is ever outside the host's books: as long as its child
\* or a tracked descendant lives, its generation is the current one of a record
\* this host owns, and that record counts as owning a process.
NothingOrphaned ==
    \A s \in Sessions, g \in Generations :
        Alive(s, g) => present[s] /\ mine[s] /\ gen[s] = g /\ OwnsProcess(s)

\* A record of this host that says exited has no process left (an outcome that
\* cannot be confirmed is unverified, never exited).
ExitedIsDead ==
    \A s \in Sessions :
        present[s] /\ mine[s] /\ lifecycle[s] = "exited" /\ gen[s] # 0 =>
            ~Alive(s, gen[s])

\* A record of this host that says starting has a launch, and a thread that will
\* commit or fail it: no error path of create or restart strands it.
StartingHasOwner ==
    \A s \in Sessions :
        present[s] /\ mine[s] /\ lifecycle[s] = "starting" =>
            \E l \in Launchers :
                /\ launch[s].op = l /\ launch[s].gen = gen[s]
                /\ lt[l].s = s /\ lt[l].gen = gen[s]
                /\ lt[l].pc \in {"persist_create", "persist_restart", "spawn", "register",
                                 "wait", "commit", "fail"}

\* A record that says running is not stale: the exit of its runtime is unpublished,
\* or the notice of it is on its way to the record.  Exempt is a session whose last
\* restart could not be written: restart puts back the record it had read, which may
\* say running of a child whose exit was noticed, and dropped, in between.
RunningIsCurrent ==
    \A s \in Sessions \ undone :
        present[s] /\ mine[s] /\ lifecycle[s] = "running" /\ launch[s] = NoLaunch =>
            /\ slot[s] = gen[s]
            /\ rt[s][slot[s]].exit_published => rt[s][slot[s]].notice = "exited"

\* The queue of unresolved launches stays within its limit.
LaunchesBounded == Cardinality(PendingLaunches) <= MaxPending

\* A generation is launched once, however many threads restart the session.
GenerationLaunchedOnce ==
    [][\A s \in Sessions, g \in Generations :
          rt[s][g].pc # "none" => (rt'[s][g].pc = "starting" => rt[s][g].pc = "starting")]_vars

\* A shutdown that was acknowledged left no process and no launch behind.  Exempt is
\* a host whose refusal of new processes another requester lifted meanwhile: a
\* shutdown that fails, or finds its client gone, clears the one flag they share,
\* also when it was refused because of the shutdown that still relies on it.
DownOwnsNothing ==
    down /\ ~lifted =>
        /\ \A s \in Sessions, g \in Generations : ~Alive(s, g)
        /\ \A l \in Launchers : lt[l].pc \notin {"spawn", "register", "wait", "commit"}

\* A launch that was admitted is committed or failed, so that it stops holding
\* the session and a place in the queue.
LaunchResolves == \A s \in Sessions : launch[s] # NoLaunch ~> launch[s] = NoLaunch

\* A host that refuses new processes ends or accepts them again.
ShutdownEnds == shutting_down ~> ~shutting_down \/ down

(***************************************************************************)
(* What the documentation promises and the code does not keep              *)
(***************************************************************************)

\* "Once a child exits, the host ... keeps a completed record": the record filed for
\* a generation is not lost while the session is at that generation.
CompletedRecordKept ==
    [][\A s \in Sessions :
          present[s] /\ completed[s] # 0 /\ completed[s] = gen[s] /\ gen'[s] = gen[s]
          => completed'[s] = completed[s]]_vars
=============================================================================
