---------------------------- MODULE AgentRecord ----------------------------
(***************************************************************************)
(* The record of one session as agent events, restarts, the end of the     *)
(* child and the removal of the session change it, and the ledger          *)
(* (record.seed) that orders them. AgentLedger adds the requests and what  *)
(* they wait for, AgentWorker the followers.                               *)
(***************************************************************************)
EXTENDS Integers, Sequences

CONSTANTS
    MaxGeneration   \* bound on restarts

ASSUME RecordAssumption == MaxGeneration \in Nat \ {0}

VARIABLES
    manifest,       \* the record in memory
    present,        \* the record is in the session map
    holder,         \* the thread that holds the ledger
    removed,        \* SeedLedger.removed
    restart,        \* the restart under way and the manifest it would restore
    removal,        \* the progress of session.remove
    failed_restart, \* history: a restart was rolled back
    undone          \* history: a rollback took accepted hook revisions back

recordVars == <<manifest, present, holder, removed, restart, removal, failed_restart, undone>>
-----------------------------------------------------------------------------
Restarter == "restarter"
NoThread == "none"

\* A moment an event does not state (Option::None).
Absent == 0

\* HookRecord, as far as ingestion and the workers look at it.
NoHook == [revision |-> 0, emitted_at_ms |-> Absent]

FirstManifest == [generation |-> 1, live |-> TRUE, hook_revision |-> 0, last_hook |-> NoHook]

\* The session was just created.
RecordInit ==
    /\ manifest = FirstManifest /\ present = TRUE
    /\ holder = NoThread /\ removed = FALSE
    /\ restart = [pc |-> "idle", prior |-> FirstManifest]
    /\ removal = "no"
    /\ failed_restart = FALSE /\ undone = FALSE
-----------------------------------------------------------------------------
(***************************************************************************)
(* ingest_agent_event, as far as the record is concerned                   *)
(***************************************************************************)

\* As AcceptHook, with the ledger dropped before the frame is out.
AcceptUnlocked(t, emitted_at_ms) ==
    /\ holder = NoThread /\ ~removed
    /\ manifest' = [manifest EXCEPT
                      !.hook_revision = @ + 1,
                      !.last_hook = [revision |-> manifest.hook_revision + 1,
                                     emitted_at_ms |-> emitted_at_ms]]
    /\ UNCHANGED <<present, holder, removed, restart, removal, failed_restart, undone>>

\* As AcceptHook, without a look at the removal mark.
AcceptsRemoved(t, emitted_at_ms) ==
    /\ holder = NoThread
    /\ manifest' = [manifest EXCEPT
                      !.hook_revision = @ + 1,
                      !.last_hook = [revision |-> manifest.hook_revision + 1,
                                     emitted_at_ms |-> emitted_at_ms]]
    /\ holder' = t
    /\ UNCHANGED <<present, removed, restart, removal, failed_restart, undone>>

\* The event becomes the record's last hook; the thread keeps the ledger until
\* its frame is out.
AcceptHook(t, emitted_at_ms) ==
    /\ holder = NoThread /\ ~removed
    /\ manifest' = [manifest EXCEPT
                      !.hook_revision = @ + 1,
                      !.last_hook = [revision |-> manifest.hook_revision + 1,
                                     emitted_at_ms |-> emitted_at_ms]]
    /\ holder' = t
    /\ UNCHANGED <<present, removed, restart, removal, failed_restart, undone>>

ReleaseLedger ==
    /\ holder' = NoThread
    /\ UNCHANGED <<manifest, present, removed, restart, removal, failed_restart, undone>>
-----------------------------------------------------------------------------
(***************************************************************************)
(* restart                                                                 *)
(***************************************************************************)

\* refuse_replacement: nothing of this session runs or is being launched.
Replaceable == present /\ ~manifest.live

\* The prior manifest is copied before the ledger is asked for.
RestartCapture ==
    /\ restart.pc = "idle" /\ Replaceable /\ manifest.generation < MaxGeneration
    /\ restart' = [pc |-> "captured", prior |-> manifest]
    /\ UNCHANGED <<manifest, present, holder, removed, removal, failed_restart, undone>>

RestartHolds == restart.pc = "captured" /\ holder = NoThread
StillPrior == ~removed /\ Replaceable /\ manifest.generation = restart.prior.generation

RestartRefused ==
    /\ RestartHolds /\ ~StillPrior
    /\ restart' = [restart EXCEPT !.pc = "idle"]
    /\ UNCHANGED <<manifest, present, holder, removed, removal, failed_restart, undone>>

\* The next generation starts without a hook and keeps the hook revision; the
\* ledger stays locked until the restart is durable or undone.
RestartBegin ==
    /\ RestartHolds /\ StillPrior
    /\ holder' = Restarter
    /\ manifest' = [manifest EXCEPT !.generation = @ + 1, !.live = TRUE, !.last_hook = NoHook]
    /\ restart' = [restart EXCEPT !.pc = "writing"]
    /\ UNCHANGED <<present, removed, removal, failed_restart, undone>>

\* The write succeeded: the launch goes on without the ledger.
RestartCommit ==
    /\ restart.pc = "ok"
    /\ holder' = NoThread
    /\ restart' = [restart EXCEPT !.pc = "idle"]
    /\ UNCHANGED <<manifest, present, removed, removal, failed_restart, undone>>

\* The write failed: the prior manifest replaces the whole record.
RestartRollback ==
    /\ restart.pc = "err"
    /\ manifest' = restart.prior
    /\ restart' = [restart EXCEPT !.pc = "undone"]
    /\ failed_restart' = TRUE
    /\ undone' = (undone \/ restart.prior.hook_revision < manifest.hook_revision)
    /\ UNCHANGED <<present, holder, removed, removal>>

RestartReturn ==
    /\ restart.pc = "undone"
    /\ holder' = NoThread
    /\ restart' = [restart EXCEPT !.pc = "idle"]
    /\ UNCHANGED <<manifest, present, removed, removal, failed_restart, undone>>
-----------------------------------------------------------------------------
(***************************************************************************)
(* The end of the child and the removal of the session                     *)
(***************************************************************************)

\* The session thread commits the exit.
Exit ==
    /\ manifest.live /\ restart.pc = "idle"
    /\ manifest' = [manifest EXCEPT !.live = FALSE]
    /\ UNCHANGED <<present, holder, removed, restart, removal, failed_restart, undone>>

\* remove: out of the map, then the mark under the ledger.
RemoveBegin ==
    /\ removal = "no" /\ Replaceable /\ restart.pc \in {"idle", "captured", "undone"}
    /\ present' = FALSE
    /\ removal' = "unmapped"
    /\ UNCHANGED <<manifest, holder, removed, restart, failed_restart, undone>>

RemoveMark ==
    /\ removal = "unmapped" /\ holder = NoThread
    /\ removed' = TRUE
    /\ removal' = "marked"
    /\ UNCHANGED <<manifest, present, holder, restart, failed_restart, undone>>
=============================================================================
