----------------------------- MODULE Bootstrap -----------------------------
(***************************************************************************)
(* How one host comes to own a state home and how controllers find it: the *)
(* owner lock, the socket of the endpoint, the instance record and the     *)
(* session records a dead host leaves behind; ensure_host_running with its *)
(* bootstrap lock, and the replacement of an incompatible host. A process  *)
(* may die between any two steps: the kernel then frees its locks and      *)
(* closes its listener, and its files stay. (Unix.)                        *)
(***************************************************************************)
EXTENDS Naturals, FiniteSets

CONSTANTS
    Controllers,    \* desktops and command lines
    MaxHosts,       \* bound: host processes ever started, the first included
    MaxAsks,        \* bound: calls of ensure_host_running
    MaxFaults       \* bound: deaths, failed writes and waits that run out

ASSUME BootstrapAssumption ==
    /\ MaxHosts \in Nat \ {0}
    /\ MaxAsks \in Nat /\ MaxFaults \in Nat

VARIABLES
    host,       \* what each host process is doing
    owner,      \* the host that holds <home>/host/owner.lock
    endpoint,   \* the host that bound the socket file at the endpoint's path
    instance,   \* the host instance.json names
    record,     \* the host under which the session's manifest file holds ownership:
                \* it says "starting", "running" or "unverified"
    listed,     \* the same in the memory of each host
    unwritten,  \* whether a host's memory is ahead of the file: the write is under
                \* way, queued or to be retried
    ctl,        \* each controller: its step, its connection, the host it spawned
    boot,       \* the controller that holds bootstrap.lock
    asks,       \* calls of ensure_host_running so far
    faults      \* faults so far

vars == <<host, owner, endpoint, instance, record, listed, unwritten, ctl, boot, asks, faults>>
-----------------------------------------------------------------------------
Hosts == 1..MaxHosts
NoHost == 0
NoController == "none"

\* A host of another protocol or engine, already serving when the story begins.
Old == 1

HostSteps == {"unborn", "locking", "opening", "binding", "unserved", "clear",
              "serving", "stopping", "draining", "retiring", "leaving", "exited"}

Alive(h) == host[h] \notin {"unborn", "exited"}

\* The steps between the bind and the drop of the listener.
Listening(h) == host[h] \in {"serving", "stopping", "draining"}

\* A connect to the endpoint's path succeeds.
Served == endpoint # NoHost /\ Listening(endpoint)

Idle == [pc |-> "idle", conn |-> NoHost, child |-> NoHost]

\* The old host serves, with or without a session, or this is a new home.
Init ==
    /\ \E serves, runs \in BOOLEAN :
         /\ runs => serves
         /\ host = [h \in Hosts |-> IF h = Old
                                    THEN IF serves THEN "serving" ELSE "exited"
                                    ELSE "unborn"]
         /\ owner = IF serves THEN Old ELSE NoHost
         /\ endpoint = IF serves THEN Old ELSE NoHost
         /\ instance = IF serves THEN Old ELSE NoHost
         /\ record = IF runs THEN Old ELSE NoHost
         /\ listed = [h \in Hosts |-> IF runs /\ h = Old THEN Old ELSE NoHost]
    /\ unwritten = [h \in Hosts |-> FALSE]
    /\ ctl = [c \in Controllers |-> Idle]
    /\ boot = NoController
    /\ asks = 0 /\ faults = 0

\* A wait runs out, a write fails or a process dies.
Fault == faults < MaxFaults /\ faults' = faults + 1
-----------------------------------------------------------------------------
(***************************************************************************)
(* Host: main.rs serve, SessionHost::open, server::serve                   *)
(***************************************************************************)

At(h, pc) == host[h] = pc
Go(h, pc) == host' = [host EXCEPT ![h] = pc]

HostOnly == <<ctl, boot, asks>>

\* A process ends: its memory is gone and the kernel frees its lock.
Ends(h) ==
    /\ Go(h, "exited")
    /\ owner' = IF owner = h THEN NoHost ELSE owner
    /\ listed' = [listed EXCEPT ![h] = NoHost]
    /\ unwritten' = [unwritten EXCEPT ![h] = FALSE]

\* The owner lock taken whoever holds it.
TakesLock(h) ==
    /\ At(h, "locking") /\ Go(h, "opening")
    /\ owner' = h
    /\ UNCHANGED <<endpoint, instance, record, listed, unwritten, faults, HostOnly>>

\* OwnerLock::acquire_at: try_lock succeeds.
AcquireOwner(h) ==
    /\ At(h, "locking") /\ owner = NoHost
    /\ Go(h, "opening")
    /\ owner' = h
    /\ UNCHANGED <<endpoint, instance, record, listed, unwritten, faults, HostOnly>>

\* OwnerLock::acquire_at: still held after OWNER_LOCK_WAIT; the process exits.
OwnerHeld(h) ==
    /\ At(h, "locking") /\ owner # NoHost
    /\ Fault /\ Ends(h)
    /\ UNCHANGED <<endpoint, instance, record, HostOnly>>

\* The previous records taken over as they stand.
OpenKeeps(h) ==
    /\ At(h, "opening") /\ Go(h, "binding")
    /\ listed' = [listed EXCEPT ![h] = record]
    /\ instance' = h
    /\ UNCHANGED <<owner, endpoint, record, unwritten, faults, HostOnly>>

\* adopt_previous_records lists every session whose record holds ownership as
\* lost and writes that down (a write that fails is only logged and not tried
\* again); write_instance_record.
Open(h) ==
    /\ At(h, "opening") /\ Go(h, "binding")
    /\ listed' = [listed EXCEPT ![h] = NoHost]
    /\ \/ record' = NoHost /\ UNCHANGED faults
       \/ record # NoHost /\ UNCHANGED record /\ Fault
    /\ instance' = h
    /\ UNCHANGED <<owner, endpoint, unwritten, HostOnly>>

\* open fails after it took the lock (instance.json cannot be written).
OpenFails(h) ==
    /\ At(h, "opening") /\ Fault /\ Ends(h)
    /\ record' \in {record, NoHost}
    /\ UNCHANGED <<endpoint, instance, HostOnly>>

\* A socket file at the path taken for a host that serves.
RefusesStale(h) ==
    /\ At(h, "binding")
    /\ Go(h, IF endpoint = NoHost THEN "clear" ELSE "retiring")
    /\ UNCHANGED <<owner, endpoint, instance, record, listed, unwritten, faults, HostOnly>>

\* bind_owner_only looks at the path; ensure_unserved connects to a socket it
\* finds there. A socket somebody serves is left untouched and serve fails.
CheckEndpoint(h) ==
    /\ At(h, "binding")
    /\ Go(h, IF endpoint = NoHost THEN "clear" ELSE IF Served THEN "retiring" ELSE "unserved")
    /\ UNCHANGED <<owner, endpoint, instance, record, listed, unwritten, faults, HostOnly>>

\* bind_owner_only: remove_file of the socket that refused the connection.
RemoveStale(h) ==
    /\ At(h, "unserved") /\ Go(h, "clear")
    /\ endpoint' = NoHost
    /\ UNCHANGED <<owner, instance, record, listed, unwritten, faults, HostOnly>>

\* create_sync: bind fails on a path that exists again.
Bind(h) ==
    /\ At(h, "clear")
    /\ IF endpoint = NoHost THEN Go(h, "serving") /\ endpoint' = h
                            ELSE Go(h, "retiring") /\ UNCHANGED endpoint
    /\ UNCHANGED <<owner, instance, record, listed, unwritten, faults, HostOnly>>

\* create or restart lists the session as starting; nothing is on disk yet and
\* no process is started before it is.
Launch(h) ==
    /\ At(h, "serving") /\ listed[h] = NoHost
    /\ listed' = [listed EXCEPT ![h] = h]
    /\ unwritten' = [unwritten EXCEPT ![h] = TRUE]
    /\ UNCHANGED <<host, owner, endpoint, instance, record, faults, HostOnly>>

\* The write of a starting record, or the retried one of a final, lands. (The
\* write that commit_launch only logs the failure of changes "starting" to
\* "running" or "unverified": the file holds ownership either way.)
RecordLands(h) ==
    /\ At(h, "serving") /\ unwritten[h]
    /\ record' = listed[h]
    /\ unwritten' = [unwritten EXCEPT ![h] = FALSE]
    /\ UNCHANGED <<host, owner, endpoint, instance, listed, faults, HostOnly>>

\* The starting record cannot be written, wholly or in CRITICAL_DEADLINE: create
\* withdraws the session and has its file deleted (a deletion that fails is
\* final), restart puts the prior state back and writes it as a final.
LaunchUnwritten(h) ==
    /\ At(h, "serving") /\ listed[h] = h /\ unwritten[h] /\ Fault
    /\ listed' = [listed EXCEPT ![h] = NoHost]
    /\ record' \in {record, h}
    /\ \E retried \in BOOLEAN : unwritten' = [unwritten EXCEPT ![h] = retried]
    /\ UNCHANGED <<host, owner, endpoint, instance, HostOnly>>

\* The session's child ends, or never came to be: its final record is handed to
\* the writer.
SessionEnds(h) ==
    /\ At(h, "serving") /\ listed[h] = h /\ ~unwritten[h]
    /\ listed' = [listed EXCEPT ![h] = NoHost]
    /\ unwritten' = [unwritten EXCEPT ![h] = TRUE]
    /\ UNCHANGED <<host, owner, endpoint, instance, record, faults, HostOnly>>

\* As StopIdle, with the owner lock given up as soon as the host stops.
StopReleases(h) ==
    /\ At(h, "serving") /\ listed[h] # h /\ ~unwritten[h]
    /\ Go(h, "stopping")
    /\ owner' = NoHost
    /\ UNCHANGED <<endpoint, instance, record, listed, unwritten, faults, HostOnly>>

\* `paneflow host stop`: refused while a session lives or a final is not on disk.
StopIdle(h) ==
    /\ At(h, "serving") /\ listed[h] # h /\ ~unwritten[h]
    /\ Go(h, "stopping")
    /\ UNCHANGED <<owner, endpoint, instance, record, listed, unwritten, faults, HostOnly>>

\* retire_listener: the path is unlinked first, whoever bound it.
Unlink(h) ==
    /\ At(h, "stopping") /\ Go(h, "draining")
    /\ endpoint' = NoHost
    /\ UNCHANGED <<owner, instance, record, listed, unwritten, faults, HostOnly>>

\* retire_listener: the listener is closed once the backlog is drained.
CloseListener(h) ==
    /\ At(h, "draining") /\ Go(h, "retiring")
    /\ UNCHANGED <<owner, endpoint, instance, record, listed, unwritten, faults, HostOnly>>

\* SessionHost::retire removes instance.json, in CRITICAL_DEADLINE or not at all.
Retire(h) ==
    /\ At(h, "retiring") /\ Go(h, "leaving")
    /\ \/ instance' = NoHost /\ UNCHANGED faults
       \/ UNCHANGED instance /\ Fault
    /\ UNCHANGED <<owner, endpoint, record, listed, unwritten, HostOnly>>

\* As Exit, with a lock file that has to be removed to free the lock.
ExitKeepsLock(h) ==
    /\ At(h, "leaving") /\ Go(h, "exited")
    /\ UNCHANGED <<owner, endpoint, instance, record, listed, unwritten, faults, HostOnly>>

\* main returns the exit code.
Exit(h) ==
    /\ At(h, "leaving") /\ Ends(h)
    /\ UNCHANGED <<endpoint, instance, record, faults, HostOnly>>

\* The process dies at any point.
Crash(h) ==
    /\ Alive(h) /\ Fault /\ Ends(h)
    /\ UNCHANGED <<endpoint, instance, record, HostOnly>>
-----------------------------------------------------------------------------
(***************************************************************************)
(* Controller: ensure_host_running                                         *)
(***************************************************************************)

On(c, pc) == ctl[c].pc = pc
To(c, pc) == ctl' = [ctl EXCEPT ![c].pc = pc, ![c].conn = NoHost]

\* ensure_host_running returns: the bootstrap lock is dropped, the child released.
Return(c, pc) ==
    /\ ctl' = [ctl EXCEPT ![c] = [Idle EXCEPT !.pc = pc]]
    /\ boot' = NoController

ControllerOnly == <<owner, endpoint, instance, record, listed, unwritten>>

\* A desktop starts, reconnects or retries; `paneflow host start`.
Ask(c) ==
    /\ ctl[c].pc \in {"idle", "adopted", "failed", "incompatible", "stopped"}
    /\ asks < MaxAsks /\ asks' = asks + 1
    /\ To(c, "locking")
    /\ UNCHANGED <<host, boot, faults, ControllerOnly>>

\* BootstrapLock::acquire.
AcquireBoot(c) ==
    /\ On(c, "locking") /\ boot = NoController
    /\ To(c, "probing") /\ boot' = c
    /\ UNCHANGED <<host, asks, faults, ControllerOnly>>

\* BootstrapLock::acquire: busy for all of BOOTSTRAP_LOCK_WAIT.
BootBusy(c) ==
    /\ On(c, "locking") /\ boot # NoController
    /\ Fault /\ To(c, "failed")
    /\ UNCHANGED <<host, boot, asks, ControllerOnly>>

\* connect_within reaches a listener; the host.hello that follows is on its way.
Connect(c) ==
    /\ ctl[c].pc \in {"probing", "waiting", "incompatible", "retiring"} /\ Served
    /\ ctl' = [ctl EXCEPT ![c].conn = endpoint,
                          ![c].pc = CASE @ = "probing" -> "hello"
                                      [] @ = "waiting" -> "rehello"
                                      [] @ = "incompatible" -> "stop_hello"
                                      [] @ = "retiring" -> "retire_hello"]
    /\ UNCHANGED <<host, boot, asks, faults, ControllerOnly>>

\* The connection ends only with an answer.
WaitsForAnswer(c) ==
    /\ ctl[c].pc \in {"hello", "rehello"} /\ Fault
    /\ Return(c, "failed")
    /\ UNCHANGED <<host, asks, ControllerOnly>>

\* classify_probe: a host that no longer serves closes the connection, or no
\* answer came in the last window: Probe::Faulted. The child is released.
HelloFails(c) ==
    /\ ctl[c].pc \in {"hello", "rehello"}
    /\ \/ host[ctl[c].conn] # "serving" /\ UNCHANGED faults
       \/ Fault
    /\ Return(c, "failed")
    /\ UNCHANGED <<host, asks, ControllerOnly>>

\* classify_probe: Probe::Running is adopted, Probe::Incompatible reported and
\* left running; the child is released either way.
HelloAnswered(c) ==
    /\ ctl[c].pc \in {"hello", "rehello"} /\ host[ctl[c].conn] = "serving"
    /\ Return(c, IF ctl[c].conn = Old THEN "incompatible" ELSE "adopted")
    /\ UNCHANGED <<host, asks, faults, ControllerOnly>>

Unborn == {h \in Hosts : host[h] = "unborn"}

\* Process identifiers are given out in order.
NextPid(h) == h \in Unborn /\ \A g \in Unborn : h <= g

\* Probe::Unreachable: spawn_detached_host.
Spawn(c) ==
    /\ On(c, "probing") /\ ~Served
    /\ \E h \in Hosts :
         /\ NextPid(h) /\ Go(h, "locking")
         /\ ctl' = [ctl EXCEPT ![c].pc = "waiting", ![c].child = h]
    /\ UNCHANGED <<boot, asks, faults, ControllerOnly>>

\* One turn of the startup loop finds the endpoint unreachable.
PollUnreachable(c) ==
    /\ On(c, "waiting") /\ ~Served
    /\ To(c, "polled")
    /\ UNCHANGED <<host, boot, asks, faults, ControllerOnly>>

\* The rest of that turn: the child has exited, STARTUP_WAIT is over and the
\* child is killed, or the loop sleeps.
PollChild(c) ==
    /\ On(c, "polled")
    /\ LET child == ctl[c].child
       IN  \/ /\ At(child, "exited")
              /\ Return(c, "failed")
              /\ UNCHANGED <<host, owner, listed, unwritten, faults>>
           \/ /\ Alive(child) /\ Fault
              /\ Return(c, "failed")
              /\ Ends(child)
           \/ /\ Alive(child)
              /\ To(c, "waiting")
              /\ UNCHANGED <<host, owner, listed, unwritten, boot, faults>>
    /\ UNCHANGED <<endpoint, instance, record, asks>>

\* stop_incompatible_host: the connection failed, the shutdown was refused, or
\* nobody was there to stop.
StopFails(c) ==
    /\ \/ On(c, "incompatible") /\ ~Served /\ UNCHANGED faults
       \/ On(c, "stop_hello") /\ host[ctl[c].conn] # "serving" /\ UNCHANGED faults
       \/ On(c, "stop_hello") /\ Fault
    /\ To(c, "failed")
    /\ UNCHANGED <<host, boot, asks, ControllerOnly>>

\* stop_incompatible_host: host.shutdown with force ends the sessions of the
\* host that answered and drains what it has to write; then it stops serving.
StopHost(c) ==
    /\ On(c, "stop_hello")
    /\ \E h \in Hosts :
         /\ h = ctl[c].conn
         /\ At(h, "serving") /\ Go(h, "stopping")
         /\ listed' = [listed EXCEPT ![h] = NoHost]
         /\ record' = IF listed[h] = h \/ unwritten[h] THEN NoHost ELSE record
         /\ unwritten' = [unwritten EXCEPT ![h] = FALSE]
    /\ To(c, "retiring")
    /\ UNCHANGED <<owner, endpoint, instance, boot, asks, faults>>

\* stop_incompatible_host: one turn of the loop that waits for Unreachable. Any
\* other answer and it looks again, until RETIRE_WAIT is over.
RetireWait(c) ==
    /\ \/ On(c, "retiring") /\ ~Served /\ To(c, "stopped") /\ UNCHANGED faults
       \/ On(c, "retire_hello") /\ To(c, "retiring") /\ UNCHANGED faults
       \/ On(c, "retire_hello") /\ Fault /\ To(c, "failed")
    /\ UNCHANGED <<host, boot, asks, ControllerOnly>>
-----------------------------------------------------------------------------
\* Calls that may still have to start a host.
Pending == {c \in Controllers : ctl[c].pc \in {"locking", "probing", "hello"}}

\* `paneflow-host serve` typed by hand: no bootstrap lock. (Bound: processes are
\* left for the calls.)
ServeByHand ==
    /\ Cardinality(Unborn) > MaxAsks - asks + Cardinality(Pending)
    /\ \E h \in Hosts : NextPid(h) /\ Go(h, "locking")
    /\ UNCHANGED <<owner, endpoint, instance, record, listed, unwritten, faults, HostOnly>>

HostStep(h) ==
    \/ AcquireOwner(h) \/ Open(h) \/ CheckEndpoint(h) \/ RemoveStale(h) \/ Bind(h)
    \/ Unlink(h) \/ CloseListener(h) \/ Retire(h) \/ Exit(h)

ControllerStep(c) ==
    \/ AcquireBoot(c) \/ Connect(c) \/ HelloFails(c) \/ HelloAnswered(c) \/ Spawn(c)
    \/ PollUnreachable(c) \/ PollChild(c) \/ StopFails(c) \/ StopHost(c) \/ RetireWait(c)

Next ==
    \/ \E h \in Hosts : \/ HostStep(h) \/ OwnerHeld(h) \/ OpenFails(h) \/ Crash(h)
                        \/ Launch(h) \/ RecordLands(h) \/ LaunchUnwritten(h)
                        \/ SessionEnds(h) \/ StopIdle(h)
    \/ \E c \in Controllers : ControllerStep(c) \/ Ask(c) \/ BootBusy(c)
    \/ ServeByHand

Spec == Init /\ [][Next]_vars

\* A process that runs makes progress. Nobody has to die, run out of time,
\* ask, launch or stop; nobody has to press "Stop host and restart".
Fairness ==
    /\ \A h \in Hosts : WF_vars(HostStep(h))
    /\ \A c \in Controllers :
         /\ SF_vars(AcquireBoot(c))
         /\ WF_vars(ControllerStep(c) /\ ~On(c, "incompatible"))

FairSpec == Spec /\ Fairness
-----------------------------------------------------------------------------
ControllerSteps == {"idle", "locking", "probing", "hello", "waiting", "rehello", "polled",
                    "adopted", "failed", "incompatible", "stop_hello", "retiring",
                    "retire_hello", "stopped"}

HostsTypeOK ==
    /\ host \in [Hosts -> HostSteps]
    /\ owner \in Hosts \cup {NoHost}
    /\ endpoint \in Hosts \cup {NoHost}
    /\ instance \in Hosts \cup {NoHost}
    /\ record \in Hosts \cup {NoHost}
    /\ listed \in [Hosts -> Hosts \cup {NoHost}]
    /\ unwritten \in [Hosts -> BOOLEAN]

ControllersTypeOK ==
    /\ ctl \in [Controllers -> [pc : ControllerSteps, conn : Hosts \cup {NoHost},
                                child : Hosts \cup {NoHost}]]
    /\ boot \in Controllers \cup {NoController}
    /\ asks \in 0..MaxAsks /\ faults \in 0..MaxFaults

\* Types of the variables; a lock is held by a process that runs, and the
\* bootstrap lock by a call that has not returned.
TypeOK ==
    /\ HostsTypeOK /\ ControllersTypeOK
    /\ owner # NoHost => Alive(owner)
    /\ boot # NoController =>
          ctl[boot].pc \in {"probing", "hello", "waiting", "rehello", "polled"}

\* One host owns one home: while a host serves, the endpoint, the instance
\* record and the owner lock are its own, whatever other hosts do while they
\* start, retire or die.
ServingIsOwner ==
    \A h \in Hosts : host[h] = "serving" => endpoint = h /\ instance = h /\ owner = h

\* The socket bind_owner_only removes is never one a live host listens on, and
\* a host that owns the home never finds its endpoint taken.
OwnerFindsNoServer ==
    \A h \in Hosts :
        /\ host[h] \in {"binding", "unserved"} => ~Served
        /\ host[h] = "clear" => endpoint = NoHost

\* A host lists a session as its own only while it serves, and unless the write
\* is still to come the manifest file says that this host holds it, so before
\* its process is started: a host that takes over after a death finds the record
\* and lists it as lost, no session of a dead host comes back as running, and no
\* host that starts, fails to open or dies touches the record of a session that
\* runs.
RunningRecordStands ==
    \A h \in Hosts :
        listed[h] # NoHost => /\ listed[h] = h
                              /\ host[h] = "serving"
                              /\ unwritten[h] \/ record = h

Settled(c) == ctl[c].pc \in {"adopted", "failed", "incompatible"}

\* Every call of ensure_host_running returns.
EveryAskReturns == \A c \in Controllers : ctl[c].pc = "locking" ~> Settled(c)

\* No more faults, and no host is on its way out.
Quiet == faults = MaxFaults /\ \A h \in Hosts : host[h] \notin {"stopping", "draining"}

\* Whatever a crash left behind (a socket file, an instance record, a half
\* started host), a later call finds or starts a host.
CrashRecovered ==
    \A c \in Controllers :
        ctl[c].pc = "locking" /\ Quiet ~> ctl[c].pc \in {"adopted", "incompatible"} \/ ~Quiet
=============================================================================
