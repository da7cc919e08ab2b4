-------------------------- MODULE BootstrapProofs --------------------------
(***************************************************************************)
(* One owner per home, for any number of controllers, hosts, calls and     *)
(* faults.                                                                 *)
(***************************************************************************)
EXTENDS Bootstrap, TLAPS

\* The steps a host takes with the owner lock.
Owning == {"opening", "binding", "unserved", "clear", "serving", "stopping", "draining",
           "retiring", "leaving"}

\* The steps between write_instance_record and retire.
Named == {"binding", "unserved", "clear", "serving", "stopping", "draining", "retiring"}

OwningHoldsLock == \A h \in Hosts : host[h] \in Owning => owner = h
NamedInInstance == \A h \in Hosts : host[h] \in Named => instance = h
ServesEndpoint == \A h \in Hosts : host[h] \in {"serving", "stopping"} => endpoint = h
SocketOfServerOrDead == endpoint # NoHost => host[endpoint] \in {"serving", "stopping", "exited"}
ClearIsClear == \A h \in Hosts : host[h] = "clear" => endpoint = NoHost
HolderAlive == owner # NoHost => Alive(owner)

\* The inductive invariant: what the owner lock protects, step by step.
OwnerInv ==
    /\ HostsTypeOK
    /\ OwningHoldsLock /\ NamedInInstance
    /\ ServesEndpoint /\ SocketOfServerOrDead /\ ClearIsClear
    /\ HolderAlive
    /\ RunningRecordStands

hostVars == <<host, owner, endpoint, instance, record, listed, unwritten>>

\* A process may end at any step.
LEMMA EndsKeepsOwner ==
    ASSUME OwnerInv, NEW h \in Hosts, Ends(h),
           UNCHANGED <<endpoint, instance>>,
           record' \in {record, NoHost}, record' = record \/ host[h] = "opening"
    PROVE  OwnerInv'
<1> USE BootstrapAssumption DEF Hosts, NoHost
<1>1. HostsTypeOK'
  BY DEF OwnerInv, HostsTypeOK, Ends, Go, HostSteps
<1>2. \A g \in Hosts : host'[g] = IF g = h THEN "exited" ELSE host[g]
  BY DEF OwnerInv, HostsTypeOK, Ends, Go
<1>3. OwningHoldsLock' /\ NamedInInstance' /\ ServesEndpoint' /\ ClearIsClear'
  BY <1>2 DEF OwnerInv, OwningHoldsLock, NamedInInstance, ServesEndpoint, ClearIsClear,
              Ends, Owning, Named
<1>4. SocketOfServerOrDead'
  BY <1>2 DEF OwnerInv, HostsTypeOK, SocketOfServerOrDead
<1>5. HolderAlive'
  BY <1>2 DEF OwnerInv, HostsTypeOK, HolderAlive, Alive, Ends
<1>6. RunningRecordStands'
  BY <1>2 DEF OwnerInv, HostsTypeOK, OwningHoldsLock, RunningRecordStands, Ends, Owning
<1> QED
  BY <1>1, <1>3, <1>4, <1>5, <1>6 DEF OwnerInv

\* A process starts: it waits for the owner lock.
LEMMA StartKeepsOwner ==
    ASSUME OwnerInv, NEW h \in Hosts, NextPid(h), Go(h, "locking"),
           UNCHANGED <<owner, endpoint, instance, record, listed, unwritten>>
    PROVE  OwnerInv'
<1> USE BootstrapAssumption DEF Hosts, NoHost
<1>1. host[h] = "unborn"
  BY DEF NextPid, Unborn
<1>2. \A g \in Hosts : host'[g] = IF g = h THEN "locking" ELSE host[g]
  BY DEF OwnerInv, HostsTypeOK, Go
<1>3. HostsTypeOK' /\ RunningRecordStands'
  BY <1>1, <1>2 DEF OwnerInv, HostsTypeOK, HostSteps, Go, RunningRecordStands
<1>4. OwningHoldsLock' /\ NamedInInstance' /\ ServesEndpoint' /\ ClearIsClear'
  BY <1>2 DEF OwnerInv, OwningHoldsLock, NamedInInstance, ServesEndpoint, ClearIsClear,
              Owning, Named
<1>5. SocketOfServerOrDead' /\ HolderAlive'
  BY <1>1, <1>2 DEF OwnerInv, HostsTypeOK, SocketOfServerOrDead, HolderAlive, Alive
<1> QED
  BY <1>3, <1>4, <1>5 DEF OwnerInv

\* The steps of a host before its endpoint is bound.
LEMMA StartupKeepsOwner ==
    ASSUME OwnerInv, NEW h \in Hosts,
           \/ AcquireOwner(h) \/ Open(h) \/ CheckEndpoint(h) \/ RemoveStale(h) \/ Bind(h)
    PROVE  OwnerInv'
<1> USE BootstrapAssumption DEF Hosts, NoHost, At, Go, HostOnly
<1>0. USE DEF OwnerInv, HostsTypeOK, HostSteps, OwningHoldsLock, NamedInInstance,
              ServesEndpoint, SocketOfServerOrDead, ClearIsClear, HolderAlive, RunningRecordStands,
              Owning, Named, Alive
<1>1. CASE AcquireOwner(h)
  BY <1>1 DEF AcquireOwner
<1>2. CASE Open(h)
  BY <1>2 DEF Open
<1>3. CASE CheckEndpoint(h)
  BY <1>3 DEF CheckEndpoint
<1>4. CASE RemoveStale(h)
  BY <1>4 DEF RemoveStale
<1>5. CASE Bind(h)
  BY <1>5 DEF Bind
<1> QED
  BY <1>1, <1>2, <1>3, <1>4, <1>5

\* The steps of a host that serves and retires.
LEMMA ServiceKeepsOwner ==
    ASSUME OwnerInv, NEW h \in Hosts,
           \/ Launch(h) \/ RecordLands(h) \/ LaunchUnwritten(h) \/ SessionEnds(h) \/ StopIdle(h)
           \/ Unlink(h) \/ CloseListener(h) \/ Retire(h)
    PROVE  OwnerInv'
<1> USE BootstrapAssumption DEF Hosts, NoHost, At, Go, HostOnly
<1>0. USE DEF OwnerInv, HostsTypeOK, HostSteps, OwningHoldsLock, NamedInInstance,
              ServesEndpoint, SocketOfServerOrDead, ClearIsClear, HolderAlive, RunningRecordStands,
              Owning, Named, Alive
<1>1. CASE Launch(h)
  BY <1>1 DEF Launch
<1>2. CASE StopIdle(h)
  BY <1>2 DEF StopIdle
<1>3. CASE Unlink(h)
  BY <1>3 DEF Unlink
<1>4. CASE CloseListener(h)
  BY <1>4 DEF CloseListener
<1>5. CASE Retire(h)
  BY <1>5 DEF Retire
<1>6. CASE SessionEnds(h)
  BY <1>6 DEF SessionEnds
<1>7. CASE RecordLands(h)
  BY <1>7 DEF RecordLands
<1>8. CASE LaunchUnwritten(h)
  BY <1>8 DEF LaunchUnwritten
<1> QED
  BY <1>1, <1>2, <1>3, <1>4, <1>5, <1>6, <1>7, <1>8

\* The steps of a controller: most leave the hosts alone, three start, kill or
\* stop one.
LEMMA ControllerKeepsOwner ==
    ASSUME OwnerInv, ControllersTypeOK, NEW c \in Controllers,
           ControllerStep(c) \/ Ask(c) \/ BootBusy(c)
    PROVE  OwnerInv'
<1>1. CASE UNCHANGED hostVars
  BY <1>1 DEF hostVars, OwnerInv, HostsTypeOK, OwningHoldsLock, NamedInInstance, ServesEndpoint,
              SocketOfServerOrDead, ClearIsClear, HolderAlive, Alive, RunningRecordStands
<1>2. CASE Spawn(c)
  <2>1. PICK h \in Hosts : NextPid(h) /\ Go(h, "locking")
    BY <1>2 DEF Spawn
  <2> QED
    BY <1>2, <2>1, StartKeepsOwner DEF Spawn, ControllerOnly
<1>3. CASE PollChild(c)
  <2>1. CASE UNCHANGED <<host, owner, listed, unwritten>>
    BY <1>1, <1>3, <2>1 DEF PollChild, hostVars
  <2>2. CASE Alive(ctl[c].child) /\ Ends(ctl[c].child)
    <3>1. ctl[c].child \in Hosts \cup {NoHost}
      BY DEF ControllersTypeOK
    <3>2. CASE ctl[c].child \in Hosts
      BY <1>3, <2>2, <3>2, EndsKeepsOwner DEF PollChild
    <3>3. CASE ctl[c].child = NoHost
      <4>1. UNCHANGED <<host, listed, unwritten>>
        BY <2>2, <3>3, BootstrapAssumption DEF Ends, Go, Hosts, NoHost, OwnerInv, HostsTypeOK
      <4>2. UNCHANGED owner
        BY <2>2, <3>3 DEF Ends
      <4> QED
        BY <2>1, <4>1, <4>2
    <3> QED
      BY <3>1, <3>2, <3>3
  <2> QED
    BY <1>3, <2>1, <2>2 DEF PollChild
<1>4. CASE StopHost(c)
  BY <1>4, BootstrapAssumption
     DEF StopHost, At, Go, Hosts, NoHost, OwnerInv, HostsTypeOK, HostSteps, OwningHoldsLock,
         NamedInInstance, ServesEndpoint, SocketOfServerOrDead, ClearIsClear, HolderAlive,
         RunningRecordStands, Owning, Named, Alive
<1>5. \/ UNCHANGED hostVars \/ Spawn(c) \/ PollChild(c) \/ StopHost(c)
  BY DEF ControllerStep, Ask, BootBusy, AcquireBoot, Connect, HelloFails, HelloAnswered,
         PollUnreachable, StopFails, RetireWait, ControllerOnly, hostVars
<1> QED
  BY <1>1, <1>2, <1>3, <1>4, <1>5

\* Every step keeps the owner's invariant.
LEMMA NextKeepsOwner ==
    ASSUME OwnerInv, ControllersTypeOK, Next
    PROVE  OwnerInv'
<1>1. ASSUME NEW h \in Hosts,
             \/ HostStep(h) \/ Launch(h) \/ RecordLands(h) \/ LaunchUnwritten(h)
             \/ SessionEnds(h) \/ StopIdle(h)
      PROVE  OwnerInv'
  <2>1. CASE Exit(h)
    BY <2>1, EndsKeepsOwner DEF Exit
  <2> QED
    BY <1>1, <2>1, StartupKeepsOwner, ServiceKeepsOwner DEF HostStep
<1>2. ASSUME NEW h \in Hosts, OwnerHeld(h) \/ OpenFails(h) \/ Crash(h) PROVE OwnerInv'
  BY <1>2, EndsKeepsOwner DEF OwnerHeld, OpenFails, Crash, At
<1>3. ASSUME NEW c \in Controllers, ControllerStep(c) \/ Ask(c) \/ BootBusy(c) PROVE OwnerInv'
  BY <1>3, ControllerKeepsOwner
<1>4. CASE ServeByHand
  <2>1. PICK h \in Hosts : NextPid(h) /\ Go(h, "locking")
    BY <1>4 DEF ServeByHand
  <2> QED
    BY <1>4, <2>1, StartKeepsOwner DEF ServeByHand
<1> QED
  BY <1>1, <1>2, <1>3, <1>4 DEF Next

\* The bootstrap lock is held by a call under way.
BootInv ==
    boot # NoController =>
        ctl[boot].pc \in {"probing", "hello", "waiting", "rehello", "polled"}

\* A step of a host leaves the controllers alone.
LEMMA HostKeepsControllers ==
    ASSUME ControllersTypeOK, BootInv, NEW h \in Hosts,
           \/ HostStep(h) \/ OwnerHeld(h) \/ OpenFails(h) \/ Crash(h)
           \/ Launch(h) \/ RecordLands(h) \/ LaunchUnwritten(h) \/ SessionEnds(h) \/ StopIdle(h)
    PROVE  ControllersTypeOK' /\ BootInv'
<1>1. UNCHANGED <<ctl, boot, asks>>
  BY DEF HostStep, AcquireOwner, Open, CheckEndpoint, RemoveStale, Bind, Unlink, CloseListener,
         Retire, Exit, OwnerHeld, OpenFails, Crash, Launch, RecordLands, LaunchUnwritten,
         SessionEnds, StopIdle, HostOnly
<1>2. faults' = faults \/ Fault
  BY DEF HostStep, AcquireOwner, Open, CheckEndpoint, RemoveStale, Bind, Unlink, CloseListener,
         Retire, Exit, OwnerHeld, OpenFails, Crash, Launch, RecordLands, LaunchUnwritten,
         SessionEnds, StopIdle
<1>3. faults' \in 0..MaxFaults
  BY <1>2, BootstrapAssumption DEF ControllersTypeOK, Fault
<1> QED
  BY <1>1, <1>3 DEF ControllersTypeOK, BootInv

\* A controller keeps its own books.
LEMMA ControllerKeepsControllers ==
    ASSUME OwnerInv, ControllersTypeOK, BootInv, NEW c \in Controllers,
           ControllerStep(c) \/ Ask(c) \/ BootBusy(c)
    PROVE  ControllersTypeOK' /\ BootInv'
<1> USE DEF ControllersTypeOK, BootInv, ControllerSteps, On, To, Return, Idle
<1>0. (faults' = faults \/ Fault) => faults' \in 0..MaxFaults
  BY BootstrapAssumption DEF Fault
<1>1. CASE Ask(c)
  <2>1. asks' \in 0..MaxAsks
    BY <1>1, BootstrapAssumption DEF Ask
  <2> QED
    BY <1>1, <2>1, ZenonT(40) DEF Ask
<1>2. CASE AcquireBoot(c)
  BY <1>2, ZenonT(40) DEF AcquireBoot
<1>3. CASE BootBusy(c)
  BY <1>0, <1>3, ZenonT(40) DEF BootBusy
<1>4. CASE Connect(c)
  BY <1>4 DEF Connect, OwnerInv, HostsTypeOK
<1>5. CASE HelloFails(c)
  BY <1>0, <1>5 DEF HelloFails
<1>6. CASE HelloAnswered(c)
  BY <1>6 DEF HelloAnswered
<1>7. CASE Spawn(c)
  <2>1. PICK h \in Hosts : ctl' = [ctl EXCEPT ![c].pc = "waiting", ![c].child = h]
    BY <1>7 DEF Spawn
  <2>2. ctl[c].pc = "probing" /\ UNCHANGED <<boot, asks, faults>>
    BY <1>7 DEF Spawn
  <2>3. ctl' \in [Controllers -> [pc : ControllerSteps, conn : Hosts \cup {NoHost},
                                 child : Hosts \cup {NoHost}]]
    BY <2>1, ZenonT(40)
  <2>4. \A d \in Controllers : d # c => ctl'[d] = ctl[d]
    BY <2>1
  <2>5. ctl'[c].pc = "waiting"
    BY <2>1
  <2>6. BootInv'
    BY <2>2, <2>4, <2>5
  <2> QED
    BY <2>2, <2>3, <2>6
<1>8. CASE PollUnreachable(c)
  BY <1>8, ZenonT(40) DEF PollUnreachable
<1>9. CASE PollChild(c)
  BY <1>0, <1>9 DEF PollChild
<1>10. CASE StopFails(c)
  BY <1>0, <1>10, ZenonT(40) DEF StopFails
<1>11. CASE StopHost(c)
  BY <1>11, ZenonT(40) DEF StopHost
<1>12. CASE RetireWait(c)
  BY <1>0, <1>12 DEF RetireWait
<1> QED
  BY <1>1, <1>2, <1>3, <1>4, <1>5, <1>6, <1>7, <1>8, <1>9, <1>10, <1>11, <1>12
     DEF ControllerStep

IInv == OwnerInv /\ ControllersTypeOK /\ BootInv

\* A home with the old host serving, or a new one, satisfies the invariant.
LEMMA InitIInv == Init => IInv
<1> SUFFICES ASSUME Init PROVE IInv
  OBVIOUS
<1> USE BootstrapAssumption DEF Init, Hosts, NoHost, Old
<1>1. PICK serves, runs \in BOOLEAN :
         /\ runs => serves
         /\ host = [h \in Hosts |-> IF h = Old
                                    THEN IF serves THEN "serving" ELSE "exited"
                                    ELSE "unborn"]
         /\ owner = IF serves THEN Old ELSE NoHost
         /\ endpoint = IF serves THEN Old ELSE NoHost
         /\ instance = IF serves THEN Old ELSE NoHost
         /\ record = IF runs THEN Old ELSE NoHost
         /\ listed = [h \in Hosts |-> IF runs /\ h = Old THEN Old ELSE NoHost]
  OBVIOUS
<1>2. Old \in Hosts
  OBVIOUS
<1>3. HostsTypeOK
  BY <1>1, <1>2 DEF HostsTypeOK, HostSteps
<1>4. OwnerInv
  BY <1>1, <1>2, <1>3
     DEF OwnerInv, OwningHoldsLock, NamedInInstance, ServesEndpoint, SocketOfServerOrDead,
         ClearIsClear, HolderAlive, RunningRecordStands, Owning, Named, Alive
<1>5. ControllersTypeOK /\ BootInv
  BY DEF ControllersTypeOK, BootInv, ControllerSteps, Idle, NoController
<1> QED
  BY <1>4, <1>5 DEF IInv

\* Every step of a host or of a controller keeps the invariant.
LEMMA NextIInv == IInv /\ [Next]_vars => IInv'
<1> SUFFICES ASSUME IInv, [Next]_vars PROVE IInv'
  OBVIOUS
<1>1. CASE Next
  <2>1. OwnerInv'
    BY <1>1, NextKeepsOwner DEF IInv
  <2>2. ASSUME NEW h \in Hosts,
               \/ HostStep(h) \/ OwnerHeld(h) \/ OpenFails(h) \/ Crash(h)
               \/ Launch(h) \/ RecordLands(h) \/ LaunchUnwritten(h) \/ SessionEnds(h)
               \/ StopIdle(h)
        PROVE  ControllersTypeOK' /\ BootInv'
    BY <2>2, HostKeepsControllers DEF IInv
  <2>3. ASSUME NEW c \in Controllers, ControllerStep(c) \/ Ask(c) \/ BootBusy(c)
        PROVE  ControllersTypeOK' /\ BootInv'
    BY <2>3, ControllerKeepsControllers DEF IInv
  <2>4. ASSUME ServeByHand PROVE ControllersTypeOK' /\ BootInv'
    BY <2>4 DEF IInv, ServeByHand, HostOnly, ControllersTypeOK, BootInv
  <2> QED
    BY <1>1, <2>1, <2>2, <2>3, <2>4 DEF Next, IInv
<1>2. CASE UNCHANGED vars
  BY <1>2 DEF vars, IInv, OwnerInv, HostsTypeOK, OwningHoldsLock, NamedInInstance,
              ServesEndpoint, SocketOfServerOrDead, ClearIsClear, HolderAlive, Alive,
              RunningRecordStands, ControllersTypeOK, BootInv
<1> QED
  BY <1>1, <1>2

\* The inductive invariant holds in every behaviour.
THEOREM BootstrapInvariant == Spec => []IInv
BY InitIInv, NextIInv, PTL DEF Spec

\* Locks are held by processes and calls that run, for any number of them.
THEOREM BootstrapTypes == Spec => []TypeOK
<1>1. IInv => TypeOK
  BY DEF IInv, OwnerInv, TypeOK, BootInv, HolderAlive
<1> QED
  BY <1>1, BootstrapInvariant, PTL

\* One host owns one home (OwnerLock, bind_owner_only, retire_listener): while a
\* host serves, the endpoint, the instance record and the lock are its own.
THEOREM OneOwner == Spec => []ServingIsOwner
<1>1. IInv => ServingIsOwner
  BY DEF IInv, OwnerInv, OwningHoldsLock, NamedInInstance, ServesEndpoint, ServingIsOwner,
         Owning, Named
<1> QED
  BY <1>1, BootstrapInvariant, PTL

\* bind_owner_only never removes the socket of a live host, and never finds the
\* path of the home it owns taken.
THEOREM NoLiveSocketRemoved == Spec => []OwnerFindsNoServer
<1>1. IInv => OwnerFindsNoServer
  <2> SUFFICES ASSUME IInv, NEW h \in Hosts
               PROVE  /\ host[h] \in {"binding", "unserved"} => ~Served
                      /\ host[h] = "clear" => endpoint = NoHost
    BY DEF OwnerFindsNoServer
  <2>1. ASSUME host[h] \in {"binding", "unserved"}, Served PROVE FALSE
    <3>1. endpoint \in Hosts /\ host[endpoint] \in {"serving", "stopping"}
      BY <2>1 DEF IInv, OwnerInv, HostsTypeOK, SocketOfServerOrDead, Served, Listening
    <3>2. owner = endpoint /\ owner = h
      BY <2>1, <3>1 DEF IInv, OwnerInv, OwningHoldsLock, Owning
    <3> QED
      BY <2>1, <3>1, <3>2
  <2> QED
    BY <2>1 DEF IInv, OwnerInv, ClearIsClear
<1> QED
  BY <1>1, BootstrapInvariant, PTL

\* adopt_previous_records under the owner lock: what a host lists as its own is
\* its own and on disk, or its write is still to come (create and restart write
\* before they spawn), and no other host ever rewrites it.
THEOREM RunningRecordsStand == Spec => []RunningRecordStands
<1>1. IInv => RunningRecordStands
  BY DEF IInv, OwnerInv
<1> QED
  BY <1>1, BootstrapInvariant, PTL
=============================================================================
