--------------------------- MODULE OutputFollower ---------------------------
(***************************************************************************)
(* A desktop pane that mirrors a session: the connection thread of the     *)
(* host (stream_output in crates/paneflow-host/src/server.rs), the         *)
(* follower thread of the pane (follow_host_output in src-app/src/terminal *)
(* /ghostty_session/attached_runtime.rs), its mailbox (mailbox.rs) and the *)
(* worker that owns the mirror terminal, composed with OutputStream.       *)
(*                                                                         *)
(* The mirror is the sequence of bytes its terminal was fed since it was   *)
(* empty; a checkpoint replaces it by the sequence the host's terminal was *)
(* fed.  The mailbox carries only what concerns output: the input, resize  *)
(* and appearance messages are left out, so its control capacity of 256 is *)
(* never reached.                                                          *)
(***************************************************************************)
EXTENDS OutputStream

CONSTANTS
    FrameBytes,        \* DATA_CHUNK_RAW_BYTES
    BufferBytes,       \* OUTPUT_CHUNK_BYTES
    BufferCount,       \* OUTPUT_BUFFER_COUNT
    MaxWire,           \* bound: frames the connection buffers
    MaxLosses          \* bound: connections lost

ASSUME FollowerAssumption ==
    /\ FrameBytes \in Nat \ {0} /\ BufferBytes \in Nat \ {0} /\ BufferCount \in Nat \ {0}
    /\ MaxWire \in Nat \ {0} /\ MaxLosses \in Nat

VARIABLES
    \* stream_output
    cpc,               \* where the connection thread is
    source,            \* what output_stream gave it: stream or completed
    offset, seen,
    wire,              \* frames on their way to the follower
    \* follow_host_output
    fpc, next_offset, need_checkpoint,
    rest,              \* bytes of the frame in hand, not in the mailbox yet
    link_end,          \* why the link ended
    losses,
    \* RuntimeMailbox
    queue, buffers, mailbox_closed,
    \* the worker
    mirror,
    shown,             \* the end of the link was processed
    \* history
    overwritten        \* a queued checkpoint was replaced in place

server == <<cpc, source, offset, seen>>
follower == <<fpc, next_offset, need_checkpoint, rest, link_end, losses>>
mailbox == <<queue, buffers, mailbox_closed>>
worker == <<mirror, shown>>
paneVars == <<server, wire, follower, mailbox, worker, overwritten>>
vars == <<hostVars, paneVars>>

Output(at, data) == [kind |-> "output", offset |-> at, data |-> data]
Signal(kind) == [kind |-> kind, offset |-> 0, data |-> <<>>]

Init ==
    /\ HostInit
    /\ cpc = "closed" /\ source = "stream" /\ offset = 0 /\ seen = 0
    /\ wire = <<>>
    /\ fpc = "connect" /\ next_offset = 0 /\ need_checkpoint = FALSE
    /\ rest = <<>> /\ link_end = "none" /\ losses = 0
    /\ queue = <<>> /\ buffers = BufferCount /\ mailbox_closed = FALSE
    /\ mirror = <<>> /\ shown = FALSE
    /\ overwritten = FALSE
-----------------------------------------------------------------------------
(***************************************************************************)
(* The connection thread                                                   *)
(***************************************************************************)

\* output_stream: the runtime's stream, or the offset of the completed record.
OpenStream ==
    /\ cpc = "open"
    /\ \/ /\ slot # "gone"
          /\ source' = IF slot = "runtime" THEN "stream" ELSE "completed"
          /\ cpc' = "read"
          /\ UNCHANGED wire
       \/ /\ slot = "gone"
          /\ wire' = Append(wire, Signal("gone"))
          /\ cpc' = "closed"
          /\ UNCHANGED source
    /\ UNCHANGED <<hostVars, offset, seen, follower, mailbox, worker, overwritten>>

Refused ==
    IF source = "stream" THEN Evicted(offset) ELSE offset # record.final_offset

SliceNow == IF source = "stream" THEN Slice(offset, FrameBytes) ELSE <<>>

LiveNow == source = "stream" /\ live

EndNow == IF source = "stream" THEN end_offset ELSE record.final_offset

\* Mutant: the stream ends when the session does, before the rest was sent.
EndsWithSession(at) == ~LiveNow

\* The condition of the end frame, on what the read returned.
AtEnd(at) == ~LiveNow /\ EndNow <= at

\* One turn of the loop up to its wait: read, send, and end where the stream does.
SendSlice ==
    /\ cpc = "read"
    /\ Len(wire) < MaxWire
    /\ \/ /\ Refused
          /\ wire' = Append(wire, Signal("evicted"))
          /\ cpc' = "closed"
          /\ UNCHANGED offset
       \/ /\ ~Refused
          /\ LET data == SliceNow
                 at == offset + Len(data)
                 sent == IF data = <<>> THEN wire ELSE Append(wire, Output(offset, data))
             IN  /\ offset' = at
                 /\ wire' = IF AtEnd(at) THEN Append(sent, Signal("end")) ELSE sent
                 /\ cpc' = IF AtEnd(at) THEN "served"
                           ELSE IF EndNow > at THEN "read" ELSE "wait"
    /\ UNCHANGED <<hostVars, source, seen, follower, mailbox, worker, overwritten>>

\* Mutant: the waiter goes to sleep on what it read before.
WaitsBlindly ==
    /\ cpc = "wait"
    /\ cpc' = "asleep" /\ seen' = publications
    /\ UNCHANGED <<hostVars, source, offset, wire, follower, mailbox, worker, overwritten>>

\* wait_past
WaitPast ==
    /\ cpc = "wait"
    /\ IF end_offset > offset \/ ~live
       THEN cpc' = "read" /\ UNCHANGED seen
       ELSE cpc' = "asleep" /\ seen' = publications
    /\ UNCHANGED <<hostVars, source, offset, wire, follower, mailbox, worker, overwritten>>

Woken ==
    /\ cpc = "asleep" /\ publications # seen
    /\ cpc' = "wait"
    /\ UNCHANGED <<hostVars, source, offset, seen, wire, follower, mailbox, worker, overwritten>>

\* The keepalive deadline; the frame asks the follower only whether it goes on.
Keepalive ==
    /\ cpc = "asleep"
    /\ cpc' = "read"
    /\ UNCHANGED <<hostVars, source, offset, seen, wire, follower, mailbox, worker, overwritten>>
-----------------------------------------------------------------------------
(***************************************************************************)
(* The follower thread                                                     *)
(***************************************************************************)

\* The connection is asked for output from next_offset.
Follow(from) ==
    /\ cpc' = "open" /\ offset' = from /\ wire' = <<>>
    /\ fpc' = "follow"

Hangup == cpc' = "closed" /\ wire' = <<>>

ConnectToFollow ==
    /\ fpc = "connect" /\ ~need_checkpoint
    /\ Follow(next_offset)
    /\ UNCHANGED <<hostVars, source, seen, next_offset, need_checkpoint, rest, link_end,
                   losses, mailbox, worker, overwritten>>

ConnectToAttach ==
    /\ fpc = "connect" /\ need_checkpoint
    /\ AskCheckpoint
    /\ fpc' = "attach"
    /\ UNCHANGED <<reader, inbox, session, stream, registry, server, wire, next_offset,
                   need_checkpoint, rest, link_end, losses, mailbox, worker, overwritten>>

\* Mutant: the offset the follower had is kept.
AttachKeepsOffset ==
    /\ fpc = "attach" /\ reply.id = asked
    /\ fpc' = IF reply.ok THEN "restore" ELSE "finish"
    /\ link_end' = IF reply.ok THEN link_end ELSE "gone"
    /\ UNCHANGED <<hostVars, server, wire, next_offset, need_checkpoint, rest, losses,
                   mailbox, worker, overwritten>>

\* attach is answered: a checkpoint, or a refusal that ends the link.
Attached ==
    /\ fpc = "attach" /\ reply.id = asked
    /\ \/ /\ reply.ok
          /\ next_offset' = reply.offset
          /\ fpc' = "restore"
          /\ UNCHANGED link_end
       \/ /\ ~reply.ok
          /\ link_end' = "gone"
          /\ fpc' = "finish"
          /\ UNCHANGED next_offset
    /\ UNCHANGED <<hostVars, server, wire, need_checkpoint, rest, losses, mailbox, worker,
                   overwritten>>

Restores == {i \in DOMAIN queue : queue[i].kind = "restore"}

Restore == [kind |-> "restore", data |-> reply.snapshot]

\* try_send_control(RestoreCheckpoint): one that is still queued is overwritten
\* where it stands.  Then session.output is called on the same connection.
SendRestore ==
    /\ fpc = "restore"
    /\ \/ /\ Restores # {}
          /\ queue' = [i \in DOMAIN queue |-> IF i \in Restores THEN Restore ELSE queue[i]]
          /\ overwritten' = TRUE
       \/ /\ Restores = {}
          /\ queue' = Append(queue, Restore)
          /\ UNCHANGED overwritten
    /\ Follow(next_offset)
    /\ UNCHANGED <<hostVars, source, seen, next_offset, need_checkpoint, rest, link_end,
                   losses, buffers, mailbox_closed, worker>>

\* on_output: a frame past next_offset is a gap, bytes before it are skipped.
OnOutput(f) ==
    LET gap == f.offset > next_offset
        skip == next_offset - f.offset
    IN  /\ f.kind = "output"
        /\ need_checkpoint' = (need_checkpoint \/ gap)
        /\ rest' = IF gap THEN <<>> ELSE SubSeq(f.data, skip + 1, Len(f.data))
        /\ fpc' = IF gap THEN "connect" ELSE "push"
        /\ UNCHANGED link_end

OnEvicted(f) ==
    /\ f.kind = "evicted"
    /\ need_checkpoint' = TRUE
    /\ fpc' = "connect"
    /\ UNCHANGED <<rest, link_end>>

OnEnd(f) ==
    /\ f.kind \in {"end", "gone"}
    /\ link_end' = f.kind
    /\ fpc' = "finish"
    /\ UNCHANGED <<rest, need_checkpoint>>

NextFrame ==
    /\ fpc = "follow" /\ wire # <<>>
    /\ OnOutput(Head(wire)) \/ OnEvicted(Head(wire)) \/ OnEnd(Head(wire))
    /\ wire' = Tail(wire)
    /\ UNCHANGED <<hostVars, server, next_offset, losses, mailbox, worker, overwritten>>

\* Mutant: the thread does not wait for a free buffer.
PushesUnbuffered ==
    /\ fpc = "push"
    /\ \/ /\ rest # <<>>
          /\ LET n == Shorter(BufferBytes, Len(rest))
             IN  /\ queue' = Append(queue, [kind |-> "output", data |-> SubSeq(rest, 1, n)])
                 /\ rest' = SubSeq(rest, n + 1, Len(rest))
                 /\ next_offset' = next_offset + n
          /\ buffers' = buffers - 1
          /\ UNCHANGED fpc
       \/ /\ rest = <<>>
          /\ fpc' = "follow"
          /\ UNCHANGED <<queue, rest, next_offset, buffers>>
    /\ UNCHANGED <<hostVars, server, wire, need_checkpoint, link_end, losses, mailbox_closed,
                   worker, overwritten>>

\* push_host_output, one buffer at a time; without a free one the thread waits.
PushOutput ==
    /\ fpc = "push"
    /\ \/ /\ rest # <<>> /\ buffers > 0
          /\ LET n == Shorter(BufferBytes, Len(rest))
             IN  /\ queue' = Append(queue, [kind |-> "output", data |-> SubSeq(rest, 1, n)])
                 /\ rest' = SubSeq(rest, n + 1, Len(rest))
                 /\ next_offset' = next_offset + n
          /\ buffers' = buffers - 1
          /\ UNCHANGED fpc
       \/ /\ rest = <<>>
          /\ fpc' = "follow"
          /\ UNCHANGED <<queue, rest, next_offset, buffers>>
    /\ UNCHANGED <<hostVars, server, wire, need_checkpoint, link_end, losses, mailbox_closed,
                   worker, overwritten>>

\* The connection is lost, or refused for lack of capacity, while the thread
\* connects, attaches or reads.
LoseLink ==
    /\ fpc \in {"connect", "attach", "follow"}
    /\ losses < MaxLosses
    /\ losses' = losses + 1
    /\ need_checkpoint' = TRUE
    /\ fpc' = "connect"
    /\ Hangup
    /\ UNCHANGED <<hostVars, source, offset, seen, next_offset, rest, link_end, mailbox,
                   worker, overwritten>>

\* finish_host_link
FinishLink ==
    /\ fpc = "finish"
    /\ queue' = Append(queue, [kind |-> "eof", data |-> <<>>])
    /\ fpc' = "done"
    /\ Hangup
    /\ UNCHANGED <<hostVars, source, offset, seen, next_offset, need_checkpoint, rest,
                   link_end, losses, buffers, mailbox_closed, worker, overwritten>>

\* link.stopped() or a closed mailbox ends the thread where it next looks.
FollowerStops ==
    /\ mailbox_closed /\ fpc # "done"
    /\ fpc' = "done"
    /\ Hangup
    /\ UNCHANGED <<hostVars, source, offset, seen, next_offset, need_checkpoint, rest,
                   link_end, losses, mailbox, worker, overwritten>>
-----------------------------------------------------------------------------
(***************************************************************************)
(* The worker that owns the mirror                                         *)
(***************************************************************************)

\* process_output_batch, RestoreCheckpoint and Eof, in the order of the mailbox.
HandleMessage ==
    /\ ~mailbox_closed
    /\ queue # <<>>
    /\ queue' = Tail(queue)
    /\ LET m == Head(queue)
       IN  \/ /\ m.kind = "output"
              /\ mirror' = mirror \o m.data
              /\ buffers' = buffers + 1
              /\ UNCHANGED shown
           \/ /\ m.kind = "restore"
              /\ mirror' = m.data
              /\ UNCHANGED <<buffers, shown>>
           \/ /\ m.kind = "eof"
              /\ shown' = TRUE
              /\ UNCHANGED <<mirror, buffers>>
    /\ UNCHANGED <<hostVars, server, wire, follower, mailbox_closed, overwritten>>

\* The pane closes.
ClosePane ==
    /\ ~mailbox_closed
    /\ mailbox_closed' = TRUE
    /\ UNCHANGED <<hostVars, server, wire, follower, queue, buffers, worker, overwritten>>
-----------------------------------------------------------------------------
ServerThread == OpenStream \/ SendSlice \/ WaitPast \/ Woken

FollowerThread ==
    \/ ConnectToFollow \/ ConnectToAttach \/ Attached \/ SendRestore \/ NextFrame
    \/ PushOutput \/ FinishLink \/ FollowerStops

Host == HostNext /\ UNCHANGED paneVars

Next ==
    \/ Host
    \/ ServerThread \/ Keepalive
    \/ FollowerThread \/ LoseLink
    \/ HandleMessage \/ ClosePane

Spec == Init /\ [][Next]_vars

\* Threads that are not blocked go on.  Nothing is owed by the child, by time (the
\* keepalive and the grace of the tail included), by losses or by the user.
FairSpec ==
    /\ Spec
    /\ WF_vars(ReaderThread /\ UNCHANGED paneVars)
    /\ WF_vars(SessionThread /\ UNCHANGED paneVars)
    /\ WF_vars(ServerThread)
    /\ WF_vars(FollowerThread)
    /\ WF_vars(HandleMessage)
-----------------------------------------------------------------------------
(***************************************************************************)
(* Properties                                                              *)
(***************************************************************************)

TypeOK ==
    /\ HostTypeOK
    /\ cpc \in {"closed", "open", "read", "wait", "asleep", "served"}
    /\ source \in {"stream", "completed"}
    /\ offset \in 0..MaxBytes /\ seen \in Nat
    /\ wire \in Seq([kind : {"output", "end", "gone", "evicted"}, offset : 0..MaxBytes,
                     data : Chunk])
    /\ fpc \in {"connect", "attach", "restore", "follow", "push", "finish", "done"}
    /\ next_offset \in 0..MaxBytes /\ need_checkpoint \in BOOLEAN /\ rest \in Chunk
    /\ link_end \in {"none", "end", "gone"} /\ losses \in 0..MaxLosses
    /\ queue \in Seq([kind : {"output", "restore", "eof"}, data : Chunk])
    /\ buffers \in 0..BufferCount /\ mailbox_closed \in BOOLEAN
    /\ mirror \in Seq(1..MaxBytes) /\ shown \in BOOLEAN
    /\ overwritten \in BOOLEAN

Held(q) == {q[i] : i \in DOMAIN q}

\* The frames on the wire go on exactly where the follower stands, with the bytes
\* the child wrote there: over evictions, the end of the session and every
\* reconnection the follower meets neither a gap nor an overlap, so its handling
\* of both is a second line of defence.
FramesFollowOn ==
    fpc \in {"follow", "push"} =>
        \A i \in DOMAIN wire :
            wire[i].kind = "output" =>
                /\ wire[i].offset = IF i = 1 THEN next_offset + Len(rest)
                                    ELSE wire[i - 1].offset + Len(wire[i - 1].data)
                /\ wire[i].data = Bytes(wire[i].offset, wire[i].offset + Len(wire[i].data))

\* The mirror shows what the child wrote, each byte once and in order, through
\* evictions, lost connections and restored checkpoints, as long as no checkpoint
\* was replaced in the mailbox.
MirrorFaithful == ~overwritten => mirror = Bytes(0, Len(mirror))

\* When the host said that the stream ended, the pane that shows the end has
\* processed every byte the host published.
EndedIsWhole ==
    shown /\ link_end = "end" => 1..record.final_offset \subseteq Held(mirror)

\* Every byte read from the PTY reaches the mirror, or the link ends, or the pane
\* closes, without the help of a keepalive: no slice left in the inbox waits for
\* a notice that never comes, and no publication falls between a follower's read
\* and its wait for the next one.
MirrorCatchesUp ==
    \A n \in 1..MaxBytes :
        read >= n ~> (n \in Held(mirror) \/ shown \/ mailbox_closed)

(***************************************************************************)
(* What the documentation says and the code does not do                    *)
(***************************************************************************)

\* ARCHITECTURE.md: "RestoreCheckpoint replaces the mirror, and a replacement still
\* queued is overwritten rather than stacked": overwriting is as good as stacking,
\* so the mirror still shows each byte once and in order.
MirrorExact == mirror = Bytes(0, Len(mirror))
=============================================================================
