---------------------------- MODULE OutputStream ----------------------------
(***************************************************************************)
(* How the output of one session gets from its PTY to its followers        *)
(* (crates/paneflow-host/src/runtime.rs, stream.rs, tail.rs): a reader     *)
(* thread fills a bounded inbox, the session thread takes slices of it,    *)
(* publishes them in a bounded tail and feeds the terminal, and once the   *)
(* child has ended it finishes the stream, files a completed record and    *)
(* releases the tail.                                                      *)
(*                                                                         *)
(* The bytes of the child are numbered 1, 2, ... in the order they are     *)
(* read, so that a byte that is lost, doubled or moved shows.  What the    *)
(* terminal makes of them is the sequence of bytes it was fed.  The code   *)
(* between two acquisitions of a mutex is one action; advance, which       *)
(* serve_loop calls after every message, is part of the message's action   *)
(* where it acts at once and an action of its own where it waits for time. *)
(***************************************************************************)
EXTENDS Integers, Sequences, Functions

CONSTANTS
    Capacity,          \* bytes the tail retains
    InboxBytes,        \* PTY_INBOX_BYTES
    SliceBytes,        \* DRAIN_SLICE_BYTES
    ReadBytes,         \* READ_CHUNK_BYTES
    MaxBytes,          \* bound: bytes the child writes
    MaxCheckpoints     \* bound: checkpoints asked for

ASSUME OutputAssumption ==
    /\ Capacity \in Nat \ {0} /\ InboxBytes \in Nat \ {0}
    /\ SliceBytes \in Nat \ {0} /\ ReadBytes \in Nat \ {0}
    /\ MaxBytes \in Nat /\ MaxCheckpoints \in Nat

VARIABLES
    \* read_pty
    rpc,               \* where the reader is
    chunk,             \* the chunk it holds
    read,              \* bytes read so far
    \* PtyInbox
    chunks, inbox_bytes, notified, closed,
    channel,           \* the session thread's messages
    \* the session thread
    spc,               \* where serve_loop is
    taken,             \* chunks taken from the inbox, not fed yet
    more,              \* take_slice left some behind
    output_pending, exited, reader_eof, drain_deadline, tail_release,
    whole,             \* finalize's argument
    completed,
    terminal, retired,
    \* OutputStream
    tail,              \* OutputTail
    released,          \* the tail was dropped
    end_offset, live, publications,
    \* SessionRecord
    record,            \* record.completed and the completeness filed with it
    slot,              \* what output_stream finds: runtime, completed or gone
    \* checkpoints
    asked, reply

reader == <<rpc, chunk, read>>
inbox == <<chunks, inbox_bytes, notified, closed>>
flow == <<taken, more, output_pending>>
ending == <<exited, reader_eof, drain_deadline, tail_release, whole, completed>>
engine == <<terminal, retired>>
stream == <<tail, released, end_offset, live, publications>>
session == <<spc, flow, ending, engine>>
registry == <<record, slot>>
checkpoints == <<asked, reply>>
hostVars == <<reader, inbox, channel, session, stream, registry, checkpoints>>

NoRecord == [final_offset |-> 0, complete |-> FALSE, filed |-> FALSE]
NoReply == [id |-> 0, ok |-> FALSE, offset |-> 0, snapshot |-> <<>>]

Ready == [kind |-> "ready", id |-> 0]
Eof == [kind |-> "eof", id |-> 0]
ChildExited == [kind |-> "exited", id |-> 0]
Checkpoint(n) == [kind |-> "checkpoint", id |-> n]

\* Bytes a+1 .. b of the child.
Bytes(a, b) == [i \in 1..(b - a) |-> a + i]

Shorter(a, b) == IF a < b THEN a ELSE b
Excess(a, b) == IF a > b THEN a - b ELSE 0     \* saturating_sub

HostInit ==
    /\ rpc = "reading" /\ chunk = <<>> /\ read = 0
    /\ chunks = <<>> /\ inbox_bytes = 0 /\ notified = FALSE /\ closed = FALSE
    /\ channel = <<>>
    /\ spc = "serve" /\ taken = <<>> /\ more = FALSE /\ output_pending = FALSE
    /\ exited = FALSE /\ reader_eof = FALSE /\ drain_deadline = FALSE
    /\ tail_release = FALSE /\ whole = FALSE /\ completed = FALSE
    /\ terminal = <<>> /\ retired = FALSE
    /\ tail = [start |-> 0, bytes |-> <<>>] /\ released = FALSE
    /\ end_offset = 0 /\ live = TRUE /\ publications = 0
    /\ record = NoRecord /\ slot = "runtime"
    /\ asked = 0 /\ reply = NoReply
-----------------------------------------------------------------------------
(***************************************************************************)
(* The PTY reader and the child                                            *)
(***************************************************************************)

ReadPty(n) ==
    /\ rpc = "reading"
    /\ read + n <= MaxBytes
    /\ chunk' = Bytes(read, read + n)
    /\ read' = read + n
    /\ rpc' = "pushing"
    /\ UNCHANGED <<inbox, channel, session, stream, registry, checkpoints>>

\* A chunk larger than the inbox is let in when the inbox is empty.
Fits == inbox_bytes + Len(chunk) <= InboxBytes \/ chunks = <<>>

\* push, once there is room; a closed inbox swallows the chunk.
Push ==
    /\ rpc = "pushing"
    /\ \/ /\ closed
          /\ rpc' = "reading"
          /\ UNCHANGED <<chunks, inbox_bytes, notified>>
       \/ /\ ~closed
          /\ Fits
          /\ chunks' = Append(chunks, chunk)
          /\ inbox_bytes' = inbox_bytes + Len(chunk)
          /\ notified' = TRUE
          /\ rpc' = IF notified THEN "reading" ELSE "notifying"
    /\ chunk' = <<>>
    /\ UNCHANGED <<read, closed, channel, session, stream, registry, checkpoints>>

\* push, after it released the inbox: nobody receives once the session thread ended.
Notify ==
    /\ rpc = "notifying"
    /\ IF spc = "ended" THEN /\ rpc' = "done"
                             /\ UNCHANGED channel
                        ELSE /\ rpc' = "reading"
                             /\ channel' = Append(channel, Ready)
    /\ UNCHANGED <<chunk, read, inbox, session, stream, registry, checkpoints>>

\* The PTY is at its end or failed.
ReaderEnds ==
    /\ rpc = "reading"
    /\ rpc' = "done"
    /\ channel' = IF spc = "ended" THEN channel ELSE Append(channel, Eof)
    /\ UNCHANGED <<chunk, read, inbox, session, stream, registry, checkpoints>>

\* The thread that waits for the child.
ChildEnds ==
    /\ ~exited /\ ChildExited \notin {channel[i] : i \in DOMAIN channel}
    /\ channel' = Append(channel, ChildExited)
    /\ UNCHANGED <<reader, inbox, session, stream, registry, checkpoints>>
-----------------------------------------------------------------------------
(***************************************************************************)
(* OutputTail and OutputStream                                             *)
(***************************************************************************)

\* Mutant: the start does not move with what an oversized chunk pushes out.
TailForgetsSkipped(t, c) ==
    IF Len(c) >= Capacity
    THEN [start |-> t.start + Len(t.bytes),
          bytes |-> SubSeq(c, Len(c) - Capacity + 1, Len(c))]
    ELSE LET excess == Excess(Len(t.bytes) + Len(c), Capacity)
         IN  [start |-> t.start + excess,
              bytes |-> SubSeq(t.bytes, excess + 1, Len(t.bytes)) \o c]

\* OutputTail::append
TailAppend(t, c) ==
    IF Len(c) >= Capacity
    THEN [start |-> t.start + Len(t.bytes) + (Len(c) - Capacity),
          bytes |-> SubSeq(c, Len(c) - Capacity + 1, Len(c))]
    ELSE LET excess == Excess(Len(t.bytes) + Len(c), Capacity)
         IN  [start |-> t.start + excess,
              bytes |-> SubSeq(t.bytes, excess + 1, Len(t.bytes)) \o c]

TailEnd(t) == t.start + Len(t.bytes)

Published == publications' = publications + 1

\* OutputStream::append
StreamAppend(c) ==
    /\ IF released THEN UNCHANGED <<tail, end_offset>>
                   ELSE /\ tail' = TailAppend(tail, c)
                        /\ end_offset' = TailEnd(TailAppend(tail, c))
    /\ Published
    /\ UNCHANGED <<released, live>>

\* OutputStream::read refuses an offset the tail no longer has.
Evicted(from) ==
    IF released THEN from # end_offset
                ELSE from < tail.start \/ from > TailEnd(tail)

\* Mutant: the read starts at the start of the tail, whatever it was asked for.
SliceFromStart(from, max) ==
    IF released THEN <<>> ELSE SubSeq(tail.bytes, 1, Shorter(Len(tail.bytes), max))

\* The bytes OutputStream::read returns from an offset it does not refuse.
Slice(from, max) ==
    IF released THEN <<>>
    ELSE SubSeq(tail.bytes, from - tail.start + 1,
                Shorter(Len(tail.bytes), from - tail.start + max))
-----------------------------------------------------------------------------
(***************************************************************************)
(* The session thread                                                      *)
(***************************************************************************)

\* The bytes in the first n chunks.
SizeOf(q, n) == SumFunctionOnSet([i \in DOMAIN q |-> Len(q[i])], 1..n)

\* A slice has at least one chunk, then as many as fit.
IsSlice(q, n) ==
    /\ n > 1 => SizeOf(q, n) <= SliceBytes
    /\ n < Len(q) => n >= 1 /\ SizeOf(q, n + 1) > SliceBytes

\* Mutant: the inbox stays notified although nothing is left.
SliceStaysNotified ==
    \E n \in 0..Len(chunks) :
        /\ IsSlice(chunks, n)
        /\ taken' = SubSeq(chunks, 1, n)
        /\ chunks' = SubSeq(chunks, n + 1, Len(chunks))
        /\ inbox_bytes' = Excess(inbox_bytes, SizeOf(chunks, n))
        /\ more' = (n < Len(chunks))
        /\ notified' = notified
        /\ UNCHANGED closed

\* take_slice: there is one n.
TakeSlice ==
    \E n \in 0..Len(chunks) :
        /\ IsSlice(chunks, n)
        /\ taken' = SubSeq(chunks, 1, n)
        /\ chunks' = SubSeq(chunks, n + 1, Len(chunks))
        /\ inbox_bytes' = Excess(inbox_bytes, SizeOf(chunks, n))
        /\ more' = (n < Len(chunks))
        /\ notified' = (n < Len(chunks))
        /\ UNCHANGED closed

Arrived(m) == spc = "serve" /\ channel # <<>> /\ Head(channel) = m /\ channel' = Tail(channel)

\* A notice, or what is left of the last slice when there is no message.
DrainInbox ==
    /\ \/ Arrived(Ready)
       \/ /\ spc = "serve" /\ output_pending
          /\ channel = <<>>
          /\ UNCHANGED channel
    /\ TakeSlice
    /\ spc' = "feed"
    /\ UNCHANGED <<reader, output_pending, ending, engine, stream, registry, checkpoints>>

\* feed of one chunk of the slice: publish it, then the terminal.
FeedOne ==
    /\ taken # <<>>
    /\ taken' = Tail(taken)
    /\ StreamAppend(Head(taken))
    /\ terminal' = terminal \o Head(taken)
    /\ UNCHANGED retired

Feed ==
    /\ spc = "feed"
    /\ FeedOne
    /\ UNCHANGED <<reader, inbox, channel, spc, more, output_pending, ending, registry,
                   checkpoints>>

SliceFed ==
    /\ spc = "feed" /\ taken = <<>>
    /\ output_pending' = more
    /\ spc' = "serve"
    /\ UNCHANGED <<reader, inbox, channel, taken, more, ending, engine, stream, registry,
                   checkpoints>>

\* advance finalizes at once when the child and the PTY have both ended; the
\* deadline of the drain may have passed by then.
Finalizes(arg) ==
    /\ spc' = "finalize"
    /\ whole' = arg
    /\ drain_deadline' = FALSE

OnEof ==
    /\ Arrived(Eof)
    /\ reader_eof' = TRUE
    /\ \/ /\ exited /\ ~completed
          /\ \/ Finalizes(TRUE)
             \/ drain_deadline /\ Finalizes(FALSE)
       \/ ~(exited /\ ~completed) /\ UNCHANGED <<spc, whole, drain_deadline>>
    /\ UNCHANGED <<reader, inbox, flow, exited, tail_release, completed, engine, stream,
                   registry, checkpoints>>

\* on_child_exited, record_exit: a drain that waits for the end of the PTY is timed.
OnChildExited ==
    /\ Arrived(ChildExited)
    /\ exited' = TRUE
    /\ \/ /\ reader_eof
          /\ Finalizes(TRUE)
       \/ /\ ~reader_eof
          /\ drain_deadline' = TRUE
          /\ UNCHANGED <<spc, whole>>
    /\ UNCHANGED <<reader, inbox, flow, reader_eof, tail_release, completed, engine, stream,
                   registry, checkpoints>>

\* FINAL_DRAIN_BUDGET ran out before the PTY ended.
DrainDeadline ==
    /\ spc = "serve" /\ drain_deadline
    /\ Finalizes(FALSE)
    /\ UNCHANGED <<reader, inbox, channel, flow, exited, reader_eof, tail_release, completed,
                   engine, stream, registry, checkpoints>>

\* finalize: what the inbox holds is fed, slice after slice.
FinalSlice ==
    /\ spc = "finalize"
    /\ TakeSlice
    /\ spc' = "final_feed"
    /\ UNCHANGED <<reader, channel, output_pending, ending, engine, stream, registry,
                   checkpoints>>

FinalFeed ==
    /\ spc = "final_feed"
    /\ FeedOne
    /\ UNCHANGED <<reader, inbox, channel, spc, more, output_pending, ending, registry,
                   checkpoints>>

FinalNext ==
    /\ spc = "final_feed" /\ taken = <<>> /\ more
    /\ spc' = "finalize"
    /\ UNCHANGED <<reader, inbox, channel, flow, ending, engine, stream, registry, checkpoints>>

\* Mutant: one slice is drained, not all of them.
FinishesEarly ==
    /\ spc = "final_feed" /\ taken = <<>>
    /\ completed' = TRUE
    /\ live' = FALSE
    /\ Published
    /\ terminal' = <<>> /\ retired' = TRUE
    /\ spc' = "complete"
    /\ UNCHANGED <<reader, inbox, channel, flow, exited, reader_eof, drain_deadline,
                   tail_release, whole, tail, released, end_offset, registry, checkpoints>>

\* finish: the stream ends.
Finish ==
    /\ spc = "final_feed" /\ taken = <<>> /\ ~more
    /\ completed' = TRUE
    /\ live' = FALSE
    /\ Published
    /\ terminal' = <<>> /\ retired' = TRUE
    /\ spc' = "complete"
    /\ UNCHANGED <<reader, inbox, channel, flow, exited, reader_eof, drain_deadline,
                   tail_release, whole, tail, released, end_offset, registry, checkpoints>>

\* Mutant: the inbox is left open.
CompletesOpen ==
    /\ spc = "complete"
    /\ tail_release' = TRUE
    /\ record' = [final_offset |-> end_offset, complete |-> whole /\ reader_eof, filed |-> TRUE]
    /\ spc' = "serve"
    /\ UNCHANGED <<reader, inbox, channel, flow, exited, reader_eof, drain_deadline, whole,
                   completed, engine, stream, slot, checkpoints>>

\* retire_engine closes the inbox, and complete_session files the record.
Complete ==
    /\ spc = "complete"
    /\ closed' = TRUE /\ chunks' = <<>> /\ inbox_bytes' = 0
    /\ tail_release' = TRUE
    /\ record' = [final_offset |-> end_offset, complete |-> whole /\ reader_eof, filed |-> TRUE]
    /\ spc' = "serve"
    /\ UNCHANGED <<reader, notified, channel, flow, exited, reader_eof, drain_deadline, whole,
                   completed, engine, stream, slot, checkpoints>>

\* TAIL_RELEASE_GRACE ran out: the last thing the thread does.  A command that is
\* left in the channel is answered by an error.
ReleaseTail ==
    /\ spc = "serve" /\ tail_release
    /\ tail_release' = FALSE
    /\ released' = TRUE /\ live' = FALSE
    /\ tail' = [start |-> end_offset, bytes |-> <<>>]
    /\ Published
    /\ spc' = "ended"
    /\ channel' = <<>>
    /\ reply' = IF Checkpoint(asked) \in {channel[i] : i \in DOMAIN channel}
                THEN [NoReply EXCEPT !.id = asked]
                ELSE reply
    /\ UNCHANGED <<reader, inbox, flow, exited, reader_eof, drain_deadline, whole, completed,
                   engine, end_offset, registry, asked>>

\* The command Checkpoint: the snapshot and the offset it stands for, or NotLive.
\* An asker that went away is answered in vain.
ServeCheckpoint ==
    /\ \E n \in 1..asked :
          /\ Arrived(Checkpoint(n))
          /\ reply' = IF n = asked
                      THEN [id |-> n, ok |-> ~retired, offset |-> end_offset,
                            snapshot |-> terminal]
                      ELSE reply
    /\ UNCHANGED <<reader, inbox, session, stream, registry, asked>>
-----------------------------------------------------------------------------
(***************************************************************************)
(* The registry                                                            *)
(***************************************************************************)

\* with_live_runtime(checkpoint): refused without a runtime, or with one whose
\* thread has ended.
AskCheckpoint ==
    /\ asked < MaxCheckpoints
    /\ asked' = asked + 1
    /\ IF slot = "runtime" /\ spc # "ended"
       THEN channel' = Append(channel, Checkpoint(asked + 1)) /\ UNCHANGED reply
       ELSE reply' = [NoReply EXCEPT !.id = asked + 1] /\ UNCHANGED channel

\* release_retired_runtime: followers keep the stream they hold.
ReleaseRuntime ==
    /\ slot = "runtime" /\ record.filed
    /\ slot' = "completed"
    /\ UNCHANGED <<reader, inbox, channel, session, stream, record, checkpoints>>

\* The session is removed, or restarted as another generation.
SessionGone ==
    /\ slot = "completed"
    /\ slot' = "gone"
    /\ UNCHANGED <<reader, inbox, channel, session, stream, record, checkpoints>>

ReaderThread == Push \/ Notify

SessionThread ==
    \/ DrainInbox \/ Feed \/ SliceFed \/ OnEof \/ OnChildExited
    \/ FinalSlice \/ FinalFeed \/ FinalNext \/ Finish \/ Complete
    \/ ServeCheckpoint

HostNext ==
    \/ \E n \in 1..ReadBytes : ReadPty(n)
    \/ ReaderEnds \/ ChildEnds
    \/ ReaderThread \/ SessionThread
    \/ DrainDeadline \/ ReleaseTail
    \/ ReleaseRuntime \/ SessionGone

\* Threads that are not blocked go on; the child, time and the desktop need not.
HostFairness == WF_hostVars(ReaderThread) /\ WF_hostVars(SessionThread)

-----------------------------------------------------------------------------
(***************************************************************************)
(* Properties                                                              *)
(***************************************************************************)

Chunk == Seq(1..MaxBytes)
Message == {Ready, Eof, ChildExited} \cup {Checkpoint(n) : n \in 1..MaxCheckpoints}

HostTypeOK ==
    /\ rpc \in {"reading", "pushing", "notifying", "done"}
    /\ chunk \in Chunk /\ read \in 0..MaxBytes
    /\ chunks \in Seq(Chunk) /\ inbox_bytes \in 0..MaxBytes
    /\ notified \in BOOLEAN /\ closed \in BOOLEAN
    /\ channel \in Seq(Message)
    /\ spc \in {"serve", "feed", "finalize", "final_feed", "complete", "ended"}
    /\ taken \in Seq(Chunk) /\ more \in BOOLEAN /\ output_pending \in BOOLEAN
    /\ exited \in BOOLEAN /\ reader_eof \in BOOLEAN /\ drain_deadline \in BOOLEAN
    /\ tail_release \in BOOLEAN /\ whole \in BOOLEAN /\ completed \in BOOLEAN
    /\ terminal \in Chunk /\ retired \in BOOLEAN
    /\ tail \in [start : 0..MaxBytes, bytes : Chunk] /\ released \in BOOLEAN
    /\ end_offset \in 0..MaxBytes /\ live \in BOOLEAN /\ publications \in Nat
    /\ record \in [final_offset : 0..MaxBytes, complete : BOOLEAN, filed : BOOLEAN]
    /\ slot \in {"runtime", "completed", "gone"}
    /\ asked \in 0..MaxCheckpoints
    /\ reply \in [id : 0..MaxCheckpoints, ok : BOOLEAN, offset : 0..MaxBytes, snapshot : Chunk]

\* The tail holds exactly the newest bytes the child wrote, as many as it may
\* retain, at the offsets it claims for them: chunks pass through the inbox, its
\* slices and the final drain in order and whole, and eviction moves the start
\* by what it drops (OutputTail::append).
TailExact ==
    ~released => /\ tail.bytes = Bytes(tail.start, end_offset)
                 /\ Len(tail.bytes) = Shorter(Capacity, end_offset)

\* A completed record that says complete has every byte that was read from the
\* PTY behind its final offset (finalize drains the inbox after the end of file).
CompleteIsWhole == record.complete => record.final_offset = read

\* Nothing is published once the record is filed, although the reader may still
\* push: the final offset that followers are measured against stays the end
\* (retire_engine closes the inbox).
FinalOffsetStays == record.filed => end_offset = record.final_offset
=============================================================================
