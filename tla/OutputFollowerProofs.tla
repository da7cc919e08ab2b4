------------------------ MODULE OutputFollowerProofs ------------------------
(***************************************************************************)
(* What the pane that follows a session shows, for any sizes of frames,    *)
(* buffers, inbox and tail, any number of lost connections and any number  *)
(* of bytes: the invariant of the host (OutputStreamProofs) holds of the   *)
(* composed system, and with it the frames on the wire, the mailbox and    *)
(* the mirror stay what the properties of OutputFollower say.              *)
(***************************************************************************)
EXTENDS OutputFollower, OutputStreamProofs

-----------------------------------------------------------------------------
(***************************************************************************)
(* The invariant                                                           *)
(***************************************************************************)

Frames == [kind : {"output", "end", "gone", "evicted"}, offset : Nat, data : Seq(Nat)]
Letters == [kind : {"output", "restore", "eof"}, data : Seq(Nat)]

PaneTypes ==
    /\ offset \in Nat /\ next_offset \in Nat
    /\ wire \in Seq(Frames) /\ rest \in Seq(Nat)
    /\ queue \in Seq(Letters) /\ mirror \in Seq(Nat)

\* The offset behind a frame, and the one behind the frame in hand.
Ahead(f) == f.offset + Len(f.data)
Stands == next_offset + Len(rest)

\* The first k frames of w carry the child's bytes from offset a up to offset b.
Carries(w, k, a, b) ==
    /\ \A i \in 1..k :
          /\ w[i].kind = "output"
          /\ w[i].offset = IF i = 1 THEN a ELSE Ahead(w[i - 1])
          /\ w[i].data = Bytes(w[i].offset, Ahead(w[i]))
    /\ b = IF k = 0 THEN a ELSE Ahead(w[k])

Following == fpc \in {"follow", "push"}

\* The frame that ends a connection, and what it means when it says so.
Signalled ==
    /\ cpc \in {"closed", "served"} /\ wire # <<>>
    /\ wire[Len(wire)].kind # "output"
    /\ wire[Len(wire)].kind = "end" => ~live /\ end_offset <= offset

\* The frame in hand and the frames on the wire lead from where the follower
\* stands to where the connection thread stands.
WireInv ==
    /\ source # "stream" \/ slot # "runtime" => closed
    /\ fpc \notin {"push", "done"} => rest = <<>>
    /\ Following =>
          /\ rest = Bytes(next_offset, Stands)
          /\ \/ Carries(wire, Len(wire), Stands, offset)
             \/ Signalled /\ Carries(wire, Len(wire) - 1, Stands, offset)

\* The checkpoint that is about to be restored is the one that was asked for.
RestoreInv == fpc = "restore" => reply.ok /\ reply.id = asked /\ reply.offset = next_offset

\* The offset the mirror stands at behind a message of the mailbox.
Behind(m) == IF m.kind = "restore" THEN Len(m.data) ELSE To(m.data)

\* The mailbox continues the mirror, one message after the other, a checkpoint
\* anew from the first byte; nothing comes behind the end.
MirrorInv ==
    /\ mirror = Bytes(0, Len(mirror))
    /\ \A i \in 1..Len(queue) :
          /\ queue[i].kind = "restore" => queue[i].data = Bytes(0, Len(queue[i].data))
          /\ queue[i].kind = "output" =>
                /\ queue[i].data \in Pieces
                /\ From(queue[i].data) = IF i = 1 THEN Len(mirror) ELSE Behind(queue[i - 1])
    /\ fpc \notin {"restore", "done"} =>
          next_offset = IF queue = <<>> THEN Len(mirror) ELSE Behind(queue[Len(queue)])

EofInv ==
    /\ \A i \in 1..Len(queue) : queue[i].kind = "eof" => i = Len(queue) /\ fpc = "done"
    /\ shown => queue = <<>> /\ fpc = "done"

\* Byte n is in the mirror or on its way there, behind every queued checkpoint or
\* in it.
Covered(n) ==
    \/ n \in Held(mirror) /\ Restores = {}
    \/ \E i \in Restores : n \in Held(queue[i].data)
    \/ \E i \in 1..Len(queue) :
          /\ queue[i].kind = "output" /\ n \in Held(queue[i].data)
          /\ \A r \in Restores : r < i

\* Every byte before next_offset is in the mirror or on its way; a link that ended
\* with the stream stands behind the last byte of it.
CoverInv ==
    /\ \A i, j \in Restores : i = j
    /\ link_end = "end" => fpc \in {"finish", "done"} /\ ~live /\ end_offset <= next_offset
    /\ link_end = "end" \/ fpc \notin {"restore", "done"} =>
          \A n \in 1..next_offset : Covered(n)

PaneInv ==
    /\ HostInv /\ PaneTypes /\ WireInv /\ RestoreInv
    /\ ~overwritten => MirrorInv
    /\ EofInv /\ CoverInv
-----------------------------------------------------------------------------
(***************************************************************************)
(* What the pane needs of the host                                         *)
(***************************************************************************)

\* Every step of the composed system is one of the host's, or none, for the host.
LEMMA PaneStepsAreHostSteps ==
    ASSUME [Next]_vars
    PROVE  HostStep /\ (HostNext \/ UNCHANGED hostVars \/ ConnectToAttach)
<1>1. CASE Host
  BY <1>1 DEF Host, HostStep
<1>2. CASE ServerThread \/ Keepalive
  BY <1>2 DEF ServerThread, OpenStream, SendSlice, WaitPast, Woken, Keepalive, HostStep
<1>3. CASE ConnectToAttach
  BY <1>3 DEF ConnectToAttach, HostStep
<1>4. CASE \/ ConnectToFollow \/ Attached \/ SendRestore \/ NextFrame
           \/ PushOutput \/ FinishLink \/ FollowerStops
  BY <1>4 DEF ConnectToFollow, Attached, SendRestore, NextFrame, PushOutput, FinishLink,
              FollowerStops, HostStep
<1>5. CASE LoseLink \/ HandleMessage \/ ClosePane
  BY <1>5 DEF LoseLink, HandleMessage, ClosePane, HostStep
<1>6. CASE UNCHANGED vars
  BY <1>6 DEF vars, HostStep
<1> QED
  BY <1>1, <1>2, <1>3, <1>4, <1>5, <1>6 DEF Next, FollowerThread

\* A closed inbox stays closed; a stream that ended stays ended, where it is; a
\* runtime is released when its session is completed.
LEMMA StreamOver ==
    ASSUME HostInv, HostStep
    PROVE  /\ closed => closed'
           /\ ~live => ~live' /\ end_offset' = end_offset
           /\ slot' # "runtime" => slot # "runtime" \/ closed
<1> USE DEF HostInv
<1>1. CASE Feed \/ FinalFeed
  <2>1. /\ UNCHANGED <<exited, reader_eof, drain_deadline, read, chunks, closed, spc, slot>>
        /\ FeedOne /\ spc \in {"feed", "final_feed"} /\ UNCHANGED <<rpc, chunk, retired>>
    BY <1>1 DEF Feed, FinalFeed, FeedOne, reader, inbox, ending, registry
  <2>2. ~closed /\ UNCHANGED live
    BY <2>1, ChunkFed
  <2>3. live
    BY <2>1, <2>2 DEF EndInv
  <2> QED
    BY <2>1, <2>2, <2>3
<1>2. CASE Finish \/ Complete \/ ReleaseTail
  BY <1>2 DEF Finish, Complete, ReleaseTail, inbox, stream, registry
<1>3. CASE DrainInbox \/ FinalSlice
  BY <1>3 DEF DrainInbox, FinalSlice, TakeSlice, stream, registry
<1>4. CASE ReleaseRuntime \/ SessionGone
  BY <1>4 DEF ReleaseRuntime, SessionGone, inbox, stream, EndInv
<1>5. CASE \/ \E n \in 1..ReadBytes : ReadPty(n)
           \/ Push \/ Notify \/ ReaderEnds \/ ChildEnds \/ SliceFed
  BY <1>5 DEF ReadPty, Push, Notify, ReaderEnds, ChildEnds, SliceFed, inbox, stream, registry
<1>6. CASE OnEof \/ OnChildExited \/ DrainDeadline \/ FinalNext
  <2>1. UNCHANGED <<inbox, stream, registry>>
    BY <1>6 DEF OnEof, OnChildExited, DrainDeadline, FinalNext
  <2> QED
    BY <2>1 DEF inbox, stream, registry
<1>7. CASE \/ ServeCheckpoint \/ UNCHANGED hostVars
           \/ AskCheckpoint /\ UNCHANGED <<reader, inbox, session, stream, registry>>
  BY <1>7 DEF ServeCheckpoint, hostVars, inbox, stream, registry
<1> QED
  BY <1>1, <1>2, <1>3, <1>4, <1>5, <1>6, <1>7 DEF HostStep, HostNext, ReaderThread, SessionThread

\* An answered checkpoint is not answered again.
LEMMA ReplyKept ==
    ASSUME HostInv, HostNext, reply.id = asked
    PROVE  UNCHANGED <<reply, asked>>
<1> USE DEF HostInv
<1>1. CASE ServeCheckpoint
  <2>1. PICK n \in 1..asked :
            /\ Arrived(Checkpoint(n))
            /\ n # asked => reply' = reply
    BY <1>1 DEF ServeCheckpoint
  <2>2. channel # <<>> /\ channel' = Tail(channel) /\ Head(channel) = Checkpoint(n)
    BY <2>1 DEF Arrived
  <2>3. Head(channel) = channel[1] /\ 1 \in DOMAIN channel
    BY <2>2, MessageTaken
  <2>4. n # asked
    BY <2>2, <2>3 DEF ReplyInv
  <2> QED
    BY <1>1, <2>1, <2>4 DEF ServeCheckpoint
<1>2. CASE ReleaseTail
  <2>1. Checkpoint(asked) \notin {channel[i] : i \in DOMAIN channel}
    BY DEF ReplyInv
  <2> QED
    BY <1>2, <2>1 DEF ReleaseTail
<1>3. CASE ~(ServeCheckpoint \/ ReleaseTail)
  BY <1>3 DEF HostNext, ReaderThread, SessionThread,
              ReadPty, Push, Notify, ReaderEnds, ChildEnds, DrainInbox, Feed, SliceFed, OnEof,
              OnChildExited, FinalSlice, FinalFeed, FinalNext, Finish, Complete, DrainDeadline,
              ReleaseRuntime, SessionGone, checkpoints
<1> QED
  BY <1>1, <1>2, <1>3

\* A run that is no longer than none is empty.
LEMMA NoBytes ==
    ASSUME NEW a \in Nat
    PROVE  Bytes(a, a) = <<>>
<1>1. a <= a /\ a - a = 0
  OBVIOUS
<1>2. Bytes(a, a) \in Seq(Nat) /\ Len(Bytes(a, a)) = a - a
  BY <1>1, BytesFacts
<1> QED
  BY <1>1, <1>2, NoLength

\* How far a read of a tail of l bytes goes that begins behind m of them.
LEMMA SliceBounds ==
    ASSUME NEW l \in Nat, NEW m \in Nat, m <= l, NEW max \in Nat
    PROVE  \E k \in Nat : k = Shorter(l, m + max) /\ m <= k /\ k <= l
<1>1. PICK x \in Nat : x = m + max /\ m <= x
  OBVIOUS
<1>2. CASE l < x
  BY <1>1, <1>2 DEF Shorter
<1>3. CASE ~(l < x)
  BY <1>1, <1>3 DEF Shorter
<1> QED
  BY <1>2, <1>3

\* A read that is not refused returns the bytes from the offset it was asked for.
LEMMA SliceIsRun ==
    ASSUME HostInv, NEW from \in Nat, NEW max \in Nat, ~Evicted(from)
    PROVE  \E d \in Nat : /\ Slice(from, max) = Bytes(from, d) /\ from <= d
                          /\ d <= from \/ d <= end_offset
<1>1. CASE released
  <2>1. Bytes(from, from) = <<>> /\ from <= from
    BY NoBytes
  <2> QED
    BY <1>1, <2>1 DEF Slice
<1>2. CASE ~released
  <2>1. tail.bytes = Bytes(tail.start, end_offset) /\ tail.start <= end_offset /\ tail \in Tails
    BY <1>2 DEF HostInv, ContentInv, TailExact, StreamTypes
  <2>2. PICK a \in Nat, e \in Nat : a = tail.start /\ e = end_offset
    BY <2>1 DEF HostInv, StreamTypes, Tails
  <2>3. a <= e
    BY <2>1, <2>2
  <2>4. PICK l \in Nat : l = e - a /\ l = Len(tail.bytes)
    <3>1. tail.bytes = Bytes(a, e)
      BY <2>1, <2>2
    <3>2. Len(Bytes(a, e)) = e - a
      BY <2>3, BytesFacts
    <3>3. e - a \in Nat
      BY <2>3
    <3> QED
      BY <3>1, <3>2, <3>3
  <2>5. a <= from /\ from <= e
    <3>1. ~(from < tail.start) /\ ~(from > tail.start + Len(tail.bytes))
      BY <1>2 DEF Evicted, TailEnd
    <3>2. ~(from < a) /\ ~(from > a + l)
      BY <2>2, <2>4, <3>1
    <3> QED
      BY <2>3, <2>4, <3>2
  <2>6. PICK m \in Nat : m = from - a /\ m <= l
    BY <2>4, <2>5
  <2>7. PICK k \in Nat : k = Shorter(l, m + max) /\ m <= k /\ k <= l
    BY <2>6, SliceBounds
  <2>8. PICK f \in Nat : f = m + 1
    OBVIOUS
  <2>9. PICK d \in Nat : d = a + k /\ from <= d /\ d <= e
    BY <2>4, <2>6, <2>7
  <2>10. Part(Bytes(a, e), f, k) = Bytes(from, d)
    <3>1. from + 1 = a + f
      BY <2>6, <2>8
    <3> QED
      BY <2>5, <2>9, <3>1, BytesPart
  <2>11. Slice(from, max) = Part(Bytes(a, e), f, k)
    <3>1. Slice(from, max) = SubSeq(tail.bytes, from - tail.start + 1,
                                    Shorter(Len(tail.bytes), from - tail.start + max))
      BY <1>2 DEF Slice
    <3> QED
      BY <2>1, <2>2, <2>4, <2>6, <2>7, <2>8, <3>1 DEF Part
  <2> QED
    BY <2>2, <2>9, <2>10, <2>11
<1> QED
  BY <1>1, <1>2
-----------------------------------------------------------------------------
(***************************************************************************)
(* Frames                                                                  *)
(***************************************************************************)

\* The parts of a frame.
LEMMA FrameFacts ==
    ASSUME NEW f \in Frames
    PROVE  /\ f.offset \in Nat /\ f.data \in Seq(Nat) /\ Len(f.data) \in Nat
           /\ Ahead(f) \in Nat /\ f.offset <= Ahead(f)
           /\ f.kind \in {"output", "end", "gone", "evicted"}
<1>1. /\ f.offset \in Nat /\ f.data \in Seq(Nat) /\ Len(f.data) \in Nat
      /\ f.kind \in {"output", "end", "gone", "evicted"}
  BY DEF Frames
<1>2. PICK x \in Nat, y \in Nat : x = f.offset /\ y = Len(f.data)
  BY <1>1
<1>3. Ahead(f) = x + y
  BY <1>2 DEF Ahead
<1> QED
  BY <1>1, <1>2, <1>3

\* An output frame with a run of bytes in it.
LEMMA RunFrame ==
    ASSUME NEW a \in Nat, NEW d \in Nat, a <= d
    PROVE  /\ Output(a, Bytes(a, d)) \in Frames /\ Output(a, Bytes(a, d)).kind = "output"
           /\ Output(a, Bytes(a, d)).offset = a /\ Ahead(Output(a, Bytes(a, d))) = d
           /\ Output(a, Bytes(a, d)).data = Bytes(a, d)
<1>1. PICK s : s = Bytes(a, d)
  OBVIOUS
<1>2. s \in Seq(Nat) /\ Len(s) = d - a
  BY <1>1, BytesFacts
<1>3. /\ Output(a, s) \in Frames /\ Output(a, s).kind = "output" /\ Output(a, s).offset = a
      /\ Output(a, s).data = s
  BY <1>2 DEF Output, Frames
<1>4. Ahead(Output(a, s)) = d
  BY <1>2, <1>3 DEF Ahead
<1> QED
  BY <1>1, <1>3, <1>4

\* A frame without bytes.
LEMMA SignalFrame ==
    ASSUME NEW k \in {"end", "gone", "evicted"}
    PROVE  Signal(k) \in Frames /\ Signal(k).kind = k
<1>1. <<>> \in Seq(Nat)
  OBVIOUS
<1> QED
  BY <1>1 DEF Signal, Frames

\* What is carried depends on the frames that carry it.
LEMMA CarriesSame ==
    ASSUME NEW w, NEW v, NEW k \in Nat, NEW a, NEW b, Carries(w, k, a, b),
           \A i \in 1..k : v[i] = w[i]
    PROVE  Carries(v, k, a, b)
<1>1. ASSUME NEW i \in 1..k
      PROVE  /\ v[i].kind = "output"
             /\ v[i].offset = IF i = 1 THEN a ELSE Ahead(v[i - 1])
             /\ v[i].data = Bytes(v[i].offset, Ahead(v[i]))
  <2>1. i = 1 \/ i - 1 \in 1..k
    OBVIOUS
  <2> QED
    BY <2>1 DEF Carries
<1>2. b = IF k = 0 THEN a ELSE Ahead(v[k])
  BY DEF Carries
<1> QED
  BY <1>1, <1>2 DEF Carries

\* No frame carries nothing.
LEMMA CarriesNone ==
    ASSUME NEW w, NEW a
    PROVE  Carries(w, 0, a, a)
BY DEF Carries

\* Another frame carries on.
LEMMA CarriesMore ==
    ASSUME NEW w, NEW k \in Nat, NEW a, NEW b, Carries(w, k, a, b),
           w[k + 1].kind = "output", w[k + 1].offset = b,
           w[k + 1].data = Bytes(w[k + 1].offset, Ahead(w[k + 1]))
    PROVE  Carries(w, k + 1, a, Ahead(w[k + 1]))
<1>1. ASSUME NEW i \in 1..(k + 1)
      PROVE  /\ w[i].kind = "output"
             /\ w[i].offset = IF i = 1 THEN a ELSE Ahead(w[i - 1])
             /\ w[i].data = Bytes(w[i].offset, Ahead(w[i]))
  <2>1. CASE i \in 1..k
    BY <2>1 DEF Carries
  <2>2. CASE i = k + 1
    BY <2>2 DEF Carries
  <2> QED
    BY <2>1, <2>2
<1>2. k + 1 # 0
  OBVIOUS
<1> QED
  BY <1>1, <1>2 DEF Carries

\* Without the first frame the rest carries on from behind it.
LEMMA CarriesRest ==
    ASSUME NEW w, NEW v, NEW k \in Nat, NEW a, NEW b, Carries(w, k + 1, a, b),
           \A i \in 1..k : v[i] = w[i + 1]
    PROVE  /\ w[1].kind = "output" /\ w[1].offset = a /\ w[1].data = Bytes(a, Ahead(w[1]))
           /\ Carries(v, k, Ahead(w[1]), b)
<1>1. w[1].kind = "output" /\ w[1].offset = a /\ w[1].data = Bytes(a, Ahead(w[1]))
  <2>1. 1 \in 1..(k + 1)
    OBVIOUS
  <2> QED
    BY <2>1 DEF Carries
<1>2. ASSUME NEW i \in 1..k
      PROVE  /\ v[i].kind = "output"
             /\ v[i].offset = IF i = 1 THEN Ahead(w[1]) ELSE Ahead(v[i - 1])
             /\ v[i].data = Bytes(v[i].offset, Ahead(v[i]))
  <2>1. PICK j \in 1..(k + 1) : j = i + 1 /\ j # 1 /\ j - 1 = i
    OBVIOUS
  <2>2. v[i] = w[j] /\ w[j].offset = Ahead(w[i])
    BY <2>1 DEF Carries
  <2>3. i = 1 \/ (i - 1 \in 1..k /\ v[i - 1] = w[i])
    BY \A m \in 1..k : v[m] = w[m + 1], i = 1 \/ i - 1 \in 1..k
  <2> QED
    BY <2>1, <2>2, <2>3 DEF Carries
<1>3. b = IF k = 0 THEN Ahead(w[1]) ELSE Ahead(v[k])
  <2>1. b = Ahead(w[k + 1])
    BY DEF Carries
  <2>2. k = 0 \/ v[k] = w[k + 1]
    OBVIOUS
  <2> QED
    BY <2>1, <2>2
<1> QED
  BY <1>1, <1>2, <1>3 DEF Carries

\* A frame that is sent stands last on the wire.
LEMMA FrameSent ==
    ASSUME NEW w \in Seq(Frames), NEW f \in Frames
    PROVE  /\ Append(w, f) \in Seq(Frames) /\ Len(Append(w, f)) = Len(w) + 1 /\ Len(w) \in Nat
           /\ Append(w, f)[Len(w) + 1] = f /\ Append(w, f) # <<>>
           /\ \A i \in 1..Len(w) : Append(w, f)[i] = w[i]
OBVIOUS

\* The bytes a connection reads begin where it stands.
LEMMA ReadIsRun ==
    ASSUME HostInv, offset \in Nat, ~Refused
    PROVE  \E d \in Nat : /\ SliceNow = Bytes(offset, d) /\ offset <= d /\ offset + Len(SliceNow) = d
                          /\ d <= offset \/ d <= end_offset
<1>1. PICK d \in Nat : SliceNow = Bytes(offset, d) /\ offset <= d /\ (d <= offset \/ d <= end_offset)
  <2>1. CASE source = "stream"
    <3>1. ~Evicted(offset) /\ FrameBytes \in Nat
      BY <2>1, FollowerAssumption DEF Refused
    <3>2. \E d \in Nat : /\ Slice(offset, FrameBytes) = Bytes(offset, d) /\ offset <= d
                         /\ d <= offset \/ d <= end_offset
      BY <3>1, SliceIsRun
    <3> QED
      BY <2>1, <3>2 DEF SliceNow
  <2>2. CASE source # "stream"
    <3>1. Bytes(offset, offset) = <<>> /\ offset <= offset
      BY NoBytes
    <3> QED
      BY <2>2, <3>1 DEF SliceNow
  <2> QED
    BY <2>1, <2>2
<1>2. Len(Bytes(offset, d)) = d - offset
  BY <1>1, BytesFacts
<1> QED
  BY <1>1, <1>2

\* One turn of the connection thread: it refuses, or it sends a run of bytes or
\* nothing, and the end behind it.
LEMMA SliceSent ==
    ASSUME HostInv, PaneTypes, SendSlice
    PROVE  /\ cpc = "read"
           /\ \/ offset' = offset /\ cpc' = "closed" /\ wire' = Append(wire, Signal("evicted"))
              \/ \E d \in Nat, w \in Seq(Frames) :
                    /\ offset <= d /\ offset' = d /\ (d <= offset \/ d <= end_offset)
                    /\ (w = wire /\ d = offset) \/ w = Append(wire, Output(offset, Bytes(offset, d)))
                    /\ wire' = w \/ (wire' = Append(w, Signal("end")) /\ cpc' = "served" /\ AtEnd(d))
<1>1. CASE Refused
  BY <1>1 DEF SendSlice
<1>2. CASE ~Refused
  <2>0. offset \in Nat /\ wire \in Seq(Frames)
    BY DEF PaneTypes
  <2>1. PICK d \in Nat : /\ SliceNow = Bytes(offset, d) /\ offset <= d /\ offset + Len(SliceNow) = d
                         /\ d <= offset \/ d <= end_offset
    BY <1>2, <2>0, ReadIsRun
  <2>2. PICK w : w = IF SliceNow = <<>> THEN wire ELSE Append(wire, Output(offset, SliceNow))
    OBVIOUS
  <2>3. /\ offset' = d /\ cpc = "read"
        /\ wire' = IF AtEnd(d) THEN Append(w, Signal("end")) ELSE w
        /\ AtEnd(d) => cpc' = "served"
    BY <1>2, <2>1, <2>2 DEF SendSlice
  <2>4. w \in Seq(Frames) /\ ((w = wire /\ d = offset) \/ w = Append(wire, Output(offset, Bytes(offset, d))))
    <3>1. CASE SliceNow = <<>>
      <4>1. Len(SliceNow) = 0
        BY <3>1
      <4>2. d = offset
        BY <2>0, <2>1, <4>1
      <4> QED
        BY <2>0, <2>2, <3>1, <4>2
    <3>2. CASE SliceNow # <<>>
      <4>1. Output(offset, Bytes(offset, d)) \in Frames
        BY <2>0, <2>1, RunFrame
      <4>2. w = Append(wire, Output(offset, Bytes(offset, d)))
        BY <2>1, <2>2, <3>2
      <4> QED
        BY <2>0, <4>1, <4>2, FrameSent
    <3> QED
      BY <3>1, <3>2
  <2> QED
    BY <2>1, <2>3, <2>4
<1> QED
  BY <1>1, <1>2
-----------------------------------------------------------------------------
(***************************************************************************)
(* The follower thread                                                     *)
(***************************************************************************)

\* Where a follower stands that has no frame in hand, and one with a run in hand.
LEMMA StandsAt ==
    ASSUME next_offset \in Nat
    PROVE  /\ rest = <<>> => Stands = next_offset /\ rest = Bytes(next_offset, Stands)
           /\ \A d \in Nat : next_offset <= d /\ rest = Bytes(next_offset, d) => Stands = d
<1>1. rest = <<>> => Stands = next_offset
  BY Len(<<>>) = 0 DEF Stands
<1>2. Bytes(next_offset, next_offset) = <<>>
  BY NoBytes
<1>3. ASSUME NEW d \in Nat, next_offset <= d, rest = Bytes(next_offset, d) PROVE Stands = d
  <2>1. Len(rest) = d - next_offset
    BY <1>3, BytesFacts
  <2> QED
    BY <1>3, <2>1 DEF Stands
<1> QED
  BY <1>1, <1>2, <1>3

\* The rest of a frame from its first byte on is the frame.
LEMMA WholeFrame ==
    ASSUME NEW s \in Seq(Nat), NEW n \in Nat, n = 1
    PROVE  SubSeq(s, n, Len(s)) = s
BY SubSeqFull

\* A frame that is taken off the wire.
LEMMA FrameOff ==
    ASSUME NEW w \in Seq(Frames), w # <<>>
    PROVE  \E k \in Nat : /\ Len(w) = k + 1 /\ Len(Tail(w)) = k /\ Tail(w) \in Seq(Frames)
                          /\ Head(w) = w[1] /\ w[1] \in Frames
                          /\ \A i \in 1..k : Tail(w)[i] = w[i + 1]
                          /\ k # 0 => Tail(w) # <<>>
<1>1. PICK k \in Nat : Len(w) = k + 1
  <2>1. Len(w) \in Nat /\ Len(w) # 0
    OBVIOUS
  <2> QED
    BY <2>1, Len(w) - 1 \in Nat
<1>2. /\ Len(Tail(w)) = k /\ Tail(w) \in Seq(Frames) /\ Head(w) = w[1] /\ w[1] \in Frames
  BY <1>1
<1>3. \A i \in 1..k : Tail(w)[i] = w[i + 1]
  BY <1>1
<1>4. k # 0 => Tail(w) # <<>>
  BY <1>2
<1> QED
  BY <1>1, <1>2, <1>3, <1>4

\* The next frame begins where the follower stands, or it is the signal behind the
\* last one.
LEMMA FrameTaken ==
    ASSUME PaneTypes, WireInv, NextFrame
    PROVE  /\ wire' \in Seq(Frames) /\ rest = <<>> /\ next_offset' = next_offset
           /\ \/ /\ fpc' = "push" /\ link_end' = link_end
                 /\ \E d \in Nat : /\ next_offset <= d /\ rest' = Bytes(next_offset, d)
                                   /\ \/ Carries(wire', Len(wire'), d, offset)
                                      \/ Signalled' /\ Carries(wire', Len(wire') - 1, d, offset)
              \/ fpc' = "connect" /\ link_end' = link_end /\ rest' = <<>>
              \/ /\ fpc' = "finish" /\ rest' = <<>>
                 /\ link_end' = "end" => ~live /\ end_offset <= next_offset
<1>1. /\ fpc = "follow" /\ wire # <<>> /\ wire' = Tail(wire) /\ rest = <<>> /\ Following
      /\ UNCHANGED <<hostVars, cpc, source, offset, next_offset>>
  BY DEF NextFrame, WireInv, Following, server
<1>2. /\ next_offset \in Nat /\ wire \in Seq(Frames) /\ Stands = next_offset /\ offset \in Nat
  BY <1>1, StandsAt DEF PaneTypes
<1>3. PICK k \in Nat : /\ Len(wire) = k + 1 /\ Len(wire') = k /\ wire' \in Seq(Frames)
                       /\ Head(wire) = wire[1] /\ wire[1] \in Frames
                       /\ \A i \in 1..k : wire'[i] = wire[i + 1]
                       /\ k # 0 => wire' # <<>>
  BY <1>1, <1>2, FrameOff
<1>4. PICK f \in Frames : f = wire[1]
  BY <1>3
<1>5. CASE f.kind = "output"
  <2>1. /\ OnOutput(f)
    BY <1>3, <1>4, <1>5 DEF NextFrame, OnEvicted, OnEnd
  <2>2. /\ f.offset = next_offset /\ f.data = Bytes(next_offset, Ahead(f))
        /\ \/ Carries(wire', Len(wire'), Ahead(f), offset)
           \/ Signalled' /\ Carries(wire', Len(wire') - 1, Ahead(f), offset)
    <3>1. CASE Carries(wire, Len(wire), Stands, offset)
      <4>1. Carries(wire, k + 1, next_offset, offset)
        BY <1>2, <1>3, <3>1
      <4>2. /\ f.offset = next_offset /\ f.data = Bytes(next_offset, Ahead(f))
            /\ Carries(wire', k, Ahead(f), offset)
        BY <1>3, <1>4, <4>1, CarriesRest
      <4> QED
        BY <1>3, <4>2
    <3>2. CASE Signalled /\ Carries(wire, Len(wire) - 1, Stands, offset)
      <4>1. k # 0
        BY <1>3, <1>4, <1>5, <3>2 DEF Signalled
      <4>2. PICK j \in Nat : k = j + 1
        BY <4>1, k - 1 \in Nat
      <4>3. Carries(wire, j + 1, next_offset, offset)
        <5>1. Len(wire) - 1 = j + 1
          BY <1>3, <4>2
        <5> QED
          BY <1>2, <3>2, <5>1
      <4>4. \A i \in 1..j : wire'[i] = wire[i + 1]
        BY <1>3, <4>2
      <4>5. /\ f.offset = next_offset /\ f.data = Bytes(next_offset, Ahead(f))
            /\ Carries(wire', j, Ahead(f), offset)
        BY <1>4, <4>3, <4>4, CarriesRest
      <4>6. Len(wire') - 1 = j
        BY <1>3, <4>2
      <4>7. wire'[Len(wire')] = wire[Len(wire)] /\ wire' # <<>>
        BY <1>3, <4>1
      <4>8. UNCHANGED <<live, end_offset>>
        BY <1>1 DEF hostVars, stream
      <4>9. Signalled'
        BY <1>1, <3>2, <4>7, <4>8 DEF Signalled
      <4> QED
        BY <4>5, <4>6, <4>9
    <3> QED
      BY <1>1, <3>1, <3>2 DEF WireInv
  <2>3. /\ Ahead(f) \in Nat /\ next_offset <= Ahead(f) /\ f.data \in Seq(Nat)
    BY <2>2, FrameFacts
  <2>4. fpc' = "push" /\ rest' = f.data /\ link_end' = link_end
    <3>1. ~(f.offset > next_offset)
      BY <1>2, <2>2
    <3>2. /\ rest' = SubSeq(f.data, next_offset - f.offset + 1, Len(f.data))
          /\ fpc' = "push" /\ link_end' = link_end
      BY <2>1, <3>1 DEF OnOutput
    <3>3. next_offset - f.offset + 1 = 1
      BY <1>2, <2>2
    <3>4. SubSeq(f.data, 1, Len(f.data)) = f.data
      BY <2>3, WholeFrame
    <3> QED
      BY <3>2, <3>3, <3>4
  <2> QED
    BY <1>1, <1>3, <2>2, <2>3, <2>4
<1>6. CASE f.kind # "output"
  <2>1. Signalled /\ k = 0 /\ offset = next_offset
    <3>1. ~Carries(wire, k + 1, Stands, offset)
      BY <1>4, <1>6, 1 \in 1..(k + 1) DEF Carries
    <3>2. Signalled /\ Carries(wire, k, Stands, offset)
      <4>1. Len(wire) - 1 = k
        BY <1>3
      <4> QED
        BY <1>1, <1>3, <3>1, <4>1 DEF WireInv
    <3>3. k = 0
      <4>1. k # 0 => 1 \in 1..k
        OBVIOUS
      <4> QED
        BY <1>4, <1>6, <3>2, <4>1 DEF Carries
    <3> QED
      BY <1>2, <3>2, <3>3 DEF Carries
  <2>2. f.kind = "end" => ~live /\ end_offset <= next_offset
    BY <1>3, <1>4, <2>1 DEF Signalled
  <2>3. OnEvicted(f) \/ OnEnd(f)
    BY <1>3, <1>4, <1>6 DEF NextFrame, OnOutput
  <2>4. CASE OnEvicted(f)
    BY <1>1, <1>3, <2>4 DEF OnEvicted
  <2>5. CASE OnEnd(f)
    BY <1>1, <1>3, <2>2, <2>5 DEF OnEnd
  <2> QED
    BY <2>3, <2>4, <2>5
<1> QED
  BY <1>5, <1>6

\* A run of l bytes from a on, cut behind n of them.
LEMMA RunCut ==
    ASSUME NEW a \in Nat, NEW d \in Nat, NEW m \in Nat, a < m, m <= d, NEW n \in Nat, m = a + n,
           NEW l \in Nat, d = a + l
    PROVE  Part(Bytes(a, d), 1, n) = Bytes(a, m) /\ Part(Bytes(a, d), n + 1, l) = Bytes(m, d)
<1>1. Part(Bytes(a, d), 1, n) = Bytes(a, m)
  <2>1. 1 \in Nat /\ a + 1 = a + 1 /\ a <= a /\ a <= m
    OBVIOUS
  <2> QED
    BY <2>1, BytesPart
<1>2. PICK i \in Nat : i = n + 1
  OBVIOUS
<1>3. m + 1 = a + i /\ a <= m /\ d <= d
  BY <1>2
<1>4. Part(Bytes(a, d), i, l) = Bytes(m, d)
  BY <1>3, BytesEnd
<1> QED
  BY <1>1, <1>2, <1>4

\* push_host_output of one buffer: the next bytes go into the mailbox.
LEMMA BufferPushed ==
    ASSUME PaneTypes, WireInv, PushOutput, rest # <<>>
    PROVE  /\ fpc = "push" /\ fpc' = "push"
           /\ \E m \in Nat, d \in Nat :
                 /\ next_offset < m /\ m <= d /\ d = Stands
                 /\ next_offset' = m /\ rest' = Bytes(m, d)
                 /\ queue' = Append(queue, [kind |-> "output", data |-> Bytes(next_offset, m)])
<1>1. PICK a \in Nat, l \in Nat : a = next_offset /\ l = Len(rest) /\ l > 0
  <2>1. rest \in Seq(Nat) /\ next_offset \in Nat
    BY DEF PaneTypes
  <2> QED
    BY <2>1
<1>2. PICK d \in Nat : d = a + l /\ d = Stands
  BY <1>1 DEF Stands
<1>3. fpc = "push" /\ fpc' = "push" /\ rest = Bytes(a, d)
  BY <1>1, <1>2 DEF PushOutput, WireInv, Following
<1>4. PICK n \in Nat : n = Shorter(BufferBytes, l) /\ 0 < n /\ n <= l
  BY <1>1, FollowerAssumption DEF Shorter
<1>5. /\ queue' = Append(queue, [kind |-> "output", data |-> Part(Bytes(a, d), 1, n)])
      /\ rest' = Part(Bytes(a, d), n + 1, l)
      /\ next_offset' = a + n
  BY <1>1, <1>3, <1>4 DEF PushOutput, Part
<1>6. PICK m \in Nat : m = a + n /\ a < m /\ m <= d
  BY <1>2, <1>4
<1>7. Part(Bytes(a, d), 1, n) = Bytes(a, m) /\ Part(Bytes(a, d), n + 1, l) = Bytes(m, d)
  BY <1>2, <1>6, RunCut
<1> QED
  BY <1>1, <1>2, <1>3, <1>5, <1>6, <1>7
-----------------------------------------------------------------------------
(***************************************************************************)
(* The mailbox                                                             *)
(***************************************************************************)

\* A message goes into the mailbox.
LEMMA LetterSent ==
    ASSUME NEW q \in Seq(Letters), NEW m \in Letters
    PROVE  /\ Append(q, m) \in Seq(Letters) /\ Len(Append(q, m)) = Len(q) + 1 /\ Len(q) \in Nat
           /\ Append(q, m)[Len(q) + 1] = m /\ Append(q, m) # <<>>
           /\ \A i \in 1..Len(q) : Append(q, m)[i] = q[i]
           /\ DOMAIN q = 1..Len(q) /\ DOMAIN Append(q, m) = 1..(Len(q) + 1)
OBVIOUS

\* A message is taken out of it.
LEMMA LetterOff ==
    ASSUME NEW q \in Seq(Letters), q # <<>>
    PROVE  \E k \in Nat : /\ Len(q) = k + 1 /\ Len(Tail(q)) = k /\ Tail(q) \in Seq(Letters)
                          /\ Head(q) = q[1] /\ q[1] \in Letters
                          /\ \A i \in 1..k : Tail(q)[i] = q[i + 1]
                          /\ k # 0 <=> Tail(q) # <<>>
                          /\ DOMAIN q = 1..(k + 1) /\ DOMAIN Tail(q) = 1..k
<1>1. PICK k \in Nat : Len(q) = k + 1
  <2>1. Len(q) \in Nat /\ Len(q) # 0
    OBVIOUS
  <2> QED
    BY <2>1, Len(q) - 1 \in Nat
<1>2. /\ Len(Tail(q)) = k /\ Tail(q) \in Seq(Letters) /\ Head(q) = q[1] /\ q[1] \in Letters
  BY <1>1
<1>3. \A i \in 1..k : Tail(q)[i] = q[i + 1]
  BY <1>1
<1>4. k # 0 <=> Tail(q) # <<>>
  BY <1>2, NoLength
<1>5. DOMAIN q = 1..(k + 1) /\ DOMAIN Tail(q) = 1..k
  BY <1>1, <1>2
<1> QED
  BY <1>1, <1>2, <1>3, <1>4, <1>5

\* The parts of a message.
LEMMA LetterFacts ==
    ASSUME NEW k \in {"output", "restore", "eof"}, NEW s \in Seq(Nat)
    PROVE  /\ [kind |-> k, data |-> s] \in Letters
           /\ [kind |-> k, data |-> s].kind = k /\ [kind |-> k, data |-> s].data = s
BY DEF Letters

\* A checkpoint that is sent to the worker: it stands for the bytes before
\* next_offset, in the place of the one that waits or behind everything.
LEMMA RestoreSent ==
    ASSUME HostInv, PaneTypes, RestoreInv, SendRestore
    PROVE  /\ Restore \in Letters /\ Restore.kind = "restore"
           /\ Restore.data = Bytes(0, next_offset) /\ Len(Restore.data) = next_offset
           /\ queue' \in Seq(Letters)
           /\ \/ /\ Restores # {} /\ overwritten' /\ Len(queue') = Len(queue)
                 /\ \A i \in 1..Len(queue) :
                       queue'[i] = IF i \in Restores THEN Restore ELSE queue[i]
              \/ Restores = {} /\ queue' = Append(queue, Restore) /\ overwritten' = overwritten
<1>1. /\ reply.snapshot = Bytes(0, next_offset) /\ next_offset \in Nat /\ queue \in Seq(Letters)
      /\ reply.snapshot \in Seq(Nat)
  BY DEF HostInv, ReplyInv, StreamTypes, RestoreInv, SendRestore, PaneTypes
<1>2. Restore \in Letters /\ Restore.kind = "restore" /\ Restore.data = Bytes(0, next_offset)
  BY <1>1, LetterFacts DEF Restore
<1>3. Len(Restore.data) = next_offset
  <2>1. 0 \in Nat /\ 0 <= next_offset /\ next_offset - 0 = next_offset
    BY <1>1
  <2>2. Len(Bytes(0, next_offset)) = next_offset - 0
    BY <1>1, <2>1, BytesFacts
  <2> QED
    BY <1>2, <2>1, <2>2
<1>4. CASE Restores # {} 
  <2>1. /\ queue' = [i \in DOMAIN queue |-> IF i \in Restores THEN Restore ELSE queue[i]]
        /\ overwritten'
    BY <1>4 DEF SendRestore
  <2>2. DOMAIN queue = 1..Len(queue) /\ Len(queue) \in Nat
    BY <1>1
  <2>3. \A i \in 1..Len(queue) : (IF i \in Restores THEN Restore ELSE queue[i]) \in Letters
    BY <1>1, <1>2
  <2>4. [i \in 1..Len(queue) |-> IF i \in Restores THEN Restore ELSE queue[i]] \in Seq(Letters)
    BY <2>2, <2>3
  <2>5. /\ queue' \in Seq(Letters) /\ Len(queue') = Len(queue)
        /\ \A i \in 1..Len(queue) : queue'[i] = IF i \in Restores THEN Restore ELSE queue[i]
    BY <2>1, <2>2, <2>4
  <2> QED
    BY <1>2, <1>3, <1>4, <2>1, <2>5
<1>5. CASE Restores = {}
  <2>1. queue' = Append(queue, Restore) /\ overwritten' = overwritten
    BY <1>5 DEF SendRestore
  <2> QED
    BY <1>1, <1>2, <1>3, <1>5, <2>1, LetterSent
<1> QED
  BY <1>4, <1>5

\* Types are kept.
LEMMA PaneTypesStep ==
    ASSUME PaneInv, [Next]_vars
    PROVE  PaneTypes'
<1> USE DEF PaneInv
<1>0. /\ offset \in Nat /\ next_offset \in Nat /\ wire \in Seq(Frames) /\ rest \in Seq(Nat)
      /\ queue \in Seq(Letters) /\ mirror \in Seq(Nat)
      /\ <<>> \in Seq(Frames) /\ <<>> \in Seq(Nat)
  BY DEF PaneTypes
<1>1. CASE OpenStream
  <2>1. Append(wire, Signal("gone")) \in Seq(Frames)
    BY <1>0, SignalFrame, FrameSent
  <2> QED
    BY <1>0, <1>1, <2>1 DEF OpenStream, PaneTypes, follower, mailbox, worker
<1>2. CASE SendSlice
  <2>1. offset' \in Nat /\ wire' \in Seq(Frames)
    <3>1. Signal("evicted") \in Frames /\ Signal("end") \in Frames
      BY SignalFrame
    <3>2. CASE offset' = offset /\ wire' = Append(wire, Signal("evicted"))
      BY <1>0, <3>1, <3>2, FrameSent
    <3>3. ASSUME NEW w \in Seq(Frames), offset' \in Nat,
                 wire' = w \/ wire' = Append(w, Signal("end"))
          PROVE  offset' \in Nat /\ wire' \in Seq(Frames)
      BY <3>1, <3>3, FrameSent
    <3> QED
      BY <1>2, <3>2, <3>3, SliceSent
  <2> QED
    BY <1>0, <1>2, <2>1 DEF SendSlice, PaneTypes, follower, mailbox, worker
<1>3. CASE WaitPast \/ Woken \/ Keepalive \/ ConnectToAttach \/ UNCHANGED vars \/ Host \/ ClosePane
  BY <1>0, <1>3 DEF WaitPast, Woken, Keepalive, ConnectToAttach, vars, Host, ClosePane, paneVars,
                    PaneTypes, server, follower, mailbox, worker
<1>4. CASE ConnectToFollow
  BY <1>0, <1>4 DEF ConnectToFollow, Follow, PaneTypes, mailbox, worker
<1>5. CASE Attached
  <2>1. next_offset' \in Nat
    BY <1>0, <1>5 DEF Attached, HostInv, StreamTypes
  <2> QED
    BY <1>0, <1>5, <2>1 DEF Attached, PaneTypes, server, mailbox, worker
<1>6. CASE SendRestore
  <2>1. queue' \in Seq(Letters)
    BY <1>6, RestoreSent
  <2> QED
    BY <1>0, <1>6, <2>1 DEF SendRestore, Follow, PaneTypes, worker
<1>7. CASE NextFrame
  <2>1. rest' \in Seq(Nat) /\ wire' \in Seq(Frames)
    <3>1. ASSUME NEW d \in Nat, next_offset <= d, rest' = Bytes(next_offset, d)
          PROVE  rest' \in Seq(Nat)
      BY <1>0, <3>1, BytesFacts
    <3> QED
      BY <1>0, <1>7, <3>1, FrameTaken
  <2> QED
    BY <1>0, <1>7, <2>1 DEF NextFrame, PaneTypes, server, mailbox, worker
<1>8. CASE PushOutput
  <2>1. CASE rest = <<>>
    BY <1>0, <1>8, <2>1 DEF PushOutput, PaneTypes, server, worker
  <2>2. CASE rest # <<>>
    <3>1. PICK m \in Nat, d \in Nat :
                 /\ next_offset < m /\ m <= d
                 /\ next_offset' = m /\ rest' = Bytes(m, d)
                 /\ queue' = Append(queue, [kind |-> "output", data |-> Bytes(next_offset, m)])
      BY <1>8, <2>2, BufferPushed
    <3>2. Bytes(m, d) \in Seq(Nat) /\ Bytes(next_offset, m) \in Seq(Nat)
      BY <1>0, <3>1, next_offset <= m, BytesFacts
    <3>3. queue' \in Seq(Letters)
      BY <1>0, <3>1, <3>2, LetterFacts, LetterSent
    <3> QED
      BY <1>0, <1>8, <3>1, <3>2, <3>3 DEF PushOutput, PaneTypes, server, worker
  <2> QED
    BY <2>1, <2>2
<1>9. CASE FinishLink
  <2>1. queue' \in Seq(Letters)
    <3>1. [kind |-> "eof", data |-> <<>>] \in Letters
      BY <1>0, LetterFacts
    <3> QED
      BY <1>0, <1>9, <3>1, LetterSent DEF FinishLink
  <2> QED
    BY <1>0, <1>9, <2>1 DEF FinishLink, Hangup, PaneTypes, worker
<1>10. CASE LoseLink \/ FollowerStops
  BY <1>0, <1>10 DEF LoseLink, FollowerStops, Hangup, PaneTypes, mailbox, worker
<1>11. CASE HandleMessage
  <2>1. queue' = Tail(queue) /\ queue # <<>>
    BY <1>11 DEF HandleMessage
  <2>2. Tail(queue) \in Seq(Letters) /\ Head(queue) \in Letters
    BY <1>0, <2>1, LetterOff
  <2>3. Head(queue).data \in Seq(Nat)
    BY <2>2 DEF Letters
  <2>4. mirror' \in Seq(Nat)
    <3>1. mirror' = mirror \o Head(queue).data \/ mirror' = Head(queue).data \/ mirror' = mirror
      BY <1>11 DEF HandleMessage
    <3>2. PICK y \in Seq(Nat) : y = Head(queue).data
      BY <2>3
    <3>3. mirror \o y \in Seq(Nat)
      <4>1. mirror \in Seq(Nat) /\ y \in Seq(Nat)
        BY <1>0
      <4> QED
        BY <4>1
    <3> QED
      BY <1>0, <3>1, <3>2, <3>3
  <2> QED
    BY <1>0, <1>11, <2>1, <2>2, <2>4 DEF HandleMessage, PaneTypes, server, follower
<1> QED
  BY <1>1, <1>2, <1>3, <1>4, <1>5, <1>6, <1>7, <1>8, <1>9, <1>10, <1>11
     DEF Next, ServerThread, FollowerThread

\* No bytes in hand move nobody on.
LEMMA NothingInHand ==
    ASSUME NEW x \in Nat, NEW s, s = <<>>
    PROVE  x + Len(s) = x
OBVIOUS

\* The wire leads on from where the follower stands.
LEMMA WireStep ==
    ASSUME PaneInv, [Next]_vars
    PROVE  WireInv'
<1> USE DEF PaneInv
<1>0. /\ offset \in Nat /\ next_offset \in Nat /\ wire \in Seq(Frames) /\ rest \in Seq(Nat)
      /\ next_offset' \in Nat /\ wire' \in Seq(Frames) /\ offset' \in Nat
  BY PaneTypesStep DEF PaneTypes
<1>h. /\ closed => closed'
      /\ ~live => ~live' /\ end_offset' = end_offset
      /\ slot' # "runtime" => slot # "runtime" \/ closed
  BY PaneStepsAreHostSteps, StreamOver
<1>s. (source # "stream" \/ slot # "runtime" => closed)'
  <2>1. source' # "stream" => source # "stream" \/ slot # "runtime"
    <3>1. CASE OpenStream
      BY <3>1 DEF OpenStream
    <3>2. CASE \/ SendSlice \/ WaitPast \/ Woken \/ Keepalive \/ LoseLink \/ HandleMessage \/ ClosePane
               \/ UNCHANGED vars \/ Host
      BY <3>2 DEF SendSlice, WaitPast, Woken, Keepalive, LoseLink, HandleMessage, ClosePane, vars,
                  Host, paneVars, server
    <3>3. CASE FollowerThread
      BY <3>3 DEF FollowerThread, ConnectToFollow, ConnectToAttach, Attached, SendRestore, NextFrame,
                  PushOutput, FinishLink, FollowerStops, server
    <3> QED
      BY <3>1, <3>2, <3>3 DEF Next, ServerThread
  <2> QED
    BY <1>h, <2>1 DEF WireInv
<1>a. ASSUME UNCHANGED <<wire, next_offset, rest, offset, fpc>>, cpc \notin {"closed", "served"} \/ cpc' = cpc
      PROVE  WireInv'
  <2>1. Stands' = Stands
    BY <1>a DEF Stands
  <2>2. Signalled => Signalled'
    BY <1>a, <1>h DEF Signalled
  <2> QED
    BY <1>a, <1>s, <2>1, <2>2 DEF WireInv, Following
<1>b. ASSUME ~Following', fpc' = "done" \/ (rest' = rest /\ fpc # "push" /\ fpc # "done")
      PROVE  WireInv'
  BY <1>b, <1>s DEF WireInv
<1>c. ASSUME Follow(next_offset), UNCHANGED <<rest, next_offset>>, fpc \in {"connect", "restore"}
      PROVE  WireInv'
  <2>1. rest' = <<>> /\ wire' = <<>> /\ offset' = next_offset' /\ Len(<<>>) = 0
    BY <1>c DEF Follow, WireInv
  <2>2. Stands' = next_offset' /\ rest' = Bytes(next_offset', Stands')
    <3>1. Bytes(next_offset', next_offset') = <<>>
      BY <1>0, NoBytes
    <3>2. Stands' = next_offset'
      <4>1. Stands' = next_offset' + Len(rest')
        BY DEF Stands
      <4> QED
        BY <1>0, <2>1, <4>1, NothingInHand
    <3> QED
      BY <2>1, <3>1, <3>2
  <2>3. Carries(wire', Len(wire'), Stands', offset')
    BY <2>1, <2>2, CarriesNone
  <2> QED
    BY <1>s, <2>1, <2>2, <2>3 DEF WireInv
<1>1. CASE OpenStream
  <2>1. /\ cpc = "open" /\ UNCHANGED <<offset, next_offset, rest, fpc>>
        /\ UNCHANGED wire \/ (wire' = Append(wire, Signal("gone")) /\ cpc' = "closed")
    BY <1>1 DEF OpenStream, follower
  <2>2. CASE UNCHANGED wire
    BY <1>a, <2>1, <2>2
  <2>3. CASE wire' = Append(wire, Signal("gone")) /\ cpc' = "closed"
    <3>1. Stands' = Stands
      BY <2>1 DEF Stands
    <3>2. Signal("gone") \in Frames /\ Signal("gone").kind = "gone"
      BY SignalFrame
    <3>3. /\ Len(wire') = Len(wire) + 1 /\ Len(wire) \in Nat /\ wire' # <<>>
          /\ wire'[Len(wire')] = Signal("gone") /\ \A i \in 1..Len(wire) : wire'[i] = wire[i]
      BY <1>0, <2>3, <3>2, FrameSent
    <3>4. Signalled'
      BY <2>3, <3>2, <3>3 DEF Signalled
    <3>5. ASSUME Following PROVE Carries(wire', Len(wire') - 1, Stands', offset')
      <4>1. Carries(wire, Len(wire), Stands, offset)
        BY <2>1, <3>5 DEF WireInv, Signalled
      <4>2. Carries(wire', Len(wire), Stands, offset)
        BY <3>3, <4>1, CarriesSame
      <4>3. Len(wire') - 1 = Len(wire)
        BY <3>3
      <4> QED
        BY <2>1, <3>1, <4>2, <4>3
    <3> QED
      BY <1>s, <2>1, <3>1, <3>4, <3>5 DEF WireInv, Following
  <2> QED
    BY <2>1, <2>2, <2>3
<1>2. CASE SendSlice
  <2>1. /\ cpc = "read" /\ UNCHANGED <<next_offset, rest, fpc>> /\ UNCHANGED <<hostVars, source>>
        /\ Stands' = Stands
    BY <1>2 DEF SendSlice, follower, Stands
  <2>2. Following => Carries(wire, Len(wire), Stands, offset)
    BY <2>1 DEF WireInv, Signalled
  <2>3. ASSUME NEW w \in Seq(Frames), NEW k \in {"end", "gone", "evicted"},
               wire' = Append(w, Signal(k)), cpc' \in {"closed", "served"},
               k = "end" => ~live /\ end_offset <= offset',
               Following => Carries(w, Len(w), Stands, offset')
        PROVE  WireInv'
    <3>2. Signal(k) \in Frames /\ Signal(k).kind = k
      BY SignalFrame
    <3>3. /\ Len(wire') = Len(w) + 1 /\ Len(w) \in Nat /\ wire' # <<>>
          /\ wire'[Len(wire')] = Signal(k) /\ \A i \in 1..Len(w) : wire'[i] = w[i]
      BY <2>3, <3>2, FrameSent
    <3>4. Signalled'
      BY <1>h, <2>3, <3>2, <3>3 DEF Signalled
    <3>5. ASSUME Following PROVE Carries(wire', Len(wire') - 1, Stands', offset')
      <4>2. Carries(wire', Len(w), Stands, offset')
        BY <2>3, <3>3, <3>5, CarriesSame
      <4>3. Len(wire') - 1 = Len(w)
        BY <3>3
      <4> QED
        BY <2>1, <4>2, <4>3
    <3> QED
      BY <1>s, <2>1, <3>4, <3>5 DEF WireInv, Following
  <2>4. CASE offset' = offset /\ cpc' = "closed" /\ wire' = Append(wire, Signal("evicted"))
    BY <1>0, <2>2, <2>3, <2>4
  <2>5. ASSUME NEW d \in Nat, NEW w \in Seq(Frames), offset <= d, offset' = d,
               (w = wire /\ d = offset) \/ w = Append(wire, Output(offset, Bytes(offset, d))),
               wire' = w \/ (wire' = Append(w, Signal("end")) /\ cpc' = "served" /\ AtEnd(d))
        PROVE  WireInv'
    <3>1. ASSUME Following PROVE Carries(w, Len(w), Stands, offset')
      <4>1. CASE w = wire /\ d = offset
        BY <2>2, <2>5, <3>1, <4>1
      <4>2. CASE w = Append(wire, Output(offset, Bytes(offset, d)))
        <5>1. PICK f : f = Output(offset, Bytes(offset, d))
          OBVIOUS
        <5>2. /\ f \in Frames /\ f.kind = "output" /\ f.offset = offset /\ Ahead(f) = d
              /\ f.data = Bytes(offset, d)
          BY <1>0, <2>5, <5>1, RunFrame
        <5>3. /\ Len(w) = Len(wire) + 1 /\ Len(wire) \in Nat /\ w[Len(wire) + 1] = f
              /\ \A i \in 1..Len(wire) : w[i] = wire[i]
          BY <1>0, <4>2, <5>1, <5>2, FrameSent
        <5>4. Carries(w, Len(wire), Stands, offset)
          BY <2>2, <3>1, <5>3, CarriesSame
        <5>5. Carries(w, Len(wire) + 1, Stands, Ahead(w[Len(wire) + 1]))
          BY <5>2, <5>3, <5>4, CarriesMore
        <5> QED
          BY <2>5, <5>2, <5>3, <5>5
      <4> QED
        BY <2>5, <4>1, <4>2
    <3>2. CASE wire' = w
      BY <1>s, <2>1, <3>1, <3>2 DEF WireInv, Following
    <3>3. CASE wire' = Append(w, Signal("end")) /\ cpc' = "served" /\ AtEnd(d)
      <4>1. ~live /\ end_offset <= d
        <5>1. ~LiveNow /\ EndNow <= d
          BY <3>3 DEF AtEnd
        <5>2. CASE source = "stream"
          BY <5>1, <5>2 DEF LiveNow, EndNow
        <5>3. CASE source # "stream" /\ closed
          BY <5>1, <5>3 DEF EndNow, HostInv, EndInv
        <5> QED
          BY <5>2, <5>3 DEF WireInv
      <4> QED
        BY <2>3, <2>5, <3>1, <3>3, <4>1
    <3> QED
      BY <2>5, <3>2, <3>3
  <2> QED
    BY <1>2, <2>4, <2>5, SliceSent
<1>3. CASE WaitPast \/ Woken \/ Keepalive
  BY <1>3, <1>a DEF WaitPast, Woken, Keepalive, follower
<1>4. CASE UNCHANGED vars \/ Host \/ ClosePane \/ HandleMessage
  BY <1>4, <1>a DEF vars, Host, paneVars, ClosePane, HandleMessage, server, follower
<1>5. CASE ConnectToFollow
  BY <1>5, <1>c DEF ConnectToFollow
<1>6. CASE SendRestore
  BY <1>6, <1>c DEF SendRestore
<1>7. CASE ConnectToAttach \/ Attached
  BY <1>7, <1>b DEF ConnectToAttach, Attached, Following
<1>8. CASE LoseLink \/ FinishLink \/ FollowerStops
  BY <1>8, <1>b DEF LoseLink, FinishLink, FollowerStops, Following
<1>9. CASE NextFrame
  <2>1. /\ next_offset' = next_offset /\ offset' = offset /\ rest = <<>>
    BY <1>9, FrameTaken DEF NextFrame, server
  <2>2. CASE fpc' # "push" /\ fpc' # "done" /\ fpc' # "follow" /\ rest' = <<>>
    BY <1>s, <2>2 DEF WireInv, Following
  <2>3. ASSUME fpc' = "push", NEW d \in Nat, next_offset <= d, rest' = Bytes(next_offset, d),
               \/ Carries(wire', Len(wire'), d, offset)
               \/ Signalled' /\ Carries(wire', Len(wire') - 1, d, offset)
        PROVE  WireInv'
    <3>1. Stands' = d
      <4>1. Len(rest') = d - next_offset
        BY <1>0, <2>3, BytesFacts
      <4> QED
        BY <1>0, <2>1, <2>3, <4>1 DEF Stands
    <3> QED
      BY <1>s, <2>1, <2>3, <3>1 DEF WireInv
  <2> QED
    BY <1>9, <2>2, <2>3, FrameTaken
<1>10. CASE PushOutput
  <2>1. CASE rest = <<>>
    <3>1. UNCHANGED <<rest, next_offset, offset, wire, cpc>> /\ fpc' = "follow" /\ Following
      BY <1>10, <2>1 DEF PushOutput, server, Following
    <3>2. Stands' = Stands
      BY <3>1 DEF Stands
    <3>3. Signalled => Signalled'
      BY <1>h, <3>1 DEF Signalled
    <3> QED
      BY <1>s, <2>1, <3>1, <3>2, <3>3 DEF WireInv
  <2>2. CASE rest # <<>>
    <3>1. UNCHANGED <<offset, wire, cpc>> /\ fpc' = "push" /\ Following
      BY <1>10, <2>2, BufferPushed DEF PushOutput, server, Following
    <3>2. PICK m \in Nat, d \in Nat : m <= d /\ d = Stands /\ next_offset' = m /\ rest' = Bytes(m, d)
      BY <1>10, <2>2, BufferPushed
    <3>3. Stands' = d
      <4>1. Len(rest') = d - m
        BY <3>2, BytesFacts
      <4> QED
        BY <3>2, <4>1 DEF Stands
    <3>4. Signalled => Signalled'
      BY <1>h, <3>1 DEF Signalled
    <3> QED
      BY <1>s, <3>1, <3>2, <3>3, <3>4 DEF WireInv
  <2> QED
    BY <2>1, <2>2
<1> QED
  BY <1>1, <1>2, <1>3, <1>4, <1>5, <1>6, <1>7, <1>8, <1>9, <1>10
     DEF Next, ServerThread, FollowerThread

\* The checkpoint in hand stays the one that was asked for.
LEMMA RestoreStep ==
    ASSUME PaneInv, [Next]_vars
    PROVE  RestoreInv'
<1> USE DEF PaneInv
<1>1. CASE Host
  <2>1. HostNext /\ UNCHANGED <<fpc, next_offset>>
    BY <1>1 DEF Host, paneVars, follower
  <2>2. reply.id = asked => UNCHANGED <<reply, asked>>
    BY <2>1, ReplyKept
  <2> QED
    BY <2>1, <2>2 DEF RestoreInv
<1>2. CASE Attached
  <2>1. UNCHANGED <<reply, asked>>
    BY <1>2 DEF Attached, hostVars, checkpoints
  <2>2. fpc' = "restore" => reply.ok /\ reply.id = asked /\ next_offset' = reply.offset
    BY <1>2 DEF Attached
  <2> QED
    BY <2>1, <2>2 DEF RestoreInv
<1>3. CASE \/ ServerThread \/ Keepalive \/ HandleMessage \/ ClosePane \/ UNCHANGED vars
  <2>1. UNCHANGED <<reply, asked, fpc, next_offset>>
    BY <1>3 DEF ServerThread, OpenStream, SendSlice, WaitPast, Woken, Keepalive, HandleMessage,
                ClosePane, vars, paneVars, hostVars, checkpoints, follower
  <2> QED
    BY <2>1 DEF RestoreInv
<1>4. CASE \/ ConnectToFollow \/ ConnectToAttach \/ SendRestore \/ NextFrame \/ PushOutput
           \/ FinishLink \/ FollowerStops \/ LoseLink
  <2>1. fpc' # "restore"
    BY <1>4 DEF ConnectToFollow, ConnectToAttach, SendRestore, NextFrame, PushOutput,
                FinishLink, FollowerStops, LoseLink, Follow, OnOutput, OnEvicted, OnEnd
  <2> QED
    BY <2>1 DEF RestoreInv
<1> QED
  BY <1>1, <1>2, <1>3, <1>4 DEF Next, FollowerThread

\* A run behind a mirror that ends where the run begins.
LEMMA MirrorGrows ==
    ASSUME NEW s \in Seq(Nat), s = Bytes(0, Len(s)), NEW c \in Pieces, From(c) = Len(s)
    PROVE  Len(s \o c) = To(c) /\ s \o c = Bytes(0, To(c))
<1>1. PICK l \in Nat : l = Len(s)
  OBVIOUS
<1>2. /\ To(c) \in Nat /\ l < To(c) /\ c = Bytes(l, To(c)) /\ Len(c) = To(c) - l /\ c \in Seq(Nat)
  BY <1>1, PieceFacts
<1>3. s \o c = Bytes(0, To(c))
  <2>1. 0 \in Nat /\ 0 <= l /\ l <= To(c)
    BY <1>2
  <2>2. Bytes(0, l) \o Bytes(l, To(c)) = Bytes(0, To(c))
    BY <1>2, <2>1, BytesJoin
  <2> QED
    BY <1>1, <1>2, <2>2
<1>4. Len(s \o c) = To(c)
  <2>1. Len(s \o c) = Len(s) + Len(c)
    BY <1>2
  <2> QED
    BY <1>1, <1>2, <2>1
<1> QED
  BY <1>3, <1>4

\* The mirror and the mailbox behind it stay one run.
LEMMA MirrorStep ==
    ASSUME PaneInv, [Next]_vars, ~overwritten'
    PROVE  MirrorInv'
<1> USE DEF PaneInv
<1>0. queue \in Seq(Letters) /\ mirror \in Seq(Nat) /\ next_offset \in Nat /\ Len(queue) \in Nat
  BY DEF PaneTypes
<1>o. ~overwritten
  <2>1. CASE SendRestore
    BY <2>1 DEF SendRestore
  <2>2. CASE ~SendRestore
    BY <2>2 DEF Next, Host, vars, paneVars, ServerThread, OpenStream, SendSlice, WaitPast, Woken,
                Keepalive, FollowerThread, ConnectToFollow, ConnectToAttach, Attached, NextFrame,
                PushOutput, FinishLink, FollowerStops, LoseLink, HandleMessage, ClosePane
  <2> QED
    BY <2>1, <2>2
<1>m. MirrorInv
  BY <1>o
<1>a. ASSUME UNCHANGED <<queue, mirror>>,
             fpc' \notin {"restore", "done"} =>
                 fpc \notin {"restore", "done"} /\ next_offset' = next_offset
      PROVE  MirrorInv'
  BY <1>a, <1>m DEF MirrorInv
<1>b. ASSUME NEW m \in Letters, queue' = Append(queue, m), UNCHANGED mirror,
             m.kind = "restore" => m.data = Bytes(0, Len(m.data)),
             m.kind = "output" =>
                 /\ m.data \in Pieces
                 /\ From(m.data) = IF queue = <<>> THEN Len(mirror) ELSE Behind(queue[Len(queue)]),
             fpc' \notin {"restore", "done"} => next_offset' = Behind(m)
      PROVE  MirrorInv'
  <2>1. /\ Len(queue') = Len(queue) + 1 /\ queue'[Len(queue) + 1] = m /\ queue' # <<>>
        /\ \A i \in 1..Len(queue) : queue'[i] = queue[i]
    BY <1>0, <1>b, LetterSent
  <2>2. ASSUME NEW i \in 1..(Len(queue) + 1)
        PROVE  /\ queue'[i].kind = "restore" => queue'[i].data = Bytes(0, Len(queue'[i].data))
               /\ queue'[i].kind = "output" =>
                     /\ queue'[i].data \in Pieces
                     /\ From(queue'[i].data) = IF i = 1 THEN Len(mirror) ELSE Behind(queue'[i - 1])
    <3>1. CASE i \in 1..Len(queue)
      <4>1. queue'[i] = queue[i] /\ (i # 1 => queue'[i - 1] = queue[i - 1])
        BY <1>0, <2>1, <3>1, i # 1 => i - 1 \in 1..Len(queue)
      <4> QED
        BY <1>m, <3>1, <4>1 DEF MirrorInv
    <3>2. CASE i = Len(queue) + 1
      <4>1. queue'[i] = m
        BY <2>1, <3>2
      <4>2. i # 1 => queue # <<>> /\ i - 1 = Len(queue) /\ Len(queue) \in 1..Len(queue)
        BY <1>0, <3>2
      <4>3. i = 1 => queue = <<>>
        BY <1>0, <3>2
      <4>4. i # 1 => queue'[i - 1] = queue[Len(queue)]
        BY <2>1, <4>2
      <4> QED
        BY <1>b, <4>1, <4>2, <4>3, <4>4
    <3> QED
      BY <1>0, <3>1, <3>2
  <2> QED
    BY <1>b, <1>m, <2>1, <2>2 DEF MirrorInv
<1>1. CASE SendRestore
  <2>1. /\ Restore \in Letters /\ Restore.kind = "restore" /\ queue' = Append(queue, Restore)
        /\ Restore.data = Bytes(0, next_offset) /\ Len(Restore.data) = next_offset
    BY <1>1, RestoreSent
  <2>2. UNCHANGED <<mirror, next_offset>>
    BY <1>1 DEF SendRestore, worker
  <2>3. Behind(Restore) = next_offset
    BY <2>1 DEF Behind
  <2> QED
    BY <1>b, <2>1, <2>2, <2>3
<1>2. CASE PushOutput
  <2>1. CASE rest = <<>>
    BY <1>2, <1>a, <2>1 DEF PushOutput, worker
  <2>2. CASE rest # <<>>
    <3>1. PICK m \in Nat :
                 /\ next_offset < m /\ next_offset' = m
                 /\ queue' = Append(queue, [kind |-> "output", data |-> Bytes(next_offset, m)])
      BY <1>2, <2>2, BufferPushed
    <3>2. PICK c \in Pieces : c = Bytes(next_offset, m) /\ From(c) = next_offset /\ To(c) = m
      BY <1>0, <3>1, BytesIsPiece
    <3>3. PICK l \in Letters : l = [kind |-> "output", data |-> c]
      BY <3>2, PieceFacts, LetterFacts
    <3>4. l.kind = "output" /\ l.data = c /\ Behind(l) = m
      BY <3>2, <3>3 DEF Behind
    <3>5. fpc = "push" /\ UNCHANGED mirror
      BY <1>2 DEF PushOutput, worker
    <3>6. next_offset = IF queue = <<>> THEN Len(mirror) ELSE Behind(queue[Len(queue)])
      BY <1>m, <3>5 DEF MirrorInv
    <3> QED
      BY <1>b, <3>1, <3>2, <3>3, <3>4, <3>5, <3>6
  <2> QED
    BY <2>1, <2>2
<1>3. CASE FinishLink
  <2>1. PICK l \in Letters : l = [kind |-> "eof", data |-> <<>>]
    BY <<>> \in Seq(Nat), LetterFacts
  <2>2. queue' = Append(queue, l) /\ UNCHANGED mirror /\ fpc' = "done" /\ l.kind = "eof"
    BY <1>3, <2>1 DEF FinishLink, worker
  <2> QED
    BY <1>b, <2>2
<1>4. CASE HandleMessage
  <2>1. queue # <<>> /\ queue' = Tail(queue) /\ UNCHANGED <<fpc, next_offset>>
    BY <1>4 DEF HandleMessage, follower
  <2>2. PICK k \in Nat : /\ Len(queue) = k + 1 /\ Len(queue') = k
                         /\ Head(queue) = queue[1] /\ queue[1] \in Letters
                         /\ \A i \in 1..k : queue'[i] = queue[i + 1]
                         /\ k # 0 <=> queue' # <<>>
    BY <1>0, <2>1, LetterOff
  <2>3. /\ mirror' = Bytes(0, Len(mirror'))
        /\ Len(mirror') = Behind(queue[1]) \/ (k = 0 /\ fpc = "done")
    <3>0. 1 \in 1..Len(queue) /\ mirror = Bytes(0, Len(mirror))
      BY <1>m, <2>2 DEF MirrorInv
    <3>1. CASE queue[1].kind = "output"
      <4>1. mirror' = mirror \o queue[1].data
        BY <1>4, <2>2, <3>1 DEF HandleMessage
      <4>2. queue[1].data \in Pieces /\ From(queue[1].data) = Len(mirror)
        BY <1>m, <3>0, <3>1 DEF MirrorInv
      <4>3. Len(mirror') = To(queue[1].data) /\ mirror' = Bytes(0, To(queue[1].data))
        BY <1>0, <3>0, <4>1, <4>2, MirrorGrows
      <4> QED
        BY <3>1, <4>3 DEF Behind
    <3>2. CASE queue[1].kind = "restore"
      <4>1. mirror' = queue[1].data
        BY <1>4, <2>2, <3>2 DEF HandleMessage
      <4> QED
        BY <1>m, <3>0, <3>2, <4>1 DEF MirrorInv, Behind
    <3>3. CASE queue[1].kind = "eof"
      <4>1. mirror' = mirror
        BY <1>4, <2>2, <3>3 DEF HandleMessage
      <4>2. Len(queue) = 1 /\ fpc = "done"
        BY <3>0, <3>3 DEF EofInv
      <4>3. k = 0
        <5>1. k + 1 = 1
          BY <2>2, <4>2
        <5> QED
          BY <5>1
      <4> QED
        BY <3>0, <4>1, <4>2, <4>3
    <3> QED
      BY <2>2, <3>1, <3>2, <3>3 DEF Letters
  <2>4. ASSUME NEW i \in 1..k
        PROVE  /\ queue'[i].kind = "restore" => queue'[i].data = Bytes(0, Len(queue'[i].data))
               /\ queue'[i].kind = "output" =>
                     /\ queue'[i].data \in Pieces
                     /\ From(queue'[i].data) = IF i = 1 THEN Len(mirror') ELSE Behind(queue'[i - 1])
    <3>1. PICK j \in 1..Len(queue) : j = i + 1 /\ j # 1 /\ j - 1 = i
      BY <2>2
    <3>2. queue'[i] = queue[j]
      BY <2>2, <3>1
    <3>3. i # 1 => queue'[i - 1] = queue[i]
      BY <2>2, i # 1 => i - 1 \in 1..k /\ (i - 1) + 1 = i
    <3>4. Len(mirror') = Behind(queue[1])
      BY <2>3
    <3> QED
      BY <1>m, <3>1, <3>2, <3>3, <3>4 DEF MirrorInv
  <2>5. fpc' \notin {"restore", "done"} =>
          next_offset' = IF queue' = <<>> THEN Len(mirror') ELSE Behind(queue'[Len(queue')])
    <3>1. fpc \notin {"restore", "done"} => next_offset = Behind(queue[k + 1])
      BY <1>m, <2>1, <2>2 DEF MirrorInv
    <3>2. CASE k = 0
      BY <2>1, <2>2, <2>3, <3>1, <3>2
    <3>3. CASE k # 0
      BY <2>1, <2>2, <3>1, <3>3, k \in 1..k
    <3> QED
      BY <3>2, <3>3
  <2> QED
    BY <2>2, <2>3, <2>4, <2>5 DEF MirrorInv
<1>5. CASE ServerThread \/ Keepalive \/ Host \/ ClosePane \/ UNCHANGED vars
  BY <1>5, <1>a DEF ServerThread, OpenStream, SendSlice, WaitPast, Woken, Keepalive, Host, ClosePane,
                    vars, paneVars, follower, mailbox, worker
<1>6. CASE ConnectToFollow \/ ConnectToAttach \/ Attached \/ LoseLink \/ FollowerStops
  BY <1>6, <1>a DEF ConnectToFollow, ConnectToAttach, Attached, LoseLink, FollowerStops, Follow,
                    mailbox, worker
<1>7. CASE NextFrame
  BY <1>7, <1>a DEF NextFrame, mailbox, worker
<1> QED
  BY <1>1, <1>2, <1>3, <1>4, <1>5, <1>6, <1>7 DEF Next, FollowerThread

\* Nothing comes behind the end of the link.
LEMMA EofStep ==
    ASSUME PaneInv, [Next]_vars
    PROVE  EofInv'
<1> USE DEF PaneInv
<1>0. queue \in Seq(Letters) /\ Len(queue) \in Nat
  BY DEF PaneTypes
<1>a. ASSUME UNCHANGED <<queue, shown>>, fpc = "done" => fpc' = "done"
      PROVE  EofInv'
  BY <1>a DEF EofInv
<1>b. ASSUME NEW m \in Letters, queue' = Append(queue, m), UNCHANGED shown, fpc # "done",
             m.kind = "eof" => fpc' = "done"
      PROVE  EofInv'
  <2>1. /\ Len(queue') = Len(queue) + 1 /\ queue'[Len(queue) + 1] = m
        /\ \A i \in 1..Len(queue) : queue'[i] = queue[i]
    BY <1>0, <1>b, LetterSent
  <2>2. ASSUME NEW i \in 1..Len(queue'), queue'[i].kind = "eof"
        PROVE  i = Len(queue') /\ fpc' = "done"
    <3>1. i \notin 1..Len(queue)
      BY <1>b, <2>1, <2>2 DEF EofInv
    <3>2. i = Len(queue) + 1
      BY <1>0, <2>1, <3>1
    <3> QED
      BY <1>b, <2>1, <2>2, <3>2
  <2> QED
    BY <1>b, <2>2 DEF EofInv
<1>1. CASE SendRestore
  <2>1. /\ fpc = "restore" /\ UNCHANGED shown
    BY <1>1 DEF SendRestore, worker
  <2>2. CASE Restores = {}
    <3>1. Restore \in Letters /\ Restore.kind = "restore" /\ queue' = Append(queue, Restore)
      BY <1>1, <2>2, RestoreSent
    <3> QED
      BY <1>b, <2>1, <3>1
  <2>3. CASE Restores # {}
    <3>1. /\ Len(queue') = Len(queue) /\ Restore.kind = "restore"
          /\ \A i \in 1..Len(queue) : queue'[i] = IF i \in Restores THEN Restore ELSE queue[i]
      BY <1>1, <2>3, RestoreSent
    <3> QED
      BY <2>1, <3>1 DEF EofInv
  <2> QED
    BY <2>2, <2>3
<1>2. CASE PushOutput
  <2>1. CASE rest = <<>>
    BY <1>2, <1>a, <2>1 DEF PushOutput, worker
  <2>2. CASE rest # <<>>
    <3>1. PICK m \in Nat :
                 /\ next_offset < m /\ fpc = "push" /\ fpc' = "push"
                 /\ queue' = Append(queue, [kind |-> "output", data |-> Bytes(next_offset, m)])
      BY <1>2, <2>2, BufferPushed
    <3>2. Bytes(next_offset, m) \in Seq(Nat)
      BY <3>1, next_offset <= m, BytesFacts DEF PaneTypes
    <3>3. PICK l \in Letters : l = [kind |-> "output", data |-> Bytes(next_offset, m)]
      BY <3>2, LetterFacts
    <3>4. l.kind = "output" /\ UNCHANGED shown
      BY <1>2, <3>3 DEF PushOutput, worker
    <3> QED
      BY <1>b, <3>1, <3>3, <3>4
  <2> QED
    BY <2>1, <2>2
<1>3. CASE FinishLink
  <2>1. PICK l \in Letters : l = [kind |-> "eof", data |-> <<>>]
    BY <<>> \in Seq(Nat), LetterFacts
  <2>2. /\ queue' = Append(queue, l) /\ UNCHANGED shown /\ fpc = "finish" /\ fpc' = "done"
    BY <1>3, <2>1 DEF FinishLink, worker
  <2> QED
    BY <1>b, <2>2
<1>4. CASE HandleMessage
  <2>1. queue # <<>> /\ queue' = Tail(queue) /\ UNCHANGED fpc
    BY <1>4 DEF HandleMessage, follower
  <2>2. PICK k \in Nat : /\ Len(queue) = k + 1 /\ Len(queue') = k
                         /\ Head(queue) = queue[1]
                         /\ \A i \in 1..k : queue'[i] = queue[i + 1]
                         /\ k # 0 <=> queue' # <<>>
    BY <1>0, <2>1, LetterOff
  <2>3. ASSUME NEW i \in 1..k, queue'[i].kind = "eof" PROVE i = k /\ fpc' = "done"
    <3>1. PICK j \in 1..Len(queue) : j = i + 1
      BY <2>2
    <3>2. j = k + 1 /\ fpc = "done"
      BY <2>2, <2>3, <3>1 DEF EofInv
    <3> QED
      BY <2>1, <3>1, <3>2
  <2>4. shown' => queue' = <<>> /\ fpc' = "done"
    <3>1. CASE queue[1].kind = "eof"
      <4>1. 1 \in 1..Len(queue)
        BY <2>2
      <4>2. Len(queue) = 1 /\ fpc = "done"
        BY <3>1, <4>1 DEF EofInv
      <4>3. k + 1 = 1
        BY <2>2, <4>2
      <4>4. k = 0
        BY <4>3
      <4> QED
        BY <2>1, <2>2, <4>2, <4>4
    <3>2. CASE queue[1].kind # "eof"
      <4>1. UNCHANGED shown
        BY <1>4, <2>2, <3>2 DEF HandleMessage
      <4> QED
        BY <2>1, <4>1 DEF EofInv
    <3> QED
      BY <3>1, <3>2
  <2> QED
    BY <2>2, <2>3, <2>4 DEF EofInv
<1>5. CASE ServerThread \/ Keepalive \/ Host \/ ClosePane \/ UNCHANGED vars
  BY <1>5, <1>a DEF ServerThread, OpenStream, SendSlice, WaitPast, Woken, Keepalive, Host, ClosePane,
                    vars, paneVars, follower, mailbox, worker
<1>6. CASE ConnectToFollow \/ ConnectToAttach \/ Attached \/ LoseLink \/ FollowerStops
  BY <1>6, <1>a DEF ConnectToFollow, ConnectToAttach, Attached, LoseLink, FollowerStops, Follow,
                    mailbox, worker
<1>7. CASE NextFrame
  BY <1>7, <1>a DEF NextFrame, mailbox, worker
<1> QED
  BY <1>1, <1>2, <1>3, <1>4, <1>5, <1>6, <1>7 DEF Next, FollowerThread

\* The bytes of a run.
LEMMA HeldRun ==
    ASSUME NEW a \in Nat, NEW b \in Nat, NEW n \in Nat, a < n, n <= b
    PROVE  n \in Held(Bytes(a, b))
<1>1. PICK i \in 1..(b - a) : a + i = n
  BY n - a \in 1..(b - a)
<1>2. i \in DOMAIN Bytes(a, b) /\ Bytes(a, b)[i] = n
  <2>1. a <= b
    OBVIOUS
  <2> QED
    BY <1>1, <2>1, BytesFacts
<1> QED
  BY <1>2 DEF Held

\* The bytes of two sequences one behind the other.
LEMMA HeldJoin ==
    ASSUME NEW s \in Seq(Nat), NEW t \in Seq(Nat), NEW n, n \in Held(s) \/ n \in Held(t)
    PROVE  n \in Held(s \o t)
<1>1. CASE n \in Held(s)
  <2>1. PICK i \in DOMAIN s : s[i] = n
    BY <1>1 DEF Held
  <2>2. i \in DOMAIN (s \o t) /\ (s \o t)[i] = n
    BY <2>1
  <2> QED
    BY <2>2 DEF Held
<1>2. CASE n \in Held(t)
  <2>1. PICK i \in DOMAIN t : t[i] = n
    BY <1>2 DEF Held
  <2>2. PICK j : j = Len(s) + i
    OBVIOUS
  <2>3. j \in DOMAIN (s \o t) /\ (s \o t)[j] = n
    BY <2>1, <2>2
  <2> QED
    BY <2>3 DEF Held
<1> QED
  BY <1>1, <1>2

\* A message that is no checkpoint hides nothing.
LEMMA CoveredAppend ==
    ASSUME queue \in Seq(Letters), NEW m \in Letters, queue' = Append(queue, m), UNCHANGED mirror,
           m.kind # "restore"
    PROVE  /\ Restores' = Restores
           /\ \A n : Covered(n) => Covered(n)'
           /\ \A n : m.kind = "output" /\ n \in Held(m.data) => Covered(n)'
<1>1. PICK l \in Nat :
          /\ l = Len(queue) /\ Len(queue') = l + 1 /\ queue'[l + 1] = m
          /\ \A i \in 1..l : queue'[i] = queue[i]
          /\ DOMAIN queue = 1..l /\ DOMAIN queue' = 1..(l + 1)
  BY LetterSent
<1>2. \A i \in 1..(l + 1) : i \in 1..l \/ i = l + 1
  OBVIOUS
<1>3. Restores' = Restores
  <2>1. \A i : i \in Restores' <=> i \in Restores
    <3>1. \A i \in Restores : i \in Restores'
      BY <1>1 DEF Restores
    <3>2. \A i \in Restores' : i \in Restores
      BY <1>1, <1>2 DEF Restores
    <3> QED
      BY <3>1, <3>2
  <2> QED
    BY <2>1
<1>4. ASSUME NEW n, Covered(n) PROVE Covered(n)'
  <2>1. CASE n \in Held(mirror) /\ Restores = {}
    BY <1>3, <2>1 DEF Covered
  <2>2. ASSUME NEW i \in Restores, n \in Held(queue[i].data) PROVE Covered(n)'
    <3>1. queue'[i] = queue[i]
      BY <1>1 DEF Restores
    <3> QED
      BY <1>3, <2>2, <3>1 DEF Covered
  <2>3. ASSUME NEW i \in 1..l, queue[i].kind = "output", n \in Held(queue[i].data),
               \A r \in Restores : r < i
        PROVE  Covered(n)'
    <3>1. queue'[i] = queue[i] /\ i \in 1..Len(queue')
      BY <1>1
    <3> QED
      BY <1>3, <2>3, <3>1 DEF Covered
  <2> QED
    BY <1>1, <1>4, <2>1, <2>2, <2>3 DEF Covered
<1>5. ASSUME NEW n, m.kind = "output", n \in Held(m.data) PROVE Covered(n)'
  <2>1. \A r \in Restores : r < l + 1
    BY <1>1 DEF Restores
  <2>2. l + 1 \in 1..Len(queue')
    BY <1>1
  <2> QED
    BY <1>1, <1>3, <1>5, <2>1, <2>2 DEF Covered
<1> QED
  BY <1>3, <1>4, <1>5

\* What the worker handles goes into the mirror.
LEMMA CoveredHandle ==
    ASSUME PaneTypes, HandleMessage, \A i, j \in Restores : i = j
    PROVE  /\ \A i, j \in Restores' : i = j
           /\ \A n : Covered(n) => Covered(n)'
<1>0. queue \in Seq(Letters) /\ queue # <<>> /\ queue' = Tail(queue) /\ mirror \in Seq(Nat)
  BY DEF PaneTypes, HandleMessage
<1>1. PICK k \in Nat : /\ Len(queue) = k + 1 /\ Len(queue') = k
                       /\ Head(queue) = queue[1] /\ queue[1] \in Letters
                       /\ \A i \in 1..k : queue'[i] = queue[i + 1]
                       /\ DOMAIN queue = 1..(k + 1) /\ DOMAIN queue' = 1..k
  BY <1>0, LetterOff
<1>2. \A i \in Restores' : i \in Nat /\ i + 1 \in Restores /\ i + 1 # 1 /\ queue'[i] = queue[i + 1]
  BY <1>1 DEF Restores
<1>3. \A i \in Restores : i = 1 \/ \E j \in Restores' : i = j + 1
  <2> SUFFICES ASSUME NEW i \in Restores, i # 1 PROVE \E j \in Restores' : i = j + 1
    OBVIOUS
  <2>1. PICK j \in 1..k : i = j + 1
    <3>1. i \in 1..(k + 1) /\ i - 1 \in 1..k /\ i = (i - 1) + 1
      BY <1>1 DEF Restores
    <3> QED
      BY <3>1
  <2>2. j \in Restores'
    BY <1>1, <2>1 DEF Restores
  <2> QED
    BY <2>1, <2>2
<1>4. ASSUME NEW i \in Restores', NEW j \in Restores' PROVE i = j
  <2>1. i + 1 = j + 1 /\ i \in Nat /\ j \in Nat
    BY <1>2
  <2> QED
    BY <2>1
<1>5. 1 \in Restores => Restores' = {}
  BY <1>2
<1>6. Restores = {} => Restores' = {}
  BY <1>2
<1>7. /\ queue[1].kind = "output" => mirror' = mirror \o queue[1].data
      /\ queue[1].kind = "restore" => mirror' = queue[1].data
      /\ queue[1].kind = "eof" => mirror' = mirror
      /\ queue[1].kind \in {"output", "restore", "eof"} /\ queue[1].data \in Seq(Nat)
  BY <1>1 DEF HandleMessage, Letters
<1>8. ASSUME NEW n, n \in Held(mirror), Restores = {} PROVE Covered(n)'
  <2>1. queue[1].kind # "restore"
    BY <1>1, <1>8, 1 \in 1..(k + 1) DEF Restores
  <2>2. n \in Held(mirror')
    <3>1. CASE queue[1].kind = "output"
      <4>1. n \in Held(mirror \o queue[1].data)
        BY <1>0, <1>7, <1>8, HeldJoin
      <4> QED
        BY <1>7, <3>1, <4>1
    <3>2. CASE queue[1].kind = "eof"
      BY <1>7, <1>8, <3>2
    <3> QED
      BY <1>7, <2>1, <3>1, <3>2
  <2> QED
    BY <1>6, <1>8, <2>2 DEF Covered
<1>9. ASSUME NEW n, NEW i \in Restores, n \in Held(queue[i].data) PROVE Covered(n)'
  <2>1. CASE i = 1
    <3>1. queue[1].kind = "restore"
      BY <2>1 DEF Restores
    <3>2. n \in Held(mirror')
      BY <1>7, <1>9, <2>1, <3>1
    <3> QED
      BY <1>5, <2>1, <3>2 DEF Covered
  <2>2. CASE i # 1
    <3>1. PICK j \in Restores' : i = j + 1
      BY <1>3, <2>2
    <3>2. queue'[j] = queue[i]
      BY <1>2, <3>1
    <3>3. n \in Held(queue'[j].data)
      BY <1>9, <3>2
    <3> QED
      BY <3>1, <3>3 DEF Covered
  <2> QED
    BY <2>1, <2>2
<1>10. ASSUME NEW n, NEW i \in 1..(k + 1), queue[i].kind = "output", n \in Held(queue[i].data),
              \A r \in Restores : r < i
       PROVE  Covered(n)'
  <2>1. CASE i = 1
    <3>1. Restores = {}
      <4>1. \A r \in Restores : r \in Nat /\ r >= 1
        BY <1>1 DEF Restores
      <4>2. \A r \in Restores : r < 1
        BY <1>10, <2>1
      <4>3. \A r \in Restores : FALSE
        BY <4>1, <4>2
      <4> QED
        BY <4>3
    <3>2. n \in Held(mirror \o queue[1].data)
      BY <1>0, <1>7, <1>10, <2>1, HeldJoin
    <3>3. n \in Held(mirror')
      BY <1>7, <1>10, <2>1, <3>2
    <3> QED
      BY <1>6, <3>1, <3>3 DEF Covered
  <2>2. CASE i # 1
    <3>1. PICK j \in 1..k : i = j + 1
      <4>1. i - 1 \in 1..k /\ i = (i - 1) + 1
        BY <2>2
      <4> QED
        BY <4>1
    <3>2. queue'[j] = queue[i]
      BY <1>1, <3>1
    <3>3. ASSUME NEW r \in Restores' PROVE r < j
      <4>1. r \in Nat /\ r + 1 < i
        BY <1>2, <1>10
      <4> QED
        BY <3>1, <4>1
    <3>4. queue'[j].kind = "output" /\ n \in Held(queue'[j].data) /\ j \in 1..Len(queue')
      BY <1>1, <1>10, <3>2
    <3> QED
      BY <3>3, <3>4 DEF Covered
  <2> QED
    BY <2>1, <2>2
<1>11. ASSUME NEW n, Covered(n) PROVE Covered(n)'
  BY <1>1, <1>8, <1>9, <1>10, <1>11 DEF Covered
<1> QED
  BY <1>4, <1>11

\* No byte before next_offset is lost on its way to the mirror.
LEMMA CoverStep ==
    ASSUME PaneInv, [Next]_vars
    PROVE  CoverInv'
<1> USE DEF PaneInv
<1>0. queue \in Seq(Letters) /\ Len(queue) \in Nat /\ next_offset \in Nat /\ mirror \in Seq(Nat)
  BY DEF PaneTypes
<1>h. ~live => ~live' /\ end_offset' = end_offset
  BY PaneStepsAreHostSteps, StreamOver
<1>e. ASSUME UNCHANGED <<link_end, next_offset>>,
             fpc \in {"finish", "done"} => fpc' \in {"finish", "done"}
      PROVE  link_end' = "end" => fpc' \in {"finish", "done"} /\ ~live' /\ end_offset' <= next_offset'
  BY <1>e, <1>h DEF CoverInv
<1>a. ASSUME UNCHANGED <<queue, mirror>>,
             link_end' = "end" \/ fpc' \notin {"restore", "done"} =>
                 /\ link_end = "end" \/ fpc \notin {"restore", "done"}
                 /\ next_offset' = next_offset,
             link_end' = "end" =>
                 fpc' \in {"finish", "done"} /\ ~live' /\ end_offset' <= next_offset'
      PROVE  CoverInv'
  <2>1. Restores' = Restores
    BY <1>a DEF Restores
  <2>2. ASSUME NEW n, Covered(n) PROVE Covered(n)'
    BY <1>a, <2>1, <2>2 DEF Covered
  <2>3. (link_end = "end" \/ fpc \notin {"restore", "done"} => \A n \in 1..next_offset : Covered(n))'
    BY <1>a, <2>2 DEF CoverInv
  <2> QED
    BY <1>a, <2>1, <2>3 DEF CoverInv
<1>1. CASE SendRestore
  <2>1. /\ fpc = "restore" /\ fpc' = "follow" /\ UNCHANGED <<link_end, next_offset>>
    BY <1>1 DEF SendRestore, Follow
  <2>2. link_end' # "end"
    BY <2>1 DEF CoverInv
  <2>3. ASSUME NEW n \in 1..next_offset PROVE n \in Held(Restore.data)
    <3>1. n \in Nat /\ 0 \in Nat /\ 0 < n /\ n <= next_offset
      BY <1>0
    <3>2. n \in Held(Bytes(0, next_offset))
      BY <1>0, <3>1, HeldRun
    <3> QED
      BY <1>1, <3>2, RestoreSent
  <2>4. CASE Restores = {}
    <3>1. Restore \in Letters /\ Restore.kind = "restore" /\ queue' = Append(queue, Restore)
      BY <1>1, <2>4, RestoreSent
    <3>2. /\ DOMAIN queue' = 1..(Len(queue) + 1) /\ queue'[Len(queue) + 1] = Restore
          /\ \A i \in 1..Len(queue) : queue'[i] = queue[i]
          /\ DOMAIN queue = 1..Len(queue)
      BY <1>0, <3>1, LetterSent
    <3>3. \A i \in Restores' : i = Len(queue) + 1
      <4>1. \A i \in 1..(Len(queue) + 1) : i \in 1..Len(queue) \/ i = Len(queue) + 1
        BY <1>0
      <4> QED
        BY <2>4, <3>2, <4>1 DEF Restores
    <3>4. Len(queue) + 1 \in Restores'
      BY <1>0, <3>1, <3>2 DEF Restores
    <3>5. ASSUME NEW n \in 1..next_offset PROVE Covered(n)'
      <4>1. n \in Held(queue'[Len(queue) + 1].data)
        BY <2>3, <3>2
      <4> QED
        BY <3>4, <4>1 DEF Covered
    <3> QED
      BY <2>1, <2>2, <3>3, <3>5 DEF CoverInv
  <2>5. CASE Restores # {}
    <3>1. /\ Len(queue') = Len(queue) /\ Restore.kind = "restore" /\ queue' \in Seq(Letters)
          /\ \A i \in 1..Len(queue) : queue'[i] = IF i \in Restores THEN Restore ELSE queue[i]
      BY <1>1, <2>5, RestoreSent
    <3>2. DOMAIN queue = 1..Len(queue) /\ DOMAIN queue' = 1..Len(queue)
      BY <1>0, <3>1
    <3>3. \A i : i \in Restores' <=> i \in Restores
      BY <3>1, <3>2 DEF Restores
    <3>4. PICK i \in Restores : queue'[i] = Restore
      BY <2>5, <3>1, <3>2 DEF Restores
    <3>5. ASSUME NEW n \in 1..next_offset PROVE Covered(n)'
      <4>1. n \in Held(queue'[i].data) /\ i \in Restores'
        BY <2>3, <3>3, <3>4
      <4> QED
        BY <4>1 DEF Covered
    <3>6. \A x, y \in Restores' : x = y
      BY <3>3 DEF CoverInv
    <3> QED
      BY <2>1, <2>2, <3>5, <3>6 DEF CoverInv
  <2> QED
    BY <2>4, <2>5
<1>2. CASE PushOutput
  <2>1. CASE rest = <<>>
    BY <1>2, <1>a, <1>e, <2>1 DEF PushOutput, worker
  <2>2. CASE rest # <<>>
    <3>1. PICK m \in Nat :
                 /\ next_offset < m /\ next_offset' = m /\ fpc = "push" /\ fpc' = "push"
                 /\ queue' = Append(queue, [kind |-> "output", data |-> Bytes(next_offset, m)])
      BY <1>2, <2>2, BufferPushed
    <3>2. Bytes(next_offset, m) \in Seq(Nat)
      BY <1>0, <3>1, next_offset <= m, BytesFacts
    <3>3. PICK l \in Letters : l = [kind |-> "output", data |-> Bytes(next_offset, m)]
      BY <3>2, LetterFacts
    <3>4. /\ l.kind = "output" /\ l.data = Bytes(next_offset, m) /\ queue' = Append(queue, l)
          /\ UNCHANGED <<mirror, link_end>>
      BY <1>2, <3>1, <3>3 DEF PushOutput, worker
    <3>5. /\ Restores' = Restores /\ \A n : Covered(n) => Covered(n)'
          /\ \A n : n \in Held(l.data) => Covered(n)'
      BY <1>0, <3>3, <3>4, CoveredAppend
    <3>6. ASSUME NEW n \in 1..m PROVE Covered(n)'
      <4>1. CASE n \in 1..next_offset
        BY <3>1, <3>5, <4>1 DEF CoverInv
      <4>2. CASE n \notin 1..next_offset
        <5>1. n \in Nat /\ next_offset < n /\ n <= m
          BY <1>0, <4>2
        <5>2. n \in Held(Bytes(next_offset, m))
          BY <1>0, <5>1, HeldRun
        <5> QED
          BY <3>4, <3>5, <5>2
      <4> QED
        BY <4>1, <4>2
    <3>7. link_end' # "end"
      BY <3>1, <3>4 DEF CoverInv
    <3> QED
      BY <3>1, <3>5, <3>6, <3>7 DEF CoverInv
  <2> QED
    BY <2>1, <2>2
<1>3. CASE FinishLink
  <2>1. PICK l \in Letters : l = [kind |-> "eof", data |-> <<>>]
    BY <<>> \in Seq(Nat), LetterFacts
  <2>2. /\ queue' = Append(queue, l) /\ UNCHANGED <<mirror, link_end, next_offset>>
        /\ fpc = "finish" /\ fpc' = "done" /\ l.kind = "eof"
    BY <1>3, <2>1 DEF FinishLink, worker
  <2>3. Restores' = Restores /\ \A n : Covered(n) => Covered(n)'
    BY <1>0, <2>2, CoveredAppend
  <2> QED
    BY <1>e, <2>2, <2>3 DEF CoverInv
<1>4. CASE HandleMessage
  <2>1. UNCHANGED <<fpc, next_offset, link_end>>
    BY <1>4 DEF HandleMessage, follower
  <2>2. /\ \A i, j \in Restores' : i = j
        /\ \A n : Covered(n) => Covered(n)'
    BY <1>4, CoveredHandle DEF CoverInv
  <2> QED
    BY <1>e, <2>1, <2>2 DEF CoverInv
<1>5. CASE ServerThread \/ Keepalive \/ Host \/ ClosePane \/ UNCHANGED vars
  <2>1. UNCHANGED <<queue, mirror, fpc, next_offset, link_end>>
    BY <1>5 DEF ServerThread, OpenStream, SendSlice, WaitPast, Woken, Keepalive, Host, ClosePane,
                vars, paneVars, follower, mailbox, worker
  <2> QED
    BY <1>a, <1>e, <2>1
<1>6. CASE ConnectToFollow \/ ConnectToAttach \/ LoseLink \/ FollowerStops
  <2>1. /\ UNCHANGED <<queue, mirror, next_offset, link_end>>
        /\ fpc' = "done" \/ (fpc \notin {"restore", "finish", "done"})
    BY <1>6 DEF ConnectToFollow, ConnectToAttach, LoseLink, FollowerStops, mailbox, worker
  <2>2. link_end' = "end" => fpc' = "done" /\ link_end = "end"
    BY <2>1 DEF CoverInv
  <2> QED
    BY <1>a, <1>h, <2>1, <2>2 DEF CoverInv
<1>7. CASE Attached
  <2>1. /\ UNCHANGED <<queue, mirror>> /\ fpc = "attach"
        /\ \/ fpc' = "restore" /\ link_end' = link_end
           \/ fpc' = "finish" /\ link_end' = "gone" /\ next_offset' = next_offset
    BY <1>7 DEF Attached, mailbox, worker
  <2>2. link_end' # "end"
    BY <2>1 DEF CoverInv
  <2> QED
    BY <1>a, <2>1, <2>2
<1>8. CASE NextFrame
  <2>1. UNCHANGED <<queue, mirror, next_offset>> /\ fpc = "follow"
    BY <1>8 DEF NextFrame, mailbox, worker
  <2>2. link_end # "end"
    BY <2>1 DEF CoverInv
  <2>3. \/ link_end' = link_end
        \/ fpc' = "finish" /\ (link_end' = "end" => ~live /\ end_offset <= next_offset)
    BY <1>8, FrameTaken
  <2> QED
    BY <1>a, <1>h, <2>1, <2>2, <2>3
<1> QED
  BY <1>1, <1>2, <1>3, <1>4, <1>5, <1>6, <1>7, <1>8 DEF Next, FollowerThread
-----------------------------------------------------------------------------
(***************************************************************************)
(* The output buffers                                                      *)
(***************************************************************************)

\* A message with output holds a buffer.
InUse(q) == [i \in DOMAIN q |-> IF q[i].kind = "output" THEN 1 ELSE 0]
Used(q) == SumTo(InUse(q), Len(q))

\* Every buffer is free or in the mailbox.
PoolInv == buffers \in Nat /\ buffers + Used(queue) = BufferCount

\* The buffers in a mailbox are counted.
LEMMA UsedCounts ==
    ASSUME NEW q \in Seq(Letters)
    PROVE  Len(q) \in Nat /\ Counts(InUse(q), Len(q)) /\ Used(q) \in Nat
<1>1. Len(q) \in Nat /\ DOMAIN q = 1..Len(q)
  OBVIOUS
<1>2. Counts(InUse(q), Len(q))
  BY <1>1 DEF Counts, InUse
<1> QED
  BY <1>1, <1>2, SumToNat DEF Used

\* No message holds none.
LEMMA UsedNone == Used(<<>>) = 0
<1>1. Len(<<>>) = 0
  OBVIOUS
<1> QED
  BY <1>1, SumToZero DEF Used

\* A message more.
LEMMA UsedMore ==
    ASSUME NEW q \in Seq(Letters), NEW m \in Letters
    PROVE  Used(Append(q, m)) = Used(q) + IF m.kind = "output" THEN 1 ELSE 0
<1>1. PICK n \in Nat : n = Len(q) /\ DOMAIN q = 1..n
  OBVIOUS
<1>2. Append(q, m) \in Seq(Letters) /\ Len(Append(q, m)) = n + 1
  BY <1>1
<1>3. PICK p \in Seq(Letters) : p = Append(q, m) /\ Len(p) = n + 1
  BY <1>2, Zenon
<1>4. p[n + 1] = m /\ (\A i \in 1..n : p[i] = q[i]) /\ DOMAIN p = 1..(n + 1)
  BY <1>1, <1>3
<1>5. InUse(p)[n + 1] = IF m.kind = "output" THEN 1 ELSE 0
  BY <1>4 DEF InUse
<1>6. \A i \in 1..n : InUse(p)[i] = InUse(q)[i]
  BY <1>1, <1>4 DEF InUse
<1>7. SumTo(InUse(p), n) = SumTo(InUse(q), n)
  BY <1>6, SumToSame
<1>8. SumTo(InUse(p), n + 1) = SumTo(InUse(p), n) + InUse(p)[n + 1]
  <2>1. Counts(InUse(p), n + 1)
    BY <1>3, UsedCounts
  <2> QED
    BY <2>1, SumToNext
<1> QED
  BY <1>1, <1>3, <1>5, <1>7, <1>8 DEF Used

\* A message less.
LEMMA UsedLess ==
    ASSUME NEW q \in Seq(Letters), q # <<>>
    PROVE  Used(q) = (IF Head(q).kind = "output" THEN 1 ELSE 0) + Used(Tail(q))
<1>1. PICK n \in Nat : /\ Len(q) = n + 1 /\ Len(Tail(q)) = n /\ Tail(q) \in Seq(Letters)
                       /\ Head(q) = q[1]
                       /\ \A i \in 1..n : Tail(q)[i] = q[i + 1]
                       /\ DOMAIN q = 1..(n + 1) /\ DOMAIN Tail(q) = 1..n
  BY LetterOff
<1>2. PICK p \in Seq(Letters) : p = Tail(q)
  BY <1>1, Zenon
<1>3. Len(p) = n /\ DOMAIN p = 1..n /\ \A i \in 1..n : p[i] = q[1 + i]
  BY <1>1, <1>2
<1>4. InUse(q)[1] = IF Head(q).kind = "output" THEN 1 ELSE 0
  BY <1>1 DEF InUse
<1>5. Continues(InUse(q), 1, InUse(p), n)
  BY <1>1, <1>3 DEF Continues, InUse
<1>6. SumTo(InUse(q), n + 1) = InUse(q)[1] + SumTo(InUse(p), n)
  <2>1. Counts(InUse(q), n + 1)
    BY <1>1, UsedCounts
  <2> QED
    BY <1>5, <2>1, SumToRest
<1> QED
  BY <1>1, <1>2, <1>3, <1>4, <1>6 DEF Used

\* A checkpoint in the place of another.
LEMMA UsedSame ==
    ASSUME NEW q \in Seq(Letters), NEW p \in Seq(Letters), Len(p) = Len(q),
           \A i \in 1..Len(q) : p[i].kind = q[i].kind
    PROVE  Used(p) = Used(q)
<1>1. Len(q) \in Nat /\ DOMAIN q = 1..Len(q) /\ DOMAIN p = 1..Len(q)
  OBVIOUS
<1>2. \A i \in 1..Len(q) : InUse(p)[i] = InUse(q)[i]
  BY <1>1 DEF InUse
<1> QED
  BY <1>1, <1>2, SumToSame DEF Used

\* A buffer is taken for a message and given back with it.
LEMMA PoolStep ==
    ASSUME PaneInv, PoolInv, [Next]_vars
    PROVE  PoolInv'
<1>0. /\ queue \in Seq(Letters) /\ Used(queue) \in Nat /\ buffers \in Nat
      /\ buffers + Used(queue) = BufferCount
  BY UsedCounts DEF PaneInv, PaneTypes, PoolInv
<1>a. ASSUME buffers' = buffers, Used(queue') = Used(queue)
      PROVE  PoolInv'
  BY <1>0, <1>a DEF PoolInv, Used, InUse
<1>1. CASE SendRestore
  <2>1. buffers' = buffers
    BY <1>1 DEF SendRestore
  <2>2. /\ Restore \in Letters /\ Restore.kind = "restore" /\ queue' \in Seq(Letters)
        /\ \/ /\ Len(queue') = Len(queue)
              /\ \A i \in 1..Len(queue) :
                    queue'[i] = IF i \in Restores THEN Restore ELSE queue[i]
           \/ queue' = Append(queue, Restore)
    BY <1>1, RestoreSent DEF PaneInv
  <2>3. CASE queue' = Append(queue, Restore)
    <3>1. Used(Append(queue, Restore)) = Used(queue) + 0
      BY <1>0, <2>2, UsedMore
    <3> QED
      BY <1>0, <1>a, <2>1, <2>3, <3>1
  <2>4. CASE /\ Len(queue') = Len(queue)
             /\ \A i \in 1..Len(queue) : queue'[i] = IF i \in Restores THEN Restore ELSE queue[i]
    <3>1. PICK p \in Seq(Letters) : p = queue'
      BY <2>2, Zenon
    <3>2. Len(p) = Len(queue) /\ \A i \in 1..Len(queue) : p[i].kind = queue[i].kind
      BY <2>2, <2>4, <3>1 DEF Restores
    <3>3. Used(p) = Used(queue)
      BY <1>0, <3>2, UsedSame
    <3> QED
      BY <1>a, <2>1, <3>1, <3>3
  <2> QED
    BY <2>2, <2>3, <2>4
<1>2. CASE PushOutput
  <2>1. CASE rest = <<>>
    BY <1>2, <1>a, <2>1 DEF PushOutput
  <2>2. CASE rest # <<>>
    <3>1. PICK m \in Nat :
              /\ next_offset < m
              /\ queue' = Append(queue, [kind |-> "output", data |-> Bytes(next_offset, m)])
      BY <1>2, <2>2, BufferPushed DEF PaneInv
    <3>2. Bytes(next_offset, m) \in Seq(Nat)
      BY <3>1, next_offset \in Nat, next_offset <= m, BytesFacts DEF PaneInv, PaneTypes
    <3>3. PICK l \in Letters : l = [kind |-> "output", data |-> Bytes(next_offset, m)] /\ l.kind = "output"
      BY <3>2, LetterFacts
    <3>4. Used(Append(queue, l)) = Used(queue) + 1
      BY <1>0, <3>3, UsedMore
    <3>5. Used(queue') = Used(queue) + 1
      BY <3>1, <3>3, <3>4, Zenon
    <3>6. buffers > 0 /\ buffers' = buffers - 1
      BY <1>2, <2>2 DEF PushOutput
    <3>7. buffers' \in Nat /\ buffers' + Used(queue') = BufferCount
      BY <1>0, <3>5, <3>6
    <3> QED
      BY <3>7 DEF PoolInv, Used, InUse
  <2> QED
    BY <2>1, <2>2
<1>3. CASE FinishLink
  <2>1. buffers' = buffers /\ queue' = Append(queue, [kind |-> "eof", data |-> <<>>])
    BY <1>3 DEF FinishLink
  <2>2. PICK l \in Letters : l = [kind |-> "eof", data |-> <<>>] /\ l.kind = "eof"
    BY <<>> \in Seq(Nat), LetterFacts
  <2>3. Used(Append(queue, l)) = Used(queue) + 0
    BY <1>0, <2>2, UsedMore
  <2> QED
    BY <1>0, <1>a, <2>1, <2>2, <2>3
<1>4. CASE HandleMessage
  <2>1. /\ queue # <<>> /\ queue' = Tail(queue)
        /\ buffers' = IF Head(queue).kind = "output" THEN buffers + 1 ELSE buffers
    BY <1>4 DEF HandleMessage
  <2>2. Used(queue) = (IF Head(queue).kind = "output" THEN 1 ELSE 0) + Used(Tail(queue))
    BY <1>0, <2>1, UsedLess
  <2>3. Used(Tail(queue)) \in Nat
    BY <1>0, <2>1, LetterOff, UsedCounts
  <2>4. PICK u \in Nat : u = Used(Tail(queue)) /\ u = Used(queue')
    BY <2>1, <2>3
  <2>5. buffers' \in Nat /\ buffers' + u = BufferCount
    <3>1. CASE Head(queue).kind = "output"
      BY <1>0, <2>1, <2>2, <2>4, <3>1
    <3>2. CASE Head(queue).kind # "output"
      BY <1>0, <2>1, <2>2, <2>4, <3>2
    <3> QED
      BY <3>1, <3>2
  <2> QED
    BY <2>4, <2>5 DEF PoolInv, Used, InUse
<1>5. CASE ~(SendRestore \/ PushOutput \/ FinishLink \/ HandleMessage)
  <2>1. buffers' = buffers /\ queue' = queue
    BY <1>5 DEF Next, vars, paneVars, Host, ServerThread, OpenStream, SendSlice, WaitPast, Woken,
          Keepalive, FollowerThread, ConnectToFollow, ConnectToAttach, Attached, NextFrame,
          FollowerStops, LoseLink, ClosePane, mailbox
  <2> QED
    BY <1>a, <2>1
<1> QED
  BY <1>1, <1>2, <1>3, <1>4, <1>5
-----------------------------------------------------------------------------
(***************************************************************************)
(* The ranges of the pane's state                                          *)
(***************************************************************************)

BoundFrames ==
    [kind : {"output", "end", "gone", "evicted"}, offset : 0..MaxBytes, data : Chunk]
BoundLetters == [kind : {"output", "restore", "eof"}, data : Chunk]

PlaceTypes ==
    /\ cpc \in {"closed", "open", "read", "wait", "asleep", "served"}
    /\ source \in {"stream", "completed"} /\ seen \in Nat
    /\ fpc \in {"connect", "attach", "restore", "follow", "push", "finish", "done"}
    /\ link_end \in {"none", "end", "gone"} /\ losses \in 0..MaxLosses
    /\ need_checkpoint \in BOOLEAN /\ mailbox_closed \in BOOLEAN
    /\ shown \in BOOLEAN /\ overwritten \in BOOLEAN

\* No offset is ahead of what the child may write, and no other byte is carried.
CarryTypes ==
    /\ offset \in 0..MaxBytes /\ next_offset \in 0..MaxBytes
    /\ wire \in Seq(BoundFrames) /\ rest \in Chunk
    /\ queue \in Seq(BoundLetters) /\ mirror \in Chunk

PaneRange == PaneInv /\ HostRange /\ PoolInv /\ PlaceTypes /\ CarryTypes

\* Every thread is at a place it may be at.
LEMMA PlacesStep ==
    ASSUME PlaceTypes, publications \in Nat, [Next]_vars
    PROVE  PlaceTypes'
<1>1. CASE OpenStream
  BY <1>1 DEF OpenStream, PlaceTypes, follower, mailbox, worker
<1>2. CASE SendSlice
  <2>1. cpc' \in {"closed", "served", "read", "wait"}
    BY <1>2 DEF SendSlice
  <2> QED
    BY <1>2, <2>1 DEF SendSlice, PlaceTypes, follower, mailbox, worker
<1>3. CASE WaitPast \/ Woken \/ Keepalive
  BY <1>3 DEF WaitPast, Woken, Keepalive, PlaceTypes, follower, mailbox, worker
<1>4. CASE ConnectToFollow \/ ConnectToAttach
  BY <1>4 DEF ConnectToFollow, ConnectToAttach, Follow, PlaceTypes, server, mailbox, worker
<1>5. CASE Attached
  BY <1>5 DEF Attached, PlaceTypes, server, mailbox, worker
<1>6. CASE SendRestore
  BY <1>6 DEF SendRestore, Follow, PlaceTypes, worker
<1>7. CASE NextFrame
  <2>1. UNCHANGED <<server, losses, mailbox, worker, overwritten>>
    BY <1>7 DEF NextFrame
  <2>2. /\ need_checkpoint' \in BOOLEAN
        /\ fpc' \in {"connect", "push", "finish"} /\ link_end' \in {link_end, "end", "gone"}
    <3>1. CASE OnOutput(Head(wire))
      BY <3>1 DEF OnOutput
    <3>2. CASE OnEvicted(Head(wire))
      BY <3>2 DEF OnEvicted
    <3>3. CASE OnEnd(Head(wire))
      BY <3>3 DEF OnEnd, PlaceTypes
    <3> QED
      BY <1>7, <3>1, <3>2, <3>3 DEF NextFrame
  <2> QED
    BY <2>1, <2>2 DEF PlaceTypes, server, mailbox, worker
<1>8. CASE PushOutput
  BY <1>8 DEF PushOutput, PlaceTypes, server, worker
<1>9. CASE LoseLink
  <2>1. losses' \in 0..MaxLosses
    BY <1>9, FollowerAssumption DEF LoseLink, PlaceTypes
  <2> QED
    BY <1>9, <2>1 DEF LoseLink, Hangup, PlaceTypes, mailbox, worker
<1>10. CASE FinishLink
  BY <1>10 DEF FinishLink, Hangup, PlaceTypes, worker
<1>11. CASE FollowerStops
  BY <1>11 DEF FollowerStops, Hangup, PlaceTypes, mailbox, worker
<1>12. CASE HandleMessage
  <2>1. shown' \in BOOLEAN /\ UNCHANGED <<server, follower, mailbox_closed, overwritten>>
    BY <1>12 DEF HandleMessage, PlaceTypes
  <2> QED
    BY <2>1 DEF PlaceTypes, server, follower
<1>13. CASE ClosePane
  BY <1>13 DEF ClosePane, PlaceTypes, server, follower, worker
<1>14. CASE Host \/ UNCHANGED vars
  BY <1>14 DEF Host, vars, paneVars, PlaceTypes, server, follower, mailbox, worker
<1> QED
  BY <1>1, <1>2, <1>3, <1>4, <1>5, <1>6, <1>7, <1>8, <1>9, <1>10, <1>11, <1>12, <1>13, <1>14
     DEF Next, ServerThread, FollowerThread

\* A run within what the child may write ends there.
LEMMA RunEnds ==
    ASSUME NEW a \in Nat, NEW d \in Nat, a < d, Bytes(a, d) \in Chunk
    PROVE  d <= MaxBytes
<1>0. PICK S : S = 1..MaxBytes
  OBVIOUS
<1>1. PICK c \in Seq(S) : c = Bytes(a, d)
  BY <1>0 DEF Chunk
<1>2. c # <<>> /\ c[Len(c)] = d
  BY <1>1, BytesIsPiece DEF Pieces, To
<1>3. Len(c) \in Nat /\ Len(c) # 0 /\ Len(c) \in 1..Len(c)
  BY <1>2
<1>4. c[Len(c)] \in S
  BY <1>3
<1> QED
  BY <1>0, <1>2, <1>4, OutputAssumption

\* Frames and messages of bytes the child may write.
LEMMA BoundParts ==
    /\ \A k \in {"end", "gone", "evicted"} : Signal(k) \in BoundFrames
    /\ \A at \in 0..MaxBytes, s \in Chunk : Output(at, s) \in BoundFrames
    /\ \A k \in {"output", "restore", "eof"}, s \in Chunk : [kind |-> k, data |-> s] \in BoundLetters
<1>1. 0 \in 0..MaxBytes /\ <<>> \in Chunk
  BY ChunkRun, OutputAssumption
<1> QED
  BY <1>1 DEF Signal, Output, BoundFrames, BoundLetters

\* What is left of a frame.
LEMMA ChunkLeft ==
    ASSUME NEW s \in Chunk, NEW n \in Nat
    PROVE  SubSeq(s, n + 1, Len(s)) \in Chunk
<1>0. PICK S : S = 1..MaxBytes
  OBVIOUS
<1>1. s \in Seq(S)
  BY <1>0 DEF Chunk
<1>2. SubSeq(s, n + 1, Len(s)) \in Seq(S)
  <2>1. PICK i \in Int, l \in Int : i = n + 1 /\ l = Len(s)
    BY <1>1
  <2>2. \A j \in i..l : s[j] \in S
    BY <1>1, <2>1
  <2>3. SubSeq(s, i, l) \in Seq(S)
    BY <2>2, SubSeqProperties
  <2> QED
    BY <2>1, <2>3
<1> QED
  BY <1>0, <1>2 DEF Chunk

\* Nothing else gets on the wire, into the mailbox or into the mirror.
LEMMA CarryStep ==
    ASSUME PaneInv, HostRange, CarryTypes, [Next]_vars
    PROVE  CarryTypes'
<1>0. /\ offset \in 0..MaxBytes /\ next_offset \in 0..MaxBytes /\ wire \in Seq(BoundFrames)
      /\ rest \in Chunk /\ queue \in Seq(BoundLetters) /\ mirror \in Chunk
      /\ <<>> \in Seq(BoundFrames) /\ <<>> \in Chunk
  BY ChunkRun DEF CarryTypes
<1>b. /\ MaxBytes \in Nat /\ end_offset \in Nat /\ end_offset <= MaxBytes
      /\ offset \in Nat /\ next_offset \in Nat
      /\ reply.offset \in 0..MaxBytes /\ reply.snapshot \in Chunk
  <2>1. end_offset \in Nat /\ read \in Nat /\ end_offset <= read /\ read <= MaxBytes /\ MaxBytes \in Nat
    BY OutputAssumption DEF PaneInv, HostInv, StreamTypes, HostRange, ByteTypes
  <2> QED
    BY <1>0, <2>1 DEF HostRange, AnswerTypes
<1>1. CASE OpenStream
  <2>1. wire' = wire \/ wire' = Append(wire, Signal("gone"))
    BY <1>1 DEF OpenStream
  <2>2. wire' \in Seq(BoundFrames)
    BY <1>0, <2>1, BoundParts
  <2> QED
    BY <1>0, <1>1, <2>2 DEF OpenStream, CarryTypes, follower, mailbox, worker
<1>2. CASE SendSlice
  <2>1. offset' \in 0..MaxBytes /\ wire' \in Seq(BoundFrames)
    <3>1. Signal("evicted") \in BoundFrames /\ Signal("end") \in BoundFrames
      BY BoundParts
    <3>2. CASE offset' = offset /\ wire' = Append(wire, Signal("evicted"))
      BY <1>0, <3>1, <3>2
    <3>3. ASSUME NEW d \in Nat, NEW w \in Seq(Frames), offset <= d, offset' = d,
                 d <= offset \/ d <= end_offset,
                 (w = wire /\ d = offset) \/ w = Append(wire, Output(offset, Bytes(offset, d))),
                 wire' = w \/ wire' = Append(w, Signal("end"))
          PROVE  offset' \in 0..MaxBytes /\ wire' \in Seq(BoundFrames)
      <4>1. d <= MaxBytes
        BY <1>0, <1>b, <3>3
      <4>2. Bytes(offset, d) \in Chunk
        BY <1>b, <3>3, <4>1, ChunkRun
      <4>3. PICK f \in BoundFrames : f = Output(offset, Bytes(offset, d))
        BY <1>0, <4>2, BoundParts
      <4>4. w \in Seq(BoundFrames)
        BY <1>0, <3>3, <4>3
      <4> QED
        BY <1>b, <3>1, <3>3, <4>1, <4>4
    <3> QED
      BY <1>2, <3>2, <3>3, SliceSent DEF PaneInv
  <2> QED
    BY <1>0, <1>2, <2>1 DEF SendSlice, CarryTypes, follower, mailbox, worker
<1>3. CASE WaitPast \/ Woken \/ Keepalive \/ ConnectToAttach \/ UNCHANGED vars \/ Host \/ ClosePane
  BY <1>0, <1>3 DEF WaitPast, Woken, Keepalive, ConnectToAttach, vars, Host, ClosePane, paneVars,
                    CarryTypes, server, follower, mailbox, worker
<1>4. CASE ConnectToFollow
  BY <1>0, <1>4 DEF ConnectToFollow, Follow, CarryTypes, mailbox, worker
<1>5. CASE Attached
  <2>1. next_offset' \in 0..MaxBytes
    BY <1>0, <1>b, <1>5 DEF Attached
  <2> QED
    BY <1>0, <1>5, <2>1 DEF Attached, CarryTypes, server, mailbox, worker
<1>6. CASE SendRestore
  <2>1. PICK r \in BoundLetters : r = Restore
    BY <1>b, BoundParts DEF Restore
  <2>2. queue' \in Seq(BoundLetters)
    <3>1. CASE queue' = Append(queue, Restore)
      BY <1>0, <2>1, <3>1
    <3>2. CASE queue' = [i \in DOMAIN queue |-> IF i \in Restores THEN Restore ELSE queue[i]]
      <4>1. PICK n \in Nat : n = Len(queue) /\ DOMAIN queue = 1..n
        BY <1>0
      <4>2. \A i \in 1..n : (IF i \in Restores THEN Restore ELSE queue[i]) \in BoundLetters
        BY <1>0, <2>1, <4>1
      <4>3. [i \in 1..n |-> IF i \in Restores THEN Restore ELSE queue[i]] \in Seq(BoundLetters)
        BY <4>2
      <4> QED
        BY <3>2, <4>1, <4>3
    <3> QED
      BY <1>6, <3>1, <3>2 DEF SendRestore
  <2> QED
    BY <1>0, <1>6, <2>2 DEF SendRestore, Follow, CarryTypes, worker
<1>7. CASE NextFrame
  <2>1. wire # <<>> /\ wire' = Tail(wire)
    BY <1>7 DEF NextFrame
  <2>2. Head(wire) \in BoundFrames /\ wire' \in Seq(BoundFrames)
    BY <1>0, <2>1
  <2>3. Head(wire).data \in Chunk /\ Head(wire).offset \in Nat
    BY <1>b, <2>2 DEF BoundFrames
  <2>4. rest' \in Chunk
    <3>1. CASE OnOutput(Head(wire))
      <4>1. CASE Head(wire).offset > next_offset
        BY <1>0, <3>1, <4>1 DEF OnOutput
      <4>2. CASE ~(Head(wire).offset > next_offset)
        <5>1. PICK n \in Nat : n = next_offset - Head(wire).offset
          BY <1>b, <2>3, <4>2, next_offset - Head(wire).offset \in Nat
        <5>2. rest' = SubSeq(Head(wire).data, n + 1, Len(Head(wire).data))
          BY <3>1, <4>2, <5>1 DEF OnOutput
        <5> QED
          BY <2>3, <5>2, ChunkLeft
      <4> QED
        BY <4>1, <4>2
    <3>2. CASE OnEvicted(Head(wire)) \/ OnEnd(Head(wire))
      BY <1>0, <3>2 DEF OnEvicted, OnEnd
    <3> QED
      BY <1>7, <3>1, <3>2 DEF NextFrame
  <2> QED
    BY <1>0, <1>7, <2>2, <2>4 DEF NextFrame, CarryTypes, server, mailbox, worker
<1>8. CASE PushOutput
  <2>1. CASE rest = <<>>
    BY <1>0, <1>8, <2>1 DEF PushOutput, CarryTypes, server, worker
  <2>2. CASE rest # <<>>
    <3>1. PICK m \in Nat, d \in Nat :
                 /\ next_offset < m /\ m <= d /\ d = Stands /\ fpc = "push"
                 /\ next_offset' = m /\ rest' = Bytes(m, d)
                 /\ queue' = Append(queue, [kind |-> "output", data |-> Bytes(next_offset, m)])
      BY <1>8, <2>2, BufferPushed DEF PaneInv
    <3>2. rest = Bytes(next_offset, d)
      BY <3>1 DEF PaneInv, WireInv, Following
    <3>3. d <= MaxBytes
      <4>1. next_offset < d
        BY <1>b, <3>1
      <4> QED
        BY <1>0, <1>b, <3>2, <4>1, RunEnds
    <3>4. m <= MaxBytes /\ next_offset <= m
      BY <1>b, <3>1, <3>3
    <3>5. Bytes(m, d) \in Chunk /\ Bytes(next_offset, m) \in Chunk
      BY <1>b, <3>1, <3>3, <3>4, ChunkRun
    <3>6. PICK l \in BoundLetters : l = [kind |-> "output", data |-> Bytes(next_offset, m)]
      BY <3>5, BoundParts
    <3>7. queue' \in Seq(BoundLetters)
      BY <1>0, <3>1, <3>6
    <3>8. next_offset' \in 0..MaxBytes
      BY <1>b, <3>1, <3>4
    <3> QED
      BY <1>0, <1>8, <3>1, <3>5, <3>7, <3>8 DEF PushOutput, CarryTypes, server, worker
  <2> QED
    BY <2>1, <2>2
<1>9. CASE FinishLink
  <2>1. PICK l \in BoundLetters : l = [kind |-> "eof", data |-> <<>>]
    BY <1>0, BoundParts
  <2>2. queue' \in Seq(BoundLetters)
    BY <1>0, <1>9, <2>1 DEF FinishLink
  <2> QED
    BY <1>0, <1>9, <2>2 DEF FinishLink, Hangup, CarryTypes, worker
<1>10. CASE LoseLink \/ FollowerStops
  BY <1>0, <1>10 DEF LoseLink, FollowerStops, Hangup, CarryTypes, mailbox, worker
<1>11. CASE HandleMessage
  <2>1. queue' = Tail(queue) /\ queue # <<>>
    BY <1>11 DEF HandleMessage
  <2>2. queue' \in Seq(BoundLetters) /\ Head(queue) \in BoundLetters
    BY <1>0, <2>1
  <2>3. PICK y \in Chunk : y = Head(queue).data
    BY <2>2 DEF BoundLetters
  <2>4. mirror' \in {mirror \o y, y, mirror}
    BY <1>11, <2>3 DEF HandleMessage
  <2>5. mirror' \in Chunk
    BY <1>0, <2>4, ChunkJoin
  <2> QED
    BY <1>0, <1>11, <2>2, <2>5 DEF HandleMessage, CarryTypes, server, follower
<1> QED
  BY <1>1, <1>2, <1>3, <1>4, <1>5, <1>6, <1>7, <1>8, <1>9, <1>10, <1>11
     DEF Next, ServerThread, FollowerThread
-----------------------------------------------------------------------------
(***************************************************************************)
(* What the connection thread and the follower are owed                    *)
(***************************************************************************)

\* A connection thread that sleeps on the newest publication has nothing to send.
WakeInv ==
    /\ seen <= publications
    /\ cpc = "asleep" /\ seen = publications => end_offset <= offset /\ live

\* The stream does not move and does not end without a publication.
LEMMA StreamPublishes ==
    ASSUME HostStep
    PROVE  \/ UNCHANGED <<end_offset, live, publications>>
           \/ publications' = publications + 1
<1>1. CASE Feed \/ FinalFeed
  BY <1>1 DEF Feed, FinalFeed, FeedOne, StreamAppend, Published
<1>2. CASE Finish \/ ReleaseTail
  BY <1>2 DEF Finish, ReleaseTail, Published
<1>3. CASE ~(Feed \/ FinalFeed \/ Finish \/ ReleaseTail)
  BY <1>3 DEF HostStep, HostNext, ReaderThread, SessionThread, hostVars, stream, ReadPty, Push, Notify,
        ReaderEnds, ChildEnds, DrainInbox, SliceFed, OnEof, OnChildExited, FinalSlice, FinalNext,
        Complete, ServeCheckpoint, DrainDeadline, ReleaseRuntime, SessionGone
<1> QED
  BY <1>1, <1>2, <1>3

\* No publication falls between the read of a connection thread and its wait.
LEMMA WakeStep ==
    ASSUME PaneRange, WakeInv, [Next]_vars
    PROVE  WakeInv'
<1>0. /\ publications \in Nat /\ seen \in Nat /\ seen <= publications
      /\ end_offset \in Nat /\ offset \in Nat
  BY DEF WakeInv, PaneRange, HostRange, AnswerTypes, PlaceTypes, PaneInv, PaneTypes, HostInv,
         StreamTypes
<1>1. HostStep
  BY PaneStepsAreHostSteps
<1>2. CASE WaitPast
  <2>1. UNCHANGED <<publications, end_offset, live, offset>>
    BY <1>2 DEF WaitPast, hostVars, stream
  <2> QED
    BY <1>0, <1>2, <2>1 DEF WaitPast, WakeInv
<1>3. CASE ~WaitPast
  <2>1. seen' = seen /\ (cpc' = "asleep" => cpc = "asleep" /\ offset' = offset)
    BY <1>3 DEF Next, vars, paneVars, Host, ServerThread, OpenStream, SendSlice, Woken, Keepalive,
          FollowerThread, ConnectToFollow, ConnectToAttach, Attached, SendRestore, NextFrame,
          PushOutput, FinishLink, FollowerStops, LoseLink, HandleMessage, ClosePane, Follow, Hangup,
          server
  <2>2. CASE UNCHANGED <<end_offset, live, publications>>
    BY <2>1, <2>2 DEF WakeInv
  <2>3. CASE publications' = publications + 1
    BY <1>0, <2>1, <2>3 DEF WakeInv
  <2> QED
    BY <1>1, <2>2, <2>3, StreamPublishes
<1> QED
  BY <1>2, <1>3
-----------------------------------------------------------------------------
(***************************************************************************)
(* The theorems                                                            *)
(***************************************************************************)

\* The invariant holds when the pane opens.
LEMMA PaneStarts ==
    ASSUME Init
    PROVE  PaneInv
<1> USE DEF Init
<1>1. HostInv
  BY HostStarts
<1>2. /\ <<>> \in Seq(Nat) /\ <<>> \in Seq(Frames) /\ <<>> \in Seq(Letters)
      /\ Len(<<>>) = 0 /\ DOMAIN <<>> = {} /\ 1..0 = {}
  OBVIOUS
<1>3. PaneTypes
  BY <1>2 DEF PaneTypes
<1>4. WireInv /\ RestoreInv
  BY DEF WireInv, RestoreInv, Following, HostInit
<1>5. MirrorInv
  <2>1. Bytes(0, 0) = <<>>
    BY 0 \in Nat, NoBytes
  <2> QED
    BY <1>2, <2>1 DEF MirrorInv
<1>6. EofInv
  BY <1>2 DEF EofInv
<1>7. CoverInv
  BY <1>2 DEF CoverInv, Restores
<1> QED
  BY <1>1, <1>3, <1>4, <1>5, <1>6, <1>7 DEF PaneInv

\* Every step of the composed system keeps it.
LEMMA PaneKeeps ==
    ASSUME PaneInv, [Next]_vars
    PROVE  PaneInv'
<1>1. HostInv'
  BY PaneStepsAreHostSteps, HostKeeps DEF PaneInv
<1> QED
  BY <1>1, PaneTypesStep, WireStep, RestoreStep, MirrorStep, EofStep, CoverStep DEF PaneInv

\* The invariant of the host, the wire, the mailbox and the mirror together.
THEOREM StreamInvariant == Spec => []PaneInv
<1>1. Init => PaneInv
  BY PaneStarts
<1>2. PaneInv /\ [Next]_vars => PaneInv'
  BY PaneKeeps
<1> QED
  BY <1>1, <1>2, PTL DEF Spec

\* OutputTail::append keeps the newest bytes, as many as it may retain, at their
\* offsets, whatever the sizes of chunks, inbox, slices and tail.
THEOREM TailIsExact == Spec => []TailExact
<1>1. PaneInv => TailExact
  BY HostSafe DEF PaneInv
<1> QED
  BY <1>1, StreamInvariant, PTL

\* finalize files a record as complete only with every byte that was read behind
\* its final offset.
THEOREM CompleteMeansWhole == Spec => []CompleteIsWhole
<1>1. PaneInv => CompleteIsWhole
  BY HostSafe DEF PaneInv
<1> QED
  BY <1>1, StreamInvariant, PTL

\* The offset a completed record was filed with stays the end of its stream, although
\* the reader may still push into the inbox that retire_engine closed.
THEOREM FinalOffsetFixed == Spec => []FinalOffsetStays
<1>1. PaneInv => FinalOffsetStays
  BY HostSafe DEF PaneInv
<1> QED
  BY <1>1, StreamInvariant, PTL

\* stream_output sends follow_host_output neither a gap nor an overlap, over every
\* reconnection, eviction and end.
THEOREM NoGapOnTheWire == Spec => []FramesFollowOn
<1>1. PaneInv => FramesFollowOn
  <2> SUFFICES ASSUME PaneInv, Following, NEW i \in DOMAIN wire, wire[i].kind = "output"
               PROVE  /\ wire[i].offset = IF i = 1 THEN next_offset + Len(rest)
                                          ELSE wire[i - 1].offset + Len(wire[i - 1].data)
                      /\ wire[i].data = Bytes(wire[i].offset, wire[i].offset + Len(wire[i].data))
    BY DEF FramesFollowOn, Following
  <2>1. wire \in Seq(Frames) /\ i \in 1..Len(wire) /\ Len(wire) \in Nat
    BY DEF PaneInv, PaneTypes
  <2>2. PICK k \in Nat : Carries(wire, k, Stands, offset) /\ i \in 1..k
    <3>1. CASE Carries(wire, Len(wire), Stands, offset)
      BY <2>1, <3>1
    <3>2. CASE Signalled /\ Carries(wire, Len(wire) - 1, Stands, offset)
      <4>1. i # Len(wire)
        BY <3>2 DEF Signalled
      <4>2. Len(wire) - 1 \in Nat /\ i \in 1..(Len(wire) - 1)
        BY <2>1, <4>1
      <4> QED
        BY <3>2, <4>2
    <3> QED
      BY <3>1, <3>2 DEF PaneInv, WireInv
  <2>3. /\ wire[i].offset = IF i = 1 THEN Stands ELSE Ahead(wire[i - 1])
        /\ wire[i].data = Bytes(wire[i].offset, Ahead(wire[i]))
    BY <2>2 DEF Carries
  <2> QED
    BY <2>3 DEF Stands, Ahead
<1> QED
  BY <1>1, StreamInvariant, PTL

\* The worker's mirror shows each byte of the child once and in order, as long as
\* no checkpoint was replaced in the mailbox.
THEOREM MirrorInOrder == Spec => []MirrorFaithful
<1>1. PaneInv => MirrorFaithful
  BY DEF PaneInv, MirrorInv, MirrorFaithful
<1> QED
  BY <1>1, StreamInvariant, PTL

\* A pane that shows the end the host sent has processed every byte it published,
\* checkpoints replaced in the mailbox included.
THEOREM EndShowsAll == Spec => []EndedIsWhole
<1>1. PaneInv => EndedIsWhole
  <2> SUFFICES ASSUME PaneInv, shown, link_end = "end", NEW n \in 1..record.final_offset
               PROVE  n \in Held(mirror)
    BY DEF EndedIsWhole
  <2>1. queue = <<>> /\ DOMAIN <<>> = {} /\ Len(<<>>) = 0 /\ 1..0 = {}
    BY DEF PaneInv, EofInv
  <2>2. /\ record.final_offset \in Nat /\ end_offset \in Nat /\ next_offset \in Nat
        /\ end_offset <= next_offset
    BY DEF PaneInv, HostInv, StreamTypes, PaneTypes, CoverInv
  <2>3. record.final_offset <= end_offset
    <3>1. CASE closed
      BY <2>2, <3>1 DEF PaneInv, HostInv, EndInv
    <3>2. CASE ~closed
      <4>1. record.final_offset = 0
        BY <3>2 DEF PaneInv, HostInv, EndInv, NoRecord
      <4> QED
        BY <2>2, <4>1
    <3> QED
      BY <3>1, <3>2
  <2>4. n \in 1..next_offset
    BY <2>2, <2>3
  <2>5. Covered(n)
    BY <2>4 DEF PaneInv, CoverInv
  <2> QED
    BY <2>1, <2>5 DEF Covered, Restores
<1> QED
  BY <1>1, StreamInvariant, PTL

\* The ranges hold when the pane opens.
LEMMA PaneRangeStarts ==
    ASSUME Init
    PROVE  PaneRange
<1>1. PaneInv /\ HostRange
  BY PaneStarts, RangeStarts DEF Init
<1>2. Used(queue) = 0
  BY UsedNone, Zenon DEF Init
<1>3. PoolInv
  BY <1>2, FollowerAssumption DEF PoolInv, Init
<1>4. PlaceTypes
  <2>1. 0 \in 0..MaxLosses /\ 0 \in Nat
    BY FollowerAssumption
  <2> QED
    BY <2>1 DEF PlaceTypes, Init
<1>5. CarryTypes
  <2>1. <<>> \in Seq(BoundFrames) /\ <<>> \in Seq(BoundLetters) /\ <<>> \in Chunk /\ 0 \in 0..MaxBytes
    BY ChunkRun, OutputAssumption
  <2> QED
    BY <2>1 DEF CarryTypes, Init
<1> QED
  BY <1>1, <1>3, <1>4, <1>5 DEF PaneRange

\* Every step of the composed system keeps them.
LEMMA PaneRangeKeeps ==
    ASSUME PaneRange, [Next]_vars
    PROVE  PaneRange'
<1>1. HostRange'
  BY PaneStepsAreHostSteps, RangeKeeps DEF PaneRange, PaneInv
<1>2. PlaceTypes'
  BY PlacesStep DEF PaneRange, HostRange, AnswerTypes
<1> QED
  BY <1>1, <1>2, PaneKeeps, PoolStep, CarryStep DEF PaneRange

\* The ranges together with the invariant they rest on.
THEOREM RangeInvariant == Spec => []PaneRange
<1>1. Init => PaneRange
  BY PaneRangeStarts
<1>2. PaneRange /\ [Next]_vars => PaneRange'
  BY PaneRangeKeeps
<1> QED
  BY <1>1, <1>2, PTL DEF Spec

\* Every variable of the host and of the pane keeps its type: no offset of the
\* stream, the connection or the follower runs ahead of what was read, inbox_bytes
\* counts no more than that, and the pool never hands out a buffer it has not.
THEOREM OutputTyped == Spec => []TypeOK
<1>1. PaneRange => TypeOK
  <2> SUFFICES ASSUME PaneRange
               PROVE  TypeOK
    OBVIOUS
  <2>1. HostTypeOK
    BY HostTyped DEF PaneRange, PaneInv
  <2>2. buffers \in 0..BufferCount
    <3>1. Used(queue) \in Nat
      BY UsedCounts DEF PaneRange, PaneInv, PaneTypes
    <3> QED
      BY <3>1, FollowerAssumption DEF PaneRange, PoolInv
  <2>3. mirror \in Seq(1..MaxBytes)
    BY DEF PaneRange, CarryTypes, Chunk
  <2> QED
    BY <2>1, <2>2, <2>3
       DEF TypeOK, PaneRange, PlaceTypes, CarryTypes, BoundFrames, BoundLetters
<1> QED
  BY <1>1, RangeInvariant, PTL

\* What every thread is owed, with the ranges.
OwedInv == PaneRange /\ NoticeInv /\ AnswerInv /\ WakeInv

\* Nobody is forgotten by any step.
THEOREM OwedInvariant == Spec => []OwedInv
<1>1. Init => OwedInv
  <2>1. ASSUME Init
        PROVE  WakeInv
    BY <2>1 DEF Init, HostInit, WakeInv
  <2> QED
    BY <2>1, PaneRangeStarts, OwedStarts DEF OwedInv, Init
<1>2. OwedInv /\ [Next]_vars => OwedInv'
  <2> SUFFICES ASSUME OwedInv, [Next]_vars
               PROVE  OwedInv'
    OBVIOUS
  <2>1. HostStep /\ HostInv
    BY PaneStepsAreHostSteps DEF OwedInv, PaneRange, PaneInv
  <2>2. NoticeInv' /\ AnswerInv'
    BY <2>1, NoticeStep, AnswerStep DEF OwedInv
  <2> QED
    BY <2>2, PaneRangeKeeps, WakeStep DEF OwedInv
<1> QED
  BY <1>1, <1>2, PTL DEF Spec

\* The PTY inbox counts exactly the bytes it holds and stays within PTY_INBOX_BYTES,
\* but for a single chunk that is larger and that an empty inbox let in.
THEOREM InboxWithinBudget == Spec => []InboxInv
<1>1. PaneRange => InboxInv
  BY DEF PaneRange, HostRange
<1> QED
  BY <1>1, RangeInvariant, PTL

\* Bytes in the inbox of a session thread that waits.
SliceComes ==
    spc = "serve" /\ chunks # <<>> => rpc = "notifying" \/ output_pending \/ Sent(Ready)

\* Bytes in the inbox never wait for a notice that does not come: when serve_loop
\* waits, the reader is about to send PtyReady, the message is in the channel, or
\* output_pending makes the loop come back without one.
THEOREM NoNoticeLost == Spec => []SliceComes
<1>1. OwedInv => SliceComes
  <2> SUFFICES ASSUME OwedInv, spc = "serve", chunks # <<>>
               PROVE  rpc = "notifying" \/ output_pending \/ Sent(Ready)
    BY DEF SliceComes
  <2>1. ~closed
    BY DEF OwedInv, PaneRange, PaneInv, HostInv, FlowInv
  <2> QED
    BY <2>1 DEF OwedInv, NoticeInv
<1> QED
  BY <1>1, OwedInvariant, PTL

\* A connection thread that sleeps in wait_past on a publication that is still the
\* newest one.
NothingToSend ==
    cpc = "asleep" /\ seen = publications => end_offset <= offset /\ live

\* wait_past never sleeps through bytes it has not sent or through the end of the
\* stream: both come with a publication that it has not seen.
THEOREM NoWakeUpLost == Spec => []NothingToSend
<1>1. OwedInv => NothingToSend
  BY DEF OwedInv, WakeInv, NothingToSend
<1> QED
  BY <1>1, OwedInvariant, PTL

\* A follower that waits for a checkpoint.
AnswerComes == fpc = "attach" /\ reply.id # asked => Sent(Checkpoint(asked))

\* A follower in attach is always answered or has its request in the channel of the
\* session thread: the thread's end answers what is left in it.
THEOREM NoAnswerLost == Spec => []AnswerComes
<1>1. OwedInv => AnswerComes
  BY DEF OwedInv, AnswerInv, AnswerComes
<1> QED
  BY <1>1, OwedInvariant, PTL

\* The mailbox holds a buffer for each message with output in it and none else, so
\* a follower that waits for a free buffer in push_host_output waits for a worker
\* that has a message to handle.
THEOREM BuffersConserved == Spec => [](PoolInv /\ (buffers = 0 => queue # <<>>))
<1>1. PaneRange => PoolInv /\ (buffers = 0 => queue # <<>>)
  <2> SUFFICES ASSUME PaneRange
               PROVE  buffers = 0 => queue # <<>>
    BY DEF PaneRange
  <2>1. buffers + Used(queue) = BufferCount /\ BufferCount \in Nat /\ BufferCount # 0
    BY FollowerAssumption DEF PaneRange, PoolInv
  <2>2. queue = <<>> => Used(queue) = 0
    BY UsedNone, Zenon
  <2> QED
    BY <2>1, <2>2
<1> QED
  BY <1>1, RangeInvariant, PTL
=============================================================================
