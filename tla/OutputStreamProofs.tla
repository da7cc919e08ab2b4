------------------------- MODULE OutputStreamProofs -------------------------
(***************************************************************************)
(* What holds of the host's side of an output stream, for any sizes of the *)
(* inbox, its slices and the tail and any number of bytes and checkpoints: *)
(* the inductive invariant of HostNext and of AskCheckpoint, which         *)
(* OutputFollowerProofs uses for the composed system.                      *)
(***************************************************************************)
EXTENDS OutputStream, SumProofs, SequenceTheorems, TLAPS

-----------------------------------------------------------------------------
(***************************************************************************)
(* Chunks of the child's output and queues of them                         *)
(***************************************************************************)

\* A chunk is a non-empty run of the child's bytes, from behind one offset up to
\* another.
From(c) == c[1] - 1
To(c) == c[Len(c)]
Pieces == {c \in Seq(Nat) : c # <<>> /\ c[1] > 0 /\ c = Bytes(From(c), To(c))}

\* The part of a sequence from one index to another, by a name of its own: the
\* provers do not instantiate a fact about SubSeq.
Part(s, m, n) == SubSeq(s, m, n)

\* The chunks of q follow one another from offset a up to offset b.
Chain(q, a, b) ==
    /\ q \in Seq(Pieces)
    /\ \A i \in 1..Len(q) : From(q[i]) = IF i = 1 THEN a ELSE To(q[i - 1])
    /\ b = IF q = <<>> THEN a ELSE To(q[Len(q)])

\* Everything that was read and not published yet, in the order of publication.
InHand == IF rpc = "pushing" THEN <<chunk>> ELSE <<>>
Pipeline == taken \o chunks \o InHand
-----------------------------------------------------------------------------
(***************************************************************************)
(* The invariant                                                           *)
(***************************************************************************)

Tails == [start : Nat, bytes : Seq(Nat)]

StreamTypes ==
    /\ rpc \in {"reading", "pushing", "notifying", "done"}
    /\ rpc = "pushing" => chunk \in Pieces
    /\ read \in Nat /\ chunks \in Seq(Pieces) /\ taken \in Seq(Pieces)
    /\ channel \in Seq(Message)
    /\ spc \in {"serve", "feed", "finalize", "final_feed", "complete", "ended"}
    /\ terminal \in Seq(Nat) /\ end_offset \in Nat
    /\ tail \in Tails
    /\ record.final_offset \in Nat
    /\ asked \in 0..MaxCheckpoints
    /\ reply.id \in Nat /\ reply.offset \in Nat /\ reply.snapshot \in Seq(Nat)

\* Until the inbox is closed the pipeline leads from the last published byte to
\* the last one read; then nothing is published any more.
FlowInv ==
    /\ ~closed => Chain(Pipeline, end_offset, read)
    /\ closed => chunks = <<>>
    /\ spc \in {"serve", "finalize", "complete", "ended"} \/ closed => taken = <<>>

\* The tail and the terminal hold what was published.
ContentInv ==
    /\ TailExact /\ tail.start <= end_offset
    /\ released => spc = "ended"
    /\ ~retired => terminal = Bytes(0, end_offset)

Ending == {"finalize", "final_feed", "complete"}

\* The child ends once, and the reader sends nothing behind its end of file.
MessagesInv ==
    /\ \A i, j \in DOMAIN channel : channel[i] = ChildExited /\ channel[j] = ChildExited => i = j
    /\ exited => \A i \in DOMAIN channel : channel[i] # ChildExited
    /\ \A i \in DOMAIN channel : channel[i] = Eof => rpc = "done"
    /\ reader_eof => rpc = "done"

\* The session ends after its child, and its record is filed when nothing can be
\* published any more; one that finalize found whole has nothing left in the inbox.
EndInv ==
    /\ spc \in Ending \/ completed \/ drain_deadline => exited
    /\ spc = "complete" => completed
    /\ closed <=> record.filed
    /\ closed => completed /\ ~live /\ record.final_offset = end_offset
    /\ ~closed => record = NoRecord
    /\ tail_release => closed
    /\ live <=> ~closed /\ spc # "complete"
    /\ whole => reader_eof
    /\ whole /\ spc \in Ending => ~closed
    /\ whole /\ spc = "final_feed" /\ ~more => chunks = <<>>
    /\ whole /\ spc = "complete" => chunks = <<>>
    /\ record.complete => reader_eof /\ record.final_offset = read

\* A checkpoint is asked for under a number of its own and answered at most once,
\* by what the terminal was fed up to the offset that comes with it.
ReplyInv ==
    /\ reply.ok => reply.snapshot = Bytes(0, reply.offset) /\ reply.offset <= end_offset
    /\ \A i \in DOMAIN channel : channel[i].kind = "checkpoint" => channel[i].id <= asked
    /\ \A i, j \in DOMAIN channel :
          channel[i] = Checkpoint(asked) /\ channel[j] = Checkpoint(asked) => i = j
    /\ reply.id <= asked
    /\ reply.id = asked => \A i \in DOMAIN channel : channel[i] # Checkpoint(asked)

HostInv == StreamTypes /\ FlowInv /\ ContentInv /\ MessagesInv /\ EndInv /\ ReplyInv
-----------------------------------------------------------------------------
(***************************************************************************)
(* Runs of bytes and chains of chunks                                      *)
(***************************************************************************)

\* A sequence without length is empty.
LEMMA NoLength ==
    ASSUME NEW S, NEW s \in Seq(S)
    PROVE  Len(s) \in Nat /\ (s = <<>> <=> Len(s) = 0)
BY EmptySeq

\* A run of bytes has the bytes between its offsets.
LEMMA BytesFacts ==
    ASSUME NEW a \in Nat, NEW b \in Nat, a <= b
    PROVE  /\ Bytes(a, b) \in Seq(Nat) /\ Len(Bytes(a, b)) = b - a
           /\ DOMAIN Bytes(a, b) = 1..(b - a)
           /\ \A i \in 1..(b - a) : Bytes(a, b)[i] = a + i
BY DEF Bytes

\* A sequence that agrees with a run is that run.
LEMMA IsBytes ==
    ASSUME NEW a \in Nat, NEW b \in Nat, a <= b, NEW s \in Seq(Nat), Len(s) = b - a,
           \A i \in 1..(b - a) : s[i] = a + i
    PROVE  s = Bytes(a, b)
<1>1. /\ Bytes(a, b) \in Seq(Nat) /\ Len(Bytes(a, b)) = b - a
      /\ \A i \in 1..(b - a) : Bytes(a, b)[i] = a + i
  BY BytesFacts
<1> HIDE DEF Bytes
<1>2. \A i \in 1..Len(s) : s[i] = Bytes(a, b)[i]
  BY <1>1
<1> QED
  BY <1>1, <1>2, SeqEqual

\* Two runs that meet make one.
LEMMA BytesJoin ==
    ASSUME NEW a \in Nat, NEW b \in Nat, NEW c \in Nat, a <= b, b <= c
    PROVE  Bytes(a, b) \o Bytes(b, c) = Bytes(a, c)
<1>1. PICK x \in Seq(Nat) : /\ x = Bytes(a, b) /\ Len(x) = b - a
                            /\ \A i \in 1..(b - a) : x[i] = a + i
  BY BytesFacts
<1>2. PICK y \in Seq(Nat) : /\ y = Bytes(b, c) /\ Len(y) = c - b
                            /\ \A i \in 1..(c - b) : y[i] = b + i
  BY BytesFacts
<1>3. x \o y \in Seq(Nat) /\ Len(x \o y) = Len(x) + Len(y)
  BY ConcatProperties
<1>4. ASSUME NEW i \in 1..(c - a) PROVE (x \o y)[i] = a + i
  <2>0. (x \o y)[i] = IF i <= Len(x) THEN x[i] ELSE y[i - Len(x)]
    <3>1. i \in 1..(Len(x) + Len(y))
      BY <1>1, <1>2
    <3> QED
      BY <3>1, ConcatProperties
  <2>1. CASE i <= b - a
    BY <1>1, <2>0, <2>1
  <2>2. CASE ~(i <= b - a)
    <3>1. i - (b - a) \in 1..(c - b) /\ b + (i - (b - a)) = a + i
      BY <2>2
    <3> QED
      BY <1>1, <1>2, <2>0, <2>2, <3>1
  <2> QED
    BY <2>1, <2>2
<1>5. a <= c /\ Len(x \o y) = c - a
  BY <1>1, <1>2, <1>3
<1> QED
  BY <1>1, <1>2, <1>3, <1>4, <1>5, IsBytes

\* A part of a run is a run.
LEMMA BytesPart ==
    ASSUME NEW a \in Nat, NEW b \in Nat, NEW first \in Nat, NEW n \in Nat,
           NEW c \in Nat, NEW d \in Nat, c + 1 = a + first, d = a + n, a <= c, c <= d, d <= b
    PROVE  Part(Bytes(a, b), first, n) = Bytes(c, d)
<1>0. PICK m \in Nat : first = m + 1 /\ c = a + m /\ m <= n
  BY first - 1 \in Nat
<1>1. PICK x \in Seq(Nat) : /\ x = Bytes(a, b) /\ Len(x) = b - a
                            /\ \A i \in 1..(b - a) : x[i] = a + i
  <2>1. a <= b
    OBVIOUS
  <2> QED
    BY <2>1, BytesFacts
<1>2. PICK s \in Seq(Nat) : /\ s = SubSeq(x, m + 1, n) /\ Len(s) = n - m
                            /\ \A i \in 1..(n - m) : s[i] = x[m + i]
  <2>1. n <= Len(x)
    BY <1>0, <1>1
  <2>2. SubSeq(x, m + 1, n) \in Seq(Nat) /\ Len(SubSeq(x, m + 1, n)) = n - m
    BY <1>0, <2>1
  <2>3. \A i \in 1..(n - m) : SubSeq(x, m + 1, n)[i] = x[m + i]
    BY <1>0, <2>1
  <2> QED
    BY <2>2, <2>3
<1>3. \A i \in 1..(n - m) : m + i \in 1..(b - a) /\ a + (m + i) = c + i
  BY <1>0
<1>4. \A i \in 1..(n - m) : s[i] = c + i
  BY <1>1, <1>2, <1>3
<1>5. d - c = n - m
  BY <1>0
<1>6. Len(s) = d - c /\ \A i \in 1..(d - c) : s[i] = c + i
  BY <1>2, <1>4, <1>5
<1>7. s = Bytes(c, d)
  BY <1>5, <1>6, IsBytes
<1> QED
  BY <1>0, <1>1, <1>2, <1>7 DEF Part

\* A chunk is the run between its offsets, which are apart.
LEMMA PieceFacts ==
    ASSUME NEW c \in Pieces
    PROVE  /\ From(c) \in Nat /\ To(c) \in Nat /\ From(c) < To(c)
           /\ c = Bytes(From(c), To(c)) /\ Len(c) = To(c) - From(c)
           /\ c \in Seq(Nat) /\ c # <<>>
<1>1. c \in Seq(Nat) /\ c # <<>> /\ c[1] > 0 /\ c = Bytes(From(c), To(c))
  BY DEF Pieces
<1>2. Len(c) \in Nat /\ Len(c) > 0 /\ From(c) \in Nat /\ To(c) \in Nat
  BY <1>1 DEF From, To
<1>3. DOMAIN c = 1..(To(c) - From(c)) /\ 1 \in DOMAIN c
  <2>1. DOMAIN Bytes(From(c), To(c)) = 1..(To(c) - From(c))
    BY DEF Bytes
  <2> QED
    BY <1>1, <1>2, <2>1
<1>4. From(c) < To(c)
  BY <1>2, <1>3
<1>5. Len(c) = To(c) - From(c)
  <2>1. PICK a \in Nat, b \in Nat : a = From(c) /\ b = To(c)
    BY <1>2
  <2>2. a <= b /\ c = Bytes(a, b)
    BY <1>1, <1>4, <2>1
  <2>3. Len(Bytes(a, b)) = b - a
    BY <2>2, BytesFacts
  <2> QED
    BY <2>1, <2>2, <2>3
<1> QED
  BY <1>1, <1>2, <1>4, <1>5

\* The other way round.
LEMMA BytesIsPiece ==
    ASSUME NEW a \in Nat, NEW b \in Nat, a < b
    PROVE  Bytes(a, b) \in Pieces /\ From(Bytes(a, b)) = a /\ To(Bytes(a, b)) = b
<1>1. PICK c : c = Bytes(a, b)
  OBVIOUS
<1>2. c \in Seq(Nat) /\ Len(c) = b - a /\ \A i \in 1..(b - a) : c[i] = a + i
  <2>1. a <= b
    OBVIOUS
  <2> QED
    BY <1>1, <2>1, BytesFacts
<1>3. c # <<>> /\ c[1] = a + 1 /\ c[Len(c)] = b
  <2>1. 1 \in 1..(b - a) /\ b - a \in 1..(b - a)
    OBVIOUS
  <2> QED
    BY <1>2, <2>1
<1>4. From(c) = a /\ To(c) = b
  BY <1>3 DEF From, To
<1> QED
  BY <1>1, <1>2, <1>3, <1>4 DEF Pieces

\* An empty chain leads nowhere.
LEMMA ChainEmpty ==
    ASSUME NEW a
    PROVE  Chain(<<>>, a, a)
BY DEF Chain

\* A chunk that begins where the chain ends prolongs it.
LEMMA ChainAppend ==
    ASSUME NEW q, NEW a, NEW b, Chain(q, a, b), NEW c \in Pieces, From(c) = b
    PROVE  Chain(Append(q, c), a, To(c))
<1>1. q \in Seq(Pieces) /\ Len(q) \in Nat
  BY DEF Chain
<1>2. /\ Append(q, c) \in Seq(Pieces) /\ Len(Append(q, c)) = Len(q) + 1
      /\ Append(q, c) # <<>> /\ Append(q, c)[Len(q) + 1] = c
      /\ \A i \in 1..Len(q) : Append(q, c)[i] = q[i]
  BY <1>1
<1>3. ASSUME NEW i \in 1..(Len(q) + 1)
      PROVE  From(Append(q, c)[i]) = IF i = 1 THEN a ELSE To(Append(q, c)[i - 1])
  <2>1. CASE i \in 1..Len(q)
    <3>1. i # 1 => i - 1 \in 1..Len(q)
      BY <1>1, <2>1
    <3> QED
      BY <1>2, <2>1, <3>1 DEF Chain
  <2>2. CASE i = Len(q) + 1
    <3>1. CASE q = <<>>
      BY <1>2, <2>2, <3>1 DEF Chain
    <3>2. CASE q # <<>>
      <4>1. i # 1 /\ i - 1 = Len(q) /\ Len(q) \in 1..Len(q)
        BY <1>1, <2>2, <3>2
      <4> QED
        BY <1>2, <2>2, <3>2, <4>1 DEF Chain
    <3> QED
      BY <3>1, <3>2
  <2> QED
    BY <1>1, <2>1, <2>2
<1> QED
  BY <1>2, <1>3 DEF Chain

\* Without its first chunk a chain begins behind it.
LEMMA ChainTail ==
    ASSUME NEW q, NEW a, NEW b, Chain(q, a, b), q # <<>>
    PROVE  /\ Head(q) \in Pieces /\ From(Head(q)) = a
           /\ Chain(Tail(q), To(Head(q)), b)
<1>1. q \in Seq(Pieces) /\ Len(q) \in Nat /\ Len(q) > 0 /\ Head(q) = q[1] /\ 1 \in 1..Len(q)
  BY DEF Chain
<1>2. /\ Tail(q) \in Seq(Pieces) /\ Len(Tail(q)) = Len(q) - 1
      /\ \A i \in 1..(Len(q) - 1) : Tail(q)[i] = q[i + 1]
  BY <1>1
<1>3. Head(q) \in Pieces /\ From(Head(q)) = a
  BY <1>1 DEF Chain
<1>4. ASSUME NEW i \in 1..(Len(q) - 1)
      PROVE  From(Tail(q)[i]) = IF i = 1 THEN To(Head(q)) ELSE To(Tail(q)[i - 1])
  <2>1. /\ i + 1 \in 1..Len(q) /\ i + 1 # 1 /\ (i + 1) - 1 = i
        /\ i # 1 => i - 1 \in 1..(Len(q) - 1) /\ (i - 1) + 1 = i
    BY <1>1
  <2>2. From(q[i + 1]) = To(q[i])
    BY <2>1 DEF Chain
  <2> QED
    BY <1>1, <1>2, <2>1, <2>2
<1>5. b = IF Tail(q) = <<>> THEN To(Head(q)) ELSE To(Tail(q)[Len(Tail(q))])
  <2>1. b = To(q[Len(q)])
    BY DEF Chain
  <2>2. CASE Len(q) = 1
    <3>1. Tail(q) = <<>>
      <4>1. Len(Tail(q)) = 0
        BY <1>2, <2>2
      <4> QED
        BY <1>2, <4>1, NoLength
    <3> QED
      BY <1>1, <2>1, <2>2, <3>1
  <2>3. CASE Len(q) # 1
    <3>1. Tail(q) # <<>> /\ Len(q) - 1 \in 1..(Len(q) - 1) /\ (Len(q) - 1) + 1 = Len(q)
      <4>1. PICK k \in Nat : k = Len(q)
        BY <1>1
      <4>2. k - 1 # 0 /\ k - 1 \in 1..(k - 1) /\ (k - 1) + 1 = k
        BY <1>1, <2>3, <4>1
      <4> QED
        BY <1>2, <4>1, <4>2, NoLength
    <3> QED
      BY <1>2, <2>1, <3>1
  <2> QED
    BY <2>2, <2>3
<1> QED
  BY <1>2, <1>3, <1>4, <1>5 DEF Chain
-----------------------------------------------------------------------------
(***************************************************************************)
(* The tail and the pipeline                                               *)
(***************************************************************************)

\* The end of a run.
LEMMA BytesEnd ==
    ASSUME NEW e \in Nat, NEW f \in Nat, NEW k \in Nat, NEW i \in Nat, NEW b \in Nat,
           f = e + k, b + 1 = e + i, e <= b, b <= f
    PROVE  Part(Bytes(e, f), i, k) = Bytes(b, f)
BY BytesPart

\* OutputTail::append, for runs of bytes.
LEMMA TailRuns ==
    ASSUME NEW a \in Nat, NEW e \in Nat, NEW f \in Nat, a <= e, e < f,
           e - a = Shorter(Capacity, e)
    PROVE  \E b \in Nat :
               /\ TailAppend([start |-> a, bytes |-> Bytes(a, e)], Bytes(e, f)) =
                     [start |-> b, bytes |-> Bytes(b, f)]
               /\ b <= f /\ f - b = Shorter(Capacity, f)
<1>0. Capacity \in Nat /\ Capacity > 0
  BY OutputAssumption
<1>1. PICK k \in Nat, l \in Nat : k = f - e /\ l = e - a
  BY f - e \in Nat, e - a \in Nat
<1>2. e <= f /\ k > 0 /\ f = e + k /\ e = a + l /\ f <= f /\ e <= e
  BY <1>1
<1>3. Len(Bytes(a, e)) = l /\ Len(Bytes(e, f)) = k
  BY <1>1, <1>2, BytesFacts
<1>5. CASE k >= Capacity
  <2>1. PICK m \in Nat, b \in Nat, i \in Nat : m = k - Capacity /\ b = e + m /\ i = m + 1
    BY <1>0, <1>5
  <2>2. b <= f /\ f - b = Shorter(Capacity, f) /\ b + 1 = e + i /\ e <= b
    BY <1>0, <1>2, <1>5, <2>1 DEF Shorter
  <2>3. Part(Bytes(e, f), i, k) = Bytes(b, f)
    <3>1. f = e + k /\ b + 1 = e + i /\ e <= b /\ b <= f
      BY <1>2, <2>2
    <3> QED
      BY <3>1, BytesEnd
  <2>4. a + l + (k - Capacity) = b /\ k - Capacity + 1 = i
    BY <1>2, <2>1
  <2>5. TailAppend([start |-> a, bytes |-> Bytes(a, e)], Bytes(e, f)) =
            [start |-> b, bytes |-> Bytes(b, f)]
    BY <1>3, <1>5, <2>3, <2>4 DEF TailAppend, Part
  <2> QED
    BY <2>2, <2>5
<1>6. CASE ~(k >= Capacity)
  <2>1. Excess(l + k, Capacity) \in Nat
    BY <1>0 DEF Excess
  <2>2. PICK x \in Nat, b \in Nat, i \in Nat :
            x = Excess(l + k, Capacity) /\ b = a + x /\ i = x + 1
    BY <2>1
  <2>3. b <= e /\ a <= b /\ b + 1 = a + i
    BY <1>0, <1>2, <1>6, <2>2 DEF Excess
  <2>4. Part(Bytes(a, e), i, l) = Bytes(b, e)
    BY <1>2, <2>3, BytesPart
  <2>5. Bytes(b, e) \o Bytes(e, f) = Bytes(b, f)
    BY <1>2, <2>3, BytesJoin, ZenonT(40)
  <2>6. TailAppend([start |-> a, bytes |-> Bytes(a, e)], Bytes(e, f)) =
            [start |-> b, bytes |-> Bytes(b, f)]
    BY <1>3, <1>6, <2>2, <2>4, <2>5 DEF TailAppend, Part
  <2>7. b <= f /\ f - b = Shorter(Capacity, f)
    BY <1>0, <1>1, <1>2, <1>6, <2>2, <2>3 DEF Excess, Shorter
  <2> QED
    BY <2>6, <2>7
<1> QED
  BY <1>5, <1>6

\* OutputTail::append keeps the newest bytes, as many as it may, at their offsets.
LEMMA TailAppended ==
    ASSUME NEW t \in Tails, NEW e \in Nat, t.start <= e,
           t.bytes = Bytes(t.start, e), Len(t.bytes) = Shorter(Capacity, e),
           NEW c \in Pieces, From(c) = e
    PROVE  /\ TailAppend(t, c) \in Tails
           /\ TailEnd(TailAppend(t, c)) = To(c) /\ TailAppend(t, c).start <= To(c)
           /\ TailAppend(t, c).bytes = Bytes(TailAppend(t, c).start, To(c))
           /\ Len(TailAppend(t, c).bytes) = Shorter(Capacity, To(c))
<1>1. PICK a \in Nat, f \in Nat : a = t.start /\ f = To(c)
  BY PieceFacts DEF Tails
<1>2. e < f /\ c = Bytes(e, f)
  BY <1>1, PieceFacts
<1>3. t = [start |-> a, bytes |-> Bytes(a, e)] /\ a <= e /\ e - a = Shorter(Capacity, e)
  BY <1>1, BytesFacts DEF Tails
<1>4. PICK b \in Nat :
           /\ TailAppend([start |-> a, bytes |-> Bytes(a, e)], Bytes(e, f)) =
                 [start |-> b, bytes |-> Bytes(b, f)]
           /\ b <= f /\ f - b = Shorter(Capacity, f)
  BY <1>2, <1>3, TailRuns
<1>5. Bytes(b, f) \in Seq(Nat) /\ Len(Bytes(b, f)) = f - b
  BY <1>4, BytesFacts
<1>6. TailAppend(t, c) = [start |-> b, bytes |-> Bytes(b, f)]
  BY <1>2, <1>3, <1>4, Zenon
<1>7. /\ TailAppend(t, c).start = b /\ TailAppend(t, c).bytes = Bytes(b, f)
      /\ TailAppend(t, c) \in Tails
  BY <1>5, <1>6 DEF Tails
<1>8. TailEnd(TailAppend(t, c)) = f
  BY <1>4, <1>5, <1>7 DEF TailEnd
<1> QED
  BY <1>1, <1>4, <1>5, <1>7, <1>8

\* A slice and what is left make up the inbox.
LEMMA SliceJoins ==
    ASSUME NEW S, NEW y \in Seq(S), NEW n \in 0..Len(y)
    PROVE  SubSeq(y, 1, n) \o SubSeq(y, n + 1, Len(y)) = y
<1>1. 1 \in 1..(Len(y) + 1) /\ n \in (1 - 1)..Len(y) /\ Len(y) \in n..Len(y)
  OBVIOUS
<1>2. SubSeq(y, 1, n) \o SubSeq(y, n + 1, Len(y)) = SubSeq(y, 1, Len(y))
  BY <1>1, ConcatAdjacentSubSeq
<1>3. SubSeq(y, 1, Len(y)) = y
  BY SubSeqFull
<1> QED
  BY <1>2, <1>3
-----------------------------------------------------------------------------
(***************************************************************************)
(* A step of the host                                                      *)
(***************************************************************************)

\* What may happen to the host's state: a step of the host, a checkpoint that is
\* asked for, or nothing.
HostStep ==
    \/ HostNext
    \/ AskCheckpoint /\ UNCHANGED <<reader, inbox, session, stream, registry>>
    \/ UNCHANGED hostVars

\* take_slice moves chunks and loses none.
LEMMA SliceTaken ==
    ASSUME StreamTypes, TakeSlice, taken = <<>>, UNCHANGED <<rpc, chunk>>
    PROVE  /\ taken' \in Seq(Pieces) /\ chunks' \in Seq(Pieces)
           /\ Pipeline' = Pipeline /\ UNCHANGED closed
           /\ ~more' => chunks' = <<>>
           /\ chunks = <<>> => taken' = <<>> /\ chunks' = <<>>
<1>1. PICK n \in 0..Len(chunks) : /\ taken' = SubSeq(chunks, 1, n)
                                  /\ chunks' = SubSeq(chunks, n + 1, Len(chunks))
                                  /\ more' = (n < Len(chunks)) /\ closed' = closed
  BY DEF TakeSlice
<1>2. chunks \in Seq(Pieces) /\ Len(chunks) \in Nat /\ InHand \in Seq(Pieces) /\ InHand' = InHand
  BY DEF StreamTypes, InHand
<1>3. taken' \in Seq(Pieces) /\ chunks' \in Seq(Pieces)
  BY <1>1, <1>2
<1>4. Pipeline' = Pipeline
  <2>1. <<>> \in Seq(Pieces)
    OBVIOUS
  <2>2. <<>> \o chunks \o InHand =
            SubSeq(chunks, 1, n) \o SubSeq(chunks, n + 1, Len(chunks)) \o InHand
    <3>1. SubSeq(chunks, 1, n) \o SubSeq(chunks, n + 1, Len(chunks)) = chunks
      BY <1>2, SliceJoins
    <3>2. <<>> \o chunks = chunks
      BY <1>2, ConcatEmptySeq
    <3> QED
      BY <3>1, <3>2
  <2> QED
    BY <1>1, <1>2, <2>2 DEF Pipeline
<1>5. ~more' => chunks' = <<>>
  <2>1. ~more' => n = Len(chunks)
    <3>1. ~more' => ~(n < Len(chunks))
      BY <1>1, Zenon
    <3> QED
      BY <1>2, <3>1
  <2>2. SubSeq(chunks, Len(chunks) + 1, Len(chunks)) = <<>>
    BY <1>2
  <2> QED
    BY <1>1, <2>1, <2>2
<1>6. chunks = <<>> => taken' = <<>> /\ chunks' = <<>>
  BY <1>1, <1>2
<1> QED
  BY <1>1, <1>3, <1>4, <1>5, <1>6

\* feed of one chunk: it is the next of the pipeline, and it is published.
LEMMA ChunkFed ==
    ASSUME StreamTypes, FlowInv, ContentInv, FeedOne, spc \in {"feed", "final_feed"},
           UNCHANGED <<rpc, chunk, chunks, closed, read, retired>>
    PROVE  /\ ~closed /\ taken' \in Seq(Pieces) /\ Chain(Pipeline', end_offset', read')
           /\ end_offset' \in Nat /\ end_offset < end_offset'
           /\ tail' \in Tails /\ TailExact' /\ tail'.start <= end_offset'
           /\ terminal' \in Seq(Nat) /\ UNCHANGED <<released, live>>
           /\ ~retired => terminal' = Bytes(0, end_offset')
<1>1. taken # <<>> /\ taken' = Tail(taken) /\ ~closed /\ ~released
  BY DEF FeedOne, FlowInv, ContentInv
<1>2. /\ taken \in Seq(Pieces) /\ chunks \in Seq(Pieces) /\ InHand \in Seq(Pieces)
      /\ InHand' = InHand /\ tail \in Tails /\ end_offset \in Nat /\ terminal \in Seq(Nat)
  BY DEF StreamTypes, InHand
<1>3. PICK c : c = Head(taken)
  OBVIOUS
<1>4. /\ Pipeline # <<>> /\ Head(Pipeline) = c /\ Pipeline' = Tail(Pipeline)
      /\ taken' \in Seq(Pieces)
  <2>1. taken' \in Seq(Pieces)
    BY <1>1, <1>2
  <2>2. /\ taken \o chunks \o InHand # <<>> /\ Head(taken \o chunks \o InHand) = Head(taken)
        /\ Tail(taken \o chunks \o InHand) = Tail(taken) \o chunks \o InHand
    <3>1. /\ taken \in Seq(Pieces) /\ chunks \in Seq(Pieces) /\ InHand \in Seq(Pieces)
          /\ taken # <<>>
      BY <1>1, <1>2
    <3> QED
      BY <3>1
  <2>3. Pipeline' = Tail(taken) \o chunks \o InHand
    BY <1>1, <1>2 DEF Pipeline
  <2> QED
    BY <1>3, <2>1, <2>2, <2>3 DEF Pipeline
<1>5. c \in Pieces /\ From(c) = end_offset /\ Chain(Pipeline', To(c), read)
  BY <1>1, <1>4, ChainTail DEF FlowInv
<1>6. /\ tail' = TailAppend(tail, c) /\ end_offset' = TailEnd(TailAppend(tail, c))
      /\ UNCHANGED <<released, live>> /\ terminal' = terminal \o c
  BY <1>1, <1>3 DEF FeedOne, StreamAppend
<1>7. /\ To(c) \in Nat /\ end_offset < To(c) /\ c = Bytes(end_offset, To(c)) /\ c \in Seq(Nat)
  BY <1>5, PieceFacts
<1>8. /\ tail.bytes = Bytes(tail.start, end_offset) /\ tail.start <= end_offset
      /\ Len(tail.bytes) = Shorter(Capacity, end_offset)
  BY <1>1 DEF ContentInv, TailExact
<1>9. /\ tail' \in Tails /\ end_offset' = To(c) /\ tail'.start <= To(c)
      /\ tail'.bytes = Bytes(tail'.start, To(c))
      /\ Len(tail'.bytes) = Shorter(Capacity, To(c))
  BY <1>2, <1>5, <1>6, <1>8, TailAppended
<1>10. TailExact'
  BY <1>9 DEF TailExact
<1>11. terminal' \in Seq(Nat)
  BY <1>2, <1>6, <1>7
<1>12. ~retired => terminal' = Bytes(0, end_offset')
  <2>1. ~retired => terminal = Bytes(0, end_offset)
    BY DEF ContentInv
  <2>2. Bytes(0, end_offset) \o Bytes(end_offset, To(c)) = Bytes(0, To(c))
    <3>1. 0 \in Nat /\ 0 <= end_offset /\ end_offset <= To(c)
      BY <1>2, <1>7
    <3> QED
      BY <1>2, <1>7, <3>1, BytesJoin
  <2> QED
    BY <1>6, <1>7, <1>9, <2>1, <2>2
<1> QED
  BY <1>1, <1>4, <1>5, <1>6, <1>7, <1>9, <1>10, <1>11, <1>12

\* A message goes into the session thread's channel.
LEMMA MessageSent ==
    ASSUME StreamTypes, NEW m \in Message, channel' = Append(channel, m)
    PROVE  /\ channel' \in Seq(Message)
           /\ \A i \in DOMAIN channel' :
                 \/ i \in DOMAIN channel /\ channel'[i] = channel[i]
                 \/ i = Len(channel) + 1 /\ channel'[i] = m
           /\ \A i \in DOMAIN channel : i # Len(channel) + 1
<1>1. channel \in Seq(Message)
  BY DEF StreamTypes
<1> QED
  BY <1>1

\* A message is taken out of it.
LEMMA MessageTaken ==
    ASSUME StreamTypes, channel # <<>>, channel' = Tail(channel)
    PROVE  /\ channel' \in Seq(Message) /\ Head(channel) = channel[1] /\ 1 \in DOMAIN channel
           /\ \A i \in DOMAIN channel' :
                 i \in Nat /\ i + 1 \in DOMAIN channel /\ channel'[i] = channel[i + 1] /\ i + 1 # 1
<1>1. channel \in Seq(Message)
  BY DEF StreamTypes
<1> QED
  BY <1>1

\* The messages are told apart by what they say.
LEMMA MessageKinds ==
    /\ Ready \in Message /\ Eof \in Message /\ ChildExited \in Message
    /\ \A n \in 1..MaxCheckpoints : Checkpoint(n) \in Message
    /\ Ready # Eof /\ Ready # ChildExited /\ Eof # ChildExited
    /\ Ready.kind # "checkpoint" /\ Eof.kind # "checkpoint" /\ ChildExited.kind # "checkpoint"
    /\ \A n : /\ Checkpoint(n) # Ready /\ Checkpoint(n) # Eof /\ Checkpoint(n) # ChildExited
              /\ Checkpoint(n).kind = "checkpoint" /\ Checkpoint(n).id = n
BY DEF Message, Ready, Eof, ChildExited, Checkpoint

\* An answer that is none.
Refusal(n) == [NoReply EXCEPT !.id = n]

\* What such an answer consists of.
LEMMA RefusalFields ==
    ASSUME NEW n \in Nat
    PROVE  /\ Refusal(n).id = n /\ Refusal(n).ok = FALSE /\ Refusal(n).offset = 0
           /\ Refusal(n).id \in Nat /\ Refusal(n).offset \in Nat
           /\ Refusal(n).snapshot \in Seq(Nat)
<1>1. /\ Refusal(n).id = n /\ Refusal(n).ok = FALSE /\ Refusal(n).offset = 0
      /\ Refusal(n).snapshot = <<>>
  BY DEF Refusal, NoReply
<1>2. <<>> \in Seq(Nat)
  OBVIOUS
<1> QED
  BY <1>1, <1>2

\* The number of the next checkpoint.
LEMMA NextNumber ==
    ASSUME StreamTypes, AskCheckpoint
    PROVE  /\ asked \in Nat /\ asked + 1 \in 1..MaxCheckpoints /\ asked' = asked + 1
           /\ asked + 1 \in Nat /\ asked' \in 0..MaxCheckpoints /\ asked < asked'
<1>1. asked \in 0..MaxCheckpoints
  BY DEF StreamTypes
<1>2. asked < MaxCheckpoints /\ asked' = asked + 1
  BY DEF AskCheckpoint
<1> QED
  BY <1>1, <1>2, OutputAssumption

\* Every step leaves the channel, empties it, or adds or takes one message.
LEMMA ChannelStep ==
    ASSUME StreamTypes, HostStep
    PROVE  \/ UNCHANGED channel \/ channel' = <<>>
           \/ \E m \in Message : channel' = Append(channel, m)
           \/ channel # <<>> /\ channel' = Tail(channel)
<1>1. CASE Notify
  BY <1>1, MessageKinds DEF Notify
<1>2. CASE ReaderEnds
  BY <1>2, MessageKinds DEF ReaderEnds
<1>3. CASE ChildEnds
  BY <1>3, MessageKinds DEF ChildEnds
<1>4. CASE DrainInbox \/ OnEof \/ OnChildExited \/ ServeCheckpoint
  BY <1>4 DEF DrainInbox, OnEof, OnChildExited, ServeCheckpoint, Arrived
<1>5. CASE ReleaseTail
  BY <1>5 DEF ReleaseTail
<1>6. CASE \/ \E n \in 1..ReadBytes : ReadPty(n)
           \/ Push \/ Feed \/ SliceFed \/ FinalSlice \/ FinalFeed \/ FinalNext \/ Finish \/ Complete
           \/ DrainDeadline \/ ReleaseRuntime \/ SessionGone \/ UNCHANGED hostVars
  BY <1>6 DEF ReadPty, Push, Feed, SliceFed, FinalSlice, FinalFeed, FinalNext, Finish, Complete,
              DrainDeadline, ReleaseRuntime, SessionGone, hostVars
<1>7. CASE AskCheckpoint
  <2>1. Checkpoint(asked + 1) \in Message
    BY <1>7, NextNumber, MessageKinds
  <2> QED
    BY <1>7, <2>1 DEF AskCheckpoint
<1> QED
  BY <1>1, <1>2, <1>3, <1>4, <1>5, <1>6, <1>7 DEF HostStep, HostNext, ReaderThread, SessionThread

\* Types are kept.
LEMMA TypesStep ==
    ASSUME HostInv, HostStep
    PROVE  StreamTypes'
<1> USE DEF HostInv
<1>0. channel' \in Seq(Message)
  <2>1. CASE UNCHANGED channel
    BY <2>1 DEF StreamTypes
  <2>2. CASE channel' = <<>>
    BY <2>2
  <2>3. ASSUME NEW m \in Message, channel' = Append(channel, m) PROVE channel' \in Seq(Message)
    BY <2>3, MessageSent
  <2>4. CASE channel # <<>> /\ channel' = Tail(channel)
    BY <2>4, MessageTaken
  <2> QED
    BY <2>1, <2>2, <2>3, <2>4, ChannelStep
<1>1. ASSUME NEW n \in 1..ReadBytes, ReadPty(n) PROVE StreamTypes'
  <2>1. read \in Nat /\ n \in Nat /\ read < read + n /\ read + n \in Nat
    BY OutputAssumption DEF StreamTypes
  <2>2. Bytes(read, read + n) \in Pieces
    BY <2>1, BytesIsPiece
  <2> QED
    BY <1>0, <1>1, <2>1, <2>2
       DEF ReadPty, StreamTypes, inbox, session, flow, ending, engine, stream, registry, checkpoints
<1>2. CASE Push
  <2>1. chunks \in Seq(Pieces) /\ chunk \in Pieces
    BY <1>2 DEF Push, StreamTypes
  <2>2. chunks' \in Seq(Pieces) /\ rpc' \in {"reading", "notifying"}
    BY <1>2, <2>1 DEF Push
  <2> QED
    BY <1>0, <1>2, <2>2
       DEF Push, StreamTypes, session, flow, ending, engine, stream, registry, checkpoints
<1>3. CASE Notify \/ ReaderEnds \/ ChildEnds
  BY <1>0, <1>3 DEF Notify, ReaderEnds, ChildEnds, StreamTypes, reader, inbox, session, flow,
                    ending, engine, stream, registry, checkpoints
<1>4. CASE DrainInbox \/ FinalSlice
  <2>1. /\ TakeSlice /\ taken = <<>> /\ UNCHANGED <<reader, engine, stream, registry, checkpoints>>
        /\ spc' \in {"feed", "final_feed"}
    BY <1>4 DEF DrainInbox, FinalSlice, FlowInv, Arrived
  <2>2. taken' \in Seq(Pieces) /\ chunks' \in Seq(Pieces)
    BY <2>1, SliceTaken DEF reader
  <2> QED
    BY <1>0, <2>1, <2>2 DEF StreamTypes, reader, engine, stream, registry, checkpoints
<1>5. CASE Feed \/ FinalFeed
  <2>1. /\ FeedOne /\ spc \in {"feed", "final_feed"} /\ retired' = retired
        /\ UNCHANGED <<reader, inbox, spc, registry, checkpoints>>
    BY <1>5 DEF Feed, FinalFeed, FeedOne
  <2>2. /\ taken' \in Seq(Pieces) /\ end_offset' \in Nat /\ tail' \in Tails
        /\ terminal' \in Seq(Nat)
    BY <2>1, ChunkFed DEF reader, inbox
  <2> QED
    BY <1>0, <2>1, <2>2 DEF StreamTypes, reader, inbox, registry, checkpoints
<1>6. CASE SliceFed \/ FinalNext \/ DrainDeadline
  BY <1>0, <1>6 DEF SliceFed, FinalNext, DrainDeadline, Finalizes, StreamTypes, reader, inbox, flow,
                    engine, stream, registry, checkpoints
<1>7. CASE OnEof \/ OnChildExited
  BY <1>0, <1>7 DEF OnEof, OnChildExited, Finalizes, StreamTypes, reader, inbox, flow,
                    engine, stream, registry, checkpoints
<1>8. CASE Finish
  <2>1. <<>> \in Seq(Nat)
    OBVIOUS
  <2> QED
    BY <1>0, <1>8, <2>1 DEF Finish, StreamTypes, reader, inbox, flow, registry, checkpoints
<1>9. CASE Complete
  <2>1. <<>> \in Seq(Pieces) /\ record'.final_offset = end_offset
    BY <1>9 DEF Complete
  <2> QED
    BY <1>0, <1>9, <2>1 DEF Complete, StreamTypes, reader, flow, engine, stream, checkpoints
<1>10. CASE ReleaseTail
  <2>1. /\ tail' \in Tails
    <3>1. <<>> \in Seq(Nat) /\ end_offset \in Nat
      BY DEF StreamTypes
    <3> QED
      BY <1>10, <3>1 DEF ReleaseTail, Tails
  <2>2. reply'.id \in Nat /\ reply'.offset \in Nat /\ reply'.snapshot \in Seq(Nat)
    <3>1. /\ Refusal(asked).id \in Nat /\ Refusal(asked).offset \in Nat
          /\ Refusal(asked).snapshot \in Seq(Nat)
      <4>1. asked \in Nat
        BY OutputAssumption DEF StreamTypes
      <4> QED
        BY <4>1, RefusalFields
    <3>2. reply' = Refusal(asked) \/ reply' = reply
      BY <1>10 DEF ReleaseTail, Refusal
    <3>3. reply.id \in Nat /\ reply.offset \in Nat /\ reply.snapshot \in Seq(Nat)
      BY DEF StreamTypes
    <3> QED
      BY <3>1, <3>2, <3>3
  <2> QED
    BY <1>0, <1>10, <2>1, <2>2 DEF ReleaseTail, StreamTypes, reader, inbox, flow, engine, registry
<1>11. CASE ServeCheckpoint
  <2>1. reply'.id \in Nat /\ reply'.offset \in Nat /\ reply'.snapshot \in Seq(Nat)
    BY <1>11 DEF ServeCheckpoint, StreamTypes
  <2> QED
    BY <1>0, <1>11, <2>1 DEF ServeCheckpoint, StreamTypes, reader, inbox, session, flow, ending,
                             engine, stream, registry
<1>12. CASE AskCheckpoint /\ UNCHANGED <<reader, inbox, session, stream, registry>>
  <2>1. /\ asked' \in 0..MaxCheckpoints
        /\ reply'.id \in Nat /\ reply'.offset \in Nat /\ reply'.snapshot \in Seq(Nat)
    <3>1. asked' \in 0..MaxCheckpoints /\ asked + 1 \in Nat
      BY <1>12, NextNumber
    <3>2. /\ Refusal(asked + 1).id \in Nat /\ Refusal(asked + 1).offset \in Nat
          /\ Refusal(asked + 1).snapshot \in Seq(Nat)
      BY <3>1, RefusalFields
    <3>3. reply' = Refusal(asked + 1) \/ reply' = reply
      BY <1>12 DEF AskCheckpoint, Refusal
    <3>4. reply.id \in Nat /\ reply.offset \in Nat /\ reply.snapshot \in Seq(Nat)
      BY DEF StreamTypes
    <3> QED
      BY <3>1, <3>2, <3>3, <3>4
  <2> QED
    BY <1>0, <1>12, <2>1 DEF StreamTypes, reader, inbox, session, flow, ending, engine, stream,
                             registry
<1>13. CASE ReleaseRuntime \/ SessionGone \/ UNCHANGED hostVars
  BY <1>0, <1>13 DEF ReleaseRuntime, SessionGone, hostVars, StreamTypes, reader, inbox, session,
                     flow, ending, engine, stream, registry, checkpoints
<1> QED
  BY <1>1, <1>2, <1>3, <1>4, <1>5, <1>6, <1>7, <1>8, <1>9, <1>10, <1>11, <1>12, <1>13
     DEF HostStep, HostNext, ReaderThread, SessionThread

\* The chunks stay in order, and what is published grows.
LEMMA FlowStep ==
    ASSUME HostInv, HostStep
    PROVE  FlowInv' /\ end_offset <= end_offset'
<1> USE DEF HostInv
<1>0. /\ taken \in Seq(Pieces) /\ chunks \in Seq(Pieces) /\ InHand \in Seq(Pieces)
      /\ end_offset \in Nat /\ read \in Nat
  BY DEF StreamTypes, InHand
<1>a. ASSUME UNCHANGED <<taken, chunks, closed, read, end_offset>>,
             rpc' = "pushing" <=> rpc = "pushing", rpc = "pushing" => chunk' = chunk,
             spc' \in {"serve", "finalize", "complete", "ended"} => taken = <<>>
      PROVE  FlowInv' /\ end_offset <= end_offset'
  <2>1. InHand' = InHand
    BY <1>a DEF InHand
  <2>2. Pipeline' = Pipeline
    BY <1>a, <2>1 DEF Pipeline
  <2>3. (~closed => Chain(Pipeline, end_offset, read))'
    BY <1>a, <2>2 DEF FlowInv
  <2> QED
    BY <1>0, <1>a, <2>3 DEF FlowInv
<1>1. ASSUME NEW n \in 1..ReadBytes, ReadPty(n) PROVE FlowInv' /\ end_offset <= end_offset'
  <2>1. /\ rpc = "reading" /\ rpc' = "pushing" /\ chunk' = Bytes(read, read + n)
        /\ read' = read + n /\ UNCHANGED <<taken, chunks, closed, end_offset, spc>>
    BY <1>1 DEF ReadPty, inbox, session, flow, stream
  <2>2. n \in Nat /\ read < read + n /\ read + n \in Nat
    BY <1>0, OutputAssumption
  <2>3. chunk' \in Pieces /\ From(chunk') = read /\ To(chunk') = read'
    BY <1>0, <2>1, <2>2, BytesIsPiece
  <2>4. Pipeline' = Append(Pipeline, chunk')
    <3>1. InHand = <<>> /\ InHand' = <<chunk'>>
      BY <2>1 DEF InHand
    <3>2. Pipeline' = taken \o chunks \o <<chunk'>> /\ Pipeline = taken \o chunks \o <<>>
      BY <2>1, <3>1 DEF Pipeline
    <3>3. taken \o chunks \o <<chunk'>> = Append(taken \o chunks \o <<>>, chunk')
      BY <1>0, <2>3
    <3> QED
      BY <3>2, <3>3
  <2>5. ASSUME ~closed PROVE Chain(Pipeline', end_offset', read')
    <3>1. Chain(Pipeline, end_offset, read)
      BY <2>5 DEF FlowInv
    <3> QED
      BY <2>1, <2>3, <2>4, <3>1, ChainAppend
  <2> QED
    BY <1>0, <2>1, <2>5 DEF FlowInv
<1>2. CASE Push
  <2>1. /\ rpc = "pushing" /\ rpc' # "pushing" /\ UNCHANGED <<taken, closed, read, end_offset, spc>>
        /\ closed => UNCHANGED chunks
        /\ ~closed => chunks' = Append(chunks, chunk)
    BY <1>2 DEF Push, session, flow, stream
  <2>2. ASSUME ~closed PROVE Pipeline' = Pipeline
    <3>1. InHand = <<chunk>> /\ InHand' = <<>> /\ chunk \in Pieces
      BY <2>1 DEF InHand, StreamTypes
    <3>2. /\ Pipeline' = taken \o Append(chunks, chunk) \o <<>>
          /\ Pipeline = taken \o chunks \o <<chunk>>
      BY <2>1, <2>2, <3>1 DEF Pipeline
    <3>3. taken \o Append(chunks, chunk) \o <<>> = taken \o chunks \o <<chunk>>
      BY <1>0, <3>1
    <3> QED
      BY <3>2, <3>3
  <2>3. (~closed => Chain(Pipeline, end_offset, read))'
    BY <2>1, <2>2 DEF FlowInv
  <2> QED
    BY <1>0, <2>1, <2>3 DEF FlowInv
<1>3. CASE DrainInbox \/ FinalSlice
  <2>1. /\ TakeSlice /\ taken = <<>> /\ UNCHANGED <<reader, stream>>
        /\ spc' \in {"feed", "final_feed"}
    BY <1>3 DEF DrainInbox, FinalSlice, FlowInv, Arrived
  <2>2. /\ Pipeline' = Pipeline /\ UNCHANGED closed
        /\ chunks = <<>> => taken' = <<>> /\ chunks' = <<>>
    BY <2>1, SliceTaken DEF reader
  <2>3. (~closed => Chain(Pipeline, end_offset, read))'
    BY <2>1, <2>2 DEF FlowInv, stream, reader
  <2> QED
    BY <1>0, <2>1, <2>2, <2>3 DEF FlowInv, stream
<1>4. CASE Feed \/ FinalFeed
  <2>1. /\ FeedOne /\ spc \in {"feed", "final_feed"} /\ UNCHANGED <<reader, inbox, spc, retired>>
    BY <1>4 DEF Feed, FinalFeed, FeedOne
  <2>2. /\ ~closed /\ Chain(Pipeline', end_offset', read') /\ end_offset' \in Nat
        /\ end_offset < end_offset'
    BY <2>1, ChunkFed DEF reader, inbox
  <2> QED
    BY <1>0, <2>1, <2>2 DEF FlowInv, inbox
<1>5. CASE Complete
  <2>1. closed' /\ chunks' = <<>> /\ taken' = taken /\ taken = <<>> /\ UNCHANGED end_offset
    BY <1>5 DEF Complete, FlowInv, flow, stream
  <2> QED
    BY <1>0, <2>1 DEF FlowInv
<1>6. CASE Notify \/ ReaderEnds
  BY <1>a, <1>6 DEF Notify, ReaderEnds, inbox, session, flow, stream, FlowInv
<1>7. CASE SliceFed \/ FinalNext \/ DrainDeadline \/ Finish
  BY <1>a, <1>7 DEF SliceFed, FinalNext, DrainDeadline, Finish, Finalizes, reader, inbox, flow,
                    stream, FlowInv
<1>8. CASE OnEof \/ OnChildExited
  BY <1>a, <1>8 DEF OnEof, OnChildExited, Finalizes, Arrived, reader, inbox, flow, stream, FlowInv
<1>9. CASE ReleaseTail
  BY <1>a, <1>9 DEF ReleaseTail, reader, inbox, flow, FlowInv
<1>10. CASE ChildEnds \/ ServeCheckpoint
  BY <1>a, <1>10 DEF ChildEnds, ServeCheckpoint, reader, inbox, session, flow, stream, FlowInv
<1>11. CASE \/ ReleaseRuntime \/ SessionGone \/ UNCHANGED hostVars
            \/ AskCheckpoint /\ UNCHANGED <<reader, inbox, session, stream, registry>>
  BY <1>a, <1>11 DEF ReleaseRuntime, SessionGone, hostVars, reader, inbox, session, flow, stream,
                     FlowInv
<1> QED
  BY <1>1, <1>2, <1>3, <1>4, <1>5, <1>6, <1>7, <1>8, <1>9, <1>10, <1>11
     DEF HostStep, HostNext, ReaderThread, SessionThread

\* The tail and the terminal follow what is published.
LEMMA ContentStep ==
    ASSUME HostInv, HostStep
    PROVE  ContentInv'
<1> USE DEF HostInv
<1>a. ASSUME UNCHANGED <<tail, end_offset, released, terminal>>, retired => retired',
             spc = "ended" => spc' = "ended"
      PROVE  ContentInv'
  BY <1>a DEF ContentInv, TailExact
<1>1. CASE Feed \/ FinalFeed
  <2>1. /\ FeedOne /\ spc \in {"feed", "final_feed"} /\ UNCHANGED <<reader, inbox, spc, retired>>
    BY <1>1 DEF Feed, FinalFeed, FeedOne
  <2>2. /\ TailExact' /\ tail'.start <= end_offset' /\ UNCHANGED released
        /\ ~retired => terminal' = Bytes(0, end_offset')
    BY <2>1, ChunkFed DEF reader, inbox
  <2> QED
    BY <2>1, <2>2 DEF ContentInv
<1>2. CASE Finish
  <2>1. UNCHANGED <<tail, end_offset, released>> /\ retired' /\ spc # "ended"
    BY <1>2 DEF Finish
  <2> QED
    BY <2>1 DEF ContentInv, TailExact
<1>3. CASE ReleaseTail
  <2>1. /\ released' /\ spc' = "ended" /\ tail'.start = end_offset
        /\ UNCHANGED <<end_offset, terminal, retired>> /\ end_offset \in Nat
    BY <1>3 DEF ReleaseTail, engine, StreamTypes
  <2> QED
    BY <2>1 DEF ContentInv, TailExact
<1>4. CASE \/ \E n \in 1..ReadBytes : ReadPty(n)
           \/ Push \/ Notify \/ ReaderEnds \/ ChildEnds \/ DrainInbox \/ SliceFed
  BY <1>a, <1>4 DEF ReadPty, Push, Notify, ReaderEnds, ChildEnds, DrainInbox, Arrived, SliceFed,
                    session, engine, stream
<1>5. CASE OnEof \/ OnChildExited \/ DrainDeadline \/ FinalSlice \/ FinalNext \/ Complete
  BY <1>a, <1>5 DEF OnEof, OnChildExited, Arrived, DrainDeadline, FinalSlice, FinalNext, Complete,
                    engine, stream
<1>6. CASE \/ ServeCheckpoint \/ ReleaseRuntime \/ SessionGone \/ UNCHANGED hostVars
           \/ AskCheckpoint /\ UNCHANGED <<reader, inbox, session, stream, registry>>
  BY <1>a, <1>6 DEF ServeCheckpoint, ReleaseRuntime, SessionGone, hostVars, session, engine, stream
<1> QED
  BY <1>1, <1>2, <1>3, <1>4, <1>5, <1>6 DEF HostStep, HostNext, ReaderThread, SessionThread

\* The channel keeps one notice of the child's end, and the end of file last.
LEMMA MessagesStep ==
    ASSUME HostInv, HostStep
    PROVE  MessagesInv'
<1> USE DEF HostInv
<1>a. ASSUME UNCHANGED channel \/ channel' = <<>>,
             rpc = "done" => rpc' = "done", exited' => exited, reader_eof' => reader_eof
      PROVE  MessagesInv'
  <2>1. CASE UNCHANGED channel
    BY <1>a, <2>1 DEF MessagesInv
  <2>2. CASE channel' = <<>>
    <3>1. DOMAIN channel' = {}
      BY <2>2
    <3> QED
      BY <1>a, <3>1 DEF MessagesInv
  <2> QED
    BY <1>a, <2>1, <2>2
<1>b. ASSUME NEW m \in Message, channel' = Append(channel, m),
             rpc = "done" => rpc' = "done", exited' => exited, reader_eof' => reader_eof,
             m = Eof => rpc' = "done",
             m = ChildExited => ~exited /\ ChildExited \notin {channel[i] : i \in DOMAIN channel}
      PROVE  MessagesInv'
  <2>1. /\ \A i \in DOMAIN channel' :
              \/ i \in DOMAIN channel /\ channel'[i] = channel[i]
              \/ i = Len(channel) + 1 /\ channel'[i] = m
        /\ \A i \in DOMAIN channel : i # Len(channel) + 1
    BY <1>b, MessageSent
  <2>2. m = ChildExited => \A i \in DOMAIN channel : channel[i] # ChildExited
    BY <1>b
  <2>3. \A i, j \in DOMAIN channel' :
            channel'[i] = ChildExited /\ channel'[j] = ChildExited => i = j
    BY <2>1, <2>2 DEF MessagesInv
  <2>4. exited' => \A i \in DOMAIN channel' : channel'[i] # ChildExited
    BY <1>b, <2>1 DEF MessagesInv
  <2>5. \A i \in DOMAIN channel' : channel'[i] = Eof => rpc' = "done"
    BY <1>b, <2>1 DEF MessagesInv
  <2> QED
    BY <1>b, <2>3, <2>4, <2>5 DEF MessagesInv
<1>c. ASSUME channel # <<>>, channel' = Tail(channel), rpc = "done" => rpc' = "done",
             exited' => exited \/ Head(channel) = ChildExited,
             reader_eof' => reader_eof \/ Head(channel) = Eof
      PROVE  MessagesInv'
  <2>1. /\ Head(channel) = channel[1] /\ 1 \in DOMAIN channel
        /\ \A i \in DOMAIN channel' :
              i \in Nat /\ i + 1 \in DOMAIN channel /\ channel'[i] = channel[i + 1] /\ i + 1 # 1
    BY <1>c, MessageTaken
  <2>2. ASSUME NEW i \in DOMAIN channel', NEW j \in DOMAIN channel',
               channel'[i] = ChildExited, channel'[j] = ChildExited
        PROVE  i = j
    <3>1. i + 1 = j + 1
      BY <2>1, <2>2 DEF MessagesInv
    <3>2. i \in Nat /\ j \in Nat
      BY <2>1
    <3> QED
      BY <3>1, <3>2
  <2>3. exited' => \A i \in DOMAIN channel' : channel'[i] # ChildExited
    BY <1>c, <2>1 DEF MessagesInv
  <2>4. \A i \in DOMAIN channel' : channel'[i] = Eof => rpc' = "done"
    BY <1>c, <2>1 DEF MessagesInv
  <2>5. reader_eof' => rpc' = "done"
    BY <1>c, <2>1 DEF MessagesInv
  <2> QED
    BY <2>2, <2>3, <2>4, <2>5 DEF MessagesInv
<1>1. ASSUME NEW n \in 1..ReadBytes, ReadPty(n) PROVE MessagesInv'
  BY <1>1, <1>a DEF ReadPty, session, ending
<1>2. CASE Push
  BY <1>2, <1>a DEF Push, session, ending
<1>3. CASE Notify
  <2>1. CASE spc = "ended"
    BY <1>3, <2>1, <1>a DEF Notify, session, ending
  <2>2. CASE spc # "ended"
    BY <1>3, <2>2, <1>b, MessageKinds DEF Notify, session, ending
  <2> QED
    BY <2>1, <2>2
<1>4. CASE ReaderEnds
  <2>1. CASE spc = "ended"
    BY <1>4, <2>1, <1>a DEF ReaderEnds, session, ending
  <2>2. CASE spc # "ended"
    BY <1>4, <2>2, <1>b, MessageKinds DEF ReaderEnds, session, ending
  <2> QED
    BY <2>1, <2>2
<1>5. CASE ChildEnds
  BY <1>5, <1>b, MessageKinds DEF ChildEnds, reader, session, ending
<1>6. CASE DrainInbox
  BY <1>6, <1>a, <1>c DEF DrainInbox, Arrived, reader, ending
<1>7. CASE OnEof
  BY <1>7, <1>c DEF OnEof, Arrived, reader
<1>8. CASE OnChildExited
  BY <1>8, <1>c DEF OnChildExited, Arrived, reader
<1>9. CASE ServeCheckpoint
  BY <1>9, <1>c DEF ServeCheckpoint, Arrived, reader, session, ending
<1>10. CASE Feed \/ SliceFed \/ DrainDeadline \/ FinalSlice \/ FinalFeed \/ FinalNext \/ Finish
  BY <1>10, <1>a DEF Feed, SliceFed, DrainDeadline, Finalizes, FinalSlice, FinalFeed, FinalNext,
                     Finish, reader, ending
<1>11. CASE Complete \/ ReleaseTail
  BY <1>11, <1>a DEF Complete, ReleaseTail, reader
<1>12. CASE ReleaseRuntime \/ SessionGone \/ UNCHANGED hostVars
  BY <1>12, <1>a DEF ReleaseRuntime, SessionGone, hostVars, reader, session, ending
<1>13. CASE AskCheckpoint /\ UNCHANGED <<reader, inbox, session, stream, registry>>
  <2>1. /\ Checkpoint(asked + 1) \in Message
        /\ Checkpoint(asked + 1) # Eof /\ Checkpoint(asked + 1) # ChildExited
    BY <1>13, NextNumber, MessageKinds
  <2>2. CASE channel' = Append(channel, Checkpoint(asked + 1))
    BY <1>13, <2>1, <2>2, <1>b DEF reader, session, ending
  <2>3. CASE UNCHANGED channel
    BY <1>13, <2>3, <1>a DEF reader, session, ending
  <2> QED
    BY <1>13, <2>2, <2>3 DEF AskCheckpoint
<1> QED
  BY <1>1, <1>2, <1>3, <1>4, <1>5, <1>6, <1>7, <1>8, <1>9, <1>10, <1>11, <1>12, <1>13
     DEF HostStep, HostNext, ReaderThread, SessionThread

\* The session ends in order.
LEMMA EndStep ==
    ASSUME HostInv, HostStep
    PROVE  EndInv'
<1> USE DEF HostInv
<1>a. ASSUME UNCHANGED <<read, chunks, closed, spc, more, exited, reader_eof, drain_deadline,
                         tail_release, whole, completed, live, end_offset, record>>
      PROVE  EndInv'
  BY <1>a DEF EndInv
<1>1. ASSUME NEW n \in 1..ReadBytes, ReadPty(n) PROVE EndInv'
  <2>1. /\ UNCHANGED <<chunks, closed, spc, more, exited, reader_eof, drain_deadline,
                       tail_release, whole, completed, live, end_offset, record>>
        /\ rpc = "reading"
    BY <1>1 DEF ReadPty, inbox, session, flow, ending, stream, registry
  <2>2. ~reader_eof
    BY <2>1 DEF MessagesInv
  <2> QED
    BY <2>1, <2>2 DEF EndInv
<1>2. CASE Push
  <2>1. /\ UNCHANGED <<read, closed, spc, more, exited, reader_eof, drain_deadline,
                       tail_release, whole, completed, live, end_offset, record>>
        /\ rpc = "pushing"
    BY <1>2 DEF Push, inbox, session, flow, ending, stream, registry
  <2>2. ~reader_eof
    BY <2>1 DEF MessagesInv
  <2> QED
    BY <2>1, <2>2 DEF EndInv
<1>3. CASE Notify \/ ReaderEnds \/ ChildEnds
  BY <1>3, <1>a DEF Notify, ReaderEnds, ChildEnds, reader, inbox, session, flow, ending, stream,
                    registry
<1>4. CASE DrainInbox \/ SliceFed
  <2>1. /\ UNCHANGED <<closed, exited, reader_eof, drain_deadline, read,
                       tail_release, whole, completed, live, end_offset, record>>
        /\ spc \in {"serve", "feed"} /\ spc' \in {"serve", "feed"}
    BY <1>4 DEF DrainInbox, SliceFed, Arrived, TakeSlice, reader, inbox, ending, stream, registry
  <2> QED
    BY <2>1 DEF EndInv, Ending
<1>5. CASE FinalSlice
  <2>1. /\ UNCHANGED <<exited, reader_eof, drain_deadline, read,
                       tail_release, whole, completed, live, end_offset, record>>
        /\ spc = "finalize" /\ spc' = "final_feed" /\ TakeSlice /\ taken = <<>>
        /\ UNCHANGED <<rpc, chunk>>
    BY <1>5 DEF FinalSlice, FlowInv, reader, ending, stream, registry
  <2>2. UNCHANGED closed /\ (~more' => chunks' = <<>>)
    BY <2>1, SliceTaken
  <2> QED
    BY <2>1, <2>2 DEF EndInv, Ending
<1>6. CASE Feed \/ FinalFeed
  <2>1. /\ UNCHANGED <<exited, reader_eof, drain_deadline, read, chunks, closed, more, spc,
                       tail_release, whole, completed, record>>
        /\ FeedOne /\ spc \in {"feed", "final_feed"} /\ UNCHANGED <<rpc, chunk, retired>>
    BY <1>6 DEF Feed, FinalFeed, FeedOne, reader, inbox, ending, registry
  <2>2. ~closed /\ UNCHANGED live
    BY <2>1, ChunkFed
  <2>3. record = NoRecord
    BY <2>2 DEF EndInv
  <2>4. record.complete = FALSE
    BY <2>3 DEF NoRecord
  <2> QED
    BY <2>1, <2>2, <2>4 DEF EndInv
<1>7. CASE OnEof
  <2>1. /\ UNCHANGED <<exited, read, chunks, closed, more, tail_release, completed, live,
                       end_offset, record>>
        /\ reader_eof' /\ spc = "serve"
        /\ \/ spc' = "finalize" /\ exited /\ ~completed /\ ~drain_deadline'
           \/ UNCHANGED <<spc, whole, drain_deadline>>
    BY <1>7 DEF OnEof, Finalizes, Arrived, reader, inbox, flow, stream, registry
  <2> QED
    BY <2>1 DEF EndInv, Ending
<1>8. CASE OnChildExited
  <2>1. /\ UNCHANGED <<reader_eof, read, chunks, closed, more, tail_release, completed, live,
                       end_offset, record>>
        /\ exited' /\ spc = "serve"
        /\ \/ spc' = "finalize" /\ reader_eof /\ ~drain_deadline'
           \/ UNCHANGED <<spc, whole>>
        /\ channel # <<>> /\ Head(channel) = ChildExited /\ channel' = Tail(channel)
    BY <1>8 DEF OnChildExited, Finalizes, Arrived, reader, inbox, flow, stream, registry
  <2>2. ~exited
    <3>1. Head(channel) = channel[1] /\ 1 \in DOMAIN channel
      BY <2>1, MessageTaken
    <3> QED
      BY <2>1, <3>1 DEF MessagesInv
  <2> QED
    BY <2>1, <2>2 DEF EndInv, Ending
<1>9. CASE DrainDeadline
  <2>1. /\ UNCHANGED <<exited, reader_eof, read, chunks, closed, more, tail_release, completed,
                       live, end_offset, record>>
        /\ spc = "serve" /\ spc' = "finalize" /\ drain_deadline /\ ~drain_deadline' /\ ~whole'
    BY <1>9 DEF DrainDeadline, Finalizes, reader, inbox, flow, stream, registry
  <2> QED
    BY <2>1 DEF EndInv, Ending
<1>10. CASE FinalNext
  <2>1. /\ UNCHANGED <<exited, reader_eof, read, chunks, closed, more, tail_release, completed,
                       live, end_offset, record, drain_deadline, whole>>
        /\ spc = "final_feed" /\ spc' = "finalize"
    BY <1>10 DEF FinalNext, reader, inbox, flow, ending, stream, registry
  <2> QED
    BY <2>1 DEF EndInv, Ending
<1>11. CASE Finish
  <2>1. /\ UNCHANGED <<exited, reader_eof, read, chunks, closed, more, tail_release,
                       end_offset, record, drain_deadline, whole>>
        /\ spc = "final_feed" /\ spc' = "complete" /\ ~more /\ completed' /\ ~live'
    BY <1>11 DEF Finish, reader, inbox, flow, registry
  <2> QED
    BY <2>1 DEF EndInv, Ending
<1>12. CASE Complete
  <2>1. /\ UNCHANGED <<exited, reader_eof, read, more, end_offset, drain_deadline, whole,
                       completed, live>>
        /\ closed' /\ chunks' = <<>> /\ tail_release' /\ spc = "complete" /\ spc' = "serve"
        /\ record'.final_offset = end_offset /\ record'.filed
        /\ record'.complete => whole /\ reader_eof
    BY <1>12 DEF Complete, reader, flow, stream
  <2>2. ASSUME whole PROVE end_offset = read
    <3>1. ~closed /\ chunks = <<>> /\ taken = <<>> /\ reader_eof
      BY <2>1, <2>2 DEF EndInv, FlowInv, Ending
    <3>2. Pipeline = <<>>
      <4>1. InHand = <<>>
        BY <3>1 DEF InHand, MessagesInv
      <4>2. <<>> \o <<>> \o <<>> = <<>>
        BY ConcatEmptySeq
      <4> QED
        BY <3>1, <4>1, <4>2 DEF Pipeline
    <3> QED
      BY <3>1, <3>2 DEF FlowInv, Chain
  <2> QED
    BY <2>1, <2>2 DEF EndInv, Ending
<1>13. CASE ReleaseTail
  <2>1. /\ UNCHANGED <<exited, reader_eof, read, chunks, closed, more, end_offset, drain_deadline,
                       whole, completed, record>>
        /\ ~tail_release' /\ tail_release /\ spc = "serve" /\ spc' = "ended" /\ ~live'
    BY <1>13 DEF ReleaseTail, reader, inbox, flow, registry
  <2> QED
    BY <2>1 DEF EndInv, Ending
<1>14. CASE \/ ServeCheckpoint \/ ReleaseRuntime \/ SessionGone \/ UNCHANGED hostVars
            \/ AskCheckpoint /\ UNCHANGED <<reader, inbox, session, stream, registry>>
  BY <1>14, <1>a DEF ServeCheckpoint, ReleaseRuntime, SessionGone, hostVars, reader, inbox, session,
                     flow, ending, stream, registry
<1> QED
  BY <1>1, <1>2, <1>3, <1>4, <1>5, <1>6, <1>7, <1>8, <1>9, <1>10, <1>11, <1>12, <1>13, <1>14
     DEF HostStep, HostNext, ReaderThread, SessionThread

\* A checkpoint is answered at most once, by what was published.
LEMMA ReplyStep ==
    ASSUME HostInv, HostStep
    PROVE  ReplyInv'
<1> USE DEF HostInv
<1>0. asked \in Nat /\ end_offset \in Nat /\ reply.id \in Nat /\ reply.offset \in Nat
  BY OutputAssumption DEF StreamTypes
<1>1. end_offset' \in Nat /\ end_offset <= end_offset'
  <2>1. end_offset' \in Nat
    BY TypesStep DEF StreamTypes
  <2> QED
    BY <2>1, FlowStep
<1>2. reply.ok => reply.snapshot = Bytes(0, reply.offset) /\ reply.offset <= end_offset'
  BY <1>0, <1>1 DEF ReplyInv
<1>a. ASSUME UNCHANGED <<asked, reply>>, UNCHANGED channel
      PROVE  ReplyInv'
  BY <1>a, <1>2 DEF ReplyInv
<1>b. ASSUME UNCHANGED <<asked, reply>>, NEW m \in Message, channel' = Append(channel, m),
             m.kind # "checkpoint"
      PROVE  ReplyInv'
  <2>1. /\ \A i \in DOMAIN channel' :
              \/ i \in DOMAIN channel /\ channel'[i] = channel[i]
              \/ i = Len(channel) + 1 /\ channel'[i] = m
    BY <1>b, MessageSent
  <2>2. m # Checkpoint(asked)
    BY <1>b, MessageKinds
  <2> QED
    BY <1>b, <1>2, <2>1, <2>2 DEF ReplyInv
<1>c. ASSUME UNCHANGED asked, channel # <<>>, channel' = Tail(channel),
             \/ UNCHANGED reply
             \/ /\ Head(channel) = Checkpoint(asked) /\ reply'.id = asked
                /\ reply'.ok => reply'.snapshot = Bytes(0, reply'.offset)
                                /\ reply'.offset <= end_offset'
      PROVE  ReplyInv'
  <2>1. /\ Head(channel) = channel[1] /\ 1 \in DOMAIN channel
        /\ \A i \in DOMAIN channel' :
              i \in Nat /\ i + 1 \in DOMAIN channel /\ channel'[i] = channel[i + 1] /\ i + 1 # 1
    BY <1>c, MessageTaken
  <2>2. reply'.ok => reply'.snapshot = Bytes(0, reply'.offset) /\ reply'.offset <= end_offset'
    BY <1>c, <1>2
  <2>3. \A i \in DOMAIN channel' : channel'[i].kind = "checkpoint" => channel'[i].id <= asked
    BY <2>1 DEF ReplyInv
  <2>4. ASSUME NEW i \in DOMAIN channel', NEW j \in DOMAIN channel',
               channel'[i] = Checkpoint(asked), channel'[j] = Checkpoint(asked)
        PROVE  i = j
    <3>1. i + 1 = j + 1
      BY <2>1, <2>4 DEF ReplyInv
    <3>2. i \in Nat /\ j \in Nat
      BY <2>1
    <3> QED
      BY <3>1, <3>2
  <2>5. reply'.id <= asked
    BY <1>0, <1>c DEF ReplyInv
  <2>6. reply'.id = asked => \A i \in DOMAIN channel' : channel'[i] # Checkpoint(asked)
    BY <1>c, <2>1 DEF ReplyInv
  <2> QED
    BY <1>c, <2>2, <2>3, <2>4, <2>5, <2>6 DEF ReplyInv
<1>3. CASE Notify
  BY <1>3, <1>a, <1>b, MessageKinds DEF Notify, checkpoints
<1>4. CASE ReaderEnds
  <2>1. UNCHANGED channel \/ channel' = Append(channel, Eof)
    BY <1>4 DEF ReaderEnds
  <2> QED
    BY <1>4, <2>1, <1>a, <1>b, MessageKinds DEF ReaderEnds, checkpoints
<1>5. CASE ChildEnds
  BY <1>5, <1>b, MessageKinds DEF ChildEnds, checkpoints
<1>6. CASE DrainInbox
  BY <1>6, <1>a, <1>c DEF DrainInbox, Arrived, checkpoints
<1>7. CASE OnEof \/ OnChildExited
  BY <1>7, <1>c DEF OnEof, OnChildExited, Arrived, checkpoints
<1>8. CASE ServeCheckpoint
  <2>1. PICK n \in 1..asked :
            /\ Arrived(Checkpoint(n))
            /\ reply' = IF n = asked
                        THEN [id |-> n, ok |-> ~retired, offset |-> end_offset,
                              snapshot |-> terminal]
                        ELSE reply
    BY <1>8 DEF ServeCheckpoint
  <2>2. channel # <<>> /\ channel' = Tail(channel) /\ Head(channel) = Checkpoint(n)
    BY <2>1 DEF Arrived
  <2>3. UNCHANGED asked /\ UNCHANGED end_offset
    BY <1>8 DEF ServeCheckpoint, stream
  <2>4. CASE n = asked
    <3>1. /\ reply'.id = asked /\ reply'.ok = ~retired /\ reply'.offset = end_offset
          /\ reply'.snapshot = terminal
      BY <2>1, <2>4
    <3>2. reply'.ok => reply'.snapshot = Bytes(0, reply'.offset) /\ reply'.offset <= end_offset'
      <4>1. reply'.ok => ~retired
        BY <3>1, Zenon
      <4>2. ~retired => terminal = Bytes(0, end_offset)
        BY DEF ContentInv
      <4>3. reply'.offset <= end_offset'
        BY <1>0, <2>3, <3>1
      <4> QED
        BY <3>1, <4>1, <4>2, <4>3
    <3> QED
      BY <1>c, <2>2, <2>3, <2>4, <3>1, <3>2
  <2>5. CASE n # asked
    BY <1>c, <2>1, <2>2, <2>3, <2>5
  <2> QED
    BY <2>4, <2>5
<1>9. CASE ReleaseTail
  <2>1. channel' = <<>> /\ UNCHANGED asked /\ DOMAIN channel' = {}
    BY <1>9 DEF ReleaseTail
  <2>2. reply' = Refusal(asked) \/ reply' = reply
    BY <1>9 DEF ReleaseTail, Refusal
  <2>3. Refusal(asked).id = asked /\ Refusal(asked).ok = FALSE
    BY <1>0, RefusalFields
  <2>4. reply'.id <= asked
    BY <1>0, <2>2, <2>3 DEF ReplyInv
  <2>5. reply'.ok => reply'.snapshot = Bytes(0, reply'.offset) /\ reply'.offset <= end_offset'
    BY <1>2, <2>2, <2>3
  <2> QED
    BY <2>1, <2>4, <2>5 DEF ReplyInv
<1>10. CASE AskCheckpoint /\ UNCHANGED <<reader, inbox, session, stream, registry>>
  <2>1. asked' = asked + 1 /\ asked + 1 \in Nat /\ Checkpoint(asked + 1) \in Message
    BY <1>10, NextNumber, MessageKinds
  <2>2. ASSUME NEW i \in DOMAIN channel
        PROVE  /\ channel[i] # Checkpoint(asked + 1)
               /\ channel[i].kind = "checkpoint" => channel[i].id <= asked + 1
    <3>1. channel[i].kind = "checkpoint" => channel[i].id \in Nat /\ channel[i].id <= asked
      <4>1. channel[i] \in Message
        BY <2>2 DEF StreamTypes
      <4>2. channel[i].kind = "checkpoint" => channel[i].id \in Nat
        BY <4>1, OutputAssumption, MessageKinds DEF Message
      <4> QED
        BY <2>2, <4>2 DEF ReplyInv
    <3>2. Checkpoint(asked + 1).kind = "checkpoint" /\ Checkpoint(asked + 1).id = asked + 1
      BY MessageKinds
    <3> QED
      BY <1>0, <3>1, <3>2
  <2>3. CASE channel' = Append(channel, Checkpoint(asked + 1)) /\ UNCHANGED reply
    <3>1. /\ \A i \in DOMAIN channel' :
              \/ i \in DOMAIN channel /\ channel'[i] = channel[i]
              \/ i = Len(channel) + 1 /\ channel'[i] = Checkpoint(asked + 1)
      BY <2>1, <2>3, MessageSent
    <3>2. \A i \in DOMAIN channel' : channel'[i].kind = "checkpoint" => channel'[i].id <= asked'
      <4>1. Checkpoint(asked + 1).id <= asked + 1
        BY <2>1, MessageKinds
      <4> QED
        BY <2>1, <2>2, <3>1, <4>1
    <3>3. \A i, j \in DOMAIN channel' :
            channel'[i] = Checkpoint(asked') /\ channel'[j] = Checkpoint(asked') => i = j
      BY <2>1, <2>2, <3>1
    <3>4. reply.id <= asked' /\ reply.id # asked'
      BY <1>0, <2>1 DEF ReplyInv
    <3> QED
      BY <1>2, <2>3, <3>2, <3>3, <3>4 DEF ReplyInv
  <2>4. CASE reply' = Refusal(asked + 1) /\ UNCHANGED channel
    <3>1. reply'.id = asked' /\ reply'.ok = FALSE /\ reply'.id <= asked'
      <4>1. Refusal(asked + 1).id = asked + 1 /\ Refusal(asked + 1).ok = FALSE
        BY <2>1, RefusalFields
      <4> QED
        BY <2>1, <2>4, <4>1
    <3> QED
      BY <2>1, <2>2, <2>4, <3>1 DEF ReplyInv
  <2> QED
    BY <1>10, <2>3, <2>4 DEF AskCheckpoint, Refusal
<1>11. CASE \/ \E n \in 1..ReadBytes : ReadPty(n)
            \/ Push \/ Feed \/ SliceFed \/ FinalSlice \/ FinalFeed \/ FinalNext \/ Finish
            \/ Complete \/ DrainDeadline \/ ReleaseRuntime \/ SessionGone \/ UNCHANGED hostVars
  BY <1>11, <1>a DEF ReadPty, Push, Feed, SliceFed, FinalSlice, FinalFeed, FinalNext, Finish,
                     Complete, DrainDeadline, ReleaseRuntime, SessionGone, hostVars, checkpoints
<1> QED
  BY <1>3, <1>4, <1>5, <1>6, <1>7, <1>8, <1>9, <1>10, <1>11
     DEF HostStep, HostNext, ReaderThread, SessionThread
-----------------------------------------------------------------------------
(***************************************************************************)
(* What the composed system takes from here                                *)
(***************************************************************************)

\* The invariant holds of a session that was just started.
LEMMA HostStarts ==
    ASSUME HostInit
    PROVE  HostInv
<1> USE DEF HostInit
<1>1. <<>> \in Seq(Nat) /\ <<>> \in Seq(Pieces) /\ <<>> \in Seq(Message) /\ Len(<<>>) = 0
  OBVIOUS
<1>2. Bytes(0, 0) = <<>>
  <2>1. 0 \in Nat /\ 0 <= 0
    OBVIOUS
  <2> QED
    BY <2>1, BytesFacts, NoLength
<1>3. StreamTypes
  <2>1. tail \in Tails
    BY <1>1 DEF Tails
  <2> QED
    BY <1>1, <2>1, OutputAssumption DEF StreamTypes, NoRecord, NoReply
<1>4. Pipeline = <<>>
  <2>1. <<>> \o <<>> \o <<>> = <<>>
    BY ConcatEmptySeq
  <2> QED
    BY <2>1 DEF Pipeline, InHand
<1>5. FlowInv
  <2>1. Chain(<<>>, 0, 0)
    BY ChainEmpty
  <2> QED
    BY <1>4, <2>1 DEF FlowInv
<1>6. ContentInv
  <2>1. tail.start = 0 /\ tail.bytes = <<>>
    OBVIOUS
  <2>2. Shorter(Capacity, 0) = 0
    BY OutputAssumption DEF Shorter
  <2> QED
    BY <1>1, <1>2, <2>1, <2>2 DEF ContentInv, TailExact
<1>7. DOMAIN channel = {}
  OBVIOUS
<1>8. MessagesInv
  BY <1>7 DEF MessagesInv
<1>9. EndInv
  <2>1. record.filed = FALSE /\ record.complete = FALSE
    BY DEF NoRecord
  <2> QED
    BY <2>1 DEF EndInv, Ending
<1>10. ReplyInv
  <2>1. reply.ok = FALSE /\ reply.id = 0
    BY DEF NoReply
  <2> QED
    BY <1>7, <2>1 DEF ReplyInv
<1> QED
  BY <1>3, <1>5, <1>6, <1>8, <1>9, <1>10 DEF HostInv

\* It is kept by every step, and the end of the stream never moves back.
LEMMA HostKeeps ==
    ASSUME HostInv, HostStep
    PROVE  HostInv' /\ end_offset <= end_offset'
BY TypesStep, FlowStep, ContentStep, MessagesStep, EndStep, ReplyStep DEF HostInv

\* It says what the properties say.
LEMMA HostSafe ==
    ASSUME HostInv
    PROVE  TailExact /\ CompleteIsWhole /\ FinalOffsetStays
<1>1. TailExact /\ CompleteIsWhole
  BY DEF HostInv, ContentInv, EndInv, CompleteIsWhole
<1>2. FinalOffsetStays
  BY DEF HostInv, EndInv, FinalOffsetStays
<1> QED
  BY <1>1, <1>2
-----------------------------------------------------------------------------
(***************************************************************************)
(* The bytes in the inbox                                                  *)
(***************************************************************************)

\* The bytes in a queue of chunks.
Lengths(q) == [i \in DOMAIN q |-> Len(q[i])]
Size(q) == SizeOf(q, Len(q))

\* They are the sum of the lengths of its chunks.
LEMMA SizeSum ==
    ASSUME NEW q \in Seq(Pieces)
    PROVE  /\ Len(q) \in Nat /\ Counts(Lengths(q), Len(q))
           /\ Size(q) = SumTo(Lengths(q), Len(q)) /\ Size(q) \in Nat
           /\ \A i \in 1..Len(q) : q[i] \in Pieces /\ Lengths(q)[i] = Len(q[i])
<1>1. Len(q) \in Nat /\ DOMAIN q = 1..Len(q) /\ \A i \in 1..Len(q) : q[i] \in Pieces
  OBVIOUS
<1>2. ASSUME NEW i \in 1..Len(q)
      PROVE  Lengths(q)[i] = Len(q[i]) /\ Len(q[i]) \in Nat
  <2>1. q[i] \in Seq(Nat)
    BY <1>1, PieceFacts
  <2> QED
    BY <1>1, <2>1 DEF Lengths
<1>3. Counts(Lengths(q), Len(q))
  BY <1>2 DEF Counts
<1>4. Size(q) = SumTo(Lengths(q), Len(q))
  BY DEF Size, SizeOf, SumTo, Lengths
<1> QED
  BY <1>1, <1>2, <1>3, <1>4, SumToNat

\* Nothing is in an empty queue.
LEMMA EmptySize == Size(<<>>) = 0
<1>1. <<>> \in Seq(Pieces) /\ Len(<<>>) = 0
  OBVIOUS
<1> QED
  BY <1>1, SizeSum, SumToZero

\* A chunk adds its length.
LEMMA AppendSize ==
    ASSUME NEW q \in Seq(Pieces), NEW c \in Pieces
    PROVE  Size(Append(q, c)) = Size(q) + Len(c)
<1>1. PICK n \in Nat : n = Len(q) /\ DOMAIN q = 1..n
  OBVIOUS
<1>2. Append(q, c) \in Seq(Pieces) /\ Len(Append(q, c)) = n + 1
  BY <1>1
<1>3. PICK p \in Seq(Pieces) : p = Append(q, c) /\ Len(p) = n + 1
  BY <1>2, Zenon
<1>4. p[n + 1] = c /\ (\A i \in 1..n : p[i] = q[i]) /\ DOMAIN p = 1..(n + 1)
  BY <1>1, <1>3
<1>5. Lengths(p)[n + 1] = Len(c) /\ \A i \in 1..n : Lengths(p)[i] = Lengths(q)[i]
  BY <1>1, <1>4 DEF Lengths
<1>6. SumTo(Lengths(p), n) = SumTo(Lengths(q), n)
  BY <1>5, SumToSame
<1>7. Size(p) = SumTo(Lengths(p), n) + Lengths(p)[n + 1]
  BY <1>3, SizeSum, SumToNext
<1> QED
  BY <1>1, <1>3, <1>5, <1>6, <1>7, SizeSum

\* Two queues that are joined share the bytes.
LEMMA JoinSize ==
    ASSUME NEW x \in Seq(Pieces), NEW y \in Seq(Pieces)
    PROVE  /\ x \o y \in Seq(Pieces) /\ Size(x \o y) = Size(x) + Size(y)
           /\ SizeOf(x \o y, Len(x)) = Size(x)
<1>1. PICK m \in Nat, n \in Nat : m = Len(x) /\ n = Len(y)
  OBVIOUS
<1>2. x \o y \in Seq(Pieces) /\ Len(x \o y) = m + n
  BY <1>1
<1>3. PICK p \in Seq(Pieces) : p = x \o y /\ Len(p) = m + n
  BY <1>2, Zenon
<1>4. DOMAIN p = 1..(m + n) /\ DOMAIN x = 1..m /\ DOMAIN y = 1..n
  BY <1>1, <1>3
<1>5. (\A i \in 1..m : p[i] = x[i]) /\ \A i \in 1..n : p[m + i] = y[i]
  BY <1>1, <1>3
<1>6. \A i \in 1..m : Lengths(p)[i] = Lengths(x)[i]
  BY <1>4, <1>5 DEF Lengths
<1>7. \A i \in 1..n : m + i \in 1..(m + n)
  OBVIOUS
<1>8. Continues(Lengths(p), m, Lengths(y), n)
  BY <1>4, <1>5, <1>7 DEF Continues, Lengths
<1>9. Size(p) = SumTo(Lengths(p), m) + SumTo(Lengths(y), n)
  <2>1. Size(p) = SumTo(Lengths(p), m + n) /\ Counts(Lengths(p), m + n)
    BY <1>3, SizeSum
  <2> QED
    BY <1>8, <2>1, SumToJoin
<1>10. SumTo(Lengths(p), m) = SumTo(Lengths(x), m)
  BY <1>6, SumToSame
<1>11. SizeOf(p, m) = SumTo(Lengths(p), m)
  BY DEF SizeOf, SumTo, Lengths
<1> QED
  BY <1>1, <1>3, <1>9, <1>10, <1>11, SizeSum

\* A chain is as long as what it leads over.
LEMMA ChainSize ==
    ASSUME NEW q, NEW a \in Nat, NEW b \in Nat, Chain(q, a, b)
    PROVE  Size(q) = b - a
<1>1. q \in Seq(Pieces)
  BY DEF Chain
<1>2. PICK n \in Nat : n = Len(q)
  BY <1>1
<1>3. Counts(Lengths(q), n) /\ Size(q) = SumTo(Lengths(q), n)
  BY <1>1, <1>2, SizeSum
<1>4. ASSUME NEW i \in 1..n
      PROVE  /\ From(q[i]) \in Nat /\ To(q[i]) \in Nat
             /\ Lengths(q)[i] = To(q[i]) - From(q[i])
  <2>1. q[i] \in Pieces /\ Lengths(q)[i] = Len(q[i])
    BY <1>1, <1>2, SizeSum
  <2> QED
    BY <2>1, PieceFacts
<1>5. \A i \in 1..n : From(q[i]) = IF i = 1 THEN a ELSE To(q[i - 1])
  BY <1>2 DEF Chain
<1> DEFINE T == {k \in Nat : k \in 1..n /\ SumTo(Lengths(q), k) # To(q[k]) - a}
<1>6. T \in SUBSET Nat /\ \A k \in T : k \in 1..n /\ SumTo(Lengths(q), k) # To(q[k]) - a
  OBVIOUS
<1>7. \A k \in 1..n : k \notin T => SumTo(Lengths(q), k) = To(q[k]) - a
  OBVIOUS
<1> HIDE DEF T
<1>8. ASSUME T # {}
      PROVE  FALSE
  <2>1. PICK k \in T : \A j \in T : k <= j
    BY <1>6, <1>8, LeastNumber
  <2>2. k \in 1..n /\ SumTo(Lengths(q), k) # To(q[k]) - a
    BY <1>6, <2>1
  <2>3. PICK j \in Nat : k = j + 1 /\ j \in 0..n /\ j \notin T
    BY <2>1, <2>2
  <2>4. Counts(Lengths(q), j + 1)
    BY <1>3, <2>2, <2>3 DEF Counts
  <2>5. SumTo(Lengths(q), k) = SumTo(Lengths(q), j) + Lengths(q)[k]
    BY <2>3, <2>4, SumToNext
  <2>6. Lengths(q)[k] = To(q[k]) - From(q[k]) /\ To(q[k]) \in Nat
    BY <1>4, <2>2
  <2>7. CASE j = 0
    <3>1. SumTo(Lengths(q), j) = 0 /\ From(q[k]) = a
      BY <1>5, <2>2, <2>3, <2>7, SumToZero
    <3> QED
      BY <2>2, <2>5, <2>6, <3>1
  <2>8. CASE j # 0
    <3>1. j \in 1..n /\ k # 1 /\ k - 1 = j
      BY <2>3, <2>8
    <3>2. SumTo(Lengths(q), j) = To(q[j]) - a /\ From(q[k]) = To(q[j]) /\ To(q[j]) \in Nat
      BY <1>4, <1>5, <1>7, <2>2, <2>3, <3>1
    <3> QED
      BY <2>2, <2>5, <2>6, <3>2
  <2> QED
    BY <2>7, <2>8
<1>9. CASE n = 0
  <2>0. q = <<>>
    BY <1>1, <1>2, <1>9, NoLength
  <2>1. q = <<>> /\ b - a = 0
    BY <2>0 DEF Chain
  <2>2. Size(q) = 0
    BY <2>1, EmptySize, Zenon
  <2> QED
    BY <2>1, <2>2
<1>10. CASE n # 0
  <2>1. n \in 1..n /\ b = To(q[n])
    BY <1>1, <1>2, <1>10 DEF Chain
  <2> QED
    BY <1>3, <1>7, <1>8, <2>1
<1> QED
  BY <1>9, <1>10

\* The inbox counts the bytes it holds, and it holds no more than it may, or a
\* single chunk that is larger.
InboxInv ==
    /\ inbox_bytes = Size(chunks)
    /\ inbox_bytes <= InboxBytes \/ Len(chunks) = 1

\* take_slice takes the bytes of the slice off the count, and a chunk that is too
\* large is taken at once.
LEMMA SliceCounted ==
    ASSUME StreamTypes, InboxInv, TakeSlice
    PROVE  InboxInv'
<1>1. PICK n \in 0..Len(chunks) : /\ IsSlice(chunks, n)
                                  /\ chunks' = SubSeq(chunks, n + 1, Len(chunks))
                                  /\ inbox_bytes' = Excess(inbox_bytes, SizeOf(chunks, n))
  BY DEF TakeSlice
<1>2. chunks \in Seq(Pieces) /\ Len(chunks) \in Nat /\ n \in Nat
  BY DEF StreamTypes
<1>3. PICK x \in Seq(Pieces), z \in Seq(Pieces) :
          x = SubSeq(chunks, 1, n) /\ z = SubSeq(chunks, n + 1, Len(chunks))
  <2>1. SubSeq(chunks, 1, n) \in Seq(Pieces) /\ SubSeq(chunks, n + 1, Len(chunks)) \in Seq(Pieces)
    BY <1>2
  <2> QED
    BY <2>1, Zenon
<1>4. x \o z = chunks /\ Len(x) = n /\ Len(z) = Len(chunks) - n
  <2>1. x \o z = chunks
    BY <1>2, <1>3, SliceJoins
  <2>2. Len(SubSeq(chunks, 1, n)) = n
    BY <1>2
  <2>3. Len(SubSeq(chunks, n + 1, Len(chunks))) = Len(chunks) - n
    BY <1>2
  <2> QED
    BY <1>3, <2>1, <2>2, <2>3
<1>5. /\ Size(chunks) = Size(x) + Size(z) /\ SizeOf(chunks, n) = Size(x)
      /\ Size(x) \in Nat /\ Size(z) \in Nat
  <2>1. Size(x \o z) = Size(x) + Size(z) /\ SizeOf(x \o z, Len(x)) = Size(x)
    BY JoinSize
  <2> QED
    BY <1>4, <2>1, SizeSum
<1>6. chunks' = z /\ inbox_bytes' = Size(z)
  <2>1. inbox_bytes' = Excess(Size(x) + Size(z), Size(x))
    BY <1>1, <1>5 DEF InboxInv
  <2>2. \A a, b \in Nat : Excess(a + b, a) = b
    BY DEF Excess
  <2> QED
    BY <1>1, <1>3, <1>5, <2>1, <2>2
<1>7. inbox_bytes' <= InboxBytes
  <2>1. CASE inbox_bytes <= InboxBytes
    BY <1>5, <1>6, <2>1, OutputAssumption DEF InboxInv
  <2>2. CASE Len(chunks) = 1
    <3>1. n = 1
      BY <1>1, <2>2 DEF IsSlice
    <3>2. z = <<>>
      <4>1. Len(z) = 0
        BY <1>4, <2>2, <3>1
      <4> QED
        BY <4>1, NoLength
    <3>3. Size(z) = 0
      BY <3>2, EmptySize, Zenon
    <3> QED
      BY <1>6, <3>3, OutputAssumption
  <2> QED
    BY <2>1, <2>2 DEF InboxInv
<1>8. Size(chunks') = Size(z)
  BY <1>6
<1> QED
  BY <1>6, <1>7, <1>8 DEF InboxInv, Size

\* No step loses count, and none lets more in than fits.
LEMMA InboxStep ==
    ASSUME HostInv, InboxInv, HostStep
    PROVE  InboxInv'
<1>0. StreamTypes /\ chunks \in Seq(Pieces)
  BY DEF HostInv, StreamTypes
<1>a. ASSUME UNCHANGED <<chunks, inbox_bytes>>
      PROVE  InboxInv'
  BY <1>a DEF InboxInv, Size
<1>1. CASE Push
  <2>1. CASE closed
    BY <1>1, <1>a, <2>1 DEF Push
  <2>2. CASE ~closed
    <3>1. /\ Fits /\ chunks' = Append(chunks, chunk) /\ inbox_bytes' = inbox_bytes + Len(chunk)
          /\ chunk \in Pieces
      BY <1>0, <1>1, <2>2 DEF Push, StreamTypes
    <3>2. Size(Append(chunks, chunk)) = Size(chunks) + Len(chunk)
      BY <1>0, <3>1, AppendSize
    <3>3. inbox_bytes' = Size(chunks')
      BY <3>1, <3>2 DEF InboxInv
    <3>4. inbox_bytes' <= InboxBytes \/ Len(chunks') = 1
      BY <1>0, <3>1 DEF Fits
    <3> QED
      BY <3>3, <3>4 DEF InboxInv, Size
  <2> QED
    BY <2>1, <2>2
<1>2. CASE DrainInbox \/ FinalSlice
  BY <1>0, <1>2, SliceCounted DEF DrainInbox, FinalSlice
<1>3. CASE Complete
  <2>1. chunks' = <<>> /\ inbox_bytes' = 0
    BY <1>3 DEF Complete
  <2>2. Size(chunks') = 0
    BY <2>1, EmptySize, Zenon
  <2> QED
    BY <2>1, <2>2, OutputAssumption DEF InboxInv, Size
<1>4. CASE \/ \E n \in 1..ReadBytes : ReadPty(n)
           \/ Notify \/ ReaderEnds \/ ChildEnds \/ Feed \/ SliceFed \/ OnEof \/ OnChildExited
           \/ FinalFeed \/ FinalNext \/ Finish \/ ServeCheckpoint \/ DrainDeadline \/ ReleaseTail
           \/ ReleaseRuntime \/ SessionGone \/ UNCHANGED hostVars
           \/ AskCheckpoint /\ UNCHANGED <<reader, inbox, session, stream, registry>>
  <2>1. UNCHANGED inbox
    BY <1>4 DEF ReadPty, Notify, ReaderEnds, ChildEnds, Feed, SliceFed, OnEof, OnChildExited,
                FinalFeed, FinalNext, Finish, ServeCheckpoint, DrainDeadline, ReleaseTail,
                ReleaseRuntime, SessionGone, hostVars
  <2> QED
    BY <1>a, <2>1 DEF inbox
<1> QED
  BY <1>1, <1>2, <1>3, <1>4 DEF HostStep, HostNext, ReaderThread, SessionThread

\* The inbox never holds more than was read.
LEMMA InboxRange ==
    ASSUME HostInv, InboxInv, read <= MaxBytes
    PROVE  inbox_bytes \in 0..MaxBytes
<1>1. /\ taken \in Seq(Pieces) /\ chunks \in Seq(Pieces) /\ InHand \in Seq(Pieces)
      /\ end_offset \in Nat /\ read \in Nat
  BY DEF HostInv, StreamTypes, InHand
<1>2. inbox_bytes = Size(chunks) /\ Size(chunks) \in Nat
  BY <1>1, SizeSum DEF InboxInv
<1>3. CASE closed
  <2>1. chunks = <<>>
    BY <1>3 DEF HostInv, FlowInv
  <2>2. Size(chunks) = 0
    BY <2>1, EmptySize, Zenon
  <2> QED
    BY <1>2, <2>2, OutputAssumption
<1>4. CASE ~closed
  <2>1. Size(Pipeline) = read - end_offset
    BY <1>1, <1>4, ChainSize DEF HostInv, FlowInv
  <2>2. taken \o chunks \in Seq(Pieces) /\ Size(taken \o chunks) = Size(taken) + Size(chunks)
    BY <1>1, JoinSize
  <2>3. Size(Pipeline) = Size(taken \o chunks) + Size(InHand)
    <3>1. Size((taken \o chunks) \o InHand) = Size(taken \o chunks) + Size(InHand)
      BY <1>1, <2>2, JoinSize
    <3> QED
      BY <3>1 DEF Pipeline
  <2>4. Size(taken) \in Nat /\ Size(InHand) \in Nat
    BY <1>1, SizeSum
  <2> QED
    BY <1>1, <1>2, <2>1, <2>2, <2>3, <2>4, OutputAssumption
<1> QED
  BY <1>3, <1>4
-----------------------------------------------------------------------------
(***************************************************************************)
(* The ranges of the host's state                                          *)
(***************************************************************************)

FlagTypes ==
    /\ notified \in BOOLEAN /\ closed \in BOOLEAN /\ more \in BOOLEAN
    /\ output_pending \in BOOLEAN /\ exited \in BOOLEAN /\ reader_eof \in BOOLEAN
    /\ drain_deadline \in BOOLEAN /\ tail_release \in BOOLEAN /\ whole \in BOOLEAN
    /\ completed \in BOOLEAN /\ retired \in BOOLEAN /\ released \in BOOLEAN /\ live \in BOOLEAN

\* Nothing is published that was not read.
ByteTypes ==
    /\ read <= MaxBytes /\ end_offset <= read
    /\ chunk \in Chunk /\ chunks \in Seq(Chunk) /\ taken \in Seq(Chunk) /\ terminal \in Chunk
    /\ tail.bytes \in Chunk

AnswerTypes ==
    /\ publications \in Nat /\ slot \in {"runtime", "completed", "gone"}
    /\ record \in [final_offset : 0..MaxBytes, complete : BOOLEAN, filed : BOOLEAN]
    /\ reply \in [id : 0..MaxCheckpoints, ok : BOOLEAN, offset : 0..MaxBytes, snapshot : Chunk]

HostRange == InboxInv /\ FlagTypes /\ ByteTypes /\ AnswerTypes

\* Bytes that are put together.
LEMMA ChunkJoin ==
    ASSUME NEW x \in Chunk, NEW y \in Chunk
    PROVE  x \o y \in Chunk
BY DEF Chunk

\* No bytes, or a run of those the child may write.
LEMMA ChunkRun ==
    /\ <<>> \in Chunk /\ <<>> \in Seq(Chunk)
    /\ \A a, b \in Nat : a <= b /\ b <= MaxBytes => Bytes(a, b) \in Chunk
<1>1. <<>> \in Chunk /\ <<>> \in Seq(Chunk)
  BY DEF Chunk
<1>2. ASSUME NEW a \in Nat, NEW b \in Nat, a <= b, b <= MaxBytes
      PROVE  Bytes(a, b) \in Chunk
  <2>1. PICK n \in Nat : n = b - a
    BY <1>2, b - a \in Nat
  <2>2. \A i \in 1..n : a + i \in 1..MaxBytes
    BY <1>2, <2>1, OutputAssumption
  <2> QED
    BY <2>1, <2>2 DEF Bytes, Chunk
<1> QED
  BY <1>1, <1>2

\* The flags of the end are the only ones that change.
LEMMA EndingFlags ==
    ASSUME FlagTypes,
           exited' \in {exited, TRUE}, reader_eof' \in {reader_eof, TRUE},
           drain_deadline' \in {drain_deadline, TRUE, FALSE}, whole' \in {whole, TRUE, FALSE},
           UNCHANGED <<notified, closed, more, output_pending, tail_release, completed, retired,
                       released, live>>
    PROVE  FlagTypes'
<1>1. exited' \in BOOLEAN /\ reader_eof' \in BOOLEAN
  BY DEF FlagTypes
<1>2. drain_deadline' \in BOOLEAN /\ whole' \in BOOLEAN
  BY DEF FlagTypes
<1> QED
  BY <1>1, <1>2 DEF FlagTypes

\* Flags stay flags.
LEMMA FlagsStep ==
    ASSUME FlagTypes, HostStep
    PROVE  FlagTypes'
<1>1. CASE \/ \E n \in 1..ReadBytes : ReadPty(n)
           \/ Notify \/ ReaderEnds \/ ChildEnds \/ ServeCheckpoint
           \/ ReleaseRuntime \/ SessionGone \/ UNCHANGED hostVars
           \/ AskCheckpoint /\ UNCHANGED <<reader, inbox, session, stream, registry>>
  <2>1. UNCHANGED <<inbox, session, stream>>
    BY <1>1 DEF ReadPty, Notify, ReaderEnds, ChildEnds, ServeCheckpoint, ReleaseRuntime, SessionGone,
                hostVars
  <2> QED
    BY <2>1 DEF FlagTypes, inbox, session, flow, ending, engine, stream
<1>2. CASE Push
  <2>1. notified' \in {notified, TRUE}
    BY <1>2 DEF Push
  <2>2. notified' \in BOOLEAN
    BY <2>1 DEF FlagTypes
  <2>3. UNCHANGED <<closed, session, stream>>
    BY <1>2 DEF Push
  <2>4. UNCHANGED <<more, output_pending, exited, reader_eof, drain_deadline, tail_release>>
    BY <2>3 DEF session, flow, ending
  <2>5. UNCHANGED <<whole, completed, retired, released, live>>
    BY <2>3 DEF session, ending, engine, stream
  <2> QED
    BY <2>2, <2>3, <2>4, <2>5 DEF FlagTypes
<1>3. CASE DrainInbox \/ FinalSlice
  <2>1. TakeSlice /\ UNCHANGED <<output_pending, ending, engine, stream>>
    BY <1>3 DEF DrainInbox, FinalSlice
  <2>2. more' \in BOOLEAN /\ notified' \in BOOLEAN /\ closed' = closed
    BY <2>1 DEF TakeSlice
  <2> QED
    BY <2>1, <2>2 DEF FlagTypes, ending, engine, stream
<1>4. CASE Feed \/ FinalFeed
  BY <1>4 DEF Feed, FinalFeed, FeedOne, StreamAppend, FlagTypes, inbox, ending
<1>5. CASE SliceFed \/ FinalNext
  BY <1>5 DEF SliceFed, FinalNext, FlagTypes, inbox, flow, ending, engine, stream
<1>6. CASE OnEof
  <2>1. /\ exited' \in {exited, TRUE} /\ reader_eof' \in {reader_eof, TRUE}
        /\ drain_deadline' \in {drain_deadline, TRUE, FALSE} /\ whole' \in {whole, TRUE, FALSE}
    BY <1>6 DEF OnEof, Finalizes
  <2>2. UNCHANGED <<inbox, flow, tail_release, completed, engine, stream>>
    BY <1>6 DEF OnEof
  <2> QED
    BY <2>1, <2>2, EndingFlags DEF inbox, flow, engine, stream
<1>7. CASE OnChildExited
  <2>1. /\ exited' \in {exited, TRUE} /\ reader_eof' \in {reader_eof, TRUE}
        /\ drain_deadline' \in {drain_deadline, TRUE, FALSE} /\ whole' \in {whole, TRUE, FALSE}
    BY <1>7 DEF OnChildExited, Finalizes
  <2>2. UNCHANGED <<inbox, flow, tail_release, completed, engine, stream>>
    BY <1>7 DEF OnChildExited
  <2> QED
    BY <2>1, <2>2, EndingFlags DEF inbox, flow, engine, stream
<1>8. CASE DrainDeadline
  <2>1. /\ exited' \in {exited, TRUE} /\ reader_eof' \in {reader_eof, TRUE}
        /\ drain_deadline' \in {drain_deadline, TRUE, FALSE} /\ whole' \in {whole, TRUE, FALSE}
    BY <1>8 DEF DrainDeadline, Finalizes
  <2>2. UNCHANGED <<inbox, flow, tail_release, completed, engine, stream>>
    BY <1>8 DEF DrainDeadline
  <2> QED
    BY <2>1, <2>2, EndingFlags DEF inbox, flow, engine, stream
<1>9. CASE Finish
  BY <1>9 DEF Finish, FlagTypes, inbox, flow
<1>10. CASE Complete
  BY <1>10 DEF Complete, FlagTypes, flow, engine, stream
<1>11. CASE ReleaseTail
  BY <1>11 DEF ReleaseTail, FlagTypes, inbox, flow, engine
<1> QED
  BY <1>1, <1>2, <1>3, <1>4, <1>5, <1>6, <1>7, <1>8, <1>9, <1>10, <1>11
     DEF HostStep, HostNext, ReaderThread, SessionThread

\* The end of the stream stays behind what was read.
LEMMA EndRead ==
    ASSUME HostInv, ByteTypes, HostStep
    PROVE  read' \in Nat /\ read' <= MaxBytes /\ end_offset' \in Nat /\ end_offset' <= read'
<1>0. HostInv' /\ read \in Nat /\ read' \in Nat /\ end_offset \in Nat /\ end_offset' \in Nat
  BY HostKeeps DEF HostInv, StreamTypes
<1>1. read' <= MaxBytes /\ read <= read'
  <2>1. ASSUME NEW n \in 1..ReadBytes, ReadPty(n)
        PROVE  read' <= MaxBytes /\ read <= read'
    BY <1>0, <2>1, OutputAssumption DEF ReadPty
  <2>2. CASE ~\E n \in 1..ReadBytes : ReadPty(n)
    <3>1. read' = read
      BY <2>2 DEF HostStep, HostNext, ReaderThread, SessionThread, hostVars, reader, Push, Notify,
            ReaderEnds, ChildEnds, DrainInbox, Feed, SliceFed, OnEof, OnChildExited, FinalSlice,
            FinalFeed, FinalNext, Finish, Complete, ServeCheckpoint, DrainDeadline, ReleaseTail,
            ReleaseRuntime, SessionGone
    <3> QED
      BY <1>0, <3>1 DEF ByteTypes
  <2> QED
    BY <2>1, <2>2
<1>2. CASE ~closed'
  <2>1. Chain(Pipeline', end_offset', read')
    BY <1>0, <1>2 DEF HostInv, FlowInv
  <2>2. end_offset' <= read'
    <3>0. PICK q : q = Pipeline'
      OBVIOUS
    <3>1. PICK a \in Nat, b \in Nat : a = end_offset' /\ b = read'
      BY <1>0
    <3>2. Chain(q, a, b)
      BY <2>1, <3>0, <3>1, Zenon
    <3>3. q \in Seq(Pieces)
      BY <3>2 DEF Chain
    <3>4. b - a \in Nat
      BY <3>2, <3>3, ChainSize, SizeSum
    <3>5. a <= b
      BY <3>4
    <3> QED
      BY <3>1, <3>5
  <2> QED
    BY <1>0, <1>1, <2>2
<1>3. CASE closed'
  <2>1. end_offset' = end_offset
    <3>1. CASE Feed \/ FinalFeed
      <4>1. /\ FeedOne /\ spc \in {"feed", "final_feed"}
            /\ UNCHANGED <<rpc, chunk, chunks, closed, read, retired>>
        BY <3>1 DEF Feed, FinalFeed, FeedOne, reader, inbox
      <4> QED
        BY <1>3, <4>1, ChunkFed DEF HostInv
    <3>2. CASE ~(Feed \/ FinalFeed)
      BY <3>2 DEF HostStep, HostNext, ReaderThread, SessionThread, hostVars, stream, ReadPty, Push,
            Notify, ReaderEnds, ChildEnds, DrainInbox, SliceFed, OnEof, OnChildExited, FinalSlice,
            FinalNext, Finish, Complete, ServeCheckpoint, DrainDeadline, ReleaseTail,
            ReleaseRuntime, SessionGone
    <3> QED
      BY <3>1, <3>2
  <2> QED
    BY <1>0, <1>1, <2>1 DEF ByteTypes
<1> QED
  BY <1>0, <1>1, <1>2, <1>3

\* Bytes stay within what the child may write.
LEMMA BytesStep ==
    ASSUME HostInv, ByteTypes, HostStep
    PROVE  ByteTypes'
<1>0. HostInv' /\ read' <= MaxBytes /\ end_offset' \in Nat /\ end_offset' <= read' /\ read' \in Nat
  BY HostKeeps, EndRead
<1>1. chunk' \in Chunk
  <2>1. ASSUME NEW n \in 1..ReadBytes, ReadPty(n)
        PROVE  chunk' \in Chunk
    <3>1. PICK a \in Nat, b \in Nat : a = read /\ b = read + n
      BY OutputAssumption DEF HostInv, StreamTypes
    <3>2. a <= b /\ b <= MaxBytes /\ chunk' = Bytes(a, b)
      BY <2>1, <3>1, OutputAssumption DEF ReadPty
    <3> QED
      BY <3>2, ChunkRun
  <2>2. CASE Push
    BY <2>2, ChunkRun DEF Push
  <2>3. CASE ~((\E n \in 1..ReadBytes : ReadPty(n)) \/ Push)
    <3>1. chunk' = chunk
      BY <2>3 DEF HostStep, HostNext, ReaderThread, SessionThread, hostVars, reader, Notify,
            ReaderEnds, ChildEnds, DrainInbox, Feed, SliceFed, OnEof, OnChildExited, FinalSlice,
            FinalFeed, FinalNext, Finish, Complete, ServeCheckpoint, DrainDeadline, ReleaseTail,
            ReleaseRuntime, SessionGone
    <3> QED
      BY <3>1 DEF ByteTypes
  <2> QED
    BY <2>1, <2>2, <2>3
<1>2. chunks' \in Seq(Chunk) /\ taken' \in Seq(Chunk) /\ terminal' \in Chunk
  <2>0. chunks \in Seq(Chunk) /\ taken \in Seq(Chunk) /\ terminal \in Chunk /\ chunk \in Chunk
    BY DEF ByteTypes
  <2>1. CASE Push
    <3>1. chunks' = chunks \/ chunks' = Append(chunks, chunk)
      BY <2>1 DEF Push
    <3>2. chunks' \in Seq(Chunk)
      BY <2>0, <3>1
    <3> QED
      BY <2>0, <2>1, <3>2 DEF Push, session, flow, engine
  <2>2. CASE DrainInbox \/ FinalSlice
    <3>1. PICK n \in 0..Len(chunks) : /\ taken' = SubSeq(chunks, 1, n)
                                      /\ chunks' = SubSeq(chunks, n + 1, Len(chunks))
      BY <2>2 DEF DrainInbox, FinalSlice, TakeSlice
    <3>2. taken' \in Seq(Chunk) /\ chunks' \in Seq(Chunk)
      BY <2>0, <3>1
    <3> QED
      BY <2>0, <2>2, <3>2 DEF DrainInbox, FinalSlice, engine
  <2>3. CASE Feed \/ FinalFeed
    <3>1. /\ taken # <<>> /\ taken' = Tail(taken) /\ terminal' = terminal \o Head(taken)
          /\ chunks' = chunks
      BY <2>3 DEF Feed, FinalFeed, FeedOne, inbox
    <3>2. taken' \in Seq(Chunk) /\ Head(taken) \in Chunk
      BY <2>0, <3>1
    <3> QED
      BY <2>0, <3>1, <3>2, ChunkJoin
  <2>4. CASE Finish
    BY <2>0, <2>4, ChunkRun DEF Finish, inbox, flow
  <2>5. CASE Complete
    BY <2>0, <2>5, ChunkRun DEF Complete, flow, engine
  <2>6. CASE ~(Push \/ DrainInbox \/ FinalSlice \/ Feed \/ FinalFeed \/ Finish \/ Complete)
    <3>1. UNCHANGED <<chunks, taken, terminal>>
      BY <2>6 DEF HostStep, HostNext, ReaderThread, SessionThread, hostVars, inbox, session, flow,
            engine, ReadPty, Notify, ReaderEnds, ChildEnds, SliceFed, OnEof, OnChildExited,
            FinalNext, ServeCheckpoint, DrainDeadline, ReleaseTail, ReleaseRuntime, SessionGone
    <3> QED
      BY <2>0, <3>1
  <2> QED
    BY <2>1, <2>2, <2>3, <2>4, <2>5, <2>6
<1>3. tail'.bytes \in Chunk
  <2>1. CASE ~released'
    <3>1. PICK a \in Nat, b \in Nat : a = tail'.start /\ b = end_offset'
      BY <1>0 DEF HostInv, StreamTypes, Tails
    <3>2. a <= b /\ b <= MaxBytes /\ tail'.bytes = Bytes(a, b)
      BY <1>0, <2>1, <3>1, OutputAssumption DEF HostInv, ContentInv, TailExact
    <3> QED
      BY <3>2, ChunkRun
  <2>2. CASE released'
    <3>1. CASE ReleaseTail
      BY <3>1, ChunkRun DEF ReleaseTail
    <3>2. CASE Feed \/ FinalFeed
      <4>1. released /\ tail' = tail
        BY <2>2, <3>2 DEF Feed, FinalFeed, FeedOne, StreamAppend
      <4> QED
        BY <4>1 DEF ByteTypes
    <3>3. CASE ~(ReleaseTail \/ Feed \/ FinalFeed)
      <4>1. tail' = tail
        BY <3>3 DEF HostStep, HostNext, ReaderThread, SessionThread, hostVars, stream, ReadPty, Push,
              Notify, ReaderEnds, ChildEnds, DrainInbox, SliceFed, OnEof, OnChildExited, FinalSlice,
              FinalNext, Finish, Complete, ServeCheckpoint, DrainDeadline, ReleaseRuntime,
              SessionGone
      <4> QED
        BY <4>1 DEF ByteTypes
    <3> QED
      BY <3>1, <3>2, <3>3
  <2> QED
    BY <2>1, <2>2
<1> QED
  BY <1>0, <1>1, <1>2, <1>3 DEF ByteTypes

\* So do the record and the answers to checkpoints.
LEMMA AnswersStep ==
    ASSUME HostInv, FlagTypes, ByteTypes, AnswerTypes, HostStep
    PROVE  AnswerTypes'
<1> DEFINE Answers == [id : 0..MaxCheckpoints, ok : BOOLEAN, offset : 0..MaxBytes, snapshot : Chunk]
<1>0. /\ end_offset \in 0..MaxBytes /\ publications \in Nat /\ terminal \in Chunk
      /\ asked \in 0..MaxCheckpoints /\ MaxBytes \in Nat /\ MaxCheckpoints \in Nat
      /\ reply \in Answers
  <2>1. /\ end_offset \in Nat /\ read \in Nat /\ end_offset <= read /\ read <= MaxBytes
        /\ MaxBytes \in Nat
    BY OutputAssumption DEF HostInv, StreamTypes, ByteTypes
  <2> QED
    BY <2>1, OutputAssumption DEF HostInv, StreamTypes, ByteTypes, AnswerTypes
<1>1. \A n \in 0..MaxCheckpoints : Refusal(n) \in Answers
  <2>1. ASSUME NEW n
        PROVE  Refusal(n) = [id |-> n, ok |-> FALSE, offset |-> 0, snapshot |-> <<>>]
    <3>1. PICK e, f : e = <<>> /\ f = FALSE
      OBVIOUS
    <3>2. NoReply = [id |-> 0, ok |-> f, offset |-> 0, snapshot |-> e]
      BY <3>1 DEF NoReply
    <3>3. [[id |-> 0, ok |-> f, offset |-> 0, snapshot |-> e] EXCEPT !.id = n] =
              [id |-> n, ok |-> f, offset |-> 0, snapshot |-> e]
      OBVIOUS
    <3> QED
      BY <3>1, <3>2, <3>3 DEF Refusal
  <2>2. 0 \in 0..MaxBytes /\ <<>> \in Chunk
    BY <1>0, ChunkRun
  <2> QED
    BY <2>1, <2>2
<1>2. \A n \in 0..MaxCheckpoints, f \in BOOLEAN :
          [id |-> n, ok |-> f, offset |-> end_offset, snapshot |-> terminal] \in Answers
  BY <1>0
<1> HIDE DEF Answers
<1>3. reply' \in Answers
  <2>1. CASE ReleaseTail
    <3>1. reply' = Refusal(asked) \/ reply' = reply
      BY <2>1 DEF ReleaseTail, Refusal
    <3> QED
      BY <1>0, <1>1, <3>1
  <2>2. CASE ServeCheckpoint
    <3>1. PICK n \in 1..asked :
              \/ reply' = [id |-> n, ok |-> ~retired, offset |-> end_offset, snapshot |-> terminal]
              \/ reply' = reply
      BY <2>2 DEF ServeCheckpoint
    <3>2. n \in 0..MaxCheckpoints
      BY <1>0
    <3>3. (~retired) \in BOOLEAN
      OBVIOUS
    <3> QED
      BY <1>0, <1>2, <3>1, <3>2, <3>3
  <2>3. CASE AskCheckpoint
    <3>1. asked + 1 \in 0..MaxCheckpoints
      BY <2>3, <1>0, NextNumber DEF HostInv
    <3>2. reply' = Refusal(asked + 1) \/ reply' = reply
      BY <2>3 DEF AskCheckpoint, Refusal
    <3> QED
      BY <1>0, <1>1, <3>1, <3>2
  <2>4. CASE ~(ReleaseTail \/ ServeCheckpoint \/ AskCheckpoint)
    <3>1. reply' = reply
      BY <2>4 DEF HostStep, HostNext, ReaderThread, SessionThread, hostVars, checkpoints, ReadPty,
            Push, Notify, ReaderEnds, ChildEnds, DrainInbox, Feed, SliceFed, OnEof, OnChildExited,
            FinalSlice, FinalFeed, FinalNext, Finish, Complete, DrainDeadline, ReleaseRuntime,
            SessionGone
    <3> QED
      BY <1>0, <3>1
  <2> QED
    BY <2>1, <2>2, <2>3, <2>4
<1>4. record' \in [final_offset : 0..MaxBytes, complete : BOOLEAN, filed : BOOLEAN]
  <2>1. CASE Complete
    <3>1. (whole /\ reader_eof) \in BOOLEAN
      OBVIOUS
    <3> QED
      BY <1>0, <2>1, <3>1 DEF Complete
  <2>2. CASE ~Complete
    <3>1. record' = record
      BY <2>2 DEF HostStep, HostNext, ReaderThread, SessionThread, hostVars, registry, ReadPty,
            Push, Notify, ReaderEnds, ChildEnds, DrainInbox, Feed, SliceFed, OnEof, OnChildExited,
            FinalSlice, FinalFeed, FinalNext, Finish, DrainDeadline, ReleaseTail, ServeCheckpoint,
            ReleaseRuntime, SessionGone
    <3> QED
      BY <3>1 DEF AnswerTypes
  <2> QED
    BY <2>1, <2>2
<1>5. slot' \in {"runtime", "completed", "gone"}
  <2>1. slot' \in {slot, "completed", "gone"}
    BY DEF HostStep, HostNext, ReaderThread, SessionThread, hostVars, registry, ReadPty,
          Push, Notify, ReaderEnds, ChildEnds, DrainInbox, Feed, SliceFed, OnEof, OnChildExited,
          FinalSlice, FinalFeed, FinalNext, Finish, Complete, DrainDeadline, ReleaseTail,
          ServeCheckpoint, ReleaseRuntime, SessionGone
  <2> QED
    BY <2>1 DEF AnswerTypes
<1>6. publications' \in Nat
  <2>1. publications' = publications \/ publications' = publications + 1
    BY DEF HostStep, HostNext, ReaderThread, SessionThread, hostVars, stream, Published, FeedOne,
          StreamAppend, ReadPty, Push, Notify, ReaderEnds, ChildEnds, DrainInbox, Feed, SliceFed,
          OnEof, OnChildExited, FinalSlice, FinalFeed, FinalNext, Finish, Complete, DrainDeadline,
          ReleaseTail, ServeCheckpoint, ReleaseRuntime, SessionGone
  <2> QED
    BY <1>0, <2>1
<1> QED
  BY <1>3, <1>4, <1>5, <1>6 DEF AnswerTypes, Answers

\* Every step keeps the ranges.
LEMMA RangeKeeps ==
    ASSUME HostInv, HostRange, HostStep
    PROVE  HostRange'
BY InboxStep, FlagsStep, BytesStep, AnswersStep DEF HostRange

\* A session that was just started is within them.
LEMMA RangeStarts ==
    ASSUME HostInit
    PROVE  HostRange
<1>1. Size(chunks) = 0
  BY EmptySize, Zenon DEF HostInit
<1>2. InboxInv
  BY <1>1, OutputAssumption DEF InboxInv, HostInit
<1>3. FlagTypes
  BY DEF FlagTypes, HostInit
<1>4. ByteTypes
  BY ChunkRun, OutputAssumption DEF ByteTypes, HostInit
<1>5. AnswerTypes
  BY ChunkRun, OutputAssumption DEF AnswerTypes, HostInit, NoRecord, NoReply
<1> QED
  BY <1>2, <1>3, <1>4, <1>5 DEF HostRange

\* They are the types of the host's variables.
LEMMA HostTyped ==
    ASSUME HostInv, HostRange
    PROVE  HostTypeOK
<1>1. /\ read \in 0..MaxBytes /\ end_offset \in 0..MaxBytes
      /\ tail \in [start : 0..MaxBytes, bytes : Chunk]
  <2>1. /\ end_offset \in Nat /\ read \in Nat /\ end_offset <= read /\ read <= MaxBytes
        /\ tail \in Tails /\ tail.start <= end_offset /\ tail.bytes \in Chunk /\ MaxBytes \in Nat
    BY OutputAssumption DEF HostInv, StreamTypes, ContentInv, HostRange, ByteTypes
  <2>2. tail.start \in 0..MaxBytes
    BY <2>1 DEF Tails
  <2> QED
    BY <2>1, <2>2 DEF Tails
<1>2. inbox_bytes \in 0..MaxBytes
  BY <1>1, InboxRange DEF HostRange, ByteTypes
<1> QED
  BY <1>1, <1>2 DEF HostTypeOK, HostInv, StreamTypes, HostRange, FlagTypes, ByteTypes, AnswerTypes
-----------------------------------------------------------------------------
(***************************************************************************)
(* What the session thread is owed                                         *)
(***************************************************************************)

Sent(m) == \E i \in DOMAIN channel : channel[i] = m

\* An inbox that holds something is notified, and then the notice is on its way or
\* the session thread goes on by itself: it is at work on a slice and knows that
\* more is left, it comes back to what is left, or it drains to the end.
NoticeInv ==
    /\ spc = "ended" => closed
    /\ chunks # <<>> => notified
    /\ notified /\ ~closed =>
          \/ rpc = "notifying" \/ Sent(Ready) \/ spc = "finalize"
          \/ spc \in {"feed", "final_feed"} /\ more
          \/ spc = "serve" /\ output_pending

\* The last checkpoint that was asked for is answered or in the channel.
AnswerInv == reply.id = asked \/ Sent(Checkpoint(asked))

\* A message stays in the channel until it is its turn.
LEMMA SentStays ==
    ASSUME StreamTypes, NEW m, Sent(m),
           \/ channel' = channel
           \/ \E x \in Message : channel' = Append(channel, x)
           \/ channel # <<>> /\ channel' = Tail(channel) /\ Head(channel) # m
    PROVE  Sent(m)'
<1>0. channel \in Seq(Message)
  BY DEF StreamTypes
<1>1. PICK i \in DOMAIN channel : channel[i] = m
  BY DEF Sent
<1>2. CASE channel' = channel
  BY <1>1, <1>2 DEF Sent
<1>3. ASSUME NEW x \in Message, channel' = Append(channel, x)
      PROVE  Sent(m)'
  <2>1. i \in DOMAIN channel' /\ channel'[i] = m
    BY <1>0, <1>1, <1>3
  <2> QED
    BY <2>1 DEF Sent
<1>4. CASE channel # <<>> /\ channel' = Tail(channel) /\ Head(channel) # m
  <2>1. i \in 1..Len(channel) /\ i # 1 /\ Len(channel) \in Nat
    BY <1>0, <1>1, <1>4
  <2>2. PICK j \in Nat : i = j + 1 /\ j \in 1..(Len(channel) - 1)
    BY <2>1
  <2>3. j \in DOMAIN channel' /\ channel'[j] = m
    BY <1>0, <1>1, <1>4, <2>2
  <2> QED
    BY <2>3 DEF Sent
<1> QED
  BY <1>2, <1>3, <1>4

\* A message that is sent is in the channel.
LEMMA SentNow ==
    ASSUME StreamTypes, NEW m \in Message, channel' = Append(channel, m)
    PROVE  Sent(m)'
<1>1. channel \in Seq(Message)
  BY DEF StreamTypes
<1>2. Len(channel) + 1 \in DOMAIN channel' /\ channel'[Len(channel) + 1] = m
  BY <1>1
<1> QED
  BY <1>2 DEF Sent

\* No step leaves bytes in the inbox that nobody comes for.
LEMMA NoticeStep ==
    ASSUME HostInv, NoticeInv, HostStep
    PROVE  NoticeInv'
<1> USE DEF HostInv
<1>0. StreamTypes /\ Ready \in Message /\ Eof \in Message /\ ChildExited \in Message
  BY MessageKinds
<1>a. ASSUME UNCHANGED <<chunks, notified, closed, more, output_pending>>,
             Sent(Ready) => Sent(Ready)',
             rpc = "notifying" => rpc' = "notifying" \/ Sent(Ready)',
             spc' = spc \/ spc' = "finalize"
      PROVE  NoticeInv'
  BY <1>a DEF NoticeInv
<1>1. ASSUME NEW n \in 1..ReadBytes, ReadPty(n) PROVE NoticeInv'
  BY <1>1 DEF ReadPty, NoticeInv, Sent, inbox, session, flow
<1>2. CASE Push
  <2>1. UNCHANGED <<closed, channel, spc, more, output_pending>> /\ rpc = "pushing"
    BY <1>2 DEF Push, session, flow
  <2>2. Sent(Ready)' <=> Sent(Ready)
    BY <2>1 DEF Sent
  <2>3. CASE closed
    BY <1>2, <2>1, <2>3 DEF Push, NoticeInv
  <2>4. CASE ~closed
    BY <1>2, <2>1, <2>2, <2>4 DEF Push, NoticeInv
  <2> QED
    BY <2>3, <2>4
<1>3. CASE Notify
  <2>1. UNCHANGED <<inbox, session>>
    BY <1>3 DEF Notify
  <2>2. CASE spc = "ended"
    BY <2>1, <2>2 DEF NoticeInv, inbox, session, flow
  <2>3. CASE spc # "ended"
    <3>1. Sent(Ready)'
      BY <1>0, <1>3, <2>3, SentNow DEF Notify
    <3> QED
      BY <1>a, <2>1, <3>1 DEF inbox, session, flow
  <2> QED
    BY <2>2, <2>3
<1>4. CASE \/ ReaderEnds \/ ChildEnds
           \/ AskCheckpoint /\ UNCHANGED <<reader, inbox, session, stream, registry>>
  <2>1. UNCHANGED <<inbox, session>> /\ (rpc = "notifying" => rpc' = "notifying")
    BY <1>4 DEF ReaderEnds, ChildEnds, reader
  <2>2. channel' = channel \/ \E x \in Message : channel' = Append(channel, x)
    <3>1. CASE AskCheckpoint
      BY <3>1, NextNumber, MessageKinds DEF AskCheckpoint
    <3> QED
      BY <1>0, <1>4, <3>1 DEF ReaderEnds, ChildEnds
  <2>3. Sent(Ready) => Sent(Ready)'
    BY <1>0, <2>2, SentStays
  <2> QED
    BY <1>a, <2>1, <2>3 DEF inbox, session, flow
<1>5. CASE DrainInbox \/ FinalSlice
  <2>1. /\ TakeSlice /\ taken = <<>> /\ UNCHANGED <<rpc, chunk>>
        /\ spc' \in {"feed", "final_feed"}
    BY <1>5 DEF DrainInbox, FinalSlice, FlowInv, Arrived, reader
  <2>2. ~more' => chunks' = <<>>
    BY <1>0, <2>1, SliceTaken
  <2>3. notified' <=> more'
    <3>1. notified' = more'
      BY <2>1 DEF TakeSlice
    <3> QED
      BY <3>1
  <2>4. chunks' # <<>> => notified'
    BY <2>2, <2>3, Zenon
  <2>5. notified' => spc' \in {"feed", "final_feed"} /\ more'
    BY <2>1, <2>3, Zenon
  <2>6. spc' # "ended"
    BY <2>1
  <2> QED
    BY <2>4, <2>5, <2>6, Zenon DEF NoticeInv
<1>6. CASE Feed \/ FinalFeed
  <2>1. UNCHANGED <<rpc, channel, chunks, notified, closed, spc, more, output_pending>>
    BY <1>6 DEF Feed, FinalFeed, reader, inbox
  <2>2. Sent(Ready)' <=> Sent(Ready)
    BY <2>1 DEF Sent
  <2> QED
    BY <1>a, <2>1, <2>2
<1>7. CASE SliceFed
  <2>1. /\ UNCHANGED <<rpc, channel, chunks, notified, closed>> /\ output_pending' = more
        /\ spc = "feed" /\ spc' = "serve"
    BY <1>7 DEF SliceFed, reader, inbox
  <2>2. Sent(Ready)' <=> Sent(Ready)
    BY <2>1 DEF Sent
  <2> QED
    BY <2>1, <2>2 DEF NoticeInv
<1>8. CASE OnEof \/ OnChildExited
  <2>1. UNCHANGED <<reader, inbox, flow>> /\ (spc' = spc \/ spc' = "finalize")
    BY <1>8 DEF OnEof, OnChildExited, Finalizes
  <2>2. channel # <<>> /\ channel' = Tail(channel) /\ Head(channel) \in {Eof, ChildExited}
    BY <1>8 DEF OnEof, OnChildExited, Arrived
  <2>3. Sent(Ready) => Sent(Ready)'
    BY <1>0, <2>2, MessageKinds, SentStays
  <2> QED
    BY <1>a, <2>1, <2>3 DEF reader, inbox, flow
<1>9. CASE DrainDeadline \/ FinalNext
  <2>1. UNCHANGED <<reader, inbox, channel, flow>> /\ spc' = "finalize"
    BY <1>9 DEF DrainDeadline, FinalNext, Finalizes
  <2>2. Sent(Ready)' <=> Sent(Ready)
    BY <2>1 DEF Sent
  <2> QED
    BY <1>a, <2>1, <2>2 DEF reader, inbox, flow
<1>10. CASE Finish
  <2>1. UNCHANGED <<reader, inbox, channel, flow>> /\ spc = "final_feed" /\ ~more /\ spc' = "complete"
    BY <1>10 DEF Finish
  <2>2. Sent(Ready)' <=> Sent(Ready)
    BY <2>1 DEF Sent
  <2> QED
    BY <2>1, <2>2 DEF NoticeInv, reader, inbox, flow
<1>11. CASE Complete
  BY <1>11 DEF Complete, NoticeInv
<1>12. CASE ReleaseTail
  <2>1. closed /\ UNCHANGED inbox
    BY <1>12 DEF ReleaseTail, EndInv
  <2> QED
    BY <2>1 DEF NoticeInv, inbox
<1>13. CASE ServeCheckpoint
  <2>1. UNCHANGED <<reader, inbox, session>>
    BY <1>13 DEF ServeCheckpoint
  <2>2. PICK n : channel # <<>> /\ channel' = Tail(channel) /\ Head(channel) = Checkpoint(n)
    BY <1>13 DEF ServeCheckpoint, Arrived
  <2>3. Sent(Ready) => Sent(Ready)'
    BY <1>0, <2>2, MessageKinds, SentStays
  <2> QED
    BY <1>a, <2>1, <2>3 DEF reader, inbox, session, flow
<1>14. CASE ReleaseRuntime \/ SessionGone \/ UNCHANGED hostVars
  <2>1. UNCHANGED <<reader, inbox, channel, session>>
    BY <1>14 DEF ReleaseRuntime, SessionGone, hostVars
  <2>2. Sent(Ready)' <=> Sent(Ready)
    BY <2>1 DEF Sent
  <2> QED
    BY <1>a, <2>1, <2>2 DEF reader, inbox, session, flow
<1> QED
  BY <1>1, <1>2, <1>3, <1>4, <1>5, <1>6, <1>7, <1>8, <1>9, <1>10, <1>11, <1>12, <1>13, <1>14
     DEF HostStep, HostNext, ReaderThread, SessionThread

\* No step drops a checkpoint without an answer.
LEMMA AnswerStep ==
    ASSUME HostInv, AnswerInv, HostStep
    PROVE  AnswerInv'
<1> USE DEF HostInv
<1>0. StreamTypes
  OBVIOUS
<1>a. ASSUME UNCHANGED <<reply, asked>>, Sent(Checkpoint(asked)) => Sent(Checkpoint(asked))'
      PROVE  AnswerInv'
  BY <1>a DEF AnswerInv
<1>1. CASE AskCheckpoint
  <2>1. asked' = asked + 1 /\ asked + 1 \in 1..MaxCheckpoints /\ asked + 1 \in Nat
    BY <1>0, <1>1, NextNumber
  <2>2. CASE reply' = Refusal(asked + 1)
    BY <2>1, <2>2, RefusalFields DEF AnswerInv
  <2>3. CASE channel' = Append(channel, Checkpoint(asked + 1))
    <3>1. PICK m \in Message : m = Checkpoint(asked + 1)
      BY <2>1, MessageKinds
    <3>2. Sent(m)'
      BY <1>0, <2>3, <3>1, SentNow
    <3> QED
      BY <2>1, <3>1, <3>2 DEF AnswerInv, Sent
  <2> QED
    BY <1>1, <2>2, <2>3 DEF AskCheckpoint, Refusal
<1>2. CASE ReleaseTail
  <2>1. asked' = asked /\ asked \in Nat
    BY <1>2, OutputAssumption DEF ReleaseTail, StreamTypes
  <2>2. CASE Sent(Checkpoint(asked))
    <3>1. reply' = Refusal(asked)
      BY <1>2, <2>2 DEF ReleaseTail, Refusal, Sent
    <3> QED
      BY <2>1, <3>1, RefusalFields DEF AnswerInv
  <2>3. CASE ~Sent(Checkpoint(asked))
    BY <1>2, <2>1, <2>3 DEF ReleaseTail, AnswerInv, Sent
  <2> QED
    BY <2>2, <2>3
<1>3. CASE ServeCheckpoint
  <2>1. PICK n \in 1..asked :
            /\ Arrived(Checkpoint(n)) /\ asked' = asked
            /\ n = asked => reply'.id = asked
            /\ n # asked => reply' = reply
    BY <1>3 DEF ServeCheckpoint
  <2>2. channel # <<>> /\ channel' = Tail(channel) /\ Head(channel) = Checkpoint(n)
    BY <2>1 DEF Arrived
  <2>3. CASE n = asked
    BY <2>1, <2>3 DEF AnswerInv
  <2>4. CASE n # asked
    <3>1. Head(channel) # Checkpoint(asked)
      BY <2>2, <2>4, MessageKinds
    <3>2. Sent(Checkpoint(asked)) => Sent(Checkpoint(asked))'
      <4>1. PICK m : m = Checkpoint(asked) /\ m = Checkpoint(asked')
        BY <2>1
      <4>2. Sent(m) => Sent(m)'
        BY <1>0, <2>2, <3>1, <4>1, SentStays
      <4> QED
        BY <4>1, <4>2 DEF Sent
    <3> QED
      BY <1>a, <2>1, <2>4, <3>2
  <2> QED
    BY <2>3, <2>4
<1>4. CASE ~(AskCheckpoint \/ ReleaseTail \/ ServeCheckpoint)
  <2>1. UNCHANGED <<reply, asked>>
    BY <1>4 DEF HostStep, HostNext, ReaderThread, SessionThread, hostVars, checkpoints, ReadPty, Push,
          Notify, ReaderEnds, ChildEnds, DrainInbox, Feed, SliceFed, OnEof, OnChildExited, FinalSlice,
          FinalFeed, FinalNext, Finish, Complete, DrainDeadline, ReleaseRuntime, SessionGone
  <2>2. \/ channel' = channel
        \/ \E x \in Message : channel' = Append(channel, x)
        \/ channel # <<>> /\ channel' = Tail(channel) /\ Head(channel) \in {Ready, Eof, ChildExited}
    BY <1>4, MessageKinds DEF HostStep, HostNext, ReaderThread, SessionThread, hostVars, ReadPty, Push,
          Notify, ReaderEnds, ChildEnds, DrainInbox, Feed, SliceFed, OnEof, OnChildExited, FinalSlice,
          FinalFeed, FinalNext, Finish, Complete, DrainDeadline, ReleaseRuntime, SessionGone, Arrived
  <2>3. PICK m : m = Checkpoint(asked) /\ m = Checkpoint(asked')
    BY <2>1
  <2>4. Sent(m) => Sent(m)'
    BY <1>0, <2>2, <2>3, MessageKinds, SentStays
  <2>5. Sent(Checkpoint(asked)) => Sent(Checkpoint(asked))'
    BY <2>3, <2>4 DEF Sent
  <2> QED
    BY <1>a, <2>1, <2>5
<1> QED
  BY <1>1, <1>2, <1>3, <1>4

\* Both hold of a session that was just started.
LEMMA OwedStarts ==
    ASSUME HostInit
    PROVE  NoticeInv /\ AnswerInv
<1>1. reply.id = asked
  BY DEF HostInit, NoReply
<1> QED
  BY <1>1 DEF HostInit, NoticeInv, AnswerInv
=============================================================================
