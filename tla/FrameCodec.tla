----------------------------- MODULE FrameCodec -----------------------------
(***************************************************************************)
(* The frame codec of the server pipeline and the buffer pools it shares   *)
(* between connections: FrameCodec (pkg/proto/protocol.go), the stream     *)
(* assembly (stream.go), the frame reader (codec.go) and the pools         *)
(* (pool.go).                                                              *)
(*                                                                         *)
(* One goroutine per connection runs HandleRead again and again until the  *)
(* connection is closed: it decodes one logical message out of its wire    *)
(* frames, dispatches it, which may encode and write a reply, and recycles *)
(* the buffers.  The pools are the only state connections share; one step  *)
(* of a goroutine has at most one Get, or the Puts of one release.         *)
(*                                                                         *)
(* Arrays and frame objects have an identity, so that two owners of one    *)
(* are seen.  A slice is an array and a length; a pool cell is named by    *)
(* the array it holds.  An object nobody refers to is garbage and can be   *)
(* allocated again; sync.Pool may drop what it holds, so that a parked     *)
(* array no Get asked for serves when there is no other.                   *)
(***************************************************************************)
EXTENDS Framing, SequencesExt

CONSTANTS Arrays, Frames,
          None,           \* a nil pointer
          HeaderSize,
          Threshold,      \* streamThreshold of a connection's codec
          MaxPublishes    \* publishes written to a connection meanwhile

ASSUME ClassesAssumption ==
  /\ Classes \in Seq(Nat \ {0}) /\ Len(Classes) > 0
  /\ \A i, j \in 1 .. Len(Classes) : i < j => Classes[i] < Classes[j]
ASSUME SizesAssumption ==
  /\ HeaderSize \in Nat \ {0}
  /\ MaxStreamSize \in Nat /\ MaxStreamSize >= MaxFrameSize
  /\ Threshold \in [Conns -> Int]
  /\ MaxPublishes \in [Conns -> Nat]
ASSUME NoneAssumption == None \notin Arrays \cup Frames
ASSUME ScriptsAssumption ==
  \A c \in Conns : \A w \in Scripts[c] :
    w \in Seq(ToSet(w)) /\ \A i \in DOMAIN w : w[i].len \in Nat /\ w[i].more \in BOOLEAN

VARIABLES
  script, pos,   \* the wire frames of the peer, and how many were read
  fault,         \* a read, a reply or a handler failed before the end
  closed,        \* lifecycleConn.closed
  pc, after,     \* program counter, and where it goes after a release
  cur,           \* the frame object decodeFrame fills (next)
  first,         \* the frame object decodeStreamed returns (frame)
  buf,           \* the aggregate
  drops,         \* frame objects to release, in this order
  outs,          \* encoded buffers of the reply
  joined,        \* the encoded bytes to write
  frame, idle,   \* the frame objects, how often each is in the pool
  array, parked, \* the arrays, how often each is in the pool
  delivered,     \* history: the payloads that were dispatched
  written        \* the frames on the wire to the peer

decodeVars == <<script, pos, cur, first, buf>>
poolVars   == <<frame, idle, array, parked>>
replyVars  == <<outs, joined, written>>
flowVars   == <<pc, after, drops, closed, fault>>
vars == <<decodeVars, poolVars, replyVars, flowVars, delivered>>

NilSlice  == [arr |-> None, len |-> 0]
ZeroFrame == [head |-> <<>>, payload |-> NilSlice, cell |-> None, live |-> FALSE]
ZeroByte  == <<"zero">>
HeaderByte(more) == <<"header", more>>

Content(s) == IF s.arr = None THEN <<>> ELSE SubSeq(array[s.arr], 1, s.len)

\* bytes as the first bytes of what an array holds
Over(old, bytes) == bytes \o SubSeq(old, Len(bytes) + 1, Len(old))

Init ==
  /\ script \in [Conns -> UNION {Scripts[c] : c \in Conns}]
  /\ \A c \in Conns : script[c] \in Scripts[c]
  /\ pos = [c \in Conns |-> 0]
  /\ cur = [c \in Conns |-> None]
  /\ first = [c \in Conns |-> None]
  /\ buf = [c \in Conns |-> NilSlice]
  /\ frame = [f \in Frames |-> ZeroFrame]
  /\ idle = [f \in Frames |-> 0]
  /\ array = [a \in Arrays |-> <<>>]
  /\ parked = [a \in Arrays |-> 0]
  /\ outs = [c \in Conns |-> <<>>]
  /\ joined = [c \in Conns |-> <<>>]
  /\ written = [c \in Conns |-> <<>>]
  /\ pc = [c \in Conns |-> "decode"]
  /\ after = [c \in Conns |-> "decode"]
  /\ drops = [c \in Conns |-> <<>>]
  /\ closed = [c \in Conns |-> FALSE]
  /\ fault = [c \in Conns |-> FALSE]
  /\ delivered = [c \in Conns |-> <<>>]

Goto(c, l) == pc' = [pc EXCEPT ![c] = l]

-----------------------------------------------------------------------------
(* The pools                                                               *)

FrameRefs(c) == ({cur[c], first[c]} \cup ToSet(drops[c])) \ {None}

\* The arrays of a frame object: its payload's, and the one of its pool cell.
ArraysOf(f) == {frame[f].payload.arr, frame[f].cell} \ {None}

ArrayRefs(c) ==
  ((UNION {ArraysOf(f) : f \in FrameRefs(c)})
     \cup {buf[c].arr} \cup {outs[c][i].arr : i \in DOMAIN outs[c]}) \ {None}

ClassIndexForSize(size) ==
  LET fits == {i \in 1 .. Len(Classes) : size <= Classes[i]}
  IN  IF size <= 0 \/ fits = {} THEN 0 ELSE Min(fits)

ClassIndexForCap(cap) ==
  LET serves == {i \in 1 .. Len(Classes) : Classes[i] <= cap}
  IN  IF serves = {} \/ cap > MaxFrameSize THEN 0 ELSE Max(serves)

\* An object nobody refers to, one that is not in the pool if there is one.
Garbage(all, refs, inPool) ==
  LET unused == {x \in all \ refs : inPool[x] = 0}
  IN  IF unused # {} THEN {CHOOSE x \in unused : TRUE}
      ELSE IF all \ refs # {} THEN {CHOOSE x \in all \ refs : TRUE} ELSE {}

FreshArray == Garbage(Arrays, UNION {ArrayRefs(c) : c \in Conns}, parked)
FreshFrame == Garbage(Frames, UNION {FrameRefs(c) : c \in Conns}, idle)

Shelf(i) == {a \in Arrays : parked[a] > 0 /\ ClassIndexForCap(Len(array[a])) = i}

\* make: array a is new and holds size zero bytes, then bytes.
Allocate(a, size, bytes) ==
  /\ a \in FreshArray
  /\ parked' = [parked EXCEPT ![a] = 0]
  /\ array' = [array EXCEPT ![a] = Over([k \in 1 .. size |-> ZeroByte], bytes)]

\* getPayload, after which the caller writes bytes: a parked array of the
\* class, or a new one.
GetPayload(a, i, bytes) ==
  \/ /\ a \in Shelf(i)
     /\ parked' = [parked EXCEPT ![a] = @ - 1]
     /\ array' = [array EXCEPT ![a] = Over(@, bytes)]
  \/ Shelf(i) = {} /\ Allocate(a, Classes[i], bytes)

\* A release without the backing check: the array of a payload that never
\* left its cell is returned twice.
BothArrays(s, cell) == IF cell = None THEN <<s.arr>> ELSE <<cell, s.arr>>

\* releasePayload: the array last used and, if append left the first one
\* behind, that one too.
ReleasedArrays(s, cell) ==
  IF cell = None \/ s.arr = cell THEN <<s.arr>> ELSE <<cell, s.arr>>

\* putPayloadArray of each; one that no class serves is left to the collector.
\* The next owner may write at any time: parked bytes count as lost.
PutPayloads(arrs) ==
  LET Parks(a) == a \in ToSet(arrs) /\ ClassIndexForCap(Len(array[a])) > 0
  IN  /\ parked' = [a \in Arrays |->
                      IF Parks(a) THEN parked[a] + Cardinality({n \in 1 .. Len(arrs) : arrs[n] = a})
                      ELSE parked[a]]
      /\ array' = [a \in Arrays |->
                     IF Parks(a) THEN [k \in 1 .. Len(array[a]) |-> ZeroByte] ELSE array[a]]

-----------------------------------------------------------------------------
(* decodeStreamed                                                          *)

\* HandleRead begins, or the next fragment is read: acquireFrame.
AcquireFrame(c) ==
  /\ pc[c] = "decode"
  /\ \E f \in Frames :
       /\ \/ idle[f] > 0 /\ idle' = [idle EXCEPT ![f] = @ - 1]
                         /\ frame' = [frame EXCEPT ![f].live = TRUE]
          \/ (\A g \in Frames : idle[g] = 0) /\ f \in FreshFrame /\ idle' = [idle EXCEPT ![f] = 0]
                              /\ frame' = [frame EXCEPT ![f] = [ZeroFrame EXCEPT !.live = TRUE]]
       /\ cur' = [cur EXCEPT ![c] = f]
  /\ Goto(c, "header")
  /\ UNCHANGED <<script, pos, first, buf, array, parked, replyVars, after, drops,
                 closed, fault, delivered>>

\* The frames an error exit releases: the one being read, then the aggregate's.
ReleasesAll(c) ==
  LET IfAny(f) == IF f = None THEN <<>> ELSE <<f>>
  IN  IfAny(cur[c]) \o IfAny(first[c])

\* The error return of decodeStreamed; HandleRead closes the connection,
\* quietly or with the error.
DecodeFails(c) ==
  /\ drops' = [drops EXCEPT ![c] = ReleasesAll(c)]
  /\ cur' = [cur EXCEPT ![c] = None]
  /\ first' = [first EXCEPT ![c] = None]
  /\ buf' = [buf EXCEPT ![c] = NilSlice]
  /\ after' = [after EXCEPT ![c] = "close"]
  /\ Goto(c, "release")

AtEnd(c) == pos[c] = Len(script[c])
Wire(c) == script[c][pos[c] + 1]

\* io.ReadFull fails: the peer hung up between or within frames, the idle
\* deadline passed, or the connection was closed by the server.
ReadFails(c) ==
  /\ pc[c] \in {"header", "payload"}
  /\ fault' = [fault EXCEPT ![c] = @ \/ ~AtEnd(c)]
  /\ DecodeFails(c)
  /\ UNCHANGED <<script, pos, poolVars, replyVars, closed, delivered>>

\* parseHeaderInto refuses the announced length; one of 2^31 or more becomes a
\* negative int32 and is refused as well.
HeaderRefused(c) ==
  /\ pc[c] = "header" /\ ~AtEnd(c)
  /\ Wire(c).len > MaxFrameSize
  /\ DecodeFails(c)
  /\ UNCHANGED <<script, pos, poolVars, replyVars, closed, fault, delivered>>

\* The header is parsed into the frame; acquirePayload for a positive length.
ReadHeader(c) ==
  /\ pc[c] = "header" /\ ~AtEnd(c)
  /\ Wire(c).len <= MaxFrameSize
  /\ IF Wire(c).len = 0
     THEN /\ frame' = [frame EXCEPT ![cur[c]].head = Wire(c)]
          /\ UNCHANGED <<array, parked>>
     ELSE \E a \in Arrays :
            /\ GetPayload(a, ClassIndexForSize(Wire(c).len), <<>>)
            /\ frame' = [frame EXCEPT ![cur[c]].head = Wire(c), ![cur[c]].cell = a,
                           ![cur[c]].payload = [arr |-> a, len |-> Wire(c).len]]
  /\ Goto(c, "payload")
  /\ UNCHANGED <<decodeVars, idle, replyVars, after, drops, closed, fault, delivered>>

WireBytes(c, i) == [k \in 1 .. script[c][i].len |-> <<c, i, k>>]

\* The payload is read into its buffer.  The first frame of a message is the
\* message itself or the aggregate of the fragments that follow.
ReadPayload(c) ==
  /\ pc[c] = "payload"
  /\ array' = LET s == frame[cur[c]].payload
              IN  IF s.arr = None THEN array
                  ELSE [array EXCEPT ![s.arr] = Over(@, WireBytes(c, pos[c] + 1))]
  /\ pos' = [pos EXCEPT ![c] = @ + 1]
  /\ IF first[c] = None
     THEN /\ first' = [first EXCEPT ![c] = cur[c]]
          /\ cur' = [cur EXCEPT ![c] = None]
          /\ buf' = [buf EXCEPT ![c] = IF Wire(c).more THEN frame[cur[c]].payload ELSE @]
          /\ Goto(c, IF Wire(c).more THEN "decode" ELSE "dispatch")
     ELSE Goto(c, "fragment") /\ UNCHANGED <<first, cur, buf>>
  /\ UNCHANGED <<script, frame, idle, parked, replyVars, after, drops, closed, fault,
                 delivered>>

\* A decoder that follows the stream id only.
SameStream(h, g) == h.id = g.id

\* The continuity check of stream id and type.
Continues(h, g) == h.id = g.id /\ h.type = g.type

StreamViolation(c) ==
  /\ pc[c] = "fragment"
  /\ ~Continues(frame[cur[c]].head, frame[first[c]].head)
  /\ DecodeFails(c)
  /\ UNCHANGED <<script, pos, poolVars, replyVars, closed, fault, delivered>>

\* append: in place while the capacity lasts, else a new array of at least
\* the length needed takes over.
AppendTo(c, s, bytes) ==
  LET need == s.len + Len(bytes)
      has  == IF s.arr = None THEN 0 ELSE Len(array[s.arr])
  IN  IF need <= has
      THEN /\ array' = [array EXCEPT ![s.arr] =
                          SubSeq(@, 1, s.len) \o bytes \o SubSeq(@, need + 1, has)]
           /\ buf' = [buf EXCEPT ![c] = [s EXCEPT !.len = need]]
           /\ UNCHANGED parked
      ELSE \E a \in Arrays, cap \in {need, need + 1} :
             /\ Allocate(a, cap, Content(s) \o bytes)
             /\ buf' = [buf EXCEPT ![c] = [arr |-> a, len |-> need]]

\* The flag is read after the release zeroed the header: no more to come.
LastReadLate(f) == TRUE

\* last, read before the release
LastFragment(f) == ~frame[f].head.more

\* The fragment's bytes join the aggregate and its frame is released.
AppendFragment(c) ==
  /\ pc[c] = "fragment"
  /\ Continues(frame[cur[c]].head, frame[first[c]].head)
  /\ AppendTo(c, buf[c], Content(frame[cur[c]].payload))
  /\ drops' = [drops EXCEPT ![c] = <<cur[c]>>]
  /\ cur' = [cur EXCEPT ![c] = None]
  /\ after' = [after EXCEPT ![c] = IF LastFragment(cur[c]) THEN "last" ELSE "more"]
  /\ Goto(c, "release")
  /\ UNCHANGED <<script, pos, first, frame, idle, replyVars, closed, fault, delivered>>

\* The limit counted as reached by an aggregate of exactly its size.
TooLargeOffByOne(n) == n >= MaxStreamSize

TooLarge(n) == n > MaxStreamSize

StreamTooLarge(c) ==
  /\ pc[c] \in {"more", "last"}
  /\ TooLarge(buf[c].len)
  /\ DecodeFails(c)
  /\ UNCHANGED <<script, pos, poolVars, replyVars, closed, fault, delivered>>

\* More fragments are read, or the aggregate becomes the frame's payload.
Assembled(c) ==
  /\ pc[c] \in {"more", "last"}
  /\ ~TooLarge(buf[c].len)
  /\ IF pc[c] = "more"
     THEN Goto(c, "decode") /\ UNCHANGED <<frame, buf>>
     ELSE /\ Goto(c, "dispatch")
          /\ frame' = [frame EXCEPT
                         ![first[c]].payload = buf[c],
                         ![first[c]].head = [type |-> @.type, id |-> @.id,
                                             len |-> buf[c].len, more |-> FALSE]]
          /\ buf' = [buf EXCEPT ![c] = NilSlice]
  /\ UNCHANGED <<script, pos, cur, first, idle, array, parked, replyVars, after, drops,
                 closed, fault, delivered>>

-----------------------------------------------------------------------------
(* release                                                                 *)

\* Frame.release: the fields are cleared, the arrays and the frame parked; a
\* frame that was released already stays as it is.
Release(c) ==
  /\ pc[c] = "release"
  /\ drops[c] # <<>>
  /\ LET f == Head(drops[c])
     IN  IF frame[f].live
         THEN /\ PutPayloads(ReleasedArrays(frame[f].payload, frame[f].cell))
              /\ frame' = [frame EXCEPT ![f] = ZeroFrame]
              /\ idle' = [idle EXCEPT ![f] = @ + 1]
         ELSE UNCHANGED poolVars
  /\ drops' = [drops EXCEPT ![c] = Tail(@)]
  /\ UNCHANGED <<decodeVars, replyVars, pc, after, closed, fault, delivered>>

\* An error that leaves the connection open: the worker loop reads on.
StaysOpen(c) == closed[c]

\* Conn().Close(), or ctx.Close of the pipeline context
ClosedBy(c) == closed[c] \/ after[c] = "close"

\* HandleRead returns, or decodeStreamed goes on.  The worker loop calls
\* HandleRead again unless the connection is closed.
Released(c) ==
  /\ pc[c] = "release"
  /\ drops[c] = <<>>
  /\ closed' = [closed EXCEPT ![c] = ClosedBy(c)]
  /\ Goto(c, IF after[c] \in {"more", "last"} THEN after[c]
             ELSE IF closed'[c] THEN "end" ELSE "decode")
  /\ after' = [after EXCEPT ![c] = "decode"]
  /\ UNCHANGED <<decodeVars, poolVars, replyVars, drops, fault, delivered>>

-----------------------------------------------------------------------------
(* ctx.HandleRead(frame): the handler reads the payload in place and may   *)
(* answer with a slice of it                                               *)

\* What HandleRead does after the dispatch: release the frame.
AfterDispatch(c) ==
  /\ drops' = [drops EXCEPT ![c] = <<first[c]>>]
  /\ first' = [first EXCEPT ![c] = None]
  /\ after' = [after EXCEPT ![c] = "decode"]
  /\ Goto(c, "release")

\* The handler is done with the payload; a request is answered with its bytes.
Handle(c) ==
  /\ pc[c] = "dispatch"
  /\ delivered' = [delivered EXCEPT ![c] = Append(@, Content(frame[first[c]].payload))]
  /\ IF frame[first[c]].head.type = "request"
     THEN Goto(c, "encode") /\ UNCHANGED <<drops, first, after>>
     ELSE AfterDispatch(c)
  /\ UNCHANGED <<script, pos, cur, buf, poolVars, replyVars, closed, fault>>

\* The handler panics: the worker recovers, closes the connection and ends;
\* nobody releases the frame, it is left to the collector.
HandlerPanics(c) ==
  /\ pc[c] = "dispatch"
  /\ frame' = [frame EXCEPT ![first[c]] = ZeroFrame]
  /\ first' = [first EXCEPT ![c] = None]
  /\ closed' = [closed EXCEPT ![c] = TRUE]
  /\ fault' = [fault EXCEPT ![c] = TRUE]
  /\ Goto(c, "end")
  /\ UNCHANGED <<script, pos, cur, buf, idle, array, parked, replyVars, after, drops,
                 delivered>>

\* FrameCodec.HandleWrite -> encodeMessage: the clamped fragment size.
FragmentSize(c) ==
  IF Threshold[c] <= 0 \/ Threshold[c] > MaxFrameSize THEN MaxFrameSize ELSE Threshold[c]

\* encodeFrameInto: one wire frame, in a pooled buffer or, above the largest
\* class, in an exact one without a cell.
EncodeFrame(c) ==
  LET payload == Content(frame[first[c]].payload)
      offset  == Len(outs[c]) * FragmentSize(c)
      end     == Min({offset + FragmentSize(c), Len(payload)})
      more    == end < Len(payload)
      total   == HeaderSize + end - offset
      idx     == ClassIndexForSize(total)
      bytes   == [k \in 1 .. HeaderSize |-> HeaderByte(more)]
                   \o SubSeq(payload, offset + 1, end)
  IN  /\ pc[c] = "encode" /\ payload # <<>>
      /\ \E a \in Arrays :
           /\ IF idx > 0 THEN GetPayload(a, idx, bytes) ELSE Allocate(a, total, bytes)
           /\ outs' = [outs EXCEPT ![c] =
                         Append(@, [arr |-> a, len |-> total, cell |-> idx > 0])]
      /\ Goto(c, IF more THEN "encode" ELSE "join")
      /\ UNCHANGED <<decodeVars, frame, idle, joined, written, after, drops, closed, fault,
                     delivered>>

\* ErrEmptyFrame: HandleWrite closes the connection.
EncodeFails(c) ==
  /\ pc[c] = "encode"
  /\ Content(frame[first[c]].payload) = <<>>
  /\ closed' = [closed EXCEPT ![c] = TRUE]
  /\ fault' = [fault EXCEPT ![c] = TRUE]
  /\ AfterDispatch(c)
  /\ UNCHANGED <<script, pos, cur, buf, poolVars, replyVars, delivered>>

\* Fragments are copied into one buffer and recycled before the write.
\* A single frame is written from its pooled buffer.
Single(c) == Len(outs[c]) = 1

OutContents(c) == [i \in 1 .. Len(outs[c]) |-> Content(outs[c][i])]

\* encodedMessage.release: the buffers that have a cell; the array of the
\* single buffer goes through the class check even without one.
PutOuts(c) ==
  /\ PutPayloads([i \in 1 .. Len(outs[c]) |->
                    IF Single(c) \/ outs[c][i].cell THEN outs[c][i].arr ELSE None])
  /\ outs' = [outs EXCEPT ![c] = <<>>]

JoinFragments(c) ==
  /\ pc[c] = "join" /\ ~Single(c)
  /\ joined' = [joined EXCEPT ![c] = OutContents(c)]
  /\ PutOuts(c)
  /\ Goto(c, "write")
  /\ UNCHANGED <<decodeVars, frame, idle, written, after, drops, closed, fault, delivered>>

\* Every fragment in a Write of its own.
WriteEach(c) ==
  /\ pc[c] = "write"
  /\ ~closed[c]
  /\ written' = [written EXCEPT ![c] = Append(@, Head(joined[c]))]
  /\ joined' = [joined EXCEPT ![c] = Tail(@)]
  /\ IF joined'[c] = <<>> THEN AfterDispatch(c) ELSE UNCHANGED <<drops, first, after, pc>>
  /\ UNCHANGED <<script, pos, cur, buf, poolVars, outs, closed, fault, delivered>>

\* HeadHandler.HandleWrite: one Write of all the fragments.
WriteJoined(c) ==
  /\ pc[c] = "write"
  /\ ~closed[c]
  /\ written' = [written EXCEPT ![c] = @ \o joined[c]]
  /\ joined' = [joined EXCEPT ![c] = <<>>]
  /\ AfterDispatch(c)
  /\ UNCHANGED <<script, pos, cur, buf, poolVars, outs, closed, fault, delivered>>

\* The single buffer goes to the wire as it is.
WriteSingle(c) ==
  /\ pc[c] = "join" /\ Single(c)
  /\ ~closed[c]
  /\ written' = [written EXCEPT ![c] = @ \o OutContents(c)]
  /\ Goto(c, "free")
  /\ UNCHANGED <<decodeVars, poolVars, outs, joined, after, drops, closed, fault, delivered>>

\* msg.release after the write
FreeSingle(c) ==
  /\ pc[c] = "free"
  /\ PutOuts(c)
  /\ AfterDispatch(c)
  /\ UNCHANGED <<script, pos, cur, buf, frame, idle, joined, written, closed, fault, delivered>>

\* A write that fails may have sent a part of a frame.
TornPublish == <<"torn publish">>
TornReply   == <<"torn reply">>

\* A Write that is cut off, by the peer or by the deadline a Publish has set, has sent
\* some of the frames and maybe a part of the next.  HeadHandler panics; the single
\* buffer is not released ...
WriteFails(c) ==
  LET frames == IF pc[c] = "write" THEN joined[c] ELSE OutContents(c)
  IN  /\ pc[c] = "write" \/ (pc[c] = "join" /\ Single(c))
      /\ \E n \in 0 .. Len(frames) - 1, torn \in {<<>>, <<TornReply>>} :
           written' = [written EXCEPT ![c] = @ \o SubSeq(frames, 1, n) \o torn]
      /\ outs' = [outs EXCEPT ![c] = <<>>]
      /\ joined' = [joined EXCEPT ![c] = <<>>]
      /\ Goto(c, "broken")
      /\ UNCHANGED <<decodeVars, poolVars, after, drops, closed, fault, delivered>>

\* ... Context.Write recovers, and the exception closes the connection at the tail.
ExceptionCloses(c) ==
  /\ pc[c] = "broken"
  /\ closed' = [closed EXCEPT ![c] = TRUE]
  /\ fault' = [fault EXCEPT ![c] = TRUE]
  /\ AfterDispatch(c)
  /\ UNCHANGED <<script, pos, cur, buf, poolVars, replyVars, delivered>>

\* Publish writes a frame of its own to the connection, past the pipeline.
PublishBytes == <<"publish">>

\* The write may fail within the frame, its deadline passed: the subscriber is
\* dropped and the connection stays open.
PublishWrites(c) ==
  LET sent == {i \in 1 .. Len(written[c]) : written[c][i] \in {PublishBytes, TornPublish}}
  IN  /\ ~closed[c]
      /\ Cardinality(sent) < MaxPublishes[c]
      /\ \E bytes \in {PublishBytes, TornPublish} :
           written' = [written EXCEPT ![c] = Append(@, bytes)]
      /\ UNCHANGED <<decodeVars, poolVars, outs, joined, flowVars, delivered>>

-----------------------------------------------------------------------------

Step(c) ==
  \/ AcquireFrame(c) \/ ReadHeader(c) \/ HeaderRefused(c) \/ ReadPayload(c)
  \/ ReadFails(c) \/ StreamViolation(c) \/ AppendFragment(c) \/ StreamTooLarge(c)
  \/ Assembled(c) \/ Release(c) \/ Released(c)
  \/ Handle(c) \/ HandlerPanics(c) \/ EncodeFrame(c) \/ EncodeFails(c)
  \/ JoinFragments(c) \/ WriteJoined(c) \/ WriteSingle(c) \/ FreeSingle(c)
  \/ WriteFails(c) \/ ExceptionCloses(c)

Next == \E c \in Conns : Step(c) \/ PublishWrites(c)

Spec == Init /\ [][Next]_vars

\* A goroutine runs, and a read returns: the idle deadline, where one is set,
\* bounds it, or the peer sends or hangs up in the end.
FairSpec == Spec /\ \A c \in Conns : WF_vars(Step(c))
-----------------------------------------------------------------------------
(* Properties                                                              *)

Stream == INSTANCE MessageStream WITH open <- [c \in Conns |-> ~closed[c]]

\* Buffers and frame objects have one owner: in the pool once, or with one
\* connection, never both (pool.go: an array handed to two acquires would mix
\* the bytes of two connections).
PoolExclusive ==
  /\ \A a \in Arrays : parked[a] + Cardinality({c \in Conns : a \in ArrayRefs(c)}) <= 1
  /\ \A f \in Frames : idle[f] + Cardinality({c \in Conns : f \in FrameRefs(c)}) <= 1

\* From the dispatch until the reply is written the payload the handler reads
\* in place is the peer's message (protocol.go: the release point is sound).
DispatchedIntact ==
  \A c \in Conns :
    pc[c] \in {"dispatch", "encode", "join", "write", "free", "broken"} =>
      LET n == Len(delivered[c]) + IF pc[c] = "dispatch" THEN 1 ELSE 0
          messages == Framed[c][script[c]]
      IN  n <= Len(messages) /\ Content(frame[first[c]].payload) = messages[n]

\* A connection that ends for no other reason than its stream has had every
\* message of the stream dispatched, those of exactly MaxStreamSize included.
WholeStreamDispatched ==
  \A c \in Conns :
    pc[c] = "end" /\ ~fault[c] => delivered[c] = Framed[c][script[c]]

\* What the peer can tell apart on its end of the wire: the frames before a torn one.
Readable(w) == {i \in DOMAIN w : \A j \in 1 .. i : w[j] \notin {TornPublish, TornReply}}

\* The frames of replies among them, and the payload bytes in them.
Replies(w) == {i \in Readable(w) : w[i] # PublishBytes}

Payload(bytes) == {bytes[k] : k \in HeaderSize + 1 .. Len(bytes)}

Sent(w) == UNION {Payload(w[i]) : i \in Replies(w)}

\* The bytes of the requests among the messages that were dispatched.
Asked(c) ==
  {b \in UNION {ToSet(delivered[c][n]) : n \in DOMAIN delivered[c]} :
     script[c][b[2]].type = "request"}

\* A fragment that announces another one is followed by a frame of a reply, unless
\* it is the last reply frame of all and its connection breaks there.
Unbroken(w, breaks) ==
  \A i \in Replies(w) :
    w[i][1] = HeaderByte(TRUE) =>
      i + 1 \in Replies(w) \/ (breaks /\ \A j \in Replies(w) : j <= i)

\* From one payload byte to a later one the order is that of the peer's bytes.
InOrder(w) ==
  \A i, j \in Replies(w) :
    \A k \in HeaderSize + 1 .. Len(w[i]), l \in HeaderSize + 1 .. Len(w[j]) :
      i < j \/ (i = j /\ k < l) => Before(w[i][k], w[j][l])

\* In what the peer can read the fragments of a reply follow each other, whatever
\* Publish writes meanwhile, except where a failed write ends the connection; the
\* replies are the requests' bytes in order, from the first one on without a gap; an
\* open connection that reads on has sent all of them, and the peer can read them
\* unless a publish was torn.
RepliesArriveWhole ==
  \A c \in Conns :
    LET sent == Sent(written[c])
    IN  /\ Unbroken(written[c], closed[c] \/ pc[c] = "broken") /\ InOrder(written[c])
        /\ sent \subseteq Asked(c)
        /\ \A b \in sent, a \in Asked(c) : Before(a, b) => a \in sent
        /\ pc[c] = "decode" =>
             sent = Asked(c) \/ TornPublish \in ToSet(written[c])

\* The codec implements the message stream its handlers rely on.
ImplementsMessageStream == Stream!Spec

\* A connection ends: whatever its peer sent, and wherever it stopped, the
\* worker loop does not spin on a broken stream.
ConnectionEnds == \A c \in Conns : <>(pc[c] = "end")

-----------------------------------------------------------------------------
(* What a comment of protocol.go says and the code does not do.            *)

\* protocol.go:681-682: the deadline of a publish does not affect response writes,
\* so an open connection that reads on has its replies where the peer can read them.
PublishSparesReplies ==
  \A c \in Conns : pc[c] = "decode" => Sent(written[c]) = Asked(c)
=============================================================================
