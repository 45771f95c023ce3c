-------------------------- MODULE FrameCodecProofs --------------------------
(***************************************************************************)
(* The buffer pools of FrameCodec have one owner for everything, and the   *)
(* handlers see the messages the peer framed, whole and in order, and the  *)
(* peer gets the replies, for any connections, size classes, limits and    *)
(* wire frames.                                                            *)
(*                                                                         *)
(* PoolInv says what a connection holds where it is in HandleRead (Held),  *)
(* that its objects share no array but the aggregate's (Separate) and that *)
(* nothing is with two connections or with one and in the pool (Owned).    *)
(* What the arrays contain does not matter for it.                         *)
(*                                                                         *)
(* ContentInv says what they contain: a slice Holds a run of the peer's    *)
(* frames when it lists their bytes, each once and in the order of the     *)
(* wire.  Everything before a message was dispatched (Opened), the         *)
(* aggregate has the message's frames so far (Gathered), the payload a     *)
(* handler reads is a legal message (Complete), and Progress says which of *)
(* these holds where the goroutine is.  PoolInv is what keeps the bytes    *)
(* in place while other connections take steps.                            *)
(*                                                                         *)
(* ReplyInv says what is on the wire to the peer: the bytes of all the     *)
(* requests dispatched, but for a reply that is still encoded or written   *)
(* (Drafted) or that the connection was closed over (Wired).               *)
(***************************************************************************)
EXTENDS FrameCodec, FiniteSetTheorems, NaturalsInduction, WellFoundedInduction, TLAPS

\* The shapes of the state, whatever the wire frames are.
IsSlice(s) == s = [arr |-> s.arr, len |-> s.len] /\ s.arr \in Arrays \cup {None}

IsFrame(o) ==
  /\ o = [head |-> o.head, payload |-> o.payload, cell |-> o.cell, live |-> o.live]
  /\ IsSlice(o.payload) /\ o.cell \in Arrays \cup {None}

PoolTypes ==
  /\ pc \in [Conns -> {"decode", "header", "payload", "fragment", "release", "more",
                       "last", "dispatch", "encode", "join", "write", "free", "broken", "end"}]
  /\ after \in [Conns -> {"decode", "close", "more", "last"}]
  /\ cur \in [Conns -> Frames \cup {None}] /\ first \in [Conns -> Frames \cup {None}]
  /\ drops \in [Conns -> Seq(Frames)]
  /\ DOMAIN buf = Conns /\ \A c \in Conns : IsSlice(buf[c])
  /\ DOMAIN outs = Conns
  /\ \A c \in Conns : /\ outs[c] \in Seq(ToSet(outs[c]))
                       /\ \A i \in DOMAIN outs[c] : outs[c][i].arr \in Arrays
  /\ DOMAIN frame = Frames /\ \A f \in Frames : IsFrame(frame[f])
  /\ idle \in [Frames -> {0, 1}] /\ parked \in [Arrays -> {0, 1}]

\* What the goroutine of a connection holds where it is in HandleRead.
Held(c) ==
  /\ cur[c] # None <=> pc[c] \in {"header", "payload", "fragment"}
  /\ pc[c] = "header" => ArraysOf(cur[c]) = {}
  /\ pc[c] # "release" => drops[c] = <<>>
  /\ pc[c] = "release" => (first[c] # None <=> after[c] \in {"more", "last"})
  /\ pc[c] = "end" => first[c] = None
  /\ pc[c] \in {"fragment", "more", "last", "dispatch", "encode", "join", "write", "free", "broken"}
       => first[c] # None
  /\ first[c] = None \/ pc[c] \in {"dispatch", "encode", "join", "write", "free", "broken"}
       => buf[c].arr = None

\* The objects of one connection do not share arrays, but for the aggregate,
\* which begins in the payload of the frame that is returned.
Separate(c) ==
  /\ cur[c] # None => cur[c] # first[c]
  /\ \A i \in DOMAIN drops[c] : drops[c][i] \notin {cur[c], first[c]}
  /\ \A i, j \in DOMAIN drops[c] : drops[c][i] = drops[c][j] => i = j
  /\ \A f, g \in FrameRefs(c) : \A a \in ArraysOf(f) : a \in ArraysOf(g) => f = g
  /\ \A f \in FrameRefs(c) : buf[c].arr \in ArraysOf(f) => f = first[c]
  /\ \A f \in FrameRefs(c) : \A i \in DOMAIN outs[c] : outs[c][i].arr \notin ArraysOf(f)
  /\ \A i \in DOMAIN outs[c] : outs[c][i].arr # buf[c].arr
  /\ \A i, j \in DOMAIN outs[c] : outs[c][i].arr = outs[c][j].arr => i = j

\* What is in a pool is with nobody, and a frame object in it has no array.
Owned ==
  /\ \A c, d \in Conns : \A f \in FrameRefs(c) : f \in FrameRefs(d) => c = d
  /\ \A c, d \in Conns : \A a \in ArrayRefs(c) : a \in ArrayRefs(d) => c = d
  /\ \A c \in Conns : \A f \in FrameRefs(c) : idle[f] = 0
  /\ \A c \in Conns : \A a \in ArrayRefs(c) : parked[a] = 0
  /\ \A f \in Frames : idle[f] = 1 => ArraysOf(f) = {}

PoolInv == PoolTypes /\ Owned /\ \A c \in Conns : Held(c) /\ Separate(c)

\* A connection whose goroutine takes no step finds the bytes of everything it
\* holds as they were: no other connection writes to them, though all take their
\* buffers from the pools of pool.go.
BytesKept ==
  [][\A c \in Conns : pc'[c] = pc[c] /\ drops'[c] = drops[c] /\ outs'[c] = outs[c] =>
       \A a \in ArrayRefs(c) : array'[a] = array[a]]_vars

-----------------------------------------------------------------------------
(* The pools                                                               *)

\* What Garbage offers is referred to by nobody.
LEMMA GarbageIsUnused ==
  ASSUME NEW all, NEW refs, NEW inPool, NEW x \in Garbage(all, refs, inPool)
  PROVE  x \in all /\ x \notin refs
<1> DEFINE unused == {y \in all \ refs : inPool[y] = 0}
<1>1. CASE unused # {}
  <2>1. PICK z \in unused : TRUE
    BY <1>1
  <2>2. (CHOOSE y \in unused : TRUE) \in unused
    BY <2>1
  <2>3. x = (CHOOSE y \in unused : TRUE)
    BY <1>1 DEF Garbage
  <2> QED
    BY <2>2, <2>3
<1>2. CASE unused = {} /\ all \ refs # {}
  <2>1. PICK z \in all \ refs : TRUE
    BY <1>2
  <2>2. (CHOOSE y \in all \ refs : TRUE) \in all \ refs
    BY <2>1
  <2>3. x = (CHOOSE y \in all \ refs : TRUE)
    BY <1>2 DEF Garbage
  <2> QED
    BY <2>2, <2>3
<1>3. CASE unused = {} /\ all \ refs = {}
  BY <1>3 DEF Garbage
<1> QED
  BY <1>1, <1>2, <1>3

\* An array that getPayload or make hands out was with nobody and is in no
\* pool any more.
LEMMA TakenArray ==
  ASSUME PoolTypes, Owned, NEW a \in Arrays, NEW i, NEW bytes, NEW size,
         GetPayload(a, i, bytes) \/ Allocate(a, size, bytes)
  PROVE  /\ \A d \in Conns : a \notin ArrayRefs(d)
         /\ parked' = [parked EXCEPT ![a] = 0]
<1>0. parked \in [Arrays -> {0, 1}]
  BY DEF PoolTypes
<1>1. ASSUME NEW sz, Allocate(a, sz, bytes)
      PROVE  /\ \A d \in Conns : a \notin ArrayRefs(d)
             /\ parked' = [parked EXCEPT ![a] = 0]
  <2>1. a \in Garbage(Arrays, UNION {ArrayRefs(c) : c \in Conns}, parked)
    BY <1>1 DEF Allocate, FreshArray
  <2>2. a \notin UNION {ArrayRefs(c) : c \in Conns}
    BY <2>1, GarbageIsUnused
  <2> QED
    BY <1>1, <2>2 DEF Allocate
<1>2. CASE a \in Shelf(i) /\ parked' = [parked EXCEPT ![a] = @ - 1]
  <2>1. parked[a] > 0
    BY <1>2 DEF Shelf
  <2>2. parked[a] = 1
    BY <1>0, <2>1
  <2>3. \A d \in Conns : a \notin ArrayRefs(d)
    BY <2>2 DEF Owned
  <2> QED
    BY <1>2, <2>2, <2>3
<1> QED
  BY <1>1, <1>2 DEF GetPayload

\* A release parks nothing but the arrays it names, each once.
LEMMA PutOnce ==
  ASSUME PoolTypes, NEW n \in Nat, NEW arrs \in [1 .. n -> Arrays \cup {None}],
         \A i, j \in 1 .. n : arrs[i] = arrs[j] /\ arrs[i] # None => i = j,
         \A i \in 1 .. n : arrs[i] # None => parked[arrs[i]] = 0,
         PutPayloads(arrs)
  PROVE  /\ parked' \in [Arrays -> {0, 1}]
         /\ \A a \in Arrays : parked'[a] = 1 =>
              parked[a] = 1 \/ \E i \in 1 .. n : arrs[i] = a
<1>0. parked \in [Arrays -> {0, 1}]
  BY DEF PoolTypes
<1>1. arrs \in Seq(Arrays \cup {None}) /\ Len(arrs) = n /\ DOMAIN arrs = 1 .. n
  OBVIOUS
<1>2. ASSUME NEW a \in Arrays
      PROVE  /\ parked'[a] \in {0, 1}
             /\ parked'[a] = 1 => parked[a] = 1 \/ \E i \in 1 .. n : arrs[i] = a
  <2> DEFINE at == {k \in 1 .. Len(arrs) : arrs[k] = a}
             Parks == a \in ToSet(arrs) /\ ClassIndexForCap(Len(array[a])) > 0
  <2>1. parked'[a] = IF Parks THEN parked[a] + Cardinality(at) ELSE parked[a]
    BY DEF PutPayloads
  <2>2. CASE ~Parks
    BY <2>1, <2>2, <1>0
  <2>3. CASE Parks
    <3>1. PICK i \in 1 .. n : arrs[i] = a
      BY <2>3, <1>1 DEF ToSet
    <3>2. a # None
      BY NoneAssumption
    <3>3. at = {i}
      BY <3>1, <3>2, <1>1
    <3>4. Cardinality(at) = 1
      BY <3>3, FS_Singleton
    <3>5. parked[a] = 0
      BY <3>1, <3>2
    <3> QED
      BY <2>1, <2>3, <3>1, <3>4, <3>5
  <2> QED
    BY <2>2, <2>3
<1>3. parked' = [a \in Arrays |-> parked'[a]]
  BY DEF PutPayloads
<1> QED
  BY <1>2, <1>3

-----------------------------------------------------------------------------
(* A step of one connection                                                *)

\* The other connections keep what they hold.
OnlyMoves(c) ==
  \A d \in Conns \ {c} :
    /\ cur'[d] = cur[d] /\ first'[d] = first[d] /\ drops'[d] = drops[d]
    /\ buf'[d] = buf[d] /\ outs'[d] = outs[d]
    /\ pc'[d] = pc[d] /\ after'[d] = after[d]
    /\ \A f \in FrameRefs(d) : frame'[f] = frame[f]

\* Then they refer to the same objects, and share no more than before.
LEMMA OthersKeep ==
  ASSUME NEW c \in Conns, OnlyMoves(c), NEW d \in Conns \ {c}, Held(d), Separate(d)
  PROVE  /\ FrameRefs(d)' = FrameRefs(d) /\ ArrayRefs(d)' = ArrayRefs(d)
         /\ Held(d)' /\ Separate(d)'
<1>1. /\ cur'[d] = cur[d] /\ first'[d] = first[d] /\ drops'[d] = drops[d]
      /\ buf'[d] = buf[d] /\ outs'[d] = outs[d]
      /\ pc'[d] = pc[d] /\ after'[d] = after[d]
      /\ \A f \in FrameRefs(d) : frame'[f] = frame[f]
  BY DEF OnlyMoves
<1>2. FrameRefs(d)' = FrameRefs(d)
  BY <1>1 DEF FrameRefs, ToSet
<1>3. \A f \in FrameRefs(d) : ArraysOf(f)' = ArraysOf(f)
  BY <1>1 DEF ArraysOf
<1>4. ArrayRefs(d)' = ArrayRefs(d)
  <2>1. UNION {ArraysOf(f)' : f \in FrameRefs(d)'} = UNION {ArraysOf(f) : f \in FrameRefs(d)}
    BY <1>2, <1>3
  <2> QED
    BY <1>1, <2>1 DEF ArrayRefs
<1>5. cur[d] # None => cur[d] \in FrameRefs(d)
  BY DEF FrameRefs
<1>6. pc[d] = "header" => ArraysOf(cur[d])' = ArraysOf(cur[d])
  BY <1>1, <1>3, <1>5 DEF Held
<1>7. Held(d)'
  BY <1>1, <1>6 DEF Held
<1>8. Separate(d)'
  BY <1>1, <1>2, <1>3 DEF Separate
<1> QED
  BY <1>2, <1>4, <1>7, <1>8

\* Where the arrays of a connection are: with a frame object, in the aggregate or
\* in the encoded buffers.
Refers(c, a) ==
  a # None /\ (\/ \E f \in FrameRefs(c) : a \in ArraysOf(f)
               \/ a = buf[c].arr
               \/ \E i \in DOMAIN outs[c] : a = outs[c][i].arr)

\* The arrays of a connection are those it refers to, before and after a step.
LEMMA RefersIs ==
  ASSUME NEW c \in Conns
  PROVE  /\ \A a : a \in ArrayRefs(c) <=> Refers(c, a)
         /\ \A a : a \in ArrayRefs(c)' <=> Refers(c, a)'
<1>1. ASSUME NEW a PROVE a \in ArrayRefs(c) <=> Refers(c, a)
  BY DEF ArrayRefs, Refers
<1>2. ASSUME NEW a PROVE a \in ArrayRefs(c)' <=> Refers(c, a)'
  BY DEF ArrayRefs, Refers
<1> QED
  BY <1>1, <1>2

\* What a step of a connection must respect: it takes from nobody, and what it
\* parks it does not keep.
LEMMA OwnStep ==
  ASSUME PoolInv, PoolTypes', NEW c \in Conns, OnlyMoves(c), Held(c)', Separate(c)',
         \A f \in FrameRefs(c)' : f \in FrameRefs(c) \/ \A d \in Conns : f \notin FrameRefs(d),
         \A a \in ArrayRefs(c)' : a \in ArrayRefs(c) \/ \A d \in Conns : a \notin ArrayRefs(d),
         \A f \in Frames : idle'[f] = 1 =>
           /\ idle[f] = 1 \/ f \in FrameRefs(c)
           /\ f \notin FrameRefs(c)' /\ ArraysOf(f)' = {},
         \A a \in Arrays : parked'[a] = 1 =>
           (parked[a] = 1 \/ a \in ArrayRefs(c)) /\ a \notin ArrayRefs(c)'
  PROVE  PoolInv'
<1>1. \A d \in Conns \ {c} : /\ FrameRefs(d)' = FrameRefs(d) /\ ArrayRefs(d)' = ArrayRefs(d)
                             /\ Held(d)' /\ Separate(d)'
  BY OthersKeep DEF PoolInv
<1>2. Owned
  BY DEF PoolInv
<1>3. /\ idle' \in [Frames -> {0, 1}] /\ parked' \in [Arrays -> {0, 1}]
      /\ \A d \in Conns : FrameRefs(d)' \subseteq Frames /\ ArrayRefs(d)' \subseteq Arrays
  <2>1. \A d \in Conns : FrameRefs(d)' \subseteq Frames
    BY DEF PoolTypes, FrameRefs, ToSet
  <2>2. ASSUME NEW d \in Conns PROVE ArrayRefs(d)' \subseteq Arrays
    <3>1. \A f \in Frames : frame'[f].payload.arr \in Arrays \cup {None}
                            /\ frame'[f].cell \in Arrays \cup {None}
      BY DEF PoolTypes, IsFrame, IsSlice
    <3>2. buf'[d].arr \in Arrays \cup {None}
      BY DEF PoolTypes, IsSlice
    <3>3. \A i \in DOMAIN outs'[d] : outs'[d][i].arr \in Arrays
      BY DEF PoolTypes
    <3> QED
      BY <2>1, <3>1, <3>2, <3>3, RefersIs DEF Refers, ArraysOf
  <2> QED
    BY <2>1, <2>2 DEF PoolTypes
<1>4. \A d, e \in Conns : \A f \in FrameRefs(d)' : f \in FrameRefs(e)' => d = e
  BY <1>1, <1>2 DEF Owned
<1>5. \A d, e \in Conns : \A a \in ArrayRefs(d)' : a \in ArrayRefs(e)' => d = e
  BY <1>1, <1>2 DEF Owned
<1>6. \A d \in Conns : \A f \in FrameRefs(d)' : idle'[f] = 0
  BY <1>1, <1>2, <1>3 DEF Owned
<1>7. \A d \in Conns : \A a \in ArrayRefs(d)' : parked'[a] = 0
  BY <1>1, <1>2, <1>3 DEF Owned
<1>8. Owned'
  BY <1>4, <1>5, <1>6, <1>7 DEF Owned
<1> QED
  BY <1>1, <1>8 DEF PoolInv

\* A step that gives nothing to the pools and takes nothing from them.
LEMMA QuietStep ==
  ASSUME PoolInv, PoolTypes', NEW c \in Conns, OnlyMoves(c), Held(c)', Separate(c)',
         FrameRefs(c)' \subseteq FrameRefs(c), ArrayRefs(c)' \subseteq ArrayRefs(c),
         UNCHANGED <<idle, parked>>, \A f \in Frames : idle[f] = 1 => frame'[f] = frame[f]
  PROVE  PoolInv'
<1>1. Owned
  BY DEF PoolInv
<1>2. \A f \in Frames : idle[f] = 1 => f \notin FrameRefs(c) /\ ArraysOf(f)' = {}
  BY <1>1 DEF Owned, ArraysOf
<1>3. \A a \in Arrays : parked[a] = 1 => a \notin ArrayRefs(c)
  BY <1>1 DEF Owned
<1> QED
  BY <1>2, <1>3, OwnStep


-----------------------------------------------------------------------------
(* The steps that leave the pools alone                                    *)

\* Outside a release a connection holds the frame it reads and the one it returns.
LEMMA HeldFrames ==
  ASSUME NEW c \in Conns, Held(c), pc[c] # "release"
  PROVE  FrameRefs(c) = {cur[c], first[c]} \ {None} /\ drops[c] = <<>>
<1>1. drops[c] = <<>>
  BY DEF Held
<1>2. ToSet(drops[c]) = {}
  BY <1>1 DEF ToSet
<1> QED
  BY <1>1, <1>2 DEF FrameRefs

\* The error return of decodeStreamed hands all frames to the release.
LEMMA DecodeFailsKeeps ==
  ASSUME PoolInv, NEW c \in Conns, DecodeFails(c), UNCHANGED <<poolVars, outs>>,
         pc[c] \in {"header", "payload", "fragment", "more", "last"}
  PROVE  PoolInv'
<1>0. PoolTypes /\ Held(c) /\ Separate(c)
  BY DEF PoolInv
<1>1. /\ cur[c] \in Frames \cup {None} /\ first[c] \in Frames \cup {None}
      /\ cur[c] # None => cur[c] # first[c]
      /\ None \notin Frames
  BY <1>0, NoneAssumption DEF PoolTypes, Separate
<1> DEFINE r == ReleasesAll(c)
<1>2. /\ r \in Seq(Frames)
      /\ \A f : (\E i \in DOMAIN r : r[i] = f) <=> f \in {cur[c], first[c]} \ {None}
      /\ \A i, j \in DOMAIN r : r[i] = r[j] => i = j
  <2>1. CASE cur[c] = None /\ first[c] = None
    <3>1. r = <<>>
      BY <2>1 DEF ReleasesAll
    <3> QED
      BY <2>1, <3>1
  <2>2. CASE cur[c] = None /\ first[c] # None
    <3>1. r = <<first[c]>>
      BY <2>2 DEF ReleasesAll
    <3> QED
      BY <1>1, <2>2, <3>1
  <2>3. CASE cur[c] # None /\ first[c] = None
    <3>1. r = <<cur[c]>>
      BY <2>3 DEF ReleasesAll
    <3> QED
      BY <1>1, <2>3, <3>1
  <2>4. CASE cur[c] # None /\ first[c] # None
    <3>1. r = <<cur[c]>> \o <<first[c]>>
      BY <2>4 DEF ReleasesAll
    <3>2. /\ <<cur[c]>> \in Seq(Frames) /\ Len(<<cur[c]>>) = 1 /\ <<cur[c]>>[1] = cur[c]
          /\ <<first[c]>> \in Seq(Frames) /\ Len(<<first[c]>>) = 1 /\ <<first[c]>>[1] = first[c]
      BY <1>1, <2>4
    <3>3. \A s, t \in Seq(Frames) : /\ s \o t \in Seq(Frames) /\ Len(s \o t) = Len(s) + Len(t)
                                    /\ \A i \in 1 .. Len(s) : (s \o t)[i] = s[i]
                                    /\ \A i \in 1 .. Len(t) : (s \o t)[i + Len(s)] = t[i]
      OBVIOUS
    <3>4. r \in Seq(Frames) /\ Len(r) = 2 /\ r[1] = cur[c] /\ r[2] = first[c]
      BY <3>1, <3>2, <3>3
    <3>5. DOMAIN r = {1, 2}
      BY <3>4
    <3> HIDE DEF r
    <3> QED
      BY <1>1, <2>4, <3>4, <3>5
  <2> QED
    BY <2>1, <2>2, <2>3, <2>4
<1> HIDE DEF r
<1>3. /\ cur' = [cur EXCEPT ![c] = None] /\ first' = [first EXCEPT ![c] = None]
      /\ buf' = [buf EXCEPT ![c] = NilSlice] /\ drops' = [drops EXCEPT ![c] = r]
      /\ after' = [after EXCEPT ![c] = "close"] /\ pc' = [pc EXCEPT ![c] = "release"]
      /\ frame' = frame /\ idle' = idle /\ parked' = parked /\ outs' = outs
  BY DEF DecodeFails, Goto, poolVars, r
<1>4. /\ cur'[c] = None /\ first'[c] = None /\ buf'[c] = NilSlice /\ drops'[c] = r
      /\ after'[c] = "close" /\ pc'[c] = "release"
  BY <1>0, <1>3 DEF PoolTypes
<1>5. NilSlice.arr = None /\ IsSlice(NilSlice)
  BY DEF NilSlice, IsSlice
<1>6. PoolTypes'
  BY <1>0, <1>2, <1>3, <1>5 DEF PoolTypes
<1>7. OnlyMoves(c)
  BY <1>0, <1>3 DEF OnlyMoves, PoolTypes
<1>8. FrameRefs(c) = {cur[c], first[c]} \ {None}
  BY <1>0, HeldFrames
<1>9. \A f : f \in FrameRefs(c)' <=> f \in FrameRefs(c)
  BY <1>2, <1>4, <1>8 DEF FrameRefs, ToSet
<1>10. \A f : ArraysOf(f)' = ArraysOf(f)
  BY <1>3 DEF ArraysOf
<1>11. ArrayRefs(c)' \subseteq ArrayRefs(c)
  BY <1>3, <1>4, <1>5, <1>9, <1>10, RefersIs DEF Refers
<1>12. Held(c)'
  BY <1>4, <1>5 DEF Held
<1>13. Separate(c)'
  <2>1. \A f \in FrameRefs(c)' : None \notin ArraysOf(f)'
    BY DEF ArraysOf
  <2>2. \A i \in DOMAIN outs[c] : outs[c][i].arr # None
    BY <1>0, NoneAssumption DEF PoolTypes
  <2>3. \A i \in DOMAIN r : r[i] # None
    BY <1>2
  <2> QED
    BY <1>0, <1>2, <1>3, <1>4, <1>5, <1>9, <1>10, <2>1, <2>2, <2>3 DEF Separate
<1> QED
  BY <1>3, <1>6, <1>7, <1>9, <1>11, <1>12, <1>13, QuietStep

\* After the dispatch the frame goes to the release.  The encoded buffers are
\* kept or dropped.
LEMMA AfterDispatchKeeps ==
  ASSUME PoolInv, NEW c \in Conns, AfterDispatch(c), UNCHANGED <<cur, buf, poolVars>>,
         pc[c] \in {"dispatch", "encode", "join", "write", "free", "broken"},
         outs' = outs \/ outs' = [outs EXCEPT ![c] = <<>>]
  PROVE  PoolInv'
<1>0. PoolTypes /\ Held(c) /\ Separate(c)
  BY DEF PoolInv
<1>1. /\ cur[c] = None /\ first[c] \in Frames /\ first[c] # None /\ buf[c].arr = None
  BY <1>0 DEF PoolTypes, Held
<1>3. /\ first' = [first EXCEPT ![c] = None] /\ drops' = [drops EXCEPT ![c] = <<first[c]>>]
      /\ after' = [after EXCEPT ![c] = "decode"] /\ pc' = [pc EXCEPT ![c] = "release"]
      /\ frame' = frame /\ idle' = idle /\ parked' = parked /\ cur' = cur /\ buf' = buf
  BY DEF AfterDispatch, Goto, poolVars
<1>4. /\ first'[c] = None /\ drops'[c] = <<first[c]>>
      /\ after'[c] = "decode" /\ pc'[c] = "release"
  BY <1>0, <1>3 DEF PoolTypes
<1>5. /\ DOMAIN outs' = Conns /\ \A d \in Conns \ {c} : outs'[d] = outs[d]
      /\ outs'[c] = outs[c] \/ outs'[c] = <<>>
  BY <1>0 DEF PoolTypes
<1>6. PoolTypes'
  <2>1. ASSUME NEW d \in Conns
        PROVE  /\ outs'[d] \in Seq(ToSet(outs'[d]))
               /\ \A i \in DOMAIN outs'[d] : outs'[d][i].arr \in Arrays
    <3>1. CASE outs'[d] = outs[d]
      BY <1>0, <3>1 DEF PoolTypes
    <3>2. CASE outs'[d] = <<>>
      BY <3>2
    <3> QED
      BY <1>5, <3>1, <3>2
  <2>2. drops' \in [Conns -> Seq(Frames)]
    BY <1>0, <1>1, <1>3 DEF PoolTypes
  <2> QED
    BY <1>0, <1>3, <1>5, <2>1, <2>2 DEF PoolTypes
<1>7. OnlyMoves(c)
  BY <1>0, <1>3, <1>5 DEF OnlyMoves, PoolTypes
<1>8. FrameRefs(c) = {first[c]}
  BY <1>0, <1>1, HeldFrames
<1>9. FrameRefs(c)' = {first[c]}
  BY <1>1, <1>3, <1>4 DEF FrameRefs, ToSet
<1>10. \A f : ArraysOf(f)' = ArraysOf(f)
  BY <1>3 DEF ArraysOf
<1>11. ArrayRefs(c)' \subseteq ArrayRefs(c)
  BY <1>3, <1>5, <1>8, <1>9, <1>10, RefersIs DEF Refers
<1>12. Held(c)'
  BY <1>1, <1>3, <1>4 DEF Held
<1>13. Separate(c)'
  <2>1. \A f : None \notin ArraysOf(f)'
    BY DEF ArraysOf
  <2>2. \A i \in DOMAIN outs'[c] : i \in DOMAIN outs[c] /\ outs'[c][i] = outs[c][i]
    BY <1>5
  <2> QED
    BY <1>0, <1>1, <1>3, <1>4, <1>8, <1>9, <1>10, <2>1, <2>2 DEF Separate
<1> QED
  BY <1>3, <1>6, <1>7, <1>8, <1>9, <1>11, <1>12, <1>13, QuietStep

\* A write that fails drops the encoded buffers.
LEMMA WriteFailsKeeps ==
  ASSUME PoolInv, NEW c \in Conns, WriteFails(c)
  PROVE  PoolInv'
<1>0. PoolTypes /\ Held(c) /\ Separate(c)
  BY DEF PoolInv
<1>1. /\ pc[c] \in {"join", "write"} /\ pc' = [pc EXCEPT ![c] = "broken"]
      /\ outs' = [outs EXCEPT ![c] = <<>>]
      /\ UNCHANGED <<cur, first, buf, drops, after, frame, idle, array, parked>>
  BY DEF WriteFails, Goto, decodeVars, poolVars
<1>2. /\ pc'[c] = "broken" /\ outs'[c] = <<>> /\ DOMAIN outs' = Conns
      /\ \A d \in Conns \ {c} : pc'[d] = pc[d] /\ outs'[d] = outs[d]
  BY <1>0, <1>1 DEF PoolTypes
<1>3. PoolTypes'
  <2>1. ASSUME NEW d \in Conns
        PROVE  /\ outs'[d] \in Seq(ToSet(outs'[d]))
               /\ \A i \in DOMAIN outs'[d] : outs'[d][i].arr \in Arrays
    <3>1. CASE outs'[d] = outs[d]
      BY <1>0, <3>1 DEF PoolTypes
    <3>2. CASE outs'[d] = <<>>
      BY <3>2
    <3> QED
      BY <1>2, <3>1, <3>2
  <2> QED
    BY <1>0, <1>1, <1>2, <2>1 DEF PoolTypes
<1>4. OnlyMoves(c)
  BY <1>1, <1>2 DEF OnlyMoves
<1>5. FrameRefs(c)' = FrameRefs(c) /\ \A f : ArraysOf(f)' = ArraysOf(f)
  BY <1>1 DEF FrameRefs, ArraysOf
<1>6. ArrayRefs(c)' \subseteq ArrayRefs(c)
  BY <1>1, <1>2, <1>5, RefersIs DEF Refers
<1>7. Held(c)'
  BY <1>0, <1>1, <1>2 DEF Held
<1>8. Separate(c)'
  BY <1>0, <1>1, <1>2, <1>5 DEF Separate
<1> QED
  BY <1>1, <1>3, <1>4, <1>5, <1>6, <1>7, <1>8, QuietStep

-----------------------------------------------------------------------------
(* The steps, one by one                                                   *)

\* A record with the fields of a frame object is one.
LEMMA FrameIs ==
  ASSUME NEW h, NEW s, IsSlice(s), NEW k \in Arrays \cup {None}, NEW l
  PROVE  IsFrame([head |-> h, payload |-> s, cell |-> k, live |-> l])
  BY DEF IsFrame

\* A frame object with its payload and head replaced.
LEMMA PayloadSet ==
  ASSUME NEW o, IsFrame(o), NEW s, NEW h
  PROVE  [[o EXCEPT !.payload = s] EXCEPT !.head = h]
           = [head |-> h, payload |-> s, cell |-> o.cell, live |-> o.live]
<1>1. o = [head |-> o.head, payload |-> o.payload, cell |-> o.cell, live |-> o.live]
  BY DEF IsFrame
<1>2. [o EXCEPT !.payload = s] = [head |-> o.head, payload |-> s, cell |-> o.cell, live |-> o.live]
  BY <1>1
<1> DEFINE p == [o EXCEPT !.payload = s]
<1>3. p = [head |-> p.head, payload |-> p.payload, cell |-> p.cell, live |-> p.live]
      /\ p.payload = s /\ p.cell = o.cell /\ p.live = o.live
  BY <1>2
<1> HIDE DEF p
<1>4. [p EXCEPT !.head = h] = [head |-> h, payload |-> p.payload, cell |-> p.cell, live |-> p.live]
  BY <1>3
<1>5. [p EXCEPT !.head = h] = [head |-> h, payload |-> s, cell |-> o.cell, live |-> o.live]
  BY <1>3, <1>4
<1> QED
  BY <1>5 DEF p

\* The frame a connection acquires was with nobody and refers to no array.
LEMMA AcquireFrameKeeps ==
  ASSUME PoolInv, NEW c \in Conns, AcquireFrame(c)
  PROVE  PoolInv'
<1>0. PoolTypes /\ Owned /\ Held(c) /\ Separate(c)
  BY DEF PoolInv
<1>1. /\ pc[c] = "decode" /\ pc' = [pc EXCEPT ![c] = "header"] /\ pc'[c] = "header"
      /\ UNCHANGED <<first, buf, parked, outs, after, drops>>
  BY <1>0 DEF AcquireFrame, Goto, replyVars, PoolTypes
<1>2. PICK f \in Frames :
        /\ \/ idle[f] > 0 /\ idle' = [idle EXCEPT ![f] = @ - 1]
                          /\ frame' = [frame EXCEPT ![f].live = TRUE]
           \/ f \in FreshFrame /\ idle' = [idle EXCEPT ![f] = 0]
                               /\ frame' = [frame EXCEPT ![f] = [ZeroFrame EXCEPT !.live = TRUE]]
        /\ cur' = [cur EXCEPT ![c] = f]
  BY DEF AcquireFrame
<1>3. f # None
  BY NoneAssumption
<1>4. /\ \A d \in Conns : f \notin FrameRefs(d)
      /\ idle' = [idle EXCEPT ![f] = 0]
      /\ DOMAIN frame' = Frames /\ \A g \in Frames \ {f} : frame'[g] = frame[g]
      /\ IsFrame(frame'[f]) /\ ArraysOf(f)' = {}
  <2>1. CASE idle[f] > 0 /\ idle' = [idle EXCEPT ![f] = @ - 1]
                         /\ frame' = [frame EXCEPT ![f].live = TRUE]
    <3>1. idle[f] = 1
      BY <1>0, <2>1 DEF PoolTypes
    <3>2. /\ \A d \in Conns : f \notin FrameRefs(d)
          /\ ArraysOf(f) = {}
      BY <1>0, <3>1 DEF Owned
    <3>3. DOMAIN frame = Frames /\ IsFrame(frame[f])
      BY <1>0 DEF PoolTypes
    <3>4. /\ DOMAIN frame' = Frames /\ \A g \in Frames \ {f} : frame'[g] = frame[g]
          /\ frame'[f] = [frame[f] EXCEPT !.live = TRUE]
      BY <2>1, <3>3
    <3>5. frame'[f] = [head |-> frame[f].head, payload |-> frame[f].payload,
                       cell |-> frame[f].cell, live |-> TRUE]
      BY <3>3, <3>4 DEF IsFrame
    <3>6. IsFrame(frame'[f]) /\ ArraysOf(f)' = ArraysOf(f)
      BY <3>3, <3>5 DEF IsFrame, ArraysOf
    <3> QED
      BY <2>1, <3>1, <3>2, <3>4, <3>6
  <2>2. CASE f \in FreshFrame /\ idle' = [idle EXCEPT ![f] = 0]
                              /\ frame' = [frame EXCEPT ![f] = [ZeroFrame EXCEPT !.live = TRUE]]
    <3>1. f \notin UNION {FrameRefs(d) : d \in Conns}
      BY <2>2, GarbageIsUnused DEF FreshFrame
    <3>2. /\ DOMAIN frame' = Frames /\ \A g \in Frames \ {f} : frame'[g] = frame[g]
          /\ frame'[f] = [ZeroFrame EXCEPT !.live = TRUE]
      BY <1>0, <2>2 DEF PoolTypes
    <3>3. frame'[f] = [head |-> <<>>, payload |-> NilSlice, cell |-> None, live |-> TRUE]
      BY <3>2 DEF ZeroFrame
    <3>4. IsSlice(NilSlice) /\ NilSlice.arr = None
      BY DEF IsSlice, NilSlice
    <3>5. IsFrame(frame'[f])
      BY <3>3, <3>4, FrameIs
    <3>6. ArraysOf(f)' = {}
      BY <3>3, <3>4 DEF ArraysOf
    <3> QED
      BY <2>2, <3>1, <3>2, <3>5, <3>6
  <2> QED
    BY <1>2, <2>1, <2>2
<1>5. PoolTypes'
  BY <1>0, <1>1, <1>2, <1>4 DEF PoolTypes
<1>6. OnlyMoves(c)
  BY <1>0, <1>1, <1>2, <1>4 DEF OnlyMoves, PoolTypes, FrameRefs, ToSet
<1>7. cur'[c] = f /\ cur[c] = None /\ drops[c] = <<>>
  BY <1>0, <1>1, <1>2 DEF Held, PoolTypes
<1>8. \A g : g \in FrameRefs(c)' <=> g = f \/ g \in FrameRefs(c)
  BY <1>1, <1>3, <1>7 DEF FrameRefs, ToSet
<1>9. FrameRefs(c) \subseteq Frames
  BY <1>0 DEF PoolTypes, FrameRefs, ToSet
<1>10. \A g \in Frames \ {f} : ArraysOf(g)' = ArraysOf(g)
  BY <1>4 DEF ArraysOf
<1>11. ArrayRefs(c)' \subseteq ArrayRefs(c)
  BY <1>1, <1>4, <1>8, <1>9, <1>10, RefersIs DEF Refers
<1>12. Held(c)'
  BY <1>0, <1>1, <1>3, <1>4, <1>7 DEF Held
<1>13. Separate(c)'
  <2>1. f # first[c]
    BY <1>3, <1>4 DEF FrameRefs
  <2> QED
    BY <1>0, <1>1, <1>3, <1>4, <1>7, <1>8, <1>9, <1>10, <2>1 DEF Separate
<1>14. \A g \in Frames : idle'[g] = 1 =>
         (idle[g] = 1 \/ g \in FrameRefs(c)) /\ g \notin FrameRefs(c)' /\ ArraysOf(g)' = {}
  BY <1>0, <1>4, <1>8, <1>10 DEF Owned, PoolTypes
<1>15. \A a \in Arrays : parked'[a] = 1 => parked[a] = 1 /\ a \notin ArrayRefs(c)'
  BY <1>0, <1>1, <1>11 DEF Owned
<1> QED
  BY <1>4, <1>5, <1>6, <1>8, <1>11, <1>12, <1>13, <1>14, <1>15, OwnStep

\* The payload buffer a header asks for was with nobody.
LEMMA ReadHeaderKeeps ==
  ASSUME PoolInv, NEW c \in Conns, ReadHeader(c)
  PROVE  PoolInv'
<1>0. PoolTypes /\ Owned /\ Held(c) /\ Separate(c)
  BY DEF PoolInv
<1> DEFINE f == cur[c]
<1>1. /\ pc[c] = "header" /\ pc' = [pc EXCEPT ![c] = "payload"] /\ pc'[c] = "payload"
      /\ UNCHANGED <<cur, first, buf, idle, outs, after, drops>>
  BY <1>0 DEF ReadHeader, Goto, replyVars, decodeVars, PoolTypes
<1>2. f # None /\ f \in Frames /\ f \in FrameRefs(c) /\ ArraysOf(f) = {}
  BY <1>0, <1>1 DEF Held, PoolTypes, FrameRefs
<1>3. /\ FrameRefs(c)' = FrameRefs(c) /\ FrameRefs(c) \subseteq Frames
  BY <1>0, <1>1 DEF PoolTypes, FrameRefs, ToSet
<1>4. DOMAIN frame = Frames /\ IsFrame(frame[f])
  BY <1>0, <1>2 DEF PoolTypes
<1>5. \A d \in Conns \ {c} : f \notin FrameRefs(d)
  BY <1>0, <1>2 DEF Owned
<1>6. idle[f] = 0
  BY <1>0, <1>2 DEF Owned
<1>7. Held(c)'
  BY <1>0, <1>1 DEF Held
<1>8. CASE frame' = [frame EXCEPT ![f].head = Wire(c)] /\ UNCHANGED parked
  <2>1. /\ DOMAIN frame' = Frames /\ \A g \in Frames \ {f} : frame'[g] = frame[g]
        /\ frame'[f] = [frame[f] EXCEPT !.head = Wire(c)]
    BY <1>2, <1>4, <1>8
  <2>2. frame'[f] = [head |-> Wire(c), payload |-> frame[f].payload,
                     cell |-> frame[f].cell, live |-> frame[f].live]
    BY <1>4, <2>1 DEF IsFrame
  <2>3. IsFrame(frame'[f]) /\ \A g \in Frames : ArraysOf(g)' = ArraysOf(g)
    BY <1>4, <2>1, <2>2 DEF IsFrame, ArraysOf
  <2>4. PoolTypes'
    BY <1>0, <1>1, <1>8, <2>1, <2>3 DEF PoolTypes
  <2>5. OnlyMoves(c)
    BY <1>0, <1>1, <1>5, <2>1 DEF OnlyMoves, PoolTypes, FrameRefs, ToSet
  <2>6. Separate(c)'
    BY <1>0, <1>1, <1>3, <2>3 DEF Separate
  <2>7. ArrayRefs(c)' \subseteq ArrayRefs(c)
    BY <1>1, <1>3, <2>3, RefersIs DEF Refers
  <2>8. \A g \in Frames : idle[g] = 1 => frame'[g] = frame[g]
    BY <1>6, <2>1
  <2> QED
    BY <1>1, <1>3, <1>7, <1>8, <2>4, <2>5, <2>6, <2>7, <2>8, QuietStep
<1>9. ASSUME NEW a \in Arrays, GetPayload(a, ClassIndexForSize(Wire(c).len), <<>>),
             frame' = [frame EXCEPT ![f].head = Wire(c), ![f].cell = a,
                                    ![f].payload = [arr |-> a, len |-> Wire(c).len]]
      PROVE  PoolInv'
  <2>1. /\ \A d \in Conns : a \notin ArrayRefs(d)
        /\ parked' = [parked EXCEPT ![a] = 0]
    BY <1>0, <1>9, TakenArray
  <2>2. a # None
    BY NoneAssumption
  <2>3. /\ DOMAIN frame' = Frames /\ \A g \in Frames \ {f} : frame'[g] = frame[g]
        /\ frame'[f] = [head |-> Wire(c), payload |-> [arr |-> a, len |-> Wire(c).len],
                        cell |-> a, live |-> frame[f].live]
    BY <1>2, <1>4, <1>9 DEF IsFrame
  <2>4. /\ IsFrame(frame'[f]) /\ ArraysOf(f)' = {a}
        /\ \A g \in Frames \ {f} : ArraysOf(g)' = ArraysOf(g)
    <3>1. IsSlice([arr |-> a, len |-> Wire(c).len])
      BY DEF IsSlice
    <3>2. IsFrame(frame'[f])
      BY <2>3, <3>1, FrameIs
    <3>3. frame'[f].payload.arr = a /\ frame'[f].cell = a
      BY <2>3
    <3>4. ArraysOf(f)' = {a}
      BY <1>1, <2>2, <3>3 DEF ArraysOf
    <3>5. \A g \in Frames \ {f} : ArraysOf(g)' = ArraysOf(g)
      BY <2>3 DEF ArraysOf
    <3> QED
      BY <3>2, <3>4, <3>5
  <2>5. PoolTypes'
    BY <1>0, <1>1, <2>1, <2>3, <2>4 DEF PoolTypes
  <2>6. OnlyMoves(c)
    BY <1>0, <1>1, <1>5, <2>3 DEF OnlyMoves, PoolTypes, FrameRefs, ToSet
  <2>7. ~Refers(c, a)
    BY <2>1, RefersIs
  <2>8. Separate(c)'
    BY <1>0, <1>1, <1>3, <2>2, <2>4, <2>7 DEF Separate, Refers
  <2>9. \A b \in ArrayRefs(c)' : b \in ArrayRefs(c) \/ b = a
    BY <1>1, <1>3, <2>4, RefersIs DEF Refers
  <2>10. \A g \in Frames : idle'[g] = 1 =>
           idle[g] = 1 /\ g \notin FrameRefs(c)' /\ ArraysOf(g)' = {}
    BY <1>0, <1>1, <1>3, <1>6, <2>4 DEF Owned
  <2>11. \A b \in Arrays : parked'[b] = 1 => parked[b] = 1 /\ b \notin ArrayRefs(c)'
    BY <1>0, <2>1, <2>9 DEF Owned, PoolTypes
  <2> QED
    BY <1>3, <1>7, <2>1, <2>5, <2>6, <2>8, <2>9, <2>10, <2>11, OwnStep
<1> QED
  BY <1>8, <1>9 DEF ReadHeader

\* The frame read becomes the message or its aggregate, or is a fragment.
LEMMA ReadPayloadKeeps ==
  ASSUME PoolInv, NEW c \in Conns, ReadPayload(c)
  PROVE  PoolInv'
<1>0. PoolTypes /\ Owned /\ Held(c) /\ Separate(c)
  BY DEF PoolInv
<1>1. /\ pc[c] = "payload"
      /\ UNCHANGED <<frame, idle, parked, outs, after, drops>>
  BY DEF ReadPayload, replyVars
<1>2. /\ cur[c] # None /\ cur[c] \in Frames /\ drops[c] = <<>>
      /\ FrameRefs(c) = {cur[c], first[c]} \ {None}
  BY <1>0, <1>1, HeldFrames DEF Held, PoolTypes
<1>3. \A f : ArraysOf(f)' = ArraysOf(f)
  BY <1>1 DEF ArraysOf
<1>4. IsSlice(frame[cur[c]].payload)
  BY <1>0, <1>2 DEF PoolTypes, IsFrame
<1>5. CASE /\ first[c] = None
           /\ first' = [first EXCEPT ![c] = cur[c]]
           /\ cur' = [cur EXCEPT ![c] = None]
           /\ buf' = [buf EXCEPT ![c] = IF Wire(c).more THEN frame[cur[c]].payload ELSE @]
           /\ pc' = [pc EXCEPT ![c] = IF Wire(c).more THEN "decode" ELSE "dispatch"]
  <2>1. /\ first'[c] = cur[c] /\ cur'[c] = None
        /\ \/ pc'[c] = "decode" /\ buf'[c] = frame[cur[c]].payload
           \/ pc'[c] = "dispatch" /\ buf'[c] = buf[c]
        /\ buf[c].arr = None
    BY <1>0, <1>5 DEF PoolTypes, Held
  <2>2. IsSlice(buf'[c]) /\ DOMAIN buf' = Conns /\ \A d \in Conns \ {c} : buf'[d] = buf[d]
    BY <1>0, <1>4, <1>5, <2>1 DEF PoolTypes
  <2>3. PoolTypes'
    BY <1>0, <1>1, <1>2, <1>5, <2>2 DEF PoolTypes
  <2>4. OnlyMoves(c)
    BY <1>0, <1>1, <1>5, <2>2 DEF OnlyMoves, PoolTypes
  <2>5. FrameRefs(c)' = FrameRefs(c) /\ FrameRefs(c) = {cur[c]}
    BY <1>1, <1>2, <1>5, <2>1 DEF FrameRefs, ToSet
  <2>6. buf'[c].arr = None \/ buf'[c].arr \in ArraysOf(cur[c])
    BY <2>1 DEF ArraysOf
  <2>7. ArrayRefs(c)' \subseteq ArrayRefs(c)
    BY <1>1, <1>3, <2>5, <2>6, RefersIs DEF Refers
  <2>8. Held(c)'
    BY <1>1, <1>2, <2>1 DEF Held
  <2>9. Separate(c)'
    <3>1. \A i \in DOMAIN outs[c] : outs[c][i].arr # None
      BY <1>0, NoneAssumption DEF PoolTypes
    <3> QED
      BY <1>0, <1>1, <1>2, <1>3, <2>1, <2>5, <2>6, <3>1 DEF Separate
  <2> QED
    BY <1>1, <2>3, <2>4, <2>5, <2>7, <2>8, <2>9, QuietStep
<1>6. CASE /\ first[c] # None /\ UNCHANGED <<first, cur, buf>>
           /\ pc' = [pc EXCEPT ![c] = "fragment"]
  <2>1. pc'[c] = "fragment"
    BY <1>0, <1>6 DEF PoolTypes
  <2>2. PoolTypes'
    BY <1>0, <1>1, <1>6 DEF PoolTypes
  <2>3. OnlyMoves(c)
    BY <1>0, <1>1, <1>6 DEF OnlyMoves, PoolTypes
  <2>4. FrameRefs(c)' = FrameRefs(c)
    BY <1>1, <1>6 DEF FrameRefs
  <2>5. ArrayRefs(c)' \subseteq ArrayRefs(c)
    BY <1>1, <1>3, <1>6, <2>4, RefersIs DEF Refers
  <2>6. Held(c)'
    BY <1>0, <1>1, <1>2, <1>6, <2>1 DEF Held
  <2>7. Separate(c)'
    BY <1>0, <1>1, <1>3, <1>6, <2>4 DEF Separate
  <2> QED
    BY <1>1, <2>2, <2>3, <2>4, <2>5, <2>6, <2>7, QuietStep
<1> QED
  BY <1>5, <1>6 DEF ReadPayload, Goto

\* The aggregate stays in its array, or moves to one that was with nobody; the
\* fragment's frame goes to the release.
LEMMA AppendFragmentKeeps ==
  ASSUME PoolInv, NEW c \in Conns, AppendFragment(c)
  PROVE  PoolInv'
<1>0. PoolTypes /\ Owned /\ Held(c) /\ Separate(c)
  BY DEF PoolInv
<1>1. /\ pc[c] = "fragment" /\ pc' = [pc EXCEPT ![c] = "release"]
      /\ drops' = [drops EXCEPT ![c] = <<cur[c]>>] /\ cur' = [cur EXCEPT ![c] = None]
      /\ after' = [after EXCEPT ![c] = IF LastFragment(cur[c]) THEN "last" ELSE "more"]
      /\ UNCHANGED <<first, frame, idle, outs>>
      /\ AppendTo(c, buf[c], Content(frame[cur[c]].payload))
  BY DEF AppendFragment, Goto, replyVars
<1>2. /\ cur[c] # None /\ cur[c] \in Frames /\ drops[c] = <<>>
      /\ first[c] # None /\ first[c] \in Frames
      /\ FrameRefs(c) = {cur[c], first[c]} /\ cur[c] # first[c]
  BY <1>0, <1>1, HeldFrames DEF Held, PoolTypes, Separate
<1>3. \A f : ArraysOf(f)' = ArraysOf(f)
  BY <1>1 DEF ArraysOf
<1>4. PICK s :
        /\ buf' = [buf EXCEPT ![c] = s] /\ IsSlice(s)
        /\ \/ s.arr = buf[c].arr /\ UNCHANGED parked
           \/ /\ s.arr \in Arrays /\ \A d \in Conns : s.arr \notin ArrayRefs(d)
              /\ parked' = [parked EXCEPT ![s.arr] = 0]
  <2> DEFINE bytes == Content(frame[cur[c]].payload)
             need == buf[c].len + Len(bytes)
  <2>0. IsSlice(buf[c])
    BY <1>0 DEF PoolTypes
  <2>1. CASE buf' = [buf EXCEPT ![c] = [buf[c] EXCEPT !.len = need]] /\ UNCHANGED parked
    <3>1. [buf[c] EXCEPT !.len = need] = [arr |-> buf[c].arr, len |-> need]
      BY <2>0 DEF IsSlice
    <3>2. IsSlice([arr |-> buf[c].arr, len |-> need])
      BY <2>0 DEF IsSlice
    <3> QED
      BY <2>1, <3>1, <3>2
  <2>2. ASSUME NEW a \in Arrays, NEW cap, Allocate(a, cap, Content(buf[c]) \o bytes),
               buf' = [buf EXCEPT ![c] = [arr |-> a, len |-> need]]
        PROVE  \E s : /\ buf' = [buf EXCEPT ![c] = s] /\ IsSlice(s)
                      /\ s.arr \in Arrays /\ \A d \in Conns : s.arr \notin ArrayRefs(d)
                      /\ parked' = [parked EXCEPT ![s.arr] = 0]
    <3>1. /\ \A d \in Conns : a \notin ArrayRefs(d)
          /\ parked' = [parked EXCEPT ![a] = 0]
      BY <1>0, <2>2, TakenArray
    <3>2. IsSlice([arr |-> a, len |-> need]) /\ [arr |-> a, len |-> need].arr = a
      BY DEF IsSlice
    <3> WITNESS [arr |-> a, len |-> need]
    <3> QED
      BY <2>2, <3>1, <3>2
  <2> HIDE DEF bytes, need
  <2>3. \/ buf' = [buf EXCEPT ![c] = [buf[c] EXCEPT !.len = need]] /\ UNCHANGED parked
        \/ \E a \in Arrays, cap \in {need, need + 1} :
             /\ Allocate(a, cap, Content(buf[c]) \o bytes)
             /\ buf' = [buf EXCEPT ![c] = [arr |-> a, len |-> need]]
    BY <1>1 DEF AppendTo, bytes, need
  <2> QED
    BY <2>1, <2>2, <2>3
<1>5. /\ pc'[c] = "release" /\ drops'[c] = <<cur[c]>> /\ cur'[c] = None /\ buf'[c] = s
      /\ after'[c] \in {"last", "more"}
  BY <1>0, <1>1, <1>4 DEF PoolTypes
<1>6. PoolTypes'
  <2>1. drops' \in [Conns -> Seq(Frames)]
    BY <1>0, <1>1, <1>2 DEF PoolTypes
  <2>2. parked' \in [Arrays -> {0, 1}]
    BY <1>0, <1>4 DEF PoolTypes
  <2>3. DOMAIN buf' = Conns /\ \A d \in Conns : IsSlice(buf'[d])
    BY <1>0, <1>4 DEF PoolTypes
  <2> QED
    BY <1>0, <1>1, <2>1, <2>2, <2>3 DEF PoolTypes
<1>7. OnlyMoves(c)
  BY <1>0, <1>1, <1>4 DEF OnlyMoves, PoolTypes
<1>8. FrameRefs(c)' = FrameRefs(c)
  BY <1>1, <1>2, <1>5 DEF FrameRefs, ToSet
<1>9. \A b \in ArrayRefs(c)' : b \in ArrayRefs(c) \/ \A d \in Conns : b \notin ArrayRefs(d)
  BY <1>1, <1>3, <1>4, <1>5, <1>8, RefersIs DEF Refers
<1>10. Held(c)'
  BY <1>1, <1>2, <1>5 DEF Held
<1>11. s.arr = buf[c].arr \/ (~Refers(c, s.arr) /\ s.arr # None)
  <2>1. CASE s.arr \in Arrays /\ \A d \in Conns : s.arr \notin ArrayRefs(d)
    <3>1. s.arr \notin ArrayRefs(c) /\ s.arr # None
      BY <2>1, NoneAssumption
    <3> QED
      BY <3>1, RefersIs
  <2> QED
    BY <1>4, <2>1
<1>12. Separate(c)'
  BY <1>0, <1>1, <1>2, <1>3, <1>5, <1>8, <1>11 DEF Separate, Refers
<1>13. \A g \in Frames : idle'[g] = 1 =>
         idle[g] = 1 /\ g \notin FrameRefs(c)' /\ ArraysOf(g)' = {}
  BY <1>0, <1>1, <1>3, <1>8 DEF Owned
<1>14. \A b \in Arrays : parked'[b] = 1 => parked[b] = 1 /\ b \notin ArrayRefs(c)'
  <2>1. \A b \in Arrays : parked'[b] = 1 => parked[b] = 1 /\ b \notin ArrayRefs(c)
                                            /\ (b = s.arr => s.arr = buf[c].arr)
    BY <1>0, <1>4 DEF Owned, PoolTypes
  <2>2. \A b \in ArrayRefs(c)' : b \in ArrayRefs(c) \/ b = s.arr
    BY <1>1, <1>3, <1>5, <1>8, RefersIs DEF Refers
  <2>3. buf[c].arr \in ArrayRefs(c) \cup {None}
    BY RefersIs DEF Refers
  <2> QED
    BY <2>1, <2>2, <2>3, NoneAssumption
<1> QED
  BY <1>6, <1>7, <1>8, <1>9, <1>10, <1>12, <1>13, <1>14, OwnStep

\* The aggregate goes back to the frame that is returned.
LEMMA AssembledKeeps ==
  ASSUME PoolInv, NEW c \in Conns, Assembled(c)
  PROVE  PoolInv'
<1>0. PoolTypes /\ Owned /\ Held(c) /\ Separate(c)
  BY DEF PoolInv
<1>1. /\ pc[c] \in {"more", "last"} /\ UNCHANGED <<cur, first, idle, parked, outs, after, drops>>
  BY DEF Assembled, replyVars
<1>2. /\ cur[c] = None /\ drops[c] = <<>> /\ first[c] # None /\ first[c] \in Frames
      /\ FrameRefs(c) = {first[c]}
  BY <1>0, <1>1, HeldFrames DEF Held, PoolTypes
<1>3. FrameRefs(c)' = FrameRefs(c)
  BY <1>1 DEF FrameRefs
<1>4. CASE pc' = [pc EXCEPT ![c] = "decode"] /\ UNCHANGED <<frame, buf>>
  <2>1. pc'[c] = "decode" /\ PoolTypes'
    BY <1>0, <1>1, <1>4 DEF PoolTypes
  <2>2. OnlyMoves(c)
    BY <1>0, <1>1, <1>4 DEF OnlyMoves, PoolTypes
  <2>3. \A f : ArraysOf(f)' = ArraysOf(f)
    BY <1>4 DEF ArraysOf
  <2>4. ArrayRefs(c)' \subseteq ArrayRefs(c)
    BY <1>1, <1>3, <1>4, <2>3, RefersIs DEF Refers
  <2>5. Held(c)'
    BY <1>1, <1>2, <2>1 DEF Held
  <2>6. Separate(c)'
    BY <1>0, <1>1, <1>3, <1>4, <2>3 DEF Separate
  <2> QED
    BY <1>1, <1>3, <1>4, <2>1, <2>2, <2>4, <2>5, <2>6, QuietStep
<1>5. CASE /\ pc' = [pc EXCEPT ![c] = "dispatch"]
           /\ frame' = [frame EXCEPT
               ![first[c]].payload = buf[c],
               ![first[c]].head = [type |-> @.type, id |-> @.id,
                                   len |-> buf[c].len, more |-> FALSE]]
           /\ buf' = [buf EXCEPT ![c] = NilSlice]
  <2>1. /\ DOMAIN frame = Frames /\ IsFrame(frame[first[c]]) /\ IsSlice(buf[c])
    BY <1>0, <1>2 DEF PoolTypes
  <2>2. PICK h : frame' = [frame EXCEPT ![first[c]] =
                             [head |-> h, payload |-> buf[c], cell |-> frame[first[c]].cell,
                              live |-> frame[first[c]].live]]
    <3> DEFINE h == [type |-> frame[first[c]].head.type, id |-> frame[first[c]].head.id,
                     len |-> buf[c].len, more |-> FALSE]
    <3>1. frame' = [frame EXCEPT ![first[c]].payload = buf[c], ![first[c]].head = h]
      BY <1>2, <1>5, <2>1 DEF IsFrame
    <3> HIDE DEF h
    <3>2. [[frame[first[c]] EXCEPT !.payload = buf[c]] EXCEPT !.head = h]
            = [head |-> h, payload |-> buf[c], cell |-> frame[first[c]].cell,
               live |-> frame[first[c]].live]
      BY <2>1, PayloadSet
    <3>3. frame' = [frame EXCEPT ![first[c]] =
                      [[frame[first[c]] EXCEPT !.payload = buf[c]] EXCEPT !.head = h]]
      BY <1>2, <2>1, <3>1
    <3> QED
      BY <3>2, <3>3
  <2>3. /\ DOMAIN frame' = Frames /\ \A g \in Frames \ {first[c]} : frame'[g] = frame[g]
        /\ frame'[first[c]].payload = buf[c] /\ frame'[first[c]].cell = frame[first[c]].cell
    BY <1>2, <2>1, <2>2
  <2>4. IsFrame(frame'[first[c]])
    <3>1. frame[first[c]].cell \in Arrays \cup {None}
      BY <2>1 DEF IsFrame
    <3> QED
      BY <1>2, <2>1, <2>2, <3>1, FrameIs
  <2>5. NilSlice.arr = None /\ IsSlice(NilSlice)
    BY DEF NilSlice, IsSlice
  <2>6. PoolTypes'
    BY <1>0, <1>1, <1>5, <2>3, <2>4, <2>5 DEF PoolTypes
  <2>7. first[c] \in FrameRefs(c) /\ idle[first[c]] = 0
        /\ \A d \in Conns \ {c} : first[c] \notin FrameRefs(d)
    BY <1>0, <1>2 DEF Owned
  <2>8. OnlyMoves(c)
    BY <1>0, <1>1, <1>5, <2>3, <2>7 DEF OnlyMoves, PoolTypes, FrameRefs, ToSet
  <2>9. pc'[c] = "dispatch" /\ buf'[c].arr = None
    BY <1>0, <1>5, <2>5 DEF PoolTypes
  <2>10. /\ first'[c] = first[c]
         /\ \A a \in ArraysOf(first[c])' : a # None /\ (a = buf[c].arr \/ a \in ArraysOf(first[c]))
    BY <1>1, <2>3 DEF ArraysOf
  <2>11. ArrayRefs(c)' \subseteq ArrayRefs(c)
    BY <1>1, <1>2, <1>3, <2>9, <2>10, RefersIs DEF Refers
  <2>12. Held(c)'
    BY <1>1, <1>2, <2>9 DEF Held
  <2>13. Separate(c)'
    <3>1. \A i \in DOMAIN outs[c] : outs[c][i].arr # None
      BY <1>0, NoneAssumption DEF PoolTypes
    <3> QED
      BY <1>0, <1>1, <1>2, <1>3, <2>9, <2>10, <3>1 DEF Separate
  <2>14. \A g \in Frames : idle[g] = 1 => frame'[g] = frame[g]
    BY <2>3, <2>7
  <2> QED
    BY <1>1, <1>3, <2>6, <2>8, <2>11, <2>12, <2>13, <2>14, QuietStep
<1> QED
  BY <1>4, <1>5 DEF Assembled, Goto

\* A release parks the arrays of the frame and the frame itself, which the
\* connection refers to no more.
LEMMA ReleaseKeeps ==
  ASSUME PoolInv, NEW c \in Conns, Release(c)
  PROVE  PoolInv'
<1>0. PoolTypes /\ Owned /\ Held(c) /\ Separate(c)
  BY DEF PoolInv
<1>1. PICK f : f = Head(drops[c])
  OBVIOUS
<1>2. /\ pc[c] = "release" /\ drops[c] # <<>> /\ drops' = [drops EXCEPT ![c] = Tail(drops[c])]
      /\ UNCHANGED <<cur, first, buf, outs, pc, after>>
  BY DEF Release, decodeVars, replyVars
<1>3. /\ drops[c] \in Seq(Frames) /\ f \in Frames /\ f = drops[c][1] /\ 1 \in DOMAIN drops[c]
      /\ Tail(drops[c]) \in Seq(Frames)
      /\ \A g : (\E i \in DOMAIN Tail(drops[c]) : Tail(drops[c])[i] = g)
                  <=> \E i \in DOMAIN drops[c] : i # 1 /\ drops[c][i] = g
  <2>1. drops[c] \in Seq(Frames) /\ drops[c] # <<>>
    BY <1>0, <1>2 DEF PoolTypes
  <2>2. /\ f \in Frames /\ f = drops[c][1] /\ 1 \in DOMAIN drops[c]
        /\ Tail(drops[c]) \in Seq(Frames) /\ Len(Tail(drops[c])) = Len(drops[c]) - 1
        /\ Len(drops[c]) \in Nat
        /\ \A i \in 1 .. Len(drops[c]) - 1 : Tail(drops[c])[i] = drops[c][i + 1]
    BY <1>1, <2>1
  <2>3. /\ DOMAIN drops[c] = 1 .. Len(drops[c])
        /\ DOMAIN Tail(drops[c]) = 1 .. Len(drops[c]) - 1
    BY <2>1, <2>2
  <2>4. ASSUME NEW i \in DOMAIN Tail(drops[c])
        PROVE  i + 1 \in DOMAIN drops[c] /\ i + 1 # 1 /\ drops[c][i + 1] = Tail(drops[c])[i]
    BY <2>2, <2>3
  <2>5. ASSUME NEW i \in DOMAIN drops[c], i # 1
        PROVE  i - 1 \in DOMAIN Tail(drops[c]) /\ Tail(drops[c])[i - 1] = drops[c][i]
    BY <2>2, <2>3, <2>5
  <2> QED
    BY <2>1, <2>2, <2>4, <2>5
<1>4. f # None /\ f # cur[c] /\ f # first[c] /\ f \in FrameRefs(c)
  BY <1>0, <1>3, NoneAssumption DEF Separate, FrameRefs, ToSet
<1>5. drops'[c] = Tail(drops[c])
  BY <1>0, <1>2 DEF PoolTypes
<1>6. \A g : g \in FrameRefs(c)' <=> g \in FrameRefs(c) /\ g # f
  <2>1. \A g : g \in FrameRefs(c) <=>
          g # None /\ (g = cur[c] \/ g = first[c] \/ \E i \in DOMAIN drops[c] : drops[c][i] = g)
    BY DEF FrameRefs, ToSet
  <2>2. \A g : g \in FrameRefs(c)' <=>
          g # None /\ (g = cur'[c] \/ g = first'[c] \/ \E i \in DOMAIN drops'[c] : drops'[c][i] = g)
    BY DEF FrameRefs, ToSet
  <2>3. \A i \in DOMAIN drops[c] : drops[c][i] = f <=> i = 1
    BY <1>0, <1>3 DEF Separate
  <2> QED
    <3>1. ASSUME NEW g, g \in FrameRefs(c)' PROVE g \in FrameRefs(c) /\ g # f
      <4>1. g # None /\ (g = cur[c] \/ g = first[c]
                           \/ \E i \in DOMAIN drops[c] : i # 1 /\ drops[c][i] = g)
        BY <1>2, <1>3, <1>5, <2>2, <3>1
      <4> QED
        BY <1>4, <2>1, <2>3, <4>1
    <3>2. ASSUME NEW g, g \in FrameRefs(c), g # f PROVE g \in FrameRefs(c)'
      <4>1. g # None /\ (g = cur[c] \/ g = first[c]
                           \/ \E i \in DOMAIN drops[c] : i # 1 /\ drops[c][i] = g)
        BY <1>3, <2>1, <3>2
      <4> QED
        BY <1>2, <1>3, <1>5, <2>2, <4>1
    <3> QED
      BY <3>1, <3>2
<1>7. \A i, j \in DOMAIN drops'[c] : drops'[c][i] = drops'[c][j] => i = j
  <2>1. /\ \A i, j \in 1 .. Len(drops[c]) : drops[c][i] = drops[c][j] => i = j
        /\ drops[c] \in Seq(Frames) /\ drops[c] # <<>>
    BY <1>0, <1>2, <1>3 DEF Separate
  <2>2. /\ Len(drops[c]) \in Nat /\ DOMAIN Tail(drops[c]) = 1 .. Len(drops[c]) - 1
        /\ \A i \in 1 .. Len(drops[c]) - 1 : Tail(drops[c])[i] = drops[c][i + 1]
    BY <2>1
  <2>3. ASSUME NEW i \in 1 .. Len(drops[c]) - 1, NEW j \in 1 .. Len(drops[c]) - 1,
               Tail(drops[c])[i] = Tail(drops[c])[j]
        PROVE  i = j
    <3>1. i + 1 \in 1 .. Len(drops[c]) /\ j + 1 \in 1 .. Len(drops[c])
      BY <2>2
    <3>2. drops[c][i + 1] = drops[c][j + 1]
      BY <2>2, <2>3
    <3>3. i + 1 = j + 1
      BY <2>1, <3>1, <3>2
    <3> QED
      BY <2>2, <3>3
  <2> QED
    BY <1>5, <2>2, <2>3
<1>8. drops' \in [Conns -> Seq(Frames)]
  BY <1>0, <1>2, <1>3 DEF PoolTypes
<1>9. FrameRefs(c) \subseteq Frames /\ idle[f] = 0
  BY <1>0, <1>4 DEF PoolTypes, FrameRefs, ToSet, Owned
<1>10. \A d \in Conns \ {c} : f \notin FrameRefs(d)
  BY <1>0, <1>4 DEF Owned
<1>11. Held(c)'
  BY <1>0, <1>2 DEF Held
<1>12. ASSUME \A g \in FrameRefs(c)' : ArraysOf(g)' = ArraysOf(g)
       PROVE  Separate(c)'
  <2>1. \A i \in DOMAIN drops'[c] : drops'[c][i] \notin {cur[c], first[c]}
    BY <1>0, <1>3, <1>5 DEF Separate
  <2> QED
    BY <1>0, <1>2, <1>6, <1>7, <1>12, <2>1 DEF Separate
<1>13. CASE UNCHANGED poolVars
  <2>1. frame' = frame /\ idle' = idle /\ parked' = parked
    BY <1>13 DEF poolVars
  <2>2. PoolTypes'
    BY <1>0, <1>2, <1>8, <2>1 DEF PoolTypes
  <2>3. OnlyMoves(c)
    BY <1>0, <1>2, <2>1 DEF OnlyMoves, PoolTypes
  <2>4. \A g : ArraysOf(g)' = ArraysOf(g)
    BY <2>1 DEF ArraysOf
  <2>5. Separate(c)'
    BY <1>12, <2>4
  <2>6. ArrayRefs(c)' \subseteq ArrayRefs(c)
    BY <1>2, <1>6, <2>4, RefersIs DEF Refers
  <2>7. FrameRefs(c)' \subseteq FrameRefs(c)
    BY <1>6
  <2> QED
    BY <1>11, <2>1, <2>2, <2>3, <2>5, <2>6, <2>7, QuietStep
<1>14. CASE /\ PutPayloads(ReleasedArrays(frame[f].payload, frame[f].cell))
            /\ frame' = [frame EXCEPT ![f] = ZeroFrame]
            /\ idle' = [idle EXCEPT ![f] = @ + 1]
  <2>1. /\ DOMAIN frame' = Frames /\ frame'[f] = ZeroFrame
        /\ \A g \in Frames \ {f} : frame'[g] = frame[g]
        /\ idle'[f] = 1 /\ \A g \in Frames \ {f} : idle'[g] = idle[g]
        /\ idle' \in [Frames -> {0, 1}]
    BY <1>0, <1>3, <1>9, <1>14 DEF PoolTypes
  <2>2. IsFrame(ZeroFrame) /\ ZeroFrame.payload.arr = None /\ ZeroFrame.cell = None
    <3>1. IsSlice(NilSlice) /\ NilSlice.arr = None
      BY DEF IsSlice, NilSlice
    <3> QED
      BY <3>1, FrameIs DEF ZeroFrame
  <2>3. ArraysOf(f)' = {} /\ \A g \in Frames \ {f} : ArraysOf(g)' = ArraysOf(g)
    BY <2>1, <2>2 DEF ArraysOf
  <2> DEFINE s == frame[f].payload
             k == frame[f].cell
             r == ReleasedArrays(s, k)
  <2>4. s.arr \in Arrays \cup {None} /\ k \in Arrays \cup {None}
    BY <1>0, <1>3 DEF PoolTypes, IsFrame, IsSlice
  <2>5. \A a \in ArraysOf(f) : a \in ArrayRefs(c) /\ parked[a] = 0
    BY <1>0, <1>4, RefersIs DEF Refers, Owned, ArraysOf
  <2>6. /\ parked' \in [Arrays -> {0, 1}]
        /\ \A a \in Arrays : parked'[a] = 1 => parked[a] = 1 \/ a \in ArraysOf(f)
    <3>1. CASE k = None \/ s.arr = k
      <4>1. r = <<s.arr>>
        BY <3>1 DEF ReleasedArrays
      <4>2. r \in [1 .. 1 -> Arrays \cup {None}] /\ r[1] = s.arr
        BY <2>4, <4>1
      <4>3. s.arr # None => parked[s.arr] = 0 /\ s.arr \in ArraysOf(f)
        BY <2>5 DEF ArraysOf
      <4>4. \A i \in 1 .. 1 : i = 1
        OBVIOUS
      <4> HIDE DEF r, s, k
      <4>5. PutPayloads(r)
        BY <1>14 DEF r, s, k
      <4>6. /\ parked' \in [Arrays -> {0, 1}]
            /\ \A a \in Arrays : parked'[a] = 1 => parked[a] = 1 \/ \E i \in 1 .. 1 : r[i] = a
        <5>1. /\ \A i, j \in 1 .. 1 : r[i] = r[j] /\ r[i] # None => i = j
              /\ \A i \in 1 .. 1 : r[i] # None => parked[r[i]] = 0
          BY <4>2, <4>3, <4>4
        <5>2. 1 \in Nat /\ r \in [1 .. 1 -> Arrays \cup {None}]
          BY <4>2
        <5> QED
          BY <1>0, <4>5, <5>1, <5>2, PutOnce, Zenon
      <4> QED
        BY <4>2, <4>3, <4>4, <4>6, NoneAssumption
    <3>2. CASE ~(k = None \/ s.arr = k)
      <4>1. r = <<k, s.arr>>
        BY <3>2 DEF ReleasedArrays
      <4>2. r \in [1 .. 2 -> Arrays \cup {None}] /\ r[1] = k /\ r[2] = s.arr
        BY <2>4, <4>1
      <4>3. /\ s.arr # None => parked[s.arr] = 0 /\ s.arr \in ArraysOf(f)
            /\ k # None => parked[k] = 0 /\ k \in ArraysOf(f)
        BY <2>5 DEF ArraysOf
      <4>4. \A i \in 1 .. 2 : i = 1 \/ i = 2
        OBVIOUS
      <4> HIDE DEF r, s, k
      <4>5. PutPayloads(r)
        BY <1>14 DEF r, s, k
      <4>6. /\ \A i, j \in 1 .. 2 : r[i] = r[j] /\ r[i] # None => i = j
            /\ \A i \in 1 .. 2 : r[i] # None => parked[r[i]] = 0
        BY <3>2, <4>2, <4>3, <4>4
      <4>7. /\ parked' \in [Arrays -> {0, 1}]
            /\ \A a \in Arrays : parked'[a] = 1 => parked[a] = 1 \/ \E i \in 1 .. 2 : r[i] = a
        <5>1. 2 \in Nat /\ r \in [1 .. 2 -> Arrays \cup {None}]
          BY <4>2
        <5> QED
          BY <1>0, <4>5, <4>6, <5>1, PutOnce, Zenon
      <4> QED
        BY <4>2, <4>3, <4>4, <4>7, NoneAssumption
    <3> QED
      BY <3>1, <3>2
  <2>7. PoolTypes'
    BY <1>0, <1>2, <1>8, <2>1, <2>2, <2>6 DEF PoolTypes
  <2>8. OnlyMoves(c)
    BY <1>0, <1>2, <1>10, <2>1 DEF OnlyMoves, PoolTypes, FrameRefs, ToSet
  <2>9. Separate(c)'
    BY <1>6, <1>9, <1>12, <2>3
  <2>10. \A a \in ArrayRefs(c)' : a \in ArrayRefs(c) /\ a \notin ArraysOf(f)
    <3>1. ASSUME NEW a, Refers(c, a)' PROVE Refers(c, a) /\ a \notin ArraysOf(f)
      <4>1. CASE \E g \in FrameRefs(c)' : a \in ArraysOf(g)'
        BY <1>0, <1>4, <1>6, <1>9, <2>3, <3>1, <4>1 DEF Separate, Refers
      <4>2. CASE a = buf'[c].arr
        BY <1>0, <1>2, <1>4, <3>1, <4>2 DEF Separate, Refers
      <4>3. CASE \E i \in DOMAIN outs'[c] : a = outs'[c][i].arr
        BY <1>0, <1>2, <1>4, <3>1, <4>3 DEF Separate, Refers
      <4> QED
        BY <3>1, <4>1, <4>2, <4>3 DEF Refers
    <3> QED
      BY <3>1, RefersIs
  <2>11. \A g \in Frames : idle'[g] = 1 =>
           /\ idle[g] = 1 \/ g \in FrameRefs(c)
           /\ g \notin FrameRefs(c)' /\ ArraysOf(g)' = {}
    BY <1>0, <1>4, <1>6, <2>1, <2>3 DEF Owned
  <2>12. \A a \in Arrays : parked'[a] = 1 =>
           (parked[a] = 1 \/ a \in ArrayRefs(c)) /\ a \notin ArrayRefs(c)'
    BY <1>0, <2>5, <2>6, <2>10 DEF Owned
  <2>13. /\ \A g \in FrameRefs(c)' : g \in FrameRefs(c)
         /\ \A a \in ArrayRefs(c)' : a \in ArrayRefs(c)
    BY <1>6, <2>10
  <2> QED
    BY <1>11, <2>7, <2>8, <2>9, <2>11, <2>12, <2>13, OwnStep
<1> QED
  BY <1>1, <1>13, <1>14 DEF Release

\* A step of the control only.
LEMMA ControlStep ==
  ASSUME PoolInv, NEW c \in Conns, UNCHANGED <<cur, first, buf, drops, outs, poolVars>>,
         PoolTypes', Held(c)',
         \A d \in Conns \ {c} : pc'[d] = pc[d] /\ after'[d] = after[d]
  PROVE  PoolInv'
<1>0. PoolTypes /\ Owned /\ Held(c) /\ Separate(c)
  BY DEF PoolInv
<1>1. frame' = frame /\ idle' = idle /\ parked' = parked
  BY DEF poolVars
<1>2. FrameRefs(c)' = FrameRefs(c)
  BY DEF FrameRefs
<1>3. \A f : ArraysOf(f)' = ArraysOf(f)
  BY <1>1 DEF ArraysOf
<1>4. ArrayRefs(c)' \subseteq ArrayRefs(c)
  BY <1>2, <1>3, RefersIs DEF Refers
<1>5. Separate(c)'
  BY <1>0, <1>2, <1>3 DEF Separate
<1>6. OnlyMoves(c)
  BY <1>1 DEF OnlyMoves
<1> QED
  BY <1>1, <1>2, <1>4, <1>5, <1>6, QuietStep

\* A panic of the handler leaves the frame to the collector.
LEMMA HandlerPanicsKeeps ==
  ASSUME PoolInv, NEW c \in Conns, HandlerPanics(c)
  PROVE  PoolInv'
<1>0. PoolTypes /\ Owned /\ Held(c) /\ Separate(c)
  BY DEF PoolInv
<1>1. /\ pc[c] = "dispatch" /\ frame' = [frame EXCEPT ![first[c]] = ZeroFrame]
      /\ first' = [first EXCEPT ![c] = None] /\ pc' = [pc EXCEPT ![c] = "end"]
      /\ UNCHANGED <<cur, buf, idle, parked, outs, after, drops>>
  BY DEF HandlerPanics, Goto, replyVars
<1>2. /\ cur[c] = None /\ drops[c] = <<>> /\ first[c] # None /\ first[c] \in Frames
      /\ FrameRefs(c) = {first[c]} /\ buf[c].arr = None
  BY <1>0, <1>1, HeldFrames DEF Held, PoolTypes
<1>3. idle[first[c]] = 0 /\ \A d \in Conns \ {c} : first[c] \notin FrameRefs(d)
  BY <1>0, <1>2 DEF Owned
<1>4. /\ DOMAIN frame' = Frames /\ frame'[first[c]] = ZeroFrame
      /\ \A g \in Frames \ {first[c]} : frame'[g] = frame[g]
  BY <1>0, <1>1, <1>2 DEF PoolTypes
<1>5. IsFrame(ZeroFrame)
  <2>1. IsSlice(NilSlice)
    BY DEF IsSlice, NilSlice
  <2> QED
    BY <2>1, FrameIs DEF ZeroFrame
<1>6. PoolTypes'
  BY <1>0, <1>1, <1>4, <1>5 DEF PoolTypes
<1>7. OnlyMoves(c)
  BY <1>0, <1>1, <1>3, <1>4 DEF OnlyMoves, PoolTypes, FrameRefs, ToSet
<1>8. first'[c] = None /\ pc'[c] = "end"
  BY <1>0, <1>1 DEF PoolTypes
<1>9. FrameRefs(c)' = {}
  BY <1>1, <1>2, <1>8 DEF FrameRefs, ToSet
<1>10. ArrayRefs(c)' \subseteq ArrayRefs(c)
  BY <1>1, <1>9, RefersIs DEF Refers
<1>11. Held(c)'
  BY <1>1, <1>2, <1>8 DEF Held
<1>12. Separate(c)'
  BY <1>0, <1>1, <1>2, <1>9 DEF Separate
<1>13. \A f \in Frames : idle[f] = 1 => frame'[f] = frame[f]
  BY <1>3, <1>4
<1>14. FrameRefs(c)' \subseteq FrameRefs(c)
  BY <1>9
<1> QED
  BY <1>1, <1>6, <1>7, <1>10, <1>11, <1>12, <1>13, <1>14, QuietStep

\* The buffer of an encoded frame was with nobody.
LEMMA EncodeFrameKeeps ==
  ASSUME PoolInv, NEW c \in Conns, EncodeFrame(c)
  PROVE  PoolInv'
<1>0. PoolTypes /\ Owned /\ Held(c) /\ Separate(c)
  BY DEF PoolInv
<1>1. PICK a, o :
        /\ a \in Arrays
        /\ \A d \in Conns : a \notin ArrayRefs(d)
        /\ parked' = [parked EXCEPT ![a] = 0]
        /\ o.arr = a /\ outs' = [outs EXCEPT ![c] = Append(outs[c], o)]
        /\ pc' = [pc EXCEPT ![c] = "encode"] \/ pc' = [pc EXCEPT ![c] = "join"]
  <2> DEFINE payload == Content(frame[first[c]].payload)
             offset  == Len(outs[c]) * FragmentSize(c)
             end     == Min({offset + FragmentSize(c), Len(payload)})
             more    == end < Len(payload)
             total   == HeaderSize + end - offset
             idx     == ClassIndexForSize(total)
             bytes   == [k \in 1 .. HeaderSize |-> HeaderByte(more)]
                          \o SubSeq(payload, offset + 1, end)
             o(a)    == [arr |-> a, len |-> total, cell |-> idx > 0]
  <2>1. PICK a \in Arrays :
          /\ IF idx > 0 THEN GetPayload(a, idx, bytes) ELSE Allocate(a, total, bytes)
          /\ outs' = [outs EXCEPT ![c] = Append(@, o(a))]
    BY DEF EncodeFrame
  <2>2. pc' = [pc EXCEPT ![c] = IF more THEN "encode" ELSE "join"]
    BY DEF EncodeFrame, Goto
  <2>3. o(a).arr = a
    OBVIOUS
  <2> HIDE DEF more, o, idx, bytes, total
  <2>4. /\ \A d \in Conns : a \notin ArrayRefs(d)
        /\ parked' = [parked EXCEPT ![a] = 0]
    BY <1>0, <2>1, TakenArray
  <2>5. PICK z : z = o(a)
    OBVIOUS
  <2>6. z.arr = a /\ outs' = [outs EXCEPT ![c] = Append(outs[c], z)]
    BY <2>1, <2>3, <2>5
  <2>7. pc' = [pc EXCEPT ![c] = "encode"] \/ pc' = [pc EXCEPT ![c] = "join"]
    BY <2>2
  <2> QED
    BY <2>4, <2>6, <2>7
<1>2. pc[c] = "encode" /\ UNCHANGED <<cur, first, buf, frame, idle, after, drops>>
  BY DEF EncodeFrame, decodeVars
<1>3. a # None
  BY <1>1, NoneAssumption
<1>4. (\A d \in Conns : a \notin ArrayRefs(d)) /\ parked' = [parked EXCEPT ![a] = 0]
  BY <1>1
<1>5. /\ cur[c] = None /\ first[c] # None /\ buf[c].arr = None /\ drops[c] = <<>>
  BY <1>0, <1>2 DEF Held
<1>6. DOMAIN outs = Conns /\ outs[c] \in Seq(ToSet(outs[c]))
  BY <1>0 DEF PoolTypes
<1>7. DOMAIN outs' = Conns /\ outs'[c] = Append(outs[c], o) /\ \A d \in Conns \ {c} : outs'[d] = outs[d]
  BY <1>1, <1>6
<1> DEFINE n == Len(outs[c]) + 1
<1>8. /\ n \in Nat /\ DOMAIN outs'[c] = 1 .. n /\ DOMAIN outs[c] = 1 .. n - 1 /\ n >= 1
      /\ outs'[c][n] = o /\ \A i \in 1 .. n - 1 : outs'[c][i] = outs[c][i]
      /\ outs'[c] \in Seq(ToSet(outs[c]) \cup {o})
  <2>1. outs[c] \in Seq(ToSet(outs[c]) \cup {o}) /\ o \in ToSet(outs[c]) \cup {o}
    BY <1>6
  <2>2. \A S : \A s \in Seq(S), x \in S :
          /\ Append(s, x) \in Seq(S) /\ Len(Append(s, x)) = Len(s) + 1 /\ Len(s) \in Nat
          /\ DOMAIN s = 1 .. Len(s) /\ DOMAIN Append(s, x) = 1 .. Len(s) + 1
          /\ Append(s, x)[Len(s) + 1] = x /\ \A i \in 1 .. Len(s) : Append(s, x)[i] = s[i]
    OBVIOUS
  <2>3. /\ Append(outs[c], o) \in Seq(ToSet(outs[c]) \cup {o}) /\ Len(outs[c]) \in Nat
        /\ DOMAIN outs[c] = 1 .. Len(outs[c])
        /\ DOMAIN Append(outs[c], o) = 1 .. Len(outs[c]) + 1
        /\ Append(outs[c], o)[Len(outs[c]) + 1] = o
        /\ \A i \in 1 .. Len(outs[c]) : Append(outs[c], o)[i] = outs[c][i]
    BY <2>1, <2>2
  <2> QED
    BY <1>7, <2>3
<1> HIDE DEF n
<1>9. \A i \in 1 .. n : i = n \/ i \in 1 .. n - 1
  BY <1>8
<1>10. outs'[c] \in Seq(ToSet(outs'[c])) /\ \A i \in DOMAIN outs'[c] : outs'[c][i].arr \in Arrays
  <2>1. n \in 1 .. n /\ 1 .. n - 1 \subseteq 1 .. n
    BY <1>8
  <2>2. ToSet(outs[c]) \cup {o} \subseteq ToSet(outs'[c])
    BY <1>8, <2>1 DEF ToSet
  <2>3. \A S, T : S \subseteq T => Seq(S) \subseteq Seq(T)
    OBVIOUS
  <2>4. outs'[c] \in Seq(ToSet(outs'[c]))
    BY <1>8, <2>2, <2>3
  <2>5. \A i \in 1 .. n - 1 : outs[c][i].arr \in Arrays
    BY <1>0, <1>8 DEF PoolTypes
  <2> QED
    BY <1>1, <1>8, <1>9, <2>4, <2>5
<1>11. PoolTypes'
  <2>1. \A d \in Conns : /\ outs'[d] \in Seq(ToSet(outs'[d]))
                         /\ \A i \in DOMAIN outs'[d] : outs'[d][i].arr \in Arrays
    <3>1. \A d \in Conns \ {c} : /\ outs'[d] \in Seq(ToSet(outs'[d]))
                                 /\ \A i \in DOMAIN outs'[d] : outs'[d][i].arr \in Arrays
      BY <1>0, <1>7 DEF PoolTypes
    <3> QED
      BY <1>10, <3>1
  <2>2. pc' \in [Conns -> {"decode", "header", "payload", "fragment", "release", "more",
                           "last", "dispatch", "encode", "join", "write", "free", "broken", "end"}]
    BY <1>0, <1>1 DEF PoolTypes
  <2> QED
    BY <1>0, <1>2, <1>4, <1>7, <2>1, <2>2 DEF PoolTypes
<1>12. OnlyMoves(c)
  BY <1>0, <1>1, <1>2, <1>7 DEF OnlyMoves, PoolTypes
<1>13. FrameRefs(c)' = FrameRefs(c) /\ \A f : ArraysOf(f)' = ArraysOf(f)
  BY <1>2 DEF FrameRefs, ArraysOf
<1>14. pc'[c] \in {"encode", "join"}
  BY <1>0, <1>1 DEF PoolTypes
<1>15. Held(c)'
  BY <1>2, <1>5, <1>14 DEF Held
<1>16. ~Refers(c, a)
  BY <1>4, RefersIs
<1>17. Separate(c)'
  <2>1. \A i \in 1 .. n - 1 : outs[c][i].arr # a /\ outs'[c][i] = outs[c][i] /\ i # n
    BY <1>3, <1>8, <1>16 DEF Refers
  <2>2. \A i, j \in 1 .. n : outs'[c][i].arr = outs'[c][j].arr => i = j
    BY <1>0, <1>1, <1>8, <1>9, <2>1 DEF Separate
  <2>3. \A f \in FrameRefs(c) : a \notin ArraysOf(f)
    BY <1>3, <1>16 DEF Refers
  <2>4. \A i \in 1 .. n : \A f \in FrameRefs(c) : outs'[c][i].arr \notin ArraysOf(f)
    BY <1>0, <1>1, <1>8, <1>9, <2>1, <2>3 DEF Separate
  <2>5. \A i \in 1 .. n : outs'[c][i].arr # buf[c].arr
    BY <1>0, <1>1, <1>3, <1>5, <1>8, <1>9, <2>1 DEF Separate
  <2> QED
    BY <1>0, <1>2, <1>8, <1>13, <2>2, <2>4, <2>5 DEF Separate
<1>18. \A b \in ArrayRefs(c)' : b \in ArrayRefs(c) \/ b = a
  <2>1. \A i \in DOMAIN outs'[c] : outs'[c][i].arr = a \/ \E j \in DOMAIN outs[c] : outs'[c][i] = outs[c][j]
    BY <1>1, <1>8, <1>9
  <2> QED
    BY <1>2, <1>13, <2>1, RefersIs DEF Refers
<1>19. \A g \in Frames : idle'[g] = 1 =>
         idle[g] = 1 /\ g \notin FrameRefs(c)' /\ ArraysOf(g)' = {}
  BY <1>0, <1>2, <1>13 DEF Owned
<1>20. \A b \in Arrays : parked'[b] = 1 => parked[b] = 1 /\ b \notin ArrayRefs(c)'
  BY <1>0, <1>4, <1>18 DEF Owned, PoolTypes
<1> QED
  BY <1>4, <1>11, <1>12, <1>13, <1>15, <1>17, <1>18, <1>19, <1>20, OwnStep

\* The encoded buffers go back to the pool, each once.
LEMMA PutOutsOnce ==
  ASSUME PoolInv, NEW c \in Conns, PutOuts(c)
  PROVE  /\ parked' \in [Arrays -> {0, 1}]
         /\ \A a \in Arrays : parked'[a] = 1 =>
              parked[a] = 1 \/ \E i \in DOMAIN outs[c] : a = outs[c][i].arr
         /\ DOMAIN outs' = Conns /\ outs'[c] = <<>> /\ \A d \in Conns \ {c} : outs'[d] = outs[d]
<1>0. PoolTypes /\ Owned /\ Separate(c)
  BY DEF PoolInv
<1> DEFINE n == Len(outs[c])
           arrs == [i \in 1 .. n |->
                      IF Single(c) \/ outs[c][i].cell THEN outs[c][i].arr ELSE None]
<1>1. /\ PutPayloads(arrs) /\ outs' = [outs EXCEPT ![c] = <<>>]
  BY DEF PutOuts
<1>2. n \in Nat /\ DOMAIN outs[c] = 1 .. n
  <2>1. outs[c] \in Seq(ToSet(outs[c]))
    BY <1>0 DEF PoolTypes
  <2> QED
    BY <2>1
<1>3. \A i \in 1 .. n : outs[c][i].arr \in Arrays /\ outs[c][i].arr # None
  BY <1>0, <1>2, NoneAssumption DEF PoolTypes
<1>4. arrs \in [1 .. n -> Arrays \cup {None}]
      /\ \A i \in 1 .. n : arrs[i] = outs[c][i].arr \/ arrs[i] = None
  BY <1>3
<1>5. \A i \in 1 .. n : Refers(c, outs[c][i].arr)
  BY <1>2, <1>3 DEF Refers
<1>6. \A i \in 1 .. n : parked[outs[c][i].arr] = 0
  BY <1>0, <1>5, RefersIs DEF Owned
<1> HIDE DEF arrs, n
<1>7. /\ \A i, j \in 1 .. n : arrs[i] = arrs[j] /\ arrs[i] # None => i = j
      /\ \A i \in 1 .. n : arrs[i] # None => parked[arrs[i]] = 0
  BY <1>0, <1>2, <1>4, <1>6 DEF Separate
<1>8. /\ parked' \in [Arrays -> {0, 1}]
      /\ \A a \in Arrays : parked'[a] = 1 => parked[a] = 1 \/ \E i \in 1 .. n : arrs[i] = a
  BY <1>0, <1>1, <1>2, <1>4, <1>7, PutOnce, Zenon
<1>9. \A a \in Arrays : parked'[a] = 1 =>
        parked[a] = 1 \/ \E i \in DOMAIN outs[c] : a = outs[c][i].arr
  BY <1>2, <1>4, <1>8, NoneAssumption
<1>10. DOMAIN outs = Conns
  BY <1>0 DEF PoolTypes
<1>11. DOMAIN outs' = Conns /\ outs'[c] = <<>> /\ \A d \in Conns \ {c} : outs'[d] = outs[d]
  BY <1>1, <1>10
<1> QED
  BY <1>8, <1>9, <1>11

\* The fragments are recycled before the write, a single buffer after it.
LEMMA PutOutsKeeps ==
  ASSUME PoolInv, NEW c \in Conns, PutOuts(c), UNCHANGED <<cur, buf, frame, idle>>,
         pc[c] \in {"join", "free"},
         \/ pc' = [pc EXCEPT ![c] = "write"] /\ UNCHANGED <<first, after, drops>>
         \/ AfterDispatch(c)
  PROVE  PoolInv'
<1>0. PoolTypes /\ Owned /\ Held(c) /\ Separate(c)
  BY DEF PoolInv
<1>1. /\ cur[c] = None /\ drops[c] = <<>> /\ first[c] # None /\ first[c] \in Frames
      /\ FrameRefs(c) = {first[c]} /\ buf[c].arr = None
  BY <1>0, HeldFrames DEF Held, PoolTypes
<1>2. /\ pc' \in [Conns -> {"decode", "header", "payload", "fragment", "release", "more",
                            "last", "dispatch", "encode", "join", "write", "free", "broken", "end"}]
      /\ after' \in [Conns -> {"decode", "close", "more", "last"}]
      /\ first' \in [Conns -> Frames \cup {None}] /\ drops' \in [Conns -> Seq(Frames)]
      /\ \A d \in Conns \ {c} : /\ pc'[d] = pc[d] /\ after'[d] = after[d]
                                /\ first'[d] = first[d] /\ drops'[d] = drops[d]
      /\ \/ pc'[c] = "write" /\ first'[c] = first[c] /\ drops'[c] = <<>>
         \/ /\ pc'[c] = "release" /\ first'[c] = None /\ drops'[c] = <<first[c]>>
            /\ after'[c] = "decode"
  <2>0. /\ DOMAIN pc = Conns /\ DOMAIN after = Conns /\ DOMAIN first = Conns /\ DOMAIN drops = Conns
        /\ <<first[c]>> \in Seq(Frames)
    BY <1>0, <1>1 DEF PoolTypes
  <2>1. CASE pc' = [pc EXCEPT ![c] = "write"] /\ UNCHANGED <<first, after, drops>>
    BY <1>0, <1>1, <2>0, <2>1 DEF PoolTypes
  <2>2. CASE AfterDispatch(c)
    <3>1. /\ drops' = [drops EXCEPT ![c] = <<first[c]>>] /\ first' = [first EXCEPT ![c] = None]
          /\ after' = [after EXCEPT ![c] = "decode"] /\ pc' = [pc EXCEPT ![c] = "release"]
      BY <2>2 DEF AfterDispatch, Goto
    <3> QED
      BY <1>0, <2>0, <3>1 DEF PoolTypes
  <2> QED
    BY <2>1, <2>2
<1>3. /\ parked' \in [Arrays -> {0, 1}]
      /\ \A a \in Arrays : parked'[a] = 1 =>
           parked[a] = 1 \/ \E i \in DOMAIN outs[c] : a = outs[c][i].arr
      /\ DOMAIN outs' = Conns /\ outs'[c] = <<>> /\ \A d \in Conns \ {c} : outs'[d] = outs[d]
  BY PutOutsOnce
<1>4. \A d \in Conns : /\ outs'[d] \in Seq(ToSet(outs'[d]))
                       /\ \A i \in DOMAIN outs'[d] : outs'[d][i].arr \in Arrays
  <2>1. ASSUME NEW d \in Conns \ {c}
        PROVE  /\ outs'[d] \in Seq(ToSet(outs'[d]))
               /\ \A i \in DOMAIN outs'[d] : outs'[d][i].arr \in Arrays
    <3>1. outs'[d] = outs[d]
      BY <1>3
    <3>2. outs[d] \in Seq(ToSet(outs[d])) /\ \A i \in DOMAIN outs[d] : outs[d][i].arr \in Arrays
      BY <1>0 DEF PoolTypes
    <3> QED
      BY <3>1, <3>2
  <2>2. outs'[c] \in Seq(ToSet(outs'[c])) /\ \A i \in DOMAIN outs'[c] : outs'[c][i].arr \in Arrays
    <3>1. outs'[c] = <<>>
      BY <1>3
    <3> QED
      BY <3>1
  <2> QED
    BY <2>1, <2>2
<1>5. PoolTypes'
  BY <1>0, <1>2, <1>3, <1>4 DEF PoolTypes
<1>6. OnlyMoves(c)
  BY <1>2, <1>3 DEF OnlyMoves
<1>7. FrameRefs(c)' = {first[c]}
  <2>1. cur'[c] = None
    BY <1>1
  <2>2. CASE first'[c] = first[c] /\ drops'[c] = <<>>
    BY <1>1, <2>1, <2>2 DEF FrameRefs, ToSet
  <2>3. CASE first'[c] = None /\ drops'[c] = <<first[c]>>
    BY <1>1, <2>1, <2>3 DEF FrameRefs, ToSet
  <2> QED
    BY <1>2, <2>2, <2>3
<1>8. \A f : ArraysOf(f)' = ArraysOf(f)
  BY DEF ArraysOf
<1>9. \A a \in ArrayRefs(c)' : a \in ArraysOf(first[c])
  BY <1>1, <1>3, <1>7, <1>8, RefersIs DEF Refers
<1>10. /\ \A a \in ArraysOf(first[c]) : a \in ArrayRefs(c)
       /\ \A i \in DOMAIN outs[c] : outs[c][i].arr \notin ArraysOf(first[c])
       /\ \A i \in DOMAIN outs[c] : outs[c][i].arr \in ArrayRefs(c)
  <2>1. \A a \in ArraysOf(first[c]) : a # None
    BY DEF ArraysOf
  <2>2. \A i \in DOMAIN outs[c] : outs[c][i].arr # None
    BY <1>0, NoneAssumption DEF PoolTypes
  <2> QED
    BY <1>0, <1>1, <2>1, <2>2, RefersIs DEF Separate, Refers
<1>11. Held(c)'
  BY <1>1, <1>2 DEF Held
<1>12. Separate(c)'
  <2>1. \A f : None \notin ArraysOf(f)'
    BY DEF ArraysOf
  <2>2. \A i \in DOMAIN drops'[c] : i = 1 /\ drops'[c][i] = first[c] /\ first'[c] = None
    BY <1>2
  <2> QED
    BY <1>1, <1>2, <1>3, <1>7, <2>1, <2>2 DEF Separate
<1>13. \A g \in Frames : idle'[g] = 1 =>
         idle[g] = 1 /\ g \notin FrameRefs(c)' /\ ArraysOf(g)' = {}
  BY <1>0, <1>1, <1>7, <1>8 DEF Owned
<1>14. \A b \in Arrays : parked'[b] = 1 =>
         (parked[b] = 1 \/ b \in ArrayRefs(c)) /\ b \notin ArrayRefs(c)'
  BY <1>0, <1>3, <1>9, <1>10 DEF Owned
<1>15. /\ \A f \in FrameRefs(c)' : f \in FrameRefs(c)
       /\ \A a \in ArrayRefs(c)' : a \in ArrayRefs(c)
  BY <1>1, <1>7, <1>9, <1>10
<1> QED
  BY <1>5, <1>6, <1>11, <1>12, <1>13, <1>14, <1>15, OwnStep

-----------------------------------------------------------------------------

\* One step per action.
LEMMA PoolStep == PoolInv /\ [Next]_vars => PoolInv'
<1> SUFFICES ASSUME PoolInv, [Next]_vars PROVE PoolInv'
  OBVIOUS
<1>0. PoolTypes /\ \A c \in Conns : Held(c)
  BY DEF PoolInv
<1>1. ASSUME NEW c \in Conns, ReadFails(c) \/ HeaderRefused(c) \/ StreamViolation(c) \/ StreamTooLarge(c)
      PROVE  PoolInv'
  BY <1>1, DecodeFailsKeeps
  DEF ReadFails, HeaderRefused, StreamViolation, StreamTooLarge, replyVars
<1>2. ASSUME NEW c \in Conns, Released(c) PROVE PoolInv'
  <2>1. /\ pc[c] = "release" /\ drops[c] = <<>> /\ after' = [after EXCEPT ![c] = "decode"]
        /\ \/ pc' = [pc EXCEPT ![c] = after[c]] /\ after[c] \in {"more", "last"}
           \/ /\ pc' = [pc EXCEPT ![c] = "end"] \/ pc' = [pc EXCEPT ![c] = "decode"]
              /\ after[c] \notin {"more", "last"}
        /\ UNCHANGED <<cur, first, buf, drops, outs, poolVars>>
    BY <1>2 DEF Released, Goto, decodeVars, replyVars
  <2>2. /\ \A d \in Conns \ {c} : pc'[d] = pc[d] /\ after'[d] = after[d]
        /\ after'[c] = "decode"
        /\ \/ pc'[c] = after[c] /\ after[c] \in {"more", "last"}
           \/ pc'[c] \in {"end", "decode"} /\ after[c] \notin {"more", "last"}
    BY <1>0, <2>1 DEF PoolTypes
  <2>3. PoolTypes'
    BY <1>0, <2>1 DEF PoolTypes, poolVars
  <2>4. Held(c)'
    BY <1>0, <2>1, <2>2 DEF Held, poolVars
  <2> QED
    BY <2>1, <2>2, <2>3, <2>4, ControlStep
<1>3. ASSUME NEW c \in Conns, Handle(c) PROVE PoolInv'
  <2>1. CASE AfterDispatch(c)
    BY <1>3, <2>1, AfterDispatchKeeps DEF Handle, replyVars
  <2>2. CASE pc' = [pc EXCEPT ![c] = "encode"] /\ UNCHANGED <<drops, first, after>>
    <3>1. pc[c] = "dispatch" /\ UNCHANGED <<cur, first, buf, drops, outs, poolVars, after>>
      BY <1>3, <2>2 DEF Handle, replyVars
    <3>2. pc'[c] = "encode" /\ \A d \in Conns \ {c} : pc'[d] = pc[d] /\ after'[d] = after[d]
      BY <1>0, <2>2 DEF PoolTypes
    <3>3. PoolTypes'
      BY <1>0, <2>2, <3>1 DEF PoolTypes, poolVars
    <3>4. Held(c)'
      BY <1>0, <3>1, <3>2 DEF Held, poolVars
    <3> QED
      BY <3>1, <3>2, <3>3, <3>4, ControlStep
  <2> QED
    BY <1>3, <2>1, <2>2 DEF Handle, Goto
<1>4. ASSUME NEW c \in Conns, EncodeFails(c) \/ WriteJoined(c) \/ ExceptionCloses(c)
      PROVE  PoolInv'
  BY <1>4, AfterDispatchKeeps DEF EncodeFails, WriteJoined, ExceptionCloses, replyVars
<1>5. ASSUME NEW c \in Conns, JoinFragments(c) \/ FreeSingle(c) PROVE PoolInv'
  BY <1>5, PutOutsKeeps DEF JoinFragments, FreeSingle, Goto, decodeVars
<1>6. ASSUME NEW c \in Conns, WriteSingle(c) PROVE PoolInv'
  <2>1. /\ pc[c] = "join" /\ pc' = [pc EXCEPT ![c] = "free"]
        /\ UNCHANGED <<cur, first, buf, drops, outs, poolVars, after>>
    BY <1>6 DEF WriteSingle, Goto, decodeVars
  <2>2. pc'[c] = "free" /\ \A d \in Conns \ {c} : pc'[d] = pc[d] /\ after'[d] = after[d]
    BY <1>0, <2>1 DEF PoolTypes
  <2>3. PoolTypes'
    BY <1>0, <2>1 DEF PoolTypes, poolVars
  <2>4. Held(c)'
    BY <1>0, <2>1, <2>2 DEF Held, poolVars
  <2> QED
    BY <2>1, <2>2, <2>3, <2>4, ControlStep
<1>7. CASE UNCHANGED <<cur, first, buf, drops, outs, frame, idle, parked, pc, after>>
  <2>1. \A c \in Conns : FrameRefs(c)' = FrameRefs(c)
    BY <1>7 DEF FrameRefs
  <2>2. \A f : ArraysOf(f)' = ArraysOf(f)
    BY <1>7 DEF ArraysOf
  <2>3. ASSUME NEW c \in Conns PROVE ArrayRefs(c)' = ArrayRefs(c)
    <3>1. UNION {ArraysOf(f)' : f \in FrameRefs(c)'} = UNION {ArraysOf(f) : f \in FrameRefs(c)}
      BY <2>1, <2>2
    <3> QED
      BY <1>7, <3>1 DEF ArrayRefs
  <2>4. PoolTypes'
    BY <1>0, <1>7 DEF PoolTypes
  <2>5. Owned'
    BY <1>7, <2>1, <2>2, <2>3 DEF PoolInv, Owned
  <2>6. ASSUME NEW c \in Conns PROVE Held(c)' /\ Separate(c)'
    <3>1. Held(c) /\ Separate(c)
      BY DEF PoolInv
    <3>2. Held(c)'
      BY <1>7, <2>2, <3>1 DEF Held
    <3>3. Separate(c)'
      BY <1>7, <2>1, <2>2, <3>1 DEF Separate
    <3> QED
      BY <3>2, <3>3
  <2> QED
    BY <2>4, <2>5, <2>6 DEF PoolInv
<1>8. ASSUME NEW c \in Conns, PublishWrites(c) PROVE PoolInv'
  BY <1>7, <1>8 DEF PublishWrites, decodeVars, poolVars, flowVars
<1>9. ASSUME NEW c \in Conns, Step(c) PROVE PoolInv'
  BY <1>1, <1>2, <1>3, <1>4, <1>5, <1>6, <1>9, WriteFailsKeeps, AcquireFrameKeeps, ReadHeaderKeeps,
     ReadPayloadKeeps, AppendFragmentKeeps, AssembledKeeps, ReleaseKeeps,
     HandlerPanicsKeeps, EncodeFrameKeeps DEF Step
<1>10. CASE UNCHANGED vars
  BY <1>7, <1>10 DEF vars, decodeVars, poolVars, flowVars, replyVars
<1> QED
  BY <1>8, <1>9, <1>10 DEF Next

\* A connection starts with nothing, and the pools are empty.
LEMMA PoolStart == Init => PoolInv
<1> SUFFICES ASSUME Init PROVE PoolInv
  OBVIOUS
<1>1. /\ IsSlice(NilSlice) /\ NilSlice.arr = None
  BY DEF IsSlice, NilSlice
<1>2. IsFrame(ZeroFrame)
  BY <1>1, FrameIs DEF ZeroFrame
<1>3. PoolTypes
  BY <1>1, <1>2 DEF Init, PoolTypes
<1>4. \A c \in Conns : FrameRefs(c) = {}
  BY DEF Init, FrameRefs, ToSet
<1>5. \A c \in Conns : ArrayRefs(c) = {}
  BY <1>1, <1>4 DEF Init, ArrayRefs
<1>6. Owned
  BY <1>4, <1>5 DEF Owned, Init
<1>7. \A c \in Conns : Held(c) /\ Separate(c)
  BY <1>1, <1>4 DEF Held, Separate, Init
<1> QED
  BY <1>3, <1>6, <1>7 DEF PoolInv

\* One owner each is what PoolExclusive counts.
LEMMA OwnedExcludes == PoolInv => PoolExclusive
<1> SUFFICES ASSUME PoolInv PROVE PoolExclusive
  OBVIOUS
<1>0. Owned /\ idle \in [Frames -> {0, 1}] /\ parked \in [Arrays -> {0, 1}]
  BY DEF PoolInv, PoolTypes
<1>1. Cardinality({}) = 0 /\ \A c : Cardinality({c}) = 1
  BY FS_EmptySet, FS_Singleton
<1>2. ASSUME NEW a \in Arrays
      PROVE  parked[a] + Cardinality({c \in Conns : a \in ArrayRefs(c)}) <= 1
  <2>1. CASE \A c \in Conns : a \notin ArrayRefs(c)
    <3>1. {c \in Conns : a \in ArrayRefs(c)} = {}
      BY <2>1
    <3> QED
      BY <1>0, <1>1, <3>1
  <2>2. ASSUME NEW c \in Conns, a \in ArrayRefs(c)
        PROVE  parked[a] + Cardinality({d \in Conns : a \in ArrayRefs(d)}) <= 1
    <3>1. {d \in Conns : a \in ArrayRefs(d)} = {c}
      BY <1>0, <2>2 DEF Owned
    <3>2. parked[a] = 0
      BY <1>0, <2>2 DEF Owned
    <3>3. Cardinality({d \in Conns : a \in ArrayRefs(d)}) = 1
      BY <1>1, <3>1, Zenon
    <3> QED
      BY <3>2, <3>3
  <2> QED
    BY <2>1, <2>2
<1>3. ASSUME NEW f \in Frames
      PROVE  idle[f] + Cardinality({c \in Conns : f \in FrameRefs(c)}) <= 1
  <2>1. CASE \A c \in Conns : f \notin FrameRefs(c)
    <3>1. {c \in Conns : f \in FrameRefs(c)} = {}
      BY <2>1
    <3> QED
      BY <1>0, <1>1, <3>1
  <2>2. ASSUME NEW c \in Conns, f \in FrameRefs(c)
        PROVE  idle[f] + Cardinality({d \in Conns : f \in FrameRefs(d)}) <= 1
    <3>1. {d \in Conns : f \in FrameRefs(d)} = {c}
      BY <1>0, <2>2 DEF Owned
    <3>2. idle[f] = 0
      BY <1>0, <2>2 DEF Owned
    <3>3. Cardinality({d \in Conns : f \in FrameRefs(d)}) = 1
      BY <1>1, <3>1, Zenon
    <3> QED
      BY <3>2, <3>3
  <2> QED
    BY <2>1, <2>2
<1> QED
  BY <1>2, <1>3 DEF PoolExclusive

\* No buffer and no frame object is ever with two connections, or with one and
\* in the pool: through fragments, growth of the aggregate, every error return,
\* panics, failed writes and both ways to recycle a reply.
THEOREM PoolsExclusive == Spec => []PoolExclusive
<1> QED
  BY PoolStart, PoolStep, OwnedExcludes, PTL DEF Spec

-----------------------------------------------------------------------------
(* Who writes                                                              *)

\* Every array has bytes.
Allocated == DOMAIN array = Arrays

\* The arrays a step of a connection may write to.
Writes(c) ==
  /\ DOMAIN array' = Arrays
  /\ \A a \in Arrays : \/ array'[a] = array[a] \/ a \in ArrayRefs(c)
                       \/ \A d \in Conns : a \notin ArrayRefs(d)

\* A taken array was with nobody.
LEMMA TakeWrites ==
  ASSUME PoolInv, Allocated, NEW c \in Conns, NEW a \in Arrays, NEW i, NEW bytes, NEW size,
         GetPayload(a, i, bytes) \/ Allocate(a, size, bytes)
  PROVE  Writes(c)
<1>1. \A d \in Conns : a \notin ArrayRefs(d)
  BY TakenArray DEF PoolInv
<1>2. DOMAIN array' = Arrays /\ \A b \in Arrays \ {a} : array'[b] = array[b]
  BY DEF GetPayload, Allocate, Allocated
<1> QED
  BY <1>1, <1>2 DEF Writes

\* A release writes to the arrays it names.
LEMMA PutWrites ==
  ASSUME Allocated, NEW c \in Conns, NEW arrs, PutPayloads(arrs),
         \A a \in ToSet(arrs) : a \in Arrays => a \in ArrayRefs(c)
  PROVE  Writes(c)
<1>1. DOMAIN array' = Arrays
  BY DEF PutPayloads
<1>2. \A a \in Arrays : a \notin ToSet(arrs) => array'[a] = array[a]
  BY DEF PutPayloads
<1> QED
  BY <1>1, <1>2 DEF Writes

\* Nothing is written.
LEMMA NoWrites ==
  ASSUME Allocated, NEW c \in Conns, array' = array
  PROVE  Writes(c)
  BY DEF Allocated, Writes

\* Every step of a connection's goroutine moves it, and writes to its own arrays
\* or to what was with nobody.
LEMMA StepWrites ==
  ASSUME PoolInv, Allocated, NEW c \in Conns, Step(c)
  PROVE  /\ Writes(c)
         /\ ~(pc'[c] = pc[c] /\ drops'[c] = drops[c] /\ outs'[c] = outs[c])
<1> DEFINE Moved == ~(pc'[c] = pc[c] /\ drops'[c] = drops[c] /\ outs'[c] = outs[c])
<1>0. PoolTypes /\ Held(c) /\ Separate(c)
  BY DEF PoolInv
<1>1. DOMAIN pc = Conns /\ DOMAIN drops = Conns /\ DOMAIN outs = Conns
  BY <1>0 DEF PoolTypes
<1>2. CASE \/ AcquireFrame(c) \/ Assembled(c) \/ Handle(c) \/ HandlerPanics(c)
           \/ EncodeFails(c) \/ WriteJoined(c) \/ WriteFails(c) \/ ExceptionCloses(c)
  <2>1. array' = array
    BY <1>2
        DEF AcquireFrame, Assembled, Handle, HandlerPanics, EncodeFails, WriteJoined,
                WriteFails, ExceptionCloses, poolVars
  <2>2. Moved
    BY <1>1, <1>2 DEF AcquireFrame, Assembled, Handle, HandlerPanics, EncodeFails,
                      WriteJoined, WriteFails, ExceptionCloses, AfterDispatch, Goto
  <2> QED
    BY <2>1, <2>2, NoWrites
<1>3. CASE \/ ReadFails(c) \/ HeaderRefused(c) \/ StreamViolation(c) \/ StreamTooLarge(c)
           \/ Released(c) \/ WriteSingle(c)
  <2>1. array' = array
    BY <1>3 DEF ReadFails, HeaderRefused, StreamViolation, StreamTooLarge, Released,
                WriteSingle, poolVars
  <2>2. ASSUME ReadFails(c) \/ HeaderRefused(c) \/ StreamViolation(c) \/ StreamTooLarge(c)
        PROVE  Moved
    BY <1>1, <2>2 DEF ReadFails, HeaderRefused, StreamViolation, StreamTooLarge,
                      DecodeFails, Goto
  <2>3. ASSUME Released(c) PROVE Moved
    BY <1>0, <1>1, <2>3 DEF Released, Goto, PoolTypes
  <2>4. ASSUME WriteSingle(c) PROVE Moved
    BY <1>1, <2>4 DEF WriteSingle, Goto
  <2> QED
    BY <1>3, <2>1, <2>2, <2>3, <2>4, NoWrites
<1>4. CASE ReadHeader(c)
  <2>1. Moved
    BY <1>1, <1>4 DEF ReadHeader, Goto
  <2>2. CASE array' = array
    BY <2>1, <2>2, NoWrites
  <2>3. ASSUME NEW a \in Arrays, GetPayload(a, ClassIndexForSize(Wire(c).len), <<>>)
        PROVE  Writes(c)
    BY <2>3, TakeWrites
  <2> QED
    BY <1>4, <2>1, <2>2, <2>3 DEF ReadHeader
<1>5. CASE ReadPayload(c)
  <2>1. Moved
    BY <1>1, <1>5 DEF ReadPayload, Goto
  <2> DEFINE s == frame[cur[c]].payload
  <2>2. s.arr = None \/ s.arr \in ArrayRefs(c)
    <3>1. cur[c] \in FrameRefs(c)
      BY <1>0, <1>5 DEF ReadPayload, Held, FrameRefs
    <3>2. s.arr = None \/ s.arr \in ArraysOf(cur[c])
      BY DEF ArraysOf
    <3> QED
      BY <3>1, <3>2, RefersIs DEF Refers
  <2>3. array' = array \/ (s.arr # None /\ \E v : array' = [array EXCEPT ![s.arr] = v])
    BY <1>5 DEF ReadPayload
  <2>4. Writes(c)
    BY <2>2, <2>3 DEF Writes, Allocated
  <2> QED
    BY <2>1, <2>4
<1>6. CASE AppendFragment(c)
  <2>1. Moved
    BY <1>1, <1>6 DEF AppendFragment, Goto
  <2> DEFINE bytes == Content(frame[cur[c]].payload)
  <2>2. \/ \E v : array' = [array EXCEPT ![buf[c].arr] = v]
        \/ \E a \in Arrays : \E cap : Allocate(a, cap, Content(buf[c]) \o bytes)
    BY <1>6 DEF AppendFragment, AppendTo
  <2>3. CASE \E v : array' = [array EXCEPT ![buf[c].arr] = v]
    <3>1. buf[c].arr = None \/ buf[c].arr \in ArrayRefs(c)
      BY RefersIs DEF Refers
    <3>2. None \notin Arrays
      BY NoneAssumption
    <3> QED
      BY <2>1, <2>3, <3>1, <3>2 DEF Writes, Allocated
  <2>4. CASE \E a \in Arrays : \E cap : Allocate(a, cap, Content(buf[c]) \o bytes)
    BY <2>1, <2>4, TakeWrites
  <2> QED
    BY <2>2, <2>3, <2>4
<1>7. CASE Release(c)
  <2>1. PICK f : f = Head(drops[c])
    OBVIOUS
  <2>2. /\ drops[c] \in Seq(Frames) /\ drops[c] # <<>> /\ f \in Frames /\ f \in ToSet(drops[c])
        /\ drops'[c] = Tail(drops[c])
    BY <1>0, <1>1, <1>7, <2>1 DEF Release, PoolTypes, ToSet
  <2>3. Moved
    <3>1. Len(Tail(drops[c])) # Len(drops[c])
      BY <2>2
    <3> QED
      BY <2>2, <3>1
  <2>4. \A a \in ArraysOf(f) : a \in ArrayRefs(c)
    BY <2>2, RefersIs, NoneAssumption DEF Refers, FrameRefs, ArraysOf
  <2>5. CASE UNCHANGED poolVars
    BY <2>3, <2>5, NoWrites DEF poolVars
  <2>6. CASE PutPayloads(ReleasedArrays(frame[f].payload, frame[f].cell))
    <3> DEFINE r == ReleasedArrays(frame[f].payload, frame[f].cell)
    <3>1. \A a \in ToSet(r) : a \in {frame[f].payload.arr, frame[f].cell}
      BY DEF ReleasedArrays, ToSet
    <3>2. \A a \in ToSet(r) : a \in Arrays => a \in ArrayRefs(c)
      BY <2>4, <3>1, NoneAssumption DEF ArraysOf
    <3> QED
      BY <2>3, <2>6, <3>2, PutWrites
  <2> QED
    BY <1>7, <2>1, <2>5, <2>6 DEF Release
<1>8. CASE EncodeFrame(c)
  <2>1. Writes(c)
    BY <1>8, TakeWrites DEF EncodeFrame
  <2>2. PICK o : outs'[c] = Append(outs[c], o)
    BY <1>1, <1>8 DEF EncodeFrame
  <2>3. outs[c] \in Seq(ToSet(outs[c]))
    BY <1>0 DEF PoolTypes
  <2>4. Len(outs'[c]) # Len(outs[c])
    <3>1. outs[c] \in Seq(ToSet(outs[c]) \cup {o}) /\ o \in ToSet(outs[c]) \cup {o}
      BY <2>3
    <3>2. \A S : \A s \in Seq(S), x \in S : Len(s) \in Nat /\ Len(Append(s, x)) = Len(s) + 1
      OBVIOUS
    <3>3. Len(outs[c]) \in Nat /\ Len(Append(outs[c], o)) = Len(outs[c]) + 1
      BY <3>1, <3>2
    <3> QED
      BY <2>2, <3>3
  <2> QED
    BY <2>1, <2>4
<1>9. CASE JoinFragments(c) \/ FreeSingle(c)
  <2>1. Moved
    BY <1>1, <1>9 DEF JoinFragments, FreeSingle, AfterDispatch, Goto
  <2> DEFINE arrs == [i \in 1 .. Len(outs[c]) |->
                        IF Single(c) \/ outs[c][i].cell THEN outs[c][i].arr ELSE None]
  <2>2. PutPayloads(arrs)
    BY <1>9 DEF JoinFragments, FreeSingle, PutOuts
  <2>3. DOMAIN outs[c] = 1 .. Len(outs[c])
    <3>1. outs[c] \in Seq(ToSet(outs[c]))
      BY <1>0 DEF PoolTypes
    <3> QED
      BY <3>1
  <2>4. \A a \in ToSet(arrs) : a \in Arrays => \E i \in DOMAIN outs[c] : a = outs[c][i].arr
    BY <2>3, NoneAssumption DEF ToSet
  <2>5. \A a \in ToSet(arrs) : a \in Arrays => a \in ArrayRefs(c)
    BY <2>4, RefersIs, NoneAssumption DEF Refers
  <2> HIDE DEF arrs
  <2> QED
    BY <2>1, <2>2, <2>5, PutWrites
<1> QED
  BY <1>2, <1>3, <1>4, <1>5, <1>6, <1>7, <1>8, <1>9 DEF Step

\* No connection writes to the bytes another one holds: what the handler of a
\* connection reads in place, and what is on its way to the socket, changes only
\* by the steps of that connection's own goroutine.
THEOREM BytesStayPut == Spec => BytesKept
<1>1. Init => Allocated
  BY DEF Init, Allocated
<1>2. PoolInv /\ Allocated /\ [Next]_vars =>
        /\ Allocated'
        /\ [\A c \in Conns : pc'[c] = pc[c] /\ drops'[c] = drops[c] /\ outs'[c] = outs[c] =>
              \A a \in ArrayRefs(c) : array'[a] = array[a]]_vars
  <2> SUFFICES ASSUME PoolInv, Allocated, [Next]_vars
               PROVE  /\ Allocated'
                      /\ \A c \in Conns :
                           pc'[c] = pc[c] /\ drops'[c] = drops[c] /\ outs'[c] = outs[c] =>
                             \A a \in ArrayRefs(c) : array'[a] = array[a]
    OBVIOUS
  <2>1. CASE array' = array
    BY <2>1 DEF Allocated
  <2>2. ASSUME NEW d \in Conns, Step(d)
        PROVE  /\ Allocated'
               /\ \A c \in Conns :
                    pc'[c] = pc[c] /\ drops'[c] = drops[c] /\ outs'[c] = outs[c] =>
                      \A a \in ArrayRefs(c) : array'[a] = array[a]
    <3>1. /\ Writes(d)
          /\ ~(pc'[d] = pc[d] /\ drops'[d] = drops[d] /\ outs'[d] = outs[d])
      BY <2>2, StepWrites
    <3>2. \A c \in Conns : ArrayRefs(c) \subseteq Arrays
      <4>1. \A c \in Conns : FrameRefs(c) \subseteq Frames
        BY DEF PoolInv, PoolTypes, FrameRefs, ToSet
      <4>2. \A f \in Frames : ArraysOf(f) \subseteq Arrays
        BY DEF PoolInv, PoolTypes, IsFrame, IsSlice, ArraysOf
      <4>3. \A c \in Conns : buf[c].arr \in Arrays \cup {None}
                             /\ \A i \in DOMAIN outs[c] : outs[c][i].arr \in Arrays
        BY DEF PoolInv, PoolTypes, IsSlice
      <4> QED
        BY <4>1, <4>2, <4>3, RefersIs DEF Refers
    <3>3. \A c \in Conns \ {d} : \A a \in ArrayRefs(c) : a \notin ArrayRefs(d)
      BY DEF PoolInv, Owned
    <3> QED
      BY <3>1, <3>2, <3>3 DEF Writes, Allocated
  <2>3. ASSUME NEW d \in Conns, PublishWrites(d) PROVE array' = array
    BY <2>3 DEF PublishWrites, poolVars
  <2>4. CASE UNCHANGED vars
    BY <2>1, <2>4 DEF vars, poolVars
  <2> QED
    BY <2>1, <2>2, <2>3, <2>4 DEF Next
<1> QED
  BY <1>1, <1>2, PoolStart, PoolStep, PTL DEF Spec, BytesKept

-----------------------------------------------------------------------------
(* What the bytes are                                                      *)

\* The bytes an array may hold.
Values == {ZeroByte, HeaderByte(TRUE), HeaderByte(FALSE)} \cup (Conns \X Nat \X Nat)

\* A slice within its array.
Within(s) ==
  /\ s.len \in Nat
  /\ IF s.arr = None THEN s.len = 0 ELSE s.len <= Len(array[s.arr])

\* m lists the bytes of the frames i to j in the order of the wire.
Spells(c, w, m, i, j) ==
  LET bytes == BytesOf(c, w, <<i, j>>)
  IN  /\ m \in Seq(bytes)
      /\ \A b \in bytes : \E n \in DOMAIN m : m[n] = b
      /\ \A n, k \in DOMAIN m : n < k => Before(m[n], m[k])

Holds(c, s, i, j) == Within(s) /\ Spells(c, script[c], Content(s), i, j)

\* Everything before the frame i was a legal message and has been dispatched.
Opened(c, i) ==
  /\ i \in 1 .. Len(script[c]) + 1
  /\ i = 1 \/ ~script[c][i - 1].more
  /\ \A t \in Spans(script[c]) : t[1] < i => Legal(c, script[c], t)
  /\ Len(delivered[c]) = Cardinality({t \in Spans(script[c]) : t[1] < i})
  /\ Len(delivered[c]) <= Len(Framed[c][script[c]])
  /\ \A n \in 1 .. Len(delivered[c]) : delivered[c][n] = Framed[c][script[c]][n]

\* The frames i to j are within the size limit, of one stream and type, and all
\* but the last have another one to come.
Run(w, i, j) ==
  /\ i \in 1 .. j /\ j \in 1 .. Len(w)
  /\ \A k \in i .. j : /\ w[k].len <= MaxFrameSize
                       /\ w[k].id = w[i].id /\ w[k].type = w[i].type
  /\ \A k \in i .. j - 1 : w[k].more

\* The aggregate of a message that began at the frame i has its frames up to j.
Gathered(c, i, j) ==
  /\ Opened(c, i) /\ Run(script[c], i, j) /\ Holds(c, buf[c], i, j)
  /\ frame[first[c]].head.id = script[c][i].id
  /\ frame[first[c]].head.type = script[c][i].type

\* The message of the frames i to pos[c] is complete and legal.
Complete(c, i) ==
  /\ Opened(c, i) /\ Run(script[c], i, pos[c]) /\ ~script[c][pos[c]].more
  /\ Cardinality(BytesOf(c, script[c], <<i, pos[c]>>)) <= MaxStreamSize
  /\ Holds(c, frame[first[c]].payload, i, pos[c])

Reading(c) == pc[c] \in {"decode", "header", "payload"}

Releasing(c, l) == pc[c] = "release" /\ after[c] = l

Answering(c) == pc[c] \in {"encode", "join", "write", "free", "broken"}

\* The buffer of the frame being read has room for what its header announces.
Room(c) ==
  LET s == frame[cur[c]].payload
      n == script[c][pos[c] + 1].len
  IN  /\ pos[c] < Len(script[c]) /\ n <= MaxFrameSize
      /\ frame[cur[c]].head = script[c][pos[c] + 1]
      /\ s.len = n /\ Within(s) /\ (n > 0 => s.arr # None)

\* What has been read and dispatched where the goroutine is in HandleRead: before
\* the first frame of a message,
NextIsNew(c) ==
  first[c] = None /\ (Reading(c) \/ (Releasing(c, "decode") /\ ~closed[c]))
    => Opened(c, pos[c] + 1)

\* between the frames of one,
Continued(c) ==
  /\ (first[c] # None /\ Reading(c)) \/ pc[c] = "more" \/ Releasing(c, "more")
       => \E i \in Nat : Gathered(c, i, pos[c]) /\ script[c][pos[c]].more
  /\ pc[c] = "last" \/ Releasing(c, "last")
       => \E i \in Nat : Gathered(c, i, pos[c]) /\ ~script[c][pos[c]].more

\* while a frame is read,
Fetched(c) ==
  /\ pc[c] = "header" => frame[cur[c]].payload = NilSlice
  /\ pc[c] = "payload" => Room(c)

\* with a fragment at hand,
HasFragment(c) ==
  pc[c] = "fragment" =>
    /\ \E i \in Nat : Gathered(c, i, pos[c] - 1) /\ script[c][pos[c] - 1].more
    /\ script[c][pos[c]].len <= MaxFrameSize
    /\ frame[cur[c]].head = script[c][pos[c]]
    /\ Holds(c, frame[cur[c]].payload, pos[c], pos[c])

\* with a message for the handler,
HasMessage(c) == pc[c] = "dispatch" => \E i \in Nat : Complete(c, i)

\* while it is answered,
Answers(c) ==
  Answering(c) =>
    /\ Opened(c, pos[c] + 1) /\ Len(delivered[c]) > 0
    /\ Content(frame[first[c]].payload) = delivered[c][Len(delivered[c])]

\* and at the end.
Finished(c) ==
  /\ closed[c] => Releasing(c, "decode") \/ pc[c] = "end"
  /\ pc[c] = "end" => closed[c]
  /\ closed[c] \/ Releasing(c, "close")
       => fault[c] \/ delivered[c] = Framed[c][script[c]]

Progress(c) ==
  /\ NextIsNew(c) /\ Continued(c) /\ Fetched(c) /\ HasFragment(c)
  /\ HasMessage(c) /\ Answers(c) /\ Finished(c)

ContentTypes ==
  /\ array \in [Arrays -> Seq(Values)]
  /\ DOMAIN script = Conns /\ \A c \in Conns : script[c] \in Scripts[c]
  /\ pos \in [Conns -> Nat] /\ \A c \in Conns : pos[c] <= Len(script[c])
  /\ closed \in [Conns -> BOOLEAN] /\ fault \in [Conns -> BOOLEAN]
  /\ delivered \in [Conns -> Seq(Seq(Values))]
  /\ \A f \in Frames : idle[f] = 1 => frame[f].payload = NilSlice

ContentInv == ContentTypes /\ \A c \in Conns : Progress(c)

-----------------------------------------------------------------------------
(* The bytes of a run of frames                                            *)

\* Min of a set of natural numbers is its least element.
LEMMA LeastOfNats ==
  ASSUME NEW T, T \subseteq Nat, T # {}
  PROVE  Min(T) \in T /\ \A y \in T : Min(T) <= y
<1>1. PICK x \in T : \A y \in T : ~(<<y, x>> \in OpToRel(<, Nat))
  BY NatLessThanWellFounded, WFMin
<1>2. \A y \in T : ~(y < x)
  BY <1>1 DEF OpToRel
<1>3. \A y \in T : x <= y
  BY <1>2
<1> QED
  BY <1>3 DEF Min

\* Max of a bounded set of natural numbers is its largest element.
LEMMA LargestOfNats ==
  ASSUME NEW T, T \subseteq Nat, T # {}, NEW n \in Nat, \A x \in T : x <= n
  PROVE  Max(T) \in T /\ \A y \in T : Max(T) >= y
<1> DEFINE D == {n - x : x \in T}
<1>0. \A x \in T : x \in Nat /\ n - x \in Nat /\ n - x \in D
  OBVIOUS
<1>1. D \subseteq Nat /\ D # {}
  <2>1. D \subseteq Nat
    BY <1>0
  <2>2. PICK x \in T : TRUE
    OBVIOUS
  <2> QED
    BY <1>0, <2>1, <2>2
<1> HIDE DEF D
<1>2. Min(D) \in D /\ \A y \in D : Min(D) <= y
  BY <1>1, LeastOfNats
<1>3. PICK x \in T : Min(D) = n - x
  BY <1>2 DEF D
<1>4. ASSUME NEW y \in T PROVE x >= y
  <2>1. n - x <= n - y
    BY <1>0, <1>2, <1>3
  <2> QED
    BY <1>0, <2>1
<1> QED
  BY <1>4 DEF Max

\* Stated by members: a byte of the frames i to j.
LEMMA ByteOf ==
  ASSUME NEW c, NEW w, NEW i, NEW j, NEW b
  PROVE  b \in BytesOf(c, w, <<i, j>>) <=>
           \E f \in i .. j : \E k \in 1 .. w[f].len : b = <<c, f, k>>
  BY DEF BytesOf

\* One frame.
LEMMA SpellsFrame ==
  ASSUME NEW c, NEW w, NEW i \in Nat, w[i].len \in Nat
  PROVE  Spells(c, w, [k \in 1 .. w[i].len |-> <<c, i, k>>], i, i)
<1> DEFINE m == [k \in 1 .. w[i].len |-> <<c, i, k>>]
           B == BytesOf(c, w, <<i, i>>)
<1>1. \A b : b \in B <=> \E k \in 1 .. w[i].len : b = <<c, i, k>>
  BY ByteOf
<1>2. m \in Seq(B) /\ DOMAIN m = 1 .. w[i].len
  BY <1>1
<1>3. \A b \in B : \E n \in DOMAIN m : m[n] = b
  BY <1>1, <1>2
<1>4. \A n, k \in DOMAIN m : n < k => Before(m[n], m[k])
  BY <1>2 DEF Before
<1> QED
  BY <1>2, <1>3, <1>4 DEF Spells

\* An aggregate and the fragment that follows it.
LEMMA SpellsMore ==
  ASSUME NEW c, NEW w, NEW i \in Nat, NEW j \in Nat, i <= j,
         NEW m, Spells(c, w, m, i, j), NEW e, Spells(c, w, e, j + 1, j + 1),
         \A k \in i .. j + 1 : w[k].len \in Nat
  PROVE  Spells(c, w, m \o e, i, j + 1)
<1> DEFINE A == BytesOf(c, w, <<i, j>>)
           E == BytesOf(c, w, <<j + 1, j + 1>>)
           B == BytesOf(c, w, <<i, j + 1>>)
<1>1. B = A \cup E
  <2>1. i .. j + 1 = (i .. j) \cup (j + 1 .. j + 1)
    OBVIOUS
  <2> QED
    BY <2>1 DEF BytesOf
<1>2. /\ m \in Seq(A) /\ \A b \in A : \E n \in DOMAIN m : m[n] = b
      /\ \A n, k \in DOMAIN m : n < k => Before(m[n], m[k])
  BY DEF Spells
<1>3. /\ e \in Seq(E) /\ \A b \in E : \E n \in DOMAIN e : e[n] = b
      /\ \A n, k \in DOMAIN e : n < k => Before(e[n], e[k])
  BY DEF Spells
<1>4. \A a \in A, b \in E : Before(a, b)
  BY ByteOf DEF Before
<1> HIDE DEF A, E, B
<1>5. m \in Seq(B) /\ e \in Seq(B)
  BY <1>1, <1>2, <1>3
<1>6. /\ m \o e \in Seq(B) /\ Len(m \o e) = Len(m) + Len(e)
      /\ \A n \in 1 .. Len(m) : (m \o e)[n] = m[n]
      /\ \A n \in 1 .. Len(e) : (m \o e)[Len(m) + n] = e[n]
  BY <1>5
<1>7. /\ Len(m) \in Nat /\ Len(e) \in Nat /\ DOMAIN m = 1 .. Len(m) /\ DOMAIN e = 1 .. Len(e)
      /\ DOMAIN (m \o e) = 1 .. Len(m) + Len(e)
  BY <1>5, <1>6
<1>8. ASSUME NEW b \in B PROVE \E n \in DOMAIN (m \o e) : (m \o e)[n] = b
  <2>1. CASE b \in A
    <3>1. PICK n \in DOMAIN m : m[n] = b
      BY <1>2, <2>1
    <3> QED
      BY <3>1, <1>6, <1>7
  <2>2. CASE b \in E
    <3>1. PICK n \in DOMAIN e : e[n] = b
      BY <1>3, <2>2
    <3>2. Len(m) + n \in 1 .. Len(m) + Len(e)
      BY <3>1, <1>7
    <3> QED
      BY <3>1, <3>2, <1>6, <1>7
  <2> QED
    BY <1>1, <2>1, <2>2
<1>9. ASSUME NEW n \in DOMAIN (m \o e), NEW k \in DOMAIN (m \o e), n < k
      PROVE  Before((m \o e)[n], (m \o e)[k])
  <2>1. CASE k <= Len(m)
    BY <2>1, <1>2, <1>6, <1>7, <1>9
  <2>2. CASE n > Len(m)
    <3>1. n - Len(m) \in 1 .. Len(e) /\ k - Len(m) \in 1 .. Len(e)
      BY <2>2, <1>7, <1>9
    <3>2. (m \o e)[n] = e[n - Len(m)] /\ (m \o e)[k] = e[k - Len(m)]
      BY <3>1, <1>6, <1>7
    <3>3. n - Len(m) < k - Len(m)
      BY <1>7, <1>9
    <3> QED
      BY <3>1, <3>2, <3>3, <1>3, <1>7
  <2>3. CASE n <= Len(m) /\ k > Len(m)
    <3>1. n \in 1 .. Len(m) /\ k - Len(m) \in 1 .. Len(e)
      BY <2>3, <1>7, <1>9
    <3>2. (m \o e)[n] = m[n] /\ (m \o e)[k] = e[k - Len(m)]
      BY <3>1, <1>6, <1>7
    <3>3. m[n] \in A /\ e[k - Len(m)] \in E
      BY <3>1, <1>2, <1>3
    <3> QED
      BY <3>2, <3>3, <1>4
  <2> QED
    BY <2>1, <2>2, <2>3, <1>7
<1> QED
  BY <1>6, <1>8, <1>9 DEF Spells, B

\* The order of the wire.
LEMMA BeforeIsStrict ==
  ASSUME NEW c, NEW w, NEW i \in Nat, NEW j \in Nat, \A k \in i .. j : w[k].len \in Nat,
         NEW a \in BytesOf(c, w, <<i, j>>), NEW b \in BytesOf(c, w, <<i, j>>), Before(a, b)
  PROVE  a # b /\ ~Before(b, a)
<1>1. PICK f \in i .. j : \E k \in 1 .. w[f].len : a = <<c, f, k>>
  BY ByteOf
<1>2. PICK k \in 1 .. w[f].len : a = <<c, f, k>>
  BY <1>1
<1>3. PICK g \in i .. j : \E n \in 1 .. w[g].len : b = <<c, g, n>>
  BY ByteOf
<1>4. PICK n \in 1 .. w[g].len : b = <<c, g, n>>
  BY <1>3
<1>5. f \in Nat /\ g \in Nat /\ k \in Nat /\ n \in Nat
  BY <1>1, <1>2, <1>3, <1>4
<1> QED
  BY <1>2, <1>4, <1>5 DEF Before

\* What lists the bytes of a span in order is its message: there are as many
\* bytes as places, and the n-th has n - 1 before it.
LEMMA SpellsMessage ==
  ASSUME NEW c, NEW w, NEW i \in Nat, NEW j \in Nat, \A k \in i .. j : w[k].len \in Nat,
         NEW m, Spells(c, w, m, i, j)
  PROVE  /\ m = Message(c, w, <<i, j>>)
         /\ Len(m) = Cardinality(BytesOf(c, w, <<i, j>>))
         /\ IsFiniteSet(BytesOf(c, w, <<i, j>>))
<1> DEFINE B == BytesOf(c, w, <<i, j>>)
<1>1. /\ m \in Seq(B) /\ \A b \in B : \E n \in DOMAIN m : m[n] = b
      /\ \A n, k \in DOMAIN m : n < k => Before(m[n], m[k])
  BY DEF Spells
<1>2. \A a, b \in B : Before(a, b) => a # b /\ ~Before(b, a)
  BY BeforeIsStrict
<1> DEFINE L == Len(m)
<1>3. L \in Nat /\ DOMAIN m = 1 .. L /\ m \in [1 .. L -> B]
  BY <1>1
<1> HIDE DEF B, L
<1>4. \A n, k \in 1 .. L : m[n] = m[k] => n = k
  <2> SUFFICES ASSUME NEW n \in 1 .. L, NEW k \in 1 .. L, n < k PROVE m[n] # m[k]
    BY <1>3
  <2> QED
    BY <1>1, <1>2, <1>3
<1>5. m \in Bijection(1 .. L, B)
  BY <1>1, <1>3, <1>4 DEF Bijection, Injection, Surjection, IsInjective
<1>6. Cardinality(B) = L /\ IsFiniteSet(B)
  <2>1. ExistsBijection(1 .. L, B)
    BY <1>5 DEF ExistsBijection
  <2> QED
    BY <2>1, <1>3, FS_CountingElements, FS_NatBijection
<1> DEFINE Lower(b) == {a \in B : Before(a, b)}
<1>7. ASSUME NEW n \in 1 .. L PROVE Cardinality(Lower(m[n])) = n - 1
  <2> DEFINE low == [k \in 1 .. n - 1 |-> m[k]]
  <2>1. \A k \in 1 .. n - 1 : k \in 1 .. L /\ m[k] \in B /\ Before(m[k], m[n])
    BY <1>1, <1>3
  <2>2. low \in [1 .. n - 1 -> Lower(m[n])]
    BY <2>1
  <2>3. \A k, q \in 1 .. n - 1 : low[k] = low[q] => k = q
    BY <2>1, <1>4
  <2>4. ASSUME NEW b \in Lower(m[n]) PROVE \E k \in 1 .. n - 1 : low[k] = b
    <3>1. PICK k \in 1 .. L : m[k] = b
      BY <1>1, <1>3
    <3>2. Before(m[k], m[n]) /\ m[k] \in B /\ m[n] \in B
      BY <3>1, <1>3
    <3>3. k # n
      BY <3>2, <1>2
    <3>4. ~(n < k)
      BY <3>2, <1>1, <1>2, <1>3
    <3>5. k \in 1 .. n - 1
      BY <3>3, <3>4, <1>3
    <3> QED
      BY <3>1, <3>5
  <2>5. low \in Bijection(1 .. n - 1, Lower(m[n]))
    BY <2>2, <2>3, <2>4 DEF Bijection, Injection, Surjection, IsInjective
  <2> HIDE DEF low
  <2>6. ExistsBijection(1 .. n - 1, Lower(m[n]))
    BY <2>5 DEF ExistsBijection
  <2>7. n - 1 \in Nat
    BY <1>3
  <2> QED
    BY <2>6, <2>7, FS_CountingElements
<1>8. ASSUME NEW n \in 1 .. L
      PROVE  m[n] = CHOOSE b \in B : Cardinality(Lower(b)) = n - 1
  <2>1. m[n] \in B /\ Cardinality(Lower(m[n])) = n - 1
    BY <1>3, <1>7
  <2>2. ASSUME NEW b \in B, Cardinality(Lower(b)) = n - 1 PROVE b = m[n]
    <3>1. PICK k \in 1 .. L : m[k] = b
      BY <1>1, <1>3
    <3>2. k - 1 = n - 1
      BY <3>1, <2>2, <1>7
    <3> QED
      BY <3>1, <3>2, <1>3
  <2> QED
    BY <2>1, <2>2
<1>9. m = [n \in 1 .. L |-> CHOOSE b \in B : Cardinality(Lower(b)) = n - 1]
  BY <1>3, <1>8
<1> QED
  BY <1>6, <1>9 DEF Message, B, L

-----------------------------------------------------------------------------
(* The messages of a stream                                                *)

\* What is assumed of a stream.
LEMMA ScriptIs ==
  ASSUME NEW c \in Conns, NEW w \in Scripts[c]
  PROVE  /\ Len(w) \in Nat /\ DOMAIN w = 1 .. Len(w)
         /\ \A k \in 1 .. Len(w) : w[k].len \in Nat /\ w[k].more \in BOOLEAN
<1>1. w \in Seq(ToSet(w)) /\ \A k \in DOMAIN w : w[k].len \in Nat /\ w[k].more \in BOOLEAN
  BY ScriptsAssumption
<1>2. Len(w) \in Nat /\ DOMAIN w = 1 .. Len(w)
  BY <1>1
<1> QED
  BY <1>1, <1>2

\* Spans are pairs, and there are finitely many.
LEMMA SpanIs ==
  ASSUME NEW w, Len(w) \in Nat
  PROVE  /\ \A i, j : <<i, j>> \in Spans(w) <=>
              /\ i \in 1 .. Len(w) /\ j \in 1 .. Len(w) /\ i <= j
              /\ i = 1 \/ ~w[i - 1].more
              /\ ~w[j].more /\ \A k \in i .. j - 1 : w[k].more
         /\ \A s \in Spans(w) : s = <<s[1], s[2]>>
         /\ IsFiniteSet(Spans(w))
<1>1. \A s \in Spans(w) : s = <<s[1], s[2]>>
  BY DEF Spans
<1>2. ASSUME NEW i, NEW j
      PROVE  <<i, j>> \in Spans(w) <=>
               /\ i \in 1 .. Len(w) /\ j \in 1 .. Len(w) /\ i <= j
               /\ i = 1 \/ ~w[i - 1].more
               /\ ~w[j].more /\ \A k \in i .. j - 1 : w[k].more
  BY DEF Spans
<1>3. IsFiniteSet(Spans(w))
  <2>1. IsFiniteSet(1 .. Len(w))
    BY FS_Interval
  <2>2. IsFiniteSet((1 .. Len(w)) \X (1 .. Len(w)))
    BY <2>1, FS_Product
  <2>3. Spans(w) \in SUBSET ((1 .. Len(w)) \X (1 .. Len(w)))
    BY DEF Spans
  <2> QED
    BY <2>2, <2>3, FS_Subset
<1> QED
  BY <1>1, <1>2, <1>3

\* A span begins where no other does, and ends before the next begins.
LEMMA SpansApart ==
  ASSUME NEW c \in Conns, NEW w \in Scripts[c], NEW s \in Spans(w), NEW t \in Spans(w)
  PROVE  /\ s[1] \in 1 .. Len(w) /\ s[2] \in 1 .. Len(w) /\ s[1] <= s[2]
         /\ s[1] = t[1] => s = t
         /\ s[1] < t[1] => s[2] < t[1]
<1>0. Len(w) \in Nat
  BY ScriptIs
<1>1. PICK i, j : s = <<i, j>>
  BY <1>0, SpanIs
<1>2. PICK k, l : t = <<k, l>>
  BY <1>0, SpanIs
<1>3. /\ i \in 1 .. Len(w) /\ j \in 1 .. Len(w) /\ i <= j
      /\ i = 1 \/ ~w[i - 1].more
      /\ ~w[j].more /\ \A n \in i .. j - 1 : w[n].more
  BY <1>0, <1>1, SpanIs
<1>4. /\ k \in 1 .. Len(w) /\ l \in 1 .. Len(w) /\ k <= l
      /\ k = 1 \/ ~w[k - 1].more
      /\ ~w[l].more /\ \A n \in k .. l - 1 : w[n].more
  BY <1>0, <1>2, SpanIs
<1>5. ASSUME i = k PROVE j = l
  <2>1. ~(j < l)
    <3>1. j < l => j \in k .. l - 1
      BY <1>0, <1>3, <1>4, <1>5
    <3> QED
      BY <3>1, <1>3, <1>4
  <2>2. ~(l < j)
    <3>1. l < j => l \in i .. j - 1
      BY <1>0, <1>3, <1>4, <1>5
    <3> QED
      BY <3>1, <1>3, <1>4
  <2> QED
    BY <2>1, <2>2, <1>0, <1>3, <1>4
<1>6. ASSUME i < k PROVE j < k
  <2>1. k # 1 /\ ~w[k - 1].more
    BY <1>0, <1>3, <1>4, <1>6
  <2>2. k <= j => k - 1 \in i .. j - 1
    BY <1>0, <1>3, <1>4, <1>6
  <2> QED
    BY <2>1, <2>2, <1>0, <1>3, <1>4
<1> QED
  BY <1>1, <1>2, <1>3, <1>5, <1>6

\* Frames before the first that ends a message.
LEMMA RunEnds ==
  ASSUME NEW c \in Conns, NEW w \in Scripts[c], NEW i \in Nat, NEW q \in Nat, 1 <= i, i <= q,
         i = 1 \/ ~w[i - 1].more, \A k \in i .. q - 1 : w[k].more
  PROVE  /\ \A t \in Spans(w) : t[1] = i => q <= t[2]
         /\ \A t \in Spans(w) : t[1] > i => \E u \in Spans(w) : u[1] = i
         /\ q > Len(w) => \A t \in Spans(w) : t[1] < i
<1>0. Len(w) \in Nat
  BY ScriptIs
<1>1. \A t \in Spans(w) : /\ t = <<t[1], t[2]>>
                          /\ t[1] \in 1 .. Len(w) /\ t[2] \in 1 .. Len(w) /\ t[1] <= t[2]
                          /\ t[1] = 1 \/ ~w[t[1] - 1].more
                          /\ ~w[t[2]].more
  BY <1>0, SpanIs
<1>2. ASSUME NEW t \in Spans(w), t[1] = i PROVE q <= t[2]
  <2>1. t[2] < q => t[2] \in i .. q - 1
    BY <1>0, <1>1, <1>2
  <2> QED
    BY <2>1, <1>0, <1>1
<1>3. ASSUME NEW t \in Spans(w), t[1] > i PROVE \E u \in Spans(w) : u[1] = i
  <2> DEFINE ends == {k \in i .. Len(w) : ~w[k].more}
  <2>1. t[1] - 1 \in ends
    BY <1>0, <1>1, <1>3
  <2>2. ends \subseteq Nat
    BY <1>0
  <2>3. PICK e \in ends : \A y \in ends : e <= y
    BY <2>1, <2>2, LeastOfNats
  <2>4. e \in i .. Len(w) /\ ~w[e].more
    BY <2>3
  <2>5. \A k \in i .. e - 1 : k \in i .. Len(w) /\ k < e
    BY <1>0, <2>4
  <2>6. \A k \in i .. e - 1 : w[k].more
    BY <2>3, <2>5
  <2>7. i \in 1 .. Len(w) /\ e \in 1 .. Len(w) /\ i <= e
    BY <1>0, <2>4
  <2>8. <<i, e>> \in Spans(w)
    BY <2>4, <2>6, <2>7, <1>0, SpanIs
  <2> QED
    BY <2>8
<1>4. ASSUME q > Len(w), NEW t \in Spans(w) PROVE t[1] < i
  <2>1. t[1] >= i => t[2] \in i .. q - 1
    BY <1>0, <1>1, <1>4
  <2> QED
    BY <2>1, <1>0, <1>1
<1> QED
  BY <1>2, <1>3, <1>4

\* The length of what Messages lists.
LEMMA FramedIs ==
  ASSUME NEW c \in Conns, NEW w \in Scripts[c]
  PROVE  /\ IsFiniteSet(Good(c, w)) /\ Cardinality(Good(c, w)) \in Nat
         /\ Len(Framed[c][w]) = Cardinality(Good(c, w))
         /\ DOMAIN Framed[c][w] = 1 .. Cardinality(Good(c, w))
         /\ Framed[c][w] = [n \in 1 .. Cardinality(Good(c, w)) |-> Framed[c][w][n]]
         /\ Framed[c][w] = [n \in 1 .. Cardinality(Good(c, w)) |->
              Message(c, w, CHOOSE s \in Good(c, w) :
                              Cardinality({t \in Good(c, w) : t[1] < s[1]}) = n - 1)]
<1>0. Len(w) \in Nat
  BY ScriptIs
<1>1. IsFiniteSet(Spans(w))
  BY <1>0, SpanIs
<1>2. Good(c, w) \in SUBSET Spans(w)
  BY DEF Good
<1>3. IsFiniteSet(Good(c, w)) /\ Cardinality(Good(c, w)) \in Nat
  BY <1>1, <1>2, FS_Subset, FS_CardinalityType
<1> DEFINE N == Cardinality(Good(c, w))
           M(n) == Message(c, w, CHOOSE s \in Good(c, w) :
                              Cardinality({t \in Good(c, w) : t[1] < s[1]}) = n - 1)
<1>4. Framed[c][w] = [n \in 1 .. N |-> M(n)]
  BY DEF Framed, Messages
<1> HIDE DEF M, N
<1>7. DOMAIN Framed[c][w] = 1 .. N /\ Framed[c][w] = [n \in 1 .. N |-> Framed[c][w][n]]
  BY <1>4
<1>5. Framed[c][w] \in [1 .. N -> {M(n) : n \in 1 .. N}] /\ N \in Nat
  BY <1>3, <1>4 DEF N
<1>6. Len(Framed[c][w]) = N
  BY <1>5
<1> QED
  BY <1>3, <1>4, <1>6, <1>7 DEF M, N

\* The message after those of the spans before i is that of the span at i.
LEMMA NextMessage ==
  ASSUME NEW c \in Conns, NEW w \in Scripts[c]
  PROVE  \A i, p, n :
           /\ <<i, p>> \in Spans(w) /\ Legal(c, w, <<i, p>>)
           /\ \A t \in Spans(w) : t[1] < i => Legal(c, w, t)
           /\ n = Cardinality({t \in Spans(w) : t[1] < i})
           => /\ n \in Nat /\ n + 1 <= Len(Framed[c][w])
              /\ Framed[c][w][n + 1] = Message(c, w, <<i, p>>)
              /\ Cardinality({t \in Spans(w) : t[1] < p + 1}) = n + 1
              /\ \A t \in Spans(w) : t[1] < p + 1 => Legal(c, w, t)
<1> SUFFICES ASSUME NEW i, NEW p, NEW n, <<i, p>> \in Spans(w), Legal(c, w, <<i, p>>),
                    \A t \in Spans(w) : t[1] < i => Legal(c, w, t),
                    n = Cardinality({t \in Spans(w) : t[1] < i})
             PROVE  /\ n \in Nat /\ n + 1 <= Len(Framed[c][w])
                    /\ Framed[c][w][n + 1] = Message(c, w, <<i, p>>)
                    /\ Cardinality({t \in Spans(w) : t[1] < p + 1}) = n + 1
                    /\ \A t \in Spans(w) : t[1] < p + 1 => Legal(c, w, t)
  OBVIOUS
<1> DEFINE s == <<i, p>>
           G == Good(c, w)
           L == {t \in Spans(w) : t[1] < i}
<1>0. /\ Len(w) \in Nat /\ IsFiniteSet(Spans(w)) /\ i \in Nat /\ p \in Nat /\ i <= p
      /\ s \in Spans(w) /\ s[1] = i /\ s[2] = p
  <2>1. Len(w) \in Nat
    BY ScriptIs
  <2>2. IsFiniteSet(Spans(w)) /\ i \in 1 .. Len(w) /\ p \in 1 .. Len(w) /\ i <= p
    BY <2>1, SpanIs
  <2> QED
    BY <2>1, <2>2
<1>1. \A t \in Spans(w) : /\ t[1] \in Nat /\ (t[1] = i => t = s)
                          /\ (t[1] > i => p < t[1]) /\ (t[1] < i => t[1] < p)
  <2> SUFFICES ASSUME NEW t \in Spans(w)
               PROVE  /\ t[1] \in Nat /\ (t[1] = i => t = s)
                      /\ (t[1] > i => p < t[1]) /\ (t[1] < i => t[1] < p)
    OBVIOUS
  <2>1. t[1] \in 1 .. Len(w) /\ (s[1] = t[1] => s = t) /\ (s[1] < t[1] => s[2] < t[1])
    BY <1>0, SpansApart
  <2> QED
    BY <1>0, <2>1
<1> HIDE DEF s
<1>2. \A t \in Spans(w) : t[1] <= i => Legal(c, w, t)
  BY <1>0, <1>1 DEF s
<1>3. s \in G /\ L \subseteq G /\ s \notin L
  BY <1>0, <1>1, <1>2 DEF Good
<1>4. IsFiniteSet(G) /\ Len(Framed[c][w]) = Cardinality(G) /\ Cardinality(G) \in Nat
  BY FramedIs
<1>5. IsFiniteSet(L) /\ n \in Nat
  <2>1. L \in SUBSET Spans(w)
    OBVIOUS
  <2> QED
    BY <1>0, <2>1, FS_Subset, FS_CardinalityType
<1>6. IsFiniteSet(L \cup {s}) /\ Cardinality(L \cup {s}) = n + 1
  BY <1>3, <1>5, FS_AddElement
<1>7. n + 1 <= Cardinality(G)
  <2>1. L \cup {s} \in SUBSET G
    BY <1>3
  <2> QED
    BY <1>4, <1>6, <2>1, FS_Subset
<1> DEFINE Lower(u) == {t \in G : t[1] < u[1]}
<1>8. \A u \in G : u \in Spans(w)
  BY DEF Good
<1>9. Lower(s) = L
  BY <1>0, <1>3, <1>8
<1> HIDE DEF G
<1>10. ASSUME NEW u \in G, Cardinality(Lower(u)) = n PROVE u = s
  <2>1. u[1] \in Nat /\ u \in Spans(w)
    BY <1>1, <1>8
  <2>2. CASE u[1] < i
    <3>1. Lower(u) \in SUBSET L /\ u \in L /\ u \notin Lower(u)
      BY <1>0, <1>1, <1>8, <2>1, <2>2
    <3>2. Cardinality(L) = Cardinality(Lower(u)) => L = Lower(u)
      BY <1>5, <3>1, FS_Subset
    <3> QED
      BY <1>10, <3>1, <3>2
  <2>3. CASE u[1] > i
    <3>1. L \cup {s} \in SUBSET Lower(u)
      BY <1>0, <1>1, <1>3, <2>1, <2>3
    <3>2. IsFiniteSet(Lower(u))
      <4>1. Lower(u) \in SUBSET G
        OBVIOUS
      <4> QED
        BY <1>4, <4>1, FS_Subset
    <3>3. Cardinality(L \cup {s}) <= Cardinality(Lower(u))
      BY <3>1, <3>2, FS_Subset
    <3> QED
      BY <1>5, <1>6, <1>10, <3>3
  <2> QED
    BY <1>0, <1>1, <2>1, <2>2, <2>3
<1>11. s = CHOOSE u \in G : Cardinality(Lower(u)) = (n + 1) - 1
  <2>1. (n + 1) - 1 = n
    BY <1>5
  <2>2. s \in G /\ Cardinality(Lower(s)) = n
    BY <1>3, <1>9
  <2> QED
    BY <1>10, <2>1, <2>2
<1>12. Framed[c][w][n + 1] = Message(c, w, s)
  <2>1. n + 1 \in 1 .. Cardinality(G)
    BY <1>4, <1>5, <1>7
  <2>2. Framed[c][w] = [k \in 1 .. Cardinality(G) |->
                          Message(c, w, CHOOSE u \in G : Cardinality(Lower(u)) = k - 1)]
    BY FramedIs DEF G
  <2> QED
    BY <1>11, <2>1, <2>2
<1>13. {t \in Spans(w) : t[1] < p + 1} = L \cup {s}
  <2>1. \A t \in Spans(w) : t[1] < p + 1 <=> t[1] < i \/ t = s
    BY <1>0, <1>1
  <2> QED
    BY <1>0, <2>1
<1>14. \A t \in Spans(w) : t[1] < p + 1 => Legal(c, w, t)
  BY <1>2, <1>13, <1>0
<1> QED
  BY <1>4, <1>5, <1>6, <1>7, <1>12, <1>13, <1>14 DEF s

\* A stream whose message at i is missing or illegal has no more messages.
LEMMA NoMoreMessages ==
  ASSUME NEW c \in Conns, NEW w \in Scripts[c], NEW i \in Nat,
         \A t \in Spans(w) : t[1] < i => Legal(c, w, t),
         \A t \in Spans(w) : t[1] = i => ~Legal(c, w, t),
         \A t \in Spans(w) : t[1] > i => \E u \in Spans(w) : u[1] = i
  PROVE  Len(Framed[c][w]) = Cardinality({t \in Spans(w) : t[1] < i})
<1>0. \A t \in Spans(w) : t[1] \in Nat
  <2> SUFFICES ASSUME NEW t \in Spans(w) PROVE t[1] \in Nat
    OBVIOUS
  <2>1. t[1] \in 1 .. Len(w)
    BY SpansApart
  <2> QED
    BY <2>1
<1>1. ASSUME NEW t \in Spans(w), t[1] < i PROVE t \in Good(c, w)
  <2>1. \A u \in Spans(w) : u[1] <= t[1] => u[1] < i
    BY <1>0, <1>1
  <2> QED
    BY <2>1, <1>1 DEF Good
<1>2. ASSUME NEW t \in Good(c, w) PROVE t[1] < i
  <2>1. t \in Spans(w) /\ \A u \in Spans(w) : u[1] <= t[1] => Legal(c, w, u)
    BY DEF Good
  <2>2. t[1] # i
    BY <1>0, <2>1
  <2>3. ~(t[1] > i)
    <3> SUFFICES ASSUME t[1] > i PROVE FALSE
      OBVIOUS
    <3>1. PICK u \in Spans(w) : u[1] = i
      BY <2>1
    <3> QED
      BY <1>0, <2>1, <3>1
  <2> QED
    BY <1>0, <2>1, <2>2, <2>3
<1>3. Good(c, w) = {t \in Spans(w) : t[1] < i}
  BY <1>1, <1>2 DEF Good
<1> QED
  BY <1>3, FramedIs

\* The bytes of a run are finite in number, and more frames have no fewer.
LEMMA BytesGrow ==
  ASSUME NEW c, NEW w, NEW i \in Nat, NEW p \in Nat, NEW e \in Nat, p <= e,
         \A k \in i .. e : w[k].len \in Nat
  PROVE  /\ IsFiniteSet(BytesOf(c, w, <<i, e>>))
         /\ Cardinality(BytesOf(c, w, <<i, p>>)) <= Cardinality(BytesOf(c, w, <<i, e>>))
<1> DEFINE F(k) == {<<c, k, n>> : n \in 1 .. w[k].len}
           all == {F(k) : k \in i .. e}
<1>1. BytesOf(c, w, <<i, e>>) = UNION all
  BY DEF BytesOf
<1>2. IsFiniteSet(all)
  <2> DEFINE f == [k \in i .. e |-> F(k)]
  <2>1. f \in Surjection(i .. e, all)
    BY DEF Surjection
  <2>2. IsFiniteSet(i .. e)
    BY FS_Interval
  <2> HIDE DEF f, all
  <2> QED
    BY <2>1, <2>2, FS_Surjection
<1>3. ASSUME NEW k \in i .. e PROVE IsFiniteSet(F(k))
  <2> DEFINE f == [n \in 1 .. w[k].len |-> <<c, k, n>>]
  <2>1. f \in Surjection(1 .. w[k].len, F(k))
    BY DEF Surjection
  <2>2. w[k].len \in Nat
    BY <1>3
  <2>3. IsFiniteSet(1 .. w[k].len)
    BY <2>2, FS_Interval
  <2> HIDE DEF f, F
  <2> QED
    BY <2>1, <2>3, FS_Surjection
<1>4. IsFiniteSet(UNION all)
  <2>1. \A T \in all : IsFiniteSet(T)
    BY <1>3
  <2> HIDE DEF all
  <2> QED
    BY <1>2, <2>1, FS_UNION
<1>5. BytesOf(c, w, <<i, p>>) \in SUBSET BytesOf(c, w, <<i, e>>)
  BY DEF BytesOf
<1> QED
  BY <1>1, <1>4, <1>5, FS_Subset

-----------------------------------------------------------------------------
(* Arrays and size classes                                                 *)

\* The first of two sequences can be read back from both.
LEMMA FirstPart ==
  ASSUME NEW S, NEW u \in Seq(S), NEW v \in Seq(S)
  PROVE  /\ u \o v \in Seq(S) /\ Len(u \o v) = Len(u) + Len(v)
         /\ SubSeq(u \o v, 1, Len(u)) = u
  OBVIOUS

\* What Append adds comes last.
LEMMA LastPart ==
  ASSUME NEW S, NEW u \in Seq(S), NEW x \in S, NEW n, n = Len(u)
  PROVE  /\ Append(u, x) \in Seq(S) /\ Len(Append(u, x)) = n + 1 /\ Append(u, x)[n + 1] = x
         /\ \A k \in 1 .. n : Append(u, x)[k] = u[k]
  OBVIOUS

\* What is written over the beginning of an array can be read back.
LEMMA OverIs ==
  ASSUME NEW S, NEW old \in Seq(S), NEW bytes \in Seq(S)
  PROVE  /\ Over(old, bytes) \in Seq(S)
         /\ Len(bytes) <= Len(old) =>
              Len(Over(old, bytes)) = Len(old) /\ SubSeq(Over(old, bytes), 1, Len(bytes)) = bytes
<1> DEFINE rest == SubSeq(old, Len(bytes) + 1, Len(old))
<1>1. rest \in Seq(S) /\ (Len(bytes) <= Len(old) => Len(rest) = Len(old) - Len(bytes))
  OBVIOUS
<1> HIDE DEF rest
<1>2. /\ bytes \o rest \in Seq(S) /\ Len(bytes \o rest) = Len(bytes) + Len(rest)
      /\ SubSeq(bytes \o rest, 1, Len(bytes)) = bytes
  BY <1>1
<1> QED
  BY <1>1, <1>2 DEF Over, rest

\* What append leaves in an array with room for k bytes.
InPlace(old, n, bytes, k) == SubSeq(old, 1, n) \o bytes \o SubSeq(old, k + 1, Len(old))

\* What append writes in place follows what was there.
LEMMA InPlaceIs ==
  ASSUME NEW S, NEW old \in Seq(S), NEW bytes \in Seq(S), NEW n \in Nat,
         NEW k \in Nat, k = n + Len(bytes), k <= Len(old)
  PROVE  /\ InPlace(old, n, bytes, k) \in Seq(S) /\ Len(InPlace(old, n, bytes, k)) = Len(old)
         /\ SubSeq(InPlace(old, n, bytes, k), 1, k) = SubSeq(old, 1, n) \o bytes
<1> DEFINE a == SubSeq(old, 1, n)
           b == a \o bytes
           r == SubSeq(old, k + 1, Len(old))
<1>0. Len(bytes) \in Nat /\ Len(old) \in Nat
  OBVIOUS
<1>1. a \in Seq(S) /\ Len(a) = n
  BY <1>0
<1>2. r \in Seq(S) /\ Len(r) = Len(old) - k
  BY <1>0
<1> HIDE DEF a, r
<1>3. b \in Seq(S) /\ Len(b) = k
  BY <1>0, <1>1
<1> HIDE DEF b
<1>4. b \o r \in Seq(S) /\ Len(b \o r) = Len(b) + Len(r) /\ SubSeq(b \o r, 1, Len(b)) = b
  BY <1>2, <1>3, FirstPart
<1>5. InPlace(old, n, bytes, k) = b \o r
  BY DEF InPlace, a, b, r
<1>6. SubSeq(InPlace(old, n, bytes, k), 1, k) = b
  BY <1>3, <1>4, <1>5
<1>7. Len(InPlace(old, n, bytes, k)) = Len(old)
  <2>1. Len(InPlace(old, n, bytes, k)) = Len(b) + Len(r)
    BY <1>4, <1>5
  <2>2. Len(InPlace(old, n, bytes, k)) = k + (Len(old) - k)
    BY <1>2, <1>3, <2>1
  <2>3. \A x, z \in Nat : x + (z - x) = z
    OBVIOUS
  <2> QED
    BY <1>0, <2>2, <2>3
<1> QED
  BY <1>4, <1>5, <1>6, <1>7 DEF a, b

\* The class of a size is large enough for it.
LEMMA ClassFits ==
  ASSUME NEW n \in Nat, 0 < n, n <= MaxFrameSize
  PROVE  /\ ClassIndexForSize(n) \in 1 .. Len(Classes)
         /\ n <= Classes[ClassIndexForSize(n)]
<1> DEFINE fits == {i \in 1 .. Len(Classes) : n <= Classes[i]}
<1>1. Classes \in Seq(Nat \ {0}) /\ Len(Classes) > 0
  BY ClassesAssumption
<1>2. Len(Classes) \in fits /\ fits \subseteq Nat
  BY <1>1 DEF MaxFrameSize
<1>3. Min(fits) \in fits
  BY <1>2, LeastOfNats
<1>4. ClassIndexForSize(n) = Min(fits)
  BY <1>2 DEF ClassIndexForSize
<1> QED
  BY <1>3, <1>4

\* An array is parked with a class it is large enough for.
LEMMA ShelfFits ==
  ASSUME NEW cap, NEW i \in 1 .. Len(Classes), ClassIndexForCap(cap) = i
  PROVE  Classes[i] <= cap
<1> DEFINE serves == {k \in 1 .. Len(Classes) : Classes[k] <= cap}
<1>0. Len(Classes) \in Nat
  BY ClassesAssumption
<1>1. serves # {} /\ i = Max(serves)
  BY <1>0 DEF ClassIndexForCap
<1>2. serves \subseteq Nat /\ \A x \in serves : x <= Len(Classes)
  BY <1>0
<1>3. Max(serves) \in serves
  BY <1>0, <1>1, <1>2, LargestOfNats
<1> QED
  BY <1>1, <1>3

\* make: an array of zero bytes.
LEMMA ZeroesAre ==
  ASSUME NEW n \in Int
  PROVE  /\ [k \in 1 .. n |-> ZeroByte] \in Seq(Values)
         /\ n \in Nat => Len([k \in 1 .. n |-> ZeroByte]) = n
<1>1. ZeroByte \in Values
  BY DEF Values
<1> HIDE DEF Values
<1>2. CASE n \in Nat
  BY <1>1, <1>2
<1>3. CASE n \notin Nat
  <2>1. 1 .. n = 1 .. 0
    BY <1>3
  <2>2. [k \in 1 .. 0 |-> ZeroByte] \in Seq(Values)
    BY <1>1
  <2> QED
    BY <1>3, <2>1, <2>2
<1> QED
  BY <1>2, <1>3

\* make hands out an array that begins with the bytes written to it.
LEMMA MadeArray ==
  ASSUME array \in [Arrays -> Seq(Values)], NEW a \in Arrays, NEW size \in Int,
         NEW bytes \in Seq(Values), Allocate(a, size, bytes)
  PROVE  /\ array' \in [Arrays -> Seq(Values)]
         /\ \A b \in Arrays \ {a} : array'[b] = array[b]
         /\ size \in Nat /\ Len(bytes) <= size =>
              Len(array'[a]) = size /\ SubSeq(array'[a], 1, Len(bytes)) = bytes
<1> DEFINE z == [k \in 1 .. size |-> ZeroByte]
<1>1. z \in Seq(Values) /\ (size \in Nat => Len(z) = size)
  BY ZeroesAre
<1>2. array' = [array EXCEPT ![a] = Over(z, bytes)]
  BY DEF Allocate
<1> HIDE DEF z
<1>3. /\ Over(z, bytes) \in Seq(Values)
      /\ Len(bytes) <= Len(z) =>
           Len(Over(z, bytes)) = Len(z) /\ SubSeq(Over(z, bytes), 1, Len(bytes)) = bytes
  BY <1>1, OverIs
<1> QED
  BY <1>1, <1>2, <1>3

\* getPayload hands out an array that is large enough for its class and begins
\* with the bytes written to it.
LEMMA GotArray ==
  ASSUME array \in [Arrays -> Seq(Values)], NEW a \in Arrays, NEW i \in 1 .. Len(Classes),
         NEW bytes \in Seq(Values), GetPayload(a, i, bytes)
  PROVE  /\ array' \in [Arrays -> Seq(Values)]
         /\ \A b \in Arrays \ {a} : array'[b] = array[b]
         /\ Len(bytes) <= Classes[i] =>
              Classes[i] <= Len(array'[a]) /\ SubSeq(array'[a], 1, Len(bytes)) = bytes
<1>0. Classes[i] \in Nat
  BY ClassesAssumption
<1>1. CASE Allocate(a, Classes[i], bytes)
  BY <1>0, <1>1, MadeArray
<1>2. CASE a \in Shelf(i) /\ array' = [array EXCEPT ![a] = Over(@, bytes)]
  <2>1. Classes[i] <= Len(array[a])
    BY <1>2, ShelfFits DEF Shelf
  <2>2. /\ Over(array[a], bytes) \in Seq(Values)
        /\ Len(bytes) <= Len(array[a]) =>
             /\ Len(Over(array[a], bytes)) = Len(array[a])
             /\ SubSeq(Over(array[a], bytes), 1, Len(bytes)) = bytes
    BY OverIs
  <2>3. Len(bytes) \in Nat /\ Len(array[a]) \in Nat
    OBVIOUS
  <2> QED
    BY <1>0, <1>2, <2>1, <2>2, <2>3
<1> QED
  BY <1>1, <1>2 DEF GetPayload

\* A release leaves zero bytes in the arrays it names, and nothing else changes.
LEMMA PutArrays ==
  ASSUME array \in [Arrays -> Seq(Values)], NEW arrs, PutPayloads(arrs)
  PROVE  /\ array' \in [Arrays -> Seq(Values)]
         /\ \A a \in Arrays : a \notin ToSet(arrs) => array'[a] = array[a]
<1>1. ASSUME NEW a \in Arrays PROVE array'[a] \in Seq(Values)
  <2>1. Len(array[a]) \in Nat
    OBVIOUS
  <2>2. [k \in 1 .. Len(array[a]) |-> ZeroByte] \in Seq(Values)
    BY <2>1, ZeroesAre
  <2> QED
    BY <2>2 DEF PutPayloads
<1>2. array' = [a \in Arrays |-> array'[a]]
  BY DEF PutPayloads
<1> QED
  BY <1>1, <1>2 DEF PutPayloads

-----------------------------------------------------------------------------
(* A step and the other connections                                        *)

\* Everything a connection has of its own, but for the bytes, is as it was.
Idles(d) ==
  /\ cur'[d] = cur[d] /\ first'[d] = first[d] /\ drops'[d] = drops[d]
  /\ buf'[d] = buf[d] /\ outs'[d] = outs[d] /\ pc'[d] = pc[d] /\ after'[d] = after[d]
  /\ script'[d] = script[d] /\ pos'[d] = pos[d]
  /\ closed'[d] = closed[d] /\ fault'[d] = fault[d] /\ delivered'[d] = delivered[d]

\* A step changes no other connection and no frame object of another one.
LEMMA StepMoves ==
  ASSUME PoolInv, ContentTypes, NEW c \in Conns, Step(c), NEW d \in Conns \ {c}
  PROVE  Idles(d) /\ \A f \in FrameRefs(d) : frame'[f] = frame[f]
<1>0. PoolTypes /\ Held(c) /\ Owned
  BY DEF PoolInv
<1>1. /\ DOMAIN pc = Conns /\ DOMAIN after = Conns /\ DOMAIN cur = Conns /\ DOMAIN first = Conns
      /\ DOMAIN drops = Conns /\ DOMAIN buf = Conns /\ DOMAIN outs = Conns
      /\ DOMAIN pos = Conns /\ DOMAIN closed = Conns /\ DOMAIN fault = Conns
      /\ DOMAIN delivered = Conns /\ DOMAIN frame = Frames
  BY <1>0 DEF PoolTypes, ContentTypes
<1>2. /\ \A f \in FrameRefs(d) : f \notin FrameRefs(c) /\ f \in Frames /\ idle[f] = 0
      /\ cur[c] # None => cur[c] \in FrameRefs(c)
      /\ first[c] # None => first[c] \in FrameRefs(c)
  <2>1. FrameRefs(d) \subseteq Frames
    BY <1>0 DEF FrameRefs, PoolTypes, ToSet
  <2>2. \A f \in FrameRefs(d) : f \notin FrameRefs(c) /\ idle[f] = 0
    BY <1>0 DEF Owned
  <2> QED
    BY <2>1, <2>2 DEF FrameRefs
<1>3. CASE AcquireFrame(c)
  <2>1. Idles(d)
    BY <1>1, <1>3 DEF AcquireFrame, Goto, Idles, replyVars
  <2>2. PICK f \in Frames :
          /\ \/ idle[f] > 0 \/ f \in FreshFrame
          /\ \E v : frame' = [frame EXCEPT ![f] = v]
    BY <1>3 DEF AcquireFrame
  <2>3. f \notin FrameRefs(d)
    <3>1. f \in FreshFrame => f \notin UNION {FrameRefs(e) : e \in Conns}
      BY GarbageIsUnused DEF FreshFrame
    <3>2. idle[f] > 0 => f \notin FrameRefs(d)
      BY <1>2
    <3> QED
      BY <2>2, <3>1, <3>2
  <2> QED
    BY <1>1, <2>1, <2>2, <2>3
<1>4. CASE ReadHeader(c)
  <2>1. Idles(d)
    BY <1>1, <1>4 DEF ReadHeader, Goto, Idles, replyVars, decodeVars
  <2>2. cur[c] \in FrameRefs(c)
    BY <1>0, <1>2, <1>4 DEF ReadHeader, Held
  <2>3. \A f \in Frames \ {cur[c]} : frame'[f] = frame[f]
    BY <1>1, <1>4 DEF ReadHeader
  <2> QED
    BY <1>2, <2>1, <2>2, <2>3
<1>5. CASE ReadFails(c) \/ HeaderRefused(c) \/ StreamViolation(c) \/ StreamTooLarge(c)
  <2>1. frame' = frame
    BY <1>5 DEF ReadFails, HeaderRefused, StreamViolation, StreamTooLarge, poolVars
  <2>2. Idles(d)
    BY <1>1, <1>5 DEF ReadFails, HeaderRefused, StreamViolation, StreamTooLarge, DecodeFails,
                      Goto, Idles, replyVars
  <2> QED
    BY <2>1, <2>2
<1>6. CASE ReadPayload(c)
  BY <1>1, <1>6 DEF ReadPayload, Goto, Idles, replyVars
<1>7. CASE AppendFragment(c)
  BY <1>1, <1>7 DEF AppendFragment, AppendTo, Goto, Idles, replyVars
<1>8. CASE Assembled(c)
  <2>1. Idles(d)
    BY <1>1, <1>8 DEF Assembled, Goto, Idles, replyVars
  <2>2. first[c] \in FrameRefs(c)
    BY <1>0, <1>2, <1>8 DEF Assembled, Held
  <2>3. \A f \in Frames \ {first[c]} : frame'[f] = frame[f]
    BY <1>1, <1>8 DEF Assembled
  <2> QED
    BY <1>2, <2>1, <2>2, <2>3
<1>9. CASE Release(c)
  <2>1. Idles(d)
    BY <1>1, <1>9 DEF Release, Idles, replyVars, decodeVars
  <2>2. Head(drops[c]) \in FrameRefs(c)
    <3>1. drops[c] \in Seq(Frames) /\ drops[c] # <<>>
      BY <1>0, <1>9 DEF Release, PoolTypes
    <3>2. Head(drops[c]) \in ToSet(drops[c]) /\ Head(drops[c]) \in Frames
      BY <3>1 DEF ToSet
    <3> QED
      BY <3>2, NoneAssumption DEF FrameRefs
  <2>3. \A f \in Frames \ {Head(drops[c])} : frame'[f] = frame[f]
    BY <1>1, <1>9 DEF Release, poolVars
  <2> QED
    BY <1>2, <2>1, <2>2, <2>3
<1>10. CASE Released(c)
  BY <1>1, <1>10 DEF Released, Goto, Idles, replyVars, decodeVars, poolVars
<1>11. CASE \/ Handle(c) \/ EncodeFails(c) \/ WriteJoined(c) \/ WriteFails(c)
            \/ ExceptionCloses(c)
  <2>1. frame' = frame
    BY <1>11 DEF Handle, EncodeFails, WriteJoined, WriteFails, ExceptionCloses, poolVars
  <2>2. Idles(d)
    BY <1>1, <1>11 DEF Handle, EncodeFails, WriteJoined, WriteFails, ExceptionCloses,
                       AfterDispatch, Goto, Idles, replyVars, decodeVars
  <2> QED
    BY <2>1, <2>2
<1>12. CASE HandlerPanics(c)
  <2>1. Idles(d)
    BY <1>1, <1>12 DEF HandlerPanics, Goto, Idles, replyVars
  <2>2. first[c] \in FrameRefs(c)
    BY <1>0, <1>2, <1>12 DEF HandlerPanics, Held
  <2>3. \A f \in Frames \ {first[c]} : frame'[f] = frame[f]
    BY <1>1, <1>12 DEF HandlerPanics
  <2> QED
    BY <1>2, <2>1, <2>2, <2>3
<1>13. CASE EncodeFrame(c)
  BY <1>1, <1>13 DEF EncodeFrame, Goto, Idles, decodeVars
<1>14. CASE JoinFragments(c) \/ WriteSingle(c)
  BY <1>1, <1>14 DEF JoinFragments, WriteSingle, PutOuts, Goto, Idles, decodeVars, poolVars
<1>15. CASE FreeSingle(c)
  BY <1>1, <1>15 DEF FreeSingle, PutOuts, AfterDispatch, Goto, Idles
<1> QED
  BY <1>3, <1>4, <1>5, <1>6, <1>7, <1>8, <1>9, <1>10, <1>11, <1>12, <1>13, <1>14, <1>15 DEF Step

\* Bytes that stay in place.
LEMMA HoldsKept ==
  ASSUME NEW c \in Conns, NEW s, NEW i, NEW j, Holds(c, s, i, j), script'[c] = script[c],
         s.arr # None => array'[s.arr] = array[s.arr]
  PROVE  Holds(c, s, i, j)'
<1>1. Content(s)' = Content(s)
  BY DEF Content
<1>2. Within(s)'
  BY DEF Holds, Within
<1> QED
  BY <1>1, <1>2 DEF Holds, Spells

\* What was dispatched stays so.
LEMMA OpenedKept ==
  ASSUME NEW c \in Conns, NEW i, Opened(c, i), script'[c] = script[c],
         delivered'[c] = delivered[c]
  PROVE  Opened(c, i)'
  BY DEF Opened

\* An aggregate that is left alone.
LEMMA GatheredKept ==
  ASSUME NEW c \in Conns, NEW i, NEW j, Gathered(c, i, j), script'[c] = script[c],
         delivered'[c] = delivered[c], buf'[c] = buf[c],
         buf[c].arr # None => array'[buf[c].arr] = array[buf[c].arr],
         frame'[first'[c]].head.id = frame[first[c]].head.id,
         frame'[first'[c]].head.type = frame[first[c]].head.type
  PROVE  Gathered(c, i, j)'
<1>1. Opened(c, i)'
  BY OpenedKept DEF Gathered
<1>2. Holds(c, buf[c], i, j)
  BY DEF Gathered
<1>3. ASSUME NEW s, s = buf[c] PROVE Holds(c, s, i, j)'
  BY <1>2, <1>3, HoldsKept
<1>4. Holds(c, buf[c], i, j)'
  BY <1>3 DEF Holds, Within, Content
<1> QED
  BY <1>1, <1>4 DEF Gathered, Run

\* A connection whose frame objects and bytes are left alone is where it was.
LEMMA SameProgress ==
  ASSUME PoolInv, NEW d \in Conns, Progress(d), Idles(d),
         \A f \in FrameRefs(d) : frame'[f] = frame[f],
         \A a \in ArrayRefs(d) : array'[a] = array[a]
  PROVE  Progress(d)'
<1>0. Held(d)
  BY DEF PoolInv
<1>1. /\ script'[d] = script[d] /\ pos'[d] = pos[d] /\ delivered'[d] = delivered[d]
      /\ pc'[d] = pc[d] /\ after'[d] = after[d] /\ first'[d] = first[d] /\ cur'[d] = cur[d]
      /\ buf'[d] = buf[d] /\ closed'[d] = closed[d] /\ fault'[d] = fault[d]
  BY DEF Idles
<1>2. buf[d].arr # None => array'[buf[d].arr] = array[buf[d].arr]
  BY RefersIs DEF Refers
<1>3. ASSUME NEW f \in {cur[d], first[d]}, f # None
      PROVE  /\ frame'[f] = frame[f]
             /\ frame[f].payload.arr # None =>
                  array'[frame[f].payload.arr] = array[frame[f].payload.arr]
  <2>1. f \in FrameRefs(d)
    BY <1>3 DEF FrameRefs
  <2>2. frame[f].payload.arr # None => frame[f].payload.arr \in ArraysOf(f)
    BY DEF ArraysOf
  <2> QED
    BY <2>1, <2>2, RefersIs DEF Refers
<1>4. ASSUME NEW i, Opened(d, i) PROVE Opened(d, i)'
  BY <1>1, <1>4, OpenedKept
<1>5. ASSUME NEW i, NEW j, first[d] # None, Gathered(d, i, j) PROVE Gathered(d, i, j)'
  BY <1>1, <1>2, <1>3, <1>5, GatheredKept
<1>6. ASSUME NEW f \in {cur[d], first[d]}, f # None
      PROVE  /\ Content(frame[f].payload)' = Content(frame[f].payload)
             /\ Within(frame[f].payload) => Within(frame[f].payload)'
  BY <1>3, <1>6 DEF Content, Within
<1>8. /\ pc[d] \in {"header", "payload", "fragment"} => cur[d] # None
      /\ pc[d] \in {"fragment", "more", "last", "dispatch", "encode", "join", "write", "free", "broken"}
           => first[d] # None
      /\ pc[d] = "release" => (first[d] # None <=> after[d] \in {"more", "last"})
  BY <1>0 DEF Held
<1>10. /\ NextIsNew(d) /\ Continued(d) /\ Fetched(d) /\ HasFragment(d)
       /\ HasMessage(d) /\ Answers(d) /\ Finished(d)
  BY DEF Progress
<1>11. NextIsNew(d)'
  <2>1. Opened(d, pos[d] + 1) => Opened(d, pos[d] + 1)'
    BY <1>1, <1>4 DEF Opened
  <2> QED
    BY <1>1, <1>10, <2>1 DEF NextIsNew, Reading, Releasing
<1>12. ASSUME NEW i, NEW q, Gathered(d, i, q), first[d] # None
       PROVE  /\ q = pos[d] => Gathered(d, i, pos[d])'
              /\ q = pos[d] - 1 => Gathered(d, i, pos[d] - 1)'
  <2>1. Gathered(d, i, q)'
    BY <1>5, <1>12
  <2> QED
    BY <1>1, <2>1 DEF Gathered, Run, Holds
<1>13. Continued(d)'
  BY <1>1, <1>8, <1>10, <1>12 DEF Continued, Reading, Releasing
<1>14. Fetched(d)'
  <2>1. pc[d] = "header" => frame'[cur'[d]].payload = NilSlice
    BY <1>1, <1>3, <1>8, <1>10 DEF Fetched
  <2>2. pc[d] = "payload" => Room(d)'
    BY <1>1, <1>3, <1>6, <1>8, <1>10 DEF Fetched, Room
  <2> QED
    BY <1>1, <2>1, <2>2 DEF Fetched, NilSlice
<1>15. HasFragment(d)'
  <2> SUFFICES ASSUME pc[d] = "fragment"
               PROVE  /\ (\E i \in Nat : Gathered(d, i, pos[d] - 1) /\ script[d][pos[d] - 1].more)'
                      /\ (script[d][pos[d]].len <= MaxFrameSize)'
                      /\ (frame[cur[d]].head = script[d][pos[d]])'
                      /\ Holds(d, frame[cur[d]].payload, pos[d], pos[d])'
    BY <1>1 DEF HasFragment
  <2>0. /\ \E i \in Nat : Gathered(d, i, pos[d] - 1) /\ script[d][pos[d] - 1].more
        /\ script[d][pos[d]].len <= MaxFrameSize
        /\ frame[cur[d]].head = script[d][pos[d]]
        /\ Holds(d, frame[cur[d]].payload, pos[d], pos[d])
    BY <1>10 DEF HasFragment
  <2>1. (\E i \in Nat : Gathered(d, i, pos[d] - 1) /\ script[d][pos[d] - 1].more)'
    BY <1>1, <1>8, <1>12, <2>0
  <2>2. Holds(d, frame[cur[d]].payload, pos[d], pos[d])'
    BY <1>1, <1>3, <1>8, <2>0 DEF Holds, Content, Within
  <2> QED
    BY <1>1, <1>3, <1>8, <2>0, <2>1, <2>2
<1>16. HasMessage(d)'
  <2> SUFFICES ASSUME pc[d] = "dispatch", NEW i \in Nat, Complete(d, i) PROVE Complete(d, i)'
    BY <1>1, <1>10 DEF HasMessage
  <2>1. Opened(d, i)'
    BY <1>4 DEF Complete
  <2>2. Holds(d, frame[first[d]].payload, i, pos[d])'
    BY <1>1, <1>3, <1>8 DEF Complete, Holds, Content, Within
  <2> QED
    BY <1>1, <2>1, <2>2 DEF Complete, Run
<1>17. Answers(d)'
  <2>1. Opened(d, pos[d] + 1) => Opened(d, pos[d] + 1)'
    BY <1>1, <1>4 DEF Opened
  <2>2. Answering(d) => Content(frame[first[d]].payload)' = Content(frame[first[d]].payload)
    BY <1>1, <1>3, <1>8 DEF Answering, Content
  <2> QED
    BY <1>1, <1>10, <2>1, <2>2 DEF Answers, Answering
<1>18. Finished(d)'
  BY <1>1, <1>10 DEF Finished, Releasing
<1> QED
  BY <1>11, <1>13, <1>14, <1>15, <1>16, <1>17, <1>18 DEF Progress

-----------------------------------------------------------------------------
(* What a slice holds                                                      *)

\* Where the goroutine is, and what it holds there.
LEMMA ContentOf ==
  ASSUME ContentInv, NEW c \in Conns
  PROVE  /\ ContentTypes /\ Progress(c)
         /\ script[c] \in Scripts[c] /\ pos[c] \in Nat /\ pos[c] <= Len(script[c])
         /\ Len(script[c]) \in Nat /\ closed[c] \in BOOLEAN /\ fault[c] \in BOOLEAN
         /\ delivered[c] \in Seq(Seq(Values))
         /\ \A k \in 1 .. Len(script[c]) : script[c][k].len \in Nat /\ script[c][k].more \in BOOLEAN
         /\ pc[c] \notin {"release", "end"} => ~closed[c]
<1>1. ContentTypes /\ Progress(c)
  BY DEF ContentInv
<1>2. /\ script[c] \in Scripts[c] /\ pos[c] \in Nat /\ pos[c] <= Len(script[c])
      /\ closed[c] \in BOOLEAN /\ fault[c] \in BOOLEAN /\ delivered[c] \in Seq(Seq(Values))
  BY <1>1 DEF ContentTypes
<1>3. /\ Len(script[c]) \in Nat
      /\ \A k \in 1 .. Len(script[c]) : script[c][k].len \in Nat /\ script[c][k].more \in BOOLEAN
  BY <1>2, ScriptIs
<1>4. closed[c] => pc[c] = "release" \/ pc[c] = "end"
  BY <1>1 DEF Progress, Finished, Releasing
<1> QED
  BY <1>1, <1>2, <1>3, <1>4

\* A slice within its array.
LEMMA ContentIs ==
  ASSUME array \in [Arrays -> Seq(Values)], NEW s, s.arr \in Arrays \cup {None}, Within(s)
  PROVE  Content(s) \in Seq(Values) /\ Len(Content(s)) = s.len
<1>1. CASE s.arr = None
  <2>1. s.len = 0 /\ Content(s) = <<>>
    BY <1>1 DEF Within, Content
  <2> QED
    BY <2>1
<1>2. CASE s.arr # None
  <2>1. array[s.arr] \in Seq(Values) /\ s.len \in Nat /\ s.len <= Len(array[s.arr])
    BY <1>2 DEF Within
  <2>2. SubSeq(array[s.arr], 1, s.len) \in Seq(Values)
        /\ Len(SubSeq(array[s.arr], 1, s.len)) = s.len
    BY <2>1
  <2> QED
    BY <1>2, <2>2 DEF Content
<1> QED
  BY <1>1, <1>2

\* What a slice holds has the slice's length, and is the message of its frames.
LEMMA HeldBytes ==
  ASSUME PoolInv, ContentInv, NEW c \in Conns, NEW s, s.arr \in Arrays \cup {None},
         NEW i \in Nat, NEW p \in Nat, Run(script[c], i, p), Holds(c, s, i, p)
  PROVE  /\ Content(s) \in Seq(Values) /\ Len(Content(s)) = s.len
         /\ Cardinality(BytesOf(c, script[c], <<i, p>>)) = s.len
         /\ Content(s) = Message(c, script[c], <<i, p>>)
<1>1. Within(s) /\ Spells(c, script[c], Content(s), i, p)
  BY DEF Holds
<1>2. array \in [Arrays -> Seq(Values)]
  BY DEF ContentInv, ContentTypes
<1>3. \A k \in i .. p : script[c][k].len \in Nat
  <2>1. \A k \in i .. p : k \in 1 .. Len(script[c])
    BY ContentOf DEF Run
  <2> QED
    BY <2>1, ContentOf
<1>4. Content(s) \in Seq(Values) /\ Len(Content(s)) = s.len
  BY <1>1, <1>2, ContentIs
<1> QED
  BY <1>1, <1>3, <1>4, SpellsMessage

-----------------------------------------------------------------------------
(* The error returns                                                       *)

\* No message of the stream is left.
LEMMA AllDispatched ==
  ASSUME ContentInv, NEW c \in Conns, NEW i \in Nat, Opened(c, i),
         \A t \in Spans(script[c]) : t[1] = i => ~Legal(c, script[c], t),
         \A t \in Spans(script[c]) : t[1] > i => \E u \in Spans(script[c]) : u[1] = i
  PROVE  delivered[c] = Framed[c][script[c]]
<1> DEFINE w == script[c]
           m == Framed[c][w]
           N == Cardinality(Good(c, w))
<1>1. w \in Scripts[c] /\ delivered[c] \in Seq(Seq(Values))
  BY ContentOf
<1>2. /\ Len(delivered[c]) = Cardinality({t \in Spans(w) : t[1] < i})
      /\ \A t \in Spans(w) : t[1] < i => Legal(c, w, t)
      /\ \A n \in 1 .. Len(delivered[c]) : delivered[c][n] = m[n]
  BY DEF Opened
<1>3. Len(m) = Len(delivered[c])
  BY <1>1, <1>2, NoMoreMessages
<1>4. Len(m) = N /\ DOMAIN m = 1 .. N /\ m = [n \in 1 .. N |-> m[n]]
  BY <1>1, FramedIs
<1>5. delivered[c] = [n \in 1 .. Len(delivered[c]) |-> delivered[c][n]]
  <2>1. delivered[c] \in [1 .. Len(delivered[c]) -> Seq(Values)]
    BY <1>1
  <2> QED
    BY <2>1
<1> HIDE DEF m, N, w
<1>6. delivered[c] = [n \in 1 .. Len(delivered[c]) |-> m[n]]
  BY <1>2, <1>5
<1> QED
  BY <1>3, <1>4, <1>6 DEF m, w

\* The stream breaks off between the frames of a message or after the last one.
LEMMA RunsOut ==
  ASSUME ContentInv, NEW c \in Conns, NEW i \in Nat, Opened(c, i),
         \A k \in i .. Len(script[c]) : script[c][k].more
  PROVE  delivered[c] = Framed[c][script[c]]
<1>1. script[c] \in Scripts[c] /\ Len(script[c]) \in Nat
  BY ContentOf
<1>2. 1 <= i /\ i <= Len(script[c]) + 1 /\ (i = 1 \/ ~script[c][i - 1].more)
  BY <1>1 DEF Opened
<1>3. PICK q \in Nat : q = Len(script[c]) + 1
  BY <1>1
<1>4. \A t \in Spans(script[c]) : t[1] < i
  <2>1. i <= q /\ q > Len(script[c]) /\ q - 1 = Len(script[c])
    BY <1>1, <1>2, <1>3
  <2>2. \A k \in i .. q - 1 : script[c][k].more
    BY <2>1
  <2> QED
    BY <1>1, <1>2, <2>1, <2>2, RunEnds
<1>5. \A t \in Spans(script[c]) : t[1] # i /\ ~(t[1] > i)
  <2> SUFFICES ASSUME NEW t \in Spans(script[c]) PROVE t[1] # i /\ ~(t[1] > i)
    OBVIOUS
  <2>1. t[1] \in 1 .. Len(script[c])
    BY <1>1, SpansApart
  <2> QED
    BY <1>1, <1>4, <2>1
<1> QED
  BY <1>5, AllDispatched

\* A frame of the message breaks a rule.
LEMMA FrameBreaks ==
  ASSUME ContentInv, NEW c \in Conns, NEW i \in Nat, NEW q \in Nat, Opened(c, i),
         i <= q, q <= Len(script[c]), \A k \in i .. q - 1 : script[c][k].more,
         \/ script[c][q].len > MaxFrameSize
         \/ script[c][q].id # script[c][i].id \/ script[c][q].type # script[c][i].type
  PROVE  delivered[c] = Framed[c][script[c]]
<1> DEFINE w == script[c]
<1>1. /\ w \in Scripts[c] /\ Len(w) \in Nat
      /\ \A k \in 1 .. Len(w) : w[k].len \in Nat
  BY ContentOf
<1>2. 1 <= i /\ (i = 1 \/ ~w[i - 1].more)
  BY <1>1 DEF Opened
<1>3. /\ \A t \in Spans(w) : t[1] = i => q <= t[2]
      /\ \A t \in Spans(w) : t[1] > i => \E u \in Spans(w) : u[1] = i
  BY <1>1, <1>2, RunEnds
<1>4. ASSUME NEW t \in Spans(w), t[1] = i PROVE ~Legal(c, w, t)
  <2>1. t[2] \in 1 .. Len(w)
    BY <1>1, SpansApart
  <2>2. q \in t[1] .. t[2]
    BY <1>1, <1>3, <1>4, <2>1
  <2>3. w[q].len \in Nat /\ MaxFrameSize \in Nat
    BY <1>1, <1>2, ClassesAssumption DEF MaxFrameSize
  <2> QED
    BY <1>4, <2>2, <2>3 DEF Legal
<1> QED
  BY <1>3, <1>4, AllDispatched

\* The frames so far are more than a stream may have.
LEMMA BytesExceed ==
  ASSUME ContentInv, NEW c \in Conns, NEW i \in Nat, NEW p \in Nat, Opened(c, i),
         Run(script[c], i, p), Cardinality(BytesOf(c, script[c], <<i, p>>)) > MaxStreamSize
  PROVE  delivered[c] = Framed[c][script[c]]
<1> DEFINE w == script[c]
<1>1. /\ w \in Scripts[c] /\ Len(w) \in Nat
      /\ \A k \in 1 .. Len(w) : w[k].len \in Nat
  BY ContentOf
<1>2. /\ 1 <= i /\ (i = 1 \/ ~w[i - 1].more) /\ i <= p /\ p <= Len(w)
      /\ \A k \in i .. p - 1 : w[k].more
  BY <1>1 DEF Opened, Run
<1>3. /\ \A t \in Spans(w) : t[1] = i => p <= t[2]
      /\ \A t \in Spans(w) : t[1] > i => \E u \in Spans(w) : u[1] = i
  BY <1>1, <1>2, RunEnds
<1>4. ASSUME NEW t \in Spans(w), t[1] = i PROVE ~Legal(c, w, t)
  <2>1. t[2] \in 1 .. Len(w) /\ p <= t[2]
    BY <1>1, <1>3, <1>4, SpansApart
  <2>2. \A k \in i .. t[2] : w[k].len \in Nat
    BY <1>1, <1>2, <2>1
  <2>3. t = <<i, t[2]>>
    BY <1>1, <1>4, SpanIs
  <2>4. t[2] \in Nat
    BY <1>1, <2>1
  <2>5. /\ IsFiniteSet(BytesOf(c, w, <<i, t[2]>>))
        /\ Cardinality(BytesOf(c, w, <<i, p>>)) <= Cardinality(BytesOf(c, w, <<i, t[2]>>))
    BY <2>1, <2>2, <2>4, BytesGrow
  <2>6. IsFiniteSet(BytesOf(c, w, <<i, p>>))
    <3>1. \A k \in i .. p : w[k].len \in Nat
      BY <1>1, <1>2
    <3> QED
      BY <3>1, BytesGrow
  <2>7. Cardinality(BytesOf(c, w, <<i, p>>)) \in Nat /\ Cardinality(BytesOf(c, w, <<i, t[2]>>)) \in Nat
    BY <2>5, <2>6, FS_CardinalityType
  <2>8. ~(Cardinality(BytesOf(c, w, <<i, t[2]>>)) <= MaxStreamSize)
    BY <2>5, <2>7, SizesAssumption
  <2> QED
    BY <2>3, <2>8 DEF Legal
<1> QED
  BY <1>3, <1>4, AllDispatched

\* An error return ends the stream: with a fault, or after its last message.
LEMMA FailsProgress ==
  ASSUME PoolInv, ContentInv, NEW c \in Conns, DecodeFails(c),
         pc[c] \in {"header", "payload", "fragment", "more", "last"},
         UNCHANGED <<script, pos, array, frame, idle, closed, delivered>>,
         fault' \in [Conns -> BOOLEAN],
         fault'[c] \/ delivered[c] = Framed[c][script[c]]
  PROVE  ContentTypes' /\ Progress(c)'
<1>1. /\ DOMAIN pc = Conns /\ DOMAIN after = Conns /\ DOMAIN first = Conns
  BY DEF PoolInv, PoolTypes
<1>2. pc'[c] = "release" /\ after'[c] = "close" /\ first'[c] = None
  BY <1>1 DEF DecodeFails, Goto
<1>3. ~closed'[c]
  BY ContentOf
<1>4. ContentTypes'
  BY ContentOf DEF ContentTypes
<1>5. NextIsNew(c)' /\ Continued(c)'
  BY <1>2 DEF NextIsNew, Continued, Reading, Releasing
<1>6. Fetched(c)' /\ HasFragment(c)' /\ HasMessage(c)' /\ Answers(c)'
  BY <1>2 DEF Fetched, HasFragment, HasMessage, Answers, Answering
<1>7. Finished(c)'
  BY <1>2, <1>3 DEF Finished, Releasing
<1> QED
  BY <1>4, <1>5, <1>6, <1>7 DEF Progress

\* Each of them.
LEMMA ErrorProgress ==
  ASSUME PoolInv, ContentInv, NEW c \in Conns,
         ReadFails(c) \/ HeaderRefused(c) \/ StreamViolation(c) \/ StreamTooLarge(c)
  PROVE  ContentTypes' /\ Progress(c)'
<1> DEFINE w == script[c]
           p == pos[c]
<1>0. /\ p \in Nat /\ p <= Len(w) /\ Len(w) \in Nat /\ fault \in [Conns -> BOOLEAN]
      /\ \A k \in 1 .. Len(w) : w[k].len \in Nat /\ w[k].more \in BOOLEAN
  BY ContentOf DEF ContentTypes
<1>1. /\ NextIsNew(c) /\ Continued(c) /\ Fetched(c) /\ HasFragment(c)
  BY ContentOf DEF Progress
<1>2. pc[c] \in {"header", "payload"} =>
        \E i \in Nat : Opened(c, i) /\ i <= p + 1 /\ \A k \in i .. p : w[k].more
  <2> SUFFICES ASSUME pc[c] \in {"header", "payload"}
               PROVE  \E i \in Nat : Opened(c, i) /\ i <= p + 1 /\ \A k \in i .. p : w[k].more
    OBVIOUS
  <2>1. CASE first[c] = None
    <3>1. Opened(c, p + 1)
      BY <1>1, <2>1 DEF NextIsNew, Reading
    <3>2. p + 1 \in Nat /\ p + 1 <= p + 1 /\ \A k \in p + 1 .. p : w[k].more
      BY <1>0
    <3> QED
      BY <3>1, <3>2
  <2>2. CASE first[c] # None
    <3>1. PICK i \in Nat : Gathered(c, i, p) /\ w[p].more
      BY <1>1, <2>2 DEF Continued, Reading
    <3>2. Opened(c, i) /\ i <= p /\ \A k \in i .. p - 1 : w[k].more
      BY <1>0, <3>1 DEF Gathered, Run
    <3>3. \A k \in i .. p : k = p \/ k \in i .. p - 1
      BY <1>0
    <3>4. \A k \in i .. p : w[k].more
      BY <3>1, <3>2, <3>3
    <3> QED
      BY <1>0, <3>2, <3>4
  <2> QED
    BY <2>1, <2>2
<1>3. CASE ReadFails(c)
  <2>1. /\ pc[c] \in {"header", "payload"} /\ DecodeFails(c)
        /\ fault' = [fault EXCEPT ![c] = @ \/ ~AtEnd(c)]
        /\ UNCHANGED <<script, pos, array, frame, idle, closed, delivered>>
    BY <1>3 DEF ReadFails, poolVars
  <2>2. fault' \in [Conns -> BOOLEAN] /\ (~AtEnd(c) => fault'[c])
    BY <1>0, <2>1
  <2>3. AtEnd(c) => delivered[c] = Framed[c][script[c]]
    <3> SUFFICES ASSUME AtEnd(c) PROVE delivered[c] = Framed[c][script[c]]
      OBVIOUS
    <3>1. PICK i \in Nat : Opened(c, i) /\ \A k \in i .. p : w[k].more
      BY <1>2, <2>1
    <3>2. p = Len(w)
      BY DEF AtEnd
    <3> QED
      BY <3>1, <3>2, RunsOut
  <2> QED
    BY <2>1, <2>2, <2>3, FailsProgress
<1>4. CASE HeaderRefused(c)
  <2>1. /\ pc[c] = "header" /\ DecodeFails(c) /\ ~AtEnd(c) /\ Wire(c).len > MaxFrameSize
        /\ UNCHANGED <<script, pos, array, frame, idle, closed, delivered, fault>>
    BY <1>4 DEF HeaderRefused, poolVars
  <2>2. PICK i \in Nat : Opened(c, i) /\ i <= p + 1 /\ \A k \in i .. p : w[k].more
    BY <1>2, <2>1
  <2>3. p + 1 \in Nat /\ p + 1 <= Len(w) /\ w[p + 1].len > MaxFrameSize /\ (p + 1) - 1 = p
    BY <1>0, <2>1 DEF AtEnd, Wire
  <2>4. delivered[c] = Framed[c][script[c]]
    BY <2>2, <2>3, FrameBreaks
  <2> QED
    BY <1>0, <2>1, <2>4, FailsProgress
<1>5. CASE StreamViolation(c)
  <2>1. /\ pc[c] = "fragment" /\ DecodeFails(c)
        /\ ~Continues(frame[cur[c]].head, frame[first[c]].head)
        /\ UNCHANGED <<script, pos, array, frame, idle, closed, delivered, fault>>
    BY <1>5 DEF StreamViolation, poolVars
  <2>2. PICK i \in Nat : Gathered(c, i, p - 1) /\ w[p - 1].more
    BY <1>1, <2>1 DEF HasFragment
  <2>3. frame[cur[c]].head = w[p]
    BY <1>1, <2>1 DEF HasFragment
  <2>4. /\ Opened(c, i) /\ i <= p - 1 /\ \A k \in i .. (p - 1) - 1 : w[k].more
        /\ w[p].id # w[i].id \/ w[p].type # w[i].type
    BY <1>0, <2>1, <2>2, <2>3 DEF Gathered, Run, Continues
  <2>5. \A k \in i .. p - 1 : k = p - 1 \/ k \in i .. (p - 1) - 1
    BY <1>0
  <2>6. \A k \in i .. p - 1 : w[k].more
    BY <2>2, <2>4, <2>5
  <2>7. i <= p
    BY <1>0, <2>4
  <2>8. delivered[c] = Framed[c][script[c]]
    BY <1>0, <2>4, <2>6, <2>7, FrameBreaks
  <2> QED
    BY <1>0, <2>1, <2>8, FailsProgress
<1>6. CASE StreamTooLarge(c)
  <2>1. /\ pc[c] \in {"more", "last"} /\ DecodeFails(c) /\ buf[c].len > MaxStreamSize
        /\ UNCHANGED <<script, pos, array, frame, idle, closed, delivered, fault>>
    BY <1>6 DEF StreamTooLarge, poolVars, TooLarge
  <2>2. PICK i \in Nat : Gathered(c, i, p)
    BY <1>1, <2>1 DEF Continued
  <2>3. Opened(c, i) /\ Run(w, i, p) /\ Holds(c, buf[c], i, p)
    BY <2>2 DEF Gathered
  <2>4. Cardinality(BytesOf(c, w, <<i, p>>)) = buf[c].len
    <3>1. buf[c].arr \in Arrays \cup {None}
      BY DEF PoolInv, PoolTypes, IsSlice
    <3> QED
      BY <1>0, <2>3, <3>1, HeldBytes
  <2>5. delivered[c] = Framed[c][script[c]]
    BY <1>0, <2>1, <2>3, <2>4, BytesExceed
  <2> QED
    BY <1>0, <2>1, <2>5, FailsProgress
<1> QED
  BY <1>3, <1>4, <1>5, <1>6

-----------------------------------------------------------------------------
(* Reading a frame                                                         *)

\* The frame object taken from the pool has no payload.
LEMMA AcquireFrameProgress ==
  ASSUME PoolInv, ContentInv, NEW c \in Conns, AcquireFrame(c)
  PROVE  ContentTypes' /\ Progress(c)'
<1>0. PoolTypes /\ Owned /\ Held(c) /\ ContentTypes /\ Progress(c) /\ ~closed[c]
  BY ContentOf DEF PoolInv, AcquireFrame
<1>1. PICK f \in Frames :
        /\ \/ idle[f] > 0 /\ idle' = [idle EXCEPT ![f] = @ - 1]
                          /\ frame' = [frame EXCEPT ![f].live = TRUE]
           \/ f \in FreshFrame /\ idle' = [idle EXCEPT ![f] = 0]
                               /\ frame' = [frame EXCEPT ![f] = [ZeroFrame EXCEPT !.live = TRUE]]
        /\ cur' = [cur EXCEPT ![c] = f]
  BY DEF AcquireFrame
<1>2. /\ pc[c] = "decode" /\ pc' = [pc EXCEPT ![c] = "header"]
      /\ UNCHANGED <<script, pos, first, buf, array, after, drops, closed, fault, delivered>>
  BY DEF AcquireFrame, Goto
<1>3. pc'[c] = "header" /\ cur'[c] = f
  BY <1>0, <1>1, <1>2 DEF PoolTypes
<1>4. \A d \in Conns : f \notin FrameRefs(d)
  <2>1. f \in FreshFrame => f \notin UNION {FrameRefs(e) : e \in Conns}
    BY GarbageIsUnused DEF FreshFrame
  <2>2. idle[f] > 0 => \A d \in Conns : f \notin FrameRefs(d)
    BY <1>0 DEF Owned, PoolTypes
  <2> QED
    BY <1>1, <2>1, <2>2
<1>5. /\ \A g \in Frames \ {f} : frame'[g] = frame[g] /\ idle'[g] = idle[g]
      /\ idle'[f] = 0
  <2>1. idle \in [Frames -> {0, 1}] /\ DOMAIN frame = Frames
    BY <1>0 DEF PoolTypes
  <2>2. \A g \in Frames \ {f} : frame'[g] = frame[g] /\ idle'[g] = idle[g]
    BY <1>1, <2>1
  <2>3. idle'[f] = 0
    BY <1>1, <2>1
  <2> QED
    BY <2>2, <2>3
<1>6. frame'[f].payload = NilSlice
  <2>1. CASE idle[f] > 0 /\ frame' = [frame EXCEPT ![f].live = TRUE]
    <3>1. frame[f].payload = NilSlice
      BY <1>0, <2>1 DEF ContentTypes, PoolTypes
    <3>2. frame[f] = [head |-> frame[f].head, payload |-> frame[f].payload,
                      cell |-> frame[f].cell, live |-> frame[f].live]
      BY <1>0 DEF PoolTypes, IsFrame
    <3>3. frame'[f].payload = frame[f].payload
      BY <1>0, <2>1, <3>2 DEF PoolTypes
    <3> QED
      BY <3>1, <3>3
  <2>2. CASE frame' = [frame EXCEPT ![f] = [ZeroFrame EXCEPT !.live = TRUE]]
    BY <1>0, <2>2 DEF PoolTypes, ZeroFrame
  <2> QED
    BY <1>1, <2>1, <2>2
<1>7. ContentTypes'
  <2>0. \A g \in Frames : idle[g] = 1 => frame[g].payload = NilSlice
    BY <1>0 DEF ContentTypes
  <2>1. ASSUME NEW g \in Frames, idle'[g] = 1 PROVE frame'[g].payload = NilSlice
    <3>1. g # f
      BY <1>5, <2>1
    <3> QED
      BY <1>5, <2>0, <2>1, <3>1
  <2> QED
    BY <1>0, <1>2, <2>1 DEF ContentTypes, NilSlice
<1>8. NextIsNew(c)'
  <2>1. first[c] = None => Opened(c, pos[c] + 1)
    BY <1>0, <1>2 DEF Progress, NextIsNew, Reading
  <2> QED
    BY <1>2, <2>1 DEF NextIsNew, Opened
<1>9. Continued(c)'
  <2> SUFFICES ASSUME first[c] # None
               PROVE  \E i \in Nat : Gathered(c, i, pos[c])' /\ script[c][pos[c]].more
    BY <1>2, <1>3 DEF Continued, Releasing
  <2>1. PICK i \in Nat : Gathered(c, i, pos[c]) /\ script[c][pos[c]].more
    BY <1>0, <1>2 DEF Progress, Continued, Reading
  <2>2. first[c] \in FrameRefs(c) /\ first[c] \in Frames
    BY <1>0 DEF FrameRefs, PoolTypes
  <2>3. frame'[first'[c]] = frame[first[c]]
    BY <1>2, <1>4, <1>5, <2>2
  <2>4. ASSUME NEW p, p = pos[c] PROVE Gathered(c, i, p)'
    BY <1>2, <2>1, <2>3, <2>4, GatheredKept
  <2>5. Gathered(c, i, pos[c])'
    BY <1>2, <2>4 DEF Gathered, Run, Holds
  <2> QED
    BY <2>1, <2>5
<1>10. Fetched(c)' /\ HasFragment(c)' /\ HasMessage(c)' /\ Answers(c)' /\ Finished(c)'
  <2>1. Fetched(c)'
    BY <1>3, <1>6 DEF Fetched, NilSlice
  <2>2. HasFragment(c)' /\ HasMessage(c)' /\ Answers(c)'
    BY <1>3 DEF HasFragment, HasMessage, Answers, Answering
  <2>3. Finished(c)'
    BY <1>0, <1>2, <1>3 DEF Finished, Releasing
  <2> QED
    BY <2>1, <2>2, <2>3
<1> QED
  BY <1>7, <1>8, <1>9, <1>10 DEF Progress

\* The buffer acquired for the payload has room for it, and is not one that holds
\* the aggregate.
LEMMA ReadHeaderProgress ==
  ASSUME PoolInv, ContentInv, NEW c \in Conns, ReadHeader(c)
  PROVE  ContentTypes' /\ Progress(c)'
<1>0. /\ PoolTypes /\ Owned /\ Held(c) /\ Separate(c) /\ ContentTypes /\ Progress(c)
      /\ ~closed[c] /\ pos[c] \in Nat /\ pos[c] <= Len(script[c]) /\ Len(script[c]) \in Nat
      /\ \A k \in 1 .. Len(script[c]) : script[c][k].len \in Nat
  BY ContentOf DEF PoolInv, ReadHeader
<1> DEFINE n == script[c][pos[c] + 1].len
           o == cur[c]
<1>1. /\ pc[c] = "header" /\ pos[c] < Len(script[c]) /\ n <= MaxFrameSize /\ n \in Nat
      /\ pc' = [pc EXCEPT ![c] = "payload"] /\ pc'[c] = "payload"
      /\ UNCHANGED <<script, pos, cur, first, buf, idle, after, drops, closed, fault, delivered>>
  <2>1. /\ pc[c] = "header" /\ pos[c] # Len(script[c]) /\ n <= MaxFrameSize
        /\ pc' = [pc EXCEPT ![c] = "payload"]
        /\ UNCHANGED <<script, pos, cur, first, buf, idle, after, drops, closed, fault, delivered>>
    BY DEF ReadHeader, Goto, decodeVars, AtEnd, Wire
  <2>2. pc'[c] = "payload"
    BY <1>0, <2>1 DEF PoolTypes
  <2>3. pos[c] < Len(script[c]) /\ pos[c] + 1 \in 1 .. Len(script[c])
    BY <1>0, <2>1
  <2>4. n \in Nat
    BY <1>0, <2>3
  <2> QED
    BY <2>1, <2>2, <2>3, <2>4
<1>2. o \in Frames /\ o # first[c] /\ idle[o] = 0 /\ frame[o].payload = NilSlice
  BY <1>0, <1>1, NoneAssumption
  DEF Held, Separate, PoolTypes, Owned, FrameRefs, Progress, Fetched
<1>3. frame[o] = [head |-> frame[o].head, payload |-> frame[o].payload,
                  cell |-> frame[o].cell, live |-> frame[o].live]
  BY <1>0, <1>2 DEF PoolTypes, IsFrame
<1>4. /\ \A f \in Frames \ {o} : frame'[f] = frame[f]
      /\ array' \in [Arrays -> Seq(Values)]
      /\ \A d \in Conns : \A a \in ArrayRefs(d) : a \in Arrays => array'[a] = array[a]
      /\ frame'[o].head = script[c][pos[c] + 1]
      /\ frame'[o].payload.len = n /\ (n > 0 => frame'[o].payload.arr \in Arrays)
      /\ IF frame'[o].payload.arr = None THEN n = 0 ELSE n <= Len(array'[frame'[o].payload.arr])
  <2>1. CASE n = 0
    <3>1. frame' = [frame EXCEPT ![o].head = script[c][pos[c] + 1]] /\ array' = array
      BY <2>1 DEF ReadHeader, Wire
    <3>2. frame'[o].head = script[c][pos[c] + 1] /\ frame'[o].payload = frame[o].payload
      BY <1>0, <1>2, <1>3, <3>1 DEF PoolTypes
    <3> QED
      BY <1>0, <1>2, <2>1, <3>1, <3>2 DEF NilSlice, PoolTypes, ContentTypes
  <2>2. CASE n # 0
    <3>1. PICK a \in Arrays :
            /\ GetPayload(a, ClassIndexForSize(n), <<>>)
            /\ frame' = [frame EXCEPT ![o].head = script[c][pos[c] + 1], ![o].cell = a,
                           ![o].payload = [arr |-> a, len |-> n]]
      BY <2>2 DEF ReadHeader, Wire
    <3>2. ClassIndexForSize(n) \in 1 .. Len(Classes) /\ n <= Classes[ClassIndexForSize(n)]
      BY <1>1, <2>2, ClassFits
    <3>3. <<>> \in Seq(Values) /\ Len(<<>>) <= Classes[ClassIndexForSize(n)]
      BY <3>2, ClassesAssumption
    <3>4. /\ array' \in [Arrays -> Seq(Values)]
          /\ \A b \in Arrays \ {a} : array'[b] = array[b]
          /\ Classes[ClassIndexForSize(n)] <= Len(array'[a])
      BY <1>0, <3>1, <3>2, <3>3, GotArray DEF ContentTypes
    <3>5. \A d \in Conns : a \notin ArrayRefs(d)
      BY <1>0, <3>1, TakenArray
    <3>6. /\ frame'[o].head = script[c][pos[c] + 1]
          /\ frame'[o].payload = [arr |-> a, len |-> n]
          /\ \A f \in Frames \ {o} : frame'[f] = frame[f]
      BY <1>0, <1>2, <1>3, <3>1 DEF PoolTypes
    <3>7. n <= Len(array'[a])
      <4>1. Classes[ClassIndexForSize(n)] \in Nat /\ Len(array'[a]) \in Nat
        BY <3>2, <3>4, ClassesAssumption
      <4> QED
        BY <1>1, <3>2, <3>4, <4>1
    <3>8. a # None
      BY NoneAssumption
    <3> QED
      BY <3>4, <3>5, <3>6, <3>7, <3>8
  <2> QED
    BY <2>1, <2>2
<1>5. ContentTypes'
  <2>0. \A f \in Frames : idle[f] = 1 => frame[f].payload = NilSlice
    BY <1>0 DEF ContentTypes
  <2>1. ASSUME NEW f \in Frames, idle'[f] = 1 PROVE frame'[f].payload = NilSlice
    <3>1. f # o
      BY <1>1, <1>2, <2>1
    <3> QED
      BY <1>1, <1>4, <2>0, <2>1, <3>1
  <2> QED
    BY <1>0, <1>1, <1>4, <2>1 DEF ContentTypes, NilSlice
<1>6. NextIsNew(c)'
  <2>1. first[c] = None => Opened(c, pos[c] + 1)
    BY <1>0, <1>1 DEF Progress, NextIsNew, Reading
  <2> QED
    BY <1>1, <2>1 DEF NextIsNew, Opened
<1>7. Continued(c)'
  <2> SUFFICES ASSUME first[c] # None
               PROVE  \E i \in Nat : Gathered(c, i, pos[c])' /\ script[c][pos[c]].more
    BY <1>1 DEF Continued, Releasing
  <2>1. PICK i \in Nat : Gathered(c, i, pos[c]) /\ script[c][pos[c]].more
    BY <1>0, <1>1 DEF Progress, Continued, Reading
  <2>2. frame'[first'[c]] = frame[first[c]]
    BY <1>0, <1>1, <1>2, <1>4 DEF PoolTypes
  <2>3. buf[c].arr # None => array'[buf[c].arr] = array[buf[c].arr]
    <3>1. buf[c].arr # None => buf[c].arr \in ArrayRefs(c)
      BY RefersIs DEF Refers
    <3>2. buf[c].arr \in Arrays \cup {None}
      BY <1>0 DEF PoolTypes, IsSlice
    <3> QED
      BY <1>4, <3>1, <3>2
  <2>4. ASSUME NEW p, p = pos[c] PROVE Gathered(c, i, p)'
    BY <1>1, <2>1, <2>2, <2>3, <2>4, GatheredKept
  <2>5. Gathered(c, i, pos[c])'
    BY <1>1, <2>4 DEF Gathered, Run, Holds
  <2> QED
    BY <2>1, <2>5
<1>8. Fetched(c)'
  <2>1. Room(c)'
    BY <1>1, <1>4, NoneAssumption DEF Room, Within
  <2> QED
    BY <1>1, <2>1 DEF Fetched
<1>9. HasFragment(c)' /\ HasMessage(c)' /\ Answers(c)' /\ Finished(c)'
  <2>1. HasFragment(c)' /\ HasMessage(c)' /\ Answers(c)'
    BY <1>1 DEF HasFragment, HasMessage, Answers, Answering
  <2>2. Finished(c)'
    BY <1>0, <1>1 DEF Finished, Releasing
  <2> QED
    BY <2>1, <2>2
<1> QED
  BY <1>5, <1>6, <1>7, <1>8, <1>9 DEF Progress

\* The bytes of the frame are in its buffer: it is the message, the aggregate or
\* the next fragment.
LEMMA ReadPayloadProgress ==
  ASSUME PoolInv, ContentInv, NEW c \in Conns, ReadPayload(c)
  PROVE  ContentTypes' /\ Progress(c)'
<1>p. PICK w, p, q, o, s, n : /\ w = script[c] /\ p = pos[c] /\ q = p + 1 /\ o = cur[c]
                              /\ s = frame[o].payload /\ n = w[q].len
  OBVIOUS
<1>0. /\ PoolTypes /\ Held(c) /\ Separate(c) /\ ContentTypes /\ Progress(c)
      /\ pc[c] = "payload" /\ ~closed[c] /\ p \in Nat /\ Len(w) \in Nat /\ w \in Scripts[c]
      /\ \A k \in 1 .. Len(w) : w[k].len \in Nat /\ w[k].more \in BOOLEAN
  BY <1>p, ContentOf DEF PoolInv, ReadPayload
<1>1. /\ p < Len(w) /\ n <= MaxFrameSize /\ frame[o].head = w[q]
      /\ s.len = n /\ Within(s) /\ (n > 0 => s.arr # None)
  BY <1>p, <1>0 DEF Progress, Fetched, Room
<1>2. q \in 1 .. Len(w) /\ q \in Nat /\ n \in Nat /\ w[q].more \in BOOLEAN
  <2>1. q \in 1 .. Len(w) /\ q \in Nat
    BY <1>p, <1>0, <1>1
  <2> QED
    BY <1>p, <1>0, <2>1
<1>3. o \in Frames /\ o # first[c] /\ s.arr \in Arrays \cup {None}
  <2>1. o \in Frames /\ o # first[c]
    BY <1>p, <1>0 DEF Held, Separate, PoolTypes
  <2> QED
    BY <1>p, <1>0, <2>1 DEF PoolTypes, IsFrame, IsSlice
<1>4. /\ UNCHANGED <<script, frame, idle, after, drops, closed, fault, delivered>>
      /\ pos' = [pos EXCEPT ![c] = @ + 1] /\ pos'[c] = q
      /\ array' = IF s.arr = None THEN array
                  ELSE [array EXCEPT ![s.arr] = Over(@, WireBytes(c, q))]
  BY <1>p, <1>0 DEF ReadPayload, ContentTypes
<1>5. /\ WireBytes(c, q) \in Seq(Values) /\ Len(WireBytes(c, q)) = n
      /\ Spells(c, w, WireBytes(c, q), q, q)
  <2>1. \A k \in 1 .. n : <<c, q, k>> \in Values
    <3> SUFFICES ASSUME NEW k \in 1 .. n PROVE <<c, q, k>> \in Values
      OBVIOUS
    <3>1. k \in Nat
      BY <1>2
    <3>2. <<c, q, k>> \in Conns \X Nat \X Nat
      BY <1>2, <3>1
    <3> QED
      BY <3>2 DEF Values
  <2>2. WireBytes(c, q) \in [1 .. n -> Values]
    BY <1>p, <2>1 DEF WireBytes
  <2>3. Spells(c, w, [k \in 1 .. w[q].len |-> <<c, q, k>>], q, q)
    BY <1>p, <1>2, SpellsFrame
  <2> HIDE DEF Values
  <2> QED
    BY <1>p, <1>2, <2>2, <2>3 DEF WireBytes
<1>6. /\ array' \in [Arrays -> Seq(Values)]
      /\ \A a \in Arrays : a # s.arr => array'[a] = array[a]
      /\ IF s.arr = None THEN WireBytes(c, q) = <<>>
         ELSE /\ Len(array'[s.arr]) = Len(array[s.arr])
              /\ SubSeq(array'[s.arr], 1, n) = WireBytes(c, q)
  <2>0. array \in [Arrays -> Seq(Values)]
    BY <1>0 DEF ContentTypes
  <2>1. CASE s.arr = None
    <3>1. n = 0
      BY <1>1, <2>1 DEF Within
    <3>2. WireBytes(c, q) = <<>>
      BY <1>5, <3>1
    <3> QED
      BY <1>4, <2>0, <2>1, <3>2
  <2>2. CASE s.arr # None
    <3>1. s.arr \in Arrays /\ n <= Len(array[s.arr]) /\ array[s.arr] \in Seq(Values)
      BY <1>1, <1>3, <2>0, <2>2 DEF Within
    <3>2. /\ Over(array[s.arr], WireBytes(c, q)) \in Seq(Values)
          /\ Len(Over(array[s.arr], WireBytes(c, q))) = Len(array[s.arr])
          /\ SubSeq(Over(array[s.arr], WireBytes(c, q)), 1, n) = WireBytes(c, q)
      BY <1>5, <3>1, OverIs
    <3> QED
      BY <1>4, <2>0, <2>2, <3>1, <3>2
  <2> QED
    BY <2>1, <2>2
<1>7. Holds(c, s, q, q)'
  <2>1. Within(s)'
    BY <1>1, <1>6 DEF Within
  <2>2. Content(s)' = WireBytes(c, q)
    BY <1>1, <1>6 DEF Content
  <2> QED
    BY <1>p, <1>4, <1>5, <2>1, <2>2 DEF Holds
<1>8. ContentTypes'
  <2>1. pos' \in [Conns -> Nat] /\ \A d \in Conns : pos'[d] <= Len(script[d])
    BY <1>p, <1>0, <1>1, <1>2, <1>4 DEF ContentTypes
  <2> QED
    BY <1>0, <1>4, <1>6, <2>1 DEF ContentTypes, NilSlice
<1>9. Run(w, q, q)
  BY <1>p, <1>1, <1>2 DEF Run
<1>10. Finished(c)'
  <2>1. pc'[c] \notin {"release", "end"} /\ ~closed'[c]
    BY <1>0, <1>4 DEF ReadPayload, Goto, PoolTypes
  <2> QED
    BY <2>1 DEF Finished, Releasing
<1>11. CASE first[c] = None
  <2>1. /\ first'[c] = o /\ buf'[c] = (IF w[q].more THEN s ELSE buf[c])
        /\ pc'[c] = (IF w[q].more THEN "decode" ELSE "dispatch") /\ o # None
    BY <1>p, <1>0, <1>3, <1>11, NoneAssumption DEF ReadPayload, Goto, PoolTypes, Wire
  <2>2. Opened(c, q)'
    <3>1. Opened(c, q)
      BY <1>p, <1>0, <1>11 DEF Progress, NextIsNew, Reading
    <3> QED
      BY <1>4, <3>1, OpenedKept
  <2>3. CASE w[q].more
    <3>1. \E i \in Nat : Gathered(c, i, pos[c])' /\ script'[c][pos'[c]].more
      <4>1. Holds(c, buf[c], q, pos[c])'
        BY <1>4, <1>7, <2>1, <2>3 DEF Holds, Content, Within
      <4>2. Gathered(c, q, pos[c])'
        BY <1>p, <1>1, <1>4, <1>9, <2>1, <2>2, <4>1 DEF Gathered
      <4> QED
        BY <1>p, <1>2, <1>4, <2>3, <4>2
    <3>2. NextIsNew(c)' /\ Continued(c)'
      BY <2>1, <2>3, <3>1 DEF NextIsNew, Continued, Releasing
    <3>3. Fetched(c)' /\ HasFragment(c)' /\ HasMessage(c)' /\ Answers(c)'
      BY <2>1, <2>3 DEF Fetched, HasFragment, HasMessage, Answers, Answering
    <3> QED
      BY <1>8, <1>10, <3>2, <3>3 DEF Progress
  <2>4. CASE ~w[q].more
    <3>1. \E i \in Nat : Complete(c, i)'
      <4>1. Holds(c, frame[first[c]].payload, q, pos[c])'
        BY <1>p, <1>4, <1>7, <2>1 DEF Holds, Content, Within
      <4>2. Cardinality(BytesOf(c, w, <<q, q>>)) = n
        <5>1. \A k \in q .. q : w[k].len \in Nat
          BY <1>p, <1>2
        <5> QED
          BY <1>2, <1>5, <5>1, SpellsMessage
      <4>3. n <= MaxStreamSize
        <5>1. MaxFrameSize \in Nat
          BY ClassesAssumption DEF MaxFrameSize
        <5> QED
          BY <1>1, <1>2, <5>1, SizesAssumption
      <4>4. Complete(c, q)'
        BY <1>p, <1>4, <1>9, <2>2, <2>4, <4>1, <4>2, <4>3 DEF Complete
      <4> QED
        BY <1>2, <4>4
    <3>2. NextIsNew(c)' /\ Continued(c)'
      BY <2>1, <2>4 DEF NextIsNew, Continued, Reading, Releasing
    <3>3. Fetched(c)' /\ HasFragment(c)' /\ HasMessage(c)' /\ Answers(c)'
      BY <2>1, <2>4, <3>1 DEF Fetched, HasFragment, HasMessage, Answers, Answering
    <3> QED
      BY <1>8, <1>10, <3>2, <3>3 DEF Progress
  <2> QED
    BY <2>3, <2>4
<1>12. CASE first[c] # None
  <2>1. /\ first'[c] = first[c] /\ cur'[c] = o /\ buf'[c] = buf[c] /\ pc'[c] = "fragment"
    BY <1>p, <1>0, <1>12 DEF ReadPayload, Goto, PoolTypes
  <2>2. PICK i \in Nat : Gathered(c, i, p) /\ w[p].more
    BY <1>p, <1>0, <1>12 DEF Progress, Continued, Reading
  <2>3. buf[c].arr # None => array'[buf[c].arr] = array[buf[c].arr]
    <3>1. o \in FrameRefs(c)
      BY <1>p, <1>3, NoneAssumption DEF FrameRefs
    <3>2. buf[c].arr # None => buf[c].arr # s.arr
      BY <1>p, <1>0, <1>3, <3>1 DEF Separate, ArraysOf
    <3>3. buf[c].arr \in Arrays \cup {None}
      BY <1>0 DEF PoolTypes, IsSlice
    <3> QED
      BY <1>6, <3>2, <3>3
  <2>4. Gathered(c, i, p)'
    BY <1>4, <2>1, <2>2, <2>3, GatheredKept
  <2>5. pos'[c] - 1 = p
    BY <1>p, <1>0, <1>4
  <2>6. Gathered(c, i, pos[c] - 1)'
    BY <2>4, <2>5 DEF Gathered, Run, Holds
  <2>7. Holds(c, frame[cur[c]].payload, pos[c], pos[c])'
    BY <1>p, <1>4, <1>7, <2>1 DEF Holds, Content, Within
  <2>8. HasFragment(c)'
    BY <1>p, <1>1, <1>4, <2>1, <2>2, <2>5, <2>6, <2>7 DEF HasFragment
  <2>9. NextIsNew(c)' /\ Continued(c)' /\ Fetched(c)' /\ HasMessage(c)' /\ Answers(c)'
    BY <2>1 DEF NextIsNew, Continued, Reading, Releasing, Fetched, HasMessage, Answers, Answering
  <2> QED
    BY <1>8, <1>10, <2>8, <2>9 DEF Progress
<1> QED
  BY <1>11, <1>12

-----------------------------------------------------------------------------
(* The aggregate                                                           *)

\* append: what the slice held and the new bytes, in place or in a larger array.
LEMMA Appended ==
  ASSUME PoolInv, array \in [Arrays -> Seq(Values)], NEW c \in Conns, NEW s,
         s = buf[c], Within(s), NEW bytes \in Seq(Values), AppendTo(c, s, bytes)
  PROVE  /\ array' \in [Arrays -> Seq(Values)]
         /\ Within(buf[c])' /\ Content(buf[c])' = Content(s) \o bytes
<1>0. /\ s = [arr |-> s.arr, len |-> s.len] /\ s.arr \in Arrays \cup {None} /\ DOMAIN buf = Conns
  BY DEF PoolInv, PoolTypes, IsSlice
<1>1. Content(s) \in Seq(Values) /\ Len(Content(s)) = s.len /\ s.len \in Nat /\ Len(bytes) \in Nat
  BY <1>0, ContentIs DEF Within
<1>p. PICK need, has, both :
        /\ need = s.len + Len(bytes) /\ has = (IF s.arr = None THEN 0 ELSE Len(array[s.arr]))
        /\ both = Content(s) \o bytes
  OBVIOUS
<1>2. both \in Seq(Values) /\ Len(both) = need /\ need \in Nat
  <2>1. both \in Seq(Values) /\ Len(both) = Len(Content(s)) + Len(bytes)
    BY <1>1, <1>p, FirstPart
  <2> QED
    BY <1>1, <1>p, <2>1
<1>3. CASE need <= has /\ s.arr = None
  <2>1. s.len = 0 /\ Len(bytes) = 0
    BY <1>1, <1>3, <1>p DEF Within
  <2>2. Content(s) = <<>> /\ bytes = <<>> /\ both = <<>> /\ need = 0
    BY <1>p, <1>3, <2>1 DEF Content
  <2>3. array' = array
    <3>1. \E v : array' = [array EXCEPT ![None] = v]
      BY <1>3, <1>p DEF AppendTo
    <3> QED
      BY <3>1, NoneAssumption
  <2>4. buf'[c] = [arr |-> None, len |-> 0]
    BY <1>0, <1>3, <1>p, <2>2 DEF AppendTo
  <2> QED
    BY <1>p, <2>2, <2>3, <2>4 DEF Within, Content
<1>4. CASE need <= has /\ s.arr # None
  <2>p. PICK new : new = InPlace(array[s.arr], s.len, bytes, need)
    OBVIOUS
  <2>1. array[s.arr] \in Seq(Values) /\ has = Len(array[s.arr]) /\ s.arr \in Arrays
    BY <1>0, <1>4, <1>p
  <2>2. /\ new \in Seq(Values) /\ Len(new) = Len(array[s.arr])
        /\ SubSeq(new, 1, need) = SubSeq(array[s.arr], 1, s.len) \o bytes
    <3>1. /\ array[s.arr] \in Seq(Values) /\ bytes \in Seq(Values) /\ s.len \in Nat
          /\ need \in Nat /\ need = s.len + Len(bytes) /\ need <= Len(array[s.arr])
      BY <1>1, <1>2, <1>4, <1>p, <2>1
    <3>2. \A old \in Seq(Values), n, k \in Nat :
            k = n + Len(bytes) /\ k <= Len(old) =>
              /\ InPlace(old, n, bytes, k) \in Seq(Values)
              /\ Len(InPlace(old, n, bytes, k)) = Len(old)
              /\ SubSeq(InPlace(old, n, bytes, k), 1, k) = SubSeq(old, 1, n) \o bytes
      BY InPlaceIs
    <3> QED
      BY <3>1, <3>2, <2>p
  <2>3. /\ array' = [array EXCEPT ![s.arr] = new]
        /\ buf' = [buf EXCEPT ![c] = [s EXCEPT !.len = need]]
    BY <1>4, <1>p, <2>p, <2>1 DEF AppendTo, InPlace
  <2>4. array'[s.arr] = new /\ array' \in [Arrays -> Seq(Values)]
    BY <2>1, <2>2, <2>3
  <2>5. buf'[c].arr = s.arr /\ buf'[c].len = need
    BY <1>0, <2>3
  <2>6. Content(buf[c])' = both
    BY <1>4, <1>p, <2>2, <2>4, <2>5 DEF Content
  <2>7. Within(buf[c])'
    BY <1>2, <1>4, <2>1, <2>2, <2>4, <2>5 DEF Within
  <2> QED
    BY <1>p, <2>4, <2>6, <2>7
<1>5. CASE ~(need <= has)
  <2>1. PICK a \in Arrays, cap \in {need, need + 1} :
          /\ Allocate(a, cap, both)
          /\ buf' = [buf EXCEPT ![c] = [arr |-> a, len |-> need]]
    BY <1>5, <1>p DEF AppendTo
  <2>2. cap \in Nat /\ need <= cap
    BY <1>2
  <2>3. /\ array' \in [Arrays -> Seq(Values)]
        /\ Len(array'[a]) = cap /\ SubSeq(array'[a], 1, need) = both
    <3>1. cap \in Int
      BY <2>2
    <3> QED
      BY <1>2, <2>1, <2>2, <3>1, MadeArray
  <2>4. buf'[c].arr = a /\ buf'[c].len = need /\ a # None
    BY <1>0, <2>1, NoneAssumption
  <2>5. Content(buf[c])' = both
    BY <2>3, <2>4 DEF Content
  <2>6. Within(buf[c])'
    BY <1>2, <2>2, <2>3, <2>4 DEF Within
  <2> QED
    BY <1>p, <2>3, <2>5, <2>6
<1> QED
  BY <1>3, <1>4, <1>5

\* The fragment is at the end of the aggregate.
LEMMA AppendFragmentProgress ==
  ASSUME PoolInv, ContentInv, NEW c \in Conns, AppendFragment(c)
  PROVE  ContentTypes' /\ Progress(c)'
<1>p. PICK w, p, o, s : w = script[c] /\ p = pos[c] /\ o = cur[c] /\ s = frame[o].payload
  OBVIOUS
<1>0. /\ PoolTypes /\ Held(c) /\ ContentTypes /\ Progress(c)
      /\ pc[c] = "fragment" /\ ~closed[c] /\ p \in Nat /\ Len(w) \in Nat /\ w \in Scripts[c]
      /\ \A k \in 1 .. Len(w) : w[k].len \in Nat /\ w[k].more \in BOOLEAN
      /\ p <= Len(w) /\ array \in [Arrays -> Seq(Values)]
  BY <1>p, ContentOf DEF PoolInv, AppendFragment, ContentTypes
<1>1. PICK i \in Nat : Gathered(c, i, p - 1) /\ w[p - 1].more
  BY <1>p, <1>0 DEF Progress, HasFragment
<1>2. /\ w[p].len <= MaxFrameSize /\ frame[o].head = w[p] /\ Holds(c, s, p, p)
  BY <1>p, <1>0 DEF Progress, HasFragment
<1>3. /\ Opened(c, i) /\ Run(w, i, p - 1) /\ Holds(c, buf[c], i, p - 1)
      /\ frame[first[c]].head.id = w[i].id /\ frame[first[c]].head.type = w[i].type
  BY <1>p, <1>1 DEF Gathered
<1>4. /\ UNCHANGED <<script, pos, first, frame, idle, closed, fault, delivered>>
      /\ AppendTo(c, buf[c], Content(s)) /\ Continues(w[p], frame[first[c]].head)
      /\ pc'[c] = "release" /\ after'[c] = IF ~w[p].more THEN "last" ELSE "more"
  BY <1>p, <1>0, <1>2 DEF AppendFragment, Goto, PoolTypes, LastFragment
<1>5. i \in 1 .. p - 1 /\ p - 1 \in 1 .. Len(w) /\ i <= p /\ p \in 1 .. Len(w) /\ i \in 1 .. p
  BY <1>0, <1>3 DEF Run
<1>6. Run(w, i, p)
  <2>1. \A k \in i .. p : k = p \/ k \in i .. p - 1
    BY <1>0
  <2>2. \A k \in i .. p - 1 : k = p - 1 \/ k \in i .. (p - 1) - 1
    BY <1>0
  <2>3. \A k \in i .. p - 1 : w[k].more
    BY <1>1, <1>3, <2>2 DEF Run
  <2>4. \A k \in i .. p : w[k].len <= MaxFrameSize /\ w[k].id = w[i].id /\ w[k].type = w[i].type
    BY <1>2, <1>3, <1>4, <2>1 DEF Run, Continues
  <2> QED
    BY <1>5, <2>3, <2>4 DEF Run
<1>7. s.arr \in Arrays \cup {None} /\ Content(s) \in Seq(Values)
  <2>1. s.arr \in Arrays \cup {None}
    BY <1>p, <1>0 DEF Held, PoolTypes, IsFrame, IsSlice
  <2> QED
    BY <1>0, <1>2, <2>1, ContentIs DEF Holds
<1>8. Spells(c, w, Content(buf[c]) \o Content(s), i, p)
  <2>1. Spells(c, w, Content(buf[c]), i, p - 1) /\ Spells(c, w, Content(s), p, p)
    BY <1>p, <1>2, <1>3 DEF Holds
  <2>2. p - 1 \in Nat /\ (p - 1) + 1 = p /\ i <= p - 1
    BY <1>0, <1>5
  <2>3. \A k \in i .. p : w[k].len \in Nat
    BY <1>0, <1>5
  <2> QED
    BY <2>1, <2>2, <2>3, SpellsMore
<1>9. /\ array' \in [Arrays -> Seq(Values)]
      /\ Within(buf[c])' /\ Content(buf[c])' = Content(buf[c]) \o Content(s)
  <2>1. PICK t : t = buf[c]
    OBVIOUS
  <2>2. Within(t)
    BY <1>3, <2>1 DEF Holds
  <2>3. /\ array' \in [Arrays -> Seq(Values)]
        /\ Within(buf[c])' /\ Content(buf[c])' = Content(t) \o Content(s)
    BY <1>0, <1>4, <1>7, <2>1, <2>2, Appended
  <2> QED
    BY <2>1, <2>3
<1>10. Gathered(c, i, pos[c])'
  <2>1. Opened(c, i)'
    BY <1>3, <1>4, OpenedKept
  <2>2. Holds(c, buf[c], i, pos[c])'
    BY <1>p, <1>4, <1>8, <1>9 DEF Holds
  <2> QED
    BY <1>p, <1>3, <1>4, <1>6, <2>1, <2>2 DEF Gathered
<1>11. ContentTypes'
  BY <1>0, <1>4, <1>9 DEF ContentTypes, NilSlice
<1>12. Continued(c)'
  BY <1>p, <1>0, <1>4, <1>10 DEF Continued, Reading, Releasing
<1>13. NextIsNew(c)' /\ Fetched(c)' /\ HasFragment(c)' /\ HasMessage(c)' /\ Answers(c)'
  BY <1>4 DEF NextIsNew, Reading, Releasing, Fetched, HasFragment, HasMessage, Answers, Answering
<1>14. Finished(c)'
  BY <1>0, <1>4 DEF Finished, Releasing
<1> QED
  BY <1>11, <1>12, <1>13, <1>14 DEF Progress

\* The aggregate is the message of the frames it was gathered from.
LEMMA AssembledProgress ==
  ASSUME PoolInv, ContentInv, NEW c \in Conns, Assembled(c)
  PROVE  ContentTypes' /\ Progress(c)'
<1>p. PICK w, p, s : w = script[c] /\ p = pos[c] /\ s = buf[c]
  OBVIOUS
<1>0. /\ PoolTypes /\ Held(c) /\ Owned /\ ContentTypes /\ Progress(c)
      /\ pc[c] \in {"more", "last"} /\ ~closed[c] /\ p \in Nat
      /\ s = [arr |-> s.arr, len |-> s.len] /\ s.arr \in Arrays \cup {None}
      /\ first[c] \in Frames /\ idle[first[c]] = 0
  <2>1. PoolTypes /\ Held(c) /\ Owned /\ pc[c] \in {"more", "last"}
    BY DEF PoolInv, Assembled
  <2>2. first[c] \in Frames /\ first[c] \in FrameRefs(c)
    BY <2>1, NoneAssumption DEF Held, PoolTypes, FrameRefs
  <2>3. IsSlice(s)
    BY <1>p, <2>1 DEF PoolTypes
  <2>4. idle[first[c]] = 0
    BY <2>1, <2>2 DEF Owned
  <2> QED
    BY <1>p, <2>1, <2>2, <2>3, <2>4, ContentOf DEF IsSlice
<1>1. /\ UNCHANGED <<script, pos, cur, first, idle, array, after, drops, closed, fault, delivered>>
      /\ ~(s.len > MaxStreamSize)
  BY <1>p DEF Assembled, TooLarge
<1>2. PICK i \in Nat : Gathered(c, i, p) /\ (w[p].more <=> pc[c] = "more")
  BY <1>p, <1>0 DEF Progress, Continued
<1>3. CASE pc[c] = "more"
  <2>1. pc'[c] = "decode" /\ UNCHANGED <<frame, buf>>
    BY <1>0, <1>3 DEF Assembled, Goto, PoolTypes
  <2>2. Gathered(c, i, p)'
    BY <1>1, <1>2, <2>1, GatheredKept
  <2>3. Gathered(c, i, pos[c])'
    BY <1>p, <1>1, <2>2 DEF Gathered, Run, Holds
  <2>4. ContentTypes'
    BY <1>0, <1>1, <2>1 DEF ContentTypes, NilSlice
  <2>5. NextIsNew(c)' /\ Continued(c)'
    BY <1>p, <1>0, <1>1, <1>2, <1>3, <2>1, <2>3, NoneAssumption DEF NextIsNew, Continued, Reading, Releasing
  <2>6. Fetched(c)' /\ HasFragment(c)' /\ HasMessage(c)' /\ Answers(c)' /\ Finished(c)'
    BY <1>0, <1>1, <2>1 DEF Fetched, HasFragment, HasMessage, Answers, Answering, Finished, Releasing
  <2> QED
    BY <2>4, <2>5, <2>6 DEF Progress
<1>4. CASE pc[c] = "last"
  <2>0. PICK v : frame' = [frame EXCEPT ![first[c]].payload = s, ![first[c]].head = v]
    BY <1>p, <1>4 DEF Assembled
  <2>1. pc'[c] = "dispatch" /\ frame'[first'[c]].payload = s
        /\ \A f \in Frames \ {first[c]} : frame'[f] = frame[f]
    <3>1. frame[first[c]] = [head |-> frame[first[c]].head, payload |-> frame[first[c]].payload,
                             cell |-> frame[first[c]].cell, live |-> frame[first[c]].live]
      BY <1>0 DEF PoolTypes, IsFrame
    <3>2. pc'[c] = "dispatch"
      BY <1>0, <1>4 DEF Assembled, Goto, PoolTypes
    <3> QED
      BY <1>0, <1>1, <2>0, <3>1, <3>2 DEF PoolTypes
  <2>2. /\ Opened(c, i) /\ Run(w, i, p) /\ Holds(c, s, i, p) /\ ~w[p].more
    BY <1>p, <1>2, <1>4 DEF Gathered
  <2>3. Cardinality(BytesOf(c, w, <<i, p>>)) = s.len /\ s.len \in Nat
    BY <1>p, <1>0, <2>2, HeldBytes DEF Holds, Within
  <2>4. s.len <= MaxStreamSize
    BY <1>1, <2>3, SizesAssumption
  <2>5. Opened(c, i)'
    BY <1>1, <2>2, OpenedKept
  <2>6. Holds(c, s, i, p)'
    BY <1>1, <2>2, HoldsKept
  <2>7. Holds(c, frame[first[c]].payload, i, pos[c])'
    BY <1>p, <1>1, <2>1, <2>6 DEF Holds, Content, Within
  <2>8. Complete(c, i)'
    BY <1>p, <1>1, <2>2, <2>3, <2>4, <2>5, <2>7 DEF Complete
  <2>9. ContentTypes'
    <3>1. \A f \in Frames : idle[f] = 1 => frame[f].payload = NilSlice
      BY <1>0 DEF ContentTypes
    <3>2. ASSUME NEW f \in Frames, idle'[f] = 1 PROVE frame'[f].payload = NilSlice
      <4>1. f # first[c]
        BY <1>0, <1>1, <3>2
      <4> QED
        BY <1>1, <2>1, <3>1, <3>2, <4>1
    <3> QED
      BY <1>0, <1>1, <3>2 DEF ContentTypes, NilSlice
  <2>10. NextIsNew(c)' /\ Continued(c)' /\ Fetched(c)' /\ HasFragment(c)'
    BY <2>1 DEF NextIsNew, Continued, Reading, Releasing, Fetched, HasFragment
  <2>11. HasMessage(c)' /\ Answers(c)' /\ Finished(c)'
    BY <1>0, <1>1, <2>1, <2>8 DEF HasMessage, Answers, Answering, Finished, Releasing
  <2> QED
    BY <2>9, <2>10, <2>11 DEF Progress
<1> QED
  BY <1>0, <1>3, <1>4

-----------------------------------------------------------------------------
(* Release and dispatch                                                    *)

\* A release takes nothing from the aggregate.
LEMMA ReleaseProgress ==
  ASSUME PoolInv, ContentInv, NEW c \in Conns, Release(c)
  PROVE  ContentTypes' /\ Progress(c)'
<1>p. PICK f, p : f = Head(drops[c]) /\ p = pos[c]
  OBVIOUS
<1>0. /\ PoolTypes /\ Held(c) /\ Separate(c) /\ Owned /\ ContentTypes /\ Progress(c)
      /\ pc[c] = "release" /\ drops[c] # <<>> /\ drops[c] \in Seq(Frames)
  BY ContentOf DEF PoolInv, Release, PoolTypes
<1>1. /\ UNCHANGED <<script, pos, cur, first, buf, pc, after, closed, fault, delivered>>
      /\ \/ UNCHANGED <<frame, idle, array>>
         \/ /\ PutPayloads(ReleasedArrays(frame[f].payload, frame[f].cell))
            /\ frame' = [frame EXCEPT ![f] = ZeroFrame] /\ idle' = [idle EXCEPT ![f] = @ + 1]
  BY <1>p DEF Release, decodeVars, poolVars
<1>2. f \in Frames /\ f # first[c] /\ f \in FrameRefs(c)
  <2>1. 1 \in DOMAIN drops[c] /\ f = drops[c][1] /\ f \in Frames
    BY <1>p, <1>0
  <2>2. f \in ToSet(drops[c])
    BY <2>1 DEF ToSet
  <2> QED
    BY <1>0, <2>1, <2>2, NoneAssumption DEF Separate, FrameRefs
<1>3. buf[c].arr \notin ArraysOf(f)
  BY <1>0, <1>2 DEF Separate
<1>4. /\ array' \in [Arrays -> Seq(Values)]
      /\ buf[c].arr # None => array'[buf[c].arr] = array[buf[c].arr]
  <2>0. array \in [Arrays -> Seq(Values)] /\ buf[c].arr \in Arrays \cup {None}
    BY <1>0 DEF ContentTypes, PoolTypes, IsSlice
  <2>1. CASE PutPayloads(ReleasedArrays(frame[f].payload, frame[f].cell))
    <3>p. PICK r : r = ReleasedArrays(frame[f].payload, frame[f].cell)
      OBVIOUS
    <3>1. /\ array' \in [Arrays -> Seq(Values)]
          /\ \A a \in Arrays : a \notin ToSet(r) => array'[a] = array[a]
      BY <2>0, <2>1, <3>p, PutArrays
    <3>2. \A a \in ToSet(r) : a \in {frame[f].payload.arr, frame[f].cell}
      BY <3>p DEF ReleasedArrays, ToSet
    <3>3. buf[c].arr # None => buf[c].arr \notin ToSet(r)
      BY <1>3, <3>2 DEF ArraysOf
    <3> QED
      BY <2>0, <3>1, <3>3
  <2> QED
    BY <1>1, <2>0, <2>1
<1>5. /\ \A g \in Frames \ {f} : frame'[g] = frame[g] /\ idle'[g] = idle[g]
      /\ frame'[f] = ZeroFrame \/ (frame'[f] = frame[f] /\ idle'[f] = idle[f])
  <2>1. DOMAIN frame = Frames /\ DOMAIN idle = Frames
    BY <1>0 DEF PoolTypes
  <2> QED
    BY <1>1, <1>2, <2>1
<1>6. ContentTypes'
  <2>1. \A g \in Frames : idle[g] = 1 => frame[g].payload = NilSlice
    BY <1>0 DEF ContentTypes
  <2>2. ZeroFrame.payload = NilSlice
    BY DEF ZeroFrame
  <2>3. ASSUME NEW g \in Frames, idle'[g] = 1 PROVE frame'[g].payload = NilSlice
    <3>1. CASE g = f
      BY <1>5, <2>1, <2>2, <2>3, <3>1
    <3>2. CASE g # f
      BY <1>5, <2>1, <2>3, <3>2
    <3> QED
      BY <3>1, <3>2
  <2> QED
    BY <1>0, <1>1, <1>4, <2>3 DEF ContentTypes, NilSlice
<1>7. ASSUME NEW i \in Nat, Gathered(c, i, p), first[c] # None PROVE Gathered(c, i, pos[c])'
  <2>1. frame'[first'[c]] = frame[first[c]]
    BY <1>0, <1>1, <1>2, <1>5, <1>7 DEF PoolTypes
  <2>2. Gathered(c, i, p)'
    BY <1>1, <1>4, <1>7, <2>1, GatheredKept
  <2> QED
    BY <1>p, <1>1, <2>2 DEF Gathered, Run, Holds
<1>8. Continued(c)'
  <2>1. after[c] \in {"more", "last"} => first[c] # None
    BY <1>0 DEF Held
  <2> QED
    BY <1>p, <1>0, <1>1, <1>7, <2>1 DEF Progress, Continued, Reading, Releasing
<1>9. NextIsNew(c)'
  <2>1. NextIsNew(c)
    BY <1>0 DEF Progress
  <2>2. Opened(c, pos[c] + 1) => Opened(c, pos[c] + 1)'
    BY <1>1 DEF Opened
  <2> QED
    BY <1>1, <2>1, <2>2 DEF NextIsNew, Reading, Releasing
<1>10. Fetched(c)' /\ HasFragment(c)' /\ HasMessage(c)' /\ Answers(c)'
  BY <1>0, <1>1 DEF Fetched, HasFragment, HasMessage, Answers, Answering
<1>11. Finished(c)'
  BY <1>0, <1>1 DEF Progress, Finished, Releasing
<1> QED
  BY <1>6, <1>8, <1>9, <1>10, <1>11 DEF Progress

\* The goroutine goes on where it was, with the next message, or not at all.
LEMMA ReleasedProgress ==
  ASSUME PoolInv, ContentInv, NEW c \in Conns, Released(c)
  PROVE  ContentTypes' /\ Progress(c)'
<1>p. PICK p : p = pos[c]
  OBVIOUS
<1>0. /\ PoolTypes /\ Held(c) /\ ContentTypes /\ Progress(c) /\ pc[c] = "release"
      /\ closed[c] \in BOOLEAN /\ after[c] \in {"decode", "close", "more", "last"}
  BY ContentOf DEF PoolInv, Released, PoolTypes
<1>1. /\ UNCHANGED <<script, pos, cur, first, buf, frame, idle, array, fault, delivered>>
      /\ closed' = [closed EXCEPT ![c] = closed[c] \/ after[c] = "close"]
  BY DEF Released, decodeVars, poolVars, ClosedBy
<1>2. /\ closed'[c] = (closed[c] \/ after[c] = "close") /\ closed' \in [Conns -> BOOLEAN]
      /\ pc'[c] = IF after[c] \in {"more", "last"} THEN after[c]
                  ELSE IF closed'[c] THEN "end" ELSE "decode"
  BY <1>0, <1>1 DEF Released, Goto, PoolTypes, ContentTypes
<1>3. closed[c] => after[c] = "decode"
  BY <1>0 DEF Progress, Finished, Releasing
<1>4. first[c] # None <=> after[c] \in {"more", "last"}
  BY <1>0 DEF Held
<1>5. ContentTypes'
  BY <1>0, <1>1, <1>2 DEF ContentTypes, NilSlice
<1>6. CASE after[c] \in {"more", "last"}
  <2>1. pc'[c] = after[c] /\ ~closed'[c]
    BY <1>2, <1>3, <1>6
  <2>2. PICK i \in Nat : Gathered(c, i, p) /\ (script[c][p].more <=> after[c] = "more")
    BY <1>p, <1>0, <1>6 DEF Progress, Continued, Releasing
  <2>3. Gathered(c, i, p)'
    BY <1>1, <2>2, GatheredKept
  <2>4. Gathered(c, i, pos[c])'
    BY <1>p, <1>1, <2>3 DEF Gathered, Run, Holds
  <2>5. Continued(c)'
    BY <1>p, <1>1, <1>6, <2>1, <2>2, <2>4 DEF Continued, Reading, Releasing
  <2>6. NextIsNew(c)' /\ Fetched(c)' /\ HasFragment(c)' /\ HasMessage(c)' /\ Answers(c)'
    BY <1>6, <2>1 DEF NextIsNew, Reading, Releasing, Fetched, HasFragment, HasMessage, Answers, Answering
  <2>7. Finished(c)'
    BY <1>6, <2>1 DEF Finished, Releasing
  <2> QED
    BY <1>5, <2>5, <2>6, <2>7 DEF Progress
<1>7. CASE after[c] \notin {"more", "last"} /\ closed'[c]
  <2>1. pc'[c] = "end"
    BY <1>2, <1>7
  <2>2. fault[c] \/ delivered[c] = Framed[c][script[c]]
    BY <1>0, <1>2, <1>7 DEF Progress, Finished, Releasing
  <2>3. NextIsNew(c)' /\ Continued(c)' /\ Fetched(c)' /\ HasFragment(c)'
    BY <2>1 DEF NextIsNew, Continued, Reading, Releasing, Fetched, HasFragment
  <2>4. HasMessage(c)' /\ Answers(c)' /\ Finished(c)'
    BY <1>1, <1>7, <2>1, <2>2 DEF HasMessage, Answers, Answering, Finished, Releasing
  <2> QED
    BY <1>5, <2>3, <2>4 DEF Progress
<1>8. CASE after[c] \notin {"more", "last"} /\ ~closed'[c]
  <2>1. pc'[c] = "decode" /\ after[c] = "decode" /\ ~closed[c] /\ first[c] = None
    BY <1>0, <1>2, <1>4, <1>8
  <2>2. Opened(c, pos[c] + 1)
    BY <1>0, <2>1 DEF Progress, NextIsNew, Releasing
  <2>3. Opened(c, pos[c] + 1)'
    BY <1>1, <2>2 DEF Opened
  <2>4. NextIsNew(c)' /\ Continued(c)' /\ Fetched(c)' /\ HasFragment(c)'
    BY <1>1, <2>1, <2>3 DEF NextIsNew, Continued, Reading, Releasing, Fetched, HasFragment
  <2>5. HasMessage(c)' /\ Answers(c)' /\ Finished(c)'
    BY <1>1, <1>8, <2>1 DEF HasMessage, Answers, Answering, Finished, Releasing
  <2> QED
    BY <1>5, <2>4, <2>5 DEF Progress
<1> QED
  BY <1>6, <1>7, <1>8

\* The message at hand is the next one of the stream.
LEMMA MessageAtHand ==
  ASSUME PoolInv, ContentInv, NEW c \in Conns, pc[c] = "dispatch",
         NEW n, n = Len(delivered[c])
  PROVE  /\ n \in Nat /\ n + 1 <= Len(Framed[c][script[c]])
         /\ Content(frame[first[c]].payload) = Framed[c][script[c]][n + 1]
         /\ Content(frame[first[c]].payload) \in Seq(Values)
         /\ pos[c] + 1 \in 1 .. Len(script[c]) + 1 /\ ~script[c][pos[c]].more
         /\ \A k \in 1 .. n : delivered[c][k] = Framed[c][script[c]][k]
         /\ Cardinality({t \in Spans(script[c]) : t[1] < pos[c] + 1}) = n + 1
         /\ \A t \in Spans(script[c]) : t[1] < pos[c] + 1 => Legal(c, script[c], t)
<1>p. PICK w, p, s : w = script[c] /\ p = pos[c] /\ s = frame[first[c]].payload
  OBVIOUS
<1>0. /\ p \in Nat /\ Len(w) \in Nat /\ w \in Scripts[c] /\ Progress(c)
  BY <1>p, ContentOf
<1>1. PICK i \in Nat : Complete(c, i)
  BY <1>0 DEF Progress, HasMessage
<1>2. /\ Opened(c, i) /\ Run(w, i, p) /\ ~w[p].more
      /\ Cardinality(BytesOf(c, w, <<i, p>>)) <= MaxStreamSize /\ Holds(c, s, i, p)
  BY <1>p, <1>1 DEF Complete
<1>3. i \in 1 .. p /\ p \in 1 .. Len(w) /\ p + 1 \in 1 .. Len(w) + 1 /\ i \in 1 .. Len(w) /\ i <= p
  BY <1>0, <1>2 DEF Run
<1>4. Legal(c, w, <<i, p>>)
  BY <1>2 DEF Legal, Run
<1>5. <<i, p>> \in Spans(w)
  <2>1. i = 1 \/ ~w[i - 1].more
    BY <1>p, <1>2 DEF Opened
  <2>2. \A k \in i .. p - 1 : w[k].more
    BY <1>2 DEF Run
  <2> QED
    BY <1>0, <1>2, <1>3, <2>1, <2>2, SpanIs
<1>6. /\ n = Cardinality({t \in Spans(w) : t[1] < i})
      /\ \A t \in Spans(w) : t[1] < i => Legal(c, w, t)
      /\ \A k \in 1 .. n : delivered[c][k] = Framed[c][script[c]][k]
  BY <1>p, <1>2 DEF Opened
<1>7. /\ n \in Nat /\ n + 1 <= Len(Framed[c][w])
      /\ Framed[c][w][n + 1] = Message(c, w, <<i, p>>)
      /\ Cardinality({t \in Spans(w) : t[1] < p + 1}) = n + 1
      /\ \A t \in Spans(w) : t[1] < p + 1 => Legal(c, w, t)
  BY <1>0, <1>4, <1>5, <1>6, NextMessage
<1>8. Content(s) = Message(c, w, <<i, p>>) /\ Content(s) \in Seq(Values)
  <2>1. s.arr \in Arrays \cup {None}
    <3>1. PoolTypes /\ Held(c)
      BY DEF PoolInv
    <3>2. first[c] \in Frames
      BY <3>1 DEF PoolTypes, Held
    <3> QED
      BY <1>p, <3>1, <3>2 DEF PoolTypes, IsFrame, IsSlice
  <2> QED
    BY <1>p, <1>0, <1>2, <2>1, HeldBytes
<1> QED
  BY <1>p, <1>2, <1>3, <1>6, <1>7, <1>8

\* It is dispatched, and answered if it is a request.
LEMMA HandleProgress ==
  ASSUME PoolInv, ContentInv, NEW c \in Conns, Handle(c)
  PROVE  ContentTypes' /\ Progress(c)'
<1>p. PICK n, m, w : n = Len(delivered[c]) /\ m = Content(frame[first[c]].payload) /\ w = script[c]
  OBVIOUS
<1>0. /\ PoolTypes /\ Held(c) /\ ContentTypes /\ pc[c] = "dispatch" /\ ~closed[c]
      /\ delivered[c] \in Seq(Seq(Values)) /\ pos[c] \in Nat
  BY ContentOf DEF PoolInv, Handle
<1>1. /\ n \in Nat /\ n + 1 <= Len(Framed[c][w]) /\ m = Framed[c][w][n + 1] /\ m \in Seq(Values)
      /\ pos[c] + 1 \in 1 .. Len(w) + 1 /\ ~w[pos[c]].more
      /\ \A k \in 1 .. n : delivered[c][k] = Framed[c][w][k]
      /\ Cardinality({t \in Spans(w) : t[1] < pos[c] + 1}) = n + 1
      /\ \A t \in Spans(w) : t[1] < pos[c] + 1 => Legal(c, w, t)
  BY <1>p, <1>0, MessageAtHand
<1>2. /\ UNCHANGED <<script, pos, cur, buf, frame, idle, array, closed, fault>>
      /\ delivered' = [delivered EXCEPT ![c] = Append(@, m)]
  BY <1>p DEF Handle, poolVars
<1>3. /\ delivered'[c] = Append(delivered[c], m) /\ delivered' \in [Conns -> Seq(Seq(Values))]
      /\ Len(delivered'[c]) = n + 1 /\ delivered'[c][n + 1] = m
      /\ \A k \in 1 .. n : delivered'[c][k] = delivered[c][k]
  <2>1. delivered'[c] = Append(delivered[c], m) /\ delivered' \in [Conns -> Seq(Seq(Values))]
    BY <1>0, <1>1, <1>2 DEF ContentTypes
  <2>2. /\ Len(Append(delivered[c], m)) = n + 1 /\ Append(delivered[c], m)[n + 1] = m
        /\ \A k \in 1 .. n : Append(delivered[c], m)[k] = delivered[c][k]
    BY <1>p, <1>0, <1>1, LastPart
  <2> QED
    BY <2>1, <2>2
<1>4. Opened(c, pos[c] + 1)'
  <2>1. \A k \in 1 .. n + 1 : k = n + 1 \/ k \in 1 .. n
    BY <1>1
  <2>2. \A k \in 1 .. n + 1 : delivered'[c][k] = Framed[c][w][k]
    BY <1>1, <1>3, <2>1
  <2>3. (pos[c] + 1) - 1 = pos[c]
    BY <1>0
  <2> QED
    BY <1>p, <1>1, <1>2, <1>3, <2>2, <2>3 DEF Opened
<1>5. ContentTypes'
  BY <1>0, <1>2, <1>3 DEF ContentTypes, NilSlice
<1>6. CASE AfterDispatch(c)
  <2>1. pc'[c] = "release" /\ after'[c] = "decode" /\ first'[c] = None
    BY <1>0, <1>6 DEF AfterDispatch, Goto, PoolTypes
  <2>2. NextIsNew(c)' /\ Continued(c)' /\ Fetched(c)' /\ HasFragment(c)'
    BY <1>2, <1>4, <2>1 DEF NextIsNew, Continued, Reading, Releasing, Fetched, HasFragment
  <2>3. HasMessage(c)' /\ Answers(c)' /\ Finished(c)'
    BY <1>0, <1>2, <2>1 DEF HasMessage, Answers, Answering, Finished, Releasing
  <2> QED
    BY <1>5, <2>2, <2>3 DEF Progress
<1>7. CASE pc' = [pc EXCEPT ![c] = "encode"] /\ UNCHANGED <<drops, first, after>>
  <2>1. pc'[c] = "encode"
    BY <1>0, <1>7 DEF PoolTypes
  <2>2. Content(frame[first[c]].payload)' = m
    BY <1>p, <1>2, <1>7 DEF Content
  <2>3. Answers(c)'
    BY <1>1, <1>3, <1>4, <2>2 DEF Answers
  <2>4. NextIsNew(c)' /\ Continued(c)' /\ Fetched(c)' /\ HasFragment(c)'
    BY <2>1 DEF NextIsNew, Continued, Reading, Releasing, Fetched, HasFragment
  <2>5. HasMessage(c)' /\ Finished(c)'
    BY <1>0, <1>2, <2>1 DEF HasMessage, Finished, Releasing
  <2> QED
    BY <1>5, <2>3, <2>4, <2>5 DEF Progress
<1> QED
  BY <1>6, <1>7 DEF Handle, Goto

-----------------------------------------------------------------------------
(* The answer                                                              *)

\* A panic of the handler ends the connection.
LEMMA HandlerPanicsProgress ==
  ASSUME PoolInv, ContentInv, NEW c \in Conns, HandlerPanics(c)
  PROVE  ContentTypes' /\ Progress(c)'
<1>0. /\ PoolTypes /\ Held(c) /\ Owned /\ ContentTypes /\ pc[c] = "dispatch"
  BY ContentOf DEF PoolInv, HandlerPanics
<1>1. /\ frame' = [frame EXCEPT ![first[c]] = ZeroFrame] /\ pc' = [pc EXCEPT ![c] = "end"]
      /\ closed' = [closed EXCEPT ![c] = TRUE] /\ fault' = [fault EXCEPT ![c] = TRUE]
      /\ UNCHANGED <<script, pos, idle, array, delivered>>
  BY DEF HandlerPanics, Goto
<1>2. pc'[c] = "end" /\ closed'[c] /\ fault'[c]
      /\ closed' \in [Conns -> BOOLEAN] /\ fault' \in [Conns -> BOOLEAN]
  BY <1>0, <1>1 DEF PoolTypes, ContentTypes
<1>3. \A g \in Frames : idle'[g] = 1 => frame'[g].payload = NilSlice
  <2>1. \A g \in Frames : frame'[g] = frame[g] \/ frame'[g] = ZeroFrame
    BY <1>0, <1>1 DEF PoolTypes
  <2>2. ZeroFrame.payload = NilSlice
    BY DEF ZeroFrame
  <2> QED
    BY <1>0, <1>1, <2>1, <2>2 DEF ContentTypes
<1>4. ContentTypes'
  BY <1>0, <1>1, <1>2, <1>3 DEF ContentTypes, NilSlice
<1>5. NextIsNew(c)' /\ Continued(c)' /\ Fetched(c)' /\ HasFragment(c)'
  BY <1>2 DEF NextIsNew, Continued, Reading, Releasing, Fetched, HasFragment
<1>6. HasMessage(c)' /\ Answers(c)' /\ Finished(c)'
  BY <1>2 DEF HasMessage, Answers, Answering, Finished, Releasing
<1> QED
  BY <1>4, <1>5, <1>6 DEF Progress

\* The answer is written, or the connection is closed over it.
LEMMA AnswerEnds ==
  ASSUME PoolInv, ContentInv, NEW c \in Conns, Answering(c), AfterDispatch(c),
         UNCHANGED <<script, pos, frame, idle, delivered>>, array' \in [Arrays -> Seq(Values)],
         \/ UNCHANGED <<closed, fault>>
         \/ /\ closed' = [closed EXCEPT ![c] = TRUE]
            /\ fault' = [fault EXCEPT ![c] = TRUE]
  PROVE  ContentTypes' /\ Progress(c)'
<1>0. PoolTypes /\ ContentTypes /\ Progress(c) /\ ~closed[c]
  BY ContentOf DEF PoolInv, Answering
<1>1. /\ pc'[c] = "release" /\ after'[c] = "decode" /\ first'[c] = None
      /\ closed' \in [Conns -> BOOLEAN] /\ fault' \in [Conns -> BOOLEAN]
      /\ closed'[c] => fault'[c]
  BY <1>0 DEF PoolTypes, ContentTypes, AfterDispatch, Goto
<1>2. Opened(c, pos[c] + 1)
  BY <1>0 DEF Progress, Answers
<1>3. Opened(c, pos[c] + 1)'
  BY <1>2 DEF Opened
<1>4. ContentTypes'
  BY <1>0, <1>1 DEF ContentTypes, NilSlice
<1>5. NextIsNew(c)' /\ Continued(c)' /\ Fetched(c)' /\ HasFragment(c)'
  BY <1>1, <1>3 DEF NextIsNew, Continued, Reading, Releasing, Fetched, HasFragment
<1>6. HasMessage(c)' /\ Answers(c)' /\ Finished(c)'
  BY <1>1 DEF HasMessage, Answers, Answering, Finished, Releasing
<1> QED
  BY <1>4, <1>5, <1>6 DEF Progress

\* While it is encoded and written the message stays where the handler saw it.
LEMMA AnswerGoesOn ==
  ASSUME PoolInv, ContentInv, NEW c \in Conns, Answering(c),
         pc'[c] \in {"encode", "join", "write", "free", "broken"},
         UNCHANGED <<script, pos, first, frame, idle, closed, fault, delivered>>,
         array' \in [Arrays -> Seq(Values)],
         \A a \in ArraysOf(first[c]) : array'[a] = array[a]
  PROVE  ContentTypes' /\ Progress(c)'
<1>0. ContentTypes /\ Progress(c) /\ ~closed[c]
  BY ContentOf DEF Answering
<1>1. Opened(c, pos[c] + 1) /\ Len(delivered[c]) > 0
      /\ Content(frame[first[c]].payload) = delivered[c][Len(delivered[c])]
  BY <1>0 DEF Progress, Answers
<1>2. Opened(c, pos[c] + 1)'
  BY <1>1 DEF Opened
<1>3. Content(frame[first[c]].payload)' = Content(frame[first[c]].payload)
  BY DEF Content, ArraysOf
<1>4. ContentTypes'
  BY <1>0 DEF ContentTypes, NilSlice
<1>5. NextIsNew(c)' /\ Continued(c)' /\ Fetched(c)' /\ HasFragment(c)'
  BY DEF NextIsNew, Continued, Reading, Releasing, Fetched, HasFragment
<1>6. HasMessage(c)' /\ Finished(c)'
  BY <1>0 DEF HasMessage, Finished, Releasing
<1>7. Answers(c)'
  BY <1>1, <1>2, <1>3 DEF Answers
<1> QED
  BY <1>4, <1>5, <1>6, <1>7 DEF Progress

\* The arrays of the message are not those of the encoded buffers.
LEMMA PutOutsArrays ==
  ASSUME PoolInv, ContentInv, NEW c \in Conns, PutOuts(c), first[c] # None
  PROVE  /\ array' \in [Arrays -> Seq(Values)]
         /\ \A a \in ArraysOf(first[c]) : array'[a] = array[a]
<1>0. PoolTypes /\ Separate(c) /\ ContentTypes /\ first[c] \in Frames
  BY ContentOf DEF PoolInv, PoolTypes
<1>1. PICK arrs : /\ PutPayloads(arrs)
                  /\ arrs = [i \in 1 .. Len(outs[c]) |->
                       IF Single(c) \/ outs[c][i].cell THEN outs[c][i].arr ELSE None]
  BY DEF PutOuts
<1>2. DOMAIN outs[c] = 1 .. Len(outs[c])
  <2>1. outs[c] \in Seq(ToSet(outs[c]))
    BY <1>0 DEF PoolTypes
  <2> QED
    BY <2>1
<1>3. \A a \in ToSet(arrs) : a = None \/ \E i \in DOMAIN outs[c] : a = outs[c][i].arr
  BY <1>1, <1>2 DEF ToSet
<1>4. first[c] \in FrameRefs(c)
  BY DEF FrameRefs
<1>5. \A a \in ArraysOf(first[c]) : a \in Arrays /\ a \notin ToSet(arrs)
  <2>1. ArraysOf(first[c]) \subseteq Arrays
    BY <1>0 DEF PoolTypes, IsFrame, IsSlice, ArraysOf
  <2>2. \A a \in ArraysOf(first[c]) : a # None
    BY DEF ArraysOf
  <2>3. \A i \in DOMAIN outs[c] : outs[c][i].arr \notin ArraysOf(first[c])
    BY <1>0, <1>4 DEF Separate
  <2> QED
    BY <1>3, <2>1, <2>2, <2>3
<1> QED
  BY <1>0, <1>1, <1>5, PutArrays DEF ContentTypes

\* An encoded frame has the bytes of the message, in a buffer of its own.
LEMMA EncodeFrameProgress ==
  ASSUME PoolInv, ContentInv, NEW c \in Conns, EncodeFrame(c)
  PROVE  ContentTypes' /\ Progress(c)'
<1>0. /\ PoolTypes /\ Held(c) /\ Owned /\ ContentTypes /\ Progress(c) /\ pc[c] = "encode"
      /\ delivered[c] \in Seq(Seq(Values)) /\ array \in [Arrays -> Seq(Values)]
      /\ outs[c] \in Seq(ToSet(outs[c])) /\ first[c] # None
  <2>1. PoolTypes /\ Held(c) /\ Owned /\ pc[c] = "encode"
    BY DEF PoolInv, EncodeFrame
  <2> QED
    BY <2>1, ContentOf DEF ContentTypes, PoolTypes, Held
<1>p. PICK payload, size : payload = Content(frame[first[c]].payload) /\ size = FragmentSize(c)
  OBVIOUS
<1>1. payload \in Seq(Values)
  <2>1. Len(delivered[c]) > 0 /\ payload = delivered[c][Len(delivered[c])]
    BY <1>p, <1>0 DEF Progress, Answers, Answering
  <2> HIDE DEF Values
  <2> QED
    BY <1>0, <2>1
<1>2. size \in Nat \ {0}
  <2>1. MaxFrameSize \in Nat \ {0}
    BY ClassesAssumption DEF MaxFrameSize
  <2> QED
    BY <1>p, <2>1, SizesAssumption DEF FragmentSize
<1>3. PICK offset, end :
        /\ offset = Len(outs[c]) * size /\ end = Min({offset + size, Len(payload)})
  OBVIOUS
<1>4. offset \in Nat /\ end \in Nat /\ Len(payload) \in Nat /\ end <= Len(payload)
  <2>1. Len(outs[c]) \in Nat /\ Len(payload) \in Nat
    BY <1>0, <1>1
  <2>2. offset \in Nat
    BY <1>2, <1>3, <2>1
  <2>3. {offset + size, Len(payload)} \subseteq Nat
    BY <1>2, <2>1, <2>2
  <2>4. /\ Min({offset + size, Len(payload)}) \in {offset + size, Len(payload)}
        /\ \A y \in {offset + size, Len(payload)} : Min({offset + size, Len(payload)}) <= y
    BY <2>3, LeastOfNats
  <2> QED
    BY <1>3, <2>1, <2>2, <2>3, <2>4
<1>5. PICK total, bytes :
        /\ total = HeaderSize + end - offset
        /\ bytes = [k \in 1 .. HeaderSize |-> HeaderByte(end < Len(payload))]
                     \o SubSeq(payload, offset + 1, end)
  OBVIOUS
<1>6. PICK a \in Arrays :
        /\ IF ClassIndexForSize(total) > 0 THEN GetPayload(a, ClassIndexForSize(total), bytes)
           ELSE Allocate(a, total, bytes)
        /\ pc' = [pc EXCEPT ![c] = IF end < Len(payload) THEN "encode" ELSE "join"]
        /\ UNCHANGED <<script, pos, first, frame, idle, closed, fault, delivered>>
  BY <1>p, <1>3, <1>5 DEF EncodeFrame, Goto, decodeVars
<1>7. bytes \in Seq(Values) /\ total \in Int
  <2>1. HeaderSize \in Nat
    BY SizesAssumption
  <2>2. \A b \in BOOLEAN : HeaderByte(b) \in Values
    BY DEF Values
  <2> HIDE DEF Values
  <2>p. PICK h : h = HeaderByte(end < Len(payload))
    OBVIOUS
  <2>h. h \in Values
    <3>1. CASE end < Len(payload)
      <4>1. (end < Len(payload)) = TRUE
        BY <3>1
      <4> QED
        BY <2>2, <2>p, <4>1, Zenon
    <3>2. CASE ~(end < Len(payload))
      <4>1. (end < Len(payload)) = FALSE
        BY <3>2
      <4> QED
        BY <2>2, <2>p, <4>1, Zenon
    <3> QED
      BY <3>1, <3>2
  <2>3. [k \in 1 .. HeaderSize |-> h] \in Seq(Values)
    BY <2>1, <2>h
  <2>4. SubSeq(payload, offset + 1, end) \in Seq(Values)
    BY <1>1, <1>4
  <2> QED
    BY <1>4, <1>5, <2>p, <2>1, <2>3, <2>4
<1>8. array' \in [Arrays -> Seq(Values)] /\ \A b \in Arrays \ {a} : array'[b] = array[b]
  <2>1. CASE ClassIndexForSize(total) > 0
    <3>1. ClassIndexForSize(total) \in 1 .. Len(Classes)
      <4> DEFINE fits == {i \in 1 .. Len(Classes) : total <= Classes[i]}
      <4>1. fits # {} /\ ClassIndexForSize(total) = Min(fits)
        BY <2>1 DEF ClassIndexForSize
      <4>2. fits \subseteq Nat
        BY ClassesAssumption
      <4>3. Min(fits) \in fits
        BY <4>1, <4>2, LeastOfNats
      <4> QED
        BY <4>1, <4>3
    <3> QED
      BY <1>0, <1>6, <1>7, <2>1, <3>1, GotArray
  <2>2. CASE ~(ClassIndexForSize(total) > 0)
    BY <1>0, <1>6, <1>7, <2>2, MadeArray
  <2> QED
    BY <2>1, <2>2
<1>9. \A b \in ArraysOf(first[c]) : b \in Arrays /\ b # a
  <2>1. \A d \in Conns : a \notin ArrayRefs(d)
    BY <1>0, <1>6, TakenArray
  <2>2. first[c] \in FrameRefs(c) /\ first[c] \in Frames
    BY <1>0 DEF FrameRefs, PoolTypes
  <2>3. ArraysOf(first[c]) \subseteq Arrays
    BY <1>0, <2>2 DEF PoolTypes, IsFrame, IsSlice, ArraysOf
  <2>4. \A b \in ArraysOf(first[c]) : b \in ArrayRefs(c)
    BY <2>2, RefersIs DEF Refers, ArraysOf
  <2> QED
    BY <2>1, <2>3, <2>4
<1>10. pc'[c] \in {"encode", "join", "write", "free", "broken"} /\ Answering(c)
  BY <1>0, <1>6 DEF PoolTypes, Answering
<1> QED
  BY <1>6, <1>8, <1>9, <1>10, AnswerGoesOn

\* The rest of the answer.
LEMMA WriteProgress ==
  ASSUME PoolInv, ContentInv, NEW c \in Conns,
         \/ EncodeFails(c) \/ JoinFragments(c) \/ WriteJoined(c) \/ WriteSingle(c)
         \/ FreeSingle(c) \/ WriteFails(c) \/ ExceptionCloses(c)
  PROVE  ContentTypes' /\ Progress(c)'
<1>0. /\ PoolTypes /\ Held(c) /\ ContentTypes /\ array \in [Arrays -> Seq(Values)]
      /\ pc[c] \in {"encode", "join", "write", "free", "broken"}
  BY ContentOf DEF PoolInv, ContentTypes, EncodeFails, JoinFragments, WriteJoined,
                   WriteSingle, FreeSingle, WriteFails, ExceptionCloses
<1>1. Answering(c) /\ first[c] # None
  BY <1>0 DEF Answering, Held
<1>2. CASE EncodeFails(c) \/ ExceptionCloses(c)
  <2>1. /\ AfterDispatch(c) /\ UNCHANGED <<script, pos, frame, idle, array, delivered>>
        /\ closed' = [closed EXCEPT ![c] = TRUE] /\ fault' = [fault EXCEPT ![c] = TRUE]
    BY <1>2 DEF EncodeFails, ExceptionCloses, poolVars
  <2> QED
    BY <1>0, <1>1, <2>1, AnswerEnds
<1>3. CASE WriteJoined(c)
  <2>1. /\ AfterDispatch(c) /\ UNCHANGED <<script, pos, frame, idle, array, delivered>>
        /\ UNCHANGED <<closed, fault>>
    BY <1>3 DEF WriteJoined, poolVars
  <2> QED
    BY <1>0, <1>1, <2>1, AnswerEnds
<1>4. CASE FreeSingle(c)
  <2>1. /\ AfterDispatch(c) /\ UNCHANGED <<script, pos, frame, idle, delivered>>
        /\ UNCHANGED <<closed, fault>> /\ PutOuts(c)
    BY <1>4 DEF FreeSingle
  <2>2. array' \in [Arrays -> Seq(Values)]
    BY <1>1, <2>1, PutOutsArrays
  <2> QED
    BY <1>0, <1>1, <2>1, <2>2, AnswerEnds
<1>5. CASE JoinFragments(c)
  <2>1. /\ UNCHANGED <<script, pos, first, frame, idle, closed, fault, delivered>>
        /\ PutOuts(c) /\ pc' = [pc EXCEPT ![c] = "write"]
    BY <1>5 DEF JoinFragments, Goto, decodeVars
  <2>2. /\ array' \in [Arrays -> Seq(Values)]
        /\ \A a \in ArraysOf(first[c]) : array'[a] = array[a]
    BY <1>1, <2>1, PutOutsArrays
  <2>3. pc'[c] = "write"
    BY <1>0, <2>1 DEF PoolTypes
  <2> QED
    BY <1>1, <2>1, <2>2, <2>3, AnswerGoesOn
<1>6. CASE WriteSingle(c)
  <2>1. /\ UNCHANGED <<script, pos, first, frame, idle, array, closed, fault, delivered>>
        /\ pc' = [pc EXCEPT ![c] = "free"]
    BY <1>6 DEF WriteSingle, Goto, decodeVars, poolVars
  <2>2. pc'[c] = "free"
    BY <1>0, <2>1 DEF PoolTypes
  <2> QED
    BY <1>0, <1>1, <2>1, <2>2, AnswerGoesOn
<1>7. CASE WriteFails(c)
  <2>1. /\ UNCHANGED <<script, pos, first, frame, idle, array, closed, fault, delivered>>
        /\ pc' = [pc EXCEPT ![c] = "broken"]
    BY <1>7 DEF WriteFails, Goto, decodeVars, poolVars
  <2>2. pc'[c] = "broken"
    BY <1>0, <2>1 DEF PoolTypes
  <2> QED
    BY <1>0, <1>1, <2>1, <2>2, AnswerGoesOn
<1> QED
  BY <1>2, <1>3, <1>4, <1>5, <1>6, <1>7

-----------------------------------------------------------------------------
(* The invariant                                                           *)

\* Where the stepping connection is afterwards.
LEMMA OwnProgress ==
  ASSUME PoolInv, ContentInv, NEW c \in Conns, Step(c)
  PROVE  ContentTypes' /\ Progress(c)'
  BY AcquireFrameProgress, ReadHeaderProgress, ReadPayloadProgress, ErrorProgress,
     AppendFragmentProgress, AssembledProgress, ReleaseProgress, ReleasedProgress,
     HandleProgress, HandlerPanicsProgress, EncodeFrameProgress, WriteProgress DEF Step

\* The bytes of the other connections stay where they are.
LEMMA OthersBytes ==
  ASSUME PoolInv, ContentTypes, NEW c \in Conns, Step(c), NEW d \in Conns \ {c}
  PROVE  \A a \in ArrayRefs(d) : array'[a] = array[a]
<1>0. PoolTypes /\ Owned /\ Allocated
  BY DEF PoolInv, ContentTypes, Allocated
<1>1. Writes(c)
  BY <1>0, StepWrites
<1>2. \A a \in ArrayRefs(d) : a \in Arrays /\ a \notin ArrayRefs(c)
  <2>1. FrameRefs(d) \subseteq Frames
    BY <1>0 DEF PoolTypes, FrameRefs, ToSet
  <2>2. \A f \in Frames : ArraysOf(f) \subseteq Arrays
    BY <1>0 DEF PoolTypes, IsFrame, IsSlice, ArraysOf
  <2>3. buf[d].arr \in Arrays \cup {None} /\ \A i \in DOMAIN outs[d] : outs[d][i].arr \in Arrays
    BY <1>0 DEF PoolTypes, IsSlice
  <2>4. ArrayRefs(d) \subseteq Arrays
    BY <2>1, <2>2, <2>3, RefersIs DEF Refers
  <2> QED
    BY <1>0, <2>4 DEF Owned
<1> QED
  BY <1>1, <1>2 DEF Writes

\* The invariant is inductive.
LEMMA ContentStep == PoolInv /\ ContentInv /\ [Next]_vars => ContentInv'
<1> SUFFICES ASSUME PoolInv, ContentInv, [Next]_vars PROVE ContentInv'
  OBVIOUS
<1>0. PoolTypes /\ Owned /\ ContentTypes /\ Allocated
  BY DEF PoolInv, ContentInv, ContentTypes, Allocated
<1>1. ASSUME NEW c \in Conns, Step(c) PROVE ContentInv'
  <2>1. ContentTypes' /\ Progress(c)'
    BY <1>1, OwnProgress
  <2>2. ASSUME NEW d \in Conns \ {c} PROVE Progress(d)'
    <3>1. Idles(d) /\ \A f \in FrameRefs(d) : frame'[f] = frame[f]
      BY <1>0, <1>1, StepMoves
    <3>4. \A a \in ArrayRefs(d) : array'[a] = array[a]
      BY <1>0, <1>1, OthersBytes
    <3>5. Progress(d)
      BY DEF ContentInv
    <3> QED
      BY <3>1, <3>4, <3>5, SameProgress
  <2> QED
    BY <2>1, <2>2 DEF ContentInv
<1>2. CASE \/ \E c \in Conns : PublishWrites(c)
           \/ UNCHANGED vars
  <2>1. /\ UNCHANGED <<script, pos, cur, first, buf, frame, idle, array, outs, pc, after, drops>>
        /\ UNCHANGED <<closed, fault, delivered>>
    BY <1>2 DEF PublishWrites, vars, decodeVars, poolVars, replyVars, flowVars
  <2>2. ContentTypes'
    BY <1>0, <2>1 DEF ContentTypes, NilSlice
  <2>3. ASSUME NEW d \in Conns PROVE Progress(d)'
    <3>1. Idles(d) /\ Progress(d)
      BY <2>1 DEF Idles, ContentInv
    <3> QED
      BY <2>1, <3>1, SameProgress
  <2> QED
    BY <2>2, <2>3 DEF ContentInv
<1> QED
  BY <1>1, <1>2 DEF Next

\* The invariant holds at the start.
LEMMA ContentStart == Init => ContentInv
<1> SUFFICES ASSUME Init PROVE ContentInv
  OBVIOUS
<1>1. ContentTypes
  <2>1. array \in [Arrays -> Seq(Values)]
    <3>1. <<>> \in Seq(Values)
      OBVIOUS
    <3> QED
      BY <3>1 DEF Init
  <2>2. /\ DOMAIN script = Conns /\ \A c \in Conns : script[c] \in Scripts[c]
        /\ pos \in [Conns -> Nat] /\ \A c \in Conns : pos[c] = 0
        /\ closed \in [Conns -> BOOLEAN] /\ fault \in [Conns -> BOOLEAN]
        /\ \A f \in Frames : idle[f] = 0
    BY DEF Init
  <2>3. delivered \in [Conns -> Seq(Seq(Values))]
    <3>1. <<>> \in Seq(Seq(Values))
      OBVIOUS
    <3> QED
      BY <3>1 DEF Init
  <2>4. \A c \in Conns : pos[c] <= Len(script[c])
    <3> SUFFICES ASSUME NEW c \in Conns PROVE pos[c] <= Len(script[c])
      OBVIOUS
    <3>1. Len(script[c]) \in Nat
      BY <2>2, ScriptIs
    <3> QED
      BY <2>2, <3>1
  <2> QED
    BY <2>1, <2>2, <2>3, <2>4 DEF ContentTypes
<1>2. ASSUME NEW c \in Conns PROVE Progress(c)
  <2>p. PICK w : w = script[c]
    OBVIOUS
  <2>0. /\ w \in Scripts[c] /\ pos[c] = 0 /\ pc[c] = "decode" /\ ~closed[c] /\ first[c] = None
        /\ delivered[c] = <<>>
    BY <2>p DEF Init
  <2>1. Len(w) \in Nat
    BY <2>0, ScriptIs
  <2>2. \A t \in Spans(w) : ~(t[1] < 1)
    <3> SUFFICES ASSUME NEW t \in Spans(w) PROVE ~(t[1] < 1)
      OBVIOUS
    <3>1. t[1] \in 1 .. Len(w)
      BY <2>0, SpansApart
    <3> QED
      BY <2>1, <3>1
  <2>3. Cardinality({t \in Spans(w) : t[1] < 1}) = 0
    <3>1. {t \in Spans(w) : t[1] < 1} = {}
      BY <2>2
    <3> QED
      BY <3>1, FS_EmptySet
  <2>4. Len(delivered[c]) = 0 /\ Len(Framed[c][w]) \in Nat
    BY <2>0, FramedIs
  <2>5. Opened(c, 1)
    BY <2>p, <2>1, <2>2, <2>3, <2>4 DEF Opened
  <2>6. pos[c] + 1 = 1
    BY <2>0
  <2> QED
    BY <2>0, <2>5, <2>6 DEF Progress, NextIsNew, Continued, Fetched, HasFragment, HasMessage,
                       Answers, Finished, Reading, Releasing, Answering
<1> QED
  BY <1>1, <1>2 DEF ContentInv

\* Both invariants hold throughout.
LEMMA ContentHolds == Spec => [](PoolInv /\ ContentInv)
<1> QED
  BY PoolStart, PoolStep, ContentStart, ContentStep, PTL DEF Spec

-----------------------------------------------------------------------------
(* What the handlers see                                                   *)

\* The payload that a handler of ctx.HandleRead reads in place, and that its
\* answer is encoded from, is the peer's next message, byte for byte, until the
\* frame is released, whatever the other connections do with the pools.
THEOREM PayloadIntact == Spec => []DispatchedIntact
<1>1. ASSUME PoolInv, ContentInv PROVE DispatchedIntact
  <2> SUFFICES ASSUME NEW c \in Conns,
                      pc[c] \in {"dispatch", "encode", "join", "write", "free", "broken"},
                      NEW n, n = Len(delivered[c]) + IF pc[c] = "dispatch" THEN 1 ELSE 0
               PROVE  /\ n <= Len(Framed[c][script[c]])
                      /\ Content(frame[first[c]].payload) = Framed[c][script[c]][n]
    BY DEF DispatchedIntact
  <2>1. CASE pc[c] = "dispatch"
    BY <1>1, <2>1, MessageAtHand
  <2>2. CASE pc[c] # "dispatch"
    <3>1. Answering(c) /\ Progress(c) /\ delivered[c] \in Seq(Seq(Values))
      BY <1>1, <2>2, ContentOf DEF Answering
    <3>2. /\ Opened(c, pos[c] + 1) /\ Len(delivered[c]) > 0
          /\ Content(frame[first[c]].payload) = delivered[c][Len(delivered[c])]
      BY <3>1 DEF Progress, Answers
    <3>3. n = Len(delivered[c]) /\ n \in 1 .. n
      BY <2>2, <3>1, <3>2
    <3> QED
      BY <3>2, <3>3 DEF Opened
  <2> QED
    BY <2>1, <2>2
<1> QED
  BY <1>1, ContentHolds, PTL

\* A connection that the worker loop leaves for no other reason than its stream
\* has had every message of the stream dispatched, in order and whole, up to the
\* first one that breaks the rules of the framing.
THEOREM StreamDispatched == Spec => []WholeStreamDispatched
<1>1. ASSUME PoolInv, ContentInv PROVE WholeStreamDispatched
  <2> SUFFICES ASSUME NEW c \in Conns, pc[c] = "end", ~fault[c]
               PROVE  delivered[c] = Framed[c][script[c]]
    BY DEF WholeStreamDispatched
  <2>1. Finished(c)
    BY <1>1, ContentOf DEF Progress
  <2> QED
    BY <2>1 DEF Finished
<1> QED
  BY <1>1, ContentHolds, PTL

\* The codec implements the message stream its handlers rely on: the dispatch is
\* the delivery of the next message the peer framed, and every other step closes
\* the connection or does not concern the handlers.
THEOREM MessageStreamImplemented == Spec => ImplementsMessageStream
<1> DEFINE open == [c \in Conns |-> ~closed[c]]
<1>1. Init => Stream!Init
  <2> SUFFICES ASSUME Init PROVE Stream!Init
    OBVIOUS
  <2>1. open = [c \in Conns |-> TRUE]
    BY DEF Init
  <2> QED
    BY <2>1 DEF Init, Stream!Init
<1>2. PoolInv /\ ContentInv /\ [Next]_vars => [Stream!Next]_(Stream!vars)
  <2> SUFFICES ASSUME PoolInv, ContentInv, [Next]_vars PROVE [Stream!Next]_(Stream!vars)
    OBVIOUS
  <2>0. DOMAIN closed = Conns /\ DOMAIN delivered = Conns
    BY DEF ContentInv, ContentTypes
  <2>1. ASSUME UNCHANGED <<script, delivered, closed>> PROVE UNCHANGED Stream!vars
    <3>1. open' = open
      BY <2>1
    <3> QED
      BY <2>1, <3>1 DEF Stream!vars
  <2>2. ASSUME NEW c \in Conns, UNCHANGED <<script, delivered>>,
               closed' = [closed EXCEPT ![c] = TRUE]
        PROVE  Stream!Next
    <3>1. open' = [open EXCEPT ![c] = FALSE]
      BY <2>0, <2>2
    <3>2. Stream!Close(c)
      BY <2>2, <3>1 DEF Stream!Close
    <3> QED
      BY <3>2 DEF Stream!Next
  <2>3. ASSUME NEW c \in Conns, Handle(c) PROVE Stream!Next
    <3>p. PICK n : n = Len(delivered[c])
      OBVIOUS
    <3>1. /\ pc[c] = "dispatch" /\ UNCHANGED <<script, closed>>
          /\ delivered' = [delivered EXCEPT ![c] = Append(@, Content(frame[first[c]].payload))]
      BY <2>3 DEF Handle
    <3>2. /\ n \in Nat /\ n + 1 <= Len(Framed[c][script[c]])
          /\ Content(frame[first[c]].payload) = Framed[c][script[c]][n + 1]
      BY <3>p, <3>1, MessageAtHand
    <3>3. n < Len(Framed[c][script[c]])
      <4>1. Len(Framed[c][script[c]]) \in Nat
        BY ContentOf, FramedIs
      <4> QED
        BY <3>2, <4>1
    <3>4. delivered' = [delivered EXCEPT ![c] = Append(@, Framed[c][script[c]][Len(@) + 1])]
      BY <3>p, <3>1, <3>2
    <3>5. open[c] /\ open' = open
      BY <3>1, ContentOf
    <3>6. Stream!Deliver(c)
      BY <3>p, <3>1, <3>3, <3>4, <3>5 DEF Stream!Deliver
    <3> QED
      BY <3>6 DEF Stream!Next
  <2>4. ASSUME NEW c \in Conns, Released(c) PROVE [Stream!Next]_(Stream!vars)
    <3>1. /\ UNCHANGED <<script, delivered>>
          /\ closed' = [closed EXCEPT ![c] = closed[c] \/ after[c] = "close"]
      BY <2>4 DEF Released, decodeVars, ClosedBy
    <3>2. CASE closed[c] \/ after[c] = "close"
      <4>1. closed' = [closed EXCEPT ![c] = TRUE]
        BY <3>1, <3>2
      <4> QED
        BY <2>2, <3>1, <4>1
    <3>3. CASE ~(closed[c] \/ after[c] = "close")
      <4>1. closed' = closed
        <5>1. closed[c] = FALSE
          BY <3>3, ContentOf
        <5>2. closed' = [closed EXCEPT ![c] = FALSE]
          BY <3>1, <3>3
        <5>3. closed \in [Conns -> BOOLEAN]
          BY DEF ContentInv, ContentTypes
        <5>4. closed' \in [Conns -> BOOLEAN] /\ \A d \in Conns : closed'[d] = closed[d]
          BY <5>1, <5>2, <5>3
        <5> QED
          BY <5>3, <5>4
      <4> QED
        BY <2>1, <3>1, <4>1
    <3> QED
      BY <3>2, <3>3
  <2>5. ASSUME NEW c \in Conns, HandlerPanics(c) \/ EncodeFails(c) \/ ExceptionCloses(c)
        PROVE  Stream!Next
    <3>1. UNCHANGED <<script, delivered>> /\ closed' = [closed EXCEPT ![c] = TRUE]
      BY <2>5 DEF HandlerPanics, EncodeFails, ExceptionCloses
    <3> QED
      BY <2>2, <3>1
  <2>6. ASSUME NEW c \in Conns,
               \/ AcquireFrame(c) \/ ReadHeader(c) \/ HeaderRefused(c) \/ ReadPayload(c)
               \/ ReadFails(c) \/ StreamViolation(c) \/ AppendFragment(c) \/ StreamTooLarge(c)
               \/ Assembled(c) \/ Release(c)
        PROVE  UNCHANGED Stream!vars
    <3>1. UNCHANGED <<script, delivered, closed>>
      BY <2>6 DEF AcquireFrame, ReadHeader, HeaderRefused, ReadPayload, ReadFails,
                  StreamViolation, AppendFragment, StreamTooLarge, Assembled, Release, decodeVars
    <3> QED
      BY <2>1, <3>1
  <2>7. ASSUME NEW c \in Conns,
               \/ EncodeFrame(c) \/ JoinFragments(c) \/ WriteJoined(c) \/ WriteSingle(c)
               \/ FreeSingle(c) \/ WriteFails(c) \/ PublishWrites(c)
        PROVE  UNCHANGED Stream!vars
    <3>1. UNCHANGED <<script, delivered, closed>>
      BY <2>7 DEF EncodeFrame, JoinFragments, WriteJoined, WriteSingle, FreeSingle,
                  WriteFails, PublishWrites, decodeVars, flowVars
    <3> QED
      BY <2>1, <3>1
  <2>8. CASE UNCHANGED vars
    <3>1. UNCHANGED <<script, delivered, closed>>
      BY <2>8 DEF vars, decodeVars, flowVars
    <3> QED
      BY <2>1, <3>1
  <2> QED
    BY <2>3, <2>4, <2>5, <2>6, <2>7, <2>8 DEF Next, Step
<1> QED
  BY <1>1, <1>2, ContentHolds, PTL DEF Spec, Stream!Spec, ImplementsMessageStream

-----------------------------------------------------------------------------
(* What the peer gets                                                      *)

\* The frames on the wire to a peer, and the ones of replies among them, read or not.
Stray == {PublishBytes, TornPublish, TornReply}

Lines == Seq(Values) \cup Stray

Whole(w) == {i \in DOMAIN w : w[i] \notin Stray}

Filled(w) == UNION {Payload(w[i]) : i \in Whole(w)}

Ordered(w) ==
  \A i, j \in Whole(w) :
    \A k \in HeaderSize + 1 .. Len(w[i]), l \in HeaderSize + 1 .. Len(w[j]) :
      i < j \/ (i = j /\ k < l) => Before(w[i][k], w[j][l])

\* A fragment that announces another one is followed by one, or but for the last.
Linked(w) == \A i \in Whole(w) : w[i][1] = HeaderByte(TRUE) => i + 1 \in Whole(w)

Loose(w) ==
  \A i \in Whole(w) :
    w[i][1] = HeaderByte(TRUE) => i + 1 \in Whole(w) \/ \A j \in Whole(w) : j <= i

\* A write has failed, and the connection is closed or will be.
Snapped(c) == closed[c] \/ pc[c] = "broken"

Pending(c) == pc[c] \in {"encode", "join", "write"}

\* The message that was dispatched last.
Newest(c) == delivered[c][Len(delivered[c])]

Sorted(m) == \A n, k \in DOMAIN m : n < k => Before(m[n], m[k])

\* The first n bytes.
FirstOf(m, n) == {m[k] : k \in 1 .. n}

\* r is the frames of a reply with the first n bytes of m.
Draft(r, m, n) ==
  r \in Seq(Lines) /\ Whole(r) = DOMAIN r /\ Ordered(r) /\ Filled(r) = FirstOf(m, n)

\* What was dispatched lies before the message that is being read.
Passed(c) ==
  \A i \in 1 .. Len(script[c]) + 1 :
    Opened(c, i) =>
      \A n \in DOMAIN delivered[c] :
        \A b \in ToSet(delivered[c][n]) : b[2] \in Nat /\ b[2] < i

\* What was dispatched is bytes of peers.
Marks == Conns \X Nat \X Nat

Marked(c) == \A n \in DOMAIN delivered[c] : ToSet(delivered[c][n]) \subseteq Marks

\* The header of the message at hand has the type of its frames.
Typed(c) == pc[c] = "dispatch" => frame[first[c]].head.type = script[c][pos[c]].type

\* The reply so far.
Drafted(c) ==
  /\ pc[c] \notin {"encode", "join", "free"} => outs[c] = <<>>
  /\ Pending(c) => Sorted(Newest(c))
  /\ pc[c] = "encode" =>
       /\ outs[c] = <<>> \/ Len(outs[c]) * FragmentSize(c) < Len(Newest(c))
       /\ Draft(OutContents(c), Newest(c), Len(outs[c]) * FragmentSize(c))
  /\ pc[c] = "join" =>
       Draft(OutContents(c), Newest(c), Len(Newest(c))) /\ Linked(OutContents(c))
  /\ pc[c] = "write" =>
       Draft(joined[c], Newest(c), Len(Newest(c))) /\ Linked(joined[c])

\* What is on the wire: everything asked for, but for the reply that is still
\* to be written, or that the connection was closed over.
Wired(c) ==
  /\ written[c] \in Seq(Lines) /\ Ordered(written[c]) /\ Loose(written[c])
  /\ ~Snapped(c) =>
       Linked(written[c]) /\ \A i \in DOMAIN written[c] : written[c][i] # TornReply
  /\ Filled(written[c]) \subseteq Asked(c)
  /\ \A b \in Filled(written[c]), a \in Asked(c) : Before(a, b) => a \in Filled(written[c])
  /\ ~Snapped(c) /\ ~Pending(c) => Filled(written[c]) = Asked(c)
  /\ Pending(c) =>
       /\ Asked(c) = Filled(written[c]) \cup ToSet(Newest(c))
       /\ \A b \in Filled(written[c]), a \in ToSet(Newest(c)) : Before(b, a)

ReplyTypes == DOMAIN joined = Conns /\ DOMAIN written = Conns

Replied(c) == Passed(c) /\ Marked(c) /\ Typed(c) /\ Drafted(c) /\ Wired(c)

ReplyInv == ReplyTypes /\ \A c \in Conns : Replied(c)

\* Stated by members: a payload byte on the wire.
LEMMA FilledIs ==
  ASSUME NEW w, NEW b
  PROVE  b \in Filled(w) <=>
           \E i \in Whole(w) : \E k \in HeaderSize + 1 .. Len(w[i]) : b = w[i][k]
  BY DEF Filled, Payload

\* x is u, of p frames, followed by v.
Follow(x, u, v, p) ==
  /\ x \in Seq(Lines) /\ p \in Nat
  /\ \A i \in Whole(u) : i \in Nat /\ i <= p /\ i \in Whole(x) /\ x[i] = u[i]
  /\ \A i \in Whole(v) : i \in Nat /\ i > 0 /\ p + i \in Whole(x) /\ x[p + i] = v[i]
  /\ \A i \in Whole(x) : \/ i \in Whole(u) /\ x[i] = u[i]
                         \/ \E k \in Whole(v) : i = p + k /\ x[i] = v[k]

\* Where the frames of two runs are when one follows the other.
LEMMA RunsJoined ==
  ASSUME NEW u \in Seq(Lines), NEW v \in Seq(Lines), NEW x, x = u \o v, NEW p, p = Len(u)
  PROVE  Follow(x, u, v, p)
<1>p. PICK q : q = Len(v)
  OBVIOUS
<1>1. /\ x \in Seq(Lines) /\ p \in Nat /\ q \in Nat /\ DOMAIN x = 1 .. p + q
      /\ DOMAIN u = 1 .. p /\ DOMAIN v = 1 .. q
  BY <1>p DEF Lines
<1>2. /\ \A i \in 1 .. p : x[i] = u[i] /\ i \in 1 .. p + q
      /\ \A i \in 1 .. q : x[p + i] = v[i] /\ p + i \in 1 .. p + q
  BY <1>p, <1>1
<1>3. \A i \in 1 .. p + q : i \in 1 .. p \/ \E k \in 1 .. q : i = p + k
  <2> SUFFICES ASSUME NEW i \in 1 .. p + q, i \notin 1 .. p PROVE \E k \in 1 .. q : i = p + k
    OBVIOUS
  <2>1. i - p \in 1 .. q /\ i = p + (i - p)
    BY <1>1
  <2> QED
    BY <2>1
<1>4. ASSUME NEW i \in Whole(u)
      PROVE  i \in Nat /\ i <= p /\ i \in Whole(x) /\ x[i] = u[i]
  BY <1>1, <1>2 DEF Whole
<1>5. ASSUME NEW i \in Whole(v)
      PROVE  i \in Nat /\ i > 0 /\ p + i \in Whole(x) /\ x[p + i] = v[i]
  BY <1>1, <1>2 DEF Whole
<1>6. ASSUME NEW i \in Whole(x)
      PROVE  \/ i \in Whole(u) /\ x[i] = u[i]
             \/ \E k \in Whole(v) : i = p + k /\ x[i] = v[k]
  <2>1. i \in 1 .. p + q /\ x[i] \notin Stray
    BY <1>1, <1>6 DEF Whole
  <2>2. CASE i \in 1 .. p
    BY <1>1, <1>2, <2>1, <2>2 DEF Whole
  <2>3. ASSUME NEW k \in 1 .. q, i = p + k PROVE k \in Whole(v) /\ x[i] = v[k]
    BY <1>1, <1>2, <2>1, <2>3 DEF Whole
  <2> QED
    BY <1>3, <2>1, <2>2, <2>3
<1> QED
  BY <1>1, <1>4, <1>5, <1>6 DEF Follow

\* What follows on the wire what came before it.
LEMMA Chained ==
  ASSUME NEW u, NEW v, NEW x, NEW p, Follow(x, u, v, p),
         Ordered(u), Ordered(v), \A a \in Filled(u), b \in Filled(v) : Before(a, b)
  PROVE  /\ x \in Seq(Lines) /\ Ordered(x) /\ Filled(x) = Filled(u) \cup Filled(v)
         /\ Linked(u) /\ Linked(v) => Linked(x)
         /\ Linked(u) /\ Loose(v) => Loose(x)
<1>1. /\ x \in Seq(Lines) /\ p \in Nat
      /\ \A i \in Whole(u) : i \in Nat /\ i <= p /\ i \in Whole(x) /\ x[i] = u[i]
      /\ \A i \in Whole(v) : i \in Nat /\ i > 0 /\ p + i \in Whole(x) /\ x[p + i] = v[i]
      /\ \A i \in Whole(x) : \/ i \in Whole(u) /\ x[i] = u[i]
                             \/ \E k \in Whole(v) : i = p + k /\ x[i] = v[k]
  BY DEF Follow
<1>2. Filled(x) = Filled(u) \cup Filled(v)
  <2>1. ASSUME NEW b \in Filled(x) PROVE b \in Filled(u) \/ b \in Filled(v)
    <3>1. PICK i \in Whole(x) : \E k \in HeaderSize + 1 .. Len(x[i]) : b = x[i][k]
      BY <2>1, FilledIs
    <3>2. CASE i \in Whole(u) /\ x[i] = u[i]
      BY <3>1, <3>2, FilledIs
    <3>3. ASSUME NEW k \in Whole(v), x[i] = v[k] PROVE b \in Filled(v)
      BY <3>1, <3>3, FilledIs
    <3> QED
      BY <1>1, <3>2, <3>3
  <2>2. ASSUME NEW b \in Filled(u) PROVE b \in Filled(x)
    <3>1. PICK i \in Whole(u) : \E k \in HeaderSize + 1 .. Len(u[i]) : b = u[i][k]
      BY <2>2, FilledIs
    <3>2. i \in Whole(x) /\ x[i] = u[i]
      BY <1>1
    <3> QED
      BY <3>1, <3>2, FilledIs
  <2>3. ASSUME NEW b \in Filled(v) PROVE b \in Filled(x)
    <3>1. PICK i \in Whole(v) : \E k \in HeaderSize + 1 .. Len(v[i]) : b = v[i][k]
      BY <2>3, FilledIs
    <3>2. p + i \in Whole(x) /\ x[p + i] = v[i]
      BY <1>1
    <3> QED
      BY <3>1, <3>2, FilledIs
  <2> QED
    BY <2>1, <2>2, <2>3
<1>3. Ordered(x)
  <2> SUFFICES ASSUME NEW i \in Whole(x), NEW j \in Whole(x),
                      NEW k \in HeaderSize + 1 .. Len(x[i]), NEW l \in HeaderSize + 1 .. Len(x[j]),
                      i < j \/ (i = j /\ k < l)
               PROVE  Before(x[i][k], x[j][l])
    BY DEF Ordered
  <2>1. CASE i \in Whole(u) /\ x[i] = u[i] /\ j \in Whole(u) /\ x[j] = u[j]
    BY <2>1 DEF Ordered
  <2>2. ASSUME NEW g \in Whole(v), j = p + g, x[j] = v[g], i \in Whole(u), x[i] = u[i]
        PROVE  Before(x[i][k], x[j][l])
    <3>1. x[i][k] \in Filled(u) /\ x[j][l] \in Filled(v)
      BY <2>2, FilledIs
    <3> QED
      BY <3>1
  <2>3. ASSUME NEW f \in Whole(v), i = p + f, x[i] = v[f], j \in Whole(u)
        PROVE  FALSE
    <3>1. f \in Nat /\ f > 0 /\ j \in Nat /\ j <= p
      BY <1>1, <2>3
    <3> QED
      BY <1>1, <2>3, <3>1
  <2>4. ASSUME NEW f \in Whole(v), i = p + f, x[i] = v[f],
               NEW g \in Whole(v), j = p + g, x[j] = v[g]
        PROVE  Before(x[i][k], x[j][l])
    <3>1. f \in Nat /\ g \in Nat
      BY <1>1
    <3>2. f < g \/ (f = g /\ k < l)
      BY <1>1, <2>4, <3>1
    <3> QED
      BY <2>4, <3>2 DEF Ordered
  <2> QED
    BY <1>1, <2>1, <2>2, <2>3, <2>4
<1>4. ASSUME Linked(u), Linked(v) PROVE Linked(x)
  <2> SUFFICES ASSUME NEW i \in Whole(x), x[i][1] = HeaderByte(TRUE) PROVE i + 1 \in Whole(x)
    BY DEF Linked
  <2>1. CASE i \in Whole(u) /\ x[i] = u[i]
    BY <1>1, <1>4, <2>1 DEF Linked
  <2>2. ASSUME NEW k \in Whole(v), i = p + k, x[i] = v[k] PROVE i + 1 \in Whole(x)
    <3>1. k + 1 \in Whole(v) /\ k \in Nat
      BY <1>1, <1>4, <2>2 DEF Linked
    <3>2. p + (k + 1) \in Whole(x)
      BY <1>1, <3>1
    <3>3. p + (k + 1) = i + 1
      BY <1>1, <2>2, <3>1
    <3> QED
      BY <3>2, <3>3
  <2> QED
    BY <1>1, <2>1, <2>2
<1>5. ASSUME Linked(u), Loose(v) PROVE Loose(x)
  <2> SUFFICES ASSUME NEW i \in Whole(x), x[i][1] = HeaderByte(TRUE)
               PROVE  i + 1 \in Whole(x) \/ \A j \in Whole(x) : j <= i
    BY DEF Loose
  <2>1. CASE i \in Whole(u) /\ x[i] = u[i]
    BY <1>1, <1>5, <2>1 DEF Linked
  <2>2. ASSUME NEW k \in Whole(v), i = p + k, x[i] = v[k]
        PROVE  i + 1 \in Whole(x) \/ \A j \in Whole(x) : j <= i
    <3>0. k \in Nat /\ k > 0
      BY <1>1
    <3>1. CASE k + 1 \in Whole(v)
      <4>1. p + (k + 1) \in Whole(x)
        BY <1>1, <3>1
      <4>2. p + (k + 1) = i + 1
        BY <1>1, <2>2, <3>0
      <4> QED
        BY <4>1, <4>2
    <3>2. ASSUME \A l \in Whole(v) : l <= k, NEW j \in Whole(x) PROVE j <= i
      <4>1. CASE j \in Whole(u)
        BY <1>1, <2>2, <3>0, <4>1
      <4>2. ASSUME NEW l \in Whole(v), j = p + l PROVE j <= i
        BY <1>1, <2>2, <3>0, <3>2, <4>2
      <4> QED
        BY <1>1, <4>1, <4>2
    <3> QED
      BY <1>5, <2>2, <3>1, <3>2 DEF Loose
  <2> QED
    BY <1>1, <2>1, <2>2
<1> QED
  BY <1>1, <1>2, <1>3, <1>4, <1>5

\* A frame of bytes on its own.
LEMMA OneFrame ==
  ASSUME NEW r, r \in Lines, NEW v, v = <<r>>
  PROVE  /\ v \in Seq(Lines) /\ DOMAIN v = {1} /\ v[1] = r
         /\ r \in Stray => Whole(v) = {}
         /\ r \notin Stray => Whole(v) = {1} /\ v[1] = r
<1>1. v \in Seq(Lines) /\ DOMAIN v = {1} /\ v[1] = r
  <2>1. DOMAIN v = 1 .. 1 /\ v[1] = r
    OBVIOUS
  <2>2. 1 .. 1 = {1}
    OBVIOUS
  <2> HIDE DEF Lines
  <2> QED
    BY <2>1, <2>2
<1> QED
  BY <1>1 DEF Whole

\* Nothing, or a frame that is not of a reply, at the end.
LEMMA StrayFollows ==
  ASSUME NEW u \in Seq(Lines), NEW v, v = <<>> \/ \E s \in Stray : v = <<s>>,
         NEW x, x = u \o v, NEW p, p = Len(u)
  PROVE  /\ x \in Seq(Lines) /\ Filled(x) = Filled(u) /\ (Ordered(u) => Ordered(x))
         /\ Linked(u) => Linked(x)
         /\ Loose(u) => Loose(x)
<1>1. v \in Seq(Lines) /\ Whole(v) = {} /\ \A k \in DOMAIN v : v = <<v[k]>>
  <2>1. CASE v = <<>>
    <3>1. DOMAIN v = {} /\ v \in Seq(Lines)
      BY <2>1
    <3> QED
      BY <3>1 DEF Whole
  <2>2. ASSUME NEW s \in Stray, v = <<s>> PROVE v \in Seq(Lines) /\ Whole(v) = {} /\ DOMAIN v = {1} /\ v[1] = s
    <3>1. s \in Lines
      BY <2>2 DEF Lines
    <3> QED
      BY <2>2, <3>1, OneFrame
  <2> QED
    BY <2>1, <2>2
<1>2. Follow(x, u, v, p)
  BY <1>1, RunsJoined
<1>3. /\ x \in Seq(Lines) /\ \A i : i \in Whole(x) <=> i \in Whole(u)
      /\ \A i \in Whole(u) : x[i] = u[i]
  BY <1>1, <1>2 DEF Follow
<1>4. Whole(x) = Whole(u)
  BY <1>3
<1>6. Filled(x) = Filled(u)
  BY <1>3, <1>4 DEF Filled
<1>7. Ordered(u) => Ordered(x)
  <2> SUFFICES ASSUME Ordered(u), NEW i \in Whole(x), NEW j \in Whole(x),
                      NEW k \in HeaderSize + 1 .. Len(x[i]), NEW l \in HeaderSize + 1 .. Len(x[j]),
                      i < j \/ (i = j /\ k < l)
               PROVE  Before(x[i][k], x[j][l])
    BY DEF Ordered
  <2>1. i \in Whole(u) /\ j \in Whole(u) /\ x[i] = u[i] /\ x[j] = u[j]
    BY <1>3
  <2>2. \A kk \in HeaderSize + 1 .. Len(u[i]), ll \in HeaderSize + 1 .. Len(u[j]) :
          i < j \/ (i = j /\ kk < ll) => Before(u[i][kk], u[j][ll])
    BY <2>1 DEF Ordered
  <2> QED
    BY <2>1, <2>2
<1>8. /\ Linked(u) => Linked(x)
      /\ Loose(u) => Loose(x)
  BY <1>3, <1>4 DEF Linked, Loose
<1> QED
  BY <1>3, <1>6, <1>7, <1>8

\* Each frame is an earlier one or the last one.
LEMMA LastFrame ==
  ASSUME NEW u \in Seq(Lines), NEW s \in Lines
  PROVE  \A i \in DOMAIN Append(u, s) :
           Append(u, s)[i] = s \/ (i \in DOMAIN u /\ Append(u, s)[i] = u[i])
  OBVIOUS

\* Stated by members: a byte of a request, before and after a step.
LEMMA AskedIs ==
  ASSUME NEW c
  PROVE  /\ \A b : b \in Asked(c) <=>
              /\ \E n \in DOMAIN delivered[c] : b \in ToSet(delivered[c][n])
              /\ script[c][b[2]].type = "request"
         /\ \A b : b \in Asked(c)' <=>
              /\ \E n \in DOMAIN delivered'[c] : b \in ToSet(delivered'[c][n])
              /\ script'[c][b[2]].type = "request"
<1>1. ASSUME NEW b
      PROVE  b \in Asked(c) <=>
              /\ \E n \in DOMAIN delivered[c] : b \in ToSet(delivered[c][n])
              /\ script[c][b[2]].type = "request"
  BY DEF Asked
<1>2. ASSUME NEW b
      PROVE  b \in Asked(c)' <=>
              /\ \E n \in DOMAIN delivered'[c] : b \in ToSet(delivered'[c][n])
              /\ script'[c][b[2]].type = "request"
  BY DEF Asked
<1> QED
  BY <1>1, <1>2

\* Nothing is dispatched.
LEMMA SameAsked ==
  ASSUME NEW c \in Conns, script'[c] = script[c], delivered'[c] = delivered[c]
  PROVE  /\ Asked(c)' = Asked(c) /\ Newest(c)' = Newest(c)
         /\ Passed(c) => Passed(c)'
         /\ Marked(c) => Marked(c)'
<1>1. Asked(c)' = Asked(c) /\ Newest(c)' = Newest(c)
  BY DEF Asked, Newest
<1>2. \A i : Opened(c, i)' => Opened(c, i)
  BY DEF Opened
<1>3. Marked(c) => Marked(c)'
  BY DEF Marked
<1> QED
  BY <1>1, <1>2, <1>3 DEF Passed

\* Nothing is written, and no answer is under way any more.
LEMMA QuietReplied ==
  ASSUME NEW c \in Conns, Replied(c), Typed(c)', script'[c] = script[c],
         delivered'[c] = delivered[c], written'[c] = written[c], outs'[c] = <<>>,
         ~Pending(c)', closed'[c] \/ (~Snapped(c) /\ ~Pending(c))
  PROVE  Replied(c)'
<1>1. Asked(c)' = Asked(c) /\ Passed(c)' /\ Marked(c)'
  BY SameAsked DEF Replied
<1>2. Drafted(c)'
  BY DEF Drafted, Pending
<1>3. Wired(c)'
  BY <1>1 DEF Replied, Wired, Snapped
<1> QED
  BY <1>1, <1>2, <1>3 DEF Replied

\* The encoded buffers of a connection are left alone.
LEMMA SameOuts ==
  ASSUME PoolInv, NEW c \in Conns, outs'[c] = outs[c],
         \A i \in DOMAIN outs[c] : array'[outs[c][i].arr] = array[outs[c][i].arr]
  PROVE  OutContents(c)' = OutContents(c)
<1>1. DOMAIN outs[c] = 1 .. Len(outs[c])
  <2>1. outs[c] \in Seq(ToSet(outs[c]))
    BY DEF PoolInv, PoolTypes
  <2> QED
    BY <2>1
<1>2. ASSUME NEW i \in 1 .. Len(outs[c]) PROVE Content(outs[c][i])' = Content(outs[c][i])
  BY <1>1 DEF Content
<1> QED
  BY <1>2 DEF OutContents

\* A connection that is left alone has its replies where they were.
LEMMA SameReplied ==
  ASSUME PoolInv, NEW d \in Conns, Replied(d), Idles(d),
         joined'[d] = joined[d], written'[d] = written[d],
         \A f \in FrameRefs(d) : frame'[f] = frame[f],
         \A a \in ArrayRefs(d) : array'[a] = array[a]
  PROVE  Replied(d)'
<1>0. Held(d) /\ PoolTypes
  BY DEF PoolInv
<1>1. /\ script'[d] = script[d] /\ pos'[d] = pos[d] /\ delivered'[d] = delivered[d]
      /\ pc'[d] = pc[d] /\ first'[d] = first[d] /\ closed'[d] = closed[d] /\ outs'[d] = outs[d]
  BY DEF Idles
<1>2. Asked(d)' = Asked(d) /\ Newest(d)' = Newest(d) /\ Passed(d)' /\ Marked(d)'
  BY <1>1, SameAsked DEF Replied
<1>3. Typed(d)'
  <2>1. pc[d] = "dispatch" => first[d] \in FrameRefs(d)
    BY <1>0 DEF Held, FrameRefs
  <2> QED
    BY <1>1, <2>1 DEF Replied, Typed
<1>4. OutContents(d)' = OutContents(d)
  <2>1. \A i \in DOMAIN outs[d] : outs[d][i].arr \in ArrayRefs(d)
    <3>1. \A i \in DOMAIN outs[d] : outs[d][i].arr \in Arrays /\ outs[d][i].arr # None
      BY <1>0, NoneAssumption DEF PoolTypes
    <3> QED
      BY <3>1, RefersIs DEF Refers
  <2> QED
    BY <1>1, <2>1, SameOuts
<1>5. Pending(d)' <=> Pending(d)
  BY <1>1 DEF Pending
<1>6. Drafted(d)'
  BY <1>1, <1>2, <1>4, <1>5 DEF Replied, Drafted
<1>7. Wired(d)'
  BY <1>1, <1>2, <1>5 DEF Replied, Wired, Snapped
<1> QED
  BY <1>2, <1>3, <1>6, <1>7 DEF Replied

\* The type of a message is that of its first frame, and of all.
LEMMA ReadPayloadTyped ==
  ASSUME PoolInv, ContentInv, NEW c \in Conns, ReadPayload(c)
  PROVE  Typed(c)'
<1>0. /\ PoolTypes /\ Held(c) /\ pc[c] = "payload" /\ Room(c) /\ pos \in [Conns -> Nat]
      /\ cur[c] # None
  BY ContentOf DEF PoolInv, ReadPayload, ContentTypes, Progress, Fetched, Held
<1>1. /\ UNCHANGED <<script, frame>> /\ pos'[c] = pos[c] + 1
  BY <1>0 DEF ReadPayload
<1>2. frame[cur[c]].head = script[c][pos[c] + 1]
  BY <1>0 DEF Room
<1>3. pc'[c] = "dispatch" => first'[c] = cur[c]
  BY <1>0 DEF ReadPayload, Goto, PoolTypes
<1> QED
  BY <1>1, <1>2, <1>3 DEF Typed

LEMMA AssembledTyped ==
  ASSUME PoolInv, ContentInv, NEW c \in Conns, Assembled(c)
  PROVE  Typed(c)'
<1>0. /\ PoolTypes /\ Held(c) /\ pc[c] \in {"more", "last"} /\ pos[c] \in Nat /\ Progress(c)
      /\ first[c] \in Frames
  <2>1. PoolTypes /\ Held(c) /\ pc[c] \in {"more", "last"}
    BY DEF PoolInv, Assembled
  <2> QED
    BY <2>1, ContentOf DEF PoolTypes, Held
<1>1. CASE pc[c] = "more"
  <2>1. pc'[c] = "decode"
    BY <1>0, <1>1 DEF Assembled, Goto, PoolTypes
  <2> QED
    BY <2>1 DEF Typed
<1>2. CASE pc[c] = "last"
  <2>1. PICK i \in Nat : Gathered(c, i, pos[c])
    BY <1>0, <1>2 DEF Progress, Continued
  <2>2. frame[first[c]].head.type = script[c][pos[c]].type
    <3>1. Run(script[c], i, pos[c]) /\ frame[first[c]].head.type = script[c][i].type
      BY <2>1 DEF Gathered
    <3>2. pos[c] \in i .. pos[c]
      BY <1>0, <3>1 DEF Run
    <3> QED
      BY <3>1, <3>2 DEF Run
  <2>3. frame'[first[c]].head.type = frame[first[c]].head.type
    <3>1. frame[first[c]] = [head |-> frame[first[c]].head, payload |-> frame[first[c]].payload,
                             cell |-> frame[first[c]].cell, live |-> frame[first[c]].live]
      BY <1>0 DEF PoolTypes, IsFrame
    <3>2. frame' = [frame EXCEPT
                      ![first[c]].payload = buf[c],
                      ![first[c]].head = [type |-> @.type, id |-> @.id,
                                          len |-> buf[c].len, more |-> FALSE]]
      BY <1>2 DEF Assembled
    <3>3. frame'[first[c]].head = [type |-> frame[first[c]].head.type, id |-> frame[first[c]].head.id,
                                   len |-> buf[c].len, more |-> FALSE]
      BY <1>0, <3>1, <3>2 DEF PoolTypes
    <3> QED
      BY <3>3
  <2>4. UNCHANGED <<script, pos, first>>
    BY DEF Assembled
  <2> QED
    BY <2>2, <2>3, <2>4 DEF Typed
<1> QED
  BY <1>0, <1>1, <1>2

\* Reading and releasing leave the replies alone, and so does a failure.
LEMMA ReadingReplied ==
  ASSUME PoolInv, ContentInv, ReplyInv, NEW c \in Conns,
         \/ AcquireFrame(c) \/ ReadHeader(c) \/ HeaderRefused(c) \/ ReadPayload(c)
         \/ ReadFails(c) \/ StreamViolation(c) \/ AppendFragment(c) \/ StreamTooLarge(c)
         \/ Assembled(c) \/ Release(c) \/ Released(c) \/ HandlerPanics(c)
  PROVE  Replied(c)'
<1>0. PoolTypes /\ ContentTypes /\ Replied(c)
  BY DEF PoolInv, ContentInv, ReplyInv
<1>1. /\ UNCHANGED <<script, delivered, written, outs>>
      /\ pc[c] \notin {"encode", "join", "write", "free", "broken"}
  BY DEF AcquireFrame, ReadHeader, HeaderRefused, ReadPayload, ReadFails, StreamViolation,
         AppendFragment, StreamTooLarge, Assembled, Release, Released, HandlerPanics,
         decodeVars, replyVars
<1>2. pc'[c] \notin {"encode", "join", "write"} /\ Typed(c)'
  <2>1. CASE ReadPayload(c)
    BY <1>0, <2>1, ReadPayloadTyped DEF ReadPayload, Goto, PoolTypes
  <2>2. CASE Assembled(c)
    BY <1>0, <2>2, AssembledTyped DEF Assembled, Goto, PoolTypes
  <2>3. CASE \/ AcquireFrame(c) \/ ReadHeader(c) \/ AppendFragment(c) \/ HandlerPanics(c)
    BY <1>0, <2>3 DEF AcquireFrame, ReadHeader, AppendFragment, HandlerPanics, Goto, PoolTypes,
                      Typed
  <2>4. CASE HeaderRefused(c) \/ ReadFails(c) \/ StreamViolation(c) \/ StreamTooLarge(c)
    BY <1>0, <2>4 DEF HeaderRefused, ReadFails, StreamViolation, StreamTooLarge, DecodeFails,
                      Goto, PoolTypes, Typed
  <2>5. CASE Release(c)
    BY <1>0, <2>5 DEF Release, Typed
  <2>6. CASE Released(c)
    BY <1>0, <2>6 DEF Released, Goto, PoolTypes, Typed
  <2> QED
    BY <2>1, <2>2, <2>3, <2>4, <2>5, <2>6
<1>3. closed'[c] \/ ~closed[c]
  <2>1. CASE \/ AcquireFrame(c) \/ ReadHeader(c) \/ HeaderRefused(c) \/ ReadPayload(c)
             \/ ReadFails(c) \/ StreamViolation(c) \/ AppendFragment(c) \/ StreamTooLarge(c)
             \/ Assembled(c) \/ Release(c)
    BY <2>1 DEF AcquireFrame, ReadHeader, HeaderRefused, ReadPayload, ReadFails, StreamViolation,
                AppendFragment, StreamTooLarge, Assembled, Release
  <2>2. CASE Released(c) \/ HandlerPanics(c)
    BY <1>0, <2>2 DEF Released, HandlerPanics, ClosedBy, ContentTypes
  <2> QED
    BY <2>1, <2>2
<1>4. outs'[c] = <<>>
  BY <1>0, <1>1 DEF Replied, Drafted
<1>5. ~Pending(c)' /\ ~Pending(c) /\ (closed'[c] \/ ~Snapped(c))
  BY <1>1, <1>2, <1>3 DEF Pending, Snapped
<1> QED
  BY <1>0, <1>1, <1>2, <1>4, <1>5, QuietReplied

\* The message at hand: its bytes are of the frames from i on, in order and of the
\* header's type, and what was dispatched lies before them.
AtHand(c, m, i) ==
  /\ m \in Seq(Values) /\ Sorted(m) /\ Opened(c, i) /\ Run(script[c], i, pos[c])
  /\ i \in Nat /\ pos[c] \in Nat
  /\ \A a \in ToSet(m) : /\ a[2] \in i .. pos[c] /\ a \in Marks
                         /\ script[c][a[2]].type = frame[first[c]].head.type
  /\ \A n \in DOMAIN delivered[c] :
       \A b \in ToSet(delivered[c][n]) : b[2] \in Nat /\ b[2] < i

LEMMA BytesAtHand ==
  ASSUME PoolInv, ContentInv, NEW c \in Conns, pc[c] = "dispatch", Typed(c), Passed(c),
         NEW m, m = Content(frame[first[c]].payload)
  PROVE  \E i \in Nat : AtHand(c, m, i)
<1>0. pos[c] \in Nat /\ Progress(c) /\ Len(script[c]) \in Nat /\ m \in Seq(Values)
  BY ContentOf, MessageAtHand
<1>1. PICK i \in Nat : Complete(c, i)
  BY <1>0 DEF Progress, HasMessage
<1>2. /\ Opened(c, i) /\ Run(script[c], i, pos[c])
      /\ Spells(c, script[c], m, i, pos[c])
  BY <1>1 DEF Complete, Holds
<1>3. /\ m \in Seq(BytesOf(c, script[c], <<i, pos[c]>>)) /\ Sorted(m)
  BY <1>2 DEF Spells, Sorted
<1>4. ASSUME NEW a \in ToSet(m)
      PROVE  /\ a[2] \in i .. pos[c] /\ a \in Marks
             /\ script[c][a[2]].type = frame[first[c]].head.type
  <2>1. a \in BytesOf(c, script[c], <<i, pos[c]>>)
    BY <1>3, <1>4 DEF ToSet
  <2>2. PICK f \in i .. pos[c] : \E k \in 1 .. script[c][f].len : a = <<c, f, k>>
    BY <2>1, ByteOf
  <2>3. a[2] = f /\ a \in Marks
    <3>1. script[c][f].len \in Nat /\ f \in Nat
      BY <1>0, <1>2, <2>2, ContentOf DEF Run
    <3> QED
      BY <2>2, <3>1 DEF Marks
  <2>4. pos[c] \in i .. pos[c]
    BY <1>0, <1>2 DEF Run
  <2>5. script[c][f].type = script[c][i].type /\ script[c][pos[c]].type = script[c][i].type
    BY <1>2, <2>2, <2>4 DEF Run
  <2> QED
    BY <2>2, <2>3, <2>5 DEF Typed
<1>5. \A n \in DOMAIN delivered[c] :
        \A b \in ToSet(delivered[c][n]) : b[2] \in Nat /\ b[2] < i
  <2>1. i \in 1 .. Len(script[c]) + 1
    BY <1>2 DEF Opened
  <2> QED
    BY <1>2, <2>1 DEF Passed
<1> QED
  BY <1>0, <1>2, <1>3, <1>4, <1>5 DEF AtHand

\* The next message begins after this one.
LEMMA NextIsPast ==
  ASSUME NEW c \in Conns, NEW w \in Scripts[c], NEW i \in Nat, NEW p \in Nat, Run(w, i, p),
         NEW j \in 1 .. Len(w) + 1, j = 1 \/ ~w[j - 1].more, NEW n \in Nat,
         n = Cardinality({t \in Spans(w) : t[1] < i}),
         n + 1 = Cardinality({t \in Spans(w) : t[1] < j})
  PROVE  p < j
<1>0. Len(w) \in Nat /\ IsFiniteSet(Spans(w))
  <2>1. Len(w) \in Nat
    BY ScriptIs
  <2> QED
    BY <2>1, SpanIs
<1>1. i \in 1 .. p /\ p \in 1 .. Len(w) /\ \A k \in i .. p - 1 : w[k].more
  BY DEF Run
<1>2. i < j
  <2> SUFFICES ASSUME j <= i PROVE FALSE
    BY <1>0
  <2> DEFINE S == {t \in Spans(w) : t[1] < j}
             T == {t \in Spans(w) : t[1] < i}
  <2>1. S \in SUBSET T
    <3>1. \A t \in Spans(w) : t[1] \in 1 .. Len(w)
      BY SpansApart
    <3> QED
      BY <1>0, <1>1, <3>1
  <2>2. IsFiniteSet(T)
    <3>1. T \in SUBSET Spans(w)
      OBVIOUS
    <3> QED
      BY <1>0, <3>1, FS_Subset
  <2>3. Cardinality(S) <= Cardinality(T)
    BY <2>1, <2>2, FS_Subset
  <2> QED
    BY <2>3
<1>3. ~(j <= p)
  <2> SUFFICES ASSUME j <= p PROVE FALSE
    OBVIOUS
  <2>1. j - 1 \in i .. p - 1 /\ j # 1
    BY <1>0, <1>1, <1>2
  <2> QED
    BY <1>1, <2>1
<1> QED
  BY <1>0, <1>3

\* The message at hand is dispatched last.
LEMMA DispatchesLast ==
  ASSUME PoolInv, ContentInv, NEW c \in Conns, Handle(c),
         NEW m, m = Content(frame[first[c]].payload), NEW n, n = Len(delivered[c])
  PROVE  /\ n \in Nat /\ DOMAIN delivered[c] = 1 .. n
         /\ Len(delivered'[c]) = n + 1 /\ DOMAIN delivered'[c] = 1 .. n + 1
         /\ delivered'[c][n + 1] = m /\ \A k \in 1 .. n : delivered'[c][k] = delivered[c][k]
<1>0. /\ pc[c] = "dispatch" /\ delivered[c] \in Seq(Seq(Values))
      /\ delivered \in [Conns -> Seq(Seq(Values))] /\ n \in Nat /\ m \in Seq(Values)
      /\ DOMAIN delivered[c] = 1 .. n
  <2>1. /\ pc[c] = "dispatch" /\ delivered[c] \in Seq(Seq(Values))
        /\ delivered \in [Conns -> Seq(Seq(Values))]
    BY ContentOf DEF Handle, ContentTypes
  <2>2. n \in Nat /\ m \in Seq(Values)
    BY <2>1, MessageAtHand
  <2> QED
    BY <2>1, <2>2
<1>1. delivered'[c] = Append(delivered[c], m)
  BY <1>0 DEF Handle
<1>2. /\ Append(delivered[c], m) \in Seq(Seq(Values))
      /\ Len(Append(delivered[c], m)) = n + 1 /\ Append(delivered[c], m)[n + 1] = m
      /\ \A k \in 1 .. n : Append(delivered[c], m)[k] = delivered[c][k]
  BY <1>0, LastPart
<1>3. PICK x : x = Append(delivered[c], m)
  OBVIOUS
<1>4. DOMAIN x = 1 .. n + 1
  BY <1>2, <1>3
<1> QED
  BY <1>0, <1>1, <1>2, <1>3, <1>4, Zenon

\* What is dispatched lies before what comes next.
LEMMA HandlePassed ==
  ASSUME PoolInv, ContentInv, ReplyInv, NEW c \in Conns, Handle(c)
  PROVE  Passed(c)'
<1>p. PICK m, n, w, p : /\ m = Content(frame[first[c]].payload) /\ n = Len(delivered[c])
                        /\ w = script[c] /\ p = pos[c]
  OBVIOUS
<1>0. pc[c] = "dispatch" /\ Typed(c) /\ Passed(c) /\ w \in Scripts[c]
  BY <1>p, ContentOf DEF Handle, ReplyInv, Replied
<1>1. PICK i \in Nat : AtHand(c, m, i)
  BY <1>p, <1>0, BytesAtHand
<1>2. UNCHANGED <<script, pos>>
  BY DEF Handle
<1>3. /\ n \in Nat /\ DOMAIN delivered[c] = 1 .. n
      /\ Len(delivered'[c]) = n + 1 /\ DOMAIN delivered'[c] = 1 .. n + 1
      /\ delivered'[c][n + 1] = m /\ \A k \in 1 .. n : delivered'[c][k] = delivered[c][k]
  BY <1>p, DispatchesLast
<1>4. ASSUME NEW j \in 1 .. Len(w) + 1, Opened(c, j)' PROVE p < j
  <2>1. n = Cardinality({t \in Spans(w) : t[1] < i}) /\ Run(w, i, p) /\ p \in Nat
    BY <1>p, <1>1 DEF AtHand, Opened
  <2>2. /\ j = 1 \/ ~w[j - 1].more
        /\ n + 1 = Cardinality({t \in Spans(w) : t[1] < j})
    BY <1>p, <1>2, <1>3, <1>4 DEF Opened
  <2> QED
    BY <1>0, <1>3, <2>1, <2>2, NextIsPast
<1>5. ASSUME NEW k \in DOMAIN delivered'[c], NEW b \in ToSet(delivered'[c][k])
      PROVE  b[2] \in Nat /\ b[2] <= p
  <2>0. i <= p /\ p \in Nat
    BY <1>p, <1>1 DEF AtHand, Run
  <2>1. CASE k \in 1 .. n
    <3>1. b[2] \in Nat /\ b[2] < i
      BY <1>0, <1>1, <1>3, <1>5, <2>1 DEF AtHand
    <3> QED
      BY <2>0, <3>1
  <2>2. CASE k = n + 1
    <3>1. b[2] \in i .. p
      BY <1>p, <1>1, <1>3, <1>5, <2>2 DEF AtHand
    <3> QED
      BY <2>0, <3>1
  <2> QED
    BY <1>0, <1>3, <2>1, <2>2
<1> QED
  <2>0. p \in Nat /\ Len(w) \in Nat
    BY <1>p, <1>0, <1>1, ScriptIs DEF AtHand
  <2> SUFFICES ASSUME NEW j \in 1 .. Len(w) + 1, Opened(c, j)',
                      NEW k \in DOMAIN delivered'[c], NEW b \in ToSet(delivered'[c][k])
               PROVE  b[2] \in Nat /\ b[2] < j
    BY <1>p, <1>2 DEF Passed
  <2>1. p < j
    BY <1>4
  <2>2. b[2] \in Nat /\ b[2] <= p
    BY <1>5
  <2> QED
    BY <2>0, <2>1, <2>2

\* A reply that has not begun.
LEMMA EmptyDraft ==
  ASSUME NEW m
  PROVE  Draft(<<>>, m, 0)
<1>1. <<>> \in Seq(Lines) /\ DOMAIN <<>> = {}
  OBVIOUS
<1>2. Whole(<<>>) = {}
  BY <1>1 DEF Whole
<1>3. FirstOf(m, 0) = {}
  BY DEF FirstOf
<1> QED
  BY <1>1, <1>2, <1>3 DEF Draft, Ordered, Filled

\* The clamped fragment size is positive.
LEMMA FragmentIs == ASSUME NEW c \in Conns PROVE FragmentSize(c) \in Nat \ {0}
<1>1. MaxFrameSize \in Nat \ {0}
  BY ClassesAssumption DEF MaxFrameSize
<1> QED
  BY <1>1, SizesAssumption DEF FragmentSize

\* A request that is dispatched is to be answered, after all that was asked before.
LEMMA HandleReplied ==
  ASSUME PoolInv, ContentInv, ReplyInv, NEW c \in Conns, Handle(c)
  PROVE  Replied(c)'
<1>p. PICK m, n, h : /\ m = Content(frame[first[c]].payload) /\ n = Len(delivered[c])
                     /\ h = frame[first[c]].head.type
  OBVIOUS
<1>0. /\ pc[c] = "dispatch" /\ ~closed[c] /\ PoolTypes /\ Replied(c)
  BY ContentOf DEF Handle, ReplyInv, PoolInv
<1>1. PICK i \in Nat : AtHand(c, m, i)
  BY <1>p, <1>0, BytesAtHand DEF Replied
<1>2. UNCHANGED <<script, pos, outs, joined, written, closed>>
  BY DEF Handle, replyVars
<1>3. /\ n \in Nat /\ DOMAIN delivered[c] = 1 .. n
      /\ Len(delivered'[c]) = n + 1 /\ DOMAIN delivered'[c] = 1 .. n + 1
      /\ delivered'[c][n + 1] = m /\ \A k \in 1 .. n : delivered'[c][k] = delivered[c][k]
  <2>1. m = Content(frame[first[c]].payload) /\ n = Len(delivered[c])
    BY <1>p
  <2> QED
    BY <2>1, DispatchesLast
<1>4. \A b : b \in Asked(c)' <=> b \in Asked(c) \/ (b \in ToSet(m) /\ h = "request")
  <2> SUFFICES ASSUME NEW b
               PROVE  b \in Asked(c)' <=> b \in Asked(c) \/ (b \in ToSet(m) /\ h = "request")
    OBVIOUS
  <2>1. b \in ToSet(m) => script[c][b[2]].type = h
    BY <1>p, <1>1 DEF AtHand
  <2>2. (\E k \in DOMAIN delivered'[c] : b \in ToSet(delivered'[c][k]))
          <=> \/ \E k \in DOMAIN delivered[c] : b \in ToSet(delivered[c][k])
              \/ b \in ToSet(m)
    <3>1. \A k \in 1 .. n + 1 : k \in 1 .. n \/ k = n + 1
      BY <1>3
    <3>2. n + 1 \in 1 .. n + 1 /\ \A k \in 1 .. n : k \in 1 .. n + 1
      BY <1>3
    <3> QED
      BY <1>3, <3>1, <3>2
  <2>3. /\ b \in Asked(c) <=>
             /\ \E k \in DOMAIN delivered[c] : b \in ToSet(delivered[c][k])
             /\ script[c][b[2]].type = "request"
        /\ b \in Asked(c)' <=>
             /\ \E k \in DOMAIN delivered'[c] : b \in ToSet(delivered'[c][k])
             /\ script'[c][b[2]].type = "request"
    BY AskedIs
  <2> QED
    BY <1>2, <2>1, <2>2, <2>3
<1>5. /\ written[c] \in Seq(Lines) /\ Ordered(written[c]) /\ Loose(written[c])
      /\ Linked(written[c]) /\ \A k \in DOMAIN written[c] : written[c][k] # TornReply
      /\ Filled(written[c]) = Asked(c)
  BY <1>0 DEF Replied, Wired, Pending, Snapped
<1>6. ASSUME NEW b \in Asked(c), NEW a \in ToSet(m) PROVE Before(b, a) /\ ~Before(a, b)
  <2>1. b[2] \in Nat /\ b[2] < i
    <3>1. \E k \in DOMAIN delivered[c] : b \in ToSet(delivered[c][k])
      BY <1>6, AskedIs
    <3> QED
      BY <1>1, <3>1 DEF AtHand
  <2>2. a[2] \in i .. pos[c] /\ pos[c] \in Nat
    BY <1>1, <1>6 DEF AtHand
  <2> QED
    BY <2>1, <2>2 DEF Before
<1>7. Passed(c)' /\ Marked(c)'
  <2>1. ASSUME NEW k \in DOMAIN delivered'[c] PROVE ToSet(delivered'[c][k]) \subseteq Marks
    <3>1. CASE k \in 1 .. n
      BY <1>0, <1>3, <3>1 DEF Replied, Marked
    <3>2. CASE k = n + 1
      BY <1>1, <1>3, <3>2 DEF AtHand
    <3> QED
      BY <1>3, <3>1, <3>2
  <2> QED
    BY <2>1, HandlePassed DEF Marked
<1>8. outs'[c] = <<>>
  BY <1>0, <1>2 DEF Replied, Drafted
<1>9. CASE h = "request"
  <2>1. pc'[c] = "encode"
    BY <1>p, <1>0, <1>9 DEF Handle, Goto, PoolTypes
  <2>2. Newest(c)' = m /\ Typed(c)'
    BY <1>3, <2>1 DEF Newest, Typed
  <2>3. Drafted(c)'
    <3>1. OutContents(c)' = <<>>
      BY <1>8 DEF OutContents
    <3>2. Len(outs'[c]) * FragmentSize(c) = 0
      BY <1>8, FragmentIs
    <3>3. Draft(<<>>, m, 0)
      BY EmptyDraft
    <3>4. Sorted(m)
      BY <1>1 DEF AtHand
    <3> QED
      BY <1>8, <2>1, <2>2, <3>1, <3>2, <3>3, <3>4 DEF Drafted, FragmentSize
  <2>4. Asked(c)' = Asked(c) \cup ToSet(m)
    BY <1>4, <1>9
  <2>5. Wired(c)'
    BY <1>2, <1>5, <1>6, <2>1, <2>2, <2>4 DEF Wired, Pending
  <2> QED
    BY <1>7, <2>2, <2>3, <2>5 DEF Replied
<1>10. CASE h # "request"
  <2>1. pc'[c] = "release"
    BY <1>p, <1>0, <1>10 DEF Handle, AfterDispatch, Goto, PoolTypes
  <2>2. Typed(c)' /\ Drafted(c)'
    BY <1>8, <2>1 DEF Typed, Drafted, Pending
  <2>3. Asked(c)' = Asked(c)
    BY <1>4, <1>10
  <2>4. Wired(c)'
    BY <1>2, <1>5, <2>1, <2>3 DEF Wired, Pending
  <2> QED
    BY <1>7, <2>2, <2>4 DEF Replied
<1> QED
  BY <1>9, <1>10

\* x is a frame with the bytes of m from o + 1 to e.
Piece(x, m, o, e) ==
  /\ x \in Seq(Values) /\ Len(x) \in Nat /\ x \notin Stray
  /\ \A k \in HeaderSize + 1 .. Len(x) :
       o + (k - HeaderSize) \in o + 1 .. e /\ x[k] = m[o + (k - HeaderSize)]
  /\ \A y \in o + 1 .. e :
       HeaderSize + (y - o) \in HeaderSize + 1 .. Len(x) /\ x[HeaderSize + (y - o)] = m[y]

\* What encodeFrameInto writes: the header and the bytes.
EncodedBytes(h, m, o, e) == [k \in 1 .. HeaderSize |-> h] \o SubSeq(m, o + 1, e)

LEMMA PieceIs ==
  ASSUME NEW m \in Seq(Values), NEW o \in Nat, NEW e \in Nat, o < e, e <= Len(m),
         NEW h \in Values, NEW x, x = EncodedBytes(h, m, o, e)
  PROVE  Piece(x, m, o, e) /\ Len(x) = HeaderSize + e - o /\ x[1] = h
<1>0. HeaderSize \in Nat \ {0}
  BY SizesAssumption
<1>p. PICK u, v : u = [k \in 1 .. HeaderSize |-> h] /\ v = SubSeq(m, o + 1, e)
  OBVIOUS
<1> HIDE DEF Values
<1>1. u \in Seq(Values) /\ Len(u) = HeaderSize /\ \A k \in 1 .. HeaderSize : u[k] = h
  BY <1>0, <1>p
<1>2. v \in Seq(Values) /\ Len(v) = e - o /\ \A k \in 1 .. e - o : v[k] = m[o + k]
  BY <1>p
<1>3. x = u \o v
  BY <1>p DEF EncodedBytes
<1>4. /\ x \in Seq(Values) /\ Len(x) = HeaderSize + (e - o)
      /\ \A k \in 1 .. HeaderSize : x[k] = h
      /\ \A k \in 1 .. e - o : x[HeaderSize + k] = m[o + k]
  <2>1. u \o v \in Seq(Values) /\ Len(u \o v) = Len(u) + Len(v)
    BY <1>1, <1>2, FirstPart
  <2>2. \A k \in 1 .. Len(u) : (u \o v)[k] = u[k]
    BY <1>1, <1>2
  <2>3. \A k \in 1 .. Len(v) : (u \o v)[Len(u) + k] = v[k]
    BY <1>1, <1>2
  <2> QED
    BY <1>0, <1>1, <1>2, <1>3, <2>1, <2>2, <2>3
<1>5. x \notin Stray
  <2>1. Len(PublishBytes) = 1 /\ Len(TornPublish) = 1 /\ Len(TornReply) = 1
    BY DEF PublishBytes, TornPublish, TornReply
  <2>2. Len(x) # 1
    BY <1>0, <1>4
  <2> QED
    BY <2>1, <2>2, Zenon DEF Stray
<1>6. ASSUME NEW k \in HeaderSize + 1 .. Len(x)
      PROVE  o + (k - HeaderSize) \in o + 1 .. e /\ x[k] = m[o + (k - HeaderSize)]
  <2>1. k - HeaderSize \in 1 .. e - o /\ k = HeaderSize + (k - HeaderSize)
    BY <1>0, <1>4
  <2>2. x[HeaderSize + (k - HeaderSize)] = m[o + (k - HeaderSize)]
    BY <1>4, <2>1
  <2>3. o + (k - HeaderSize) \in o + 1 .. e
    BY <1>0, <2>1
  <2> QED
    BY <2>1, <2>2, <2>3
<1>7. ASSUME NEW y \in o + 1 .. e
      PROVE  HeaderSize + (y - o) \in HeaderSize + 1 .. Len(x) /\ x[HeaderSize + (y - o)] = m[y]
  <2>1. y - o \in 1 .. e - o /\ y = o + (y - o)
    OBVIOUS
  <2>2. x[HeaderSize + (y - o)] = m[o + (y - o)]
    BY <1>4, <2>1
  <2>3. HeaderSize + (y - o) \in HeaderSize + 1 .. Len(x)
    BY <1>0, <1>4, <2>1
  <2> QED
    BY <2>1, <2>2, <2>3
<1>8. Len(x) \in Nat /\ Len(x) = HeaderSize + e - o /\ x[1] = h
  BY <1>0, <1>4
<1> QED
  BY <1>4, <1>5, <1>6, <1>7, <1>8 DEF Piece

\* Its payload.
LEMMA PieceFilled ==
  ASSUME NEW m \in Seq(Values), Sorted(m), NEW o \in Nat, NEW e \in Nat, e <= Len(m),
         NEW x, Piece(x, m, o, e), NEW v, v = <<x>>
  PROVE  /\ v \in Seq(Lines) /\ Whole(v) = {1} /\ v[1] = x /\ Ordered(v)
         /\ \A b : b \in Filled(v) <=> \E y \in o + 1 .. e : b = m[y]
<1>0. HeaderSize \in Nat \ {0}
  BY SizesAssumption
<1>1. v \in Seq(Lines) /\ Whole(v) = {1} /\ v[1] = x
  <2>1. x \in Lines /\ x \notin Stray
    BY DEF Piece, Lines
  <2> QED
    BY <2>1, OneFrame
<1>h. SUFFICES ASSUME NEW z, Whole(z) = {1}, z[1] = x
               PROVE  /\ Ordered(z)
                      /\ \A b : b \in Filled(z) <=> \E y \in o + 1 .. e : b = m[y]
  BY <1>1
<1>2. Ordered(z)
  <2> SUFFICES ASSUME NEW k \in HeaderSize + 1 .. Len(x), NEW l \in HeaderSize + 1 .. Len(x), k < l
               PROVE  Before(x[k], x[l])
    BY <1>h DEF Ordered
  <2>1. /\ x[k] = m[o + (k - HeaderSize)] /\ o + (k - HeaderSize) \in o + 1 .. e
        /\ x[l] = m[o + (l - HeaderSize)] /\ o + (l - HeaderSize) \in o + 1 .. e
    BY DEF Piece
  <2>2. /\ o + (k - HeaderSize) \in DOMAIN m /\ o + (l - HeaderSize) \in DOMAIN m
        /\ o + (k - HeaderSize) < o + (l - HeaderSize)
    BY <1>0, <2>1
  <2> QED
    BY <2>1, <2>2 DEF Sorted
<1>3. ASSUME NEW b PROVE b \in Filled(z) <=> \E y \in o + 1 .. e : b = m[y]
  <2>1. b \in Filled(z) <=> \E k \in HeaderSize + 1 .. Len(x) : b = x[k]
    BY <1>h, FilledIs
  <2> QED
    BY <2>1 DEF Piece
<1> QED
  BY <1>2, <1>3

\* A reply with one more frame.
LEMMA DraftGoesOn ==
  ASSUME NEW m \in Seq(Values), Sorted(m), NEW o \in Nat, NEW e \in Nat, o < e, e <= Len(m),
         NEW x, Piece(x, m, o, e), NEW r, Draft(r, m, o), NEW s, s = Append(r, x)
  PROVE  Draft(s, m, e) /\ (x[1] # HeaderByte(TRUE) => Linked(s))
<1>0. r \in Seq(Lines) /\ Whole(r) = DOMAIN r /\ Ordered(r) /\ Filled(r) = FirstOf(m, o)
  BY DEF Draft
<1>p. PICK v, p : v = <<x>> /\ p = Len(r)
  OBVIOUS
<1>1. /\ v \in Seq(Lines) /\ Whole(v) = {1} /\ v[1] = x /\ Ordered(v)
      /\ \A b : b \in Filled(v) <=> \E y \in o + 1 .. e : b = m[y]
  BY <1>p, PieceFilled
<1>2. s = r \o v
  BY <1>0, <1>p
<1>3. Follow(s, r, v, p)
  BY <1>0, <1>p, <1>1, <1>2, RunsJoined
<1>4. p \in Nat /\ DOMAIN r = 1 .. p /\ DOMAIN s = 1 .. p + 1
  <2>1. p \in Nat /\ DOMAIN r = 1 .. p
    BY <1>0, <1>p
  <2>2. x \in Lines
    BY DEF Piece, Lines
  <2>3. Len(s) = p + 1 /\ s \in Seq(Lines)
    BY <1>0, <1>p, <2>2, LastPart
  <2> QED
    BY <2>1, <2>3
<1>h. SUFFICES ASSUME NEW z, z = s, Follow(z, r, v, p), DOMAIN z = 1 .. p + 1
               PROVE  Draft(z, m, e) /\ (x[1] # HeaderByte(TRUE) => Linked(z))
  BY <1>3, <1>4
<1>5. \A a \in Filled(r), b \in Filled(v) : Before(a, b)
  <2> SUFFICES ASSUME NEW a \in Filled(r), NEW b \in Filled(v) PROVE Before(a, b)
    OBVIOUS
  <2>1. PICK k \in 1 .. o : a = m[k]
    BY <1>0 DEF FirstOf
  <2>2. PICK y \in o + 1 .. e : b = m[y]
    BY <1>1
  <2>3. k \in DOMAIN m /\ y \in DOMAIN m /\ k < y
    OBVIOUS
  <2> QED
    BY <2>1, <2>2, <2>3 DEF Sorted
<1>6. z \in Seq(Lines) /\ Ordered(z) /\ Filled(z) = Filled(r) \cup Filled(v)
  BY <1>h, <1>0, <1>1, <1>5, Chained
<1>7. Filled(z) = FirstOf(m, e)
  <2> SUFFICES ASSUME NEW b PROVE b \in Filled(z) <=> \E k \in 1 .. e : b = m[k]
    BY DEF FirstOf
  <2>1. b \in Filled(z) <=> (\E k \in 1 .. o : b = m[k]) \/ \E y \in o + 1 .. e : b = m[y]
    BY <1>0, <1>1, <1>6 DEF FirstOf
  <2>2. \A k : k \in 1 .. e <=> k \in 1 .. o \/ k \in o + 1 .. e
    OBVIOUS
  <2> QED
    BY <2>1, <2>2
<1>8. \A i \in 1 .. p : i \in Whole(z) /\ z[i] = r[i]
  BY <1>h, <1>0, <1>4 DEF Follow
<1>9. p + 1 \in Whole(z) /\ z[p + 1] = x
  BY <1>h, <1>1 DEF Follow
<1>10. \A i \in 1 .. p + 1 : i \in 1 .. p \/ i = p + 1
  BY <1>4
<1>11. Whole(z) = DOMAIN z
  BY <1>h, <1>8, <1>9, <1>10 DEF Whole
<1>12. ASSUME x[1] # HeaderByte(TRUE) PROVE Linked(z)
  <2> SUFFICES ASSUME NEW i \in Whole(z), z[i][1] = HeaderByte(TRUE) PROVE i + 1 \in Whole(z)
    BY DEF Linked
  <2>1. i \in 1 .. p
    BY <1>h, <1>9, <1>10, <1>11, <1>12
  <2>2. i + 1 \in 1 .. p + 1
    BY <1>4, <2>1
  <2> QED
    BY <1>h, <1>11, <2>2
<1> QED
  BY <1>6, <1>7, <1>11, <1>12 DEF Draft

\* Append by its places.
LEMMA AppendIs ==
  ASSUME NEW S, NEW r \in Seq(S), NEW x \in S, NEW q, q = Len(r)
  PROVE  Append(r, x) = [i \in 1 .. q + 1 |-> IF i = q + 1 THEN x ELSE r[i]]
<1>1. PICK y : y = Append(r, x)
  OBVIOUS
<1>2. /\ Append(r, x) \in Seq(S) /\ Len(Append(r, x)) = q + 1 /\ Append(r, x)[q + 1] = x
      /\ \A k \in 1 .. q : Append(r, x)[k] = r[k]
  BY LastPart
<1>3. y \in Seq(S) /\ Len(y) = q + 1 /\ y[q + 1] = x /\ \A k \in 1 .. q : y[k] = r[k]
  BY <1>1, <1>2, Zenon
<1>4. q \in Nat /\ y \in [1 .. q + 1 -> S]
  BY <1>3
<1>5. \A i \in 1 .. q + 1 : y[i] = IF i = q + 1 THEN x ELSE r[i]
  BY <1>3, <1>4
<1>6. y = [i \in 1 .. q + 1 |-> IF i = q + 1 THEN x ELSE r[i]]
  BY <1>4, <1>5
<1> QED
  BY <1>1, <1>6, Zenon

\* Where the next fragment ends.
LEMMA FragmentEnd ==
  ASSUME NEW o \in Nat, NEW size \in Nat \ {0}, NEW len \in Nat, o < len,
         NEW e, e = Min({o + size, len})
  PROVE  e \in Nat /\ o < e /\ e <= len /\ (e < len => e = o + size)
<1>1. {o + size, len} \subseteq Nat /\ {o + size, len} # {}
  OBVIOUS
<1>2. /\ Min({o + size, len}) \in {o + size, len}
      /\ \A y \in {o + size, len} : Min({o + size, len}) <= y
  BY <1>1, LeastOfNats
<1>3. (e = o + size \/ e = len) /\ e <= o + size /\ e <= len
  BY <1>2
<1> QED
  BY <1>3

\* The array that encodeFrameInto fills begins with the frame.
LEMMA FilledArray ==
  ASSUME array \in [Arrays -> Seq(Values)], NEW a \in Arrays, NEW total \in Nat, total > 0,
         NEW bytes \in Seq(Values), Len(bytes) = total,
         IF ClassIndexForSize(total) > 0 THEN GetPayload(a, ClassIndexForSize(total), bytes)
         ELSE Allocate(a, total, bytes)
  PROVE  /\ \A b \in Arrays \ {a} : array'[b] = array[b]
         /\ SubSeq(array'[a], 1, total) = bytes
<1>1. CASE ClassIndexForSize(total) > 0
  <2> DEFINE fits == {i \in 1 .. Len(Classes) : total <= Classes[i]}
  <2>1. fits # {} /\ ClassIndexForSize(total) = Min(fits)
    BY <1>1 DEF ClassIndexForSize
  <2>2. fits \subseteq Nat
    BY ClassesAssumption
  <2>3. Min(fits) \in fits
    BY <2>1, <2>2, LeastOfNats
  <2>4. ClassIndexForSize(total) \in 1 .. Len(Classes) /\ total <= Classes[ClassIndexForSize(total)]
    BY <2>1, <2>3
  <2> HIDE DEF fits
  <2>5. GetPayload(a, ClassIndexForSize(total), bytes)
    BY <1>1
  <2>6. PICK i : i = ClassIndexForSize(total)
    OBVIOUS
  <2>7. i \in 1 .. Len(Classes) /\ GetPayload(a, i, bytes) /\ total <= Classes[i]
    BY <2>4, <2>5, <2>6
  <2> QED
    BY <2>7, GotArray
<1>2. CASE ~(ClassIndexForSize(total) > 0)
  <2>1. Allocate(a, total, bytes) /\ total \in Int /\ Len(bytes) <= total
    BY <1>2
  <2>2. /\ \A b \in Arrays \ {a} : array'[b] = array[b]
        /\ total \in Nat /\ Len(bytes) <= total => SubSeq(array'[a], 1, Len(bytes)) = bytes
    BY <2>1, MadeArray
  <2> QED
    BY <2>1, <2>2
<1> QED
  BY <1>1, <1>2

\* An encoded frame joins the reply, in an array that no other buffer has.
LEMMA EncodedFrame ==
  ASSUME PoolInv, ContentInv, NEW c \in Conns, EncodeFrame(c), OutContents(c) \in Seq(Lines),
         NEW m, m = Content(frame[first[c]].payload), m \in Seq(Values)
  PROVE  \A o, e :
           /\ o = Len(outs[c]) * FragmentSize(c) /\ e = Min({o + FragmentSize(c), Len(m)})
           /\ o \in Nat /\ o < Len(m)
           => /\ e \in Nat /\ o < e /\ e <= Len(m) /\ (e < Len(m) => e = o + FragmentSize(c))
              /\ \E x : /\ Piece(x, m, o, e) /\ x[1] = HeaderByte(e < Len(m))
                       /\ OutContents(c)' = Append(OutContents(c), x)
              /\ Len(outs'[c]) = Len(outs[c]) + 1
<1>h. SUFFICES ASSUME NEW o, NEW e, o = Len(outs[c]) * FragmentSize(c),
                      e = Min({o + FragmentSize(c), Len(m)}), o \in Nat, o < Len(m)
               PROVE  /\ e \in Nat /\ o < e /\ e <= Len(m) /\ (e < Len(m) => e = o + FragmentSize(c))
                      /\ \E x : /\ Piece(x, m, o, e) /\ x[1] = HeaderByte(e < Len(m))
                               /\ OutContents(c)' = Append(OutContents(c), x)
                      /\ Len(outs'[c]) = Len(outs[c]) + 1
  OBVIOUS
<1>0. /\ PoolTypes /\ Owned /\ array \in [Arrays -> Seq(Values)]
      /\ outs[c] \in Seq(ToSet(outs[c])) /\ DOMAIN outs = Conns
      /\ \A i \in DOMAIN outs[c] : outs[c][i].arr \in Arrays
  BY DEF PoolInv, PoolTypes, ContentInv, ContentTypes
<1>1. /\ e \in Nat /\ o < e /\ e <= Len(m) /\ (e < Len(m) => e = o + FragmentSize(c))
      /\ o \in Nat
  <2>1. PICK size, len : size = FragmentSize(c) /\ len = Len(m)
    OBVIOUS
  <2>2. size \in Nat \ {0} /\ len \in Nat
    BY <2>1, FragmentIs
  <2>3. o \in Nat /\ o < len /\ e = Min({o + size, len})
    BY <1>h, <2>1
  <2>4. e \in Nat /\ o < e /\ e <= len /\ (e < len => e = o + size)
    BY <2>2, <2>3, FragmentEnd
  <2> QED
    BY <2>1, <2>3, <2>4
<1>2. PICK h : h = HeaderByte(e < Len(m))
  OBVIOUS
<1>x. PICK x : x = EncodedBytes(h, m, o, e)
  OBVIOUS
<1>3. h \in Values
  <2>1. \A b \in BOOLEAN : HeaderByte(b) \in Values
    BY DEF Values
  <2>2. CASE e < Len(m)
    <3>1. (e < Len(m)) = TRUE
      BY <2>2
    <3> QED
      BY <1>2, <2>1, <3>1, Zenon
  <2>3. CASE ~(e < Len(m))
    <3>1. (e < Len(m)) = FALSE
      BY <2>3
    <3> QED
      BY <1>2, <2>1, <3>1, Zenon
  <2> QED
    BY <2>2, <2>3
<1>4. Piece(x, m, o, e) /\ Len(x) = HeaderSize + e - o /\ x[1] = h
  BY <1>1, <1>x, <1>3, PieceIs
<1>5. PICK total : total = HeaderSize + e - o
  OBVIOUS
<1>6. PICK a \in Arrays :
        /\ IF ClassIndexForSize(total) > 0 THEN GetPayload(a, ClassIndexForSize(total), x)
           ELSE Allocate(a, total, x)
        /\ outs' = [outs EXCEPT ![c] =
                      Append(@, [arr |-> a, len |-> total, cell |-> ClassIndexForSize(total) > 0])]
  BY <1>h, <1>2, <1>x, <1>5 DEF EncodeFrame, EncodedBytes
<1>7. total \in Nat /\ total > 0 /\ Len(x) = total /\ x \in Seq(Values)
  <2>1. HeaderSize \in Nat \ {0}
    BY SizesAssumption
  <2>2. Len(x) = total /\ x \in Seq(Values)
    BY <1>4, <1>5 DEF Piece
  <2> QED
    BY <1>1, <1>5, <2>1, <2>2
<1>8. /\ \A b \in Arrays \ {a} : array'[b] = array[b]
      /\ SubSeq(array'[a], 1, total) = x
  <2> HIDE DEF Values
  <2> QED
    BY <1>0, <1>6, <1>7, FilledArray
<1>9. \A i \in DOMAIN outs[c] : outs[c][i].arr # a
  <2>1. a \notin ArrayRefs(c)
    BY <1>0, <1>6, TakenArray
  <2>2. \A i \in DOMAIN outs[c] : outs[c][i].arr # None
    BY <1>0, NoneAssumption
  <2> QED
    BY <2>1, <2>2, RefersIs DEF Refers
<1>10. PICK q, y : q = Len(outs[c])
                   /\ y = [arr |-> a, len |-> total, cell |-> ClassIndexForSize(total) > 0]
  OBVIOUS
<1>11. /\ q \in Nat /\ DOMAIN outs[c] = 1 .. q /\ outs'[c] = Append(outs[c], y)
       /\ Len(outs'[c]) = q + 1 /\ outs'[c][q + 1] = y
       /\ \A i \in 1 .. q : outs'[c][i] = outs[c][i]
  <2>1. outs'[c] = Append(outs[c], y)
    BY <1>0, <1>6, <1>10
  <2>2. PICK S : S = ToSet(outs[c]) \cup {y}
    OBVIOUS
  <2>3. outs[c] \in Seq(S) /\ y \in S
    BY <1>0, <2>2
  <2>4. /\ Len(Append(outs[c], y)) = q + 1 /\ Append(outs[c], y)[q + 1] = y
        /\ \A i \in 1 .. q : Append(outs[c], y)[i] = outs[c][i]
    BY <1>10, <2>3, LastPart
  <2>5. q \in Nat /\ DOMAIN outs[c] = 1 .. q
    BY <1>0, <1>10
  <2> QED
    BY <2>1, <2>4, <2>5
<1>12. ASSUME NEW i \in 1 .. q PROVE Content(outs[c][i])' = Content(outs[c][i])
  BY <1>0, <1>8, <1>9, <1>11 DEF Content
<1>13. Content(outs[c][q + 1])' = x
  <2>1. outs'[c][q + 1].arr = a /\ outs'[c][q + 1].len = total /\ a # None
    BY <1>10, <1>11, NoneAssumption
  <2> QED
    BY <1>8, <2>1 DEF Content
<1>14. OutContents(c)' = Append(OutContents(c), x)
  <2>1. OutContents(c)' = [i \in 1 .. q + 1 |-> Content(outs[c][i])']
    BY <1>11 DEF OutContents
  <2>2. PICK r : r = OutContents(c)
    OBVIOUS
  <2>3. r = [i \in 1 .. q |-> Content(outs[c][i])]
    BY <1>10, <2>2 DEF OutContents
  <2>4. DOMAIN r = 1 .. q /\ r \in Seq(Lines) /\ \A i \in 1 .. q : r[i] = Content(outs[c][i])
    BY <2>2, <2>3
  <2>5. Len(r) = q
    BY <1>11, <2>4
  <2>6. x \in Lines
    BY <1>7 DEF Lines
  <2>7. Append(r, x) = [i \in 1 .. q + 1 |-> IF i = q + 1 THEN x ELSE r[i]]
    BY <2>4, <2>5, <2>6, AppendIs
  <2>8. \A i \in 1 .. q + 1 : i # q + 1 => i \in 1 .. q
    BY <1>11
  <2>9. \A i \in 1 .. q + 1 : Content(outs[c][i])' = IF i = q + 1 THEN x ELSE r[i]
    BY <1>12, <1>13, <2>4, <2>8
  <2> QED
    BY <2>1, <2>2, <2>7, <2>9
<1> QED
  BY <1>1, <1>2, <1>4, <1>10, <1>11, <1>14

\* While a reply is under way nothing else of the connection's wire changes.
LEMMA StillWired ==
  ASSUME NEW c \in Conns, Wired(c), Pending(c), Pending(c)', script'[c] = script[c],
         delivered'[c] = delivered[c], written'[c] = written[c], ~closed[c]
  PROVE  Wired(c)'
  BY SameAsked DEF Wired, Snapped, Pending

\* The message that is answered.
LEMMA AnswerIs ==
  ASSUME PoolInv, ContentInv, NEW c \in Conns, Answering(c)
  PROVE  /\ Newest(c) = Content(frame[first[c]].payload) /\ Newest(c) \in Seq(Values)
         /\ ~closed[c]
<1>1. /\ Len(delivered[c]) > 0 /\ delivered[c] \in Seq(Seq(Values)) /\ ~closed[c]
      /\ Content(frame[first[c]].payload) = delivered[c][Len(delivered[c])]
  BY ContentOf DEF Progress, Answers, Answering
<1> HIDE DEF Values
<1> QED
  BY <1>1 DEF Newest

\* The next fragment follows the ones before.
LEMMA EncodeFrameReplied ==
  ASSUME PoolInv, ContentInv, ReplyInv, NEW c \in Conns, EncodeFrame(c)
  PROVE  Replied(c)'
<1>p. PICK m, size, q, r : /\ m = Newest(c) /\ size = FragmentSize(c) /\ q = Len(outs[c])
                           /\ r = OutContents(c)
  OBVIOUS
<1>0. /\ pc[c] = "encode" /\ Replied(c) /\ PoolTypes /\ Answering(c) /\ size \in Nat \ {0}
      /\ q \in Nat
  <2>1. pc[c] = "encode" /\ Replied(c) /\ PoolTypes
    BY DEF EncodeFrame, ReplyInv, PoolInv
  <2>2. outs[c] \in Seq(ToSet(outs[c]))
    BY <2>1 DEF PoolTypes
  <2> QED
    BY <1>p, <2>1, <2>2, FragmentIs DEF Answering
<1>1. /\ m = Content(frame[first[c]].payload) /\ m \in Seq(Values) /\ m # <<>> /\ ~closed[c]
  BY <1>p, <1>0, AnswerIs DEF EncodeFrame
<1>2. PICK o : o = Len(outs[c]) * FragmentSize(c)
  OBVIOUS
<1>3. /\ outs[c] = <<>> \/ o < Len(m)
      /\ Draft(r, m, o) /\ Sorted(m) /\ Pending(c)
  BY <1>p, <1>0, <1>2 DEF Replied, Drafted, Pending
<1>4. o \in Nat /\ o < Len(m) /\ o = q * size
  <2>1. o = q * size
    BY <1>p, <1>2
  <2>2. o \in Nat
    BY <1>0, <2>1
  <2>3. outs[c] = <<>> => o = 0
    BY <1>p, <1>0, <2>1
  <2>4. Len(m) > 0
    <3> HIDE DEF Values
    <3> QED
      BY <1>1
  <2> QED
    BY <1>3, <2>1, <2>2, <2>3, <2>4
<1>5. PICK e : e = Min({o + FragmentSize(c), Len(m)})
  OBVIOUS
<1>6. r \in Seq(Lines)
  BY <1>3 DEF Draft
<1>7. /\ e \in Nat /\ o < e /\ e <= Len(m) /\ (e < Len(m) => e = o + FragmentSize(c))
      /\ \E x : /\ Piece(x, m, o, e) /\ x[1] = HeaderByte(e < Len(m))
                /\ OutContents(c)' = Append(OutContents(c), x)
      /\ Len(outs'[c]) = Len(outs[c]) + 1
  <2>1. \A oo, ee :
           /\ oo = Len(outs[c]) * FragmentSize(c) /\ ee = Min({oo + FragmentSize(c), Len(m)})
           /\ oo \in Nat /\ oo < Len(m)
           => /\ ee \in Nat /\ oo < ee /\ ee <= Len(m) /\ (ee < Len(m) => ee = oo + FragmentSize(c))
              /\ \E x : /\ Piece(x, m, oo, ee) /\ x[1] = HeaderByte(ee < Len(m))
                       /\ OutContents(c)' = Append(OutContents(c), x)
              /\ Len(outs'[c]) = Len(outs[c]) + 1
    BY <1>p, <1>1, <1>6, EncodedFrame
  <2>2. /\ o = Len(outs[c]) * FragmentSize(c) /\ e = Min({o + FragmentSize(c), Len(m)})
        /\ o \in Nat /\ o < Len(m)
    BY <1>2, <1>4, <1>5, Zenon
  <2> QED
    BY <2>1, <2>2, Zenon
<1>8. PICK x : /\ Piece(x, m, o, e) /\ x[1] = HeaderByte(e < Len(m))
               /\ OutContents(c)' = Append(r, x)
  BY <1>p, <1>7
<1>9. PICK s : s = Append(r, x)
  OBVIOUS
<1>10. Draft(s, m, e) /\ (x[1] # HeaderByte(TRUE) => Linked(s))
  BY <1>1, <1>3, <1>4, <1>7, <1>8, <1>9, DraftGoesOn
<1>11. /\ UNCHANGED <<script, delivered, written>>
       /\ pc' = [pc EXCEPT ![c] = IF e < Len(m) THEN "encode" ELSE "join"]
  BY <1>1, <1>2, <1>5 DEF EncodeFrame, Goto, decodeVars
<1>12. Newest(c)' = m /\ Passed(c)' /\ Marked(c)' /\ OutContents(c)' = s
  BY <1>p, <1>0, <1>8, <1>9, <1>11, SameAsked DEF Replied
<1>13. pc'[c] = IF e < Len(m) THEN "encode" ELSE "join"
  BY <1>0, <1>11 DEF PoolTypes
<1>14. Pending(c)' /\ Typed(c)'
  BY <1>13 DEF Pending, Typed
<1>15. Wired(c)'
  BY <1>0, <1>1, <1>3, <1>11, <1>14, StillWired DEF Replied
<1>16. Drafted(c)'
  <2>1. CASE e < Len(m)
    <3>1. Len(outs'[c]) * FragmentSize(c) = e
      <4>1. e = q * size + size /\ Len(outs'[c]) = q + 1
        BY <1>p, <1>4, <1>7, <2>1
      <4>2. (q + 1) * size = q * size + size
        BY <1>0
      <4> QED
        BY <1>p, <4>1, <4>2
    <3>2. pc'[c] = "encode"
      BY <1>13, <2>1
    <3> QED
      BY <1>3, <1>10, <1>12, <2>1, <3>1, <3>2 DEF Drafted, FragmentSize
  <2>2. CASE ~(e < Len(m))
    <3>1. e = Len(m)
      <4>1. Len(m) \in Nat
        BY <1>1
      <4> QED
        BY <1>7, <2>2, <4>1
    <3>2. x[1] # HeaderByte(TRUE)
      <4>1. (e < Len(m)) = FALSE
        BY <2>2
      <4>2. x[1] = HeaderByte(FALSE)
        BY <1>8, <4>1, Zenon
      <4>3. HeaderByte(FALSE) # HeaderByte(TRUE)
        BY DEF HeaderByte
      <4> QED
        BY <4>2, <4>3
    <3>3. pc'[c] = "join"
      BY <1>13, <2>2
    <3> QED
      BY <1>3, <1>10, <1>12, <3>1, <3>2, <3>3 DEF Drafted
  <2> QED
    BY <2>1, <2>2
<1> QED
  BY <1>12, <1>14, <1>15, <1>16 DEF Replied

\* The whole reply is on the wire.
LEMMA ReplyWritten ==
  ASSUME NEW c \in Conns, Replied(c), Pending(c), Newest(c) \in Seq(Values),
         NEW r, Draft(r, Newest(c), Len(Newest(c))), Linked(r),
         written'[c] = written[c] \o r, script'[c] = script[c], delivered'[c] = delivered[c],
         ~closed[c], ~Pending(c)'
  PROVE  Wired(c)'
<1>p. PICK m, u, p : m = Newest(c) /\ u = written[c] /\ p = Len(written[c])
  OBVIOUS
<1>1. /\ u \in Seq(Lines) /\ Linked(u) /\ Ordered(u) /\ Filled(u) \subseteq Asked(c)
      /\ Asked(c) = Filled(u) \cup ToSet(m) /\ \A i \in DOMAIN u : u[i] # TornReply
      /\ \A b \in Filled(u), a \in ToSet(m) : Before(b, a)
  BY <1>p DEF Replied, Wired, Snapped, Pending
<1>2. r \in Seq(Lines) /\ Ordered(r) /\ Filled(r) = FirstOf(m, Len(m))
  BY <1>p DEF Draft
<1>3. Filled(r) = ToSet(m)
  <2>1. DOMAIN m = 1 .. Len(m)
    BY <1>p
  <2> QED
    BY <1>2, <2>1 DEF FirstOf, ToSet
<1>4. PICK x : x = u \o r
  OBVIOUS
<1>5. Follow(x, u, r, p)
  BY <1>p, <1>1, <1>2, <1>4, RunsJoined
<1>6. x \in Seq(Lines) /\ Ordered(x) /\ Filled(x) = Filled(u) \cup Filled(r) /\ Linked(x)
  BY <1>1, <1>2, <1>3, <1>5, Chained
<1>7. Asked(c)' = Asked(c) /\ written'[c] = x
  BY <1>p, <1>4, SameAsked
<1>8. \A i \in DOMAIN x : x[i] # TornReply
  <2> SUFFICES ASSUME NEW i \in DOMAIN x, x[i] = TornReply PROVE FALSE
    OBVIOUS
  <2>1. \A k \in DOMAIN r : r[k] # TornReply
    BY DEF Draft, Whole, Stray
  <2>2. PICK q : q = Len(r)
    OBVIOUS
  <2>3. p \in Nat /\ q \in Nat /\ DOMAIN u = 1 .. p /\ DOMAIN r = 1 .. q /\ DOMAIN x = 1 .. p + q
    BY <1>p, <1>1, <1>2, <1>4, <2>2
  <2>4. CASE i \in 1 .. p
    <3>1. x[i] = u[i]
      BY <1>p, <1>1, <1>2, <1>4, <2>4
    <3> QED
      BY <1>1, <2>3, <2>4, <3>1
  <2>5. CASE i \notin 1 .. p
    <3>1. i - p \in 1 .. q
      BY <2>3, <2>5
    <3>2. x[i] = r[i - p]
      BY <1>p, <1>1, <1>2, <1>4, <2>2, <2>3, <3>1
    <3> QED
      BY <2>1, <2>3, <3>1, <3>2
  <2> QED
    BY <2>4, <2>5
<1>9. Loose(x)
  BY <1>6 DEF Linked, Loose
<1> QED
  BY <1>1, <1>3, <1>6, <1>7, <1>8, <1>9 DEF Wired

\* What was asked for is bytes of peers, and they are in one order only.
LEMMA AskedApart ==
  ASSUME NEW c, Marked(c)
  PROVE  \A a, b \in Asked(c) : Before(a, b) => ~Before(b, a)
<1>1. ASSUME NEW a \in Asked(c) PROVE a \in Marks
  BY AskedIs DEF Marked
<1>2. \A a, b \in Marks : Before(a, b) => ~Before(b, a)
  <2> SUFFICES ASSUME NEW a \in Marks, NEW b \in Marks, Before(a, b) PROVE ~Before(b, a)
    OBVIOUS
  <2>1. a[2] \in Nat /\ a[3] \in Nat /\ b[2] \in Nat /\ b[3] \in Nat
    BY DEF Marks
  <2> QED
    BY <2>1 DEF Before
<1> QED
  BY <1>1, <1>2

\* The first frames of a reply.
LEMMA PartIs ==
  ASSUME NEW r \in Seq(Lines), Whole(r) = DOMAIN r, Ordered(r), NEW n \in Nat, n <= Len(r),
         NEW v \in Seq(Lines), Len(v) = n, \A i \in 1 .. n : v[i] = r[i]
  PROVE  /\ v \in Seq(Lines) /\ Ordered(v) /\ Loose(v) /\ Filled(v) \subseteq Filled(r)
         /\ \A a \in Filled(r), b \in Filled(v) : a \in Filled(v) \/ Before(b, a)
<1>1. /\ DOMAIN v = 1 .. n /\ DOMAIN r = 1 .. Len(r) /\ Len(r) \in Nat
      /\ \A i \in 1 .. n : v[i] = r[i]
  OBVIOUS
<1>2. /\ \A i : i \in Whole(v) <=> i \in 1 .. n
      /\ \A i \in 1 .. n : i \in Whole(r)
  BY <1>1 DEF Whole
<1>3. Ordered(v)
  BY <1>1, <1>2 DEF Ordered
<1>4. Loose(v)
  <2> SUFFICES ASSUME NEW i \in Whole(v) PROVE i + 1 \in Whole(v) \/ \A j \in Whole(v) : j <= i
    BY DEF Loose
  <2>1. CASE i = n
    BY <1>2, <2>1
  <2>2. CASE i # n
    BY <1>2, <2>2
  <2> QED
    BY <2>1, <2>2
<1>5. ASSUME NEW a \in Filled(v) PROVE a \in Filled(r)
  <2>1. PICK i \in Whole(v) : \E k \in HeaderSize + 1 .. Len(v[i]) : a = v[i][k]
    BY <1>5, FilledIs
  <2>2. i \in Whole(r) /\ v[i] = r[i]
    BY <1>1, <1>2
  <2> QED
    BY <2>1, <2>2, FilledIs
<1>6. ASSUME NEW a \in Filled(r), NEW b \in Filled(v), a \notin Filled(v) PROVE Before(b, a)
  <2>1. PICK i \in Whole(r) : \E k \in HeaderSize + 1 .. Len(r[i]) : a = r[i][k]
    BY <1>6, FilledIs
  <2>2. PICK j \in Whole(v) : \E l \in HeaderSize + 1 .. Len(v[j]) : b = v[j][l]
    BY <1>6, FilledIs
  <2>3. j \in 1 .. n /\ v[j] = r[j] /\ j \in Whole(r) /\ i \in 1 .. Len(r)
    BY <1>1, <1>2
  <2>4. i \notin 1 .. n
    <3> SUFFICES ASSUME i \in 1 .. n PROVE FALSE
      OBVIOUS
    <3>1. i \in Whole(v) /\ v[i] = r[i]
      BY <1>1, <1>2
    <3> QED
      BY <1>6, <2>1, <3>1, FilledIs
  <2>5. j < i
    BY <1>1, <2>3, <2>4
  <2> QED
    BY <2>1, <2>2, <2>3, <2>5 DEF Ordered
<1> QED
  BY <1>1, <1>3, <1>4, <1>5, <1>6

\* A part of the reply is on the wire, and nothing will follow.
LEMMA PartWritten ==
  ASSUME NEW c \in Conns, Replied(c), Pending(c), Newest(c) \in Seq(Values),
         NEW r, Draft(r, Newest(c), Len(Newest(c))), NEW n \in 0 .. Len(r) - 1,
         NEW torn \in {<<>>, <<TornReply>>},
         written'[c] = written[c] \o SubSeq(r, 1, n) \o torn,
         script'[c] = script[c], delivered'[c] = delivered[c],
         ~closed[c], pc'[c] = "broken", ~Pending(c)'
  PROVE  Wired(c)'
<1>p. PICK m, u, v, p : /\ m = Newest(c) /\ u = written[c] /\ p = Len(written[c])
                        /\ v = SubSeq(r, 1, n)
  OBVIOUS
<1>1. /\ u \in Seq(Lines) /\ Linked(u) /\ Ordered(u) /\ Filled(u) \subseteq Asked(c)
      /\ Asked(c) = Filled(u) \cup ToSet(m)
      /\ \A b \in Filled(u), a \in Asked(c) : Before(a, b) => a \in Filled(u)
      /\ \A b \in Filled(u), a \in ToSet(m) : Before(b, a)
  BY <1>p DEF Replied, Wired, Snapped, Pending
<1>2. r \in Seq(Lines) /\ Whole(r) = DOMAIN r /\ Ordered(r) /\ Filled(r) = FirstOf(m, Len(m))
  BY <1>p DEF Draft
<1>3. Filled(r) = ToSet(m)
  <2>1. DOMAIN m = 1 .. Len(m)
    BY <1>p
  <2> QED
    BY <1>2, <2>1 DEF FirstOf, ToSet
<1>4. /\ v \in Seq(Lines) /\ Ordered(v) /\ Loose(v) /\ Filled(v) \subseteq Filled(r)
      /\ \A a \in Filled(r), b \in Filled(v) : a \in Filled(v) \/ Before(b, a)
  <2>1. n \in Nat /\ n <= Len(r)
    BY <1>2
  <2>2. SubSeq(r, 1, n) \in Seq(Lines)
    BY <1>2, <2>1
  <2>3. Len(SubSeq(r, 1, n)) = n /\ \A i \in 1 .. n : SubSeq(r, 1, n)[i] = r[i]
    BY <1>2, <2>1
  <2>4. v \in Seq(Lines) /\ Len(v) = n /\ \A i \in 1 .. n : v[i] = r[i]
    BY <1>p, <2>2, <2>3, Zenon
  <2> QED
    BY <1>2, <2>1, <2>4, PartIs
<1>5. PICK y : y = u \o v
  OBVIOUS
<1>6. y \in Seq(Lines) /\ Ordered(y) /\ Loose(y) /\ Filled(y) = Filled(u) \cup Filled(v)
  <2>1. Follow(y, u, v, p)
    BY <1>p, <1>1, <1>4, <1>5, RunsJoined
  <2> QED
    BY <1>1, <1>3, <1>4, <2>1, Chained
<1>7. PICK x : x = y \o torn
  OBVIOUS
<1>8. x \in Seq(Lines) /\ Ordered(x) /\ Loose(x) /\ Filled(x) = Filled(u) \cup Filled(v)
  <2>1. torn = <<>> \/ \E s \in Stray : torn = <<s>>
    BY DEF Stray
  <2>2. PICK q : q = Len(y)
    OBVIOUS
  <2>3. /\ x \in Seq(Lines) /\ Filled(x) = Filled(y) /\ (Ordered(y) => Ordered(x))
        /\ Loose(y) => Loose(x)
    BY <1>6, <1>7, <2>1, <2>2, StrayFollows
  <2> QED
    BY <1>6, <2>3
<1>9. Asked(c)' = Asked(c) /\ written'[c] = x
  BY <1>p, <1>5, <1>7, SameAsked
<1>10. ASSUME NEW b \in Filled(x), NEW a \in Asked(c), Before(a, b) PROVE a \in Filled(x)
  <2>1. CASE b \in Filled(u)
    BY <1>1, <1>8, <1>10, <2>1
  <2>2. CASE b \in Filled(v) /\ a \in ToSet(m)
    <3>1. a \in Asked(c) /\ b \in Asked(c)
      BY <1>1, <1>3, <1>4, <2>2
    <3>2. ~Before(b, a)
      BY <1>10, <3>1, AskedApart DEF Replied
    <3> QED
      BY <1>3, <1>4, <1>8, <2>2, <3>2
  <2> QED
    BY <1>1, <1>8, <1>10, <2>1, <2>2
<1>11. Snapped(c)'
  BY DEF Snapped
<1> QED
  BY <1>1, <1>3, <1>4, <1>8, <1>9, <1>10, <1>11 DEF Wired

\* The reply is joined and written, or the connection is closed over it.
LEMMA WriteReplied ==
  ASSUME PoolInv, ContentInv, ReplyInv, NEW c \in Conns,
         \/ EncodeFails(c) \/ JoinFragments(c) \/ WriteJoined(c) \/ WriteSingle(c)
         \/ FreeSingle(c) \/ WriteFails(c) \/ ExceptionCloses(c)
  PROVE  Replied(c)'
<1>0. /\ PoolTypes /\ Replied(c) /\ ContentTypes /\ Held(c)
      /\ DOMAIN joined = Conns /\ DOMAIN written = Conns /\ DOMAIN outs = Conns
      /\ pc[c] \in {"encode", "join", "write", "free", "broken"}
  BY DEF PoolInv, PoolTypes, ContentInv, ReplyInv, ReplyTypes, EncodeFails, JoinFragments,
         WriteJoined, WriteSingle, FreeSingle, WriteFails, ExceptionCloses
<1>1. UNCHANGED <<script, delivered>> /\ Answering(c)
  BY <1>0 DEF EncodeFails, JoinFragments, WriteJoined, WriteSingle, FreeSingle, WriteFails,
              ExceptionCloses, decodeVars, Answering
<1>2. /\ Newest(c) = Content(frame[first[c]].payload) /\ Newest(c) \in Seq(Values)
      /\ ~closed[c]
  BY <1>1, AnswerIs
<1>3. Newest(c)' = Newest(c) /\ Passed(c)' /\ Marked(c)'
  BY <1>0, <1>1, SameAsked DEF Replied
<1>4. CASE EncodeFails(c) \/ ExceptionCloses(c) \/ FreeSingle(c)
  <2>1. pc'[c] = "release" /\ written' = written
    BY <1>0, <1>4 DEF EncodeFails, ExceptionCloses, FreeSingle, AfterDispatch, Goto, PoolTypes,
                      replyVars
  <2>2. outs'[c] = <<>>
    <3>1. CASE EncodeFails(c)
      <4>1. Newest(c) = <<>> /\ outs' = outs /\ pc[c] = "encode"
        BY <1>2, <3>1 DEF EncodeFails, replyVars
      <4>2. outs[c] = <<>> \/ Len(outs[c]) * FragmentSize(c) < Len(Newest(c))
        BY <1>0, <4>1 DEF Replied, Drafted
      <4>3. Len(outs[c]) * FragmentSize(c) \in Nat
        <5>1. outs[c] \in Seq(ToSet(outs[c]))
          BY <1>0 DEF PoolTypes
        <5>2. Len(outs[c]) \in Nat
          BY <5>1
        <5> QED
          BY <5>2, FragmentIs
      <4> QED
        BY <4>1, <4>2, <4>3
    <3>2. CASE FreeSingle(c)
      BY <1>0, <3>2 DEF FreeSingle, PutOuts
    <3>3. CASE ExceptionCloses(c)
      BY <1>0, <3>3 DEF ExceptionCloses, replyVars, Replied, Drafted
    <3> QED
      BY <1>4, <3>1, <3>2, <3>3
  <2>3. closed'[c] \/ (~Snapped(c) /\ ~Pending(c))
    BY <1>0, <1>2, <1>4 DEF EncodeFails, ExceptionCloses, FreeSingle, ContentTypes, Pending, Snapped
  <2>4. Typed(c)' /\ ~Pending(c)'
    BY <2>1 DEF Typed, Pending
  <2> QED
    BY <1>0, <1>1, <2>1, <2>2, <2>3, <2>4, QuietReplied
<1>5. CASE JoinFragments(c)
  <2>1. /\ pc[c] = "join" /\ pc'[c] = "write" /\ joined'[c] = OutContents(c) /\ outs'[c] = <<>>
        /\ written' = written
    BY <1>0, <1>5 DEF JoinFragments, PutOuts, Goto, PoolTypes
  <2>2. Pending(c) /\ Pending(c)' /\ Typed(c)'
    BY <2>1 DEF Pending, Typed
  <2>3. /\ Draft(OutContents(c), Newest(c), Len(Newest(c))) /\ Linked(OutContents(c))
        /\ Sorted(Newest(c))
    BY <1>0, <2>1, <2>2 DEF Replied, Drafted
  <2>4. Drafted(c)'
    BY <1>3, <2>1, <2>3 DEF Drafted
  <2>5. Wired(c)'
    BY <1>0, <1>1, <1>2, <2>1, <2>2, StillWired DEF Replied
  <2> QED
    BY <1>3, <2>2, <2>4, <2>5 DEF Replied
<1>6. CASE WriteJoined(c)
  <2>1. /\ pc[c] = "write" /\ pc'[c] = "release" /\ outs' = outs
        /\ written'[c] = written[c] \o joined[c]
    BY <1>0, <1>6 DEF WriteJoined, AfterDispatch, Goto, PoolTypes
  <2>2. Pending(c) /\ ~Pending(c)' /\ Typed(c)'
    BY <2>1 DEF Pending, Typed
  <2>3. /\ Draft(joined[c], Newest(c), Len(Newest(c))) /\ Linked(joined[c]) /\ outs[c] = <<>>
    BY <1>0, <2>1 DEF Replied, Drafted
  <2>4. Wired(c)'
    BY <1>0, <1>1, <1>2, <2>1, <2>2, <2>3, ReplyWritten
  <2>5. Drafted(c)'
    BY <2>1, <2>2, <2>3 DEF Drafted, Pending
  <2> QED
    BY <1>3, <2>2, <2>4, <2>5 DEF Replied
<1>7. CASE WriteSingle(c)
  <2>1. /\ pc[c] = "join" /\ pc'[c] = "free" /\ written'[c] = written[c] \o OutContents(c)
    BY <1>0, <1>7 DEF WriteSingle, Goto, PoolTypes
  <2>2. Pending(c) /\ ~Pending(c)' /\ Typed(c)'
    BY <2>1 DEF Pending, Typed
  <2>3. Draft(OutContents(c), Newest(c), Len(Newest(c))) /\ Linked(OutContents(c))
    BY <1>0, <2>1 DEF Replied, Drafted
  <2>4. Wired(c)'
    BY <1>0, <1>1, <1>2, <2>1, <2>2, <2>3, ReplyWritten
  <2>5. Drafted(c)'
    BY <2>1, <2>2 DEF Drafted, Pending
  <2> QED
    BY <1>3, <2>2, <2>4, <2>5 DEF Replied
<1>8. CASE WriteFails(c)
  <2> DEFINE frames == IF pc[c] = "write" THEN joined[c] ELSE OutContents(c)
  <2>1. PICK n \in 0 .. Len(frames) - 1, torn \in {<<>>, <<TornReply>>} :
          written' = [written EXCEPT ![c] = @ \o SubSeq(frames, 1, n) \o torn]
    BY <1>8 DEF WriteFails
  <2>2. /\ pc[c] \in {"join", "write"} /\ pc'[c] = "broken" /\ outs'[c] = <<>>
        /\ written'[c] = written[c] \o SubSeq(frames, 1, n) \o torn
    BY <1>0, <1>8, <2>1 DEF WriteFails, Goto, PoolTypes
  <2>3. Pending(c) /\ ~Pending(c)' /\ Typed(c)'
    BY <2>2 DEF Pending, Typed
  <2>4. Draft(frames, Newest(c), Len(Newest(c)))
    BY <1>0, <2>2 DEF Replied, Drafted
  <2>5. Wired(c)'
    <3> HIDE DEF frames
    <3> QED
      BY <1>0, <1>1, <1>2, <2>1, <2>2, <2>3, <2>4, PartWritten
  <2>6. Drafted(c)'
    BY <2>2, <2>3 DEF Drafted, Pending
  <2> QED
    BY <1>3, <2>3, <2>5, <2>6 DEF Replied
<1> QED
  BY <1>4, <1>5, <1>6, <1>7, <1>8

\* A publish on the wire between two replies.
LEMMA PublishReplied ==
  ASSUME PoolInv, ReplyInv, NEW c \in Conns, PublishWrites(c), NEW d \in Conns
  PROVE  Replied(d)'
<1>0. Replied(d) /\ DOMAIN written = Conns
  BY DEF ReplyInv, ReplyTypes
<1>1. /\ UNCHANGED <<script, delivered, pos, cur, first, buf, frame, array, outs, joined, pc>>
      /\ UNCHANGED <<closed, after, drops, fault>>
      /\ \E bytes \in {PublishBytes, TornPublish} :
           written' = [written EXCEPT ![c] = Append(@, bytes)]
  BY DEF PublishWrites, decodeVars, poolVars, flowVars
<1>2. CASE d # c
  <2>1. written'[d] = written[d] /\ Idles(d)
    BY <1>0, <1>1, <1>2 DEF Idles
  <2> QED
    BY <1>0, <1>1, <2>1, SameReplied
<1>3. CASE d = c
  <2>1. Asked(d)' = Asked(d) /\ Newest(d)' = Newest(d) /\ Passed(d)' /\ Marked(d)'
    BY <1>0, <1>1, SameAsked DEF Replied
  <2>2. OutContents(d)' = OutContents(d)
    BY <1>1, SameOuts
  <2>3. Typed(d)' /\ Drafted(d)'
    BY <1>0, <1>1, <2>1, <2>2 DEF Replied, Typed, Drafted, Pending, FragmentSize
  <2>4. PICK bytes \in {PublishBytes, TornPublish} :
          written' = [written EXCEPT ![c] = Append(@, bytes)]
    BY <1>1
  <2>5. PICK u, v : u = written[d] /\ v = <<bytes>>
    OBVIOUS
  <2>6. u \in Seq(Lines) /\ Wired(d)
    BY <1>0, <2>5 DEF Replied, Wired
  <2>7. PICK x : x = u \o v
    OBVIOUS
  <2>8. written'[d] = x
    <3>1. Append(u, bytes) = u \o v
      BY <2>5, <2>6
    <3> QED
      BY <1>0, <1>3, <2>4, <2>5, <2>7, <3>1
  <2>9. bytes \in Stray /\ bytes # TornReply
    <3>1. PublishBytes # TornReply /\ TornPublish # TornReply
      BY DEF PublishBytes, TornPublish, TornReply
    <3> QED
      BY <3>1 DEF Stray
  <2>10. /\ x \in Seq(Lines) /\ Filled(x) = Filled(u) /\ (Ordered(u) => Ordered(x))
         /\ Linked(u) => Linked(x)
         /\ Loose(u) => Loose(x)
    <3>1. \E s \in Stray : v = <<s>>
      BY <2>5, <2>9
    <3>2. PICK q : q = Len(u)
      OBVIOUS
    <3>3. u \in Seq(Lines)
      BY <2>6
    <3> QED
      BY <2>7, <3>1, <3>2, <3>3, StrayFollows
  <2>11. (\A i \in DOMAIN u : u[i] # TornReply) => \A i \in DOMAIN x : x[i] # TornReply
    <3>1. bytes \in Lines
      BY <2>9 DEF Lines
    <3>2. \A i \in DOMAIN Append(u, bytes) :
            Append(u, bytes)[i] = bytes \/ (i \in DOMAIN u /\ Append(u, bytes)[i] = u[i])
      BY <2>6, <3>1, LastFrame
    <3>3. Append(u, bytes) = x
      BY <2>5, <2>6, <2>7
    <3>4. \A i \in DOMAIN x : x[i] = bytes \/ (i \in DOMAIN u /\ x[i] = u[i])
      BY <3>2, <3>3, Zenon
    <3> QED
      BY <2>9, <3>4, Zenon
  <2>12. (Pending(d)' <=> Pending(d)) /\ (Snapped(d)' <=> Snapped(d))
    BY <1>1 DEF Pending, Snapped
  <2>13. Wired(d)'
    BY <2>1, <2>5, <2>6, <2>8, <2>10, <2>11, <2>12 DEF Wired
  <2> QED
    BY <2>1, <2>3, <2>13 DEF Replied
<1> QED
  BY <1>2, <1>3

\* The replies of the stepping connection.
LEMMA OwnReplied ==
  ASSUME PoolInv, ContentInv, ReplyInv, NEW c \in Conns, Step(c)
  PROVE  Replied(c)'
  BY ReadingReplied, HandleReplied, EncodeFrameReplied, WriteReplied DEF Step

\* A step writes to no other connection.
LEMMA StepReplies ==
  ASSUME ReplyTypes, NEW c \in Conns, Step(c)
  PROVE  ReplyTypes' /\ \A d \in Conns \ {c} : joined'[d] = joined[d] /\ written'[d] = written[d]
<1>1. CASE \/ AcquireFrame(c) \/ ReadHeader(c) \/ HeaderRefused(c) \/ ReadPayload(c)
           \/ ReadFails(c) \/ StreamViolation(c) \/ AppendFragment(c) \/ StreamTooLarge(c)
           \/ Assembled(c) \/ Release(c) \/ Released(c) \/ HandlerPanics(c)
           \/ Handle(c) \/ EncodeFails(c) \/ ExceptionCloses(c)
  BY <1>1 DEF AcquireFrame, ReadHeader, HeaderRefused, ReadPayload, ReadFails, StreamViolation,
              AppendFragment, StreamTooLarge, Assembled, Release, Released, HandlerPanics,
              Handle, EncodeFails, ExceptionCloses, replyVars, ReplyTypes
<1>2. CASE EncodeFrame(c) \/ FreeSingle(c)
  BY <1>2 DEF EncodeFrame, FreeSingle, ReplyTypes
<1>3. CASE JoinFragments(c) \/ WriteJoined(c) \/ WriteSingle(c) \/ WriteFails(c)
  BY <1>3 DEF JoinFragments, WriteJoined, WriteSingle, WriteFails, ReplyTypes
<1> QED
  BY <1>1, <1>2, <1>3 DEF Step

\* The invariant is inductive.
LEMMA ReplyStep == PoolInv /\ ContentInv /\ ReplyInv /\ [Next]_vars => ReplyInv'
<1> SUFFICES ASSUME PoolInv, ContentInv, ReplyInv, [Next]_vars PROVE ReplyInv'
  OBVIOUS
<1>0. PoolTypes /\ Owned /\ ContentTypes /\ Allocated /\ ReplyTypes
  BY DEF PoolInv, ContentInv, ContentTypes, Allocated, ReplyInv
<1>1. ASSUME NEW c \in Conns, Step(c) PROVE ReplyInv'
  <2>1. Replied(c)'
    BY <1>1, OwnReplied
  <2>2. ReplyTypes' /\ \A d \in Conns \ {c} : joined'[d] = joined[d] /\ written'[d] = written[d]
    BY <1>0, <1>1, StepReplies
  <2>3. ASSUME NEW d \in Conns \ {c} PROVE Replied(d)'
    <3>1. Idles(d) /\ \A f \in FrameRefs(d) : frame'[f] = frame[f]
      BY <1>0, <1>1, StepMoves
    <3>2. \A a \in ArrayRefs(d) : array'[a] = array[a]
      BY <1>0, <1>1, OthersBytes
    <3>3. Replied(d) /\ joined'[d] = joined[d] /\ written'[d] = written[d]
      BY <2>2 DEF ReplyInv
    <3> QED
      BY <3>1, <3>2, <3>3, SameReplied
  <2> QED
    BY <2>1, <2>2, <2>3 DEF ReplyInv
<1>2. ASSUME NEW c \in Conns, PublishWrites(c) PROVE ReplyInv'
  <2>1. ReplyTypes'
    BY <1>0, <1>2 DEF PublishWrites, ReplyTypes
  <2>2. \A d \in Conns : Replied(d)'
    BY <1>2, PublishReplied
  <2> QED
    BY <2>1, <2>2 DEF ReplyInv
<1>3. CASE UNCHANGED vars
  <2>1. /\ UNCHANGED <<script, pos, cur, first, buf, frame, array, outs, joined, written>>
        /\ UNCHANGED <<pc, after, drops, closed, fault, delivered>>
    BY <1>3 DEF vars, decodeVars, poolVars, replyVars, flowVars
  <2>2. ASSUME NEW d \in Conns PROVE Replied(d)'
    <3>1. Idles(d) /\ Replied(d)
      BY <2>1 DEF Idles, ReplyInv
    <3> QED
      BY <2>1, <3>1, SameReplied
  <2> QED
    BY <1>0, <2>1, <2>2 DEF ReplyInv, ReplyTypes
<1> QED
  BY <1>1, <1>2, <1>3 DEF Next

\* The invariant holds at the start.
LEMMA ReplyStart == Init => ReplyInv
<1> SUFFICES ASSUME Init PROVE ReplyInv
  OBVIOUS
<1>1. ReplyTypes
  BY DEF Init, ReplyTypes
<1>2. ASSUME NEW c \in Conns PROVE Replied(c)
  <2>0. /\ pc[c] = "decode" /\ outs[c] = <<>> /\ written[c] = <<>> /\ delivered[c] = <<>>
    BY DEF Init
  <2>1. Passed(c) /\ Marked(c) /\ Typed(c) /\ Drafted(c)
    BY <2>0 DEF Passed, Marked, Typed, Drafted, Pending
  <2>2. <<>> \in Seq(Lines) /\ Whole(<<>>) = {}
    BY DEF Whole
  <2>3. Filled(<<>>) = {} /\ Ordered(<<>>) /\ Linked(<<>>) /\ Loose(<<>>)
    BY <2>2 DEF Filled, Ordered, Linked, Loose
  <2>4. Asked(c) = {}
    BY <2>0 DEF Asked
  <2>5. Wired(c)
    BY <2>0, <2>2, <2>3, <2>4 DEF Wired, Pending
  <2> QED
    BY <2>1, <2>5 DEF Replied
<1> QED
  BY <1>1, <1>2 DEF ReplyInv

\* What the peer can read of the wire.
LEMMA ReadableIs ==
  ASSUME NEW w \in Seq(Lines)
  PROVE  /\ \A i : i \in Replies(w) <=>
                 /\ i \in Whole(w)
                 /\ \A j \in 1 .. i : w[j] \notin {TornPublish, TornReply}
         /\ \A i \in Whole(w) : i \in Nat /\ i >= 1
<1>1. DOMAIN w = 1 .. Len(w) /\ Len(w) \in Nat
  OBVIOUS
<1>2. ASSUME NEW i
      PROVE  i \in Replies(w) <=>
                 /\ i \in Whole(w)
                 /\ \A j \in 1 .. i : w[j] \notin {TornPublish, TornReply}
  <2>1. i \in DOMAIN w => i \in 1 .. i
    BY <1>1
  <2> QED
    BY <2>1 DEF Replies, Readable, Whole, Stray
<1> QED
  BY <1>1, <1>2 DEF Whole

\* What the peer can read of the replies is an initial part of them.
LEMMA ReadsPart ==
  ASSUME NEW c \in Conns, Marked(c), Wired(c)
  PROVE  LET w == written[c]
         IN  /\ Unbroken(w, Snapped(c)) /\ InOrder(w) /\ Sent(w) \subseteq Asked(c)
             /\ \A b \in Sent(w), a \in Asked(c) : Before(a, b) => a \in Sent(w)
             /\ ~Snapped(c) /\ ~Pending(c) =>
                  Sent(w) = Asked(c) \/ TornPublish \in ToSet(w)
<1>p. PICK w : w = written[c]
  OBVIOUS
<1>0. /\ w \in Seq(Lines) /\ Ordered(w) /\ Loose(w) /\ Filled(w) \subseteq Asked(c)
      /\ ~Snapped(c) => Linked(w) /\ \A i \in DOMAIN w : w[i] # TornReply
      /\ \A b \in Filled(w), a \in Asked(c) : Before(a, b) => a \in Filled(w)
      /\ ~Snapped(c) /\ ~Pending(c) => Filled(w) = Asked(c)
  BY <1>p DEF Wired
<1>1. /\ \A i : i \in Replies(w) <=>
                 /\ i \in Whole(w)
                 /\ \A j \in 1 .. i : w[j] \notin {TornPublish, TornReply}
      /\ \A i \in Whole(w) : i \in Nat /\ i >= 1
  BY <1>0, ReadableIs
<1>s. \A b : b \in Sent(w) <=>
        \E i \in Replies(w) : \E k \in HeaderSize + 1 .. Len(w[i]) : b = w[i][k]
  BY DEF Sent, Payload
<1>2. ASSUME NEW i \in Replies(w), i + 1 \in Whole(w) PROVE i + 1 \in Replies(w)
  <2>1. i \in Nat /\ w[i + 1] \notin {TornPublish, TornReply}
    BY <1>1, <1>2 DEF Whole, Stray
  <2>2. \A j \in 1 .. i + 1 : j \in 1 .. i \/ j = i + 1
    BY <2>1
  <2> QED
    BY <1>1, <1>2, <2>1, <2>2
<1>3. Unbroken(w, Snapped(c))
  <2> SUFFICES ASSUME NEW i \in Replies(w), w[i][1] = HeaderByte(TRUE)
               PROVE  i + 1 \in Replies(w) \/ (Snapped(c) /\ \A j \in Replies(w) : j <= i)
    BY DEF Unbroken
  <2>1. CASE i + 1 \in Whole(w)
    BY <1>2, <2>1
  <2>2. CASE i + 1 \notin Whole(w)
    BY <1>0, <1>1, <2>2 DEF Linked, Loose
  <2> QED
    BY <2>1, <2>2
<1>4. InOrder(w)
  BY <1>0, <1>1 DEF InOrder, Ordered
<1>5. ASSUME NEW b \in Sent(w) PROVE b \in Filled(w)
  BY <1>1, <1>s, <1>5, FilledIs
<1>6. ASSUME NEW b \in Sent(w), NEW a \in Asked(c), Before(a, b) PROVE a \in Sent(w)
  <2>1. a \in Filled(w) /\ b \in Asked(c)
    BY <1>0, <1>5, <1>6
  <2>2. ~Before(b, a)
    BY <1>6, <2>1, AskedApart
  <2>3. PICK i \in Whole(w) : \E k \in HeaderSize + 1 .. Len(w[i]) : a = w[i][k]
    BY <2>1, FilledIs
  <2>4. PICK j \in Replies(w) : \E l \in HeaderSize + 1 .. Len(w[j]) : b = w[j][l]
    BY <1>s, <1>6
  <2>5. i \in Nat /\ j \in Nat /\ j \in Whole(w)
    BY <1>1
  <2>6. ~(j < i)
    BY <1>0, <2>2, <2>3, <2>4, <2>5 DEF Ordered
  <2>7. \A g \in 1 .. i : g \in 1 .. j
    BY <2>5, <2>6
  <2>8. i \in Replies(w)
    BY <1>1, <2>7
  <2> QED
    BY <1>s, <2>3, <2>8
<1>7. ASSUME ~Snapped(c), ~Pending(c), TornPublish \notin ToSet(w) PROVE Sent(w) = Asked(c)
  <2>1. DOMAIN w = 1 .. Len(w) /\ Len(w) \in Nat
    BY <1>0
  <2>2. \A i \in DOMAIN w : w[i] \notin {TornPublish, TornReply}
    BY <1>0, <1>7, <2>1 DEF ToSet
  <2>3. \A i \in Whole(w) : \A j \in 1 .. i : j \in DOMAIN w
    BY <2>1 DEF Whole
  <2>4. \A i \in Whole(w) : i \in Replies(w)
    BY <1>1, <2>2, <2>3
  <2>5. ASSUME NEW b \in Filled(w) PROVE b \in Sent(w)
    BY <1>s, <2>4, <2>5, FilledIs
  <2> QED
    BY <1>0, <1>5, <1>7, <2>5
<1> QED
  BY <1>p, <1>0, <1>3, <1>4, <1>5, <1>6, <1>7

\* In what the peer can read the fragments of a reply of HeadHandler.HandleWrite
\* follow each other, whatever Publish writes meanwhile, except where a write that
\* failed ends the connection; the replies are the bytes of the requests, in order
\* and from the first on without a gap, whatever the other connections do with the
\* pools the frames are encoded in; and a connection that reads on has answered
\* every request before, whole, where the peer can read it unless a publish was torn.
THEOREM RepliesWhole == Spec => []RepliesArriveWhole
<1>1. ASSUME ContentInv, ReplyInv PROVE RepliesArriveWhole
  <2> SUFFICES ASSUME NEW c \in Conns
               PROVE  LET w == written[c]
                      IN  /\ Unbroken(w, closed[c] \/ pc[c] = "broken") /\ InOrder(w)
                          /\ Sent(w) \subseteq Asked(c)
                          /\ \A b \in Sent(w), a \in Asked(c) : Before(a, b) => a \in Sent(w)
                          /\ pc[c] = "decode" =>
                               Sent(w) = Asked(c) \/ TornPublish \in ToSet(w)
    BY DEF RepliesArriveWhole
  <2>1. Wired(c) /\ Marked(c)
    BY <1>1 DEF ReplyInv, Replied
  <2>2. pc[c] = "decode" => ~Snapped(c) /\ ~Pending(c)
    <3>1. pc[c] = "decode" => ~closed[c]
      BY <1>1, ContentOf
    <3> QED
      BY <3>1 DEF Snapped, Pending
  <2> QED
    BY <2>1, <2>2, ReadsPart DEF Snapped
<1>2. Spec => []ReplyInv
  BY ContentHolds, ReplyStart, ReplyStep, PTL DEF Spec
<1> QED
  BY <1>1, <1>2, ContentHolds, PTL
=============================================================================
