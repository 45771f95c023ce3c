------------------------- MODULE ReplayCursorProofs -------------------------
(***************************************************************************)
(* Proofs about ReplayCursor, for every size of the cache and every bound. *)
(*                                                                         *)
(* The cursor is right because it is contiguous: as long as the handler    *)
(* has seen one numbering only, every number up to the cursor and every    *)
(* number set aside was accepted (Covered).  That needs the wire: frames   *)
(* of an older numbering are read before those of a newer one (WireSorted) *)
(* and what was accepted is not newer than what is still to be read        *)
(* (WireRecent).                                                           *)
(*                                                                         *)
(* A publish is accepted twice only after an answer lowered the cursor     *)
(* (RepeatInv): a connection carries it once, live or in its replay        *)
(* (CarriedOnce), and what it carries is new to the client (Unseen),       *)
(* because the HELLO of the connection showed the cursor of that moment.   *)
(***************************************************************************)
EXTENDS ReplayCursor, TLAPS

\* The publishes on the wire.
Flying == {i \in 1 .. Len(wire) : wire[i].kind = "publish"}
Publication(i) == <<wire[i].epoch, wire[i].seq>>

\* The counter is ahead of everything of its numbering, a replay belongs to a
\* connection whose session holds the topic and comes before the answer to HELLO,
\* and a new connection starts empty and is no member.
Counted ==
  /\ \A n \in cache \cup replay : n <= counter
  /\ \A p \in taken : p[1] = epoch => p[2] <= counter
  /\ \A i \in Flying : wire[i].epoch = epoch => wire[i].seq <= counter
  /\ replay # {} => link = "attached" /\ recorded
  /\ \A i \in 1 .. Len(wire) : wire[i].kind = "hello" => replay = {}
  /\ link \in {"down", "dialed"} => wire = <<>> /\ ~member

\* A connection carries every publish once, live or by its replay.
CarriedOnce ==
  /\ \A i, j \in Flying : Publication(i) = Publication(j) => i = j
  /\ \A i \in Flying : wire[i].epoch = epoch => wire[i].seq \notin replay

\* Whatever is on its way to a client that accepts everything is new to it.
Unseen ==
  /\ \A i \in Flying : Publication(i) \notin taken
  /\ \A n \in replay : <<epoch, n>> \notin taken

\* The invariant of RepeatsNeedLowering: until an answer lowers the cursor, what
\* was accepted is below it or set aside, and the cursor of a handshake is the
\* cursor of the moment.
RepeatInv ==
  /\ Counted /\ CarriedOnce
  /\ ~lowered =>
       /\ twice = {}
       /\ \A p \in taken : p[2] <= cursor \/ p[2] \in accepted
       /\ link = "dialed" => asked = cursor
       /\ acknowledging \/ Unseen

-----------------------------------------------------------------------------
\* What is left of a wire after its first frame is read.
LEMMA WireTail ==
  ASSUME NEW s \in Seq(Frames), s # <<>>
  PROVE  /\ Head(s) \in Frames /\ Head(s) = s[1]
         /\ Tail(s) \in Seq(Frames)
         /\ Len(Tail(s)) = Len(s) - 1
         /\ \A i \in 1 .. Len(s) - 1 : Tail(s)[i] = s[i + 1]
  OBVIOUS

\* A link that is down or new has an empty wire, which is a wire.
LEMMA NoWire == <<>> \in Seq(Frames) /\ Len(<<>>) = 0
  OBVIOUS

\* A frame the server writes.
LEMMA WireAppend ==
  ASSUME TypeOK, NEW kind \in Kinds, NEW n \in Nat, Send(Frame(kind, n))
  PROVE  /\ wire' \in Seq(Frames)
         /\ Len(wire') = Len(wire) + 1
         /\ \A i \in 1 .. Len(wire) : wire'[i] = wire[i]
         /\ wire'[Len(wire) + 1].epoch = epoch
         /\ wire'[Len(wire) + 1].kind = kind
         /\ wire'[Len(wire) + 1].seq = n
<1>1. /\ Frame(kind, n) \in Frames /\ Frame(kind, n).epoch = epoch
      /\ Frame(kind, n).kind = kind /\ Frame(kind, n).seq = n
  BY DEF TypeOK, Frame, Frames
<1>2. wire \in Seq(Frames) /\ wire' = Append(wire, Frame(kind, n))
  BY DEF TypeOK, Send
<1> HIDE DEF Frame
<1> QED
  BY <1>1, <1>2

\* The topic's counter, cache and epoch, kept or dropped.
LEMMA TopicTypes ==
  ASSUME TypeOK, NEW held \in BOOLEAN, DropTopic(held)
  PROVE  /\ counter' \in Nat /\ cache' \subseteq Nat /\ epoch' \in Nat
         /\ epoch <= epoch'
         /\ cache' \subseteq cache
<1>1. CASE held \/ counter = 0
  <2>1. counter' = counter /\ epoch' = epoch /\ cache' = cache
    BY <1>1, Zenon DEF DropTopic, topicVars
  <2> QED
    BY <2>1 DEF TypeOK
<1>2. CASE ~(held \/ counter = 0)
  BY <1>2 DEF TypeOK, DropTopic
<1> QED
  BY <1>1, <1>2

\* The types hold at the start ...
LEMMA TypeInit == Init => TypeOK
<1> SUFFICES ASSUME Init PROVE TypeOK
  OBVIOUS
<1>1. answer \in [kind : Kinds \cup {"none"}, seq : Nat]
  BY DEF Init, NoAnswer
<1>2. /\ wire \in Seq(Frames)
      /\ cursor \in Nat /\ asked \in Nat /\ links \in Nat
      /\ counter \in Nat /\ epoch \in Nat /\ since \in Nat
  BY NoWire DEF Init
<1>3. /\ call \in BOOLEAN /\ known \in BOOLEAN /\ recorded \in BOOLEAN
      /\ member \in BOOLEAN /\ others \in BOOLEAN /\ lowered \in BOOLEAN
  BY Zenon DEF Init
<1>5. acknowledging \in BOOLEAN
  BY ModesAssumption, Zenon DEF Init
<1>4. /\ accepted \subseteq Nat /\ replay \subseteq Nat /\ cache \subseteq Nat
      /\ taken \subseteq Publishes /\ twice \subseteq Publishes
      /\ rejected \subseteq Publishes /\ skipped \subseteq Publishes
      /\ link \in {"down", "dialed", "attached", "acked", "ready"}
  BY DEF Init
<1> QED
  BY <1>1, <1>2, <1>3, <1>4, <1>5 DEF TypeOK

\* ... and every step keeps them.
LEMMA TypeStep == TypeOK /\ [Next]_vars => TypeOK'
<1> SUFFICES ASSUME TypeOK, [Next]_vars PROVE TypeOK'
  OBVIOUS
<1> USE ModesAssumption, CacheSizeAssumption, BoundsAssumption
<1>1. CASE Attach
  BY <1>1 DEF TypeOK, Attach, Collected, clientVars, topicVars, history
<1>2. CASE ReplayWrite
  BY <1>2, WireAppend
      DEF TypeOK, ReplayWrite, Kinds, clientVars, topicVars, sessionVars, history
<1>3. CASE ReplayDone
  BY <1>3, WireAppend
      DEF TypeOK, ReplayDone, Kinds, clientVars, topicVars, sessionVars, history
<1>4. CASE Publish
  <2>1. counter + 1 \in Nat /\ "publish" \in Kinds
    BY DEF TypeOK, Kinds
  <2>2. wire' \in Seq(Frames)
    BY <1>4, <2>1, WireAppend DEF TypeOK, Publish
  <2>3. member' \in BOOLEAN
    BY <1>4, Zenon DEF TypeOK, Publish
  <2>4. counter' \in Nat /\ cache' \subseteq Nat
    <3>1. /\ counter' = counter + 1
          /\ cache' = {n \in cache \cup {counter + 1} : n > counter + 1 - CacheSize}
      BY <1>4, Zenon DEF Publish
    <3> QED
      BY <3>1, <2>1 DEF TypeOK
  <2> QED
    BY <1>4, <2>2, <2>3, <2>4 DEF TypeOK, Publish, clientVars, history
<1>5. CASE EvictTopic
  BY <1>5 DEF TypeOK, EvictTopic, clientVars, linkVars, sessionVars, history
<1>6. CASE Expire
  BY <1>6, TopicTypes DEF TypeOK, Expire, clientVars, linkVars, history
<1>7. CASE OthersJoin
  BY <1>7 DEF TypeOK, OthersJoin, clientVars, linkVars, topicVars, history
<1>8. CASE OthersLeave
  BY <1>8, TopicTypes DEF TypeOK, OthersLeave, clientVars, linkVars, history
<1>9. CASE Dial
  BY <1>9 DEF TypeOK, Dial, clientVars, topicVars, sessionVars, history
<1>10. CASE Drop
  BY <1>10, NoWire DEF TypeOK, Drop, topicVars, history
<1>11. CASE Subscribe
  BY <1>11, WireAppend DEF TypeOK, Subscribe, Kinds, topicVars
<1>12. CASE Unsubscribe
  BY <1>12, WireAppend, TopicTypes DEF TypeOK, Unsubscribe, Kinds, history
<1>13. CASE ReceiveAnswer
  <2>1. Head(wire).kind \in Kinds /\ Head(wire).seq \in Nat /\ wire' \in Seq(Frames)
    BY <1>13, WireTail DEF TypeOK, ReceiveAnswer, Frames
  <2>2. answer' \in [kind : Kinds \cup {"none"}, seq : Nat]
    BY <1>13, <2>1 DEF TypeOK, ReceiveAnswer
  <2>3. call' \in BOOLEAN /\ link' \in {"down", "dialed", "attached", "acked", "ready"}
    BY <1>13 DEF TypeOK, ReceiveAnswer
  <2> QED
    BY <1>13, <2>1, <2>2, <2>3
        DEF TypeOK, ReceiveAnswer, topicVars, sessionVars, history
<1>14. ASSUME NextPublish
       PROVE  /\ HeadSeq \in Nat /\ HeadPublish \in Publishes
              /\ wire' \in Seq(Frames)
  BY <1>14, WireTail DEF TypeOK, Frames, NextPublish, HeadSeq, HeadPublish, Publishes
<1>15. CASE Accept
  <2>1. cursor' \in Nat /\ accepted' \subseteq Nat
    BY <1>14, <1>15 DEF TypeOK, Accept, AcknowledgePublish
  <2> QED
    BY <1>14, <1>15, <2>1 DEF TypeOK, Accept, Took, topicVars, sessionVars
<1>16. CASE Reject
  BY <1>14, <1>16 DEF TypeOK, Reject, clientVars, topicVars, sessionVars
<1>17. CASE Skip
  BY <1>14, <1>17 DEF TypeOK, Skip, clientVars, topicVars, sessionVars
<1>18. CASE Deliver
  BY <1>14, <1>18 DEF TypeOK, Deliver, Took, Raised, topicVars, sessionVars
<1>19. CASE AlignReplayState
  BY <1>19
      DEF TypeOK, AlignReplayState, LastSeq, NoAnswer, linkVars, topicVars, sessionVars
<1>20. CASE Forget
  BY <1>20 DEF TypeOK, Forget, NoAnswer, linkVars, topicVars, sessionVars
<1>21. CASE UNCHANGED vars
  BY <1>21 DEF TypeOK, vars, clientVars, linkVars, topicVars, sessionVars, history
<1> QED
  BY <1>1, <1>2, <1>3, <1>4, <1>5, <1>6, <1>7, <1>8, <1>9, <1>10, <1>11, <1>12, <1>13,
     <1>15, <1>16, <1>17, <1>18, <1>19, <1>20, <1>21 DEF Next

\* Every variable of the replay bookkeeping keeps its type; in particular the
\* cursor never drops below zero.
THEOREM ReplayTypeCorrect == Spec => []TypeOK
  BY TypeInit, TypeStep, PTL DEF Spec

-----------------------------------------------------------------------------
(* How a step may treat the wire without disturbing WireSorted, WireRecent. *)

\* The epochs that WireSorted and WireRecent compare are numbers.
LEMMA EpochTypes ==
  ASSUME TypeOK
  PROVE  /\ Len(wire) \in Nat /\ (wire # <<>> => Len(wire) >= 1)
         /\ \A i \in 1 .. Len(wire) : wire[i].epoch \in Nat
         /\ \A p \in taken : p[1] \in Nat
         /\ epoch \in Nat
<1>1. wire \in Seq(Frames) /\ epoch \in Nat /\ taken \subseteq Nat \X Nat
  BY DEF TypeOK, Publishes
<1>2. \A f \in Frames : f.epoch \in Nat
  BY DEF Frames
<1>3. \A i \in 1 .. Len(wire) : wire[i] \in Frames
  BY <1>1
<1>4. Len(wire) \in Nat /\ (wire # <<>> => Len(wire) >= 1)
  BY <1>1
<1>5. \A p \in Nat \X Nat : p[1] \in Nat
  OBVIOUS
<1> QED
  BY <1>1, <1>2, <1>3, <1>4, <1>5

\* A step that leaves the wire alone, and may renumber the topic, keeps its order.
LEMMA WireKept ==
  ASSUME TypeOK, WireSorted, WireRecent, wire' = wire, taken' = taken,
         epoch' \in Nat, epoch <= epoch'
  PROVE  WireSorted' /\ WireRecent'
<1>1. /\ \A i \in 1 .. Len(wire) : wire[i].epoch \in Nat
      /\ \A p \in taken : p[1] \in Nat
      /\ epoch \in Nat
  BY EpochTypes
<1>2. WireSorted'
  BY DEF WireSorted
<1> QED
  BY <1>1, <1>2 DEF WireRecent

\* Nothing is out of order on an empty wire.
LEMMA WireGone ==
  ASSUME TypeOK, WireRecent, wire' = <<>>, taken' = taken, epoch' = epoch
  PROVE  WireSorted' /\ WireRecent'
  BY NoWire DEF WireSorted, WireRecent

\* A frame appended to the wire keeps it in order.
LEMMA WireGrows ==
  ASSUME TypeOK, WireSorted, WireRecent, NEW kind \in Kinds, NEW n \in Nat,
         Send(Frame(kind, n)), taken' = taken, epoch' \in Nat, epoch <= epoch'
  PROVE  WireSorted' /\ WireRecent'
<1> DEFINE L == Len(wire)
<1>1. /\ \A i \in 1 .. L : wire[i].epoch \in Nat
      /\ \A p \in taken : p[1] \in Nat
      /\ epoch \in Nat /\ L \in Nat
  BY EpochTypes
<1>2. /\ Len(wire') = L + 1
      /\ \A i \in 1 .. L : wire'[i] = wire[i]
      /\ wire'[L + 1].epoch = epoch
  BY WireAppend
<1> HIDE DEF L
<1>3. /\ \A i, j \in 1 .. L : i <= j => wire[i].epoch <= wire[j].epoch
      /\ \A i \in 1 .. L : wire[i].epoch <= epoch
      /\ \A p \in taken : p[1] <= epoch /\ \A i \in 1 .. L : p[1] <= wire[i].epoch
  BY DEF WireSorted, WireRecent, L
<1>4. \A i \in 1 .. L + 1 : i \in 1 .. L \/ i = L + 1
  BY <1>1
<1>5. \A i \in 1 .. L + 1 : wire'[i].epoch \in Nat /\ wire'[i].epoch <= epoch
  BY <1>1, <1>2, <1>3, <1>4
<1>6. WireSorted'
  <2> SUFFICES ASSUME NEW i \in 1 .. L + 1, NEW j \in 1 .. L + 1, i <= j
               PROVE  wire'[i].epoch <= wire'[j].epoch
    BY <1>2 DEF WireSorted
  <2>1. CASE j = L + 1
    BY <2>1, <1>2, <1>5
  <2>2. CASE j \in 1 .. L
    <3>1. i \in 1 .. L
      BY <2>2, <1>1
    <3> QED
      BY <3>1, <2>2, <1>2, <1>3
  <2> QED
    BY <2>1, <2>2, <1>4
<1>7. \A p \in taken : \A i \in 1 .. L + 1 : p[1] <= wire'[i].epoch
  BY <1>2, <1>3, <1>4
<1> QED
  BY <1>1, <1>2, <1>3, <1>5, <1>6, <1>7 DEF WireRecent

\* The read loop takes the oldest frame: the rest is still in order.
LEMMA WireRead ==
  ASSUME TypeOK, WireSorted, WireRecent, wire # <<>>, wire' = Tail(wire),
         epoch' = epoch, \A p \in taken' : p \in taken \/ p[1] = Head(wire).epoch
  PROVE  WireSorted' /\ WireRecent'
<1> DEFINE L == Len(wire)
<1>1. /\ L \in Nat /\ L >= 1
      /\ \A i \in 1 .. L : wire[i].epoch \in Nat
  BY EpochTypes
<1>2. /\ Len(wire') = L - 1
      /\ \A i \in 1 .. L - 1 : wire'[i] = wire[i + 1]
      /\ Head(wire) = wire[1]
  BY WireTail DEF TypeOK
<1> HIDE DEF L
<1>3. /\ \A i, j \in 1 .. L : i <= j => wire[i].epoch <= wire[j].epoch
      /\ \A i \in 1 .. L : wire[i].epoch <= epoch
      /\ \A p \in taken : p[1] <= epoch /\ \A i \in 1 .. L : p[1] <= wire[i].epoch
  BY DEF WireSorted, WireRecent, L
<1>4. \A i \in 1 .. L - 1 : i + 1 \in 1 .. L /\ 1 \in 1 .. L /\ 1 <= i + 1
  BY <1>1
<1>5. WireSorted'
  <2> SUFFICES ASSUME NEW i \in 1 .. L - 1, NEW j \in 1 .. L - 1, i <= j
               PROVE  wire'[i].epoch <= wire'[j].epoch
    BY <1>2 DEF WireSorted
  <2>1. i + 1 <= j + 1
    BY <1>1
  <2> QED
    BY <2>1, <1>2, <1>3, <1>4
<1>6. ASSUME NEW p \in taken'
      PROVE  p[1] <= epoch /\ \A i \in 1 .. L - 1 : p[1] <= wire'[i].epoch
  <2>1. CASE p \in taken
    BY <2>1, <1>2, <1>3, <1>4
  <2>2. CASE p[1] = wire[1].epoch
    BY <2>2, <1>1, <1>2, <1>3, <1>4
  <2> QED
    BY <2>1, <2>2, <1>2
<1>7. \A i \in 1 .. L - 1 : wire'[i].epoch <= epoch
  BY <1>2, <1>3, <1>4
<1> QED
  BY <1>2, <1>5, <1>6, <1>7 DEF WireRecent

-----------------------------------------------------------------------------
(* The replay bookkeeping.                                                  *)

Bookkeeping == <<acknowledging, cursor, accepted, taken, skipped>>

\* A step that leaves the bookkeeping alone and dials nothing.
LEMMA CoverKept ==
  ASSUME Covered, UNCHANGED Bookkeeping, asked' = asked,
         link' = "dialed" => link = "dialed"
  PROVE  Covered'
  BY DEF Covered, Bookkeeping

\* The cursor stays complete while nothing of it or of what was accepted changes.
LEMMA FullKept ==
  ASSUME CursorIsFull, NothingSkippedInEpoch, UNCHANGED Bookkeeping
  PROVE  CursorIsFull' /\ NothingSkippedInEpoch'
  BY DEF CursorIsFull, NothingSkippedInEpoch, Bookkeeping

\* A read that is about the first numbering finds that only it was accepted.
LEMMA OnlyFirstNumbering ==
  ASSUME TypeOK, WireRecent, wire # <<>>, Head(wire).epoch = 0
  PROVE  \A p \in taken : p[1] = 0
<1>1. 1 \in 1 .. Len(wire) /\ wire[1].epoch = 0
  BY EpochTypes, WireTail DEF TypeOK
<1>2. \A p \in taken : p[1] \in Nat /\ p[1] <= 0
  BY <1>1, EpochTypes DEF WireRecent
<1> QED
  BY <1>2

\* The invariant of the cursor holds at the start ...
LEMMA ReplayInit == Init => ReplayInv
<1> SUFFICES ASSUME Init PROVE ReplayInv
  OBVIOUS
<1>1. WireSorted /\ WireRecent
  BY NoWire DEF Init, WireSorted, WireRecent
<1>2. Covered
  BY DEF Init, Covered
<1>3. Numbered
  BY NoWire DEF Init, Numbered
<1> QED
  BY <1>1, <1>2, <1>3 DEF Init, ReplayInv, CursorIsFull, NothingSkippedInEpoch

\* Publishes are numbered from 1, in the cache, in a replay and on the wire.
LEMMA NumberedStep == TypeOK /\ Numbered /\ [Next]_vars => Numbered'
<1> SUFFICES ASSUME TypeOK, Numbered, [Next]_vars PROVE Numbered'
  OBVIOUS
<1> USE CacheSizeAssumption
<1> DEFINE OnWire == \A i \in 1 .. Len(wire) : wire[i].kind = "publish" => wire[i].seq # 0
<1>a. Len(wire) \in Nat /\ OnWire
  BY EpochTypes DEF Numbered
<1>b. ASSUME wire' = wire \/ wire' = <<>> PROVE OnWire'
  BY <1>a, <1>b, NoWire
<1>c. ASSUME wire # <<>>, wire' = Tail(wire) PROVE OnWire'
  BY <1>a, <1>c, WireTail DEF TypeOK
<1>d. ASSUME NEW kind \in Kinds, NEW n \in Nat, Send(Frame(kind, n)), kind = "publish" => n # 0
      PROVE  OnWire'
  <2>1. \A i \in 1 .. Len(wire) + 1 : i \in 1 .. Len(wire) \/ i = Len(wire) + 1
    BY <1>a
  <2> QED
    BY <1>a, <1>d, <2>1, WireAppend
<1>e. ASSUME OnWire', cache' \subseteq cache, replay' \subseteq cache \cup replay PROVE Numbered'
  BY <1>e DEF Numbered
<1>f. {"publish", "hello", "subscribed", "unsubscribed"} = Kinds
  BY DEF Kinds
<1> HIDE DEF OnWire
<1>1. CASE Attach
  BY <1>1, <1>b, <1>e DEF Attach, Collected, topicVars
<1>2. CASE ReplayWrite
  <2>1. PICK n \in replay : Send(Frame("publish", n)) /\ replay' = replay \ {n}
    BY <1>2 DEF ReplayWrite
  <2>2. OnWire'
    BY <2>1, <1>d, <1>f DEF TypeOK, Numbered
  <2> QED
    BY <1>2, <2>1, <2>2, <1>e DEF ReplayWrite, topicVars
<1>3. CASE ReplayDone
  <2>1. OnWire'
    BY <1>3, <1>d, <1>f DEF ReplayDone
  <2> QED
    BY <1>3, <2>1, <1>e DEF ReplayDone, topicVars
<1>4. CASE Publish
  <2>1. counter \in Nat /\ counter + 1 \in Nat /\ counter + 1 # 0
    BY DEF TypeOK
  <2>2. OnWire'
    <3>1. Send(Frame("publish", counter + 1)) \/ wire' = wire
      BY <1>4 DEF Publish
    <3> QED
      BY <2>1, <3>1, <1>b, <1>d, <1>f
  <2>3. /\ cache' = {n \in cache \cup {counter + 1} : n > counter + 1 - CacheSize}
        /\ replay' = replay
    BY <1>4, Zenon DEF Publish
  <2> QED
    BY <2>1, <2>2, <2>3 DEF Numbered, OnWire
<1>5. CASE EvictTopic
  BY <1>5, <1>b, <1>e DEF EvictTopic, linkVars
<1>6. CASE Expire
  BY <1>6, <1>b, <1>e, TopicTypes DEF TypeOK, Expire, linkVars
<1>7. CASE OthersJoin
  BY <1>7, <1>b, <1>e DEF OthersJoin, linkVars, topicVars
<1>8. CASE OthersLeave
  BY <1>8, <1>b, <1>e, TopicTypes DEF TypeOK, OthersLeave, linkVars
<1>9. CASE Dial
  BY <1>9, <1>b, <1>e DEF Dial, topicVars
<1>10. CASE Drop
  BY <1>10, <1>b, <1>e DEF Drop, topicVars
<1>11. CASE Subscribe
  <2>1. OnWire'
    BY <1>11, <1>d, <1>f DEF TypeOK, Subscribe
  <2> QED
    BY <1>11, <2>1, <1>e DEF Subscribe, topicVars
<1>12. CASE Unsubscribe
  <2>1. OnWire'
    BY <1>12, <1>d, <1>f DEF Unsubscribe
  <2> QED
    BY <1>12, <2>1, <1>e, TopicTypes DEF TypeOK, Unsubscribe
<1>13. CASE ReceiveAnswer
  BY <1>13, <1>c, <1>e DEF ReceiveAnswer, topicVars
<1>14. CASE Accept \/ Reject \/ Skip \/ Deliver
  BY <1>14, <1>c, <1>e DEF Accept, Reject, Skip, Deliver, NextPublish, topicVars
<1>15. CASE AlignReplayState \/ Forget
  BY <1>15, <1>b, <1>e DEF AlignReplayState, Forget, linkVars, topicVars
<1>16. CASE UNCHANGED vars
  BY <1>16, <1>b, <1>e DEF vars, linkVars, topicVars
<1> QED
  BY <1>1, <1>2, <1>3, <1>4, <1>5, <1>6, <1>7, <1>8, <1>9, <1>10, <1>11, <1>12, <1>13,
     <1>14, <1>15, <1>16 DEF Next

\* An acknowledged publish: the cursor moves over numbers that were accepted.
LEMMA AcceptStep ==
  ASSUME TypeOK, ReplayInv, Accept
  PROVE  CursorIsFull' /\ Covered'
<1> DEFINE n == HeadSeq
<1>1. n \in Nat /\ HeadPublish = <<Head(wire).epoch, n>> /\ wire # <<>>
  BY WireTail DEF Accept, NextPublish, HeadSeq, HeadPublish, TypeOK, Frames
<1>2. /\ n > cursor /\ n \notin accepted
      /\ AcknowledgePublish(n)
      /\ taken' = taken \cup {HeadPublish}
      /\ link' = link /\ asked' = asked /\ acknowledging' = acknowledging
  BY DEF Accept, ShouldDeliver, Took
<1> HIDE DEF n
<1>3. cursor \in Nat /\ accepted \subseteq Nat /\ \A k \in accepted : k > cursor + 1
  BY DEF TypeOK, ReplayInv, CursorIsFull
<1>4. CASE n = cursor + 1
  <2>1. PICK m \in {n} \cup accepted :
          /\ \A k \in n + 1 .. m : k \in accepted
          /\ m >= n /\ m + 1 \notin accepted
          /\ cursor' = m
          /\ accepted' = {k \in accepted : k > m}
    BY <1>2, <1>4 DEF AcknowledgePublish
  <2>2. CursorIsFull'
    BY <2>1, <1>1, <1>3 DEF CursorIsFull
  <2>3. \A k \in (1 .. cursor') \cup accepted' :
          k \in (1 .. cursor) \cup accepted \/ k = n
    BY <2>1, <1>1, <1>3, <1>4
  <2> QED
    BY <2>2, <2>3, <1>1, <1>2 DEF Covered, ReplayInv
<1>5. CASE n # cursor + 1
  <2>1. cursor' = cursor /\ accepted' = accepted \cup {n}
    BY <1>2, <1>5 DEF AcknowledgePublish
  <2>2. CursorIsFull'
    BY <2>1, <1>1, <1>2, <1>3, <1>5 DEF CursorIsFull
  <2> QED
    BY <2>1, <2>2, <1>1, <1>2 DEF Covered, ReplayInv
<1> QED
  BY <1>4, <1>5

\* ... and every step keeps it.
LEMMA ReplayStep == TypeOK /\ ReplayInv /\ [Next]_vars => ReplayInv'
<1> SUFFICES ASSUME TypeOK, ReplayInv, [Next]_vars PROVE ReplayInv'
  OBVIOUS
<1> USE ModesAssumption, CacheSizeAssumption, BoundsAssumption
<1>a. WireSorted /\ WireRecent /\ Covered /\ CursorIsFull /\ NothingSkippedInEpoch
  BY DEF ReplayInv
<1>b. epoch \in Nat /\ counter \in Nat /\ cache \subseteq Nat /\ replay \subseteq Nat
  BY DEF TypeOK
<1>c. {"publish", "hello", "subscribed", "unsubscribed"} = Kinds
  BY DEF Kinds
<1>n. Numbered'
  BY NumberedStep DEF ReplayInv
<1>d. ASSUME UNCHANGED Bookkeeping, asked' = asked,
             link' = "dialed" => link = "dialed",
             WireSorted' /\ WireRecent'
      PROVE  ReplayInv'
  BY <1>a, <1>d, <1>n, CoverKept, FullKept DEF ReplayInv, Bookkeeping
<1>1. CASE Attach
  BY <1>1, <1>a, <1>b, <1>d, WireKept
      DEF Attach, Bookkeeping, clientVars, topicVars, history
<1>2. CASE ReplayWrite
  <2>1. WireSorted' /\ WireRecent'
    BY <1>2, <1>a, <1>b, <1>c, WireGrows DEF ReplayWrite, topicVars, history
  <2> QED
    BY <1>2, <1>d, <2>1 DEF ReplayWrite, Bookkeeping, clientVars, topicVars, history
<1>3. CASE ReplayDone
  <2>1. WireSorted' /\ WireRecent'
    BY <1>3, <1>a, <1>b, <1>c, WireGrows DEF ReplayDone, topicVars, history
  <2> QED
    BY <1>3, <1>d, <2>1 DEF ReplayDone, Bookkeeping, clientVars, topicVars, history
<1>4. CASE Publish
  <2>1. counter + 1 \in Nat /\ epoch' = epoch /\ taken' = taken
    BY <1>4, <1>b DEF Publish, history
  <2>2. WireSorted' /\ WireRecent'
    <3>1. CASE Send(Frame("publish", counter + 1))
      BY <3>1, <2>1, <1>a, <1>b, <1>c, WireGrows
    <3>2. CASE wire' = wire
      BY <3>2, <2>1, <1>a, <1>b, WireKept
    <3> QED
      BY <3>1, <3>2, <1>4 DEF Publish
  <2>3. UNCHANGED Bookkeeping /\ asked' = asked /\ link' = link
    BY <1>4 DEF Publish, Bookkeeping, clientVars, history
  <2> QED
    BY <2>2, <2>3, <1>d
<1>5. CASE EvictTopic
  BY <1>5, <1>a, <1>b, <1>d, WireKept
     DEF EvictTopic, Bookkeeping, clientVars, linkVars, history
<1>6. CASE Expire
  BY <1>6, <1>a, <1>d, WireKept, TopicTypes
     DEF TypeOK, Expire, Bookkeeping, clientVars, linkVars, history
<1>7. CASE OthersJoin
  BY <1>7, <1>a, <1>b, <1>d, WireKept
     DEF OthersJoin, Bookkeeping, clientVars, linkVars, topicVars, history
<1>8. CASE OthersLeave
  BY <1>8, <1>a, <1>d, WireKept, TopicTypes
     DEF TypeOK, OthersLeave, Bookkeeping, clientVars, linkVars, history
<1>9. CASE Dial
  <2>1. WireSorted' /\ WireRecent'
    BY <1>9, <1>a, <1>b, WireKept DEF Dial, topicVars, history
  <2>2. Covered'
    BY <1>9, <1>a DEF Dial, Covered, clientVars, history
  <2> QED
    BY <1>9, <2>1, <2>2, <1>a, <1>n, FullKept
       DEF Dial, ReplayInv, Bookkeeping, clientVars, topicVars, history
<1>10. CASE Drop
  <2>1. WireSorted' /\ WireRecent'
    BY <1>10, <1>a, WireGone DEF Drop, topicVars, history
  <2> QED
    BY <1>10, <1>d, <2>1 DEF Drop, Bookkeeping, topicVars, history
<1>11. CASE Subscribe
  <2>1. WireSorted' /\ WireRecent'
    BY <1>11, <1>a, <1>b, <1>c, WireGrows DEF Subscribe, topicVars
  <2> QED
    BY <1>11, <1>d, <2>1 DEF Subscribe, Bookkeeping, topicVars
<1>12. CASE Unsubscribe
  <2>1. epoch' \in Nat /\ epoch <= epoch' /\ cache' \subseteq cache
    BY <1>12, TopicTypes DEF TypeOK, Unsubscribe
  <2>2. WireSorted' /\ WireRecent'
    BY <1>12, <2>1, <1>a, <1>c, WireGrows DEF Unsubscribe, history
  <2> QED
    BY <1>12, <1>d, <2>1, <2>2 DEF Unsubscribe, Bookkeeping, history
<1>13. CASE ReceiveAnswer
  <2>1. WireSorted' /\ WireRecent'
    BY <1>13, <1>a, WireRead DEF ReceiveAnswer, topicVars, history
  <2>2. link' = "dialed" => link = "dialed"
    BY <1>13 DEF ReceiveAnswer
  <2> QED
    BY <1>13, <1>d, <2>1, <2>2 DEF ReceiveAnswer, Bookkeeping, topicVars, history
<1>14. CASE Accept
  <2>1. WireSorted' /\ WireRecent'
    BY <1>14, <1>a, WireRead DEF Accept, NextPublish, Took, HeadPublish, topicVars
  <2>2. NothingSkippedInEpoch'
    BY <1>14, <1>a DEF Accept, Took, NothingSkippedInEpoch
  <2> QED
    BY <1>14, <2>1, <2>2, <1>n, AcceptStep DEF Accept, ReplayInv, topicVars
<1>15. CASE Reject
  <2>1. WireSorted' /\ WireRecent'
    BY <1>15, <1>a, WireRead DEF Reject, NextPublish, topicVars
  <2> QED
    BY <1>15, <1>d, <2>1 DEF Reject, Bookkeeping, clientVars, topicVars
<1>16. CASE Skip
  <2>1. WireSorted' /\ WireRecent'
    BY <1>16, <1>a, WireRead DEF Skip, NextPublish, topicVars
  <2>2. Covered' /\ CursorIsFull'
    BY <1>16, <1>a DEF Skip, Covered, CursorIsFull, clientVars
  <2>3. NothingSkippedInEpoch'
    <3> SUFFICES ASSUME HeadPublish \notin taken, Head(wire).epoch = 0 PROVE FALSE
      <4>1. Head(wire).epoch \in Nat
        BY <1>16, WireTail DEF Skip, NextPublish, TypeOK, Frames
      <4> QED
        BY <1>16, <1>a, <4>1 DEF Skip, NothingSkippedInEpoch, HeadPublish
    <3>1. \A p \in taken : p[1] = 0
      BY <1>16, <1>a, OnlyFirstNumbering DEF Skip, NextPublish
    <3>2. HeadSeq \in Nat /\ cursor \in Nat /\ HeadPublish = <<0, HeadSeq>>
      BY <1>16, WireTail DEF Skip, NextPublish, HeadSeq, HeadPublish, TypeOK, Frames
    <3>3. HeadSeq \notin (1 .. cursor) \cup accepted
      BY <1>16, <1>a, <3>1, <3>2 DEF Skip, Covered
    <3>4. HeadSeq <= cursor \/ HeadSeq \in accepted
      BY <1>16, <3>2 DEF Skip, ShouldDeliver
    <3>5. HeadSeq # 0
      BY <1>16, EpochTypes, WireTail
         DEF Skip, NextPublish, HeadSeq, ReplayInv, Numbered, TypeOK
    <3> QED
      BY <3>2, <3>3, <3>4, <3>5
  <2> QED
    BY <1>16, <2>1, <2>2, <2>3, <1>n DEF Skip, ReplayInv, clientVars, topicVars
<1>17. CASE Deliver
  <2>1. WireSorted' /\ WireRecent'
    BY <1>17, <1>a, WireRead DEF Deliver, NextPublish, Took, HeadPublish, topicVars
  <2>2. accepted' = {} /\ ~acknowledging /\ ~acknowledging'
    BY <1>17 DEF Deliver, ReplayInv
  <2> QED
    BY <1>17, <2>1, <2>2, <1>a, <1>n
       DEF Deliver, Took, ReplayInv, Covered, CursorIsFull, NothingSkippedInEpoch, topicVars
<1>18. CASE AlignReplayState
  <2>1. WireSorted' /\ WireRecent'
    BY <1>18, <1>a, <1>b, WireKept DEF AlignReplayState, linkVars, topicVars
  <2>2. CASE LastSeq < cursor
    <3>1. /\ cursor' = answer.seq /\ accepted' = {} /\ taken' = taken
          /\ cursor \in Nat /\ answer.seq \in Nat /\ answer.seq < cursor
          /\ link' = link /\ asked' = asked /\ skipped' = skipped /\ cache' = cache
          /\ acknowledging' = acknowledging
      BY <1>18, <2>2 DEF TypeOK, AlignReplayState, LastSeq, linkVars, topicVars
    <3>2. Covered'
      BY <3>1, <1>a DEF Covered
    <3> QED
      BY <2>1, <3>1, <3>2, <1>a, <1>n DEF ReplayInv, CursorIsFull, NothingSkippedInEpoch
  <2>3. CASE ~(LastSeq < cursor)
    BY <1>18, <2>1, <2>3, <1>d DEF AlignReplayState, Bookkeeping, linkVars, topicVars
  <2> QED
    BY <2>2, <2>3
<1>19. CASE Forget
  <2>1. WireSorted' /\ WireRecent'
    BY <1>19, <1>a, <1>b, WireKept DEF Forget, linkVars, topicVars
  <2>2. Covered'
    BY <1>19, <1>a DEF Forget, Covered, linkVars
  <2> QED
    BY <1>19, <2>1, <2>2, <1>a, <1>n
       DEF Forget, ReplayInv, CursorIsFull, NothingSkippedInEpoch, topicVars
<1>20. CASE UNCHANGED vars
  BY <1>20, <1>a, <1>b, <1>d, WireKept
     DEF vars, Bookkeeping, clientVars, linkVars, topicVars, history
<1> QED
  BY <1>1, <1>2, <1>3, <1>4, <1>5, <1>6, <1>7, <1>8, <1>9, <1>10, <1>11, <1>12, <1>13,
     <1>14, <1>15, <1>16, <1>17, <1>18, <1>19, <1>20 DEF Next

-----------------------------------------------------------------------------
\* Types and cursor invariant, as one invariant for the proofs below to use.
LEMMA ReplayInvariant == Spec => [](TypeOK /\ ReplayInv)
<1>1. Init => TypeOK /\ ReplayInv
  BY TypeInit, ReplayInit
<1>2. TypeOK /\ ReplayInv /\ [Next]_vars => (TypeOK /\ ReplayInv)'
  BY TypeStep, ReplayStep
<1> QED
  BY <1>1, <1>2, PTL DEF Spec

\* The accepted set holds only what lies beyond a gap: acknowledgePublish moves
\* the cursor as far as it can, in whatever order publishes arrive.
THEOREM CursorFull == Spec => []CursorIsFull
<1>1. ReplayInv => CursorIsFull
  BY DEF ReplayInv
<1> QED
  BY <1>1, ReplayInvariant, PTL

\* Before a topic's numbering restarts, shouldDeliverPublish drops only what the
\* handler accepted.
THEOREM NothingSkipped == Spec => []NothingSkippedInEpoch
<1>1. ReplayInv => NothingSkippedInEpoch
  BY DEF ReplayInv
<1> QED
  BY <1>1, ReplayInvariant, PTL

\* The acknowledging client loses no publish the server still has: a resume asks
\* for all that was rejected or missed.
THEOREM ReplayCovers == Spec => ReplayCoversMissed
<1>1. TypeOK /\ ReplayInv /\ [Next]_vars => [acknowledging => AsksForMissed]_vars
  <2> SUFFICES ASSUME TypeOK, ReplayInv, Next, acknowledging,
                      link = "dialed", link' = "attached", known, recorded, epoch = 0,
                      NEW n \in cache, <<0, n>> \notin taken
               PROVE  n \in replay'
    BY DEF AsksForMissed
  <2>1. Attach
    <3>1. ~(\/ ReplayWrite \/ ReplayDone \/ Publish \/ EvictTopic \/ Expire
            \/ OthersJoin \/ OthersLeave \/ Dial \/ Drop \/ Subscribe \/ Unsubscribe)
      BY DEF ReplayWrite, ReplayDone, Publish, EvictTopic, Expire, OthersJoin,
             OthersLeave, Dial, Drop, Subscribe, Unsubscribe, linkVars
    <3>2. ~(\/ ReceiveAnswer \/ Accept \/ Reject \/ Skip \/ Deliver
            \/ AlignReplayState \/ Forget)
      BY DEF ReceiveAnswer, Accept, Reject, Skip, Deliver, AlignReplayState, Forget,
          linkVars
    <3> QED
      BY <3>1, <3>2 DEF Next
  <2>2. replay' = {m \in cache : m > asked}
    BY <2>1 DEF Attach, Collected
  <2>3. \A p \in taken : p[1] = 0
    BY EpochTypes DEF ReplayInv, WireRecent
  <2>4. n \notin 1 .. asked
    BY <2>3 DEF ReplayInv, Covered
  <2>5. n \in Nat /\ n # 0 /\ asked \in Nat
    BY DEF TypeOK, ReplayInv, Numbered
  <2> QED
    BY <2>2, <2>4, <2>5
<1> QED
  BY <1>1, ReplayInvariant, PTL DEF Spec, ReplayCoversMissed

-----------------------------------------------------------------------------
(* Repeats.                                                                 *)

\* The publishes on the wire after a step were on it before, k places further.
NoNewPublish(k) ==
  \A i \in 1 .. Len(wire') :
    \/ i + k \in 1 .. Len(wire) /\ wire'[i] = wire[i + k]
    \/ wire'[i].kind # "publish" /\ (wire'[i].kind = "hello" => replay' = {})

\* Every step but a live or replayed publish puts no publish on the wire.
LEMMA QuietWire ==
  ASSUME TypeOK,
         \/ wire' = wire \/ wire' = <<>>
         \/ wire # <<>> /\ wire' = Tail(wire)
         \/ \E kind \in Kinds \ {"publish"}, n \in Nat :
              Send(Frame(kind, n)) /\ (kind = "hello" => replay' = {})
  PROVE  \E k \in {0, 1} : NoNewPublish(k)
<1>0. wire \in Seq(Frames) /\ Len(wire) \in Nat
  BY DEF TypeOK
<1>1. CASE wire' = wire
  BY <1>0, <1>1 DEF NoNewPublish
<1>2. CASE wire' = <<>>
  BY <1>2, NoWire DEF NoNewPublish
<1>3. CASE wire # <<>> /\ wire' = Tail(wire)
  <2>1. NoNewPublish(1)
    BY <1>0, <1>3, WireTail DEF NoNewPublish
  <2> QED
    BY <2>1
<1>4. ASSUME NEW kind \in Kinds \ {"publish"}, NEW n \in Nat, Send(Frame(kind, n)),
             kind = "hello" => replay' = {}
      PROVE  NoNewPublish(0)
  <2>1. /\ Len(wire') = Len(wire) + 1
        /\ \A i \in 1 .. Len(wire) : wire'[i] = wire[i]
        /\ wire'[Len(wire) + 1].kind = kind
    BY <1>4, WireAppend
  <2>2. \A i \in 1 .. Len(wire) + 1 : (i \in 1 .. Len(wire) /\ i + 0 = i) \/ i = Len(wire) + 1
    BY <1>0
  <2> QED
    BY <1>4, <2>1, <2>2 DEF NoNewPublish
<1> QED
  BY <1>1, <1>2, <1>3, <1>4

\* The facts about types the lemmas on repeats use.
LEMMA FlyingTypes ==
  ASSUME TypeOK
  PROVE  /\ Flying \subseteq Nat /\ Len(wire) \in Nat
         /\ \A i \in Flying : wire[i].seq \in Nat /\ wire[i].epoch \in Nat
         /\ \A p \in taken : p[1] \in Nat /\ p[2] \in Nat /\ p = <<p[1], p[2]>>
         /\ counter \in Nat /\ epoch \in Nat /\ cursor \in Nat /\ asked \in Nat
         /\ cache \subseteq Nat /\ replay \subseteq Nat
<1>1. /\ wire \in Seq(Frames) /\ taken \subseteq Nat \X Nat
      /\ counter \in Nat /\ epoch \in Nat /\ cursor \in Nat /\ asked \in Nat
      /\ cache \subseteq Nat /\ replay \subseteq Nat
  BY DEF TypeOK, Publishes
<1>2. \A i \in Flying : i \in 1 .. Len(wire) /\ wire[i] \in Frames
  BY <1>1 DEF Flying
<1>3. \A p \in Nat \X Nat : p[1] \in Nat /\ p[2] \in Nat /\ p = <<p[1], p[2]>>
  OBVIOUS
<1>4. \A i \in Flying : i \in Nat /\ wire[i].seq \in Nat /\ wire[i].epoch \in Nat
  BY <1>1, <1>2 DEF Frames
<1> QED
  BY <1>1, <1>3, <1>4

\* A step that puts no publish on the wire and gives the handler none.
LEMMA QuietStep ==
  ASSUME TypeOK, TypeOK', ReplayInv, RepeatInv,
         NEW k \in {0, 1}, NoNewPublish(k),
         cache' \subseteq cache, replay' \subseteq replay,
         \/ epoch' = epoch /\ counter' = counter
         \/ epoch < epoch' /\ replay' = {} /\ cache' = {},
         replay' # {} => link' = "attached" /\ recorded',
         link' \in {"down", "dialed"} => wire' = <<>> /\ ~member',
         taken' = taken, twice' = twice,
         \/ lowered'
         \/ /\ UNCHANGED <<lowered, cursor, accepted, acknowledging>>
            /\ link' = "dialed" => asked' = cursor \/ (link = "dialed" /\ asked' = asked)
  PROVE  RepeatInv'
<1>1. /\ Flying \subseteq Nat /\ counter \in Nat /\ epoch \in Nat
      /\ \A i \in Flying : wire[i].epoch \in Nat
      /\ \A p \in taken : p[1] \in Nat
  BY FlyingTypes
<1>8. epoch' \in Nat /\ Flying' \subseteq Nat
  BY DEF TypeOK, Flying
<1>2. \A i \in Flying' : i + k \in Flying /\ wire'[i] = wire[i + k]
  BY DEF Flying, NoNewPublish
<1>3. /\ \A i \in Flying : wire[i].epoch <= epoch
      /\ \A p \in taken : p[1] <= epoch
  BY DEF ReplayInv, WireRecent, Flying
<1>4. Counted'
  <2>1. \A n \in cache' \cup replay' : n <= counter'
    BY DEF RepeatInv, Counted
  <2>2. \A p \in taken' : p[1] = epoch' => p[2] <= counter'
    BY <1>1, <1>8, <1>3 DEF RepeatInv, Counted
  <2>3. \A i \in Flying' : wire'[i].epoch = epoch' => wire'[i].seq <= counter'
    BY <1>1, <1>8, <1>2, <1>3 DEF RepeatInv, Counted
  <2>4. \A i \in 1 .. Len(wire') : wire'[i].kind = "hello" => replay' = {}
    BY DEF RepeatInv, Counted, NoNewPublish
  <2> QED
    BY <2>1, <2>2, <2>3, <2>4 DEF Counted
<1>5. CarriedOnce'
  <2>1. ASSUME NEW i \in Flying', NEW j \in Flying', Publication(i)' = Publication(j)'
        PROVE  i = j
    <3>1. i + k \in Flying /\ j + k \in Flying /\ Publication(i + k) = Publication(j + k)
      BY <1>2, <2>1 DEF Publication
    <3>2. i + k = j + k
      BY <3>1 DEF RepeatInv, CarriedOnce
    <3> QED
      BY <1>8, <3>2
  <2>2. \A i \in Flying' : wire'[i].epoch = epoch' => wire'[i].seq \notin replay'
    BY <1>2 DEF RepeatInv, CarriedOnce
  <2> QED
    BY <2>1, <2>2 DEF CarriedOnce
<1>6. Unseen => Unseen'
  <2>1. ASSUME Unseen, NEW i \in Flying' PROVE Publication(i)' \notin taken'
    BY <1>2, <2>1 DEF Unseen, Publication
  <2>2. ASSUME Unseen, NEW n \in replay' PROVE <<epoch', n>> \notin taken'
    BY <2>2 DEF Unseen
  <2> QED
    BY <2>1, <2>2 DEF Unseen
<1>7. ~lowered' => /\ twice' = {}
                   /\ \A p \in taken' : p[2] <= cursor' \/ p[2] \in accepted'
                   /\ link' = "dialed" => asked' = cursor'
                   /\ acknowledging' \/ Unseen'
  BY <1>6 DEF RepeatInv
<1> QED
  BY <1>4, <1>5, <1>7 DEF RepeatInv

\* What a step that appends a publish of the moment leaves on the wire.
LEMMA PublishSent ==
  ASSUME TypeOK, NEW n \in Nat, Send(Frame("publish", n))
  PROVE  /\ \A i \in Flying' : (i \in Flying /\ wire'[i] = wire[i])
                            \/ (i = Len(wire) + 1 /\ wire'[i].epoch = epoch /\ wire'[i].seq = n)
         /\ \A i \in 1 .. Len(wire') : wire'[i].kind = "hello" =>
              i \in 1 .. Len(wire) /\ wire[i].kind = "hello"
         /\ wire' # <<>>
<1>1. "publish" \in Kinds /\ Len(wire) \in Nat
  BY FlyingTypes DEF Kinds
<1>2. /\ Len(wire') = Len(wire) + 1 /\ wire' \in Seq(Frames)
      /\ \A i \in 1 .. Len(wire) : wire'[i] = wire[i]
      /\ wire'[Len(wire) + 1].kind = "publish"
      /\ wire'[Len(wire) + 1].epoch = epoch
      /\ wire'[Len(wire) + 1].seq = n
  BY <1>1, WireAppend
<1>3. \A i \in 1 .. Len(wire') : i \in 1 .. Len(wire) \/ i = Len(wire) + 1
  BY <1>1, <1>2
<1>4. wire' # <<>>
  BY <1>1, <1>2
<1> QED
  BY <1>2, <1>3, <1>4 DEF Flying

\* A publish the connection does not carry yet goes on the wire, by replayTo or
\* live.
LEMMA SentStep ==
  ASSUME TypeOK, RepeatInv, NEW n \in Nat, Send(Frame("publish", n)), n <= counter',
         counter <= counter', counter' \in Nat, epoch' = epoch, replay' \subseteq replay, n \notin replay',
         link \notin {"down", "dialed"}, link' = link,
         \A i \in Flying : wire[i].epoch = epoch => wire[i].seq # n,
         ~lowered /\ ~acknowledging => <<epoch, n>> \notin taken,
         \A m \in cache' : m <= counter', recorded' = recorded,
         UNCHANGED <<lowered, cursor, accepted, acknowledging, taken, twice>>
  PROVE  RepeatInv'
<1>1. /\ \A i \in Flying' : (i \in Flying /\ wire'[i] = wire[i])
                         \/ (i = Len(wire) + 1 /\ wire'[i].epoch = epoch /\ wire'[i].seq = n)
      /\ \A i \in 1 .. Len(wire') : wire'[i].kind = "hello" =>
              i \in 1 .. Len(wire) /\ wire[i].kind = "hello"
      /\ wire' # <<>>
  BY PublishSent
<1>2. /\ \A i \in Flying : wire[i].seq \in Nat
      /\ \A p \in taken : p[2] \in Nat
      /\ counter \in Nat /\ replay \subseteq Nat
  BY FlyingTypes
<1>3. Counted'
  <2>1. \A m \in cache' \cup replay' : m <= counter'
    <3>1. \A m \in replay : m <= counter /\ m \in Nat
      BY <1>2 DEF RepeatInv, Counted
    <3>2. \A m \in replay : m <= counter'
      BY <1>2, <3>1
    <3> QED
      BY <3>2
  <2>2. \A p \in taken' : p[1] = epoch' => p[2] <= counter'
    BY <1>2 DEF RepeatInv, Counted
  <2>3. \A i \in Flying' : wire'[i].epoch = epoch' => wire'[i].seq <= counter'
    BY <1>1, <1>2 DEF RepeatInv, Counted
  <2>4. \A i \in 1 .. Len(wire') : wire'[i].kind = "hello" => replay' = {}
    BY <1>1 DEF RepeatInv, Counted
  <2>5. replay' # {} => link' = "attached" /\ recorded'
    BY DEF RepeatInv, Counted
  <2> QED
    BY <2>1, <2>2, <2>3, <2>4, <2>5 DEF Counted
<1>4. CarriedOnce'
  <2>1. ASSUME NEW i \in Flying', NEW j \in Flying', Publication(i)' = Publication(j)'
        PROVE  i = j
    <3>1. wire'[i].epoch = wire'[j].epoch /\ wire'[i].seq = wire'[j].seq
      BY <2>1 DEF Publication
    <3>2. \A a, b \in Flying : wire[a].epoch = wire[b].epoch /\ wire[a].seq = wire[b].seq => a = b
      BY DEF RepeatInv, CarriedOnce, Publication
    <3> QED
      BY <1>1, <3>1, <3>2
  <2>2. \A i \in Flying' : wire'[i].epoch = epoch' => wire'[i].seq \notin replay'
    BY <1>1 DEF RepeatInv, CarriedOnce
  <2> QED
    BY <2>1, <2>2 DEF CarriedOnce
<1>5. ASSUME ~lowered, ~acknowledging PROVE Unseen'
  <2>1. Unseen
    BY <1>5 DEF RepeatInv
  <2>2. ASSUME NEW i \in Flying' PROVE Publication(i)' \notin taken'
    BY <1>1, <1>5, <2>1 DEF Unseen, Publication
  <2>3. \A m \in replay' : <<epoch', m>> \notin taken'
    BY <2>1 DEF Unseen
  <2> QED
    BY <2>2, <2>3 DEF Unseen
<1> QED
  BY <1>3, <1>4, <1>5 DEF RepeatInv

\* The handler takes the first publish on the wire.
LEMMA TookStep ==
  ASSUME TypeOK, TypeOK', ReplayInv, RepeatInv, NextPublish, Took(HeadPublish),
         UNCHANGED <<acknowledging, topicVars, sessionVars, link, asked, replay>>,
         ~lowered => HeadPublish \notin taken,
         \A n \in Nat : n <= cursor \/ n \in accepted \/ n = HeadSeq => n <= cursor' \/ n \in accepted'
  PROVE  RepeatInv'
<1>1. /\ Flying \subseteq Nat /\ Len(wire) \in Nat
      /\ \A i \in Flying : wire[i].seq \in Nat /\ wire[i].epoch \in Nat
      /\ \A p \in taken : p[1] \in Nat /\ p[2] \in Nat /\ p = <<p[1], p[2]>>
      /\ counter \in Nat /\ epoch \in Nat
  BY FlyingTypes
<1>2. /\ wire # <<>> /\ wire' = Tail(wire) /\ Head(wire).kind = "publish"
      /\ Len(wire') = Len(wire) - 1 /\ Head(wire) = wire[1] /\ Len(wire) >= 1
      /\ \A i \in 1 .. Len(wire) - 1 : wire'[i] = wire[i + 1]
  BY WireTail, EpochTypes DEF NextPublish, TypeOK
<1>3. /\ 1 \in Flying /\ HeadPublish = Publication(1) /\ HeadSeq = wire[1].seq
      /\ HeadPublish[1] = wire[1].epoch /\ HeadPublish[2] = wire[1].seq
  BY <1>1, <1>2 DEF Flying, HeadPublish, HeadSeq, Publication
<1>4. \A i \in Flying' : i \in Nat /\ i + 1 \in Flying /\ wire'[i] = wire[i + 1] /\ i + 1 # 1
  BY <1>1, <1>2 DEF Flying
<1>5. /\ taken' = taken \cup {HeadPublish} /\ lowered' = lowered
      /\ twice' = IF HeadPublish \in taken THEN twice \cup {HeadPublish} ELSE twice
      /\ UNCHANGED <<cache, counter, epoch, recorded>>
  BY DEF Took, topicVars, sessionVars
<1>6. link \notin {"down", "dialed"}
  BY <1>2 DEF RepeatInv, Counted
<1>7. Counted'
  <2>1. \A n \in cache' \cup replay' : n <= counter'
    BY <1>5 DEF RepeatInv, Counted
  <2>2. \A p \in taken' : p[1] = epoch' => p[2] <= counter'
    BY <1>3, <1>5 DEF RepeatInv, Counted
  <2>3. \A i \in Flying' : wire'[i].epoch = epoch' => wire'[i].seq <= counter'
    BY <1>4, <1>5 DEF RepeatInv, Counted
  <2>4. \A i \in 1 .. Len(wire') : wire'[i].kind = "hello" => replay' = {}
    <3>1. \A i \in 1 .. Len(wire') : i + 1 \in 1 .. Len(wire) /\ wire'[i] = wire[i + 1]
      BY <1>1, <1>2
    <3> QED
      BY <3>1 DEF RepeatInv, Counted
  <2>5. replay' # {} => link' = "attached" /\ recorded'
    BY <1>5 DEF RepeatInv, Counted
  <2> QED
    BY <1>6, <2>1, <2>2, <2>3, <2>4, <2>5 DEF Counted
<1>8. CarriedOnce'
  <2>1. ASSUME NEW i \in Flying', NEW j \in Flying', Publication(i)' = Publication(j)'
        PROVE  i = j
    <3>1. i + 1 \in Flying /\ j + 1 \in Flying /\ Publication(i + 1) = Publication(j + 1)
      BY <1>4, <2>1 DEF Publication
    <3>2. i + 1 = j + 1
      BY <3>1 DEF RepeatInv, CarriedOnce
    <3> QED
      BY <1>4, <3>2
  <2>2. \A i \in Flying' : wire'[i].epoch = epoch' => wire'[i].seq \notin replay'
    BY <1>4, <1>5 DEF RepeatInv, CarriedOnce
  <2> QED
    BY <2>1, <2>2 DEF CarriedOnce
<1>9. ASSUME ~lowered, ~acknowledging PROVE Unseen'
  <2>1. Unseen
    BY <1>9 DEF RepeatInv
  <2>2. ASSUME NEW i \in Flying' PROVE Publication(i)' \notin taken'
    <3>1. Publication(i)' = Publication(i + 1) /\ i + 1 \in Flying /\ i + 1 # 1
      BY <1>4, <2>2 DEF Publication
    <3>2. Publication(i + 1) # Publication(1)
      BY <1>3, <3>1 DEF RepeatInv, CarriedOnce
    <3> QED
      BY <1>3, <1>5, <2>1, <3>1, <3>2 DEF Unseen
  <2>3. ASSUME NEW m \in replay' PROVE <<epoch', m>> \notin taken'
    <3>1. m \in replay /\ <<epoch, m>> \notin taken
      BY <2>1, <2>3 DEF Unseen
    <3>2. <<epoch, m>> # HeadPublish
      BY <1>3, <3>1 DEF RepeatInv, CarriedOnce
    <3> QED
      BY <1>5, <3>1, <3>2
  <2> QED
    BY <2>2, <2>3 DEF Unseen
<1>10. ASSUME ~lowered PROVE \A p \in taken' : p[2] <= cursor' \/ p[2] \in accepted'
  BY <1>1, <1>3, <1>5, <1>10 DEF RepeatInv
<1>11. ~lowered => twice' = {}
  BY <1>5 DEF RepeatInv
<1> QED
  BY <1>5, <1>6, <1>7, <1>8, <1>9, <1>10, <1>11 DEF RepeatInv

\* One step per action: what is on its way stays new to the client.
LEMMA RepeatStep == TypeOK /\ ReplayInv /\ RepeatInv /\ [Next]_vars => RepeatInv'
<1> SUFFICES ASSUME TypeOK, ReplayInv, RepeatInv, [Next]_vars PROVE RepeatInv'
  OBVIOUS
<1>0. TypeOK'
  BY TypeStep
<1> USE CacheSizeAssumption
<1>a. /\ counter \in Nat /\ epoch \in Nat /\ cursor \in Nat /\ cache \subseteq Nat
      /\ replay \subseteq Nat /\ asked \in Nat /\ Len(wire) \in Nat
  BY FlyingTypes
<1>b. {"publish", "hello", "subscribed", "unsubscribed"} = Kinds
  BY DEF Kinds
<1>c. /\ replay # {} => link = "attached" /\ recorded
      /\ link \in {"down", "dialed"} => wire = <<>> /\ ~member
      /\ \A n \in cache \cup replay : n <= counter
  BY DEF RepeatInv, Counted
<1>d. ASSUME \/ wire' = wire \/ wire' = <<>>
             \/ wire # <<>> /\ wire' = Tail(wire)
             \/ \E kind \in Kinds \ {"publish"}, n \in Nat :
                  Send(Frame(kind, n)) /\ (kind = "hello" => replay' = {}),
             cache' \subseteq cache, replay' \subseteq replay,
             \/ epoch' = epoch /\ counter' = counter
             \/ epoch < epoch' /\ replay' = {} /\ cache' = {},
             replay' # {} => link' = "attached" /\ recorded',
             link' \in {"down", "dialed"} => wire' = <<>> /\ ~member',
             taken' = taken, twice' = twice,
             \/ lowered'
             \/ /\ UNCHANGED <<lowered, cursor, accepted, acknowledging>>
                /\ link' = "dialed" => asked' = cursor \/ (link = "dialed" /\ asked' = asked)
      PROVE  RepeatInv'
  <2>1. PICK k \in {0, 1} : NoNewPublish(k)
    BY <1>d, QuietWire
  <2> QED
    BY <1>0, <1>d, <2>1, QuietStep
<1>e. ASSUME NEW held \in BOOLEAN, DropTopic(held), ~held => replay' = {}
      PROVE  /\ cache' \subseteq cache
             /\ \/ epoch' = epoch /\ counter' = counter
                \/ epoch < epoch' /\ replay' = {} /\ cache' = {}
  BY <1>a, <1>e DEF DropTopic, topicVars
<1>f. recorded \in BOOLEAN /\ others \in BOOLEAN
  BY DEF TypeOK
<1>1. CASE Attach
  <2>1. /\ link = "dialed" /\ wire' = wire /\ wire = <<>> /\ replay' = Collected
        /\ link' = "attached" /\ recorded' = (known /\ recorded)
        /\ UNCHANGED <<counter, epoch, cache, taken, twice, lowered, cursor, accepted, acknowledging>>
    BY <1>1, <1>c DEF Attach, clientVars, topicVars, history
  <2>2. Flying' = {} /\ Len(wire') = 0
    BY <2>1, NoWire DEF Flying
  <2>3. \A n \in replay' : n \in cache /\ n > asked /\ known /\ recorded
    BY <2>1 DEF Collected
  <2>4. Counted'
    <3>1. \A n \in cache' \cup replay' : n <= counter'
      BY <1>c, <2>1, <2>3
    <3>2. \A i \in 1 .. Len(wire') : wire'[i].kind = "hello" => replay' = {}
      BY <2>2
    <3>3. \A p \in taken' : p[1] = epoch' => p[2] <= counter'
      BY <2>1 DEF RepeatInv, Counted
    <3>4. replay' # {} => recorded'
      BY <2>1, <2>3
    <3> QED
      BY <2>1, <2>2, <3>1, <3>2, <3>3, <3>4 DEF Counted
  <2>5. CarriedOnce'
    BY <2>2 DEF CarriedOnce
  <2>6. ASSUME ~lowered, ~acknowledging PROVE Unseen'
    <3>1. accepted = {} /\ asked = cursor /\ \A p \in taken : p[2] <= cursor
      BY <2>1, <2>6 DEF ReplayInv, RepeatInv
    <3>2. ASSUME NEW n \in replay', <<epoch, n>> \in taken PROVE FALSE
      <4>1. n \in Nat /\ n > cursor
        BY <1>a, <2>3, <3>1, <3>2
      <4>2. <<epoch, n>>[2] <= cursor
        BY <3>1, <3>2
      <4> QED
        BY <1>a, <4>1, <4>2
    <3> QED
      BY <2>1, <2>2, <3>2 DEF Unseen
  <2> QED
    BY <2>1, <2>4, <2>5, <2>6 DEF RepeatInv
<1>2. CASE ReplayWrite
  <2>1. PICK n \in replay : Send(Frame("publish", n)) /\ replay' = replay \ {n}
    BY <1>2 DEF ReplayWrite
  <2>2. /\ link = "attached" /\ link' = link
        /\ UNCHANGED <<counter, epoch, cache, recorded, taken, twice, lowered, cursor, accepted, acknowledging>>
    BY <1>2 DEF ReplayWrite, clientVars, topicVars, sessionVars, history
  <2>3. n \in Nat /\ n <= counter /\ \A i \in Flying : wire[i].epoch = epoch => wire[i].seq # n
    BY <1>a, <1>c DEF RepeatInv, CarriedOnce
  <2>4. ~lowered /\ ~acknowledging => <<epoch, n>> \notin taken
    BY DEF RepeatInv, Unseen
  <2> QED
    BY <1>a, <1>c, <2>1, <2>2, <2>3, <2>4, SentStep
<1>3. CASE ReplayDone
  <2>1. Send(Frame("hello", 0)) /\ replay = {} /\ replay' = {}
    BY <1>3 DEF ReplayDone
  <2>2. \E kind \in Kinds \ {"publish"}, n \in Nat :
                  Send(Frame(kind, n)) /\ (kind = "hello" => replay' = {})
    BY <1>b, <2>1
  <2> QED
    BY <1>3, <1>d, <2>1, <2>2
        DEF ReplayDone, clientVars, topicVars, sessionVars, history
<1>4. CASE Publish
  <2>1. /\ counter' = counter + 1
        /\ cache' = {n \in cache \cup {counter + 1} : n > counter + 1 - CacheSize}
        /\ UNCHANGED <<link, asked, replay, epoch, recorded, taken, twice, lowered, cursor, accepted, acknowledging>>
    BY <1>4 DEF Publish, clientVars, history
  <2>2. counter + 1 \in Nat /\ counter <= counter + 1 /\ \A n \in cache' : n <= counter'
    BY <1>a, <1>c, <2>1
  <2>3. CASE member /\ Send(Frame("publish", counter + 1))
    <3>1. /\ \A i \in Flying : wire[i].epoch = epoch => wire[i].seq # counter + 1
          /\ <<epoch, counter + 1>> \notin taken
          /\ counter + 1 \notin replay
      <4>1. \A i \in Flying : wire[i].epoch = epoch => wire[i].seq <= counter /\ wire[i].seq \in Nat
        BY FlyingTypes DEF RepeatInv, Counted
      <4>2. \A p \in taken : p[1] = epoch => p[2] <= counter /\ p[2] \in Nat
        BY FlyingTypes DEF RepeatInv, Counted
      <4>3. ASSUME <<epoch, counter + 1>> \in taken PROVE FALSE
        <5>1. <<epoch, counter + 1>>[2] <= counter
          BY <4>2, <4>3
        <5> QED
          BY <1>a, <5>1
      <4> QED
        BY <1>a, <1>c, <4>1, <4>3
    <3>2. link \notin {"down", "dialed"}
      BY <1>c, <2>3
    <3>3. counter + 1 <= counter' /\ counter <= counter' /\ counter' \in Nat
      BY <2>1, <2>2
    <3> QED
      BY <2>1, <2>2, <2>3, <3>1, <3>2, <3>3, SentStep
  <2>4. CASE wire' = wire
    <3>1. Counted'
      <4>1. \A n \in replay : n <= counter /\ n \in Nat
        BY <1>a, <1>c
      <4>2. \A n \in cache' \cup replay' : n <= counter'
        BY <1>a, <2>1, <2>2, <4>1
      <4>3. \A p \in taken : p[1] = epoch => p[2] <= counter /\ p[2] \in Nat
        BY FlyingTypes DEF RepeatInv, Counted
      <4>4. \A p \in taken' : p[1] = epoch' => p[2] <= counter'
        BY <1>a, <2>1, <4>3
      <4>5. \A i \in Flying : wire[i].epoch = epoch => wire[i].seq <= counter /\ wire[i].seq \in Nat
        BY FlyingTypes DEF RepeatInv, Counted
      <4>6. \A i \in Flying' : wire'[i].epoch = epoch' => wire'[i].seq <= counter'
        BY <1>a, <2>1, <2>4, <4>5 DEF Flying
      <4>7. link' \in {"down", "dialed"} => wire' = <<>> /\ ~member'
        BY <1>4, <1>c, <2>1, <2>4 DEF Publish
      <4> QED
        BY <2>1, <2>4, <4>2, <4>4, <4>6, <4>7 DEF RepeatInv, Counted
    <3>2. CarriedOnce'
      BY <2>1, <2>4 DEF RepeatInv, CarriedOnce, Flying, Publication
    <3>3. Unseen => Unseen'
      BY <2>1, <2>4 DEF Unseen, Flying, Publication
    <3> QED
      BY <2>1, <3>1, <3>2, <3>3 DEF RepeatInv
  <2> QED
    BY <1>4, <2>3, <2>4 DEF Publish
<1>5. CASE EvictTopic
  BY <1>5, <1>c, <1>d DEF EvictTopic, clientVars, linkVars, sessionVars, history
<1>6. CASE Expire
  <2>1. replay = {} /\ replay' = {} /\ DropTopic(others)
    BY <1>6, <1>c DEF Expire, linkVars
  <2>2. /\ cache' \subseteq cache
        /\ \/ epoch' = epoch /\ counter' = counter
           \/ epoch < epoch' /\ replay' = {} /\ cache' = {}
    BY <1>e, <1>f, <2>1
  <2> QED
    BY <1>6, <1>c, <1>d, <2>1, <2>2 DEF Expire, clientVars, linkVars, history
<1>7. CASE OthersJoin
  BY <1>7, <1>c, <1>d DEF OthersJoin, clientVars, linkVars, topicVars, history
<1>8. CASE OthersLeave
  <2>1. ~(recorded \/ member) => replay' = {}
    BY <1>8, <1>c DEF OthersLeave, linkVars
  <2>2. DropTopic(recorded \/ member)
    BY <1>8 DEF OthersLeave
  <2>3. /\ cache' \subseteq cache
        /\ \/ epoch' = epoch /\ counter' = counter
           \/ epoch < epoch' /\ replay' = {} /\ cache' = {}
    BY <1>e, <1>f, <2>1, <2>2
  <2> QED
    BY <1>8, <1>c, <1>d, <2>3 DEF OthersLeave, clientVars, linkVars, history
<1>9. CASE Dial
  BY <1>9, <1>c, <1>d DEF Dial, clientVars, topicVars, sessionVars, history
<1>10. CASE Drop
  BY <1>10, <1>c, <1>d DEF Drop, topicVars, history
<1>11. CASE Subscribe
  <2>1. \E kind \in Kinds \ {"publish"}, n \in Nat :
                  Send(Frame(kind, n)) /\ (kind = "hello" => replay' = {})
    BY <1>11, <1>a, <1>b DEF Subscribe
  <2> QED
    BY <1>11, <1>c, <1>d, <2>1 DEF Subscribe, topicVars
<1>12. CASE Unsubscribe
  <2>1. \E kind \in Kinds \ {"publish"}, n \in Nat :
                  Send(Frame(kind, n)) /\ (kind = "hello" => replay' = {})
    BY <1>12, <1>a, <1>b DEF Unsubscribe
  <2>2. replay = {} /\ replay' = {} /\ DropTopic(others)
    BY <1>12, <1>c DEF Unsubscribe
  <2>3. /\ cache' \subseteq cache
        /\ \/ epoch' = epoch /\ counter' = counter
           \/ epoch < epoch' /\ replay' = {} /\ cache' = {}
    BY <1>e, <1>f, <2>2
  <2> QED
    BY <1>12, <1>d, <2>1, <2>2, <2>3 DEF Unsubscribe, history
<1>13. CASE ReceiveAnswer
  <2>1. wire # <<>> /\ wire' = Tail(wire) /\ replay' = replay /\ recorded' = recorded
    BY <1>13 DEF ReceiveAnswer, sessionVars
  <2>2. Head(wire).kind = "hello" => replay = {}
    <3>1. 1 \in 1 .. Len(wire) /\ Head(wire) = wire[1]
      BY <2>1, EpochTypes, WireTail DEF TypeOK
    <3> QED
      BY <3>1 DEF RepeatInv, Counted
  <2>3. replay' # {} => link' = "attached" /\ recorded'
    BY <1>13, <1>c, <2>1, <2>2 DEF ReceiveAnswer
  <2>4. link' \notin {"down", "dialed"}
    BY <1>13, <1>c, <2>1 DEF ReceiveAnswer
  <2> QED
    BY <1>13, <1>d, <2>1, <2>3, <2>4 DEF ReceiveAnswer, topicVars, sessionVars, history
<1>14. CASE Accept
  <2>1. /\ NextPublish /\ Took(HeadPublish) /\ AcknowledgePublish(HeadSeq)
        /\ HeadSeq > cursor /\ HeadSeq \notin accepted
        /\ UNCHANGED <<acknowledging, topicVars, sessionVars, link, asked, replay>>
    BY <1>14 DEF Accept, ShouldDeliver
  <2>2. HeadSeq \in Nat /\ HeadPublish[2] = HeadSeq /\ accepted \subseteq Nat
    BY <2>1, WireTail DEF NextPublish, HeadSeq, HeadPublish, TypeOK, Frames
  <2>3. ~lowered => HeadPublish \notin taken
    BY <1>a, <2>1, <2>2 DEF RepeatInv
  <2>4. \A n \in Nat : n <= cursor \/ n \in accepted \/ n = HeadSeq => n <= cursor' \/ n \in accepted'
    BY <1>a, <2>1, <2>2 DEF AcknowledgePublish
  <2> QED
    BY <1>0, <2>1, <2>3, <2>4, TookStep
<1>15. CASE Reject \/ Skip
  <2>1. NextPublish /\ link' = link
    BY <1>15 DEF Reject, Skip
  <2> QED
    BY <1>15, <1>c, <1>d, <2>1
        DEF Reject, Skip, NextPublish, clientVars, topicVars, sessionVars
<1>16. CASE Deliver
  <2>1. /\ NextPublish /\ Took(HeadPublish) /\ cursor' = Raised(HeadSeq) /\ ~acknowledging
        /\ UNCHANGED <<acknowledging, topicVars, sessionVars, link, asked, replay, accepted>>
    BY <1>16 DEF Deliver
  <2>2. HeadSeq \in Nat /\ 1 \in Flying /\ HeadPublish = Publication(1)
    <3>1. /\ wire # <<>> /\ Head(wire) = wire[1] /\ Head(wire) \in Frames
          /\ 1 \in 1 .. Len(wire) /\ Head(wire).kind = "publish"
      BY <2>1, WireTail, EpochTypes DEF NextPublish, TypeOK
    <3> QED
      BY <3>1 DEF HeadSeq, HeadPublish, Frames, Flying, Publication
  <2>3. ~lowered => HeadPublish \notin taken
    BY <2>1, <2>2 DEF RepeatInv, Unseen
  <2>4. \A n \in Nat : n <= cursor \/ n \in accepted \/ n = HeadSeq => n <= cursor' \/ n \in accepted'
    BY <1>a, <2>1, <2>2 DEF Raised
  <2> QED
    BY <1>0, <2>1, <2>3, <2>4, TookStep
<1>17. CASE AlignReplayState
  BY <1>17, <1>c, <1>d DEF AlignReplayState, linkVars, topicVars, sessionVars
<1>18. CASE Forget
  BY <1>18, <1>c, <1>d DEF Forget, linkVars, topicVars, sessionVars
<1>19. CASE UNCHANGED vars
  BY <1>19, <1>c, <1>d DEF vars, clientVars, linkVars, topicVars, sessionVars, history
<1> QED
  BY <1>1, <1>2, <1>3, <1>4, <1>5, <1>6, <1>7, <1>8, <1>9, <1>10, <1>11, <1>12, <1>13,
     <1>14, <1>15, <1>16, <1>17, <1>18, <1>19 DEF Next

\* Until the answer to a SUBSCRIBE or UNSUBSCRIBE lowers the cursor no publish
\* reaches the handler twice, live or by replay, however often the client
\* reconnects and the numbering restarts: for both constructors.
THEOREM RepeatsOnlyAfterLowering == Spec => []RepeatsNeedLowering
<1>1. Init => RepeatInv
  <2> SUFFICES ASSUME Init PROVE RepeatInv
    OBVIOUS
  <2>1. Flying = {} /\ Len(wire) = 0
    BY NoWire DEF Init, Flying
  <2> QED
    BY <2>1 DEF Init, RepeatInv, Counted, CarriedOnce, Unseen
<1>2. RepeatInv => RepeatsNeedLowering
  BY DEF RepeatInv, RepeatsNeedLowering
<1> QED
  BY <1>1, <1>2, RepeatStep, ReplayInvariant, PTL DEF Spec
=============================================================================
