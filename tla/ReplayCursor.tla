---------------------------- MODULE ReplayCursor ----------------------------
(***************************************************************************)
(* The replay cursor of pkg/proto/resilient.go for one topic: how the      *)
(* publishes a client has accepted, the cursor it presents at a reconnect  *)
(* and the answers of SUBSCRIBE fit the counter and the cache the server   *)
(* keeps (protocol.go).  The client is NewAcknowledgedResilientClient when *)
(* acknowledging is TRUE and NewResilientClient otherwise.                 *)
(*                                                                         *)
(* The server is abstract: Publish is one step (ProtocolHandler has its    *)
(* interleavings), and other holders of the topic come and go.  The number *)
(* of a topic restarts when its last holder leaves: an epoch ends.  A      *)
(* publish is <<epoch, number>>.  The link is the connection of the moment *)
(* and wire what is on its way to the client; one read loop takes it off.  *)
(***************************************************************************)
EXTENDS Integers, Sequences

CONSTANTS Modes,          \* constructors: TRUE for the acknowledging one
          CacheSize,      \* topicCacheSize
          MaxSeq,         \* bound: publishes of an epoch
          MaxEpoch,       \* bound: restarts of the numbering
          MaxLinks        \* bound: connections

ASSUME ModesAssumption == Modes \subseteq BOOLEAN
ASSUME CacheSizeAssumption == CacheSize \in Nat \ {0}
ASSUME BoundsAssumption ==
  MaxSeq \in Nat /\ MaxEpoch \in Nat /\ MaxLinks \in Nat

VARIABLES
  acknowledging,  \* the handler accepts or rejects
  cursor,    \* rc.cursors[topic]
  accepted,  \* rc.acceptedPublishes[topic]
  answer,    \* an answer its caller has not acted on yet
  call,      \* the request in flight, one at a time
  link,      \* how far the connection is
  links,     \* connections made
  asked,     \* the cursor of the handshake
  wire,      \* frames written and not read
  replay,    \* numbers replayTo has still to write
  counter,   \* topicSeqs[topic], 0 when there is none
  epoch,     \* how often the numbering restarted
  cache,     \* numbers in topicCache[topic]
  known,     \* the server knows the session of the client's token
  recorded,  \* that session records the topic
  member,    \* the connection of the moment is in subs[topic]
  others,    \* somebody else holds the topic
  since,     \* the counter when the session began to record the topic
  taken,     \* publishes the handler has accepted
  twice,     \* publishes it has accepted more than once
  rejected,  \* publishes it has rejected and not accepted since
  skipped,   \* publishes dropped as old that it never accepted
  lowered    \* an answer has lowered the cursor

clientVars  == <<cursor, accepted, answer, call>>
linkVars    == <<link, links, asked, wire, replay>>
topicVars   == <<counter, epoch, cache>>
sessionVars == <<known, recorded, member, others>>
history     == <<since, taken, twice, rejected, skipped, lowered>>
vars == <<acknowledging, clientVars, linkVars, topicVars, sessionVars, history>>

NoAnswer == [kind |-> "none", seq |-> 0]

Init ==
  /\ acknowledging \in Modes
  /\ cursor = 0 /\ accepted = {}
  /\ answer = NoAnswer /\ call = FALSE
  /\ link = "down" /\ links = 0
  /\ asked = 0 /\ wire = <<>> /\ replay = {}
  /\ counter = 0 /\ epoch = 0 /\ cache = {}
  /\ known = FALSE /\ recorded = FALSE /\ member = FALSE
  /\ others \in BOOLEAN
  /\ since = 0
  /\ taken = {} /\ twice = {} /\ rejected = {} /\ skipped = {}
  /\ lowered = FALSE

Frame(kind, n) == [kind |-> kind, seq |-> n, epoch |-> epoch]
Send(frame) == wire' = Append(wire, frame)

-----------------------------------------------------------------------------
(* The server                                                              *)

\* The topic's counter and cache go with its last holder.
DropTopic(held) ==
  IF held \/ counter = 0
    THEN UNCHANGED topicVars
    ELSE /\ epoch < MaxEpoch
         /\ counter' = 0
         /\ cache' = {}
         /\ epoch' = epoch + 1

\* attachSession: a known token resumes, its publishes above the cursor are
\* collected; otherwise a fresh session is minted.
Collected == IF known /\ recorded THEN {n \in cache : n > asked} ELSE {}

Attach ==
  /\ link = "dialed"
  /\ link' = "attached"
  /\ replay' = Collected
  /\ known' = TRUE
  /\ recorded' = (known /\ recorded)
  /\ member' = (known /\ recorded)
  /\ UNCHANGED <<acknowledging, clientVars, links, asked, wire, topicVars, others, history>>

\* replayTo, oldest first; live publishes may come in between.
ReplayWrite ==
  /\ link = "attached"
  /\ \E n \in replay :
       /\ \A m \in replay : n <= m
       /\ Send(Frame("publish", n))
       /\ replay' = replay \ {n}
  /\ UNCHANGED <<acknowledging, clientVars, link, links, asked, topicVars, sessionVars, history>>

\* The answer to HELLO follows the replay.
ReplayDone ==
  /\ link = "attached"
  /\ replay = {}
  /\ link' = "acked"
  /\ Send(Frame("hello", 0))
  /\ UNCHANGED <<acknowledging, clientVars, links, asked, replay, topicVars, sessionVars, history>>

\* Publish with somebody to hold the topic.  The write to the client goes
\* through, or fails and drops it from the members.
Publish ==
  /\ others \/ recorded \/ member
  /\ counter < MaxSeq
  /\ counter' = counter + 1
  /\ cache' = {n \in cache \cup {counter + 1} : n > counter + 1 - CacheSize}
  /\ \/ member /\ Send(Frame("publish", counter + 1))
        /\ UNCHANGED member
     \/ member' = FALSE /\ UNCHANGED wire
  /\ UNCHANGED <<acknowledging, clientVars, link, links, asked, replay, epoch, known, recorded,
                 others, history>>

\* The cache of the topic falls to the byte budget.
EvictTopic ==
  /\ cache # {}
  /\ cache' = {}
  /\ UNCHANGED <<acknowledging, clientVars, linkVars, counter, epoch, sessionVars, history>>

\* The janitor forgets the session of a client that is away, or connected and silent
\* for too long, which it is not while its handshake goes on; its connection leaves
\* the members.
Expire ==
  /\ known /\ link # "attached"
  /\ known' = FALSE /\ recorded' = FALSE /\ member' = FALSE
  /\ DropTopic(others)
  /\ UNCHANGED <<acknowledging, clientVars, linkVars, others, history>>

OthersJoin ==
  /\ ~others
  /\ others' = TRUE
  /\ UNCHANGED <<acknowledging, clientVars, linkVars, topicVars, known, recorded, member, history>>

OthersLeave ==
  /\ others
  /\ others' = FALSE
  /\ DropTopic(recorded \/ member)
  /\ UNCHANGED <<acknowledging, clientVars, linkVars, known, recorded, member, history>>

-----------------------------------------------------------------------------
(* The connection                                                          *)

\* Dial, and the snapshot of the cursor for the handshake.
Dial ==
  /\ link = "down"
  /\ links < MaxLinks
  /\ link' = "dialed"
  /\ links' = links + 1
  /\ asked' = cursor
  /\ UNCHANGED <<acknowledging, clientVars, wire, replay, topicVars, sessionVars, history>>

\* What is not read is lost and a request in flight fails.  The dead connection
\* may stay in subs until a write to it fails or its session moves or expires; it
\* holds the topic no longer than that session does, and without one as others do.
Drop ==
  /\ link # "down"
  /\ link' = "down"
  /\ wire' = <<>>
  /\ replay' = {}
  /\ call' = FALSE
  /\ member' = FALSE
  /\ others' = (others \/ (member /\ ~recorded))
  /\ UNCHANGED <<acknowledging, cursor, accepted, answer, links, asked, topicVars, known,
                 recorded, history>>

-----------------------------------------------------------------------------
(* The client                                                              *)

\* Subscribe, by the program or by swap: the server records it with the session, if
\* it has not forgotten that, and answers with the counter.
Subscribe ==
  /\ link = "ready" /\ ~call /\ answer = NoAnswer
  /\ call' = TRUE
  /\ recorded' = known /\ member' = TRUE
  /\ since' = IF recorded THEN since ELSE counter
  /\ Send(Frame("subscribed", counter))
  /\ UNCHANGED <<acknowledging, cursor, accepted, answer, link, links, asked, replay, topicVars,
                 known, others, taken, twice, rejected, skipped, lowered>>

Unsubscribe ==
  /\ link = "ready" /\ ~call /\ answer = NoAnswer
  /\ call' = TRUE
  /\ recorded' = FALSE /\ member' = FALSE
  /\ DropTopic(others)
  /\ Send(Frame("unsubscribed", 0))
  /\ UNCHANGED <<acknowledging, cursor, accepted, answer, link, links, asked, replay,
                 known, others, history>>

\* The read loop takes an answer off the wire.
ReceiveAnswer ==
  /\ wire # <<>> /\ Head(wire).kind # "publish"
  /\ wire' = Tail(wire)
  /\ IF Head(wire).kind = "hello"
       THEN link' = "ready" /\ UNCHANGED <<call, answer>>
       ELSE /\ answer' = [kind |-> Head(wire).kind, seq |-> Head(wire).seq]
            /\ call' = FALSE
            /\ UNCHANGED link
  /\ UNCHANGED <<acknowledging, cursor, accepted, links, asked, replay, topicVars,
                 sessionVars, history>>

\* An off-by-one at the cursor.
AboveNext(n) == n > cursor + 1 /\ n \notin accepted

\* shouldDeliverPublish
ShouldDeliver(n) == n > cursor /\ n \notin accepted

\* A cursor that jumps to the publish.
JumpToPublish(n) == cursor' = n /\ UNCHANGED accepted

\* acknowledgePublish: the cursor moves over the accepted publishes that follow
\* without a gap; a publish beyond a gap is set aside.
AcknowledgePublish(n) ==
  IF n = cursor + 1
    THEN \E m \in {n} \cup accepted :
           /\ \A k \in n + 1 .. m : k \in accepted
           /\ m >= n /\ m + 1 \notin accepted
           /\ cursor' = m
           /\ accepted' = {k \in accepted : k > m}
    ELSE accepted' = accepted \cup {n} /\ UNCHANGED cursor

\* The program has accepted publish p.
Took(p) ==
  /\ taken' = taken \cup {p}
  /\ twice' = IF p \in taken THEN twice \cup {p} ELSE twice
  /\ rejected' = rejected \ {p}
  /\ UNCHANGED <<since, skipped, lowered>>

NextPublish == wire # <<>> /\ Head(wire).kind = "publish" /\ wire' = Tail(wire)
HeadSeq == Head(wire).seq
HeadPublish == <<Head(wire).epoch, Head(wire).seq>>

\* The acknowledging handler accepts a publish ...
Accept ==
  /\ acknowledging
  /\ NextPublish
  /\ ShouldDeliver(HeadSeq)
  /\ AcknowledgePublish(HeadSeq)
  /\ Took(HeadPublish)
  /\ UNCHANGED <<acknowledging, answer, call, link, links, asked, replay, topicVars, sessionVars>>

\* ... or rejects it ...
Reject ==
  /\ acknowledging
  /\ NextPublish
  /\ ShouldDeliver(HeadSeq)
  /\ rejected' = rejected \cup {HeadPublish}
  /\ UNCHANGED <<acknowledging, clientVars, link, links, asked, replay, topicVars, sessionVars,
                 since, taken, twice, skipped, lowered>>

\* ... or is not asked.
Skip ==
  /\ acknowledging
  /\ NextPublish
  /\ ~ShouldDeliver(HeadSeq)
  /\ skipped' = IF HeadPublish \in taken THEN skipped ELSE skipped \cup {HeadPublish}
  /\ UNCHANGED <<acknowledging, clientVars, link, links, asked, replay, topicVars, sessionVars,
                 since, taken, twice, rejected, lowered>>

\* A handler that does not move the cursor.
CursorKept(n) == cursor

\* setPublishCursor
Raised(n) == IF n > cursor THEN n ELSE cursor

\* NewResilientClient: setPublishCursor, and the handler gets every publish.
Deliver ==
  /\ ~acknowledging
  /\ NextPublish
  /\ cursor' = Raised(HeadSeq)
  /\ Took(HeadPublish)
  /\ UNCHANGED <<acknowledging, accepted, answer, call, link, links, asked, replay,
                 topicVars, sessionVars>>

\* The number the subscribe answer reports.
LastSeq == answer.seq

\* The caller of Subscribe acts on the answer: alignReplayState.
AlignReplayState ==
  /\ answer.kind = "subscribed"
  /\ answer' = NoAnswer
  /\ IF LastSeq < cursor
       THEN cursor' = LastSeq /\ accepted' = {} /\ lowered' = TRUE
       ELSE UNCHANGED <<cursor, accepted, lowered>>
  /\ UNCHANGED <<acknowledging, call, linkVars, topicVars, sessionVars, since, taken, twice,
                 rejected, skipped>>

\* The caller of Unsubscribe acts on the answer: the replay state goes.
Forget ==
  /\ answer.kind = "unsubscribed"
  /\ answer' = NoAnswer
  /\ cursor' = 0 /\ accepted' = {}
  /\ lowered' = TRUE
  /\ UNCHANGED <<acknowledging, call, linkVars, topicVars, sessionVars, since, taken, twice,
                 rejected, skipped>>

-----------------------------------------------------------------------------
Next ==
  \/ Attach \/ ReplayWrite \/ ReplayDone \/ Publish \/ EvictTopic
  \/ Expire \/ OthersJoin \/ OthersLeave
  \/ Dial \/ Drop
  \/ Subscribe \/ Unsubscribe \/ ReceiveAnswer
  \/ Accept \/ Reject \/ Skip \/ Deliver \/ AlignReplayState \/ Forget

Spec == Init /\ [][Next]_vars

-----------------------------------------------------------------------------
(* Properties *)

Kinds == {"publish", "hello", "subscribed", "unsubscribed"}
Frames == [kind : Kinds, seq : Nat, epoch : Nat]
Publishes == Nat \X Nat

\* Every variable has its type.
TypeOK ==
  /\ cursor \in Nat /\ accepted \subseteq Nat
  /\ answer \in [kind : Kinds \cup {"none"}, seq : Nat]
  /\ call \in BOOLEAN
  /\ link \in {"down", "dialed", "attached", "acked", "ready"} /\ links \in Nat
  /\ asked \in Nat
  /\ wire \in Seq(Frames)
  /\ replay \subseteq Nat
  /\ counter \in Nat /\ epoch \in Nat /\ cache \subseteq Nat
  /\ known \in BOOLEAN /\ recorded \in BOOLEAN
  /\ member \in BOOLEAN /\ others \in BOOLEAN
  /\ since \in Nat
  /\ taken \subseteq Publishes /\ twice \subseteq Publishes
  /\ rejected \subseteq Publishes /\ skipped \subseteq Publishes
  /\ lowered \in BOOLEAN /\ acknowledging \in BOOLEAN

\* The set of accepted publishes is only about gaps: whatever the order of
\* live and replayed publishes, the cursor is as far as it can be.
CursorIsFull == \A n \in accepted : n > cursor + 1

\* A resume asks for all the server still has of the first numbering and the
\* handler has not accepted since the subscription.
AsksForMissed ==
  link = "dialed" /\ link' = "attached" /\ known /\ recorded /\ epoch = 0 =>
    \A n \in cache : n > since /\ <<0, n>> \notin taken => n \in replay'

\* As long as the numbering has not restarted, a reconnect of an acknowledging
\* client that resumes the session replays every publish that the server still has
\* and the handler has not accepted: what was rejected, what was lost on the old
\* connection, and what a failed write, an unfinished replay or a late answer left
\* behind.
ReplayCoversMissed == [][acknowledging => AsksForMissed]_vars

\* Before the numbering restarts the handler is never passed over: a publish is
\* dropped as old only when it was accepted.
NothingSkippedInEpoch == \A p \in skipped : p[1] > 0

\* Unless an answer lowered the cursor, no publish reaches the handler twice:
\* not live and by replay, and not by two replays.
RepeatsNeedLowering == lowered \/ twice = {}

-----------------------------------------------------------------------------
(* The invariant behind these properties; ReplayCursorProofs shows that it is *)
(* inductive.                                                                 *)

\* Frames of an older numbering are read first.
WireSorted ==
  \A i, j \in 1 .. Len(wire) : i <= j => wire[i].epoch <= wire[j].epoch

\* What was accepted is not newer than what is on the wire, and that not newer
\* than the numbering of the moment.
WireRecent ==
  /\ \A i \in 1 .. Len(wire) : wire[i].epoch <= epoch
  /\ \A p \in taken : /\ p[1] <= epoch
                       /\ \A i \in 1 .. Len(wire) : p[1] <= wire[i].epoch

\* Publishes are numbered from 1.
Numbered ==
  /\ 0 \notin cache \cup replay
  /\ \A i \in 1 .. Len(wire) : wire[i].kind = "publish" => wire[i].seq # 0

\* As long as only the first numbering was accepted, everything below the cursor
\* and everything set aside was, and the same goes for the cursor presented.
Covered ==
  acknowledging /\ (\A p \in taken : p[1] = 0) =>
    /\ \A n \in (1 .. cursor) \cup accepted : <<0, n>> \in taken
    /\ link = "dialed" => \A n \in 1 .. asked : <<0, n>> \in taken

ReplayInv ==
  /\ CursorIsFull
  /\ NothingSkippedInEpoch
  /\ WireSorted /\ WireRecent /\ Numbered /\ Covered
  /\ acknowledging \/ accepted = {}

-----------------------------------------------------------------------------
(* What the comments of resilient.go say and the code does not do.         *)

\* resilient.go:67-68: the accepted set suppresses duplicate delivery.
AcceptedOnce == twice = {}

\* resilient.go:279-282: aligning with the subscribe answer keeps a stale cursor
\* from silently dropping the fresh publishes of a topic that was reset.
FreshIsOffered == \A p \in skipped : p[1] # epoch \/ ~recorded

\* resilient.go:462-464: no growth of the accepted set: a client that accepted
\* all it was sent since it subscribed sets nothing aside.
NoGapNoGrowth ==
  epoch = 0 /\ accepted # {} =>
    \E n \in 1 .. counter : n > since /\ <<0, n>> \notin taken
=============================================================================
