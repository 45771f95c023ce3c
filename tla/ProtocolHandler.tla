-------------------------- MODULE ProtocolHandler --------------------------
(***************************************************************************)
(* The server side of the protocol, pkg/proto/protocol.go: handshakes and  *)
(* resumable sessions, topic subscriptions, Publish with its replay cache, *)
(* and the session janitor.                                                *)
(*                                                                         *)
(* Threads: one connection handler per connection (a worker goroutine      *)
(* reading one frame at a time, hpc[c]), the goroutines that call Publish  *)
(* (pub[p]) and the janitor.  What the code does under one hold of         *)
(* ProtocolHandler.mu is one action; the lock is released between actions. *)
(***************************************************************************)
EXTENDS Integers, FiniteSets, SequencesExt

CONSTANTS Conns,       \* transports
          Tokens,      \* session tokens newSessionToken can return
          Topics,
          Publishers,  \* goroutines that call Publish
          NoToken, NoConn, NoTopic,
          Strict,      \* RequireHello
          HelloFirst,  \* every client sends one HELLO, before anything else
          CacheSize,   \* topicCacheSize
          CacheBudget, \* cacheBudget, in the unit of Sizes
          Sizes,       \* sizes of an encoded publish
          SeqSpace,    \* 2^32 in the code: sequence numbers are uint32
          MaxPublish,  \* bound: publishes of a behaviour
          Watched      \* connections whose deliveries are recorded

ASSUME NoTokenAssumption == NoToken \notin Tokens
ASSUME NoConnAssumption == NoConn \notin Conns
ASSUME NoTopicAssumption == NoTopic \notin Topics
ASSUME TopicsAssumption == IsFiniteSet(Topics)
ASSUME WatchedAssumption == Watched \subseteq Conns
ASSUME ModeAssumption == Strict \in BOOLEAN /\ HelloFirst \in BOOLEAN
ASSUME BoundsAssumption ==
  /\ CacheSize \in Nat \ {0} /\ CacheBudget \in Nat /\ Sizes \subseteq Nat \ {0}
  /\ SeqSpace \in Nat \ {0} /\ MaxPublish \in Nat

VARIABLES
  subs,       \* subs: the member set of every topic
  live,       \* the tokens in the sessions map
  minted,     \* the tokens newSessionToken has returned so far
  sconn,      \* session.conn
  stopics,    \* session.topics
  stale,      \* tokens whose lastSeen is more than sessionTTL ago
  connTok,    \* connTokens
  cell,       \* topicSeqs: the counter of a topic, 0 when it has none
  ctr,        \* the values of the counters ever minted, by number
  cache,      \* topicCache
  cacheBytes,
  cstate,     \* state of a transport
  greeted,    \* connections whose client has sent a HELLO
  hpc,        \* program counter of a connection handler
  harg,       \* the frame it is handling
  replay,     \* the frames replayTo has still to write
  pub,        \* state of a Publish call
  npub,       \* publishes started so far; numbers them
  wire,       \* the publishes written to a watched connection, in order
  failed,     \* connections a publish failed to be written to
  took        \* topics a connection took over by a resume, with its cursor

sessVars  == <<live, minted, sconn, stopics, stale, connTok>>
topicVars == <<subs, cell, ctr, cache, cacheBytes>>
hndVars   == <<cstate, greeted, hpc, harg, replay>>
pubVars   == <<pub, npub, failed>>
histVars  == <<wire, took>>
vars == <<sessVars, topicVars, hndVars, pubVars, histVars>>

NoFrame == [topic |-> NoTopic, token |-> NoToken,
            cursors |-> [x \in Topics |-> 0]]
Idle == [pc |-> "idle", topic |-> NoTopic, members |-> {}, cell |-> 0,
         seq |-> 0, id |-> 0, cur |-> NoConn]

Init ==
  /\ subs = [x \in Topics |-> {}]
  /\ live = {}
  /\ minted = {}
  /\ sconn = [t \in Tokens |-> NoConn]
  /\ stopics = [t \in Tokens |-> {}]
  /\ stale = {}
  /\ connTok = [c \in Conns |-> NoToken]
  /\ cell = [x \in Topics |-> 0]
  /\ ctr = <<>>
  /\ cache = [x \in Topics |-> <<>>]
  /\ cacheBytes = 0
  /\ cstate = [c \in Conns |-> "new"]
  /\ greeted = {}
  /\ hpc = [c \in Conns |-> "idle"]
  /\ harg = [c \in Conns |-> NoFrame]
  /\ replay = [c \in Conns |-> <<>>]
  /\ pub = [p \in Publishers |-> Idle]
  /\ npub = 0
  /\ wire = [c \in Conns |-> <<>>]
  /\ failed = {}
  /\ took = [c \in Conns |-> {}]

-----------------------------------------------------------------------------
(* The replay cache.                                                       *)

\* The bytes of a topic's cached frames, each told by its frame and its place.
Bytes(frames) == UNION {{i} \X (1 .. frames[i].size) : i \in DOMAIN frames}

\* frameBytes: the size of a topic's cached frames.
FrameBytes(frames) == Cardinality(Bytes(frames))

\* The bytes the cache C holds for the topics X.
TopicBytes(C, X) == UNION {{x} \X Bytes(C[x]) : x \in X}

\* A topic somebody may still want: a member, or a session that records it.
Held(x, S, L, T) == S[x] # {} \/ \E t \in L : x \in T[t]

\* dropTopicCacheLocked for every topic of X, after the subscriptions became
\* S and the sessions L with the topics T.
DropTopicCache(X, S, L, T) ==
  LET gone == {x \in X : ~Held(x, S, L, T)} IN
  /\ cacheBytes' = cacheBytes - Cardinality(TopicBytes(cache, gone))
  /\ cache' = [x \in Topics |-> IF x \in gone THEN <<>> ELSE cache[x]]
  /\ cell' = [x \in Topics |-> IF x \in gone THEN 0 ELSE cell[x]]

\* rememberPublish's trimming that forgets to account for what it evicts.
TrimmedFreeBytes(frames) == 0

\* The bytes freed when the oldest entry of a full topic is evicted.
TrimmedBytes(frames) == IF Len(frames) > CacheSize THEN frames[1].size ELSE 0

\* enforceCacheBudgetLocked on a cache C of B bytes, as the set of its
\* results: the largest topic, any of them on a tie, is evicted as a unit.
\* One eviction is enough, since the largest topic is at least as large as
\* the frame that was just added (CacheAccounted would fail otherwise).
Enforced(C, B) ==
  LET size(x) == FrameBytes(C[x])
      largest == {x \in Topics : /\ size(x) > 0
                                 /\ \A y \in Topics : size(y) <= size(x)}
  IN IF B <= CacheBudget THEN {<<C, B>>}
     ELSE IF largest = {} THEN {<<C, 0>>}
     ELSE {<<[C EXCEPT ![x] = <<>>], B - size(x)>> : x \in largest}

\* rememberPublish
Remember(x, entry) ==
  LET grown == Append(cache[x], entry)
      kept  == IF Len(grown) > CacheSize THEN Tail(grown) ELSE grown
      bytes == cacheBytes - TrimmedBytes(grown) + entry.size
  IN \E r \in Enforced([cache EXCEPT ![x] = kept], bytes) :
       cache' = r[1] /\ cacheBytes' = r[2]

\* Where the cached publishes of the topics X above the client's cursors are.
NewerThan(X, cursors) ==
  {k \in X \X (1 .. CacheSize) :
     k[2] \in DOMAIN cache[k[1]] /\ cache[k[1]][k[2]].seq > cursors[k[1]]}

\* One topic after the other, each oldest first.
TopicByTopic(ks) ==
  \A m, n \in DOMAIN ks : m < n /\ ks[m][1] = ks[n][1] =>
    ks[m][2] < ks[n][2] /\ \A l \in m .. n : ks[l][1] = ks[m][1]

\* collectReplay over the session's topics, which a Go map yields in any
\* order: the set of its results.
CollectReplay(X, cursors) ==
  {[n \in DOMAIN ks |-> cache[ks[n][1]][ks[n][2]]] :
     ks \in {js \in SetToSeqs(NewerThan(X, cursors)) : TopicByTopic(js)}}

-----------------------------------------------------------------------------
(* The connection handler: HandleRead and what it calls.                   *)

\* A client connects.
Connect(c) ==
  /\ cstate[c] = "new"
  /\ cstate' = [cstate EXCEPT ![c] = "open"]
  /\ UNCHANGED <<sessVars, topicVars, greeted, hpc, harg, replay, pubVars, histVars>>

\* The transport goes away: the peer hangs up, sends CLOSE or something
\* malformed, or the worker closes it.  No callback tells the handler.
HangUp(c) ==
  /\ cstate[c] = "open"
  /\ cstate' = [cstate EXCEPT ![c] = "closed"]
  /\ UNCHANGED <<sessVars, topicVars, greeted, hpc, harg, replay, pubVars, histVars>>

\* A frame reaches HandleRead; touchSession refreshes the session, if any.
Receives(c, hello) ==
  /\ cstate[c] = "open"
  /\ hpc[c] = "idle"
  /\ HelloFirst => (hello <=> c \notin greeted)
  /\ stale' = stale \ {connTok[c]}

\* The handshake marker: a connection with a token.
Handshaked(c) == connTok[c] # NoToken

\* HandleRead in strict mode refuses a business frame before the handshake.
Admitted(c) == Strict => Handshaked(c)

\* handleHello without the check for a second HELLO.
HelloAlwaysAllowed(c) == TRUE

\* handleHello's check that the connection has not shaken hands yet.
HelloAllowed(c) == ~Handshaked(c)

\* A HELLO with a common version, a token to resume and cursors.
RecvHello(c, t, cursors) ==
  /\ Receives(c, TRUE)
  /\ HelloAllowed(c)
  /\ greeted' = greeted \cup {c}
  /\ hpc' = [hpc EXCEPT ![c] = "attach"]
  /\ harg' = [harg EXCEPT ![c] = [@ EXCEPT !.token = t, !.cursors = cursors]]
  /\ UNCHANGED <<live, minted, sconn, stopics, connTok, topicVars, cstate, replay,
                 pubVars, histVars>>

\* A second HELLO, or a business frame before HELLO in strict mode, hangs up.
RecvRefused(c) ==
  /\ \/ Receives(c, TRUE) /\ ~HelloAllowed(c)
     \/ Receives(c, FALSE) /\ ~Admitted(c)
  /\ cstate' = [cstate EXCEPT ![c] = "closed"]
  /\ UNCHANGED <<live, minted, sconn, stopics, connTok, topicVars, greeted, hpc, harg,
                 replay, pubVars, histVars>>

\* A frame that only proves the client alive: PING, PONG, REQUEST.
RecvOther(c) ==
  /\ Receives(c, FALSE)
  /\ Admitted(c)
  /\ UNCHANGED <<live, minted, sconn, stopics, connTok, topicVars, hndVars, pubVars,
                 histVars>>

\* SUBSCRIBE or UNSUBSCRIBE of a topic passed the strict check.
RecvSubscribe(c, x, verb) ==
  /\ Receives(c, FALSE)
  /\ Admitted(c)
  /\ hpc' = [hpc EXCEPT ![c] = verb]
  /\ harg' = [harg EXCEPT ![c] = [@ EXCEPT !.topic = x]]
  /\ UNCHANGED <<live, minted, sconn, stopics, connTok, topicVars, cstate, greeted,
                 replay, pubVars, histVars>>

\* attachSession: the named session is known and has not expired.
Resumable(t) == t \in live /\ t \notin stale

\* A resume that leaves the dead transport in the reverse index.
KeepsOldToken(c, t) == [connTok EXCEPT ![c] = t]

\* connTokens after a resume: the new transport takes the old one's place.
MovedToken(c, t) ==
  [d \in Conns |-> IF d = c THEN t
                   ELSE IF d = sconn[t] THEN NoToken ELSE connTok[d]]

\* attachSession resumes: the recorded topics move onto the new transport and
\* what it missed is collected.
AttachResume(c) ==
  LET t == harg[c].token IN
  /\ hpc[c] = "attach"
  /\ Resumable(t)
  /\ subs' = [x \in Topics |-> IF x \in stopics[t]
                               THEN (subs[x] \ {sconn[t]}) \cup {c} ELSE subs[x]]
  /\ connTok' = MovedToken(c, t)
  /\ sconn' = [sconn EXCEPT ![t] = c]
  /\ replay' \in {[replay EXCEPT ![c] = r] :
                    r \in CollectReplay(stopics[t], harg[c].cursors)}
  /\ hpc' = [hpc EXCEPT ![c] = "replay"]
  /\ harg' = [harg EXCEPT ![c] = NoFrame]
  /\ took' = [took EXCEPT ![c] = {<<x, harg[c].cursors[x]>> :
                                    x \in {y \in stopics[t] : c \in Watched}}]
  /\ UNCHANGED <<live, minted, stopics, stale, cell, ctr, cache, cacheBytes,
                 cstate, greeted, pubVars, wire>>

\* newSessionToken: random tokens do not repeat.
TokenUsed(t) == minted \cup {t}

\* attachSession mints a session with a token that was never used before.
AttachFresh(c, t) ==
  /\ hpc[c] = "attach"
  /\ ~Resumable(harg[c].token)
  /\ t \notin minted
  /\ minted' = TokenUsed(t)
  /\ live' = live \cup {t}
  /\ sconn' = [sconn EXCEPT ![t] = c]
  /\ connTok' = [connTok EXCEPT ![c] = t]
  /\ hpc' = [hpc EXCEPT ![c] = "replay"]
  /\ harg' = [harg EXCEPT ![c] = NoFrame]
  /\ UNCHANGED <<stopics, stale, topicVars, cstate, greeted, replay, pubVars,
                 histVars>>

\* A publish frame is on the wire.
Written(c, frame) ==
  IF c \in Watched THEN [wire EXCEPT ![c] = Append(@, frame)] ELSE wire

\* replayTo writes one frame; a failing write abandons the rest.
ReplayWrite(c) ==
  /\ hpc[c] = "replay"
  /\ replay[c] # <<>>
  /\ \/ /\ cstate[c] = "open"
        /\ wire' = Written(c, Head(replay[c]))
        /\ replay' = [replay EXCEPT ![c] = Tail(@)]
     \/ replay' = [replay EXCEPT ![c] = <<>>] /\ UNCHANGED wire
  /\ UNCHANGED <<sessVars, topicVars, cstate, greeted, hpc, harg, pubVars, took>>

\* The HELLO is answered.
ReplayDone(c) ==
  /\ hpc[c] = "replay"
  /\ replay[c] = <<>>
  /\ hpc' = [hpc EXCEPT ![c] = "idle"]
  /\ UNCHANGED <<sessVars, topicVars, cstate, greeted, harg, replay, pubVars,
                 histVars>>

\* The session's topics after SUBSCRIBE or UNSUBSCRIBE, if the connection has
\* a session.
Recorded(c, x, verb) ==
  [t \in Tokens |->
     IF t # connTok[c] \/ t \notin live THEN stopics[t]
     ELSE IF verb = "subscribe" THEN stopics[t] \cup {x} ELSE stopics[t] \ {x}]

\* handleSubscribe, subscribing
Subscribe(c) ==
  LET x == harg[c].topic IN
  /\ hpc[c] = "subscribe"
  /\ subs' = [subs EXCEPT ![x] = @ \cup {c}]
  /\ stopics' = Recorded(c, x, "subscribe")
  /\ stale' = stale \ {connTok[c]}
  /\ hpc' = [hpc EXCEPT ![c] = "idle"]
  /\ harg' = [harg EXCEPT ![c] = NoFrame]
  /\ UNCHANGED <<live, minted, sconn, connTok, cell, ctr, cache, cacheBytes,
                 cstate, greeted, replay, pubVars, histVars>>

\* handleSubscribe, unsubscribing; the replay cache goes with its last holder.
Unsubscribe(c) ==
  LET x == harg[c].topic IN
  /\ hpc[c] = "unsubscribe"
  /\ subs' = [subs EXCEPT ![x] = @ \ {c}]
  /\ stopics' = Recorded(c, x, "unsubscribe")
  /\ DropTopicCache({x}, subs', live, stopics')
  /\ stale' = stale \ {connTok[c]}
  /\ hpc' = [hpc EXCEPT ![c] = "idle"]
  /\ harg' = [harg EXCEPT ![c] = NoFrame]
  /\ took' = [took EXCEPT ![c] = {k \in @ : k[1] # x}]
  /\ UNCHANGED <<live, minted, sconn, connTok, ctr, cstate, greeted, replay,
                 pubVars, wire>>

-----------------------------------------------------------------------------
(* The janitor.                                                            *)

\* More than sessionTTL passes without a frame of the session.
Expire(t) ==
  /\ t \in live \ stale
  /\ stale' = stale \cup {t}
  /\ UNCHANGED <<live, minted, sconn, stopics, connTok, topicVars, hndVars, pubVars, histVars>>

\* A sweep that leaves the transports of the dead sessions subscribed.
ReapedStayMembers == subs

\* The member sets without the transports of the expired sessions.
ReapedMembers ==
  [x \in Topics |->
     subs[x] \ {sconn[t] : t \in {u \in stale \cap live : x \in stopics[u]}}]

\* reapExpiredSessions
Reap ==
  LET dead == stale \cap live IN
  /\ dead # {}
  /\ live' = live \ dead
  /\ stale' = stale \ dead
  /\ connTok' = [c \in Conns |-> IF c \in {sconn[t] : t \in dead}
                                 THEN NoToken ELSE connTok[c]]
  /\ subs' = ReapedMembers
  /\ DropTopicCache(UNION {stopics[t] : t \in dead}, subs', live', stopics)
  /\ sconn' = [t \in Tokens |-> IF t \in dead THEN NoConn ELSE sconn[t]]
  /\ stopics' = [t \in Tokens |-> IF t \in dead THEN {} ELSE stopics[t]]
  /\ UNCHANGED <<minted, ctr, hndVars, pubVars, histVars>>

-----------------------------------------------------------------------------
(* Publish.                                                                *)

\* The snapshot under the read lock; nobody to publish to ends the call.
PubSnapshot(p, x) ==
  /\ pub[p].pc = "idle"
  /\ npub < MaxPublish
  /\ Held(x, subs, live, stopics)
  /\ npub' = npub + 1
  /\ pub' = [pub EXCEPT ![p] = [Idle EXCEPT !.pc = "mint", !.topic = x,
                                  !.members = subs[x], !.id = npub + 1]]
  /\ UNCHANGED <<sessVars, topicVars, hndVars, failed, histVars>>

\* The topic's counter is looked up, or minted at zero.
PubMint(p) ==
  LET x == pub[p].topic
      k == IF cell[x] = 0 THEN Len(ctr) + 1 ELSE cell[x] IN
  /\ pub[p].pc = "mint"
  /\ cell' = [cell EXCEPT ![x] = k]
  /\ ctr' = IF cell[x] = 0 THEN Append(ctr, 0) ELSE ctr
  /\ pub' = [pub EXCEPT ![p].pc = "add", ![p].cell = k]
  /\ UNCHANGED <<sessVars, subs, cache, cacheBytes, hndVars, npub, failed, histVars>>

\* topicSeq.Add(1), a uint32.
PubAdd(p) ==
  LET n == (ctr[pub[p].cell] + 1) % SeqSpace IN
  /\ pub[p].pc = "add"
  /\ ctr' = [ctr EXCEPT ![pub[p].cell] = n]
  /\ pub' = [pub EXCEPT ![p].pc = "remember", ![p].seq = n]
  /\ UNCHANGED <<sessVars, subs, cell, cache, cacheBytes, hndVars, npub, failed,
                 histVars>>

Entry(p, size) == [topic |-> pub[p].topic, seq |-> pub[p].seq,
                   id |-> pub[p].id, size |-> size]

\* Encode succeeds and rememberPublish caches the frame.
PubRemember(p, size) ==
  /\ pub[p].pc = "remember"
  /\ Remember(pub[p].topic, Entry(p, size))
  /\ pub' = [pub EXCEPT ![p].pc = "write"]
  /\ UNCHANGED <<sessVars, subs, cell, ctr, hndVars, npub, failed, histVars>>

\* Encode fails on a payload above MaxFrameSize: the sequence number is spent.
PubTooLarge(p) ==
  /\ pub[p].pc = "remember"
  /\ pub' = [pub EXCEPT ![p] = Idle]
  /\ UNCHANGED <<sessVars, topicVars, hndVars, npub, failed, histVars>>

\* A write that is tried again although it succeeded.
PubWriteTwice(p, c) ==
  /\ pub[p].pc = "write"
  /\ c \in pub[p].members
  /\ cstate[c] = "open"
  /\ wire' = Written(c, Entry(p, 0))
  /\ UNCHANGED <<sessVars, topicVars, hndVars, pubVars, took>>

\* The frame is written to one member of the snapshot.
PubWrite(p, c) ==
  /\ pub[p].pc = "write"
  /\ c \in pub[p].members
  /\ cstate[c] = "open"
  /\ wire' = Written(c, Entry(p, 0))
  /\ pub' = [pub EXCEPT ![p].members = @ \ {c}]
  /\ UNCHANGED <<sessVars, topicVars, hndVars, npub, failed, took>>

\* The write fails or times out.
PubWriteFails(p, c) ==
  /\ pub[p].pc = "write"
  /\ c \in pub[p].members
  /\ pub' = [pub EXCEPT ![p].pc = "drop", ![p].members = @ \ {c}, ![p].cur = c]
  /\ failed' = failed \cup {c}
  /\ UNCHANGED <<sessVars, topicVars, hndVars, npub, histVars>>

\* removeSubscriber that drops every member of the topic.
DropsEveryone(p) == [subs EXCEPT ![pub[p].topic] = {}]

\* The member sets without the subscriber that could not be written to.
WithoutFailed(p) == [subs EXCEPT ![pub[p].topic] = @ \ {pub[p].cur}]

\* removeSubscriber
PubDrop(p) ==
  /\ pub[p].pc = "drop"
  /\ subs' = WithoutFailed(p)
  /\ DropTopicCache({pub[p].topic}, subs', live, stopics)
  /\ pub' = [pub EXCEPT ![p].pc = "write", ![p].cur = NoConn]
  /\ UNCHANGED <<sessVars, ctr, hndVars, npub, failed, histVars>>

PubDone(p) ==
  /\ pub[p].pc = "write"
  /\ pub[p].members = {}
  /\ pub' = [pub EXCEPT ![p] = Idle]
  /\ UNCHANGED <<sessVars, topicVars, hndVars, npub, failed, histVars>>

-----------------------------------------------------------------------------
\* Cursors a client may present.
Cursors == [Topics -> 0 .. MaxPublish]

HandlerStep(c) ==
  \/ AttachResume(c) \/ ReplayWrite(c) \/ ReplayDone(c) \/ Subscribe(c)
  \/ Unsubscribe(c)
  \/ \E t \in Tokens : AttachFresh(c, t)

ClientStep(c) ==
  \/ Connect(c) \/ HangUp(c) \/ RecvRefused(c) \/ RecvOther(c)
  \/ \E t \in live \cup {NoToken}, cursors \in Cursors : RecvHello(c, t, cursors)
  \/ \E x \in Topics : RecvSubscribe(c, x, "subscribe")
  \/ \E x \in Topics : RecvSubscribe(c, x, "unsubscribe")

PublishStep(p) ==
  \/ PubMint(p) \/ PubAdd(p) \/ PubTooLarge(p) \/ PubDrop(p) \/ PubDone(p)
  \/ \E size \in Sizes : PubRemember(p, size)
  \/ \E c \in Conns : PubWrite(p, c) \/ PubWriteFails(p, c)

Next ==
  \/ \E c \in Conns : ClientStep(c) \/ HandlerStep(c)
  \/ \E p \in Publishers, x \in Topics : PubSnapshot(p, x)
  \/ \E p \in Publishers : PublishStep(p)
  \/ \E t \in Tokens : Expire(t)
  \/ Reap

Spec == Init /\ [][Next]_vars

(* Fairness: handler and publisher goroutines run on, time passes and the  *)
(* janitor's ticker fires.  No client has to do anything.                  *)
Fairness ==
  /\ \A c \in Conns : WF_vars(HandlerStep(c))
  /\ \A p \in Publishers : WF_vars(PublishStep(p))
  /\ \A t \in Tokens : WF_vars(Expire(t))
  /\ WF_vars(Reap)

FairSpec == Spec /\ Fairness

-----------------------------------------------------------------------------
(* Properties *)

Entries == [topic : Topics, seq : Nat, id : Nat, size : Nat]

HandlerFrames == [topic : Topics \cup {NoTopic}, token : Tokens \cup {NoToken},
                  cursors : [Topics -> Nat]]

PublishCalls == [pc : {"idle", "mint", "add", "remember", "write", "drop"},
                 topic : Topics \cup {NoTopic}, members : SUBSET Conns, cell : Nat,
                 seq : Nat, id : Nat, cur : Conns \cup {NoConn}]

\* The types of the session state.
SessionTypes ==
  /\ live \subseteq minted /\ minted \subseteq Tokens
  /\ sconn \in [Tokens -> Conns \cup {NoConn}]
  /\ connTok \in [Conns -> Tokens \cup {NoToken}]
  /\ stale \subseteq live
  /\ hpc \in [Conns -> {"idle", "attach", "replay", "subscribe", "unsubscribe"}]

\* The types of the rest; a topic keeps at most CacheSize publishes, and a Publish
\* call that is about to take a number has a counter.
TypeOK ==
  /\ SessionTypes
  /\ subs \in [Topics -> SUBSET Conns] /\ stopics \in [Tokens -> SUBSET Topics]
  /\ cstate \in [Conns -> {"new", "open", "closed"}]
  /\ greeted \subseteq Conns /\ failed \subseteq Conns
  /\ harg \in [Conns -> HandlerFrames]
  /\ \A c \in Conns : hpc[c] \in {"subscribe", "unsubscribe"} => harg[c].topic \in Topics
  /\ replay \in [Conns -> Seq(Entries)] /\ wire \in [Conns -> Seq(Entries)]
  /\ npub \in Nat
  /\ pub \in [Publishers -> PublishCalls]
  /\ \A p \in Publishers : pub[p].pc # "idle" => pub[p].topic \in Topics
  /\ \A p \in Publishers : pub[p].pc = "add" => pub[p].cell \in 1 .. Len(ctr)
  /\ ctr \in Seq(Nat) /\ cell \in [Topics -> 0 .. Len(ctr)]
  /\ cache \in [Topics -> Seq(Entries)]
  /\ \A x \in Topics : Len(cache[x]) <= CacheSize

\* The reverse index agrees with the sessions: every session's transport leads
\* back to its token and every token leads to a session on that transport,
\* across resumes that steal a session from a live transport and sweeps of the
\* janitor.
SessionIndex ==
  /\ \A t \in live : sconn[t] \in Conns /\ connTok[sconn[t]] = t
  /\ \A c \in Conns : connTok[c] # NoToken =>
       connTok[c] \in live /\ sconn[connTok[c]] = c

\* Why it is inductive: a HELLO that passed the check of handleHello still
\* finds its connection without a token when attachSession runs.
IndexInv ==
  /\ SessionTypes
  /\ SessionIndex
  /\ \A c \in Conns : hpc[c] = "attach" => connTok[c] = NoToken

\* A connection's live session is never replaced under it: its token goes away
\* (stolen by a resume, or reaped) but never changes into another one.
TokenNeverReplaced ==
  [][\A c \in Conns : connTok[c] # NoToken => connTok'[c] \in {connTok[c], NoToken}]_vars

\* A topic a session records is served on the session's current transport,
\* unless a publish failed on that very transport: a resume moves every
\* subscription, and a write failing on the old transport, an unsubscribe of
\* somebody else or a sweep never takes it away.
RecordedTopicIsServed ==
  \A t \in live : \A x \in stopics[t] : sconn[t] \in subs[x] \cup failed

\* cacheBytes is the size of what the cache holds and stays within the budget,
\* however trimming, eviction, dropped topics and publishes interleave.
CacheAccounted ==
  /\ cacheBytes = Cardinality(TopicBytes(cache, Topics))
  /\ cacheBytes <= CacheBudget
  /\ \A x \in Topics : Len(cache[x]) <= CacheSize

\* No publish is written twice to one connection, once by replay and once
\* live, when clients shake hands once and first.
DeliveredAtMostOnce ==
  \A c \in Conns : \A i, j \in DOMAIN wire[c] :
    wire[c][i].id = wire[c][j].id => i = j

\* A client that subscribed under a session and vanished leaves the member set
\* without any publish: a resume or the janitor takes its transport out.
VanishedSubscriberLeaves ==
  \A c \in Conns, x \in Topics :
    (/\ cstate[c] = "closed" /\ c \in subs[x]
     /\ connTok[c] \in live /\ x \in stopics[connTok[c]])
      ~> c \notin subs[x]

-----------------------------------------------------------------------------
(* What the comments of protocol.go say and the code does not do.          *)

\* protocol.go:96-99: cache entries exist while somebody holds the topic.
CacheHasHolder ==
  (\A p \in Publishers : pub[p] = Idle) =>
    \A x \in Topics : cache[x] # <<>> => Held(x, subs, live, stopics)

\* protocol.go:440-441: a topic's publishes are replayed oldest first.
CacheInOrder ==
  \A x \in Topics : \A i, j \in DOMAIN cache[x] :
    i < j => cache[x][i].seq < cache[x][j].seq

\* protocol.go:615-617: a live topicSeqs entry is at least 1.
CounterStarted == \A x \in Topics : cell[x] # 0 => ctr[cell[x]] >= 1

\* protocol.go:387-388: a resumed connection is caught up in sequence order.
WireInOrder ==
  \A c \in Conns : \A i, j \in DOMAIN wire[c] :
    i < j /\ wire[c][i].topic = wire[c][j].topic
      => wire[c][i].seq < wire[c][j].seq

\* protocol.go:675-677: a publish is cached for sessions that reconnect, so a
\* resumed connection has been sent every cached publish above its cursor.
ResumedMissesNothing ==
  (\A p \in Publishers : pub[p] = Idle) =>
    \A c \in Conns \ failed : cstate[c] = "open" /\ hpc[c] = "idle" =>
      \A k \in took[c] : c \in subs[k[1]] =>
        \A i \in DOMAIN cache[k[1]] :
          cache[k[1]][i].seq > k[2] =>
            \E j \in DOMAIN wire[c] : wire[c][j].id = cache[k[1]][i].id

\* protocol.go:231-237: no phantom subscriber stays behind on a quiet topic.
NoPhantomSubscriber ==
  \A c \in Conns, x \in Topics :
    (cstate[c] = "closed" /\ c \in subs[x]) ~> c \notin subs[x]
=============================================================================
