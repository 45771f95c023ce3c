----------------------- MODULE ProtocolHandlerProofs -----------------------
(***************************************************************************)
(* Theorems about ProtocolHandler's sessions and deliveries, for any       *)
(* connections, tokens, publishers and any finite set of topics.           *)
(*                                                                         *)
(* The sessions come first (IndexInv), then the types of the rest          *)
(* (TypeOK).  A recorded topic is served because both edits of it happen   *)
(* under one lock (ServeInv).  No publish reaches a connection twice       *)
(* because publishes are numbered once (NumberInv) and because the sets    *)
(* through which one may still come are disjoint: what a connection got,   *)
(* what its replay holds and the calls that have it as a member (Apart).   *)
(* The cache's account is right because every byte is counted once, so     *)
(* that sizes are cardinalities and the account of a topic can be changed  *)
(* apart from the others' (ShareReplaced).                                 *)
(***************************************************************************)
EXTENDS ProtocolHandler, FiniteSetTheorems, WellFoundedInduction, TLAPS

\* The invariant of RecordedTopicIsServed: a session that is not known records
\* nothing, and removeSubscriber runs for a connection a publish failed on.
ServeInv ==
  /\ RecordedTopicIsServed
  /\ \A t \in Tokens \ live : stopics[t] = {}
  /\ \A p \in Publishers : pub[p].pc = "drop" => pub[p].cur \in failed

\* Publishes are numbered once: calls under way and cached frames have different
\* numbers, and a call enters the cache once.
NumberInv ==
  /\ \A p \in Publishers : pub[p].pc = "idle" => pub[p].members = {}
  /\ \A p \in Publishers : pub[p].pc # "idle" => pub[p].id \in 1 .. npub
  /\ \A p, q \in Publishers : pub[p].pc # "idle" /\ pub[q].pc # "idle"
                                /\ pub[p].id = pub[q].id => p = q
  /\ \A x \in Topics : \A i \in DOMAIN cache[x] : cache[x][i].id \in 1 .. npub
  /\ \A x, y \in Topics : \A i \in DOMAIN cache[x], j \in DOMAIN cache[y] :
       cache[x][i].id = cache[y][j].id => x = y /\ i = j
  /\ \A p \in Publishers : pub[p].pc \in {"mint", "add", "remember"} =>
       \A x \in Topics : \A i \in DOMAIN cache[x] : cache[x][i].id # pub[p].id

\* The connection's HELLO has been attached to a session.
Joined(c) == c \in greeted /\ hpc[c] # "attach"

\* What a connection got, what replayTo has still to write to it and the
\* publishes that have still to write to it are different publishes.
Apart(c) ==
  /\ \A i, j \in DOMAIN wire[c] : wire[c][i].id = wire[c][j].id => i = j
  /\ \A i, j \in DOMAIN replay[c] : replay[c][i].id = replay[c][j].id => i = j
  /\ \A i \in DOMAIN wire[c], j \in DOMAIN replay[c] : wire[c][i].id # replay[c][j].id
  /\ \A i \in DOMAIN wire[c] : wire[c][i].id \in 1 .. npub
  /\ \A i \in DOMAIN replay[c] : replay[c][i].id \in 1 .. npub
  /\ \A p \in Publishers : c \in pub[p].members =>
       /\ \A i \in DOMAIN wire[c] : wire[c][i].id # pub[p].id
       /\ \A i \in DOMAIN replay[c] : replay[c][i].id # pub[p].id

\* The invariant of DeliveredAtMostOnce, beside NumberInv: before its handshake a
\* connection is in no member set and gets nothing, so what a resume collects for
\* it cannot meet a publish that is under way.
DeliverInv ==
  /\ \A c \in Conns : c \notin greeted => hpc[c] = "idle"
  /\ \A c \in Conns : ~Joined(c) =>
       /\ wire[c] = <<>> /\ replay[c] = <<>>
       /\ \A x \in Topics : c \notin subs[x]
       /\ \A p \in Publishers : c \notin pub[p].members
  /\ \A c \in Conns : Apart(c)

-----------------------------------------------------------------------------
\* The inductive step: every action keeps the session index consistent.
LEMMA IndexStep == IndexInv /\ [Next]_vars => IndexInv'
<1> SUFFICES ASSUME IndexInv, [Next]_vars PROVE IndexInv'
  OBVIOUS
<1> USE NoTokenAssumption, NoConnAssumption
    DEF IndexInv, SessionTypes, SessionIndex, sessVars, topicVars, hndVars,
        pubVars, histVars
<1>1. ASSUME NEW c \in Conns,
            Connect(c)
     PROVE  IndexInv'
  BY <1>1 DEF Connect
<1>2. ASSUME NEW c \in Conns,
            HangUp(c)
     PROVE  IndexInv'
  BY <1>2 DEF HangUp
<1>3. ASSUME NEW c \in Conns,
            RecvRefused(c)
     PROVE  IndexInv'
  BY <1>3 DEF RecvRefused, Receives
<1>4. ASSUME NEW c \in Conns,
            RecvOther(c)
     PROVE  IndexInv'
  BY <1>4 DEF RecvOther, Receives
<1>5. ASSUME NEW c \in Conns, NEW t \in live \cup {NoToken}, NEW k \in Cursors,
            RecvHello(c, t, k)
     PROVE  IndexInv'
  BY <1>5 DEF RecvHello, Receives, HelloAllowed, Handshaked
<1>6. ASSUME NEW c \in Conns, NEW x \in Topics, NEW v \in {"subscribe", "unsubscribe"},
            RecvSubscribe(c, x, v)
     PROVE  IndexInv'
  BY <1>6 DEF RecvSubscribe, Receives
<1>7. ASSUME NEW c \in Conns,
            AttachResume(c)
     PROVE  IndexInv'
  BY <1>7 DEF AttachResume, Resumable, MovedToken
<1>8. ASSUME NEW c \in Conns, NEW t \in Tokens,
            AttachFresh(c, t)
     PROVE  IndexInv'
  BY <1>8 DEF AttachFresh, TokenUsed
<1>9. ASSUME NEW c \in Conns,
            ReplayWrite(c)
     PROVE  IndexInv'
  BY <1>9 DEF ReplayWrite
<1>10. ASSUME NEW c \in Conns,
            ReplayDone(c)
     PROVE  IndexInv'
  BY <1>10 DEF ReplayDone
<1>11. ASSUME NEW c \in Conns,
            Subscribe(c)
     PROVE  IndexInv'
  BY <1>11 DEF Subscribe
<1>12. ASSUME NEW c \in Conns,
            Unsubscribe(c)
     PROVE  IndexInv'
  BY <1>12 DEF Unsubscribe
<1>13. ASSUME NEW t \in Tokens,
            Expire(t)
     PROVE  IndexInv'
  BY <1>13 DEF Expire
<1>14. CASE Reap
  BY <1>14 DEF Reap
<1>15. ASSUME NEW p \in Publishers, NEW x \in Topics,
            PubSnapshot(p, x)
     PROVE  IndexInv'
  BY <1>15 DEF PubSnapshot
<1>16. ASSUME NEW p \in Publishers,
            PubMint(p)
     PROVE  IndexInv'
  BY <1>16 DEF PubMint
<1>17. ASSUME NEW p \in Publishers,
            PubAdd(p)
     PROVE  IndexInv'
  BY <1>17 DEF PubAdd
<1>18. ASSUME NEW p \in Publishers, NEW z \in Sizes,
            PubRemember(p, z)
     PROVE  IndexInv'
  BY <1>18 DEF PubRemember
<1>19. ASSUME NEW p \in Publishers,
            PubTooLarge(p)
     PROVE  IndexInv'
  BY <1>19 DEF PubTooLarge
<1>20. ASSUME NEW p \in Publishers, NEW c \in Conns,
            PubWrite(p, c)
     PROVE  IndexInv'
  BY <1>20 DEF PubWrite
<1>21. ASSUME NEW p \in Publishers, NEW c \in Conns,
            PubWriteFails(p, c)
     PROVE  IndexInv'
  BY <1>21 DEF PubWriteFails
<1>22. ASSUME NEW p \in Publishers,
            PubDrop(p)
     PROVE  IndexInv'
  BY <1>22 DEF PubDrop
<1>23. ASSUME NEW p \in Publishers,
            PubDone(p)
     PROVE  IndexInv'
  BY <1>23 DEF PubDone
<1>24. CASE UNCHANGED vars
  BY <1>24 DEF vars
<1> QED
  BY <1>1, <1>2, <1>3, <1>4, <1>5, <1>6, <1>7, <1>8, <1>9, <1>10,
     <1>11, <1>12, <1>13, <1>14, <1>15, <1>16, <1>17, <1>18, <1>19,
     <1>20, <1>21, <1>22, <1>23, <1>24
  DEF Next, ClientStep, HandlerStep, PublishStep

\* sessions and connTokens stay inverse to each other through fresh handshakes,
\* resumes that take a session over, and the janitor's sweeps.
THEOREM SessionIndexCorrect == Spec => []SessionIndex
<1>1. Init => IndexInv
  BY DEF Init, IndexInv, SessionTypes, SessionIndex
<1>2. IndexInv => SessionIndex
  BY DEF IndexInv
<1> QED
  BY <1>1, <1>2, IndexStep, PTL DEF Spec

\* A connection that has a session never sees it exchanged for another one.
THEOREM TokenStable == Spec => TokenNeverReplaced
<1>1. Init => IndexInv
  BY DEF Init, IndexInv, SessionTypes, SessionIndex
<1>2. IndexInv /\ [Next]_vars =>
        [\A c \in Conns : connTok[c] # NoToken =>
            connTok'[c] \in {connTok[c], NoToken}]_vars
  <2> SUFFICES ASSUME IndexInv, [Next]_vars, NEW d \in Conns,
                      connTok[d] # NoToken
               PROVE  connTok'[d] \in {connTok[d], NoToken}
    OBVIOUS
  <2> USE NoTokenAssumption, NoConnAssumption
      DEF IndexInv, SessionTypes, SessionIndex, sessVars, topicVars, hndVars,
          pubVars, histVars
  <2>1. ASSUME NEW c \in Conns,
              Connect(c)
       PROVE  connTok'[d] \in {connTok[d], NoToken}
    BY <2>1 DEF Connect
  <2>2. ASSUME NEW c \in Conns,
              HangUp(c)
       PROVE  connTok'[d] \in {connTok[d], NoToken}
    BY <2>2 DEF HangUp
  <2>3. ASSUME NEW c \in Conns,
              RecvRefused(c)
       PROVE  connTok'[d] \in {connTok[d], NoToken}
    BY <2>3 DEF RecvRefused, Receives
  <2>4. ASSUME NEW c \in Conns,
              RecvOther(c)
       PROVE  connTok'[d] \in {connTok[d], NoToken}
    BY <2>4 DEF RecvOther, Receives
  <2>5. ASSUME NEW c \in Conns, NEW t \in live \cup {NoToken}, NEW k \in Cursors,
              RecvHello(c, t, k)
       PROVE  connTok'[d] \in {connTok[d], NoToken}
    BY <2>5 DEF RecvHello, Receives, HelloAllowed, Handshaked
  <2>6. ASSUME NEW c \in Conns, NEW x \in Topics, NEW v \in {"subscribe", "unsubscribe"},
              RecvSubscribe(c, x, v)
       PROVE  connTok'[d] \in {connTok[d], NoToken}
    BY <2>6 DEF RecvSubscribe, Receives
  <2>7. ASSUME NEW c \in Conns,
              AttachResume(c)
       PROVE  connTok'[d] \in {connTok[d], NoToken}
    BY <2>7 DEF AttachResume, Resumable, MovedToken
  <2>8. ASSUME NEW c \in Conns, NEW t \in Tokens,
              AttachFresh(c, t)
       PROVE  connTok'[d] \in {connTok[d], NoToken}
    BY <2>8 DEF AttachFresh, TokenUsed
  <2>9. ASSUME NEW c \in Conns,
              ReplayWrite(c)
       PROVE  connTok'[d] \in {connTok[d], NoToken}
    BY <2>9 DEF ReplayWrite
  <2>10. ASSUME NEW c \in Conns,
              ReplayDone(c)
       PROVE  connTok'[d] \in {connTok[d], NoToken}
    BY <2>10 DEF ReplayDone
  <2>11. ASSUME NEW c \in Conns,
              Subscribe(c)
       PROVE  connTok'[d] \in {connTok[d], NoToken}
    BY <2>11 DEF Subscribe
  <2>12. ASSUME NEW c \in Conns,
              Unsubscribe(c)
       PROVE  connTok'[d] \in {connTok[d], NoToken}
    BY <2>12 DEF Unsubscribe
  <2>13. ASSUME NEW t \in Tokens,
              Expire(t)
       PROVE  connTok'[d] \in {connTok[d], NoToken}
    BY <2>13 DEF Expire
  <2>14. CASE Reap
    BY <2>14 DEF Reap
  <2>15. ASSUME NEW p \in Publishers, NEW x \in Topics,
              PubSnapshot(p, x)
       PROVE  connTok'[d] \in {connTok[d], NoToken}
    BY <2>15 DEF PubSnapshot
  <2>16. ASSUME NEW p \in Publishers,
              PubMint(p)
       PROVE  connTok'[d] \in {connTok[d], NoToken}
    BY <2>16 DEF PubMint
  <2>17. ASSUME NEW p \in Publishers,
              PubAdd(p)
       PROVE  connTok'[d] \in {connTok[d], NoToken}
    BY <2>17 DEF PubAdd
  <2>18. ASSUME NEW p \in Publishers, NEW z \in Sizes,
              PubRemember(p, z)
       PROVE  connTok'[d] \in {connTok[d], NoToken}
    BY <2>18 DEF PubRemember
  <2>19. ASSUME NEW p \in Publishers,
              PubTooLarge(p)
       PROVE  connTok'[d] \in {connTok[d], NoToken}
    BY <2>19 DEF PubTooLarge
  <2>20. ASSUME NEW p \in Publishers, NEW c \in Conns,
              PubWrite(p, c)
       PROVE  connTok'[d] \in {connTok[d], NoToken}
    BY <2>20 DEF PubWrite
  <2>21. ASSUME NEW p \in Publishers, NEW c \in Conns,
              PubWriteFails(p, c)
       PROVE  connTok'[d] \in {connTok[d], NoToken}
    BY <2>21 DEF PubWriteFails
  <2>22. ASSUME NEW p \in Publishers,
              PubDrop(p)
       PROVE  connTok'[d] \in {connTok[d], NoToken}
    BY <2>22 DEF PubDrop
  <2>23. ASSUME NEW p \in Publishers,
              PubDone(p)
       PROVE  connTok'[d] \in {connTok[d], NoToken}
    BY <2>23 DEF PubDone
  <2>24. CASE UNCHANGED vars
    BY <2>24 DEF vars
  <2> QED
    BY <2>1, <2>2, <2>3, <2>4, <2>5, <2>6, <2>7, <2>8, <2>9, <2>10,
       <2>11, <2>12, <2>13, <2>14, <2>15, <2>16, <2>17, <2>18, <2>19,
       <2>20, <2>21, <2>22, <2>23, <2>24
    DEF Next, ClientStep, HandlerStep, PublishStep
<1> QED
  BY <1>1, <1>2, IndexStep, PTL DEF Spec, TokenNeverReplaced

-----------------------------------------------------------------------------
\* dropTopicCacheLocked empties some topics and leaves the others alone.
LEMMA DropKeeps ==
  ASSUME TypeOK, NEW X, NEW S, NEW L, NEW T, DropTopicCache(X, S, L, T)
  PROVE  /\ cache' \in [Topics -> Seq(Entries)]
         /\ \A x \in Topics : cache'[x] \in {cache[x], <<>>}
         /\ cell' \in [Topics -> 0 .. Len(ctr)]
<1> DEFINE gone == {x \in X : ~Held(x, S, L, T)}
<1>1. /\ cache' = [x \in Topics |-> IF x \in gone THEN <<>> ELSE cache[x]]
      /\ cell' = [x \in Topics |-> IF x \in gone THEN 0 ELSE cell[x]]
  BY DEF DropTopicCache
<1>2. cache \in [Topics -> Seq(Entries)] /\ cell \in [Topics -> 0 .. Len(ctr)]
      /\ Len(ctr) \in Nat
  BY DEF TypeOK
<1>3. <<>> \in Seq(Entries) /\ 0 \in 0 .. Len(ctr)
  BY <1>2
<1> QED
  BY <1>1, <1>2, <1>3

\* rememberPublish appends to one topic; trimming and the budget only take
\* entries away, from the front.
LEMMA RememberKeeps ==
  ASSUME TypeOK, NEW x \in Topics, NEW e \in Entries, Remember(x, e)
  PROVE  LET grown == [cache EXCEPT ![x] = Append(cache[x], e)]
         IN  /\ cache' \in [Topics -> Seq(Entries)]
             /\ \A y \in Topics : cache'[y] \in {grown[y], Tail(grown[y]), <<>>}
             /\ \A y \in Topics : Len(cache'[y]) <= CacheSize
<1> DEFINE g == Append(cache[x], e)
           grown == [cache EXCEPT ![x] = g]
           kept == IF Len(g) > CacheSize THEN Tail(g) ELSE g
           C == [cache EXCEPT ![x] = kept]
<1>1. /\ cache \in [Topics -> Seq(Entries)] /\ CacheSize \in Nat \ {0}
      /\ \A y \in Topics : cache[y] \in Seq(Entries) /\ Len(cache[y]) <= CacheSize
  BY BoundsAssumption DEF TypeOK
<1>2. /\ g \in Seq(Entries) /\ Len(g) = Len(cache[x]) + 1 /\ g # <<>>
      /\ Tail(g) \in Seq(Entries) /\ Len(Tail(g)) = Len(g) - 1
  BY <1>1
<1>3. kept \in Seq(Entries) /\ Len(kept) <= CacheSize /\ kept \in {g, Tail(g)}
  <2>1. CASE Len(g) > CacheSize
    BY <1>1, <1>2, <2>1
  <2>2. CASE ~(Len(g) > CacheSize)
    BY <1>1, <1>2, <2>2
  <2> QED
    BY <2>1, <2>2
<1>4. /\ C \in [Topics -> Seq(Entries)] /\ C[x] = kept /\ grown[x] = g
      /\ \A y \in Topics \ {x} : C[y] = cache[y] /\ grown[y] = cache[y]
  BY <1>1, <1>3
<1> HIDE DEF C, grown, g, kept
<1>5. cache' = C \/ \E y \in Topics : cache' = [C EXCEPT ![y] = <<>>]
  <2>1. PICK B : \E r \in Enforced(C, B) : cache' = r[1] /\ cacheBytes' = r[2]
    BY DEF Remember, C, kept, g
  <2>2. PICK r \in Enforced(C, B) : cache' = r[1]
    BY <2>1
  <2>3. \/ r = <<C, B>> \/ r = <<C, 0>>
        \/ \E y \in Topics : r = <<[C EXCEPT ![y] = <<>>], B - FrameBytes(C[y])>>
    BY <2>2, Zenon DEF Enforced
  <2>4. CASE r = <<C, B>> \/ r = <<C, 0>>
    BY <2>2, <2>4
  <2>5. CASE \E y \in Topics : r = <<[C EXCEPT ![y] = <<>>], B - FrameBytes(C[y])>>
    <3>1. PICK y \in Topics : \E b : r = <<[C EXCEPT ![y] = <<>>], b>>
      BY <2>5, Zenon
    <3>2. r[1] = [C EXCEPT ![y] = <<>>]
      BY <3>1
    <3> QED
      BY <2>2, <3>2
  <2> QED
    BY <2>3, <2>4, <2>5
<1>6. <<>> \in Seq(Entries) /\ Len(<<>>) = 0
  OBVIOUS
<1>7. \A y \in Topics : C[y] \in {grown[y], Tail(grown[y])} /\ Len(C[y]) <= CacheSize
  BY <1>1, <1>3, <1>4
<1>8. /\ cache' \in [Topics -> Seq(Entries)]
      /\ \A y \in Topics : cache'[y] \in {C[y], <<>>}
  BY <1>4, <1>5, <1>6
<1>9. \A y \in Topics : cache'[y] \in {grown[y], Tail(grown[y]), <<>>}
  BY <1>7, <1>8
<1>10. \A y \in Topics : Len(cache'[y]) <= CacheSize
  <2> SUFFICES ASSUME NEW y \in Topics PROVE Len(cache'[y]) <= CacheSize
    OBVIOUS
  <2>1. CASE cache'[y] = C[y]
    BY <1>7, <2>1
  <2>2. CASE cache'[y] = <<>>
    BY <1>1, <1>6, <2>2
  <2> QED
    BY <1>8, <2>1, <2>2
<1> QED
  BY <1>8, <1>9, <1>10 DEF grown, g

\* collectReplay yields cached entries, each position at most once.
LEMMA CollectTakesEachOnce ==
  ASSUME TypeOK, NEW X \in SUBSET Topics, NEW k \in [Topics -> Nat],
         NEW r \in CollectReplay(X, k)
  PROVE  /\ r \in Seq(Entries)
         /\ \E f : \A n \in DOMAIN r :
              /\ f[n] \in Topics \X (1 .. CacheSize)
              /\ f[n][2] \in DOMAIN cache[f[n][1]]
              /\ r[n] = cache[f[n][1]][f[n][2]]
              /\ \A m \in DOMAIN r : f[m] = f[n] => m = n
<1> DEFINE W == NewerThan(X, k)
<1>1. PICK ks \in SetToSeqs(W) : r = [n \in DOMAIN ks |-> cache[ks[n][1]][ks[n][2]]]
  BY DEF CollectReplay
<1>2. IsFiniteSet(W)
  <2>1. IsFiniteSet(X) /\ IsFiniteSet(1 .. CacheSize)
    BY TopicsAssumption, BoundsAssumption, FS_Subset, FS_Interval
  <2>2. IsFiniteSet(X \X (1 .. CacheSize)) /\ W \in SUBSET (X \X (1 .. CacheSize))
    BY <2>1, FS_Product DEF NewerThan
  <2> QED
    BY <2>2, FS_Subset
<1>3. Cardinality(W) \in Nat
  BY <1>2, FS_CardinalityType
<1>4. /\ ks \in [1 .. Cardinality(W) -> W]
      /\ \A i, j \in 1 .. Cardinality(W) : i # j => ks[i] # ks[j]
  BY DEF SetToSeqs
<1>5. \A w \in W : /\ w \in Topics \X (1 .. CacheSize) /\ w[2] \in DOMAIN cache[w[1]]
                   /\ cache[w[1]][w[2]] \in Entries
  <2> SUFFICES ASSUME NEW w \in W PROVE /\ w \in Topics \X (1 .. CacheSize)
                                        /\ w[2] \in DOMAIN cache[w[1]]
                                        /\ cache[w[1]][w[2]] \in Entries
    OBVIOUS
  <2>1. w \in Topics \X (1 .. CacheSize) /\ w[2] \in DOMAIN cache[w[1]]
    BY DEF NewerThan
  <2>2. w[1] \in Topics /\ cache[w[1]] \in Seq(Entries)
    BY <2>1 DEF TypeOK
  <2> QED
    BY <2>1, <2>2
<1>6. DOMAIN r = 1 .. Cardinality(W) /\ \A n \in DOMAIN r : r[n] = cache[ks[n][1]][ks[n][2]]
  BY <1>1, <1>4
<1>7. r \in Seq(Entries)
  <2>1. r \in [1 .. Cardinality(W) -> Entries]
    BY <1>1, <1>4, <1>5
  <2> QED
    BY <1>3, <2>1
<1> QED
  BY <1>4, <1>5, <1>6, <1>7


\* The two constants of a handler and of a Publish call at rest are in their types.
LEMMA NoFrameTyped == NoFrame \in HandlerFrames
BY DEF NoFrame, HandlerFrames

\* A publisher without a call is typed.
LEMMA IdleTyped == Idle \in PublishCalls /\ Idle.pc = "idle"
BY DEF Idle, PublishCalls

\* What a step of a Publish call leaves of the types of pub.
LEMMA PubTyped ==
  ASSUME TypeOK, NEW p \in Publishers, NEW r \in PublishCalls,
         pub' = [pub EXCEPT ![p] = r],
         ctr \in Seq(Nat), ctr' \in Seq(Nat), Len(ctr') >= Len(ctr),
         r.pc # "idle" => r.topic \in Topics,
         r.pc = "add" => r.cell \in 1 .. Len(ctr')
  PROVE  /\ pub' \in [Publishers -> PublishCalls]
         /\ \A q \in Publishers : pub'[q].pc # "idle" => pub'[q].topic \in Topics
         /\ \A q \in Publishers : pub'[q].pc = "add" => pub'[q].cell \in 1 .. Len(ctr')
<1>1. pub \in [Publishers -> PublishCalls]
  BY DEF TypeOK
<1>2. pub'[p] = r /\ \A q \in Publishers \ {p} : pub'[q] = pub[q]
  BY <1>1
<1>3. pub' \in [Publishers -> PublishCalls]
  BY <1>1
<1>4. \A q \in Publishers \ {p} : /\ pub[q].pc # "idle" => pub[q].topic \in Topics
                                  /\ pub[q].pc = "add" => pub[q].cell \in 1 .. Len(ctr)
  BY DEF TypeOK
<1>5. 1 .. Len(ctr) \subseteq 1 .. Len(ctr')
  OBVIOUS
<1> QED
  BY <1>2, <1>3, <1>4, <1>5

\* Every action keeps the types.
LEMMA TypeStep == TypeOK /\ IndexInv /\ [Next]_vars => TypeOK'
<1> SUFFICES ASSUME TypeOK, IndexInv, [Next]_vars PROVE TypeOK'
  OBVIOUS
<1>0. SessionTypes'
  BY IndexStep DEF IndexInv
<1> USE <1>0, BoundsAssumption
    DEF TypeOK, sessVars, topicVars, hndVars, pubVars, histVars
<1>1. ASSUME NEW c \in Conns, Connect(c) PROVE TypeOK'
  BY <1>1 DEF Connect
<1>2. ASSUME NEW c \in Conns, HangUp(c) PROVE TypeOK'
  BY <1>2 DEF HangUp
<1>3. ASSUME NEW c \in Conns, RecvRefused(c) PROVE TypeOK'
  BY <1>3 DEF RecvRefused, Receives
<1>4. ASSUME NEW c \in Conns, RecvOther(c) PROVE TypeOK'
  BY <1>4 DEF RecvOther, Receives
<1>5. ASSUME NEW c \in Conns, NEW t \in live \cup {NoToken}, NEW k \in Cursors,
            RecvHello(c, t, k)
     PROVE  TypeOK'
  <2>1. k \in [Topics -> Nat] /\ t \in Tokens \cup {NoToken}
    BY <1>5, BoundsAssumption DEF Cursors, SessionTypes
  <2>2. harg' = [harg EXCEPT ![c] = [harg[c] EXCEPT !.token = t, !.cursors = k]]
    BY <1>5 DEF RecvHello
  <2>3. [harg[c] EXCEPT !.token = t, !.cursors = k] \in HandlerFrames
    BY <2>1 DEF HandlerFrames
  <2>4. harg' \in [Conns -> HandlerFrames]
    BY <2>2, <2>3
  <2>5. /\ hpc' = [hpc EXCEPT ![c] = "attach"]
        /\ hpc \in [Conns -> {"idle", "attach", "replay", "subscribe", "unsubscribe"}]
    BY <1>5 DEF RecvHello, SessionTypes
  <2>6. \A d \in Conns : hpc'[d] \in {"subscribe", "unsubscribe"} => harg'[d].topic \in Topics
    BY <2>2, <2>5
  <2>7. greeted' \subseteq Conns
    BY <1>5 DEF RecvHello
  <2> QED
    BY <1>5, <2>4, <2>6, <2>7 DEF RecvHello
<1>6. ASSUME NEW c \in Conns, NEW x \in Topics, NEW v \in {"subscribe", "unsubscribe"},
            RecvSubscribe(c, x, v)
     PROVE  TypeOK'
  <2>2. harg' = [harg EXCEPT ![c] = [harg[c] EXCEPT !.topic = x]]
    BY <1>6 DEF RecvSubscribe
  <2>3. [harg[c] EXCEPT !.topic = x] \in HandlerFrames
    BY DEF HandlerFrames
  <2>4. harg' \in [Conns -> HandlerFrames] /\ harg'[c].topic \in Topics
    BY <2>2, <2>3 DEF HandlerFrames
  <2>5. \A d \in Conns : d # c => hpc'[d] = hpc[d]
    BY <1>6 DEF RecvSubscribe, SessionTypes
  <2>6. \A d \in Conns : hpc'[d] \in {"subscribe", "unsubscribe"} => harg'[d].topic \in Topics
    BY <2>2, <2>4, <2>5
  <2> QED
    BY <1>6, <2>4, <2>6 DEF RecvSubscribe
<1>7. ASSUME NEW c \in Conns, AttachResume(c) PROVE TypeOK'
  <2>1. harg' \in [Conns -> HandlerFrames] /\ \A d \in Conns : d # c => harg'[d] = harg[d]
    BY <1>7, NoFrameTyped DEF AttachResume, Resumable
  <2>2. hpc'[c] \in {"idle", "replay"} /\ \A d \in Conns : d # c => hpc'[d] = hpc[d]
    BY <1>7 DEF AttachResume, Resumable, SessionTypes
  <2>3. \A d \in Conns : hpc'[d] \in {"subscribe", "unsubscribe"} => harg'[d].topic \in Topics
    BY <2>1, <2>2
  <2> DEFINE t == harg[c].token
  <2>4. t \in Tokens /\ stopics[t] \in SUBSET Topics /\ harg[c].cursors \in [Topics -> Nat]
    BY <1>7 DEF AttachResume, Resumable, SessionTypes, HandlerFrames
  <2>5. PICK r \in CollectReplay(stopics[t], harg[c].cursors) : replay' = [replay EXCEPT ![c] = r]
    BY <1>7 DEF AttachResume, Resumable
  <2>6. r \in Seq(Entries)
    BY <2>4, <2>5, CollectTakesEachOnce
  <2>7. replay' \in [Conns -> Seq(Entries)]
    BY <2>5, <2>6
  <2>8. subs' \in [Topics -> SUBSET Conns]
    BY <1>7 DEF AttachResume, Resumable
  <2> QED
    BY <1>7, <2>1, <2>3, <2>7, <2>8 DEF AttachResume, Resumable
<1>8. ASSUME NEW c \in Conns, NEW t \in Tokens, AttachFresh(c, t) PROVE TypeOK'
  <2>1. harg' \in [Conns -> HandlerFrames] /\ \A d \in Conns : d # c => harg'[d] = harg[d]
    BY <1>8, NoFrameTyped DEF AttachFresh
  <2>2. hpc'[c] \in {"idle", "replay"} /\ \A d \in Conns : d # c => hpc'[d] = hpc[d]
    BY <1>8 DEF AttachFresh, SessionTypes
  <2>3. \A d \in Conns : hpc'[d] \in {"subscribe", "unsubscribe"} => harg'[d].topic \in Topics
    BY <2>1, <2>2
  <2> QED
    BY <1>8, <2>1, <2>3 DEF AttachFresh
<1>9. ASSUME NEW c \in Conns, ReplayWrite(c) PROVE TypeOK'
  <2>1. \A d \in Conns : wire[d] \in Seq(Entries) /\ replay[d] \in Seq(Entries)
    OBVIOUS
  <2>2. Head(replay[c]) \in Entries /\ Tail(replay[c]) \in Seq(Entries)
    BY <1>9, <2>1 DEF ReplayWrite
  <2>3. Append(wire[c], Head(replay[c])) \in Seq(Entries) /\ <<>> \in Seq(Entries)
    BY <2>1, <2>2
  <2>4. replay' \in [Conns -> Seq(Entries)]
    BY <1>9, <2>2, <2>3 DEF ReplayWrite
  <2>5. wire' \in [Conns -> Seq(Entries)]
    BY <1>9, <2>3 DEF ReplayWrite, Written
  <2> QED
    BY <1>9, <2>4, <2>5 DEF ReplayWrite
<1>10. ASSUME NEW c \in Conns, ReplayDone(c) PROVE TypeOK'
  <2>1. \A d \in Conns : hpc'[d] \in {"subscribe", "unsubscribe"} => hpc[d] = hpc'[d]
    BY <1>10 DEF ReplayDone, SessionTypes
  <2> QED
    BY <1>10, <2>1 DEF ReplayDone
<1>11. ASSUME NEW c \in Conns, Subscribe(c) PROVE TypeOK'
  <2>1. harg' \in [Conns -> HandlerFrames] /\ \A d \in Conns : d # c => harg'[d] = harg[d]
    BY <1>11, NoFrameTyped DEF Subscribe
  <2>2. hpc'[c] \in {"idle", "replay"} /\ \A d \in Conns : d # c => hpc'[d] = hpc[d]
    BY <1>11 DEF Subscribe, SessionTypes
  <2>3. \A d \in Conns : hpc'[d] \in {"subscribe", "unsubscribe"} => harg'[d].topic \in Topics
    BY <2>1, <2>2
  <2>4. harg[c].topic \in Topics
    BY <1>11 DEF Subscribe
  <2>5. subs' \in [Topics -> SUBSET Conns]
    BY <1>11, <2>4 DEF Subscribe
  <2>6. stopics' \in [Tokens -> SUBSET Topics]
    BY <1>11, <2>4 DEF Subscribe, Recorded
  <2> QED
    BY <1>11, <2>1, <2>3, <2>5, <2>6 DEF Subscribe
<1>12. ASSUME NEW c \in Conns, Unsubscribe(c) PROVE TypeOK'
  <2>1. harg' \in [Conns -> HandlerFrames] /\ \A d \in Conns : d # c => harg'[d] = harg[d]
    BY <1>12, NoFrameTyped DEF Unsubscribe
  <2>2. hpc'[c] \in {"idle", "replay"} /\ \A d \in Conns : d # c => hpc'[d] = hpc[d]
    BY <1>12 DEF Unsubscribe, SessionTypes
  <2>3. \A d \in Conns : hpc'[d] \in {"subscribe", "unsubscribe"} => harg'[d].topic \in Topics
    BY <2>1, <2>2
  <2>4. harg[c].topic \in Topics
    BY <1>12 DEF Unsubscribe
  <2>5. subs' \in [Topics -> SUBSET Conns]
    BY <1>12, <2>4 DEF Unsubscribe
  <2>6. stopics' \in [Tokens -> SUBSET Topics]
    BY <1>12, <2>4 DEF Unsubscribe, Recorded
  <2>7. /\ cache' \in [Topics -> Seq(Entries)] /\ cell' \in [Topics -> 0 .. Len(ctr)]
        /\ \A x \in Topics : cache'[x] \in {cache[x], <<>>}
    BY <1>12, DropKeeps DEF Unsubscribe
  <2>8. \A x \in Topics : Len(cache'[x]) <= CacheSize
    BY <2>7
  <2> QED
    BY <1>12, <2>1, <2>3, <2>5, <2>6, <2>7, <2>8 DEF Unsubscribe
<1>13. ASSUME NEW t \in Tokens, Expire(t) PROVE TypeOK'
  BY <1>13 DEF Expire
<1>14. CASE Reap
  <2>5. subs' \in [Topics -> SUBSET Conns]
    BY <1>14 DEF Reap, ReapedMembers
  <2>6. stopics' \in [Tokens -> SUBSET Topics]
    BY <1>14 DEF Reap
  <2>7. /\ cache' \in [Topics -> Seq(Entries)] /\ cell' \in [Topics -> 0 .. Len(ctr)]
        /\ \A x \in Topics : cache'[x] \in {cache[x], <<>>}
    BY <1>14, DropKeeps DEF Reap
  <2>8. \A x \in Topics : Len(cache'[x]) <= CacheSize
    BY <2>7
  <2> QED
    BY <1>14, <2>5, <2>6, <2>7, <2>8 DEF Reap
<1>15. ASSUME NEW p \in Publishers, NEW x \in Topics, PubSnapshot(p, x) PROVE TypeOK'
  <2> DEFINE r ==  [Idle EXCEPT !.pc = "mint", !.topic = x, !.members = subs[x], !.id = npub + 1]
  <2>1. pub[p] \in PublishCalls /\ (pub[p].pc # "idle" => pub[p].topic \in Topics)
    OBVIOUS
  <2>2. pub' = [pub EXCEPT ![p] = r]
    BY <1>15 DEF PubSnapshot
  <2>3. ctr' = ctr /\ ctr \in Seq(Nat) /\ ctr' \in Seq(Nat) /\ Len(ctr') >= Len(ctr)
    BY <1>15 DEF PubSnapshot
  <2>7. subs[x] \in SUBSET Conns /\ npub + 1 \in Nat /\ npub' = npub + 1
    BY <1>15 DEF PubSnapshot
  <2>4. r \in PublishCalls /\ (r.pc # "idle" => r.topic \in Topics)
    BY <1>15, <2>1, <2>3, <2>7, IdleTyped DEF PubSnapshot, PublishCalls
  <2>5. r.pc = "add" => r.cell \in 1 .. Len(ctr')
    BY <1>15, <2>1, <2>3, <2>7, IdleTyped DEF PubSnapshot, PublishCalls
  <2>6. /\ pub' \in [Publishers -> PublishCalls]
        /\ \A q \in Publishers : pub'[q].pc # "idle" => pub'[q].topic \in Topics
        /\ \A q \in Publishers : pub'[q].pc = "add" => pub'[q].cell \in 1 .. Len(ctr')
    BY <2>2, <2>3, <2>4, <2>5, PubTyped
  <2> QED
    BY <1>15, <2>3, <2>6, <2>7 DEF PubSnapshot
<1>16. ASSUME NEW p \in Publishers, PubMint(p) PROVE TypeOK'
  <2> DEFINE r == [pub[p] EXCEPT !.pc = "add",
                               !.cell = IF cell[pub[p].topic] = 0 THEN Len(ctr) + 1 ELSE cell[pub[p].topic]]
  <2>1. pub[p] \in PublishCalls /\ (pub[p].pc # "idle" => pub[p].topic \in Topics)
    OBVIOUS
  <2>2. pub' = [pub EXCEPT ![p] = r]
    BY <1>16 DEF PubMint
  <2>3. /\ ctr \in Seq(Nat) /\ ctr' \in Seq(Nat) /\ Len(ctr') >= Len(ctr)
        /\ pub[p].topic \in Topics
    BY <1>16, <2>1 DEF PubMint
  <2>8. (IF cell[pub[p].topic] = 0 THEN Len(ctr) + 1 ELSE cell[pub[p].topic]) \in 1 .. Len(ctr')
    BY <1>16, <2>1, <2>3 DEF PubMint
  <2>9. 1 .. Len(ctr') \subseteq Nat
    BY <2>3
  <2>7. cell' \in [Topics -> 0 .. Len(ctr')]
    BY <1>16, <2>1, <2>3 DEF PubMint
  <2>4. r \in PublishCalls /\ (r.pc # "idle" => r.topic \in Topics)
    BY <1>16, <2>1, <2>3, <2>7, <2>8, <2>9, IdleTyped DEF PubMint, PublishCalls
  <2>5. r.pc = "add" => r.cell \in 1 .. Len(ctr')
    BY <1>16, <2>1, <2>3, <2>7, <2>8, <2>9, IdleTyped DEF PubMint, PublishCalls
  <2>6. /\ pub' \in [Publishers -> PublishCalls]
        /\ \A q \in Publishers : pub'[q].pc # "idle" => pub'[q].topic \in Topics
        /\ \A q \in Publishers : pub'[q].pc = "add" => pub'[q].cell \in 1 .. Len(ctr')
    BY <2>2, <2>3, <2>4, <2>5, PubTyped
  <2> QED
    BY <1>16, <2>3, <2>6, <2>7, <2>8, <2>9 DEF PubMint
<1>17. ASSUME NEW p \in Publishers, PubAdd(p) PROVE TypeOK'
  <2> DEFINE r ==  [pub[p] EXCEPT !.pc = "remember", !.seq = (ctr[pub[p].cell] + 1) % SeqSpace]
  <2>1. pub[p] \in PublishCalls /\ (pub[p].pc # "idle" => pub[p].topic \in Topics)
    OBVIOUS
  <2>2. pub' = [pub EXCEPT ![p] = r]
    BY <1>17 DEF PubAdd
  <2>7. (ctr[pub[p].cell] + 1) % SeqSpace \in Nat /\ pub[p].cell \in 1 .. Len(ctr)
    BY <1>17 DEF PubAdd
  <2>3. ctr \in Seq(Nat) /\ ctr' \in Seq(Nat) /\ Len(ctr') = Len(ctr)
    BY <1>17, <2>7 DEF PubAdd
  <2>4. r \in PublishCalls /\ (r.pc # "idle" => r.topic \in Topics)
    BY <1>17, <2>1, <2>3, <2>7, IdleTyped DEF PubAdd, PublishCalls
  <2>5. r.pc = "add" => r.cell \in 1 .. Len(ctr')
    BY <1>17, <2>1, <2>3, <2>7, IdleTyped DEF PubAdd, PublishCalls
  <2>6. /\ pub' \in [Publishers -> PublishCalls]
        /\ \A q \in Publishers : pub'[q].pc # "idle" => pub'[q].topic \in Topics
        /\ \A q \in Publishers : pub'[q].pc = "add" => pub'[q].cell \in 1 .. Len(ctr')
    BY <2>2, <2>3, <2>4, <2>5, PubTyped
  <2> QED
    BY <1>17, <2>3, <2>6, <2>7 DEF PubAdd
<1>18. ASSUME NEW p \in Publishers, NEW z \in Sizes, PubRemember(p, z) PROVE TypeOK'
  <2> DEFINE r ==  [pub[p] EXCEPT !.pc = "write"]
  <2>1. pub[p] \in PublishCalls /\ (pub[p].pc # "idle" => pub[p].topic \in Topics)
    OBVIOUS
  <2>2. pub' = [pub EXCEPT ![p] = r]
    BY <1>18 DEF PubRemember
  <2>3. ctr' = ctr /\ ctr \in Seq(Nat) /\ ctr' \in Seq(Nat) /\ Len(ctr') >= Len(ctr)
    BY <1>18 DEF PubRemember
  <2>7. pub[p].topic \in Topics /\ Entry(p, z) \in Entries
    BY <1>18, <2>1 DEF PubRemember, Entry, Entries, PublishCalls
  <2>8. /\ cache' \in [Topics -> Seq(Entries)]
        /\ \A y \in Topics : Len(cache'[y]) <= CacheSize
    BY <1>18, <2>7, RememberKeeps DEF PubRemember
  <2>4. r \in PublishCalls /\ (r.pc # "idle" => r.topic \in Topics)
    BY <1>18, <2>1, <2>3, <2>8, IdleTyped DEF PubRemember, PublishCalls
  <2>5. r.pc = "add" => r.cell \in 1 .. Len(ctr')
    BY <1>18, <2>1, <2>3, <2>8, IdleTyped DEF PubRemember, PublishCalls
  <2>6. /\ pub' \in [Publishers -> PublishCalls]
        /\ \A q \in Publishers : pub'[q].pc # "idle" => pub'[q].topic \in Topics
        /\ \A q \in Publishers : pub'[q].pc = "add" => pub'[q].cell \in 1 .. Len(ctr')
    BY <2>2, <2>3, <2>4, <2>5, PubTyped
  <2> QED
    BY <1>18, <2>3, <2>6, <2>8 DEF PubRemember
<1>19. ASSUME NEW p \in Publishers, PubTooLarge(p) PROVE TypeOK'
  <2> DEFINE r ==  Idle
  <2>1. pub[p] \in PublishCalls /\ (pub[p].pc # "idle" => pub[p].topic \in Topics)
    OBVIOUS
  <2>2. pub' = [pub EXCEPT ![p] = r]
    BY <1>19 DEF PubTooLarge
  <2>3. ctr' = ctr /\ ctr \in Seq(Nat) /\ ctr' \in Seq(Nat) /\ Len(ctr') >= Len(ctr)
    BY <1>19 DEF PubTooLarge
  <2>4. r \in PublishCalls /\ (r.pc # "idle" => r.topic \in Topics)
    BY <1>19, <2>1, <2>3, IdleTyped DEF PubTooLarge, PublishCalls
  <2>5. r.pc = "add" => r.cell \in 1 .. Len(ctr')
    BY <1>19, <2>1, <2>3, IdleTyped DEF PubTooLarge, PublishCalls
  <2>6. /\ pub' \in [Publishers -> PublishCalls]
        /\ \A q \in Publishers : pub'[q].pc # "idle" => pub'[q].topic \in Topics
        /\ \A q \in Publishers : pub'[q].pc = "add" => pub'[q].cell \in 1 .. Len(ctr')
    BY <2>2, <2>3, <2>4, <2>5, PubTyped
  <2> QED
    BY <1>19, <2>3, <2>6 DEF PubTooLarge
<1>20. ASSUME NEW p \in Publishers, NEW c \in Conns, PubWrite(p, c) PROVE TypeOK'
  <2> DEFINE r ==  [pub[p] EXCEPT !.members = @ \ {c}]
  <2>1. pub[p] \in PublishCalls /\ (pub[p].pc # "idle" => pub[p].topic \in Topics)
    OBVIOUS
  <2>2. pub' = [pub EXCEPT ![p] = r]
    BY <1>20 DEF PubWrite
  <2>3. ctr' = ctr /\ ctr \in Seq(Nat) /\ ctr' \in Seq(Nat) /\ Len(ctr') >= Len(ctr)
    BY <1>20 DEF PubWrite
  <2>7. Entry(p, 0) \in Entries
    BY <1>20, <2>1 DEF PubWrite, Entry, Entries, PublishCalls
  <2>8. wire' \in [Conns -> Seq(Entries)]
    BY <1>20, <2>7 DEF PubWrite, Written
  <2>4. r \in PublishCalls /\ (r.pc # "idle" => r.topic \in Topics)
    BY <1>20, <2>1, <2>3, <2>8, IdleTyped DEF PubWrite, PublishCalls
  <2>5. r.pc = "add" => r.cell \in 1 .. Len(ctr')
    BY <1>20, <2>1, <2>3, <2>8, IdleTyped DEF PubWrite, PublishCalls
  <2>6. /\ pub' \in [Publishers -> PublishCalls]
        /\ \A q \in Publishers : pub'[q].pc # "idle" => pub'[q].topic \in Topics
        /\ \A q \in Publishers : pub'[q].pc = "add" => pub'[q].cell \in 1 .. Len(ctr')
    BY <2>2, <2>3, <2>4, <2>5, PubTyped
  <2> QED
    BY <1>20, <2>3, <2>6, <2>8 DEF PubWrite
<1>21. ASSUME NEW p \in Publishers, NEW c \in Conns, PubWriteFails(p, c) PROVE TypeOK'
  <2> DEFINE r ==  [pub[p] EXCEPT !.pc = "drop", !.members = @ \ {c}, !.cur = c]
  <2>1. pub[p] \in PublishCalls /\ (pub[p].pc # "idle" => pub[p].topic \in Topics)
    OBVIOUS
  <2>2. pub' = [pub EXCEPT ![p] = r]
    BY <1>21 DEF PubWriteFails
  <2>3. ctr' = ctr /\ ctr \in Seq(Nat) /\ ctr' \in Seq(Nat) /\ Len(ctr') >= Len(ctr)
    BY <1>21 DEF PubWriteFails
  <2>4. r \in PublishCalls /\ (r.pc # "idle" => r.topic \in Topics)
    BY <1>21, <2>1, <2>3, IdleTyped DEF PubWriteFails, PublishCalls
  <2>5. r.pc = "add" => r.cell \in 1 .. Len(ctr')
    BY <1>21, <2>1, <2>3, IdleTyped DEF PubWriteFails, PublishCalls
  <2>6. /\ pub' \in [Publishers -> PublishCalls]
        /\ \A q \in Publishers : pub'[q].pc # "idle" => pub'[q].topic \in Topics
        /\ \A q \in Publishers : pub'[q].pc = "add" => pub'[q].cell \in 1 .. Len(ctr')
    BY <2>2, <2>3, <2>4, <2>5, PubTyped
  <2> QED
    BY <1>21, <2>3, <2>6 DEF PubWriteFails
<1>22. ASSUME NEW p \in Publishers, PubDrop(p) PROVE TypeOK'
  <2> DEFINE r ==  [pub[p] EXCEPT !.pc = "write", !.cur = NoConn]
  <2>1. pub[p] \in PublishCalls /\ (pub[p].pc # "idle" => pub[p].topic \in Topics)
    OBVIOUS
  <2>2. pub' = [pub EXCEPT ![p] = r]
    BY <1>22 DEF PubDrop
  <2>3. ctr' = ctr /\ ctr \in Seq(Nat) /\ ctr' \in Seq(Nat) /\ Len(ctr') >= Len(ctr)
    BY <1>22 DEF PubDrop
  <2>7. subs' \in [Topics -> SUBSET Conns]
    BY <1>22 DEF PubDrop, WithoutFailed
  <2>8. /\ cache' \in [Topics -> Seq(Entries)] /\ cell' \in [Topics -> 0 .. Len(ctr)]
        /\ \A x \in Topics : cache'[x] \in {cache[x], <<>>}
    BY <1>22, DropKeeps DEF PubDrop
  <2>9. \A x \in Topics : Len(cache'[x]) <= CacheSize
    BY <2>8
  <2>4. r \in PublishCalls /\ (r.pc # "idle" => r.topic \in Topics)
    BY <1>22, <2>1, <2>3, <2>7, <2>8, <2>9, IdleTyped DEF PubDrop, PublishCalls
  <2>5. r.pc = "add" => r.cell \in 1 .. Len(ctr')
    BY <1>22, <2>1, <2>3, <2>7, <2>8, <2>9, IdleTyped DEF PubDrop, PublishCalls
  <2>6. /\ pub' \in [Publishers -> PublishCalls]
        /\ \A q \in Publishers : pub'[q].pc # "idle" => pub'[q].topic \in Topics
        /\ \A q \in Publishers : pub'[q].pc = "add" => pub'[q].cell \in 1 .. Len(ctr')
    BY <2>2, <2>3, <2>4, <2>5, PubTyped
  <2> QED
    BY <1>22, <2>3, <2>6, <2>7, <2>8, <2>9 DEF PubDrop
<1>23. ASSUME NEW p \in Publishers, PubDone(p) PROVE TypeOK'
  <2> DEFINE r ==  Idle
  <2>1. pub[p] \in PublishCalls /\ (pub[p].pc # "idle" => pub[p].topic \in Topics)
    OBVIOUS
  <2>2. pub' = [pub EXCEPT ![p] = r]
    BY <1>23 DEF PubDone
  <2>3. ctr' = ctr /\ ctr \in Seq(Nat) /\ ctr' \in Seq(Nat) /\ Len(ctr') >= Len(ctr)
    BY <1>23 DEF PubDone
  <2>4. r \in PublishCalls /\ (r.pc # "idle" => r.topic \in Topics)
    BY <1>23, <2>1, <2>3, IdleTyped DEF PubDone, PublishCalls
  <2>5. r.pc = "add" => r.cell \in 1 .. Len(ctr')
    BY <1>23, <2>1, <2>3, IdleTyped DEF PubDone, PublishCalls
  <2>6. /\ pub' \in [Publishers -> PublishCalls]
        /\ \A q \in Publishers : pub'[q].pc # "idle" => pub'[q].topic \in Topics
        /\ \A q \in Publishers : pub'[q].pc = "add" => pub'[q].cell \in 1 .. Len(ctr')
    BY <2>2, <2>3, <2>4, <2>5, PubTyped
  <2> QED
    BY <1>23, <2>3, <2>6 DEF PubDone
<1>24. CASE UNCHANGED vars
  BY <1>24 DEF vars
<1> QED
  BY <1>1, <1>2, <1>3, <1>4, <1>5, <1>6, <1>7, <1>8, <1>9, <1>10,
     <1>11, <1>12, <1>13, <1>14, <1>15, <1>16, <1>17, <1>18, <1>19, <1>20,
     <1>21, <1>22, <1>23, <1>24
  DEF Next, ClientStep, HandlerStep, PublishStep

\* The types and the session index, as one invariant for the proofs below to use.
LEMMA InvariantsHold == Spec => [](TypeOK /\ IndexInv)
<1>1. Init => IndexInv
  BY DEF Init, IndexInv, SessionTypes, SessionIndex
<1>2. Init => TypeOK
  <2> SUFFICES ASSUME Init PROVE TypeOK
    OBVIOUS
  <2>1. <<>> \in Seq(Entries) /\ <<>> \in Seq(Nat) /\ Len(<<>>) = 0
    OBVIOUS
  <2>2. SessionTypes
    BY <1>1 DEF IndexInv
  <2> QED
    BY <2>1, <2>2, NoFrameTyped, IdleTyped, BoundsAssumption DEF Init, TypeOK
<1> QED
  BY <1>1, <1>2, IndexStep, TypeStep, PTL DEF Spec

\* Every variable of the handler keeps its type, a topic's replay cache its
\* length and a Publish call its counter.
THEOREM HandlerTypeCorrect == Spec => []TypeOK
BY InvariantsHold, PTL

-----------------------------------------------------------------------------
\* Every action keeps what is recorded served.
LEMMA ServeStep == TypeOK /\ IndexInv /\ ServeInv /\ [Next]_vars => ServeInv'
<1> SUFFICES ASSUME TypeOK, IndexInv, ServeInv, [Next]_vars PROVE ServeInv'
  OBVIOUS
<1>0. /\ subs \in [Topics -> SUBSET Conns] /\ stopics \in [Tokens -> SUBSET Topics]
      /\ pub \in [Publishers -> PublishCalls] /\ failed \subseteq Conns
  BY DEF TypeOK
<1> USE <1>0, NoTokenAssumption, NoConnAssumption
    DEF IndexInv, SessionTypes, SessionIndex, ServeInv, RecordedTopicIsServed,
        sessVars, topicVars, hndVars, pubVars, histVars
<1>1. ASSUME NEW c \in Conns, Connect(c) PROVE ServeInv'
  BY <1>1 DEF Connect
<1>2. ASSUME NEW c \in Conns, HangUp(c) PROVE ServeInv'
  BY <1>2 DEF HangUp
<1>3. ASSUME NEW c \in Conns, RecvRefused(c) PROVE ServeInv'
  BY <1>3 DEF RecvRefused, Receives
<1>4. ASSUME NEW c \in Conns, RecvOther(c) PROVE ServeInv'
  BY <1>4 DEF RecvOther, Receives
<1>5. ASSUME NEW c \in Conns, NEW t \in live \cup {NoToken}, NEW k \in Cursors,
            RecvHello(c, t, k)
     PROVE  ServeInv'
  BY <1>5 DEF RecvHello, Receives
<1>6. ASSUME NEW c \in Conns, NEW x \in Topics, NEW v \in {"subscribe", "unsubscribe"},
            RecvSubscribe(c, x, v)
     PROVE  ServeInv'
  BY <1>6 DEF RecvSubscribe, Receives
<1>7. ASSUME NEW c \in Conns, AttachResume(c) PROVE ServeInv'
  <2> DEFINE t == harg[c].token
  <2>1. t \in live /\ connTok[c] = NoToken
    BY <1>7 DEF AttachResume, Resumable
  <2>2. /\ subs' = [x \in Topics |-> IF x \in stopics[t]
                                    THEN (subs[x] \ {sconn[t]}) \cup {c} ELSE subs[x]]
        /\ sconn' = [sconn EXCEPT ![t] = c]
        /\ UNCHANGED <<live, stopics, pub, failed>>
    BY <1>7 DEF AttachResume, Resumable
  <2>3. \A u \in live : u # t => sconn'[u] = sconn[u] /\ sconn[u] # sconn[t]
    BY <2>1, <2>2
  <2>4. ASSUME NEW u \in live, NEW x \in stopics[u] PROVE sconn'[u] \in subs'[x] \cup failed'
    <3>0. x \in Topics /\ sconn[u] \in subs[x] \cup failed
      BY <2>4
    <3>1. CASE u = t
      BY <2>1, <2>2, <3>0, <3>1
    <3>2. CASE u # t
      BY <2>2, <2>3, <3>0, <3>2
    <3> QED
      BY <3>1, <3>2
  <2> QED
    BY <2>2, <2>4
<1>8. ASSUME NEW c \in Conns, NEW t \in Tokens, AttachFresh(c, t) PROVE ServeInv'
  <2>1. live' = live \cup {t} /\ t \notin live /\ sconn' = [sconn EXCEPT ![t] = c]
        /\ UNCHANGED <<stopics, subs, pub, failed>>
    BY <1>8 DEF AttachFresh
  <2> QED
    BY <2>1
<1>9. ASSUME NEW c \in Conns, ReplayWrite(c) PROVE ServeInv'
  BY <1>9 DEF ReplayWrite
<1>10. ASSUME NEW c \in Conns, ReplayDone(c) PROVE ServeInv'
  BY <1>10 DEF ReplayDone
<1>11. ASSUME NEW c \in Conns, Subscribe(c) PROVE ServeInv'
  <2>1. UNCHANGED <<live, sconn, pub, failed>> /\ stopics' = Recorded(c, harg[c].topic, "subscribe")
    BY <1>11 DEF Subscribe
  <2> DEFINE z == harg[c].topic
  <2>2. z \in Topics /\ subs' = [subs EXCEPT ![z] = @ \cup {c}]
    BY <1>11 DEF Subscribe, TypeOK
  <2>3. ASSUME NEW t \in live, NEW x \in stopics'[t] PROVE sconn[t] \in subs'[x] \cup failed
    <3>1. x \in stopics[t] \/ (t = connTok[c] /\ x = z)
      BY <2>1, <2>3 DEF Recorded
    <3>2. CASE x \in stopics[t]
      BY <2>2, <3>2
    <3>3. CASE t = connTok[c] /\ x = z
      BY <2>2, <3>3
    <3> QED
      BY <3>1, <3>2, <3>3
  <2>4. \A t \in Tokens \ live : stopics'[t] = {}
    BY <2>1 DEF Recorded
  <2> QED
    BY <2>1, <2>3, <2>4
<1>12. ASSUME NEW c \in Conns, Unsubscribe(c) PROVE ServeInv'
  <2>1. UNCHANGED <<live, sconn, pub, failed>> /\ stopics' = Recorded(c, harg[c].topic, "unsubscribe")
    BY <1>12 DEF Unsubscribe
  <2> DEFINE z == harg[c].topic
  <2>2. z \in Topics /\ subs' = [subs EXCEPT ![z] = @ \ {c}]
    BY <1>12 DEF Unsubscribe, TypeOK
  <2>3. ASSUME NEW t \in live, NEW x \in stopics'[t] PROVE sconn[t] \in subs'[x] \cup failed
    <3>1. x \in stopics[t] /\ (t = connTok[c] => x # z)
      BY <2>1, <2>3 DEF Recorded
    <3>2. x = z => sconn[t] # c
      BY <3>1
    <3> QED
      BY <2>2, <3>1, <3>2
  <2>4. \A t \in Tokens \ live : stopics'[t] = {}
    BY <2>1 DEF Recorded
  <2> QED
    BY <2>1, <2>3, <2>4
<1>13. ASSUME NEW t \in Tokens, Expire(t) PROVE ServeInv'
  BY <1>13 DEF Expire
<1>14. CASE Reap
  <2> DEFINE dead == stale \cap live
  <2>1. /\ live' = live \ dead /\ UNCHANGED <<pub, failed>>
        /\ sconn' = [t \in Tokens |-> IF t \in dead THEN NoConn ELSE sconn[t]]
        /\ stopics' = [t \in Tokens |-> IF t \in dead THEN {} ELSE stopics[t]]
        /\ subs' = ReapedMembers
    BY <1>14 DEF Reap
  <2>2. \A t \in live', u \in dead : sconn[t] # sconn[u]
    BY <2>1
  <2>3. ASSUME NEW t \in live', NEW x \in stopics'[t] PROVE sconn'[t] \in subs'[x] \cup failed'
    <3>1. x \in stopics[t] /\ x \in Topics /\ sconn'[t] = sconn[t] /\ sconn[t] \in subs[x] \cup failed
      BY <2>1, <2>3
    <3>2. \A u \in {v \in stale \cap live : x \in stopics[v]} : sconn[u] # sconn[t]
      BY <2>2
    <3> QED
      BY <2>1, <3>1, <3>2 DEF ReapedMembers
  <2>4. \A t \in Tokens \ live' : stopics'[t] = {}
    BY <2>1
  <2> QED
    BY <2>1, <2>3, <2>4
<1>15. ASSUME NEW p \in Publishers, NEW x \in Topics, PubSnapshot(p, x) PROVE ServeInv'
  <2>1. \A q \in Publishers : pub'[q].pc = "drop" => pub[q].pc = "drop" /\ pub'[q].cur = pub[q].cur
    BY <1>15 DEF PubSnapshot, PublishCalls, Idle
  <2> QED
    BY <1>15, <2>1 DEF PubSnapshot
<1>16. ASSUME NEW p \in Publishers, PubMint(p) PROVE ServeInv'
  <2>1. \A q \in Publishers : pub'[q].pc = "drop" => pub[q].pc = "drop" /\ pub'[q].cur = pub[q].cur
    BY <1>16 DEF PubMint, PublishCalls, Idle
  <2> QED
    BY <1>16, <2>1 DEF PubMint
<1>17. ASSUME NEW p \in Publishers, PubAdd(p) PROVE ServeInv'
  <2>1. \A q \in Publishers : pub'[q].pc = "drop" => pub[q].pc = "drop" /\ pub'[q].cur = pub[q].cur
    BY <1>17 DEF PubAdd, PublishCalls, Idle
  <2> QED
    BY <1>17, <2>1 DEF PubAdd
<1>18. ASSUME NEW p \in Publishers, NEW z \in Sizes, PubRemember(p, z) PROVE ServeInv'
  <2>1. \A q \in Publishers : pub'[q].pc = "drop" => pub[q].pc = "drop" /\ pub'[q].cur = pub[q].cur
    BY <1>18 DEF PubRemember, PublishCalls, Idle
  <2> QED
    BY <1>18, <2>1 DEF PubRemember
<1>19. ASSUME NEW p \in Publishers, PubTooLarge(p) PROVE ServeInv'
  <2>1. \A q \in Publishers : pub'[q].pc = "drop" => pub[q].pc = "drop" /\ pub'[q].cur = pub[q].cur
    BY <1>19 DEF PubTooLarge, PublishCalls, Idle
  <2> QED
    BY <1>19, <2>1 DEF PubTooLarge
<1>20. ASSUME NEW p \in Publishers, NEW c \in Conns, PubWrite(p, c) PROVE ServeInv'
  <2>1. \A q \in Publishers : pub'[q].pc = "drop" => pub[q].pc = "drop" /\ pub'[q].cur = pub[q].cur
    BY <1>20 DEF PubWrite, PublishCalls, Idle
  <2> QED
    BY <1>20, <2>1 DEF PubWrite
<1>21. ASSUME NEW p \in Publishers, NEW c \in Conns,
            PubWriteFails(p, c)
     PROVE  ServeInv'
  <2>1. /\ failed' = failed \cup {c} /\ UNCHANGED <<live, sconn, stopics, subs>>
        /\ pub'[p].cur = c /\ \A q \in Publishers \ {p} : pub'[q] = pub[q]
    BY <1>21 DEF PubWriteFails, PublishCalls
  <2> QED
    BY <2>1
<1>22. ASSUME NEW p \in Publishers, PubDrop(p) PROVE ServeInv'
  <2>1. /\ subs' = [subs EXCEPT ![pub[p].topic] = @ \ {pub[p].cur}] /\ pub[p].cur \in failed
        /\ UNCHANGED <<live, sconn, stopics, failed>>
    BY <1>22 DEF PubDrop, WithoutFailed
  <2>2. pub'[p].pc = "write" /\ \A q \in Publishers \ {p} : pub'[q] = pub[q]
    BY <1>22 DEF PubDrop, PublishCalls
  <2>3. \A t \in live, x \in Topics : sconn[t] \in subs[x] \cup failed => sconn[t] \in subs'[x] \cup failed
    BY <2>1
  <2> QED
    BY <2>1, <2>2, <2>3
<1>23. ASSUME NEW p \in Publishers, PubDone(p) PROVE ServeInv'
  <2>1. \A q \in Publishers : pub'[q].pc = "drop" => pub[q].pc = "drop" /\ pub'[q].cur = pub[q].cur
    BY <1>23 DEF PubDone, PublishCalls, Idle
  <2> QED
    BY <1>23, <2>1 DEF PubDone
<1>24. CASE UNCHANGED vars
  BY <1>24 DEF vars
<1> QED
  BY <1>1, <1>2, <1>3, <1>4, <1>5, <1>6, <1>7, <1>8, <1>9, <1>10,
     <1>11, <1>12, <1>13, <1>14, <1>15, <1>16, <1>17, <1>18, <1>19, <1>20,
     <1>21, <1>22, <1>23, <1>24
  DEF Next, ClientStep, HandlerStep, PublishStep

\* A topic a session records is served on the session's transport unless a
\* publish failed on it: resumes, removals, sweeps and failing writes of others
\* leave it there.
THEOREM RecordedServed == Spec => []RecordedTopicIsServed
<1>1. Init => ServeInv
  BY IdleTyped DEF Init, ServeInv, RecordedTopicIsServed
<1>2. ServeInv => RecordedTopicIsServed
  BY DEF ServeInv
<1> QED
  BY <1>1, <1>2, ServeStep, InvariantsHold, PTL DEF Spec

-----------------------------------------------------------------------------
\* A step that starts no publish and caches none keeps the numbering.
LEMMA NumberKeeps ==
  ASSUME TypeOK, NumberInv, npub' = npub,
         \A x \in Topics : cache'[x] \in {cache[x], <<>>},
         \A q \in Publishers : pub'[q].pc = "idle" => pub'[q].members = {},
         \A q \in Publishers : pub'[q].pc # "idle" =>
           pub[q].pc # "idle" /\ pub'[q].id = pub[q].id,
         \A q \in Publishers : pub'[q].pc \in {"mint", "add", "remember"} =>
           pub[q].pc \in {"mint", "add", "remember"}
  PROVE  NumberInv'
<1>1. \A x \in Topics : \A i \in DOMAIN cache'[x] :
        i \in DOMAIN cache[x] /\ cache'[x][i] = cache[x][i]
  <2>1. DOMAIN <<>> = {}
    OBVIOUS
  <2> QED
    BY <2>1
<1> QED
  BY <1>1 DEF NumberInv

\* Every action keeps the numbering: PubSnapshot takes the next number and
\* PubRemember caches a call that was not cached yet.
LEMMA NumberStep == TypeOK /\ NumberInv /\ [Next]_vars => NumberInv'
<1> SUFFICES ASSUME TypeOK, NumberInv, [Next]_vars PROVE NumberInv'
  OBVIOUS
<1>0. pub \in [Publishers -> PublishCalls] /\ npub \in Nat
  BY DEF TypeOK
<1>00. UNCHANGED <<npub, cache, pub>> => NumberInv'
  BY DEF NumberInv
<1> USE <1>0, <1>00 DEF sessVars, topicVars, hndVars, pubVars, histVars
<1>1. ASSUME NEW c \in Conns, Connect(c) PROVE NumberInv'
  BY <1>1 DEF Connect
<1>2. ASSUME NEW c \in Conns, HangUp(c) PROVE NumberInv'
  BY <1>2 DEF HangUp
<1>3. ASSUME NEW c \in Conns, RecvRefused(c) PROVE NumberInv'
  BY <1>3 DEF RecvRefused, Receives
<1>4. ASSUME NEW c \in Conns, RecvOther(c) PROVE NumberInv'
  BY <1>4 DEF RecvOther, Receives
<1>5. ASSUME NEW c \in Conns, NEW t \in live \cup {NoToken}, NEW k \in Cursors,
            RecvHello(c, t, k)
     PROVE  NumberInv'
  BY <1>5 DEF RecvHello, Receives
<1>6. ASSUME NEW c \in Conns, NEW x \in Topics, NEW v \in {"subscribe", "unsubscribe"},
            RecvSubscribe(c, x, v)
     PROVE  NumberInv'
  BY <1>6 DEF RecvSubscribe, Receives
<1>7. ASSUME NEW c \in Conns, AttachResume(c) PROVE NumberInv'
  BY <1>7 DEF AttachResume, Resumable
<1>8. ASSUME NEW c \in Conns, NEW t \in Tokens, AttachFresh(c, t) PROVE NumberInv'
  BY <1>8 DEF AttachFresh
<1>9. ASSUME NEW c \in Conns, ReplayWrite(c) PROVE NumberInv'
  BY <1>9 DEF ReplayWrite
<1>10. ASSUME NEW c \in Conns, ReplayDone(c) PROVE NumberInv'
  BY <1>10 DEF ReplayDone
<1>11. ASSUME NEW c \in Conns, Subscribe(c) PROVE NumberInv'
  BY <1>11 DEF Subscribe
<1>12. ASSUME NEW c \in Conns, Unsubscribe(c) PROVE NumberInv'
  <2>1. /\ \A q \in Publishers : pub'[q].pc = "idle" => pub'[q].members = {}
        /\ \A q \in Publishers : pub'[q].pc # "idle" =>
             pub[q].pc # "idle" /\ pub'[q].id = pub[q].id
        /\ \A q \in Publishers : pub'[q].pc \in {"mint", "add", "remember"} =>
             pub[q].pc \in {"mint", "add", "remember"}
    BY <1>12 DEF Unsubscribe, PublishCalls, Idle, NumberInv
  <2>2. npub' = npub /\ \A x \in Topics : cache'[x] \in {cache[x], <<>>}
    BY <1>12, DropKeeps DEF Unsubscribe
  <2> QED
    BY <2>1, <2>2, NumberKeeps
<1>13. ASSUME NEW t \in Tokens, Expire(t) PROVE NumberInv'
  BY <1>13 DEF Expire
<1>14. CASE Reap
  <2>1. /\ \A q \in Publishers : pub'[q].pc = "idle" => pub'[q].members = {}
        /\ \A q \in Publishers : pub'[q].pc # "idle" =>
             pub[q].pc # "idle" /\ pub'[q].id = pub[q].id
        /\ \A q \in Publishers : pub'[q].pc \in {"mint", "add", "remember"} =>
             pub[q].pc \in {"mint", "add", "remember"}
    BY <1>14 DEF Reap, PublishCalls, Idle, NumberInv
  <2>2. npub' = npub /\ \A x \in Topics : cache'[x] \in {cache[x], <<>>}
    BY <1>14, DropKeeps DEF Reap
  <2> QED
    BY <2>1, <2>2, NumberKeeps
<1>15. ASSUME NEW p \in Publishers, NEW x \in Topics,
            PubSnapshot(p, x)
     PROVE  NumberInv'
  <2>1. npub' = npub + 1 /\ cache' = cache
    BY <1>15 DEF PubSnapshot
  <2>2. /\ pub'[p].pc = "mint" /\ pub'[p].id = npub + 1
        /\ \A q \in Publishers \ {p} : pub'[q] = pub[q]
    BY <1>15 DEF PubSnapshot, PublishCalls, Idle
  <2> QED
    BY <2>1, <2>2 DEF NumberInv
<1>16. ASSUME NEW p \in Publishers, PubMint(p) PROVE NumberInv'
  <2>1. /\ \A q \in Publishers : pub'[q].pc = "idle" => pub'[q].members = {}
        /\ \A q \in Publishers : pub'[q].pc # "idle" =>
             pub[q].pc # "idle" /\ pub'[q].id = pub[q].id
        /\ \A q \in Publishers : pub'[q].pc \in {"mint", "add", "remember"} =>
             pub[q].pc \in {"mint", "add", "remember"}
    BY <1>16 DEF PubMint, PublishCalls, Idle, NumberInv
  <2>2. npub' = npub /\ \A x \in Topics : cache'[x] \in {cache[x], <<>>}
    BY <1>16, DropKeeps DEF PubMint
  <2> QED
    BY <2>1, <2>2, NumberKeeps
<1>17. ASSUME NEW p \in Publishers, PubAdd(p) PROVE NumberInv'
  <2>1. /\ \A q \in Publishers : pub'[q].pc = "idle" => pub'[q].members = {}
        /\ \A q \in Publishers : pub'[q].pc # "idle" =>
             pub[q].pc # "idle" /\ pub'[q].id = pub[q].id
        /\ \A q \in Publishers : pub'[q].pc \in {"mint", "add", "remember"} =>
             pub[q].pc \in {"mint", "add", "remember"}
    BY <1>17 DEF PubAdd, PublishCalls, Idle, NumberInv
  <2>2. npub' = npub /\ \A x \in Topics : cache'[x] \in {cache[x], <<>>}
    BY <1>17, DropKeeps DEF PubAdd
  <2> QED
    BY <2>1, <2>2, NumberKeeps
<1>18. ASSUME NEW p \in Publishers, NEW z \in Sizes, PubRemember(p, z) PROVE NumberInv'
  <2> DEFINE x == pub[p].topic
             e == Entry(p, z)
             grown == [cache EXCEPT ![x] = Append(cache[x], e)]
  <2>1. /\ npub' = npub /\ Remember(x, e) /\ x \in Topics /\ e \in Entries
        /\ pub[p].pc = "remember" /\ e.id = pub[p].id
    BY <1>18, BoundsAssumption DEF PubRemember, TypeOK, Entry, Entries, PublishCalls
  <2>2. /\ pub'[p].pc = "write" /\ pub'[p].id = pub[p].id
        /\ \A q \in Publishers \ {p} : pub'[q] = pub[q]
    BY <1>18 DEF PubRemember, PublishCalls
  <2> HIDE DEF e
  <2>3. /\ cache' \in [Topics -> Seq(Entries)]
        /\ \A y \in Topics : cache'[y] \in {grown[y], Tail(grown[y]), <<>>}
    BY <2>1, RememberKeeps
  <2>4. /\ cache \in [Topics -> Seq(Entries)] /\ grown[x] = Append(cache[x], e)
        /\ \A y \in Topics \ {x} : grown[y] = cache[y]
    BY <2>1 DEF TypeOK
  <2>5. /\ \A y \in Topics : grown[y] \in Seq(Entries)
        /\ \A i \in DOMAIN grown[x] : (i \in DOMAIN cache[x] /\ grown[x][i] = cache[x][i])
                                      \/ (i = Len(cache[x]) + 1 /\ grown[x][i] = e)
    BY <2>1, <2>4
  <2>6. \A y \in Topics, v \in Topics : \A i \in DOMAIN grown[y], j \in DOMAIN grown[v] :
          grown[y][i].id = grown[v][j].id => y = v /\ i = j
    <3>1. \A y \in Topics : \A i \in DOMAIN cache[y] : cache[y][i].id # e.id
      BY <2>1 DEF NumberInv
    <3>2. \A y \in Topics : \A i \in DOMAIN grown[y] :
            (i \in DOMAIN cache[y] /\ grown[y][i] = cache[y][i])
            \/ (y = x /\ i = Len(cache[x]) + 1 /\ grown[y][i] = e)
      BY <2>4, <2>5
    <3>3. \A y \in Topics, v \in Topics : \A i \in DOMAIN cache[y], j \in DOMAIN cache[v] :
            cache[y][i].id = cache[v][j].id => y = v /\ i = j
      BY DEF NumberInv
    <3> HIDE DEF grown
    <3> QED
      BY <3>1, <3>2, <3>3
  <2>7. \A y \in Topics : \A i \in DOMAIN grown[y] :
          grown[y][i].id \in 1 .. npub /\ \A q \in Publishers \ {p} :
             pub[q].pc \in {"mint", "add", "remember"} => grown[y][i].id # pub[q].id
    <3>1. e.id \in 1 .. npub /\ \A q \in Publishers \ {p} :
             pub[q].pc \in {"mint", "add", "remember"} => e.id # pub[q].id
      BY <2>1 DEF NumberInv
    <3>2. \A y \in Topics : \A i \in DOMAIN grown[y] :
            (i \in DOMAIN cache[y] /\ grown[y][i] = cache[y][i]) \/ grown[y][i] = e
      BY <2>4, <2>5
    <3>3. \A y \in Topics : \A i \in DOMAIN cache[y] :
            cache[y][i].id \in 1 .. npub /\ \A q \in Publishers \ {p} :
             pub[q].pc \in {"mint", "add", "remember"} => cache[y][i].id # pub[q].id
      BY DEF NumberInv
    <3> HIDE DEF grown
    <3> QED
      BY <3>1, <3>2, <3>3
  <2> HIDE DEF grown
  <2>8. \A y \in Topics : \E k \in {0, 1} : \A i \in DOMAIN cache'[y] :
          i + k \in DOMAIN grown[y] /\ cache'[y][i] = grown[y][i + k] /\ i \in Nat
    <3> SUFFICES ASSUME NEW y \in Topics
                 PROVE  \E k \in {0, 1} : \A i \in DOMAIN cache'[y] :
                     i + k \in DOMAIN grown[y] /\ cache'[y][i] = grown[y][i + k] /\ i \in Nat
      OBVIOUS
    <3>0. grown[y] \in Seq(Entries) /\ cache'[y] \in {grown[y], Tail(grown[y]), <<>>}
      BY <2>3, <2>5
    <3>1. CASE cache'[y] = grown[y]
      <4>1. \A i \in DOMAIN cache'[y] :
              i + 0 \in DOMAIN grown[y] /\ cache'[y][i] = grown[y][i + 0] /\ i \in Nat
        BY <3>0, <3>1
      <4> QED
        BY <4>1
    <3>2. CASE cache'[y] = Tail(grown[y]) /\ grown[y] # <<>>
      <4>1. \A i \in DOMAIN cache'[y] :
              i + 1 \in DOMAIN grown[y] /\ cache'[y][i] = grown[y][i + 1] /\ i \in Nat
        BY <3>0, <3>2
      <4> QED
        BY <4>1
    <3>3. CASE cache'[y] = <<>>
      <4>1. DOMAIN cache'[y] = {}
        BY <3>3
      <4> QED
        BY <4>1
    <3>4. CASE cache'[y] = Tail(grown[y]) /\ grown[y] = <<>>
      <4>1. cache'[y] \in Seq(Entries) /\ Len(cache'[y]) = 0
        BY <2>3, <3>4
      <4>2. DOMAIN cache'[y] = {}
        BY <4>1
      <4> QED
        BY <4>2
    <3> QED
      BY <3>0, <3>1, <3>2, <3>3, <3>4
  <2>9. \A y \in Topics : \A i \in DOMAIN cache'[y] : cache'[y][i].id \in 1 .. npub'
          /\ \A q \in Publishers \ {p} :
             pub[q].pc \in {"mint", "add", "remember"} => cache'[y][i].id # pub[q].id
    BY <2>1, <2>7, <2>8
  <2>10. \A y \in Topics, v \in Topics : \A i \in DOMAIN cache'[y], j \in DOMAIN cache'[v] :
           cache'[y][i].id = cache'[v][j].id => y = v /\ i = j
    <3> SUFFICES ASSUME NEW y \in Topics, NEW v \in Topics, NEW i \in DOMAIN cache'[y],
                        NEW j \in DOMAIN cache'[v], cache'[y][i].id = cache'[v][j].id
                 PROVE  y = v /\ i = j
      OBVIOUS
    <3>1. PICK k \in {0, 1} : \A a \in DOMAIN cache'[y] :
            a + k \in DOMAIN grown[y] /\ cache'[y][a] = grown[y][a + k] /\ a \in Nat
      BY <2>8
    <3>2. PICK l \in {0, 1} : \A a \in DOMAIN cache'[v] :
            a + l \in DOMAIN grown[v] /\ cache'[v][a] = grown[v][a + l] /\ a \in Nat
      BY <2>8
    <3>3. y = v /\ i + k = j + l
      BY <2>6, <3>1, <3>2
    <3>4. j + k \in DOMAIN grown[y] /\ cache'[y][j] = grown[y][j + k] /\ j \in Nat /\ i \in Nat
      BY <3>1, <3>3
    <3>5. grown[y][i + k].id = grown[y][j + k].id
      BY <3>1, <3>3, <3>4
    <3>6. i + k = j + k
      BY <2>6, <3>1, <3>4, <3>5
    <3> QED
      BY <3>3, <3>4, <3>6
  <2>11. \A q \in Publishers : pub'[q].pc # "idle" => pub[q].pc # "idle" /\ pub'[q].id = pub[q].id
    BY <2>1, <2>2
  <2>12. /\ \A q \in Publishers : pub'[q].pc # "idle" => pub'[q].id \in 1 .. npub'
         /\ \A q, u \in Publishers : pub'[q].pc # "idle" /\ pub'[u].pc # "idle"
                                      /\ pub'[q].id = pub'[u].id => q = u
         /\ \A q \in Publishers : pub'[q].pc = "idle" => pub'[q].members = {}
    BY <2>1, <2>2, <2>11 DEF NumberInv
  <2>13. \A q \in Publishers : pub'[q].pc \in {"mint", "add", "remember"} =>
           \A y \in Topics : \A i \in DOMAIN cache'[y] : cache'[y][i].id # pub'[q].id
    BY <2>2, <2>9
  <2> QED
    BY <2>9, <2>10, <2>12, <2>13 DEF NumberInv
<1>19. ASSUME NEW p \in Publishers, PubTooLarge(p) PROVE NumberInv'
  <2>1. /\ \A q \in Publishers : pub'[q].pc = "idle" => pub'[q].members = {}
        /\ \A q \in Publishers : pub'[q].pc # "idle" =>
             pub[q].pc # "idle" /\ pub'[q].id = pub[q].id
        /\ \A q \in Publishers : pub'[q].pc \in {"mint", "add", "remember"} =>
             pub[q].pc \in {"mint", "add", "remember"}
    BY <1>19 DEF PubTooLarge, PublishCalls, Idle, NumberInv
  <2>2. npub' = npub /\ \A x \in Topics : cache'[x] \in {cache[x], <<>>}
    BY <1>19, DropKeeps DEF PubTooLarge
  <2> QED
    BY <2>1, <2>2, NumberKeeps
<1>20. ASSUME NEW p \in Publishers, NEW c \in Conns, PubWrite(p, c) PROVE NumberInv'
  <2>1. /\ \A q \in Publishers : pub'[q].pc = "idle" => pub'[q].members = {}
        /\ \A q \in Publishers : pub'[q].pc # "idle" =>
             pub[q].pc # "idle" /\ pub'[q].id = pub[q].id
        /\ \A q \in Publishers : pub'[q].pc \in {"mint", "add", "remember"} =>
             pub[q].pc \in {"mint", "add", "remember"}
    BY <1>20 DEF PubWrite, PublishCalls, Idle, NumberInv
  <2>2. npub' = npub /\ \A x \in Topics : cache'[x] \in {cache[x], <<>>}
    BY <1>20, DropKeeps DEF PubWrite
  <2> QED
    BY <2>1, <2>2, NumberKeeps
<1>21. ASSUME NEW p \in Publishers, NEW c \in Conns,
            PubWriteFails(p, c)
     PROVE  NumberInv'
  <2>1. /\ \A q \in Publishers : pub'[q].pc = "idle" => pub'[q].members = {}
        /\ \A q \in Publishers : pub'[q].pc # "idle" =>
             pub[q].pc # "idle" /\ pub'[q].id = pub[q].id
        /\ \A q \in Publishers : pub'[q].pc \in {"mint", "add", "remember"} =>
             pub[q].pc \in {"mint", "add", "remember"}
    BY <1>21 DEF PubWriteFails, PublishCalls, Idle, NumberInv
  <2>2. npub' = npub /\ \A x \in Topics : cache'[x] \in {cache[x], <<>>}
    BY <1>21, DropKeeps DEF PubWriteFails
  <2> QED
    BY <2>1, <2>2, NumberKeeps
<1>22. ASSUME NEW p \in Publishers, PubDrop(p) PROVE NumberInv'
  <2>1. /\ \A q \in Publishers : pub'[q].pc = "idle" => pub'[q].members = {}
        /\ \A q \in Publishers : pub'[q].pc # "idle" =>
             pub[q].pc # "idle" /\ pub'[q].id = pub[q].id
        /\ \A q \in Publishers : pub'[q].pc \in {"mint", "add", "remember"} =>
             pub[q].pc \in {"mint", "add", "remember"}
    BY <1>22 DEF PubDrop, PublishCalls, Idle, NumberInv
  <2>2. npub' = npub /\ \A x \in Topics : cache'[x] \in {cache[x], <<>>}
    BY <1>22, DropKeeps DEF PubDrop
  <2> QED
    BY <2>1, <2>2, NumberKeeps
<1>23. ASSUME NEW p \in Publishers, PubDone(p) PROVE NumberInv'
  <2>1. /\ \A q \in Publishers : pub'[q].pc = "idle" => pub'[q].members = {}
        /\ \A q \in Publishers : pub'[q].pc # "idle" =>
             pub[q].pc # "idle" /\ pub'[q].id = pub[q].id
        /\ \A q \in Publishers : pub'[q].pc \in {"mint", "add", "remember"} =>
             pub[q].pc \in {"mint", "add", "remember"}
    BY <1>23 DEF PubDone, PublishCalls, Idle, NumberInv
  <2>2. npub' = npub /\ \A x \in Topics : cache'[x] \in {cache[x], <<>>}
    BY <1>23, DropKeeps DEF PubDone
  <2> QED
    BY <2>1, <2>2, NumberKeeps
<1>24. CASE UNCHANGED vars
  BY <1>24 DEF vars
<1> QED
  BY <1>1, <1>2, <1>3, <1>4, <1>5, <1>6, <1>7, <1>8, <1>9, <1>10,
     <1>11, <1>12, <1>13, <1>14, <1>15, <1>16, <1>17, <1>18, <1>19, <1>20,
     <1>21, <1>22, <1>23, <1>24
  DEF Next, ClientStep, HandlerStep, PublishStep

-----------------------------------------------------------------------------
\* Two equal pairs have equal parts: collectReplay's topic and place in its ring.
LEMMA PairEqual ==
  ASSUME NEW A, NEW B, NEW u \in A \X B, NEW v \in A \X B, u[1] = v[1], u[2] = v[2]
  PROVE  u = v
OBVIOUS

\* A replay holds every cached publish at most once.
LEMMA ReplayDistinct ==
  ASSUME TypeOK, NumberInv, NEW X \in SUBSET Topics, NEW k \in [Topics -> Nat],
         NEW r \in CollectReplay(X, k)
  PROVE  /\ \A n \in DOMAIN r : r[n].id \in 1 .. npub
         /\ \A n, m \in DOMAIN r : r[n].id = r[m].id => n = m
<1>1. PICK f : \A n \in DOMAIN r :
            /\ f[n] \in Topics \X (1 .. CacheSize)
            /\ f[n][2] \in DOMAIN cache[f[n][1]]
            /\ r[n] = cache[f[n][1]][f[n][2]]
            /\ \A m \in DOMAIN r : f[m] = f[n] => m = n
  BY CollectTakesEachOnce
<1>2. \A n \in DOMAIN r : f[n][1] \in Topics
  BY <1>1
<1>3. \A n \in DOMAIN r : r[n].id \in 1 .. npub
  BY <1>1, <1>2 DEF NumberInv
<1>4. ASSUME NEW n \in DOMAIN r, NEW m \in DOMAIN r, r[n].id = r[m].id PROVE n = m
  <2>1. f[n] \in Topics \X (1 .. CacheSize) /\ f[m] \in Topics \X (1 .. CacheSize)
    BY <1>1
  <2>2. f[n][1] = f[m][1] /\ f[n][2] = f[m][2]
    BY <1>1, <1>2, <1>4 DEF NumberInv
  <2>3. f[n] = f[m]
    BY <2>1, <2>2, PairEqual
  <2> QED
    BY <1>1, <2>3
<1> QED
  BY <1>3, <1>4

\* A connection that nothing is written to and no publish joins.
LEMMA ApartKeeps ==
  ASSUME NEW d \in Conns, Apart(d), npub \in Nat, npub' \in Nat, npub' >= npub,
         wire'[d] = wire[d], replay'[d] \in {replay[d], <<>>},
         \A q \in Publishers : d \in pub'[q].members =>
           d \in pub[q].members /\ pub'[q].id = pub[q].id
  PROVE  Apart(d)'
<1>1. DOMAIN <<>> = {}
  OBVIOUS
<1>2. \A i \in DOMAIN replay'[d] : i \in DOMAIN replay[d] /\ replay'[d][i] = replay[d][i]
  BY <1>1
<1>3. 1 .. npub \subseteq 1 .. npub'
  OBVIOUS
<1> QED
  BY <1>2, <1>3 DEF Apart

\* A step that writes nothing, collects no replay and starts no publish keeps
\* the deliveries apart when nobody joins a member set before its handshake.
LEMMA DeliverKeeps ==
  ASSUME DeliverInv, npub \in Nat, npub' \in Nat, npub' >= npub, wire' = wire,
         \A d \in Conns : replay'[d] \in {replay[d], <<>>},
         \A d \in Conns : d \notin greeted' => hpc'[d] = "idle",
         \A d \in Conns : ~Joined(d)' => ~Joined(d) /\ \A x \in Topics : d \notin subs'[x],
         \A q \in Publishers : \A d \in pub'[q].members :
           d \in Conns /\ d \in pub[q].members /\ pub'[q].id = pub[q].id
  PROVE  DeliverInv'
<1>1. \A d \in Conns : ~Joined(d)' =>
        /\ wire'[d] = <<>> /\ replay'[d] = <<>>
        /\ \A x \in Topics : d \notin subs'[x]
        /\ \A p \in Publishers : d \notin pub'[p].members
  BY DEF DeliverInv
<1>2. ASSUME NEW d \in Conns PROVE Apart(d)'
  <2>1. Apart(d)
    BY DEF DeliverInv
  <2> QED
    BY <2>1, ApartKeeps
<1> QED
  BY <1>1, <1>2 DEF DeliverInv

\* Every action keeps the deliveries of a connection apart.
LEMMA DeliverStep ==
  HelloFirst /\ TypeOK /\ NumberInv /\ DeliverInv /\ [Next]_vars => DeliverInv'
<1> SUFFICES ASSUME HelloFirst, TypeOK, NumberInv, DeliverInv, [Next]_vars
             PROVE  DeliverInv'
  OBVIOUS
<1>0. /\ pub \in [Publishers -> PublishCalls] /\ npub \in Nat /\ subs \in [Topics -> SUBSET Conns]
      /\ replay \in [Conns -> Seq(Entries)] /\ wire \in [Conns -> Seq(Entries)]
      /\ hpc \in [Conns -> {"idle", "attach", "replay", "subscribe", "unsubscribe"}]
      /\ greeted \subseteq Conns
      /\ \A p \in Publishers : pub[p].members \subseteq Conns
  BY DEF TypeOK, SessionTypes, PublishCalls
<1>00. /\ \A d \in Conns : d \notin greeted => hpc[d] = "idle"
       /\ \A d \in Conns : ~Joined(d) => \A x \in Topics : d \notin subs[x]
  BY DEF DeliverInv
<1> USE <1>0, <1>00 DEF sessVars, topicVars, hndVars, pubVars, histVars
<1>1. ASSUME NEW c \in Conns, Connect(c) PROVE DeliverInv'
  <2>1. /\ npub' = npub /\ wire' = wire
        /\ \A d \in Conns : replay'[d] \in {replay[d], <<>>}
    BY <1>1 DEF Connect
  <2>2. \A d \in Conns : d \notin greeted' => hpc'[d] = "idle"
    BY <1>1 DEF Connect
  <2>3. \A d \in Conns : ~Joined(d)' => ~Joined(d) /\ \A x \in Topics : d \notin subs'[x]
    BY <1>1 DEF Connect, Joined
  <2>4. \A q \in Publishers : \A d \in pub'[q].members :
           d \in Conns /\ d \in pub[q].members /\ pub'[q].id = pub[q].id
    BY <1>1 DEF Connect, PublishCalls, Idle
  <2> QED
    BY <2>1, <2>2, <2>3, <2>4, DeliverKeeps
<1>2. ASSUME NEW c \in Conns, HangUp(c) PROVE DeliverInv'
  <2>1. /\ npub' = npub /\ wire' = wire
        /\ \A d \in Conns : replay'[d] \in {replay[d], <<>>}
    BY <1>2 DEF HangUp
  <2>2. \A d \in Conns : d \notin greeted' => hpc'[d] = "idle"
    BY <1>2 DEF HangUp
  <2>3. \A d \in Conns : ~Joined(d)' => ~Joined(d) /\ \A x \in Topics : d \notin subs'[x]
    BY <1>2 DEF HangUp, Joined
  <2>4. \A q \in Publishers : \A d \in pub'[q].members :
           d \in Conns /\ d \in pub[q].members /\ pub'[q].id = pub[q].id
    BY <1>2 DEF HangUp, PublishCalls, Idle
  <2> QED
    BY <2>1, <2>2, <2>3, <2>4, DeliverKeeps
<1>3. ASSUME NEW c \in Conns, RecvRefused(c) PROVE DeliverInv'
  <2>1. /\ npub' = npub /\ wire' = wire
        /\ \A d \in Conns : replay'[d] \in {replay[d], <<>>}
    BY <1>3 DEF RecvRefused, Receives
  <2>2. \A d \in Conns : d \notin greeted' => hpc'[d] = "idle"
    BY <1>3 DEF RecvRefused, Receives
  <2>3. \A d \in Conns : ~Joined(d)' => ~Joined(d) /\ \A x \in Topics : d \notin subs'[x]
    BY <1>3 DEF RecvRefused, Receives, Joined
  <2>4. \A q \in Publishers : \A d \in pub'[q].members :
           d \in Conns /\ d \in pub[q].members /\ pub'[q].id = pub[q].id
    BY <1>3 DEF RecvRefused, Receives, PublishCalls, Idle
  <2> QED
    BY <2>1, <2>2, <2>3, <2>4, DeliverKeeps
<1>4. ASSUME NEW c \in Conns, RecvOther(c) PROVE DeliverInv'
  <2>1. /\ npub' = npub /\ wire' = wire
        /\ \A d \in Conns : replay'[d] \in {replay[d], <<>>}
    BY <1>4 DEF RecvOther, Receives
  <2>2. \A d \in Conns : d \notin greeted' => hpc'[d] = "idle"
    BY <1>4 DEF RecvOther, Receives
  <2>3. \A d \in Conns : ~Joined(d)' => ~Joined(d) /\ \A x \in Topics : d \notin subs'[x]
    BY <1>4 DEF RecvOther, Receives, Joined
  <2>4. \A q \in Publishers : \A d \in pub'[q].members :
           d \in Conns /\ d \in pub[q].members /\ pub'[q].id = pub[q].id
    BY <1>4 DEF RecvOther, Receives, PublishCalls, Idle
  <2> QED
    BY <2>1, <2>2, <2>3, <2>4, DeliverKeeps
<1>5. ASSUME NEW c \in Conns, NEW t \in live \cup {NoToken}, NEW k \in Cursors,
            RecvHello(c, t, k)
     PROVE  DeliverInv'
  <2>1. /\ npub' = npub /\ wire' = wire
        /\ \A d \in Conns : replay'[d] \in {replay[d], <<>>}
    BY <1>5 DEF RecvHello, Receives
  <2>2. \A d \in Conns : d \notin greeted' => hpc'[d] = "idle"
    BY <1>5 DEF RecvHello, Receives
  <2>3. \A d \in Conns : ~Joined(d)' => ~Joined(d) /\ \A x \in Topics : d \notin subs'[x]
    BY <1>5 DEF RecvHello, Receives, Joined
  <2>4. \A q \in Publishers : \A d \in pub'[q].members :
           d \in Conns /\ d \in pub[q].members /\ pub'[q].id = pub[q].id
    BY <1>5 DEF RecvHello, Receives, PublishCalls, Idle
  <2> QED
    BY <2>1, <2>2, <2>3, <2>4, DeliverKeeps
<1>6. ASSUME NEW c \in Conns, NEW x \in Topics, NEW v \in {"subscribe", "unsubscribe"},
            RecvSubscribe(c, x, v)
     PROVE  DeliverInv'
  <2>1. /\ npub' = npub /\ wire' = wire
        /\ \A d \in Conns : replay'[d] \in {replay[d], <<>>}
    BY <1>6 DEF RecvSubscribe, Receives
  <2>2. \A d \in Conns : d \notin greeted' => hpc'[d] = "idle"
    BY <1>6 DEF RecvSubscribe, Receives
  <2>3. \A d \in Conns : ~Joined(d)' => ~Joined(d) /\ \A y \in Topics : d \notin subs'[y]
    BY <1>6 DEF RecvSubscribe, Receives, Joined
  <2>4. \A q \in Publishers : \A d \in pub'[q].members :
           d \in Conns /\ d \in pub[q].members /\ pub'[q].id = pub[q].id
    BY <1>6 DEF RecvSubscribe, Receives, PublishCalls, Idle
  <2> QED
    BY <2>1, <2>2, <2>3, <2>4, DeliverKeeps
<1>7. ASSUME NEW c \in Conns, AttachResume(c) PROVE DeliverInv'
  <2> DEFINE t == harg[c].token
  <2>1. /\ t \in Tokens /\ stopics[t] \in SUBSET Topics /\ harg[c].cursors \in [Topics -> Nat]
        /\ hpc[c] = "attach"
    BY <1>7 DEF AttachResume, Resumable, SessionTypes, HandlerFrames, TypeOK
  <2>2. PICK r \in CollectReplay(stopics[t], harg[c].cursors) : replay' = [replay EXCEPT ![c] = r]
    BY <1>7 DEF AttachResume, Resumable
  <2>3. /\ \A n \in DOMAIN r : r[n].id \in 1 .. npub
        /\ \A n, m \in DOMAIN r : r[n].id = r[m].id => n = m
    <3> DEFINE X == stopics[t]
               k == harg[c].cursors
    <3>1. X \in SUBSET Topics /\ k \in [Topics -> Nat] /\ r \in CollectReplay(X, k)
      BY <2>1, <2>2
    <3> HIDE DEF X, k, t
    <3> QED
      BY <3>1, ReplayDistinct
  <2>6. /\ UNCHANGED <<greeted, pub, npub, wire>> /\ hpc' = [hpc EXCEPT ![c] = "replay"]
        /\ \A x \in Topics : subs'[x] \subseteq subs[x] \cup {c}
    BY <1>7 DEF AttachResume, Resumable
  <2>7. ~Joined(c) /\ wire[c] = <<>> /\ (\A p \in Publishers : c \notin pub[p].members)
        /\ Joined(c)' /\ \A d \in Conns \ {c} : Joined(d)' = Joined(d)
    BY <2>1, <2>6 DEF DeliverInv, Joined
  <2>8. replay'[c] = r /\ \A d \in Conns \ {c} : replay'[d] = replay[d]
    BY <2>2
  <2>9. \A d \in Conns : ~Joined(d)' =>
          /\ wire'[d] = <<>> /\ replay'[d] = <<>>
          /\ \A x \in Topics : d \notin subs'[x]
          /\ \A p \in Publishers : d \notin pub'[p].members
    BY <2>6, <2>7, <2>8 DEF DeliverInv
  <2>10. \A d \in Conns : d \notin greeted' => hpc'[d] = "idle"
    BY <2>1, <2>6
  <2>11. DOMAIN wire'[c] = {}
    BY <2>6, <2>7
  <2>12. Apart(c)'
    BY <2>3, <2>6, <2>7, <2>8, <2>11 DEF Apart
  <2>13. ASSUME NEW d \in Conns \ {c} PROVE Apart(d)'
    <3>1. Apart(d) /\ wire'[d] = wire[d] /\ replay'[d] \in {replay[d], <<>>}
      BY <2>6, <2>8 DEF DeliverInv
    <3> QED
      BY <2>6, <3>1, ApartKeeps
  <2> QED
    BY <2>9, <2>10, <2>12, <2>13 DEF DeliverInv
<1>8. ASSUME NEW c \in Conns, NEW t \in Tokens, AttachFresh(c, t) PROVE DeliverInv'
  <2>1. /\ npub' = npub /\ wire' = wire
        /\ \A d \in Conns : replay'[d] \in {replay[d], <<>>}
    BY <1>8 DEF AttachFresh
  <2>2. \A d \in Conns : d \notin greeted' => hpc'[d] = "idle"
    BY <1>8 DEF AttachFresh
  <2>3. \A d \in Conns : ~Joined(d)' => ~Joined(d) /\ \A x \in Topics : d \notin subs'[x]
    BY <1>8 DEF AttachFresh, Joined
  <2>4. \A q \in Publishers : \A d \in pub'[q].members :
           d \in Conns /\ d \in pub[q].members /\ pub'[q].id = pub[q].id
    BY <1>8 DEF AttachFresh, PublishCalls, Idle
  <2> QED
    BY <2>1, <2>2, <2>3, <2>4, DeliverKeeps
<1>9. ASSUME NEW c \in Conns, ReplayWrite(c) PROVE DeliverInv'
  <2>1. CASE replay' = [replay EXCEPT ![c] = <<>>] /\ UNCHANGED wire
    <3>1. /\ npub' = npub /\ wire' = wire
          /\ \A d \in Conns : replay'[d] \in {replay[d], <<>>}
      BY <1>9, <2>1 DEF ReplayWrite
    <3>2. UNCHANGED <<greeted, hpc, subs, pub>>
      BY <1>9 DEF ReplayWrite
    <3> QED
      BY <3>1, <3>2, DeliverKeeps DEF Joined
  <2>2. CASE wire' = Written(c, Head(replay[c])) /\ replay' = [replay EXCEPT ![c] = Tail(@)]
    <3>1. UNCHANGED <<greeted, hpc, subs, pub, npub>> /\ replay[c] # <<>> /\ hpc[c] = "replay"
      BY <1>9 DEF ReplayWrite
    <3>2. /\ \A d \in Conns \ {c} : wire'[d] = wire[d] /\ replay'[d] = replay[d]
          /\ wire'[c] \in {wire[c], Append(wire[c], Head(replay[c]))}
          /\ replay'[c] = Tail(replay[c])
      BY <2>2 DEF Written
    <3>3. Joined(c) /\ \A d \in Conns : Joined(d)' = Joined(d)
      BY <3>1 DEF Joined
    <3>4. /\ replay[c] \in Seq(Entries) /\ wire[c] \in Seq(Entries) /\ Head(replay[c]) = replay[c][1]
          /\ 1 \in DOMAIN replay[c]
      BY <3>1
    <3>5. \A i \in DOMAIN replay'[c] :
            i + 1 \in DOMAIN replay[c] /\ replay'[c][i] = replay[c][i + 1] /\ i \in Nat /\ i >= 1
      BY <3>1, <3>2, <3>4
    <3>6. \A i \in DOMAIN wire'[c] :
            (i \in DOMAIN wire[c] /\ wire'[c][i] = wire[c][i])
            \/ (i = Len(wire[c]) + 1 /\ wire'[c][i] = replay[c][1])
      <4>1. replay[c][1] \in Entries
        BY <3>4
      <4>2. CASE wire'[c] = Append(wire[c], replay[c][1])
        BY <3>4, <4>1, <4>2
      <4> QED
        BY <3>2, <3>4, <4>2
    <3>7. Apart(c)
      BY DEF DeliverInv
    <3>8. \A i, j \in DOMAIN wire'[c] : wire'[c][i].id = wire'[c][j].id => i = j
      <4>1. \A i \in DOMAIN wire[c] : wire[c][i].id # replay[c][1].id
        BY <3>4, <3>7 DEF Apart
      <4>2. \A i, j \in DOMAIN wire[c] : wire[c][i].id = wire[c][j].id => i = j
        BY <3>7 DEF Apart
      <4> QED
        BY <3>6, <4>1, <4>2
    <3>9. ASSUME NEW i \in DOMAIN wire'[c]
          PROVE  /\ wire'[c][i].id \in 1 .. npub
                 /\ \A q \in Publishers : c \in pub[q].members => wire'[c][i].id # pub[q].id
      <4>1. CASE i \in DOMAIN wire[c] /\ wire'[c][i] = wire[c][i]
        BY <3>7, <4>1 DEF Apart
      <4>2. CASE wire'[c][i] = replay[c][1]
        BY <3>4, <3>7, <4>2 DEF Apart
      <4> QED
        BY <3>6, <3>9, <4>1, <4>2
    <3>10. /\ \A i \in DOMAIN replay'[c] : replay'[c][i].id \in 1 .. npub
           /\ \A q \in Publishers : c \in pub[q].members =>
                \A i \in DOMAIN replay'[c] : replay'[c][i].id # pub[q].id
      BY <3>5, <3>7 DEF Apart
    <3>11. \A i, j \in DOMAIN replay'[c] : replay'[c][i].id = replay'[c][j].id => i = j
      <4> SUFFICES ASSUME NEW i \in DOMAIN replay'[c], NEW j \in DOMAIN replay'[c],
                          replay'[c][i].id = replay'[c][j].id
                   PROVE  i = j
        OBVIOUS
      <4>1. i + 1 = j + 1
        BY <3>5, <3>7 DEF Apart
      <4> QED
        BY <3>5, <4>1
    <3>12. \A i \in DOMAIN wire'[c], j \in DOMAIN replay'[c] : wire'[c][i].id # replay'[c][j].id
      <4> SUFFICES ASSUME NEW i \in DOMAIN wire'[c], NEW j \in DOMAIN replay'[c]
                   PROVE  wire'[c][i].id # replay'[c][j].id
        OBVIOUS
      <4>1. j + 1 \in DOMAIN replay[c] /\ replay'[c][j] = replay[c][j + 1] /\ j + 1 # 1
        BY <3>5
      <4>2. CASE i \in DOMAIN wire[c] /\ wire'[c][i] = wire[c][i]
        BY <3>7, <4>1, <4>2 DEF Apart
      <4>3. CASE wire'[c][i] = replay[c][1]
        BY <3>4, <3>7, <4>1, <4>3 DEF Apart
      <4> QED
        BY <3>6, <4>2, <4>3
    <3>13. Apart(c)'
      BY <3>1, <3>8, <3>9, <3>10, <3>11, <3>12 DEF Apart
    <3>14. ASSUME NEW d \in Conns \ {c} PROVE Apart(d)'
      <4>1. Apart(d) /\ wire'[d] = wire[d] /\ replay'[d] \in {replay[d], <<>>}
        BY <3>2 DEF DeliverInv
      <4> QED
        BY <3>1, <4>1, ApartKeeps
    <3>15. \A d \in Conns \ {c} : ~Joined(d)' =>
             /\ wire'[d] = <<>> /\ replay'[d] = <<>>
             /\ \A x \in Topics : d \notin subs'[x]
             /\ \A p \in Publishers : d \notin pub'[p].members
      BY <3>1, <3>2, <3>3 DEF DeliverInv
    <3>16. \A d \in Conns : d \notin greeted' => hpc'[d] = "idle"
      BY <3>1
    <3> QED
      BY <3>3, <3>13, <3>14, <3>15, <3>16 DEF DeliverInv
  <2> QED
    BY <1>9, <2>1, <2>2 DEF ReplayWrite
<1>10. ASSUME NEW c \in Conns, ReplayDone(c) PROVE DeliverInv'
  <2>1. /\ npub' = npub /\ wire' = wire
        /\ \A d \in Conns : replay'[d] \in {replay[d], <<>>}
    BY <1>10 DEF ReplayDone
  <2>2. \A d \in Conns : d \notin greeted' => hpc'[d] = "idle"
    BY <1>10 DEF ReplayDone
  <2>3. \A d \in Conns : ~Joined(d)' => ~Joined(d) /\ \A x \in Topics : d \notin subs'[x]
    BY <1>10 DEF ReplayDone, Joined
  <2>4. \A q \in Publishers : \A d \in pub'[q].members :
           d \in Conns /\ d \in pub[q].members /\ pub'[q].id = pub[q].id
    BY <1>10 DEF ReplayDone, PublishCalls, Idle
  <2> QED
    BY <2>1, <2>2, <2>3, <2>4, DeliverKeeps
<1>11. ASSUME NEW c \in Conns, Subscribe(c) PROVE DeliverInv'
  <2>1. /\ npub' = npub /\ wire' = wire
        /\ \A d \in Conns : replay'[d] \in {replay[d], <<>>}
    BY <1>11 DEF Subscribe
  <2>2. \A d \in Conns : d \notin greeted' => hpc'[d] = "idle"
    BY <1>11 DEF Subscribe
  <2>3. \A d \in Conns : ~Joined(d)' => ~Joined(d) /\ \A x \in Topics : d \notin subs'[x]
    BY <1>11 DEF Subscribe, Joined, TypeOK, HandlerFrames
  <2>4. \A q \in Publishers : \A d \in pub'[q].members :
           d \in Conns /\ d \in pub[q].members /\ pub'[q].id = pub[q].id
    BY <1>11 DEF Subscribe, PublishCalls, Idle
  <2> QED
    BY <2>1, <2>2, <2>3, <2>4, DeliverKeeps
<1>12. ASSUME NEW c \in Conns, Unsubscribe(c) PROVE DeliverInv'
  <2>1. /\ npub' = npub /\ wire' = wire
        /\ \A d \in Conns : replay'[d] \in {replay[d], <<>>}
    BY <1>12 DEF Unsubscribe
  <2>2. \A d \in Conns : d \notin greeted' => hpc'[d] = "idle"
    BY <1>12 DEF Unsubscribe
  <2>3. \A d \in Conns : ~Joined(d)' => ~Joined(d) /\ \A x \in Topics : d \notin subs'[x]
    BY <1>12 DEF Unsubscribe, Joined, TypeOK
  <2>4. \A q \in Publishers : \A d \in pub'[q].members :
           d \in Conns /\ d \in pub[q].members /\ pub'[q].id = pub[q].id
    BY <1>12 DEF Unsubscribe, PublishCalls, Idle
  <2> QED
    BY <2>1, <2>2, <2>3, <2>4, DeliverKeeps
<1>13. ASSUME NEW t \in Tokens, Expire(t) PROVE DeliverInv'
  <2>1. /\ npub' = npub /\ wire' = wire
        /\ \A d \in Conns : replay'[d] \in {replay[d], <<>>}
    BY <1>13 DEF Expire
  <2>2. \A d \in Conns : d \notin greeted' => hpc'[d] = "idle"
    BY <1>13 DEF Expire
  <2>3. \A d \in Conns : ~Joined(d)' => ~Joined(d) /\ \A x \in Topics : d \notin subs'[x]
    BY <1>13 DEF Expire, Joined
  <2>4. \A q \in Publishers : \A d \in pub'[q].members :
           d \in Conns /\ d \in pub[q].members /\ pub'[q].id = pub[q].id
    BY <1>13 DEF Expire, PublishCalls, Idle
  <2> QED
    BY <2>1, <2>2, <2>3, <2>4, DeliverKeeps
<1>14. CASE Reap
  <2>1. /\ npub' = npub /\ wire' = wire
        /\ \A d \in Conns : replay'[d] \in {replay[d], <<>>}
    BY <1>14 DEF Reap
  <2>2. \A d \in Conns : d \notin greeted' => hpc'[d] = "idle"
    BY <1>14 DEF Reap
  <2>3. \A d \in Conns : ~Joined(d)' => ~Joined(d) /\ \A x \in Topics : d \notin subs'[x]
    BY <1>14 DEF Reap, Joined, ReapedMembers
  <2>4. \A q \in Publishers : \A d \in pub'[q].members :
           d \in Conns /\ d \in pub[q].members /\ pub'[q].id = pub[q].id
    BY <1>14 DEF Reap, PublishCalls, Idle
  <2> QED
    BY <2>1, <2>2, <2>3, <2>4, DeliverKeeps
<1>15. ASSUME NEW p \in Publishers, NEW x \in Topics,
            PubSnapshot(p, x)
     PROVE  DeliverInv'
  <2>1. npub' = npub + 1 /\ UNCHANGED <<greeted, hpc, subs, wire, replay>>
    BY <1>15 DEF PubSnapshot
  <2>2. /\ pub'[p].members = subs[x] /\ pub'[p].id = npub + 1
        /\ \A q \in Publishers \ {p} : pub'[q] = pub[q]
    BY <1>15 DEF PubSnapshot, PublishCalls, Idle
  <2>3. \A d \in Conns : Joined(d)' = Joined(d)
    BY <2>1 DEF Joined
  <2>4. \A d \in Conns : ~Joined(d)' =>
          /\ wire'[d] = <<>> /\ replay'[d] = <<>>
          /\ \A y \in Topics : d \notin subs'[y]
          /\ \A q \in Publishers : d \notin pub'[q].members
    BY <2>1, <2>2, <2>3 DEF DeliverInv
  <2>5. 1 .. npub \subseteq 1 .. npub' /\ npub + 1 \notin 1 .. npub
    BY <2>1
  <2>6. ASSUME NEW d \in Conns PROVE Apart(d)'
    <3>1. Apart(d)
      BY DEF DeliverInv
    <3>2. \A q \in Publishers : d \in pub'[q].members =>
             /\ \A i \in DOMAIN wire[d] : wire[d][i].id # pub'[q].id
             /\ \A i \in DOMAIN replay[d] : replay[d][i].id # pub'[q].id
      <4> SUFFICES ASSUME NEW q \in Publishers, d \in pub'[q].members
                   PROVE  /\ \A i \in DOMAIN wire[d] : wire[d][i].id # pub'[q].id
                          /\ \A i \in DOMAIN replay[d] : replay[d][i].id # pub'[q].id
        OBVIOUS
      <4>1. CASE q = p
        BY <2>2, <2>5, <3>1, <4>1 DEF Apart
      <4>2. CASE q # p
        BY <2>2, <3>1, <4>2 DEF Apart
      <4> QED
        BY <4>1, <4>2
    <3> QED
      BY <2>1, <2>5, <3>1, <3>2 DEF Apart
  <2> QED
    BY <2>1, <2>4, <2>6 DEF DeliverInv
<1>16. ASSUME NEW p \in Publishers, PubMint(p) PROVE DeliverInv'
  <2>1. /\ npub' = npub /\ wire' = wire
        /\ \A d \in Conns : replay'[d] \in {replay[d], <<>>}
    BY <1>16 DEF PubMint
  <2>2. \A d \in Conns : d \notin greeted' => hpc'[d] = "idle"
    BY <1>16 DEF PubMint
  <2>3. \A d \in Conns : ~Joined(d)' => ~Joined(d) /\ \A x \in Topics : d \notin subs'[x]
    BY <1>16 DEF PubMint, Joined
  <2>4. \A q \in Publishers : \A d \in pub'[q].members :
           d \in Conns /\ d \in pub[q].members /\ pub'[q].id = pub[q].id
    BY <1>16 DEF PubMint, PublishCalls, Idle
  <2> QED
    BY <2>1, <2>2, <2>3, <2>4, DeliverKeeps
<1>17. ASSUME NEW p \in Publishers, PubAdd(p) PROVE DeliverInv'
  <2>1. /\ npub' = npub /\ wire' = wire
        /\ \A d \in Conns : replay'[d] \in {replay[d], <<>>}
    BY <1>17 DEF PubAdd
  <2>2. \A d \in Conns : d \notin greeted' => hpc'[d] = "idle"
    BY <1>17 DEF PubAdd
  <2>3. \A d \in Conns : ~Joined(d)' => ~Joined(d) /\ \A x \in Topics : d \notin subs'[x]
    BY <1>17 DEF PubAdd, Joined
  <2>4. \A q \in Publishers : \A d \in pub'[q].members :
           d \in Conns /\ d \in pub[q].members /\ pub'[q].id = pub[q].id
    BY <1>17 DEF PubAdd, PublishCalls, Idle
  <2> QED
    BY <2>1, <2>2, <2>3, <2>4, DeliverKeeps
<1>18. ASSUME NEW p \in Publishers, NEW z \in Sizes,
            PubRemember(p, z)
     PROVE  DeliverInv'
  <2>1. /\ npub' = npub /\ wire' = wire
        /\ \A d \in Conns : replay'[d] \in {replay[d], <<>>}
    BY <1>18 DEF PubRemember
  <2>2. \A d \in Conns : d \notin greeted' => hpc'[d] = "idle"
    BY <1>18 DEF PubRemember
  <2>3. \A d \in Conns : ~Joined(d)' => ~Joined(d) /\ \A x \in Topics : d \notin subs'[x]
    BY <1>18 DEF PubRemember, Joined
  <2>4. \A q \in Publishers : \A d \in pub'[q].members :
           d \in Conns /\ d \in pub[q].members /\ pub'[q].id = pub[q].id
    BY <1>18 DEF PubRemember, PublishCalls, Idle
  <2> QED
    BY <2>1, <2>2, <2>3, <2>4, DeliverKeeps
<1>19. ASSUME NEW p \in Publishers, PubTooLarge(p) PROVE DeliverInv'
  <2>1. /\ npub' = npub /\ wire' = wire
        /\ \A d \in Conns : replay'[d] \in {replay[d], <<>>}
    BY <1>19 DEF PubTooLarge
  <2>2. \A d \in Conns : d \notin greeted' => hpc'[d] = "idle"
    BY <1>19 DEF PubTooLarge
  <2>3. \A d \in Conns : ~Joined(d)' => ~Joined(d) /\ \A x \in Topics : d \notin subs'[x]
    BY <1>19 DEF PubTooLarge, Joined
  <2>4. \A q \in Publishers : \A d \in pub'[q].members :
           d \in Conns /\ d \in pub[q].members /\ pub'[q].id = pub[q].id
    BY <1>19 DEF PubTooLarge, PublishCalls, Idle
  <2> QED
    BY <2>1, <2>2, <2>3, <2>4, DeliverKeeps
<1>20. ASSUME NEW p \in Publishers, NEW c \in Conns, PubWrite(p, c) PROVE DeliverInv'
  <2> DEFINE e == Entry(p, 0)
  <2>1. /\ UNCHANGED <<greeted, hpc, subs, replay, npub>> /\ wire' = Written(c, e)
        /\ c \in pub[p].members /\ pub[p].pc = "write"
    BY <1>20 DEF PubWrite
  <2>2. e.id = pub[p].id /\ e.id \in 1 .. npub
    BY <2>1 DEF Entry, NumberInv
  <2>3. /\ pub'[p].members = pub[p].members \ {c} /\ pub'[p].id = pub[p].id
        /\ \A q \in Publishers \ {p} : pub'[q] = pub[q]
    BY <1>20 DEF PubWrite, PublishCalls
  <2> HIDE DEF e
  <2>4. /\ \A d \in Conns \ {c} : wire'[d] = wire[d]
        /\ wire'[c] \in {wire[c], Append(wire[c], e)}
    BY <2>1 DEF Written
  <2>5. \A i \in DOMAIN wire'[c] : (i \in DOMAIN wire[c] /\ wire'[c][i] = wire[c][i])
                                   \/ (i = Len(wire[c]) + 1 /\ wire'[c][i] = e)
    <3>1. e \in Entries
      BY <2>1 DEF TypeOK, PublishCalls, Entries, Entry, e
    <3>2. CASE wire'[c] = Append(wire[c], e)
      BY <3>1, <3>2
    <3> QED
      BY <2>4, <3>2
  <2>6. Apart(c) /\ \A q \in Publishers \ {p} : c \in pub[q].members => pub[q].id # e.id
    BY <2>1, <2>2 DEF NumberInv, DeliverInv
  <2>7. /\ \A i \in DOMAIN wire[c] : wire[c][i].id # e.id
        /\ \A i \in DOMAIN replay[c] : replay[c][i].id # e.id
    BY <2>1, <2>2, <2>6 DEF Apart
  <2>8. \A i, j \in DOMAIN wire'[c] : wire'[c][i].id = wire'[c][j].id => i = j
    BY <2>5, <2>6, <2>7 DEF Apart
  <2>9. /\ \A i \in DOMAIN wire'[c] : wire'[c][i].id \in 1 .. npub
        /\ \A i \in DOMAIN wire'[c], j \in DOMAIN replay[c] : wire'[c][i].id # replay[c][j].id
        /\ \A q \in Publishers : c \in pub'[q].members =>
             \A i \in DOMAIN wire'[c] : wire'[c][i].id # pub'[q].id
    <3> SUFFICES ASSUME NEW i \in DOMAIN wire'[c]
                 PROVE  /\ wire'[c][i].id \in 1 .. npub
                        /\ \A j \in DOMAIN replay[c] : wire'[c][i].id # replay[c][j].id
                        /\ \A q \in Publishers : c \in pub'[q].members => wire'[c][i].id # pub'[q].id
      OBVIOUS
    <3>1. \A q \in Publishers : c \in pub'[q].members => q # p /\ c \in pub[q].members /\ pub'[q].id = pub[q].id
      BY <2>3
    <3>2. CASE wire'[c][i] = e
      BY <2>2, <2>6, <2>7, <3>1, <3>2
    <3>3. CASE i \in DOMAIN wire[c] /\ wire'[c][i] = wire[c][i]
      BY <2>6, <3>1, <3>3 DEF Apart
    <3> QED
      BY <2>5, <3>2, <3>3
  <2>10. Apart(c)'
    <3>1. replay'[c] = replay[c] /\ npub' = npub
      BY <2>1
    <3>2. \A q \in Publishers : c \in pub'[q].members =>
            \A i \in DOMAIN replay[c] : replay[c][i].id # pub'[q].id
      BY <2>3, <2>6 DEF Apart
    <3> QED
      BY <2>6, <2>8, <2>9, <3>1, <3>2 DEF Apart
  <2>11. ASSUME NEW d \in Conns \ {c} PROVE Apart(d)'
    <3>1. Apart(d) /\ wire'[d] = wire[d] /\ replay'[d] \in {replay[d], <<>>}
      BY <2>1, <2>4 DEF DeliverInv
    <3>2. \A q \in Publishers : d \in pub'[q].members => d \in pub[q].members /\ pub'[q].id = pub[q].id
      BY <2>3
    <3>3. npub' \in Nat /\ npub' >= npub
      BY <2>1
    <3> QED
      BY <3>1, <3>2, <3>3, ApartKeeps
  <2>12. Joined(c) /\ \A d \in Conns : Joined(d)' = Joined(d)
    BY <2>1 DEF DeliverInv, Joined
  <2>13. \A d \in Conns : ~Joined(d)' =>
          /\ wire'[d] = <<>> /\ replay'[d] = <<>>
          /\ \A x \in Topics : d \notin subs'[x]
          /\ \A q \in Publishers : d \notin pub'[q].members
    BY <2>1, <2>3, <2>4, <2>12 DEF DeliverInv
  <2> QED
    BY <2>1, <2>10, <2>11, <2>13 DEF DeliverInv
<1>21. ASSUME NEW p \in Publishers, NEW c \in Conns,
            PubWriteFails(p, c)
     PROVE  DeliverInv'
  <2>1. /\ npub' = npub /\ wire' = wire
        /\ \A d \in Conns : replay'[d] \in {replay[d], <<>>}
    BY <1>21 DEF PubWriteFails
  <2>2. \A d \in Conns : d \notin greeted' => hpc'[d] = "idle"
    BY <1>21 DEF PubWriteFails
  <2>3. \A d \in Conns : ~Joined(d)' => ~Joined(d) /\ \A x \in Topics : d \notin subs'[x]
    BY <1>21 DEF PubWriteFails, Joined
  <2>4. \A q \in Publishers : \A d \in pub'[q].members :
           d \in Conns /\ d \in pub[q].members /\ pub'[q].id = pub[q].id
    BY <1>21 DEF PubWriteFails, PublishCalls, Idle
  <2> QED
    BY <2>1, <2>2, <2>3, <2>4, DeliverKeeps
<1>22. ASSUME NEW p \in Publishers, PubDrop(p) PROVE DeliverInv'
  <2>1. /\ npub' = npub /\ wire' = wire
        /\ \A d \in Conns : replay'[d] \in {replay[d], <<>>}
    BY <1>22 DEF PubDrop
  <2>2. \A d \in Conns : d \notin greeted' => hpc'[d] = "idle"
    BY <1>22 DEF PubDrop
  <2>3. \A d \in Conns : ~Joined(d)' => ~Joined(d) /\ \A x \in Topics : d \notin subs'[x]
    BY <1>22 DEF PubDrop, Joined, WithoutFailed
  <2>4. \A q \in Publishers : \A d \in pub'[q].members :
           d \in Conns /\ d \in pub[q].members /\ pub'[q].id = pub[q].id
    BY <1>22 DEF PubDrop, PublishCalls, Idle
  <2> QED
    BY <2>1, <2>2, <2>3, <2>4, DeliverKeeps
<1>23. ASSUME NEW p \in Publishers, PubDone(p) PROVE DeliverInv'
  <2>1. /\ npub' = npub /\ wire' = wire
        /\ \A d \in Conns : replay'[d] \in {replay[d], <<>>}
    BY <1>23 DEF PubDone
  <2>2. \A d \in Conns : d \notin greeted' => hpc'[d] = "idle"
    BY <1>23 DEF PubDone
  <2>3. \A d \in Conns : ~Joined(d)' => ~Joined(d) /\ \A x \in Topics : d \notin subs'[x]
    BY <1>23 DEF PubDone, Joined
  <2>4. \A q \in Publishers : \A d \in pub'[q].members :
           d \in Conns /\ d \in pub[q].members /\ pub'[q].id = pub[q].id
    BY <1>23 DEF PubDone, PublishCalls, Idle
  <2> QED
    BY <2>1, <2>2, <2>3, <2>4, DeliverKeeps
<1>24. CASE UNCHANGED vars
  <2>1. /\ npub' = npub /\ wire' = wire
        /\ \A d \in Conns : replay'[d] \in {replay[d], <<>>}
    BY <1>24 DEF vars
  <2>2. \A d \in Conns : d \notin greeted' => hpc'[d] = "idle"
    BY <1>24 DEF vars
  <2>3. \A d \in Conns : ~Joined(d)' => ~Joined(d) /\ \A x \in Topics : d \notin subs'[x]
    BY <1>24 DEF vars, Joined
  <2>4. \A q \in Publishers : \A d \in pub'[q].members :
           d \in Conns /\ d \in pub[q].members /\ pub'[q].id = pub[q].id
    BY <1>24 DEF vars, PublishCalls, Idle
  <2> QED
    BY <2>1, <2>2, <2>3, <2>4, DeliverKeeps
<1> QED
  BY <1>1, <1>2, <1>3, <1>4, <1>5, <1>6, <1>7, <1>8, <1>9, <1>10,
     <1>11, <1>12, <1>13, <1>14, <1>15, <1>16, <1>17, <1>18, <1>19, <1>20,
     <1>21, <1>22, <1>23, <1>24
  DEF Next, ClientStep, HandlerStep, PublishStep

\* No publish is written twice to one connection, once from the replay of its
\* resume and once live, when clients shake hands once and first: whatever else
\* subscribers, publishers, failing writes and the janitor do meanwhile.
THEOREM DeliveredOnce == ASSUME HelloFirst PROVE Spec => []DeliveredAtMostOnce
<1>1. Init => NumberInv /\ DeliverInv
  <2> SUFFICES ASSUME Init PROVE NumberInv /\ DeliverInv
    OBVIOUS
  <2>1. DOMAIN <<>> = {}
    OBVIOUS
  <2>2. /\ \A p \in Publishers : pub[p].pc = "idle" /\ pub[p].members = {}
        /\ \A x \in Topics : cache[x] = <<>> /\ subs[x] = {}
        /\ \A c \in Conns : wire[c] = <<>> /\ replay[c] = <<>> /\ hpc[c] = "idle"
    BY DEF Init, Idle
  <2> QED
    BY <2>1, <2>2 DEF NumberInv, DeliverInv, Apart
<1>2. TypeOK /\ NumberInv /\ DeliverInv /\ [Next]_vars => NumberInv' /\ DeliverInv'
  BY NumberStep, DeliverStep
<1>3. DeliverInv => DeliveredAtMostOnce
  BY DEF DeliverInv, Apart, DeliveredAtMostOnce
<1> QED
  BY <1>1, <1>2, <1>3, InvariantsHold, PTL DEF Spec

-----------------------------------------------------------------------------
\* The bytes of a frame are as many as its size says.
LEMMA RowSize ==
  ASSUME NEW i, NEW n \in Nat
  PROVE  IsFiniteSet({i} \X (1 .. n)) /\ Cardinality({i} \X (1 .. n)) = n
<1>1. IsFiniteSet({i}) /\ Cardinality({i}) = 1
  BY FS_Singleton
<1>2. IsFiniteSet(1 .. n) /\ Cardinality(1 .. n) = n
  BY FS_Interval
<1>3. 1 * n = n
  OBVIOUS
<1> DEFINE place == 1 .. n
<1> HIDE DEF place
<1>4. IsFiniteSet({i} \X place) /\ Cardinality({i} \X place) = 1 * n
  <2>1. IsFiniteSet(place) /\ Cardinality(place) = n
    BY <1>2 DEF place
  <2> QED
    BY <1>1, <2>1, FS_Product
<1> QED
  BY <1>3, <1>4 DEF place

\* The bytes of a sequence of frames are finitely many.
LEMMA BytesFinite ==
  ASSUME NEW s \in Seq(Entries)
  PROVE  IsFiniteSet(Bytes(s)) /\ FrameBytes(s) \in Nat
<1> DEFINE row == [i \in DOMAIN s |-> {i} \X (1 .. s[i].size)]
           rows == {row[i] : i \in DOMAIN s}
<1>1. IsFiniteSet(DOMAIN s)
  BY FS_Interval
<1>2. row \in Surjection(DOMAIN s, rows)
  BY DEF Surjection
<1>3. IsFiniteSet(rows)
  BY <1>1, <1>2, FS_Surjection
<1>4. \A i \in DOMAIN s : s[i] \in Entries
  OBVIOUS
<1>5. ASSUME NEW T \in rows PROVE IsFiniteSet(T)
  <2>1. PICK i \in DOMAIN s : T = {i} \X (1 .. s[i].size)
    OBVIOUS
  <2>2. s[i].size \in Nat
    BY <1>4 DEF Entries
  <2> QED
    BY <2>1, <2>2, RowSize
<1>6. Bytes(s) = UNION rows
  BY DEF Bytes
<1> HIDE DEF rows
<1>7. IsFiniteSet(Bytes(s))
  BY <1>3, <1>5, <1>6, FS_UNION
<1> QED
  BY <1>7, FS_CardinalityType DEF FrameBytes

\* Two disjoint finite sets together.
LEMMA Together ==
  ASSUME NEW S, NEW T, IsFiniteSet(S), IsFiniteSet(T), S \cap T = {}
  PROVE  /\ IsFiniteSet(S \cup T)
         /\ Cardinality(S \cup T) = Cardinality(S) + Cardinality(T)
         /\ Cardinality(S) \in Nat /\ Cardinality(T) \in Nat
BY FS_Union, FS_EmptySet, FS_CardinalityType

\* Caching a frame adds its size to its topic's.
LEMMA BytesAppended ==
  ASSUME NEW s \in Seq(Entries), NEW e \in Entries
  PROVE  FrameBytes(Append(s, e)) = FrameBytes(s) + e.size
<1> DEFINE n == Len(s) + 1
           row == {n} \X (1 .. e.size)
           t == Append(s, e)
<1>1. e.size \in Nat
  BY DEF Entries
<1>2. /\ Len(s) \in Nat /\ DOMAIN s = 1 .. Len(s) /\ DOMAIN t = 1 .. n
      /\ t[n] = e /\ \A i \in DOMAIN s : t[i] = s[i]
  OBVIOUS
<1>3. DOMAIN t = DOMAIN s \cup {n} /\ n \notin DOMAIN s
  BY <1>2
<1>4. Bytes(t) = Bytes(s) \cup row
  BY <1>2, <1>3 DEF Bytes
<1>5. Bytes(s) \cap row = {}
  BY <1>3 DEF Bytes
<1> HIDE DEF n, row, t
<1>6. IsFiniteSet(row) /\ Cardinality(row) = e.size
  BY <1>1, RowSize DEF row
<1> QED
  BY <1>4, <1>5, <1>6, BytesFinite, Together DEF FrameBytes, t

\* Evicting the oldest frame takes its size away.
LEMMA BytesTrimmed ==
  ASSUME NEW s \in Seq(Entries), s # <<>>
  PROVE  FrameBytes(s) = s[1].size + FrameBytes(Tail(s))
<1> DEFINE row == {1} \X (1 .. s[1].size)
           t == Tail(s)
           later == Bytes(s) \ row
           up == [k \in Bytes(t) |-> <<k[1] + 1, k[2]>>]
<1>1. /\ Len(s) \in Nat /\ Len(s) >= 1 /\ DOMAIN s = 1 .. Len(s) /\ t \in Seq(Entries)
      /\ DOMAIN t = 1 .. Len(s) - 1 /\ \A i \in DOMAIN t : t[i] = s[i + 1]
  OBVIOUS
<1>2. s[1].size \in Nat
  <2>1. s[1] \in Entries
    BY <1>1
  <2> QED
    BY <2>1 DEF Entries
<1>3. row \subseteq Bytes(s)
  BY <1>1 DEF Bytes
<1>4. \A k : k \in later <=> \E i \in DOMAIN s \ {1} : k \in {i} \X (1 .. s[i].size)
  BY <1>1 DEF Bytes
<1>5. \A k : k \in Bytes(t) <=> \E i \in DOMAIN t : k \in {i} \X (1 .. s[i + 1].size)
  BY <1>1 DEF Bytes
<1> HIDE DEF later, t
<1>6. up \in Bijection(Bytes(t), later)
  <2>1. ASSUME NEW k \in Bytes(t) PROVE up[k] \in later /\ k[1] \in Nat /\ k = <<k[1], k[2]>>
    <3>1. PICK i \in DOMAIN t : k \in {i} \X (1 .. s[i + 1].size)
      BY <1>5
    <3>2. k = <<i, k[2]>> /\ k[1] = i /\ k[2] \in 1 .. s[i + 1].size /\ i \in Nat
      BY <1>1, <3>1
    <3>3. i + 1 \in DOMAIN s \ {1} /\ up[k] = <<i + 1, k[2]>>
      BY <1>1, <3>2
    <3> QED
      BY <1>4, <3>2, <3>3
  <2>2. ASSUME NEW k \in Bytes(t), NEW l \in Bytes(t), up[k] = up[l] PROVE k = l
    <3>1. k[1] + 1 = l[1] + 1 /\ k[2] = l[2]
      BY <2>2
    <3>2. k[1] \in Nat /\ l[1] \in Nat
      BY <2>1
    <3>3. k[1] = l[1]
      BY <3>1, <3>2
    <3> QED
      BY <2>1, <3>1, <3>3
  <2>3. ASSUME NEW m \in later PROVE \E k \in Bytes(t) : up[k] = m
    <3>1. PICK i \in DOMAIN s \ {1} : m \in {i} \X (1 .. s[i].size)
      BY <1>4
    <3>2. m = <<i, m[2]>> /\ m[2] \in 1 .. s[i].size /\ i - 1 \in DOMAIN t /\ (i - 1) + 1 = i
      BY <1>1, <3>1
    <3>3. <<i - 1, m[2]>> \in Bytes(t)
      BY <1>5, <3>2
    <3>4. up[<<i - 1, m[2]>>] = m
      BY <3>2, <3>3
    <3> QED
      BY <3>3, <3>4
  <2>4. up \in [Bytes(t) -> later]
    BY <2>1
  <2> HIDE DEF up
  <2>5. up \in Injection(Bytes(t), later)
    BY <2>2, <2>4 DEF Injection, IsInjective
  <2>6. up \in Surjection(Bytes(t), later)
    BY <2>3, <2>4 DEF Surjection
  <2> QED
    BY <2>5, <2>6 DEF Bijection
<1>7. IsFiniteSet(Bytes(t)) /\ IsFiniteSet(Bytes(s))
  BY <1>1, BytesFinite
<1>8. IsFiniteSet(later) /\ Cardinality(later) = Cardinality(Bytes(t))
  BY <1>6, <1>7, FS_Bijection DEF ExistsBijection
<1>9. Bytes(s) = row \cup later /\ row \cap later = {}
  BY <1>3 DEF later
<1> HIDE DEF row
<1>10. IsFiniteSet(row) /\ Cardinality(row) = s[1].size
  BY <1>2, RowSize DEF row
<1> QED
  BY <1>8, <1>9, <1>10, Together DEF FrameBytes, t

\* A topic's share of the cache.
LEMMA TopicShare ==
  ASSUME NEW C \in [Topics -> Seq(Entries)], NEW x \in Topics
  PROVE  /\ IsFiniteSet(TopicBytes(C, {x}))
         /\ Cardinality(TopicBytes(C, {x})) = FrameBytes(C[x])
<1>1. C[x] \in Seq(Entries)
  OBVIOUS
<1>2. TopicBytes(C, {x}) = {x} \X Bytes(C[x])
  BY DEF TopicBytes
<1>3. IsFiniteSet({x}) /\ Cardinality({x}) = 1
  BY FS_Singleton
<1>4. IsFiniteSet(Bytes(C[x])) /\ FrameBytes(C[x]) \in Nat
  BY <1>1, BytesFinite
<1>5. 1 * FrameBytes(C[x]) = FrameBytes(C[x])
  BY <1>4
<1> QED
  BY <1>2, <1>3, <1>4, <1>5, FS_Product DEF FrameBytes

\* The whole cache is finite.
LEMMA CacheFinite ==
  ASSUME NEW C \in [Topics -> Seq(Entries)], NEW X \in SUBSET Topics
  PROVE  IsFiniteSet(TopicBytes(C, X)) /\ Cardinality(TopicBytes(C, X)) \in Nat
<1> DEFINE share == [x \in X |-> {x} \X Bytes(C[x])]
           shares == {share[x] : x \in X}
<1>1. IsFiniteSet(X)
  BY TopicsAssumption, FS_Subset
<1>2. share \in Surjection(X, shares)
  BY DEF Surjection
<1>3. IsFiniteSet(shares)
  BY <1>1, <1>2, FS_Surjection
<1>4. ASSUME NEW x \in X PROVE IsFiniteSet(share[x])
  <2>1. TopicBytes(C, {x}) = {x} \X Bytes(C[x])
    BY DEF TopicBytes
  <2> QED
    BY <2>1, TopicShare
<1>5. TopicBytes(C, X) = UNION shares /\ \A T \in shares : IsFiniteSet(T)
  BY <1>4 DEF TopicBytes
<1> HIDE DEF shares
<1>6. IsFiniteSet(TopicBytes(C, X))
  BY <1>3, <1>5, FS_UNION
<1> QED
  BY <1>6, FS_CardinalityType

\* The shares of different topics are different bytes.
LEMMA SharesApart ==
  ASSUME NEW C \in [Topics -> Seq(Entries)], NEW X \in SUBSET Topics, NEW Y \in SUBSET Topics,
         X \cap Y = {}
  PROVE  Cardinality(TopicBytes(C, X \cup Y))
           = Cardinality(TopicBytes(C, X)) + Cardinality(TopicBytes(C, Y))
<1>1. TopicBytes(C, X \cup Y) = TopicBytes(C, X) \cup TopicBytes(C, Y)
  BY DEF TopicBytes
<1>2. TopicBytes(C, X) \cap TopicBytes(C, Y) = {}
  BY DEF TopicBytes
<1> QED
  BY <1>1, <1>2, CacheFinite, Together

\* No frame is no byte.
LEMMA NoBytes == Bytes(<<>>) = {} /\ FrameBytes(<<>>) = 0
BY FS_EmptySet DEF Bytes, FrameBytes

\* Replacing what is cached of one topic changes the size of the cache by the
\* difference.
LEMMA ShareReplaced ==
  ASSUME NEW C \in [Topics -> Seq(Entries)], NEW x \in Topics, NEW s \in Seq(Entries)
  PROVE  Cardinality(TopicBytes([C EXCEPT ![x] = s], Topics))
           = Cardinality(TopicBytes(C, Topics)) - FrameBytes(C[x]) + FrameBytes(s)
<1> DEFINE D == [C EXCEPT ![x] = s]
           others == Topics \ {x}
<1>1. D \in [Topics -> Seq(Entries)] /\ D[x] = s /\ \A y \in others : D[y] = C[y]
  OBVIOUS
<1>2. /\ others \in SUBSET Topics /\ {x} \in SUBSET Topics /\ others \cap {x} = {}
      /\ others \cup {x} = Topics
  OBVIOUS
<1> HIDE DEF D, others
<1>3. TopicBytes(D, others) = TopicBytes(C, others)
  BY <1>1 DEF TopicBytes
<1>4. Cardinality(TopicBytes(D, Topics))
        = Cardinality(TopicBytes(D, others)) + Cardinality(TopicBytes(D, {x}))
  BY <1>1, <1>2, SharesApart
<1>5. Cardinality(TopicBytes(C, Topics))
        = Cardinality(TopicBytes(C, others)) + Cardinality(TopicBytes(C, {x}))
  BY <1>2, SharesApart
<1>6. Cardinality(TopicBytes(D, {x})) = FrameBytes(s)
  BY <1>1, TopicShare
<1>7. Cardinality(TopicBytes(C, {x})) = FrameBytes(C[x])
  BY TopicShare
<1>8. /\ Cardinality(TopicBytes(C, others)) \in Nat
      /\ FrameBytes(C[x]) \in Nat /\ FrameBytes(s) \in Nat
  <2>1. C[x] \in Seq(Entries)
    OBVIOUS
  <2> QED
    BY <1>2, <2>1, CacheFinite, BytesFinite
<1> QED
  BY <1>3, <1>4, <1>5, <1>6, <1>7, <1>8 DEF D

\* dropTopicCacheLocked gives back the bytes of the topics it drops.
LEMMA DropAccounts ==
  ASSUME TypeOK, CacheAccounted, NEW X \in SUBSET Topics, NEW S, NEW L, NEW T,
         DropTopicCache(X, S, L, T)
  PROVE  /\ cacheBytes' = Cardinality(TopicBytes(cache, Topics)')
         /\ cacheBytes' <= CacheBudget
<1> DEFINE gone == {x \in X : ~Held(x, S, L, T)}
           kept == Topics \ gone
<1>1. /\ cacheBytes' = cacheBytes - Cardinality(TopicBytes(cache, gone))
      /\ cache' = [x \in Topics |-> IF x \in gone THEN <<>> ELSE cache[x]]
  BY DEF DropTopicCache
<1>2. /\ gone \in SUBSET Topics /\ kept \in SUBSET Topics /\ kept \cap gone = {}
      /\ kept \cup gone = Topics
  OBVIOUS
<1>3. cache \in [Topics -> Seq(Entries)]
  BY DEF TypeOK
<1> HIDE DEF gone, kept
<1>4. TopicBytes(cache, Topics)' = TopicBytes(cache, kept)
  <2>1. \A x \in kept : cache'[x] = cache[x]
    BY <1>1, <1>2
  <2>2. \A x \in gone : Bytes(cache'[x]) = {}
    BY <1>1, <1>2, NoBytes
  <2>3. TopicBytes(cache, Topics)' = TopicBytes(cache', kept) \cup TopicBytes(cache', gone)
    BY <1>2 DEF TopicBytes
  <2>4. TopicBytes(cache', kept) = TopicBytes(cache, kept)
    BY <2>1 DEF TopicBytes
  <2>5. TopicBytes(cache', gone) = {}
    BY <2>2 DEF TopicBytes
  <2> QED
    BY <2>3, <2>4, <2>5
<1>5. Cardinality(TopicBytes(cache, Topics))
        = Cardinality(TopicBytes(cache, kept)) + Cardinality(TopicBytes(cache, gone))
  BY <1>2, <1>3, SharesApart
<1>6. /\ Cardinality(TopicBytes(cache, kept)) \in Nat
      /\ Cardinality(TopicBytes(cache, gone)) \in Nat
  BY <1>2, <1>3, CacheFinite
<1>7. cacheBytes = Cardinality(TopicBytes(cache, Topics)) /\ cacheBytes <= CacheBudget
  BY DEF CacheAccounted
<1> QED
  BY <1>1, <1>4, <1>5, <1>6, <1>7, BoundsAssumption

\* Some topic is the largest one.
LEMMA LargestExists ==
  ASSUME NEW C \in [Topics -> Seq(Entries)], NEW x \in Topics
  PROVE  \E y \in Topics : \A z \in Topics : FrameBytes(C[z]) <= FrameBytes(C[y])
<1> DEFINE n == Cardinality(TopicBytes(C, Topics))
           size == [y \in Topics |-> FrameBytes(C[y])]
           less == {n - size[y] : y \in Topics}
<1>1. n \in Nat
  BY CacheFinite
<1>2. \A y \in Topics : size[y] \in Nat /\ size[y] <= n
  <2> SUFFICES ASSUME NEW y \in Topics PROVE size[y] \in Nat /\ size[y] <= n
    OBVIOUS
  <2>1. C[y] \in Seq(Entries) /\ size[y] = FrameBytes(C[y])
    OBVIOUS
  <2>2. TopicBytes(C, {y}) \in SUBSET TopicBytes(C, Topics)
    BY DEF TopicBytes
  <2>3. Cardinality(TopicBytes(C, {y})) <= n
    BY <2>2, CacheFinite, FS_Subset
  <2> QED
    BY <2>1, <2>3, TopicShare, BytesFinite
<1> HIDE DEF n, size
<1>3. less \in SUBSET Nat /\ less # {}
  BY <1>1, <1>2
<1>4. PICK m \in less : \A l \in less : ~(<<l, m>> \in OpToRel(<, Nat))
  BY <1>3, NatLessThanWellFounded, WFMin
<1>5. \A l \in less : ~(l < m)
  BY <1>3, <1>4 DEF OpToRel
<1>6. PICK y \in Topics : m = n - size[y]
  BY <1>4
<1>7. ASSUME NEW z \in Topics PROVE size[z] <= size[y]
  <2>1. ~(n - size[z] < n - size[y])
    BY <1>5, <1>6
  <2> QED
    BY <1>1, <1>2, <2>1
<1> QED
  BY <1>7 DEF size

\* rememberPublish accounts for the frame it caches, for the one it trims and for
\* the topic it evicts; evicting the largest topic makes room for the frame, which
\* its own topic holds.
LEMMA RememberAccounts ==
  ASSUME TypeOK, CacheAccounted, NEW x \in Topics, NEW e \in Entries, e.size > 0,
         Remember(x, e)
  PROVE  /\ cacheBytes' = Cardinality(TopicBytes(cache, Topics)')
         /\ cacheBytes' <= CacheBudget
<1> DEFINE g == Append(cache[x], e)
           kept == IF Len(g) > CacheSize THEN Tail(g) ELSE g
           C == [cache EXCEPT ![x] = kept]
           cut == TrimmedBytes(g)
           B == cacheBytes - cut + e.size
           size(y) == FrameBytes(C[y])
<1>1. /\ cache \in [Topics -> Seq(Entries)] /\ cache[x] \in Seq(Entries)
      /\ CacheSize \in Nat \ {0} /\ CacheBudget \in Nat
      /\ e.size \in Nat
  BY BoundsAssumption DEF TypeOK, Entries
<1>2. /\ cacheBytes = Cardinality(TopicBytes(cache, Topics)) /\ cacheBytes <= CacheBudget
      /\ cacheBytes \in Nat
  BY <1>1, CacheFinite DEF CacheAccounted
<1>3. g \in Seq(Entries) /\ g # <<>> /\ Len(g) = Len(cache[x]) + 1 /\ Tail(g) \in Seq(Entries)
  BY <1>1
<1>4. /\ FrameBytes(g) = FrameBytes(cache[x]) + e.size
      /\ FrameBytes(g) = g[1].size + FrameBytes(Tail(g))
      /\ FrameBytes(cache[x]) \in Nat /\ FrameBytes(Tail(g)) \in Nat
  BY <1>1, <1>3, BytesAppended, BytesTrimmed, BytesFinite
<1>5. kept \in Seq(Entries) /\ FrameBytes(kept) = FrameBytes(cache[x]) - cut + e.size
      /\ cut \in Nat /\ cut <= FrameBytes(cache[x])
  <2>1. CASE Len(g) > CacheSize
    <3>1. kept = Tail(g) /\ cut = g[1].size
      BY <2>1 DEF TrimmedBytes
    <3>2. cache[x] # <<>> /\ Len(cache[x]) >= 1 /\ g[1] = cache[x][1] /\ cache[x][1] \in Entries
      BY <1>1, <1>3, <2>1
    <3>3. cache[x][1].size \in Nat
      BY <3>2 DEF Entries
    <3>4. Tail(cache[x]) \in Seq(Entries)
      BY <1>1, <3>2
    <3>5. /\ FrameBytes(cache[x]) = cache[x][1].size + FrameBytes(Tail(cache[x]))
          /\ FrameBytes(Tail(cache[x])) \in Nat
      BY <1>1, <3>2, <3>4, BytesTrimmed, BytesFinite
    <3>6. cut = cache[x][1].size
      BY <3>1, <3>2
    <3> HIDE DEF kept, cut, g
    <3>7. FrameBytes(cache[x]) + e.size = cut + FrameBytes(kept)
      BY <1>4, <3>1
    <3>8. cut \in Nat /\ FrameBytes(cache[x]) = cut + FrameBytes(Tail(cache[x]))
      BY <3>3, <3>5, <3>6
    <3>9. FrameBytes(kept) \in Nat /\ kept \in Seq(Entries)
      BY <1>3, <1>4, <3>1
    <3>10. e.size \in Nat /\ FrameBytes(cache[x]) \in Nat
      BY <1>1, <1>4
    <3>11. FrameBytes(kept) = FrameBytes(cache[x]) - cut + e.size
      BY <3>7, <3>8, <3>9, <3>10
    <3>12. cut <= FrameBytes(cache[x])
      BY <3>5, <3>8
    <3> QED
      BY <3>8, <3>9, <3>11, <3>12
  <2>2. CASE ~(Len(g) > CacheSize)
    <3>1. kept = g /\ cut = 0
      BY <2>2 DEF TrimmedBytes
    <3> HIDE DEF kept, cut, g
    <3> QED
      BY <1>1, <1>3, <1>4, <3>1
  <2> QED
    BY <2>1, <2>2
<1>6. C \in [Topics -> Seq(Entries)] /\ C[x] = kept
  BY <1>1, <1>5
<1>7. PICK r \in Enforced(C, B) : cache' = r[1] /\ cacheBytes' = r[2]
  BY DEF Remember
<1> HIDE DEF g, kept, cut, C, B
<1>8. Cardinality(TopicBytes(C, Topics)) = B /\ FrameBytes(kept) >= e.size
  <2>1. Cardinality(TopicBytes(C, Topics)) = cacheBytes - FrameBytes(cache[x]) + FrameBytes(kept)
    BY <1>1, <1>2, <1>5, ShareReplaced DEF C
  <2> QED
    BY <1>1, <1>2, <1>4, <1>5, <2>1 DEF B
<1>9. CASE B <= CacheBudget
  <2>1. r = <<C, B>>
    BY <1>7, <1>9, Zenon DEF Enforced
  <2>2. cache' = C /\ cacheBytes' = B
    BY <1>7, <2>1
  <2> QED
    BY <1>8, <1>9, <2>2
<1>10. CASE ~(B <= CacheBudget)
  <2> DEFINE largest == {y \in Topics : size(y) > 0 /\ \A z \in Topics : size(z) <= size(y)}
  <2>1. PICK y \in Topics : \A z \in Topics : size(z) <= size(y)
    BY <1>6, LargestExists
  <2>2. size(y) > 0
    <3>1. size(x) = FrameBytes(kept) /\ size(x) <= size(y)
      BY <1>6, <2>1
    <3>2. size(y) \in Nat /\ FrameBytes(kept) \in Nat
      BY <1>5, <1>6, BytesFinite
    <3> QED
      BY <1>1, <1>8, <3>1, <3>2
  <2>3. largest # {}
    BY <2>1, <2>2
  <2>4. r \in {<<[C EXCEPT ![v] = <<>>], B - size(v)>> : v \in largest}
    BY <1>7, <1>10, <2>3, Zenon DEF Enforced
  <2>5. PICK v \in largest : r = <<[C EXCEPT ![v] = <<>>], B - size(v)>>
    BY <2>4
  <2>6. cache' = [C EXCEPT ![v] = <<>>] /\ cacheBytes' = B - size(v)
    BY <1>7, <2>5
  <2>7. v \in Topics /\ size(x) <= size(v) /\ size(x) = FrameBytes(kept)
    BY <1>6
  <2>8. size(v) \in Nat /\ FrameBytes(kept) \in Nat /\ B \in Int
    BY <1>1, <1>2, <1>5, <1>6, <2>7, BytesFinite DEF B
  <2> HIDE DEF size, largest
  <2>9. Cardinality(TopicBytes([C EXCEPT ![v] = <<>>], Topics)) = B - size(v)
    <3>1. <<>> \in Seq(Entries)
      OBVIOUS
    <3>2. Cardinality(TopicBytes([C EXCEPT ![v] = <<>>], Topics)) = B - size(v) + 0
      BY <1>6, <1>8, <2>7, <3>1, NoBytes, ShareReplaced DEF size
    <3> QED
      BY <2>8, <3>2
  <2>10. B - size(v) <= CacheBudget
    BY <1>1, <1>2, <1>5, <1>8, <2>7, <2>8 DEF B
  <2> QED
    BY <2>6, <2>9, <2>10
<1> QED
  BY <1>9, <1>10

\* Every action keeps the account: those that touch the cache by the lemmas above.
LEMMA AccountStep == TypeOK /\ TypeOK' /\ CacheAccounted /\ [Next]_vars => CacheAccounted'
<1> SUFFICES ASSUME TypeOK, TypeOK', CacheAccounted, [Next]_vars PROVE CacheAccounted'
  OBVIOUS
<1>0. UNCHANGED <<cache, cacheBytes>> => CacheAccounted'
  BY DEF CacheAccounted, TopicBytes
<1>00. cacheBytes' = Cardinality(TopicBytes(cache, Topics)') /\ cacheBytes' <= CacheBudget
       => CacheAccounted'
  BY DEF CacheAccounted, TypeOK
<1> USE <1>0, <1>00 DEF sessVars, topicVars, hndVars, pubVars, histVars
<1>1. ASSUME NEW c \in Conns, ClientStep(c) PROVE CacheAccounted'
  BY <1>1 DEF ClientStep, Connect, HangUp, RecvRefused, RecvOther, RecvHello, RecvSubscribe,
              Receives
<1>2. ASSUME NEW c \in Conns, AttachResume(c) \/ (\E t \in Tokens : AttachFresh(c, t))
                              \/ ReplayWrite(c) \/ ReplayDone(c) \/ Subscribe(c)
      PROVE  CacheAccounted'
  BY <1>2 DEF AttachResume, AttachFresh, ReplayWrite, ReplayDone, Subscribe
<1>3. ASSUME NEW c \in Conns, Unsubscribe(c) PROVE CacheAccounted'
  <2>1. {harg[c].topic} \in SUBSET Topics
    BY <1>3 DEF Unsubscribe, TypeOK
  <2>2. DropTopicCache({harg[c].topic}, subs', live, stopics')
    BY <1>3 DEF Unsubscribe
  <2> QED
    BY <2>1, <2>2, DropAccounts
<1>4. ASSUME NEW t \in Tokens, Expire(t) PROVE CacheAccounted'
  BY <1>4 DEF Expire
<1>5. CASE Reap
  <2> DEFINE X == UNION {stopics[t] : t \in stale \cap live}
  <2>1. X \in SUBSET Topics
    BY DEF TypeOK, SessionTypes
  <2>2. DropTopicCache(X, subs', live', stopics)
    BY <1>5 DEF Reap
  <2> HIDE DEF X
  <2> QED
    BY <2>1, <2>2, DropAccounts
<1>6. ASSUME NEW p \in Publishers, NEW z \in Sizes, PubRemember(p, z) PROVE CacheAccounted'
  <2>1. pub[p].topic \in Topics /\ pub[p] \in PublishCalls
    BY <1>6 DEF PubRemember, TypeOK
  <2>2. z \in Nat /\ z > 0
    BY BoundsAssumption
  <2>3. Entry(p, z) \in Entries /\ Entry(p, z).size = z
    BY <2>1, <2>2 DEF Entry, Entries, PublishCalls
  <2>4. Remember(pub[p].topic, Entry(p, z))
    BY <1>6 DEF PubRemember
  <2> QED
    BY <2>1, <2>2, <2>3, <2>4, RememberAccounts
<1>7. ASSUME NEW p \in Publishers, PubDrop(p) PROVE CacheAccounted'
  <2>1. {pub[p].topic} \in SUBSET Topics
    BY <1>7 DEF PubDrop, TypeOK
  <2>2. DropTopicCache({pub[p].topic}, subs', live, stopics)
    BY <1>7 DEF PubDrop
  <2> QED
    BY <2>1, <2>2, DropAccounts
<1>8. ASSUME NEW p \in Publishers,
             \/ \E x \in Topics : PubSnapshot(p, x)
             \/ \E c \in Conns : PubWrite(p, c) \/ PubWriteFails(p, c)
             \/ PubMint(p) \/ PubAdd(p) \/ PubTooLarge(p) \/ PubDone(p)
      PROVE  CacheAccounted'
  BY <1>8 DEF PubSnapshot, PubWrite, PubWriteFails, PubMint, PubAdd, PubTooLarge, PubDone
<1>9. CASE UNCHANGED vars
  BY <1>9 DEF vars
<1> QED
  BY <1>1, <1>2, <1>3, <1>4, <1>5, <1>6, <1>7, <1>8, <1>9
  DEF Next, HandlerStep, PublishStep

\* cacheBytes is the number of bytes the replay cache holds and within the budget,
\* for any number of topics, any frame sizes and any budget, however publishes,
\* trimming, eviction, sweeps and dropped topics interleave.
THEOREM CacheCorrect == Spec => []CacheAccounted
<1>1. Init => CacheAccounted
  <2> SUFFICES ASSUME Init PROVE CacheAccounted
    OBVIOUS
  <2>1. cacheBytes = 0 /\ \A x \in Topics : cache[x] = <<>>
    BY DEF Init
  <2>2. TopicBytes(cache, Topics) = {}
    BY <2>1, NoBytes DEF TopicBytes
  <2>3. \A x \in Topics : Len(cache[x]) = 0
    BY <2>1
  <2> QED
    BY <2>1, <2>2, <2>3, FS_EmptySet, BoundsAssumption DEF CacheAccounted
<1> QED
  BY <1>1, AccountStep, InvariantsHold, PTL DEF Spec
=============================================================================
