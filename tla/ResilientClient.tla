--------------------------- MODULE ResilientClient ---------------------------
(***************************************************************************)
(* pkg/proto/resilient.go: the client that reconnects.  Connect, the watch *)
(* goroutine it starts, reconnectLoop and swap are one thread per call of  *)
(* Connect (pc[t]): Connect ends where its watch goroutine begins.  A link *)
(* is one *Client with its connection.                                     *)
(*                                                                         *)
(* The server is what attachSession, handleSubscribe and the janitor of    *)
(* protocol.go do for one client: a session, named after the link whose    *)
(* HELLO minted it, records topics and is moved to the link that presents  *)
(* its token.  The HELLO of a link may be handled at any time after the    *)
(* dial, also when the client has given the link up.                       *)
(* Replay cursors are the subject of ReplayCursor.                         *)
(***************************************************************************)
EXTENDS Integers, FiniteSets

CONSTANTS Threads,  \* the calls of Connect
          Links,    \* bound: the connections of a behaviour
          Topics,
          MaxOps,   \* bound: the calls of Subscribe and Unsubscribe
          NoLink, NoTopic

ASSUME NoLinkAssumption == NoLink \notin Links
ASSUME NoTopicAssumption == NoTopic \notin Topics
ASSUME MaxOpsAssumption == MaxOps \in Nat

VARIABLES
  client,      \* rc.client
  token,       \* rc.token
  subscribed,  \* rc.subscribed
  closed,      \* rc.closed
  done,        \* rc.done is closed
  pc,          \* program counter of Connect, then of watch
  cur,         \* the link a thread dials, installs or watches
  old,         \* the link swap replaces
  todo,        \* topics swap has still to re-send
  link,        \* state of a link
  shown,       \* the token of its HELLO, until the server handles that
  given,       \* the token its HELLO was answered with
  sess,        \* connTokens: the session a link belongs to
  alive,       \* sessions the server knows
  topics,      \* topics a session records
  app,         \* the program's call of Subscribe or Unsubscribe
  ops,         \* calls made so far
  doubt,       \* history: topics whose list entry and record may differ
  owed         \* history: topics whose last re-send failed

rcVars   == <<client, token, subscribed, closed, done>>
loopVars == <<pc, cur, old, todo, owed>>
srvVars  == <<given, sess, alive, topics>>
appVars  == <<app, ops, doubt>>
linkVars == <<link, shown>>
vars == <<rcVars, loopVars, linkVars, srvVars, appVars>>

NoCall == [pc |-> "idle", verb |-> "none", topic |-> NoTopic, link |-> NoLink, steady |-> FALSE]

Init ==
  /\ client = NoLink
  /\ token = NoLink
  /\ subscribed = {}
  /\ closed = FALSE
  /\ done = FALSE
  /\ pc = [t \in Threads |-> "idle"]
  /\ cur = [t \in Threads |-> NoLink]
  /\ old = [t \in Threads |-> NoLink]
  /\ todo = [t \in Threads |-> {}]
  /\ link = [l \in Links |-> "unused"]
  /\ shown = [l \in Links |-> NoLink]
  /\ given = [l \in Links |-> NoLink]
  /\ sess = [l \in Links |-> NoLink]
  /\ alive = {}
  /\ topics = [l \in Links |-> {}]
  /\ app = NoCall
  /\ ops = 0
  /\ doubt = {}
  /\ owed = {}

Goto(t, label) == pc' = [pc EXCEPT ![t] = label]

\* Closing a link, NoLink for none.
LinkClosed(l) == [m \in Links |-> IF m = l THEN "down" ELSE link[m]]

-----------------------------------------------------------------------------
(* Connect and dialAndHandshake                                            *)

\* Connect's checks; a connected or closed client returns at once.  One call
\* that has not begun is as good as another.
Connect(t) ==
  /\ pc[t] = "idle"
  /\ t = CHOOSE u \in Threads : pc[u] = "idle"
  /\ Goto(t, IF closed \/ client # NoLink THEN "ended" ELSE "dial")
  /\ UNCHANGED <<rcVars, cur, old, todo, owed, linkVars, srvVars, appVars>>

\* Dial succeeds and HELLO presents the token of the moment.  One unused link is as
\* good as another.
Dial(t, l) ==
  /\ pc[t] \in {"dial", "redial"}
  /\ link[l] = "unused"
  /\ l = CHOOSE m \in Links : link[m] = "unused"
  /\ link' = [link EXCEPT ![l] = "up"]
  /\ shown' = [shown EXCEPT ![l] = token]
  /\ cur' = [cur EXCEPT ![t] = l]
  /\ Goto(t, IF pc[t] = "dial" THEN "hello" ELSE "rehello")
  /\ UNCHANGED <<rcVars, old, todo, owed, srvVars, appVars>>

\* Dial fails: Connect returns the error.  reconnectLoop waits and tries again,
\* a step that changes nothing here.
DialFails(t) ==
  /\ pc[t] = "dial"
  /\ Goto(t, "ended")
  /\ UNCHANGED <<rcVars, cur, old, todo, owed, linkVars, srvVars, appVars>>

\* attachSession: HELLO resumes the session of its token, which the previous link
\* loses, or mints one: the token is of no session, or of one past its TTL.
ServerHello(l) ==
  /\ link[l] # "unused" /\ given[l] = NoLink
  /\ \E s \in {l} \cup ({shown[l]} \cap alive) :
       /\ given' = [given EXCEPT ![l] = s]
       /\ sess' = [m \in Links |-> IF m = l THEN s ELSE IF sess[m] = s THEN NoLink ELSE sess[m]]
       /\ alive' = alive \cup {s}
  /\ shown' = [shown EXCEPT ![l] = NoLink]
  /\ UNCHANGED <<rcVars, loopVars, link, topics, appVars>>

\* The answer arrives.
Handshake(t) ==
  /\ pc[t] \in {"hello", "rehello"}
  /\ link[cur[t]] = "up" /\ given[cur[t]] # NoLink
  /\ Goto(t, "swap")
  /\ UNCHANGED <<rcVars, cur, old, todo, owed, linkVars, srvVars, appVars>>

\* It does not arrive in time; the server may have handled HELLO or may yet do so.
HandshakeFails(t) ==
  /\ pc[t] \in {"hello", "rehello"}
  /\ link' = LinkClosed(cur[t])
  /\ cur' = [cur EXCEPT ![t] = NoLink]
  /\ Goto(t, IF pc[t] = "hello" THEN "ended" ELSE "redial")
  /\ UNCHANGED <<rcVars, old, todo, owed, shown, srvVars, appVars>>

-----------------------------------------------------------------------------
(* swap                                                                    *)

\* A swap that does not look at closed.
IgnoresClose == FALSE

\* The check of rc.closed under the lock.
CloseWon == closed

\* A Close that came first: the new link is closed.
SwapRefused(t) ==
  /\ pc[t] = "swap"
  /\ CloseWon
  /\ link' = LinkClosed(cur[t])
  /\ cur' = [cur EXCEPT ![t] = NoLink]
  /\ Goto(t, "watch")
  /\ UNCHANGED <<rcVars, old, todo, owed, shown, srvVars, appVars>>

\* The token of the answer, and ~Resumed: the session was minted on this link.
TokenOf(l) == given[l]
Minted(l) == given[l] = l

\* A swap that leaves a new session without the topics.
NothingResent(l) == {}

\* The topics a swap to link l has to re-send.
ToResend(l) == IF Minted(l) THEN subscribed ELSE {}

\* A new session starts from the list; a resumed one that is not the client's last
\* may differ from it in every topic.
DoubtAfterSwap(l) ==
  IF Minted(l) THEN {} ELSE IF TokenOf(l) = token THEN doubt ELSE Topics

\* The new link is installed, with its token and a snapshot of the topics.
Swap(t) ==
  /\ pc[t] = "swap"
  /\ ~CloseWon
  /\ old' = [old EXCEPT ![t] = client]
  /\ client' = cur[t]
  /\ token' = TokenOf(cur[t])
  /\ todo' = [todo EXCEPT ![t] = ToResend(cur[t])]
  /\ doubt' = DoubtAfterSwap(cur[t])
  /\ app' = [app EXCEPT !.steady = @ /\ TokenOf(cur[t]) = token]
  /\ Goto(t, "closeOld")
  /\ UNCHANGED <<subscribed, closed, done, cur, owed, linkVars, srvVars, ops>>

SwapClosesOld(t) ==
  /\ pc[t] = "closeOld"
  /\ link' = LinkClosed(old[t])
  /\ old' = [old EXCEPT ![t] = NoLink]
  /\ Goto(t, "resend")
  /\ UNCHANGED <<rcVars, cur, todo, owed, shown, srvVars, appVars>>

\* The server handles SUBSCRIBE or UNSUBSCRIBE on a link.  Where the link has no
\* session the change is recorded in none.
ServerRecords(l, x, verb) ==
  topics' = [s \in Links |->
               IF s # sess[l] THEN topics[s]
               ELSE IF verb = "subscribe" THEN topics[s] \cup {x} ELSE topics[s] \ {x}]

\* A topic is re-sent on the new link; the request may fail, best effort, and the
\* server may have handled it all the same.
Resend(t, x) ==
  /\ pc[t] = "resend"
  /\ x \in todo[t]
  /\ todo' = [todo EXCEPT ![t] = @ \ {x}]
  /\ \/ /\ link[cur[t]] = "up"
        /\ ServerRecords(cur[t], x, "subscribe")
        /\ owed' = owed \ {x}
        /\ doubt' = IF sess[cur[t]] = NoLink THEN doubt \cup {x} ELSE doubt
     \/ /\ UNCHANGED topics \/ ServerRecords(cur[t], x, "subscribe")
        /\ owed' = owed \cup {x}
        /\ doubt' = doubt \cup {x}
  /\ UNCHANGED <<rcVars, pc, cur, old, linkVars, given, sess, alive, app, ops>>

SwapDone(t) ==
  /\ pc[t] = "resend"
  /\ todo[t] = {}
  /\ cur' = [cur EXCEPT ![t] = NoLink]
  /\ Goto(t, "watch")
  /\ UNCHANGED <<rcVars, old, todo, owed, linkVars, srvVars, appVars>>

-----------------------------------------------------------------------------
(* watch and reconnectLoop                                                 *)

Watch(t) ==
  /\ pc[t] = "watch"
  /\ cur' = [cur EXCEPT ![t] = IF closed THEN NoLink ELSE client]
  /\ Goto(t, IF closed \/ client = NoLink THEN "ended" ELSE "wait")
  /\ UNCHANGED <<rcVars, old, todo, owed, linkVars, srvVars, appVars>>

\* The watched link is gone.
LinkGone(t) ==
  /\ pc[t] = "wait"
  /\ link[cur[t]] = "down"
  /\ cur' = [cur EXCEPT ![t] = NoLink]
  /\ Goto(t, "redial")
  /\ UNCHANGED <<rcVars, old, todo, owed, linkVars, srvVars, appVars>>

\* rc.done ends the wait, the reconnect loop and its backoff.
SeesClose(t) == done /\ pc[t] \in {"wait", "redial"}

WatchEnds(t) ==
  /\ SeesClose(t)
  /\ cur' = [cur EXCEPT ![t] = NoLink]
  /\ Goto(t, "ended")
  /\ UNCHANGED <<rcVars, old, todo, owed, linkVars, srvVars, appVars>>

\* Close, the part under the lock ...
CloseMarks ==
  /\ ~closed
  /\ closed' = TRUE
  /\ UNCHANGED <<client, token, subscribed, done, loopVars, linkVars, srvVars, appVars>>

\* ... and the rest: the client read under the lock is closed.  The client does
\* not change any more, since swap refuses.
CloseEnds ==
  /\ closed /\ ~done
  /\ done' = TRUE
  /\ link' = LinkClosed(client)
  /\ UNCHANGED <<client, token, subscribed, closed, loopVars, shown, srvVars, appVars>>

-----------------------------------------------------------------------------
(* Subscribe and Unsubscribe, one call at a time.                          *)

\* current(): the call goes out on the link of the moment.  It is steady as long as
\* the client's session stays the same, no re-send of its topic is under way and the
\* server has the link with the session.
AppCalls(x, verb) ==
  /\ app.pc = "idle"
  /\ ops < MaxOps
  /\ ~closed /\ client # NoLink
  /\ ops' = ops + 1
  /\ app' = [pc |-> "send", verb |-> verb, topic |-> x, link |-> client,
             steady |-> \A t \in Threads : x \notin todo[t]]
  /\ UNCHANGED <<rcVars, loopVars, linkVars, srvVars, doubt>>

\* The server records it and the answer arrives.
AppAnswered ==
  /\ app.pc = "send"
  /\ link[app.link] = "up"
  /\ ServerRecords(app.link, app.topic, app.verb)
  /\ app' = [app EXCEPT !.pc = "record", !.steady = @ /\ sess[app.link] # NoLink]
  /\ UNCHANGED <<rcVars, loopVars, linkVars, given, sess, alive, ops, doubt>>

\* The call fails, whether the server has handled it or not.
AppFails ==
  /\ app.pc = "send"
  /\ UNCHANGED topics \/ ServerRecords(app.link, app.topic, app.verb)
  /\ doubt' = doubt \cup {app.topic}
  /\ app' = NoCall
  /\ UNCHANGED <<rcVars, loopVars, linkVars, given, sess, alive, ops>>

\* rc.subscribed after the answer.
Remembered == IF app.verb = "subscribe" THEN subscribed \cup {app.topic}
                                        ELSE subscribed \ {app.topic}

AppRecords ==
  /\ app.pc = "record"
  /\ subscribed' = Remembered
  /\ doubt' = IF app.steady THEN doubt \ {app.topic} ELSE doubt \cup {app.topic}
  /\ app' = NoCall
  /\ UNCHANGED <<client, token, closed, done, loopVars, linkVars, srvVars, ops>>

-----------------------------------------------------------------------------
(* The environment                                                         *)

Drop(l) ==
  /\ link[l] = "up"
  /\ link' = [link EXCEPT ![l] = "down"]
  /\ UNCHANGED <<rcVars, loopVars, shown, srvVars, appVars>>

\* The server forgets a session, with or without a transport: the janitor finds a
\* silent one past its TTL, or the server restarts.
Expire(s) ==
  /\ s \in alive
  /\ alive' = alive \ {s}
  /\ sess' = [l \in Links |-> IF sess[l] = s THEN NoLink ELSE sess[l]]
  /\ topics' = [topics EXCEPT ![s] = {}]
  /\ UNCHANGED <<rcVars, loopVars, linkVars, given, appVars>>

-----------------------------------------------------------------------------
ThreadStep(t) ==
  \/ DialFails(t) \/ Handshake(t) \/ HandshakeFails(t)
  \/ SwapRefused(t) \/ Swap(t) \/ SwapClosesOld(t) \/ SwapDone(t)
  \/ Watch(t) \/ LinkGone(t) \/ WatchEnds(t)
  \/ \E l \in Links : Dial(t, l)
  \/ \E x \in Topics : Resend(t, x)

AppStep == AppAnswered \/ AppFails \/ AppRecords

Next ==
  \/ \E t \in Threads : Connect(t) \/ ThreadStep(t)
  \/ \E x \in Topics, verb \in {"subscribe", "unsubscribe"} : AppCalls(x, verb)
  \/ AppStep
  \/ CloseMarks \/ CloseEnds
  \/ \E l \in Links : Drop(l) \/ ServerHello(l) \/ Expire(l)

Spec == Init /\ [][Next]_vars

(* Fairness: the threads run and a Close that has begun goes on.  No link    *)
(* has to drop, no server has to answer and nobody has to call anything.     *)
Fairness ==
  /\ \A t \in Threads : WF_vars(ThreadStep(t))
  /\ WF_vars(CloseEnds)

FairSpec == Spec /\ Fairness

-----------------------------------------------------------------------------
(* Properties *)

Labels == {"idle", "dial", "redial", "hello", "rehello", "swap", "closeOld",
           "resend", "watch", "wait", "ended"}

Calls == [pc : {"idle", "send", "record"}, verb : {"none", "subscribe", "unsubscribe"},
          topic : Topics \cup {NoTopic}, link : Links \cup {NoLink}, steady : BOOLEAN]

\* Every variable has its type and a thread past Dial has a link.
TypeOK ==
  /\ client \in Links \cup {NoLink} /\ token \in Links \cup {NoLink}
  /\ subscribed \subseteq Topics
  /\ closed \in BOOLEAN /\ done \in BOOLEAN
  /\ pc \in [Threads -> Labels]
  /\ cur \in [Threads -> Links \cup {NoLink}]
  /\ \A t \in Threads :
       pc[t] \in {"hello", "rehello", "swap", "closeOld", "resend", "wait"} =>
         cur[t] \in Links
  /\ old \in [Threads -> Links \cup {NoLink}]
  /\ todo \in [Threads -> SUBSET Topics]
  /\ link \in [Links -> {"unused", "up", "down"}]
  /\ shown \in [Links -> Links \cup {NoLink}]
  /\ given \in [Links -> Links \cup {NoLink}]
  /\ sess \in [Links -> Links \cup {NoLink}]
  /\ alive \subseteq Links
  /\ topics \in [Links -> SUBSET Topics]
  /\ app \in Calls
  /\ app.pc # "idle" => app.topic \in Topics /\ app.link \in Links
  /\ ops \in 0 .. MaxOps
  /\ doubt \subseteq Topics /\ owed \subseteq Topics

\* The program has no call in flight, no swap is going on, and the server knows the
\* session whose token the next reconnect presents.
Settled ==
  /\ app.pc = "idle"
  /\ \A t \in Threads : pc[t] \notin {"closeOld", "resend"}
  /\ token \in alive

\* What a reconnect will restore is what the client lists: the session of its token
\* records exactly its topics, across drops, lost and expired sessions, late and
\* half-done handshakes and concurrent Connects.  The topics in doubt are those whose
\* last call or re-send failed or found the link without its session, or whose last
\* call overlapped a swap to another session or a re-send of the topic, and all of
\* them after a swap that resumed another session than the client's.
ListMatchesServer ==
  Settled => \A x \in Topics \ doubt : x \in subscribed <=> x \in topics[token]

\* A closed client leaves no connection open and its goroutines end, also when
\* Close comes between a dial and its swap.
CloseLeavesNothing ==
  []<>closed => <>[](/\ \A l \in Links : link[l] # "up"
                    /\ \A t \in Threads : pc[t] \in {"idle", "ended"})

-----------------------------------------------------------------------------
(* What the comments of resilient.go say and the code does not do.         *)

\* resilient.go:214-216, 54-55: Connect is idempotent and safe for concurrent
\* use, so a reconnect never closes a link that is up.
ReconnectReplacesDeadLink ==
  \A t \in Threads : pc[t] = "closeOld" /\ old[t] # NoLink => link[old[t]] = "down"

\* resilient.go:465-466: topics that fail to be re-sent are retried on the next
\* reconnect: the next swap re-sends them.
FailedTopicIsRetried ==
  \A t \in Threads : pc[t] = "closeOld" => owed \cap subscribed \subseteq todo[t]

\* resilient.go:254-256: a subscription survives reconnections.
SubscriptionSurvives == Settled => subscribed \ owed \subseteq topics[token]

\* resilient.go:292: Unsubscribe forgets a topic: no swap re-sends it afterwards.
UnsubscribeForgets == \A t \in Threads : todo[t] \subseteq subscribed

\* resilient.go:45-48: a reconnect resumes the session, so that topics stay
\* subscribed: the server has the session on the client's link.
SessionOnLink == Settled /\ link[client] = "up" => sess[client] = token
=============================================================================
