------------------------ MODULE ResilientClientProofs ------------------------
(***************************************************************************)
(* Proofs about ResilientClient, for any number of calls of Connect, links *)
(* and topics.                                                             *)
(*                                                                         *)
(* ListMatchesServer rests on which tokens are about: a link that a        *)
(* handshake has not installed yet is private, its session empty and its   *)
(* token shown by nobody (PrivateLinks), so a session minted on it belongs *)
(* to the swap that installs it, which re-sends the whole list.  From then *)
(* on the session of the token and the list differ only in what that swap  *)
(* has still to re-send, in the call being recorded and in the topics in   *)
(* doubt (SessionMatches).  A late HELLO moves the session to another link *)
(* but leaves its topics alone, and a session once forgotten never returns.*)
(***************************************************************************)
EXTENDS ResilientClient, TLAPS

\* A thread between its dial and its swap, and one that swaps.
Installing(t) == pc[t] \in {"hello", "rehello", "swap"}
Installed(t) == pc[t] \in {"closeOld", "resend"}

\* A link belongs to the session it was answered with or to none, and a session
\* that was answered, presented or recorded was minted on the link of its name.
SessionsMinted ==
  /\ \A l \in Links : sess[l] = NoLink \/ sess[l] = given[l]
  /\ \A l \in Links : given[l] # NoLink => given[given[l]] = given[l]
  /\ \A l \in Links : shown[l] # NoLink => given[shown[l]] = shown[l]
  /\ \A s \in alive : given[s] = s
  /\ \A l \in Links : link[l] = "unused" => given[l] = NoLink

\* What the client holds was dialled, and its token is the answer on its link.
ClientInUse ==
  /\ client = NoLink => token = NoLink
  /\ client # NoLink => /\ link[client] # "unused"
                        /\ token = given[client] /\ token # NoLink
  /\ app.pc # "idle" => link[app.link] # "unused" /\ given[app.link] # NoLink
  /\ \A t \in Threads : Installing(t) \/ Installed(t) => link[cur[t]] # "unused"
  /\ \A t \in Threads : pc[t] = "swap" => given[cur[t]] # NoLink

\* Nobody but the thread that dialled link l knows of it.
Private(l) ==
  /\ client # l /\ token # l /\ topics[l] = {}
  /\ app.pc # "idle" => app.link # l
  /\ \A m \in Links : shown[m] # l /\ (given[m] = l => m = l)
  /\ \A t \in Threads : Installed(t) => cur[t] # l

PrivateLinks ==
  /\ \A l \in Links : link[l] = "unused" => Private(l)
  /\ \A t \in Threads : Installing(t) => Private(cur[t])
  /\ \A t, u \in Threads : Installing(t) /\ Installing(u) /\ t # u => cur[t] # cur[u]

\* A thread re-sends only to a session minted on its link, and a steady call is
\* about the client's session and a topic nobody re-sends.
CallsAndResends ==
  /\ \A t \in Threads : todo[t] # {} => Installed(t) /\ Minted(cur[t])
  /\ app.pc # "idle" /\ app.steady =>
       /\ given[app.link] = token
       /\ \A t \in Threads : app.topic \notin todo[t]

\* A topic is still to be re-sent to the session of the token.
StillToResend(x) ==
  \E t \in Threads : Installed(t) /\ cur[t] = token /\ x \in todo[t]

\* The session of the token records what is listed, but for the call whose answer is
\* not recorded yet, what is still to be re-sent and what is in doubt.
SessionMatches ==
  token \in alive =>
    \A x \in Topics :
      IF app.pc = "record" /\ app.topic = x
        THEN app.steady => (x \in topics[token] <=> app.verb = "subscribe")
        ELSE x \in doubt \/ (x \in subscribed <=> x \in topics[token] \/ StillToResend(x))

\* The invariant of ListMatchesServer.
ListInv ==
  SessionsMinted /\ ClientInUse /\ PrivateLinks /\ CallsAndResends /\ SessionMatches

-----------------------------------------------------------------------------
\* Every step keeps the types: threads, call, links and sessions.
LEMMA TypeStep == TypeOK /\ [Next]_vars => TypeOK'
<1> SUFFICES ASSUME TypeOK, [Next]_vars PROVE TypeOK'
  OBVIOUS
<1> USE MaxOpsAssumption DEF TypeOK, Calls, Labels, rcVars, loopVars, linkVars, srvVars, appVars, Goto, LinkClosed
<1>1. ASSUME NEW t \in Threads, Connect(t) PROVE TypeOK'
  BY <1>1 DEF Connect
<1>2. ASSUME NEW t \in Threads, NEW l \in Links, Dial(t, l) PROVE TypeOK'
  BY <1>2 DEF Dial
<1>3. ASSUME NEW t \in Threads, DialFails(t) PROVE TypeOK'
  BY <1>3 DEF DialFails
<1>4. ASSUME NEW l \in Links, ServerHello(l) PROVE TypeOK'
  BY <1>4 DEF ServerHello
<1>5. ASSUME NEW t \in Threads, Handshake(t) PROVE TypeOK'
  BY <1>5 DEF Handshake
<1>6. ASSUME NEW t \in Threads, HandshakeFails(t) PROVE TypeOK'
  BY <1>6 DEF HandshakeFails
<1>7. ASSUME NEW t \in Threads, SwapRefused(t) PROVE TypeOK'
  BY <1>7 DEF SwapRefused
<1>8. ASSUME NEW t \in Threads, Swap(t) PROVE TypeOK'
  BY <1>8 DEF Swap, TokenOf, Minted, ToResend, DoubtAfterSwap
<1>9. ASSUME NEW t \in Threads, SwapClosesOld(t) PROVE TypeOK'
  BY <1>9 DEF SwapClosesOld
<1>10. ASSUME NEW t \in Threads, NEW x \in Topics, Resend(t, x) PROVE TypeOK'
  BY <1>10 DEF Resend, ServerRecords
<1>11. ASSUME NEW t \in Threads, SwapDone(t) PROVE TypeOK'
  BY <1>11 DEF SwapDone
<1>12. ASSUME NEW t \in Threads, Watch(t) PROVE TypeOK'
  BY <1>12 DEF Watch
<1>13. ASSUME NEW t \in Threads, LinkGone(t) PROVE TypeOK'
  BY <1>13 DEF LinkGone
<1>14. ASSUME NEW t \in Threads, WatchEnds(t) PROVE TypeOK'
  BY <1>14 DEF WatchEnds, SeesClose
<1>15. ASSUME NEW x \in Topics, NEW verb \in {"subscribe", "unsubscribe"},
            AppCalls(x, verb)
      PROVE TypeOK'
  BY <1>15 DEF AppCalls
<1>16. CASE AppAnswered
  BY <1>16 DEF AppAnswered, ServerRecords
<1>17. CASE AppFails
  BY <1>17 DEF AppFails, ServerRecords, NoCall
<1>18. CASE AppRecords
  BY <1>18 DEF AppRecords, Remembered, NoCall
<1>19. CASE CloseMarks
  BY <1>19 DEF CloseMarks
<1>20. CASE CloseEnds
  BY <1>20 DEF CloseEnds
<1>21. ASSUME NEW l \in Links, Drop(l) PROVE TypeOK'
  BY <1>21 DEF Drop
<1>22. ASSUME NEW s \in Links, Expire(s) PROVE TypeOK'
  BY <1>22 DEF Expire
<1>23. CASE UNCHANGED vars
  BY <1>23 DEF vars
<1> QED
  BY <1>1, <1>2, <1>3, <1>4, <1>5, <1>6, <1>7, <1>8, <1>9, <1>10,
     <1>11, <1>12, <1>13, <1>14, <1>15, <1>16, <1>17, <1>18, <1>19, <1>20,
     <1>21, <1>22, <1>23
  DEF Next, ThreadStep, AppStep

\* Every variable of the reconnecting client keeps its type, and a thread that
\* handshakes, installs, re-sends or watches has a link.
THEOREM ResilientTypeCorrect == Spec => []TypeOK
<1>1. Init => TypeOK
  <2> SUFFICES ASSUME Init PROVE TypeOK
    OBVIOUS
  <2>1. app \in Calls /\ app.pc = "idle"
    BY DEF Init, NoCall, Calls
  <2>2. ops \in 0 .. MaxOps
    BY MaxOpsAssumption DEF Init
  <2>3. pc \in [Threads -> Labels] /\ \A t \in Threads : pc[t] = "idle"
    BY DEF Init, Labels
  <2>4. closed \in BOOLEAN /\ done \in BOOLEAN
    BY Zenon DEF Init
  <2> QED
    BY <2>1, <2>2, <2>3, <2>4 DEF Init, TypeOK
<1> QED
  BY <1>1, TypeStep, PTL DEF Spec

-----------------------------------------------------------------------------
\* Sessions are minted by HELLO and by nothing else.
LEMMA SessionsStep == TypeOK /\ SessionsMinted /\ ClientInUse /\ [Next]_vars => SessionsMinted'
<1> SUFFICES ASSUME TypeOK, SessionsMinted, ClientInUse, [Next]_vars PROVE SessionsMinted'
  OBVIOUS
<1> USE NoLinkAssumption DEF TypeOK, Calls, Labels, rcVars, loopVars, linkVars, srvVars, appVars, Goto, LinkClosed, SessionsMinted, ClientInUse
<1>1. ASSUME NEW t \in Threads, Connect(t) PROVE SessionsMinted'
  BY <1>1 DEF Connect
<1>2. ASSUME NEW t \in Threads, NEW l \in Links, Dial(t, l) PROVE SessionsMinted'
  BY <1>2 DEF Dial
<1>3. ASSUME NEW t \in Threads, DialFails(t) PROVE SessionsMinted'
  BY <1>3 DEF DialFails
<1>4. ASSUME NEW l \in Links, ServerHello(l) PROVE SessionsMinted'
  BY <1>4 DEF ServerHello
<1>5. ASSUME NEW t \in Threads, Handshake(t) PROVE SessionsMinted'
  BY <1>5 DEF Handshake
<1>6. ASSUME NEW t \in Threads, HandshakeFails(t) PROVE SessionsMinted'
  BY <1>6 DEF HandshakeFails
<1>7. ASSUME NEW t \in Threads, SwapRefused(t) PROVE SessionsMinted'
  BY <1>7 DEF SwapRefused
<1>8. ASSUME NEW t \in Threads, Swap(t) PROVE SessionsMinted'
  BY <1>8 DEF Swap, TokenOf, Minted, ToResend, DoubtAfterSwap
<1>9. ASSUME NEW t \in Threads, SwapClosesOld(t) PROVE SessionsMinted'
  BY <1>9 DEF SwapClosesOld
<1>10. ASSUME NEW t \in Threads, NEW x \in Topics, Resend(t, x) PROVE SessionsMinted'
  BY <1>10 DEF Resend, ServerRecords
<1>11. ASSUME NEW t \in Threads, SwapDone(t) PROVE SessionsMinted'
  BY <1>11 DEF SwapDone
<1>12. ASSUME NEW t \in Threads, Watch(t) PROVE SessionsMinted'
  BY <1>12 DEF Watch
<1>13. ASSUME NEW t \in Threads, LinkGone(t) PROVE SessionsMinted'
  BY <1>13 DEF LinkGone
<1>14. ASSUME NEW t \in Threads, WatchEnds(t) PROVE SessionsMinted'
  BY <1>14 DEF WatchEnds, SeesClose
<1>15. ASSUME NEW x \in Topics, NEW verb \in {"subscribe", "unsubscribe"},
            AppCalls(x, verb)
      PROVE SessionsMinted'
  BY <1>15 DEF AppCalls
<1>16. CASE AppAnswered
  BY <1>16 DEF AppAnswered, ServerRecords
<1>17. CASE AppFails
  BY <1>17 DEF AppFails, ServerRecords, NoCall
<1>18. CASE AppRecords
  BY <1>18 DEF AppRecords, Remembered, NoCall
<1>19. CASE CloseMarks
  BY <1>19 DEF CloseMarks
<1>20. CASE CloseEnds
  BY <1>20 DEF CloseEnds
<1>21. ASSUME NEW l \in Links, Drop(l) PROVE SessionsMinted'
  BY <1>21 DEF Drop
<1>22. ASSUME NEW s \in Links, Expire(s) PROVE SessionsMinted'
  BY <1>22 DEF Expire
<1>23. CASE UNCHANGED vars
  BY <1>23 DEF vars
<1> QED
  BY <1>1, <1>2, <1>3, <1>4, <1>5, <1>6, <1>7, <1>8, <1>9, <1>10,
     <1>11, <1>12, <1>13, <1>14, <1>15, <1>16, <1>17, <1>18, <1>19, <1>20,
     <1>21, <1>22, <1>23
  DEF Next, ThreadStep, AppStep

\* What is in use was dialled and answered.
LEMMA InUseStep == TypeOK /\ SessionsMinted /\ ClientInUse /\ [Next]_vars => ClientInUse'
<1> SUFFICES ASSUME TypeOK, SessionsMinted, ClientInUse, [Next]_vars PROVE ClientInUse'
  OBVIOUS
<1> USE NoLinkAssumption DEF TypeOK, Calls, Labels, rcVars, loopVars, linkVars, srvVars, appVars, Goto, Installing, Installed, LinkClosed, ClientInUse
<1>1. ASSUME NEW t \in Threads, Connect(t) PROVE ClientInUse'
  BY <1>1 DEF Connect
<1>2. ASSUME NEW t \in Threads, NEW l \in Links, Dial(t, l) PROVE ClientInUse'
  BY <1>2 DEF Dial
<1>3. ASSUME NEW t \in Threads, DialFails(t) PROVE ClientInUse'
  BY <1>3 DEF DialFails
<1>4. ASSUME NEW l \in Links, ServerHello(l) PROVE ClientInUse'
  BY <1>4 DEF ServerHello
<1>5. ASSUME NEW t \in Threads, Handshake(t) PROVE ClientInUse'
  BY <1>5 DEF Handshake
<1>6. ASSUME NEW t \in Threads, HandshakeFails(t) PROVE ClientInUse'
  BY <1>6 DEF HandshakeFails
<1>7. ASSUME NEW t \in Threads, SwapRefused(t) PROVE ClientInUse'
  BY <1>7 DEF SwapRefused
<1>8. ASSUME NEW t \in Threads, Swap(t) PROVE ClientInUse'
  BY <1>8 DEF Swap, TokenOf, Minted, ToResend, DoubtAfterSwap
<1>9. ASSUME NEW t \in Threads, SwapClosesOld(t) PROVE ClientInUse'
  BY <1>9 DEF SwapClosesOld
<1>10. ASSUME NEW t \in Threads, NEW x \in Topics, Resend(t, x) PROVE ClientInUse'
  BY <1>10 DEF Resend, ServerRecords
<1>11. ASSUME NEW t \in Threads, SwapDone(t) PROVE ClientInUse'
  BY <1>11 DEF SwapDone
<1>12. ASSUME NEW t \in Threads, Watch(t) PROVE ClientInUse'
  BY <1>12 DEF Watch
<1>13. ASSUME NEW t \in Threads, LinkGone(t) PROVE ClientInUse'
  BY <1>13 DEF LinkGone
<1>14. ASSUME NEW t \in Threads, WatchEnds(t) PROVE ClientInUse'
  BY <1>14 DEF WatchEnds, SeesClose
<1>15. ASSUME NEW x \in Topics, NEW verb \in {"subscribe", "unsubscribe"},
            AppCalls(x, verb)
      PROVE ClientInUse'
  BY <1>15 DEF AppCalls
<1>16. CASE AppAnswered
  BY <1>16 DEF AppAnswered, ServerRecords
<1>17. CASE AppFails
  BY <1>17 DEF AppFails, ServerRecords, NoCall
<1>18. CASE AppRecords
  BY <1>18 DEF AppRecords, Remembered, NoCall
<1>19. CASE CloseMarks
  BY <1>19 DEF CloseMarks
<1>20. CASE CloseEnds
  BY <1>20 DEF CloseEnds
<1>21. ASSUME NEW l \in Links, Drop(l) PROVE ClientInUse'
  BY <1>21 DEF Drop
<1>22. ASSUME NEW s \in Links, Expire(s) PROVE ClientInUse'
  BY <1>22 DEF Expire
<1>23. CASE UNCHANGED vars
  BY <1>23 DEF vars
<1> QED
  BY <1>1, <1>2, <1>3, <1>4, <1>5, <1>6, <1>7, <1>8, <1>9, <1>10,
     <1>11, <1>12, <1>13, <1>14, <1>15, <1>16, <1>17, <1>18, <1>19, <1>20,
     <1>21, <1>22, <1>23
  DEF Next, ThreadStep, AppStep

\* A change recorded for another link leaves a private session empty.
LEMMA PrivateRecords ==
  ASSUME TypeOK, SessionsMinted, NEW k \in Links, NEW x, NEW verb, ServerRecords(k, x, verb),
         NEW l \in Links, Private(l), k # l
  PROVE  topics'[l] = {}
<1>1. sess[k] # l
  BY NoLinkAssumption DEF SessionsMinted, Private
<1> QED
  BY <1>1 DEF TypeOK, ServerRecords, Private

\* A link stays private until its swap.
LEMMA PrivateStep == TypeOK /\ SessionsMinted /\ ClientInUse /\ PrivateLinks /\ [Next]_vars => PrivateLinks'
<1> SUFFICES ASSUME TypeOK, SessionsMinted, ClientInUse, PrivateLinks, [Next]_vars PROVE PrivateLinks'
  OBVIOUS
<1> USE NoLinkAssumption DEF TypeOK, Calls, Labels, rcVars, loopVars, linkVars, srvVars, appVars, Goto, Installing, Installed, LinkClosed, ClientInUse, PrivateLinks, Private
<1>1. ASSUME NEW t \in Threads, Connect(t) PROVE PrivateLinks'
  BY <1>1 DEF Connect
<1>2. ASSUME NEW t \in Threads, NEW l \in Links, Dial(t, l) PROVE PrivateLinks'
  BY <1>2 DEF Dial
<1>3. ASSUME NEW t \in Threads, DialFails(t) PROVE PrivateLinks'
  BY <1>3 DEF DialFails
<1>4. ASSUME NEW l \in Links, ServerHello(l) PROVE PrivateLinks'
  BY <1>4 DEF ServerHello
<1>5. ASSUME NEW t \in Threads, Handshake(t) PROVE PrivateLinks'
  BY <1>5 DEF Handshake
<1>6. ASSUME NEW t \in Threads, HandshakeFails(t) PROVE PrivateLinks'
  BY <1>6 DEF HandshakeFails
<1>7. ASSUME NEW t \in Threads, SwapRefused(t) PROVE PrivateLinks'
  BY <1>7 DEF SwapRefused
<1>8. ASSUME NEW t \in Threads, Swap(t) PROVE PrivateLinks'
  BY <1>8 DEF Swap, TokenOf, Minted, ToResend, DoubtAfterSwap
<1>9. ASSUME NEW t \in Threads, SwapClosesOld(t) PROVE PrivateLinks'
  BY <1>9 DEF SwapClosesOld
<1>10. ASSUME NEW t \in Threads, NEW x \in Topics, Resend(t, x) PROVE PrivateLinks'
  <2>1. UNCHANGED <<client, token, cur, link, shown, given>>
    BY <1>10 DEF Resend
  <2>2. \A t0 \in Threads : (Installing(t0)' <=> Installing(t0)) /\ (Installed(t0)' <=> Installed(t0))
    BY <1>10 DEF Resend
  <2>3. app'.pc # "idle" => app.pc # "idle" /\ app'.link = app.link
    BY <1>10 DEF Resend
  <2>4. ASSUME NEW l \in Links, Private(l) PROVE topics'[l] = {}
    <3>1. topics' = topics \/ ServerRecords(cur[t], x, "subscribe")
      BY <1>10 DEF Resend
    <3>2. cur[t] \in Links /\ cur[t] # l
      BY <1>10, <2>4 DEF Resend
    <3>3. topics[l] = {}
      BY <2>4
    <3> QED
      BY <3>1, <3>2, <3>3, <2>4, PrivateRecords
  <2>5. \A l \in Links : Private(l) => Private(l)'
    BY <2>1, <2>2, <2>3, <2>4
  <2>6. \A t0 \in Threads : Installing(t0) => cur[t0] \in Links
    OBVIOUS
  <2> HIDE DEF Private, Installing, Installed
  <2> QED
    BY <2>1, <2>2, <2>5, <2>6
<1>11. ASSUME NEW t \in Threads, SwapDone(t) PROVE PrivateLinks'
  BY <1>11 DEF SwapDone
<1>12. ASSUME NEW t \in Threads, Watch(t) PROVE PrivateLinks'
  BY <1>12 DEF Watch
<1>13. ASSUME NEW t \in Threads, LinkGone(t) PROVE PrivateLinks'
  BY <1>13 DEF LinkGone
<1>14. ASSUME NEW t \in Threads, WatchEnds(t) PROVE PrivateLinks'
  BY <1>14 DEF WatchEnds, SeesClose
<1>15. ASSUME NEW x \in Topics, NEW verb \in {"subscribe", "unsubscribe"},
            AppCalls(x, verb)
      PROVE PrivateLinks'
  BY <1>15 DEF AppCalls
<1>16. CASE AppAnswered
  <2>1. UNCHANGED <<client, token, cur, link, shown, given>>
    BY <1>16 DEF AppAnswered
  <2>2. \A t0 \in Threads : (Installing(t0)' <=> Installing(t0)) /\ (Installed(t0)' <=> Installed(t0))
    BY <1>16 DEF AppAnswered
  <2>3. app'.pc # "idle" => app.pc # "idle" /\ app'.link = app.link
    BY <1>16 DEF AppAnswered
  <2>4. ASSUME NEW l \in Links, Private(l) PROVE topics'[l] = {}
    <3>1. topics' = topics \/ ServerRecords(app.link, app.topic, app.verb)
      BY <1>16 DEF AppAnswered
    <3>2. app.link \in Links /\ app.link # l
      BY <1>16, <2>4 DEF AppAnswered
    <3>3. topics[l] = {}
      BY <2>4
    <3> QED
      BY <3>1, <3>2, <3>3, <2>4, PrivateRecords
  <2>5. \A l \in Links : Private(l) => Private(l)'
    BY <2>1, <2>2, <2>3, <2>4
  <2>6. \A t0 \in Threads : Installing(t0) => cur[t0] \in Links
    OBVIOUS
  <2> HIDE DEF Private, Installing, Installed
  <2> QED
    BY <2>1, <2>2, <2>5, <2>6
<1>17. CASE AppFails
  <2>1. UNCHANGED <<client, token, cur, link, shown, given>>
    BY <1>17 DEF AppFails, NoCall
  <2>2. \A t0 \in Threads : (Installing(t0)' <=> Installing(t0)) /\ (Installed(t0)' <=> Installed(t0))
    BY <1>17 DEF AppFails, NoCall
  <2>3. app'.pc # "idle" => app.pc # "idle" /\ app'.link = app.link
    BY <1>17 DEF AppFails, NoCall
  <2>4. ASSUME NEW l \in Links, Private(l) PROVE topics'[l] = {}
    <3>1. topics' = topics \/ ServerRecords(app.link, app.topic, app.verb)
      BY <1>17 DEF AppFails, NoCall
    <3>2. app.link \in Links /\ app.link # l
      BY <1>17, <2>4 DEF AppFails, NoCall
    <3>3. topics[l] = {}
      BY <2>4
    <3> QED
      BY <3>1, <3>2, <3>3, <2>4, PrivateRecords
  <2>5. \A l \in Links : Private(l) => Private(l)'
    BY <2>1, <2>2, <2>3, <2>4
  <2>6. \A t0 \in Threads : Installing(t0) => cur[t0] \in Links
    OBVIOUS
  <2> HIDE DEF Private, Installing, Installed
  <2> QED
    BY <2>1, <2>2, <2>5, <2>6
<1>18. CASE AppRecords
  BY <1>18 DEF AppRecords, Remembered, NoCall
<1>19. CASE CloseMarks
  BY <1>19 DEF CloseMarks
<1>20. CASE CloseEnds
  BY <1>20 DEF CloseEnds
<1>21. ASSUME NEW l \in Links, Drop(l) PROVE PrivateLinks'
  BY <1>21 DEF Drop
<1>22. ASSUME NEW s \in Links, Expire(s) PROVE PrivateLinks'
  BY <1>22 DEF Expire
<1>23. CASE UNCHANGED vars
  BY <1>23 DEF vars
<1> HIDE DEF PrivateLinks
<1> QED
  BY <1>1, <1>2, <1>3, <1>4, <1>5, <1>6, <1>7, <1>8, <1>9, <1>10,
     <1>11, <1>12, <1>13, <1>14, <1>15, <1>16, <1>17, <1>18, <1>19, <1>20,
     <1>21, <1>22, <1>23
  DEF Next, ThreadStep, AppStep
\* A swap to another session ends the steadiness of a call; a minted one is another.
LEMMA CallsStep == TypeOK /\ SessionsMinted /\ ClientInUse /\ PrivateLinks /\ CallsAndResends /\ [Next]_vars => CallsAndResends'
<1> SUFFICES ASSUME TypeOK, SessionsMinted, ClientInUse, PrivateLinks, CallsAndResends, [Next]_vars PROVE CallsAndResends'
  OBVIOUS
<1> USE NoLinkAssumption DEF TypeOK, Calls, Labels, rcVars, loopVars, linkVars, srvVars, appVars, Goto, Installing, Installed,
        CallsAndResends, Minted
<1>1. ASSUME NEW t \in Threads, Connect(t) PROVE CallsAndResends'
  BY <1>1 DEF Connect
<1>2. ASSUME NEW t \in Threads, NEW l \in Links, Dial(t, l) PROVE CallsAndResends'
  BY <1>2 DEF Dial
<1>3. ASSUME NEW t \in Threads, DialFails(t) PROVE CallsAndResends'
  BY <1>3 DEF DialFails
<1>4. ASSUME NEW l \in Links, ServerHello(l) PROVE CallsAndResends'
  <2>1. \A m \in Links : given[m] # NoLink => given'[m] = given[m]
    BY <1>4 DEF ServerHello
  <2>2. UNCHANGED <<pc, cur, todo, app, token>>
    BY <1>4 DEF ServerHello
  <2>3. \A t \in Threads : todo[t] # {} => cur[t] \in Links
    OBVIOUS
  <2> QED
    BY <2>1, <2>2, <2>3 DEF ClientInUse
<1>5. ASSUME NEW t \in Threads, Handshake(t) PROVE CallsAndResends'
  BY <1>5 DEF Handshake
<1>6. ASSUME NEW t \in Threads, HandshakeFails(t) PROVE CallsAndResends'
  BY <1>6 DEF HandshakeFails
<1>7. ASSUME NEW t \in Threads, SwapRefused(t) PROVE CallsAndResends'
  BY <1>7 DEF SwapRefused
<1>8. ASSUME NEW t \in Threads, Swap(t) PROVE CallsAndResends'
  <2>1. /\ pc[t] = "swap" /\ cur[t] \in Links /\ Private(cur[t])
        /\ token' = given[cur[t]] /\ pc' = [pc EXCEPT ![t] = "closeOld"]
        /\ todo' = [todo EXCEPT ![t] = IF Minted(cur[t]) THEN subscribed ELSE {}]
        /\ app' = [app EXCEPT !.steady = @ /\ given[cur[t]] = token]
        /\ UNCHANGED <<cur, given>>
    BY <1>8 DEF Swap, TokenOf, ToResend, PrivateLinks
  <2>2. \A u \in Threads : todo'[u] # {} => Installed(u)' /\ Minted(cur[u])'
    BY <2>1
  <2>3. ASSUME app'.pc # "idle", app'.steady
        PROVE  given'[app'.link] = token' /\ \A u \in Threads : app'.topic \notin todo'[u]
    <3>1. app.pc # "idle" /\ app.steady /\ app'.link = app.link /\ app'.topic = app.topic
          /\ token' = token
      BY <2>1, <2>3
    <3>2. ~Minted(cur[t])
      BY <2>1, <3>1 DEF Private
    <3> QED
      BY <2>1, <3>1, <3>2
  <2> QED
    BY <2>2, <2>3
<1>9. ASSUME NEW t \in Threads, SwapClosesOld(t) PROVE CallsAndResends'
  BY <1>9 DEF SwapClosesOld
<1>10. ASSUME NEW t \in Threads, NEW x \in Topics, Resend(t, x) PROVE CallsAndResends'
  BY <1>10 DEF Resend, ServerRecords
<1>11. ASSUME NEW t \in Threads, SwapDone(t) PROVE CallsAndResends'
  BY <1>11 DEF SwapDone
<1>12. ASSUME NEW t \in Threads, Watch(t) PROVE CallsAndResends'
  BY <1>12 DEF Watch
<1>13. ASSUME NEW t \in Threads, LinkGone(t) PROVE CallsAndResends'
  BY <1>13 DEF LinkGone
<1>14. ASSUME NEW t \in Threads, WatchEnds(t) PROVE CallsAndResends'
  BY <1>14 DEF WatchEnds, SeesClose
<1>15. ASSUME NEW x \in Topics, NEW verb \in {"subscribe", "unsubscribe"},
            AppCalls(x, verb)
      PROVE CallsAndResends'
  <2>1. /\ app' = [pc |-> "send", verb |-> verb, topic |-> x, link |-> client,
                    steady |-> \A t \in Threads : x \notin todo[t]]
        /\ client # NoLink /\ UNCHANGED <<pc, cur, todo, given, token>>
    BY <1>15 DEF AppCalls
  <2>2. app'.link = client /\ app'.topic = x /\ (app'.steady <=> \A t \in Threads : x \notin todo[t])
    BY <2>1
  <2>3. given[client] = token
    BY <2>1 DEF ClientInUse
  <2> QED
    BY <2>1, <2>2, <2>3
<1>16. CASE AppAnswered
  BY <1>16 DEF AppAnswered, ServerRecords
<1>17. CASE AppFails
  BY <1>17 DEF AppFails, ServerRecords, NoCall
<1>18. CASE AppRecords
  BY <1>18 DEF AppRecords, Remembered, NoCall
<1>19. CASE CloseMarks
  BY <1>19 DEF CloseMarks
<1>20. CASE CloseEnds
  BY <1>20 DEF CloseEnds
<1>21. ASSUME NEW l \in Links, Drop(l) PROVE CallsAndResends'
  BY <1>21 DEF Drop
<1>22. ASSUME NEW s \in Links, Expire(s) PROVE CallsAndResends'
  BY <1>22 DEF Expire
<1>23. CASE UNCHANGED vars
  BY <1>23 DEF vars
<1> HIDE DEF CallsAndResends
<1> QED
  BY <1>1, <1>2, <1>3, <1>4, <1>5, <1>6, <1>7, <1>8, <1>9, <1>10,
     <1>11, <1>12, <1>13, <1>14, <1>15, <1>16, <1>17, <1>18, <1>19, <1>20,
     <1>21, <1>22, <1>23
  DEF Next, ThreadStep, AppStep
\* The topics of the session change with the list.
LEMMA MatchStep == TypeOK /\ SessionsMinted /\ ClientInUse /\ PrivateLinks /\ CallsAndResends /\ SessionMatches /\ [Next]_vars => SessionMatches'
<1> SUFFICES ASSUME TypeOK, SessionsMinted, ClientInUse, PrivateLinks, CallsAndResends, SessionMatches, [Next]_vars PROVE SessionMatches'
  OBVIOUS
<1> USE NoLinkAssumption DEF TypeOK, Calls, Labels, rcVars, loopVars, linkVars, srvVars, appVars, Goto, Installing, Installed,
        SessionMatches, StillToResend
<1>1. ASSUME NEW t \in Threads, Connect(t) PROVE SessionMatches'
  BY <1>1 DEF Connect
<1>2. ASSUME NEW t \in Threads, NEW l \in Links, Dial(t, l) PROVE SessionMatches'
  BY <1>2 DEF Dial
<1>3. ASSUME NEW t \in Threads, DialFails(t) PROVE SessionMatches'
  BY <1>3 DEF DialFails
<1>4. ASSUME NEW l \in Links, ServerHello(l) PROVE SessionMatches'
  <2>1. UNCHANGED <<token, topics, app, doubt, subscribed, pc, cur, todo>>
    BY <1>4 DEF ServerHello
  <2>2. token \in alive' => token \in alive
    <3>1. token \in Links => given[token] = token
      BY DEF ClientInUse, SessionsMinted
    <3>2. given[l] = NoLink /\ alive' \subseteq alive \cup {l}
      BY <1>4 DEF ServerHello
    <3> QED
      BY <3>1, <3>2
  <2>3. \A y \in Topics : StillToResend(y)' <=> StillToResend(y)
    BY <2>1
  <2> QED
    BY <2>1, <2>2, <2>3
<1>5. ASSUME NEW t \in Threads, Handshake(t) PROVE SessionMatches'
  BY <1>5 DEF Handshake
<1>6. ASSUME NEW t \in Threads, HandshakeFails(t) PROVE SessionMatches'
  BY <1>6 DEF HandshakeFails
<1>7. ASSUME NEW t \in Threads, SwapRefused(t) PROVE SessionMatches'
  BY <1>7 DEF SwapRefused
<1>8. ASSUME NEW t \in Threads, Swap(t) PROVE SessionMatches'
  <2>1. /\ pc[t] = "swap" /\ cur[t] \in Links /\ Private(cur[t])
        /\ token' = given[cur[t]] /\ pc' = [pc EXCEPT ![t] = "closeOld"]
        /\ todo' = [todo EXCEPT ![t] = IF Minted(cur[t]) THEN subscribed ELSE {}]
        /\ doubt' = IF Minted(cur[t]) THEN {} ELSE IF given[cur[t]] = token THEN doubt ELSE Topics
        /\ app' = [app EXCEPT !.steady = @ /\ given[cur[t]] = token]
        /\ UNCHANGED <<cur, given, subscribed, topics, alive>>
    BY <1>8 DEF Swap, TokenOf, ToResend, DoubtAfterSwap, PrivateLinks
  <2>2. /\ app'.pc = app.pc /\ app'.topic = app.topic /\ app'.verb = app.verb
        /\ app'.steady => app.steady /\ token' = token
    BY <2>1
  <2>3. CASE Minted(cur[t])
    <3>1. token' = cur[t] /\ token # cur[t] /\ topics[cur[t]] = {} /\ doubt' = {}
      BY <2>1, <2>3 DEF Private, Minted
    <3>2. todo'[t] = subscribed /\ cur'[t] = cur[t] /\ Installed(t)'
      BY <2>1, <2>3
    <3>3. ASSUME NEW y \in Topics PROVE StillToResend(y)' <=> y \in subscribed
      <4>1. \A u \in Threads : Installed(u)' /\ cur'[u] = token' => u = t
        BY <2>1, <3>1 DEF Private
      <4> QED
        BY <3>1, <3>2, <4>1
    <3> QED
      BY <2>1, <2>2, <3>1, <3>3
  <2>4. CASE ~Minted(cur[t]) /\ given[cur[t]] = token
    <3>1. \A y \in Topics : StillToResend(y)' <=> StillToResend(y)
      BY <2>1, <2>4
    <3>2. token' = token /\ doubt' = doubt
      BY <2>1, <2>4
    <3> QED
      BY <2>1, <2>2, <3>1, <3>2
  <2>5. CASE ~Minted(cur[t]) /\ given[cur[t]] # token
    <3>1. doubt' = Topics /\ ~app'.steady
      BY <2>1, <2>2, <2>5
    <3> QED
      BY <3>1
  <2> QED
    BY <2>3, <2>4, <2>5
<1>9. ASSUME NEW t \in Threads, SwapClosesOld(t) PROVE SessionMatches'
  BY <1>9 DEF SwapClosesOld
<1>10. ASSUME NEW t \in Threads, NEW x \in Topics, Resend(t, x) PROVE SessionMatches'
  <2>1. /\ x \in todo[t] /\ Installed(t) /\ cur[t] \in Links /\ given[cur[t]] = cur[t]
        /\ todo' = [todo EXCEPT ![t] = @ \ {x}]
        /\ UNCHANGED <<token, app, subscribed, alive, pc, cur>>
    BY <1>10 DEF Resend, CallsAndResends, Minted
  <2>2. app.pc = "record" /\ app.topic = x => ~app.steady
    BY <2>1 DEF CallsAndResends
  <2>3. \A y \in Topics \ {x} : StillToResend(y)' <=> StillToResend(y)
    BY <2>1
  <2>4. \A y \in Topics \ {x}, s \in Links : y \in topics'[s] <=> y \in topics[s]
    BY <1>10 DEF Resend, ServerRecords
  <2>5. doubt \subseteq doubt' /\ doubt' \subseteq doubt \cup {x}
    BY <1>10 DEF Resend
  <2>6. ASSUME token \in alive, x \notin doubt', ~(app.pc = "record" /\ app.topic = x)
        PROVE  x \in subscribed <=> x \in topics'[token] \/ StillToResend(x)'
    <3>1. ServerRecords(cur[t], x, "subscribe") /\ sess[cur[t]] # NoLink
      BY <1>10, <2>6 DEF Resend
    <3>2. sess[cur[t]] = cur[t]
      BY <2>1, <3>1 DEF SessionsMinted
    <3>3. topics' = [topics EXCEPT ![cur[t]] = @ \cup {x}]
      BY <3>1, <3>2 DEF ServerRecords
    <3>4. x \in subscribed <=> x \in topics[token] \/ StillToResend(x)
      BY <2>5, <2>6
    <3>5. CASE cur[t] = token
      <4>1. StillToResend(x)
        BY <2>1, <3>5
      <4>2. x \in topics'[token]
        BY <2>6, <3>3, <3>5
      <4> QED
        BY <3>4, <4>1, <4>2
    <3>6. CASE cur[t] # token
      <4>1. topics'[token] = topics[token]
        BY <2>6, <3>3, <3>6
      <4>2. StillToResend(x)' <=> StillToResend(x)
        BY <2>1, <3>6
      <4> QED
        BY <3>4, <4>1, <4>2
    <3> QED
      BY <3>5, <3>6
  <2> HIDE DEF StillToResend
  <2> QED
    BY <2>1, <2>2, <2>3, <2>4, <2>5, <2>6
<1>11. ASSUME NEW t \in Threads, SwapDone(t) PROVE SessionMatches'
  BY <1>11 DEF SwapDone
<1>12. ASSUME NEW t \in Threads, Watch(t) PROVE SessionMatches'
  BY <1>12 DEF Watch
<1>13. ASSUME NEW t \in Threads, LinkGone(t) PROVE SessionMatches'
  BY <1>13 DEF LinkGone
<1>14. ASSUME NEW t \in Threads, WatchEnds(t) PROVE SessionMatches'
  BY <1>14 DEF WatchEnds, SeesClose
<1>15. ASSUME NEW x \in Topics, NEW verb \in {"subscribe", "unsubscribe"},
            AppCalls(x, verb)
      PROVE SessionMatches'
  BY <1>15 DEF AppCalls
<1>16. CASE AppAnswered
  <2>1. /\ app.pc = "send" /\ app.link \in Links /\ ServerRecords(app.link, app.topic, app.verb)
        /\ app' = [app EXCEPT !.pc = "record", !.steady = @ /\ sess[app.link] # NoLink]
        /\ UNCHANGED <<token, subscribed, doubt, alive, pc, cur, todo>>
    BY <1>16 DEF AppAnswered
  <2>2. /\ app'.pc = "record" /\ app'.topic = app.topic /\ app'.verb = app.verb
        /\ app'.steady => app.steady /\ sess[app.link] # NoLink
    BY <2>1
  <2>3. \A y \in Topics \ {app.topic}, s \in Links : y \in topics'[s] <=> y \in topics[s]
    BY <2>1 DEF ServerRecords
  <2>4. app'.steady /\ token \in alive => (app.topic \in topics'[token] <=> app.verb = "subscribe")
    <3>1. app'.steady => sess[app.link] = token
      BY <2>1, <2>2 DEF SessionsMinted, CallsAndResends
    <3> QED
      BY <2>1, <3>1 DEF ServerRecords
  <2>5. \A y \in Topics : StillToResend(y)' <=> StillToResend(y)
    BY <2>1
  <2> HIDE DEF StillToResend
  <2> QED
    BY <2>1, <2>2, <2>3, <2>4, <2>5
<1>17. CASE AppFails
  BY <1>17 DEF AppFails, ServerRecords, NoCall
<1>18. CASE AppRecords
  <2>1. /\ app.pc = "record" /\ subscribed' = Remembered /\ app'.pc = "idle"
        /\ doubt' = IF app.steady THEN doubt \ {app.topic} ELSE doubt \cup {app.topic}
        /\ UNCHANGED <<token, topics, alive, pc, cur, todo>>
    BY <1>18 DEF AppRecords, NoCall
  <2>2. \A y \in Topics : StillToResend(y)' <=> StillToResend(y)
    BY <2>1
  <2>3. app.steady => ~StillToResend(app.topic)
    BY <2>1 DEF CallsAndResends
  <2> HIDE DEF StillToResend
  <2> QED
    BY <2>1, <2>2, <2>3 DEF Remembered
<1>19. CASE CloseMarks
  BY <1>19 DEF CloseMarks
<1>20. CASE CloseEnds
  BY <1>20 DEF CloseEnds
<1>21. ASSUME NEW l \in Links, Drop(l) PROVE SessionMatches'
  BY <1>21 DEF Drop
<1>22. ASSUME NEW s \in Links, Expire(s) PROVE SessionMatches'
  BY <1>22 DEF Expire
<1>23. CASE UNCHANGED vars
  BY <1>23 DEF vars
<1> HIDE DEF SessionMatches
<1> QED
  BY <1>1, <1>2, <1>3, <1>4, <1>5, <1>6, <1>7, <1>8, <1>9, <1>10,
     <1>11, <1>12, <1>13, <1>14, <1>15, <1>16, <1>17, <1>18, <1>19, <1>20,
     <1>21, <1>22, <1>23
  DEF Next, ThreadStep, AppStep
\* The session whose token the client would present on a reconnect records exactly
\* the topics it lists, for any number of Connect calls, links, topics and calls.
THEOREM ListMatches == Spec => []ListMatchesServer
<1>1. Init => ListInv
  BY NoLinkAssumption DEF Init, ListInv, NoCall, SessionsMinted, ClientInUse, PrivateLinks, Private,
      CallsAndResends, SessionMatches, Installing, Installed
<1>2. TypeOK /\ ListInv => ListMatchesServer
  BY DEF TypeOK, ListInv, SessionMatches, StillToResend, Installed, ListMatchesServer, Settled
<1>3. TypeOK /\ ListInv /\ [Next]_vars => ListInv'
  BY SessionsStep, InUseStep, PrivateStep, CallsStep, MatchStep DEF ListInv
<1> QED
  BY <1>1, <1>2, <1>3, ResilientTypeCorrect, PTL DEF Spec
==============================================================================
