------------------------------- MODULE Client -------------------------------
(***************************************************************************)
(* The client side of the protocol, pkg/proto/client.go: concurrent        *)
(* requests multiplexed over one connection and matched to their responses *)
(* by stream id, KeepAlive, the graceful goodbye and Close.                *)
(*                                                                         *)
(* Threads: one per request in flight (roundTrip, pc[k]), the read loop    *)
(* (rpc) and the server's connection handler (srv).  The connection is two *)
(* bounded buffers, toServer and toClient: a Write blocks while its buffer *)
(* is full, and neither side sets a deadline on the writes modelled here.  *)
(* PUBLISH frames go from the read loop to onEvent and touch no state of   *)
(* Client; they are left out.                                              *)
(***************************************************************************)
EXTENDS Integers, Sequences, FiniteSets

CONSTANTS Requests,   \* the round trips of a behaviour
          Large,      \* those with a payload above streamThreshold
          Timed,      \* those with a positive timeout
          Hellos,     \* those of HandshakeWith
          Pings,      \* those of KeepAlive
          Byes,       \* those of CloseGracefully
          NoRequest,
          Fragments,  \* frames of a large request
          BufferCap,  \* frames a direction of the connection buffers
          IdSpace     \* 2^32 in the code: stream ids are uint32

ASSUME NoRequestAssumption == NoRequest \notin Requests
\* A channel's contents tell its request's answer from the two other states.
ASSUME ChannelAssumption == "open" \notin Requests /\ "failed" \notin Requests
ASSUME KindsAssumption ==
  /\ Large \subseteq Requests /\ Timed \subseteq Requests
  /\ Hellos \subseteq Requests /\ Pings \subseteq Requests
  /\ Byes \subseteq Requests
ASSUME SizesAssumption ==
  /\ Fragments \in Nat \ {0, 1}
  /\ BufferCap \in Nat \ {0}
\* Fewer requests than stream ids: nextID does not come round to an id that
\* is still pending.
ASSUME IdSpaceAssumption ==
  /\ IsFiniteSet(Requests)
  /\ IdSpace \in Nat
  /\ Cardinality(Requests) < IdSpace

VARIABLES
  pc,        \* program counter of a round trip
  id,        \* its stream id
  left,      \* fragments it has still to write
  ch,        \* its response channel: open, failed (closed) or the request
             \* the response in it answers
  refused,   \* the response in its channel is an error
  res,       \* what roundTrip returns
  lock,      \* the request that holds mu through its writes
  nextID,
  pending,   \* the pending map
  closed,    \* Close has run: the closed channel and the socket
  rpc,       \* program counter of the read loop
  rcur,      \* the response it is handing over
  srv,       \* program counter of the server's handler
  scur,      \* the request it is reading or answering
  intruder,  \* the request whose frame broke a fragmented one
  toServer, toClient

callVars == <<pc, id, left, res>>
chanVars == <<ch, refused, pending, nextID, lock>>
readVars == <<rpc, rcur>>
srvVars  == <<srv, scur, intruder>>
vars == <<callVars, chanVars, closed, readVars, srvVars, toServer, toClient>>

Ids == 0 .. IdSpace - 1
NoResponse == [id |-> 0, of |-> NoRequest, err |-> FALSE]

Init ==
  /\ pc = [k \in Requests |-> "idle"]
  /\ id = [k \in Requests |-> 0]
  /\ left = [k \in Requests |-> 0]
  /\ ch = [k \in Requests |-> "open"]
  /\ refused = [k \in Requests |-> FALSE]
  /\ res = [k \in Requests |-> "none"]
  /\ lock = NoRequest
  /\ nextID = 0
  /\ pending = [i \in Ids |-> NoRequest]
  /\ closed = FALSE
  /\ rpc = "read"
  /\ rcur = NoResponse
  /\ srv = "read"
  /\ scur = NoRequest
  /\ intruder = NoRequest
  /\ toServer = <<>>
  /\ toClient = <<>>

Room(buffer) == Len(buffer) < BufferCap

-----------------------------------------------------------------------------
(* roundTrip                                                               *)

\* roundTrip is over; its caller goes on with what it returned.
Returns(k, result) ==
  /\ pc' = [pc EXCEPT ![k] = "returned"]
  /\ res' = [res EXCEPT ![k] = result]

\* The check of c.closed.
Begin(k) ==
  /\ pc[k] = "idle"
  /\ IF closed THEN Returns(k, "closed")
               ELSE pc' = [pc EXCEPT ![k] = "lock"] /\ UNCHANGED res
  /\ UNCHANGED <<id, left, chanVars, closed, readVars, srvVars, toServer, toClient>>

\* A counter that is not incremented: concurrent callers share an id.
SameID == nextID

\* c.nextID++ on a uint32
IncrementedID == (nextID + 1) % IdSpace

\* mu is not held through a large write.
LockFree == lock = NoRequest

\* mu stays with a request that is about to write fragments.
LockHeld(k) == IF k \in Large THEN k ELSE lock

\* The critical section: an id, the channel in pending, the encoded frames.
RegisterPending(k) ==
  /\ pc[k] = "lock"
  /\ LockFree
  /\ nextID' = IncrementedID
  /\ id' = [id EXCEPT ![k] = nextID']
  /\ pending' = [pending EXCEPT ![nextID'] = k]

EncodeFrames(k) ==
  /\ RegisterPending(k)
  /\ left' = [left EXCEPT ![k] = IF k \in Large THEN Fragments ELSE 1]
  /\ lock' = LockHeld(k)
  /\ pc' = [pc EXCEPT ![k] = "write"]
  /\ UNCHANGED <<res, ch, refused, closed, readVars, srvVars, toServer, toClient>>

\* The payload cannot be encoded.
EncodeFails(k) ==
  /\ RegisterPending(k)
  /\ pc' = [pc EXCEPT ![k] = "remove"]
  /\ res' = [res EXCEPT ![k] = "failed"]
  /\ UNCHANGED <<left, ch, refused, lock, closed, readVars, srvVars, toServer,
                 toClient>>

\* One Write: the frame, or the next fragment under mu; the last one frees mu.
\* A peer that is gone may still accept a frame into the socket's buffer.
Write(k) ==
  /\ pc[k] = "write"
  /\ ~closed
  /\ Room(toServer)
  /\ toServer' = Append(toServer, [id |-> id[k], of |-> k, more |-> left[k] > 1])
  /\ left' = [left EXCEPT ![k] = @ - 1]
  /\ pc' = IF left[k] > 1 THEN pc ELSE [pc EXCEPT ![k] = "wait"]
  /\ lock' = IF left[k] = 1 /\ lock = k THEN NoRequest ELSE lock
  /\ UNCHANGED <<id, res, ch, refused, pending, nextID, closed, readVars, srvVars,
                 toClient>>

\* A write error that forgets to unlock.
LockKept(k) == lock

\* mu after a failed write.
LockReleased(k) == IF lock = k THEN NoRequest ELSE lock

\* The write fails on a closed socket or a peer that is gone.
WriteFails(k) ==
  /\ pc[k] = "write"
  /\ closed \/ srv = "gone"
  /\ lock' = LockReleased(k)
  /\ pc' = [pc EXCEPT ![k] = "remove"]
  /\ res' = [res EXCEPT ![k] = "failed"]
  /\ UNCHANGED <<id, left, ch, refused, pending, nextID, closed, readVars, srvVars,
                 toServer, toClient>>

\* The response, or the closed channel, reaches the caller.
Receive(k) ==
  /\ pc[k] = "wait"
  /\ ch[k] # "open"
  /\ Returns(k, IF ch[k] = "failed" THEN "pendingClosed"
                ELSE IF refused[k] THEN "refused" ELSE "ok")
  /\ UNCHANGED <<id, left, chanVars, closed, readVars, srvVars, toServer, toClient>>

\* The timer wins the select, though a response may be there too.
Timeout(k) ==
  /\ pc[k] = "wait"
  /\ k \in Timed
  /\ pc' = [pc EXCEPT ![k] = "remove"]
  /\ res' = [res EXCEPT ![k] = "timeout"]
  /\ UNCHANGED <<id, left, chanVars, closed, readVars, srvVars, toServer, toClient>>

\* An error return that leaves the request registered.
StillPending(k) == pending

\* delete(c.pending, id)
PendingWithout(k) == [pending EXCEPT ![id[k]] = NoRequest]

\* removePending, then the error is returned.
RemovePending(k) ==
  /\ pc[k] = "remove"
  /\ LockFree
  /\ pending' = PendingWithout(k)
  /\ Returns(k, res[k])
  /\ UNCHANGED <<id, left, ch, refused, lock, nextID, closed, readVars, srvVars,
                 toServer, toClient>>

\* The caller of roundTrip closes the client: HandshakeWith when the server
\* refused, KeepAlive when the ping failed, CloseGracefully in any case.
ClosesAfter(k) ==
  \/ k \in Hellos /\ res[k] = "refused"
  \/ k \in Pings /\ res[k] # "ok"
  \/ k \in Byes

CallerContinues(k) ==
  /\ pc[k] = "returned"
  /\ pc' = [pc EXCEPT ![k] = "done"]
  /\ closed' = (closed \/ ClosesAfter(k))
  /\ UNCHANGED <<id, left, res, chanVars, readVars, srvVars, toServer, toClient>>

\* The program calls Close, once or more often.
Close ==
  /\ ~closed
  /\ closed' = TRUE
  /\ UNCHANGED <<callVars, chanVars, readVars, srvVars, toServer, toClient>>

-----------------------------------------------------------------------------
(* readLoop                                                                *)

\* DecodeStreamed returns a RESPONSE or a PONG.
ReadResponse ==
  /\ rpc = "read"
  /\ ~closed
  /\ toClient # <<>>
  /\ rcur' = Head(toClient)
  /\ toClient' = Tail(toClient)
  /\ rpc' = "resolve"
  /\ UNCHANGED <<callVars, chanVars, closed, srvVars, toServer>>

\* DecodeStreamed fails: the socket is closed on this or on the other side.
ReadFails ==
  /\ rpc = "read"
  /\ closed \/ (srv = "gone" /\ toClient = <<>>)
  /\ rpc' = "fail"
  /\ UNCHANGED <<callVars, chanVars, closed, rcur, srvVars, toServer, toClient>>

\* resolvePending; a response nobody waits for is dropped.
ResolvePending ==
  LET k == pending[rcur.id] IN
  /\ rpc = "resolve"
  /\ LockFree
  /\ pending' = [pending EXCEPT ![rcur.id] = NoRequest]
  /\ IF k = NoRequest THEN UNCHANGED <<ch, refused>>
     ELSE /\ ch' = [ch EXCEPT ![k] = rcur.of]
          /\ refused' = [refused EXCEPT ![k] = rcur.err]
  /\ rcur' = NoResponse
  /\ rpc' = "read"
  /\ UNCHANGED <<callVars, nextID, lock, closed, srvVars, toServer, toClient>>

\* close(ch) for every pending request
ChannelsFailed ==
  [k \in Requests |-> IF \E i \in Ids : pending[i] = k THEN "failed" ELSE ch[k]]

\* failPending
FailPending ==
  /\ rpc = "fail"
  /\ LockFree
  /\ ch' = ChannelsFailed
  /\ pending' = [i \in Ids |-> NoRequest]
  /\ rpc' = "close"
  /\ UNCHANGED <<callVars, refused, nextID, lock, closed, rcur, srvVars, toServer,
                 toClient>>

\* Close, after failPending
ReadLoopCloses ==
  /\ rpc = "close"
  /\ closed' = TRUE
  /\ rpc' = "done"
  /\ UNCHANGED <<callVars, chanVars, rcur, srvVars, toServer, toClient>>

-----------------------------------------------------------------------------
(* The other side: FrameCodec.HandleRead, one message at a time, and the   *)
(* reply, which is written before the next message is read.                *)

\* decodeStreamed: a plain frame, or the fragments of one message.  A frame of
\* another stream between them is a violation and closes the connection.
ServerReads ==
  LET f == Head(toServer) IN
  /\ srv \in {"read", "assemble"}
  /\ toServer # <<>>
  /\ toServer' = Tail(toServer)
  /\ IF srv = "assemble" /\ f.of # scur
     THEN srv' = "gone" /\ intruder' = f.of /\ UNCHANGED scur
     ELSE /\ srv' = IF f.more THEN "assemble" ELSE "reply"
          /\ scur' = f.of
          /\ UNCHANGED intruder
  /\ UNCHANGED <<callVars, chanVars, closed, readVars, toClient>>

\* The reply, with or without an error; the one to CLOSE is the last.
ServerReplies(err) ==
  /\ srv = "reply"
  /\ Room(toClient)
  /\ toClient' = Append(toClient, [id |-> id[scur], of |-> scur, err |-> err])
  /\ srv' = IF scur \in Byes THEN "gone" ELSE "read"
  /\ scur' = NoRequest
  /\ UNCHANGED <<callVars, chanVars, closed, readVars, intruder, toServer>>

\* The server hangs up, or notices that the client has.
ServerHangsUp ==
  /\ srv # "gone"
  /\ srv' = "gone"
  /\ UNCHANGED <<callVars, chanVars, closed, readVars, scur, intruder, toServer,
                 toClient>>

-----------------------------------------------------------------------------
RoundTrip(k) ==
  \/ EncodeFrames(k) \/ EncodeFails(k) \/ Write(k) \/ WriteFails(k)
  \/ Receive(k) \/ Timeout(k) \/ RemovePending(k) \/ CallerContinues(k)

ReadLoop ==
  ReadResponse \/ ReadFails \/ ResolvePending \/ FailPending \/ ReadLoopCloses

Serve == ServerReads \/ \E err \in BOOLEAN : ServerReplies(err)

\* Every request has been made and nothing is left to do.
Finished ==
  /\ \A k \in Requests : pc[k] = "done"
  /\ closed /\ rpc = "done" /\ srv = "gone"
  /\ UNCHANGED vars

Next ==
  \/ \E k \in Requests : Begin(k) \/ RoundTrip(k)
  \/ ReadLoop
  \/ Close
  \/ Serve
  \/ ServerHangsUp
  \/ Finished

Spec == Init /\ [][Next]_vars

(* Fairness: every goroutine of the client runs when it can, and mu, which  *)
(* Go hands to a waiter after a millisecond at the latest, is not withheld  *)
(* from one of them for ever.  Nobody has to start a request or call Close, *)
(* and the peer may stop reading, answering or hanging up at any moment.    *)
Fairness ==
  /\ \A k \in Requests : WF_vars(RoundTrip(k))
  /\ WF_vars(ReadLoop)

FairSpec == Spec /\ Fairness

-----------------------------------------------------------------------------
(* Properties *)

Results == {"none", "closed", "failed", "pendingClosed", "refused", "ok", "timeout"}

\* The types of the variables the two invariants below depend on; a channel
\* holds at most its own request's response.
TypeOK ==
  /\ pc \in [Requests -> {"idle", "lock", "write", "wait", "remove", "returned",
                          "done"}]
  /\ id \in [Requests -> Ids]
  /\ ch \in [Requests -> {"open", "failed"} \cup Requests]
  /\ res \in [Requests -> Results]
  /\ nextID \in Ids
  /\ pending \in [Ids -> Requests \cup {NoRequest}]
  /\ toServer \in Seq([id : Ids, of : Requests, more : BOOLEAN])
  /\ toClient \in Seq([id : Ids, of : Requests, err : BOOLEAN])
  /\ rcur \in [id : Ids, of : Requests \cup {NoRequest}, err : BOOLEAN]
  /\ scur \in Requests \cup {NoRequest}

\* A caller is handed the answer to its own request and to no other, however
\* requests, timeouts, late responses and failures interleave.
AnswerIsMine ==
  \A k \in Requests : res[k] \in {"ok", "refused"} => ch[k] = k

\* The pending map knows exactly the requests that somebody still waits for:
\* a waiting caller's channel is in it or has been served, and a request that
\* returned, by whatever path, has left nothing behind.
PendingMatchesCallers ==
  /\ \A k \in Requests :
       pc[k] \in {"write", "wait"} /\ ch[k] = "open" => pending[id[k]] = k
  /\ \A i \in Ids : pending[i] # NoRequest =>
       /\ id[pending[i]] = i
       /\ pc[pending[i]] \in {"write", "wait", "remove"}

\* Why the two hold.  Ids are handed out once: nextID counts the requests that
\* have one, and there are fewer requests than ids.
HasId(k) == id[k] # 0

IdsUnique ==
  /\ nextID = Cardinality({k \in Requests : HasId(k)})
  /\ \A k \in Requests : id[k] <= nextID
  /\ \A k, m \in Requests : HasId(k) /\ id[k] = id[m] => k = m
  /\ \A k \in Requests : pc[k] \in {"idle", "lock"} => ~HasId(k)
  /\ \A k \in Requests : pc[k] \in {"write", "wait", "remove"} => HasId(k)

\* A frame on its way carries the id of the request it belongs to.
Labelled(f) == HasId(f.of) /\ f.id = id[f.of]

FramesLabelled ==
  /\ \A i \in 1 .. Len(toServer) : Labelled(toServer[i])
  /\ \A i \in 1 .. Len(toClient) : Labelled(toClient[i])
  /\ srv \in {"assemble", "reply"} => scur \in Requests /\ HasId(scur)
  /\ rpc = "resolve" => rcur.of \in Requests /\ Labelled(rcur)

\* A channel is resolved once, by its own response, and only while pending.
ChannelsMine ==
  /\ \A k \in Requests : ch[k] \in {"open", "failed", k}
  /\ \A k \in Requests : pc[k] \in {"idle", "lock"} => ch[k] = "open"
  /\ \A i \in Ids : pending[i] # NoRequest => ch[pending[i]] = "open"
  /\ \A k \in Requests : res[k] \in {"ok", "refused"} => pc[k] \in {"returned", "done"}

ClientInv ==
  TypeOK /\ IdsUnique /\ FramesLabelled /\ ChannelsMine
    /\ AnswerIsMine /\ PendingMatchesCallers

\* A connection that drops closes the client, also with a writer inside mu, and
\* once the client is closed its requests with a timeout return, those that wait
\* for mu or are inside a write included, and the read loop ends.
CloseReleases ==
  /\ srv = "gone" ~> closed
  /\ closed ~> rpc = "done"
  /\ \A k \in Timed : closed /\ pc[k] # "idle" ~> pc[k] = "done"

-----------------------------------------------------------------------------
(* What the comments of client.go say and the code does not do.            *)

\* client.go:303-305: nobody's frame comes between the fragments of a message.
FragmentsContiguous == intruder = NoRequest

\* client.go:411-412: pending requests fail when the connection is closed.
CloseFailsPending ==
  \A k \in Requests : closed /\ pc[k] = "wait" ~> pc[k] # "wait"

\* client.go:221-223: a ping on a dead link fails within its timeout and closes.
PingEnds == \A k \in Pings : pc[k] = "lock" ~> pc[k] = "done"

\* resilient.go:242-243: Call waits up to its timeout.  A request in its write
\* or whose timer has fired is never part of a circle of waits that only a
\* hang-up ends: the writer inside mu waits for the server to read, the server
\* for the client to read its reply, the read loop for mu.
NoWaitCircle ==
  \A k \in Timed : pc[k] \in {"write", "remove"} =>
    ~ /\ lock # NoRequest /\ ~Room(toServer) /\ ~closed
      /\ srv = "reply" /\ ~Room(toClient)
      /\ rpc = "resolve"
=============================================================================
