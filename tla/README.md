# Formal models of SimpleGoServer

TLA+ specifications of the concurrent parts of SimpleGoServer: a TCP server built
from a reactor and workers, a framed request/publish protocol on top of it with
resumable sessions and pooled buffers, the handler pipeline of a connection, the server
program around them, the clients of the protocol, a task executor and the load
balancers. Every module is translated from the Go source; `PROJECT.json` maps each
definition to the lines it stands for and lists runs, mutants, hazards, findings and
theorems.

    tlc -workers 2 -config MCReactor.cfg MCReactor        # a model-checking run
    tlapm ReactorProofs.tla                               # a proof

Paths below are relative to the repository.

## 1. Inventory

| Component | State | Operations | What is hard |
|---|---|---|---|
| Reactor (`pkg/reactor/reactor.go`) | listener, context, stage of a shutdown | Run (accept loop), Register, Unregister, Stop, ShutdownWithTimeout | staged shutdown races the accept loop, dispatchers and handlers that start |
| Workers (`pkg/reactor/worker.go`) | bounded queue `newCh`, connection counter, handler counter, context | Dispatch, AddConn, Run, handleConnection, closePending, Stop, AwaitDone | a send into a queue whose reader has ended; counters that lag the registry |
| Registry (`pkg/reactor/registry.go`) | set of connections, closed gate | Add, Remove, CloseAll | a registration during the sweep |
| Protocol handler (`pkg/proto/protocol.go`) | sessions, connTokens, members, topic counters, replay cache with byte budget | HELLO/resume, SUBSCRIBE, UNSUBSCRIBE, Publish, eviction, janitor | decisions under one lock used under a later one; a session that moves between transports while publishes go on |
| Client (`pkg/proto/client.go`) | pending map, mutex, closed flag, done channel | roundTrip, readLoop, KeepAlive, Handshake, CloseGracefully, Close | timers racing late answers; writes that block inside the mutex |
| Resilient client (`pkg/proto/resilient.go`) | current client, token, topics, cursors, accepted sets, closed flag | Connect, watch, reconnectLoop, swap, Subscribe, Unsubscribe, Close | calls that straddle a reconnect; numbers that restart on the server |
| Frame codec, streams, envelope (`pkg/proto/codec.go`, `stream.go`, `json.go`, FrameCodec of `protocol.go`) | frame being read, aggregate, encoded reply | decode, assemble, dispatch, encode, write | fragments of two messages; limits met exactly; payloads read in place |
| Buffer pools (`pkg/proto/pool.go`) | frames and arrays of seven size classes, shared by all connections | acquire, release | a buffer with two owners, or used after it was returned |
| Executor and futures (`internal/executor`) | task channel, done channel, state of a future | Execute, Submit, worker loop, Stop, Do, Cancel, GetWithTimeout | a submission racing Stop; cancel racing the action's end |
| Balancers (`internal/balancer`) | list or ring of backends, position, totals | Register, Unregister, Next | cached sums that describe another list; loads that change during a scan |
| Handler pipeline (`internal/handler`) | linked list of handler contexts | AddFirst, AddLast, AddHandler, the scans, the events | positions near head and tail; panics below nested calls |
| Graceful shutdown (`pkg/utils/graceful.go`), server program (`cmd/server`) | three channels of one place | Wait, Stop, the callbacks | a signal among SIGHUPs, or before the server is up |

How they interact: the reactor accepts a connection, asks the balancer for a worker and
sends the connection to its queue; the worker registers it and starts a handler
goroutine, which runs the pipeline: the frame codec reads and assembles a message into
pooled buffers and passes it on, the protocol handler answers through the codec and
writes to any connection from any goroutine (Publish). The server program waits for a
signal, whose callback is the reactor's staged shutdown. On the other side the client has
one read-loop goroutine and any number of callers; the resilient client owns one client
at a time, and learns from its `Done` channel that it must dial again.

What makes each part correct:

- reactor: nothing accepted is leaked, counters are exact, a shutdown ends and leaves
  no handler;
- protocol handler: session index and subscriptions agree, the cache's byte count is
  exact, a publish reaches a subscriber once;
- client: an answer reaches the caller of its request, every caller is released;
- resilient client: the server serves the topics the program asked for, every publish
  is handled, Close leaves nothing running;
- frame codec and pools: handlers see the messages the peer framed, whole and in order,
  and no buffer has two owners;
- pipeline: events reach the nearest handler, and a panic ends where it should;
- server program: a signal ends it;
- executor: an action runs at most once, every future resolves;
- balancers: the promised distribution over the registered backends.

## 2. Modules

| Module | Models | Checked by | Proved in |
|---|---|---|---|
| `Reactor` | reactor.go, worker.go, registry.go | `MCReactor` | `ReactorProofs` |
| `ProtocolHandler` | protocol.go | `MCProtocolHandler` | `ProtocolHandlerProofs` |
| `Client` | client.go and the reassembly of stream.go | `MCClient` | `ClientProofs` |
| `ResilientClient` | the connection side of resilient.go, with the server's sessions | `MCResilientClient` | `ResilientClientProofs` |
| `ReplayCursor` | the publish side of resilient.go, composed with the topic counter and the cache of protocol.go | `MCReplayCursor` | `ReplayCursorProofs` |
| `Executor` | async_executor.go, async_future.go | `MCExecutor` | `InternalProofs` |
| `Balancers` | the seven strategies of internal/balancer | `MCBalancers` | `InternalProofs` |
| `FrameCodec` | FrameCodec of protocol.go, codec.go, stream.go, pool.go | `MCFrameCodec` | `FrameCodecProofs` |
| `Framing` | reference: which messages a stream of frames carries | through `FrameCodec` | `FrameCodecProofs` |
| `MessageStream` | abstract: the messages a handler sees | through `FrameCodec` | `FrameCodecProofs` |
| `Pipeline` | internal/handler, driven by handleConnection of worker.go | `MCPipeline` | `PipelineProofs` |
| `HandlerList` | abstract: a list with three ways to add to it | through `Pipeline` | `PipelineProofs` |
| `Server` | cmd/server and graceful.go, composed with `Reactor` | `MCServer` | – |

Conventions. An action is what the code does between two points where another
goroutine can run and matter: a critical section, an atomic operation, a channel
operation or a blocking call. A goroutine's place in its function is a variable
(`pc`-like, named after what the goroutine is about to do). A connection, token, topic
or request is a model value. Operators whose comment describes a defect (`StalePreSum`,
`NothingResent`...) belong to no specification: each is a plausible mistake in the
definition that follows it, kept to show that a property notices it.

### Reactor
Each connection has a dispatcher (the accept loop for accepted ones, the caller of
Register for others), a place (in a queue, in a worker's hands, with a handler) and an
open flag. `Registered` tells which connections arrive through Register, `Calls` which
of Stop, ShutdownWithTimeout, Worker.Stop and Unregister the program makes. The
balancer's answer is any worker or an error. The shutdown's timers are nondeterministic:
the model may leave a drain at any time, as a timeout may fire at any time.

### ProtocolHandler
One handler goroutine per transport, publishers, the janitor. Publish is split where
the code releases the lock: look up the members, take a number, cache, write to each
member of the snapshot. HELLO is split into attach, collect and replay. `Strict` is
RequireHello; `HelloFirst` says whether clients begin with a handshake. Sequence numbers
wrap at `SeqSpace`. Writes may fail, transports may vanish. The size of a set of cached
frames is the number of their bytes, each named by its frame (`Bytes`), so that two frames
of one size count twice.

### Client
`RoundTrip(k)` is a caller's goroutine: closed check, registration in the pending map,
writes of one or several frames (in the mutex for several, outside for one), the select
on response, timer and done. Socket buffers hold `BufferCap` frames in each direction so
that a blocked writer is a state. The server reads, replies late or not at all, refuses a
handshake or hangs up. Ids wrap at `IdSpace`.

### ResilientClient and ReplayCursor
The first has threads for Connect and the watch goroutine each of them starts, links,
and the server's sessions (token and topics) so that "what the client believes" can be
compared with "what the server serves". A dial leaves the HELLO of its link with the token
of the moment in it (`shown`); the server handles it in a step of its own (`ServerHello`),
before or after the client gives the link up, and the session moves to that link from
whichever had it. A session may expire at any time, also while its client is connected and
silent. `doubt` is a history variable: the topics of which the client cannot know
what the server has, because their last call or re-send failed, found the link without its
session, or overlapped a swap to another one; each action says when a topic enters and
leaves it. The second keeps one topic: the cursor, the
accepted set, the wire of one connection, the server's counter and cache, and what the
handler took or skipped; Init chooses from `Modes` between NewResilientClient and
NewAcknowledgedResilientClient. The server may restart its numbering (an epoch), and the
janitor may reap the session with the link down or up, except between the resume and the
end of its replay: the HELLO has just refreshed lastSeen.

### Executor
Submitters, workers on an unbuffered channel, futures with their state machine, a
program that may call Do, Cancel and GetWithTimeout itself. `Nested[j]` is the job that
j's action submits to the same executor and waits for: it can only be submitted while
such an action runs, and the action returns only when it is resolved. `Starved` is the
state in which every worker runs an action that waits like this.

### FrameCodec and MessageStream
One goroutine per connection, in the order of decodeFrame, decodeStreamed, HandleRead,
encodeMessage and HandleWrite; a step has at most one Get of a pool, or the Puts of one
release. Arrays and frame objects have an identity and the bytes of a wire frame are named
by connection, frame and position, so a buffer with two owners and a byte of another
connection are states. The capacity `append` chooses for a new array is open. AcquireFrame
and GetPayload take any object of the pool that fits and allocate only when there is none.
A write of a reply that is cut off leaves some of its frames and maybe a part of the next
on the wire (`WriteFails`), and the exception then closes the connection; a publish that
is cut off leaves a part of its frame and an open connection (`PublishWrites`). The peer
can read what comes before the first such part (`Readable`). `Framing` defines the messages of a wire script in one go, as the runs
of fragments that obey the rules, with their bytes numbered by counting and not by reading;
`MessageStream` delivers them in order. `ImplementsMessageStream` maps `delivered` to itself
and `open` to `~closed`.

### Pipeline and HandlerList
The initializer's Add calls run one insertion per step; then the worker fires active, read,
exception and inactive, and handlers call on. `stack` holds the nested calls with how each
was made, since only Context.Write recovers. A handler may do anything with its context.
`HandlerList` is the list of handlers an initializer thinks of; the mapping gives it the
list as of the last complete call, and the call under way.

### Server
EXTENDS Reactor with the state of main: only a signal that Wait takes begins the shutdown.
A signal before `signal.Notify` ends the process. The runs keep a connection that arrives
through Register, which cmd/server itself does not use, because a program on the library
may and because it fills a queue next to the accept loop.

### Balancers
One behaviour is about one balancer; its strategy is chosen in `BalancerInit` (`Next` is a
method of the code, so the next-state relation is `BalancerNext`). A weight may change
behind its back (`MaxSetWeights`), also to zero and below. For `ipHashing` the hash
function is unknown: `InitRing` ranges over all of them, those that give two backends
the same hash included; `vacated` is a history variable, the hashes a removal took the
entry of. The circle, the sorted list of hashes and the lookup are those
of ip_hashing.go. A sum of weights counts units (`SumOf`): a weight w is w units of its
backend, a negative one takes as many away, which needs no recursion over the list.

## 3. Runs

| Run | Bounds | Shows |
|---|---|---|
| `reactor` | an accepted and a registered connection, 2 workers, queues of 1; ShutdownWithTimeout, Stop, Worker.Stop, Unregister | the sweep of CloseAll leaves no handler on an open connection; counters equal the handlers there are; an open connection always has an owner; a loop that ended through its context strands nothing |
| `server` | the same connections, 1 worker, signals, SIGHUPs, Graceful.Stop | a signal makes main return, handlers end although peers are silent, loops end although the queue is full |
| `protocol` | 2 transports of 1 session, 1 topic, 2 publishes of size 1 or 3, cache of 1 entry and budget of 2, lenient mode | index and recorded subscriptions agree; the byte count is exact; no publish is written twice to one transport |
| `sessions` | 2 transports, 2 tokens, strict mode, frames in any order, no publish | a connection keeps its token; a vanished client leaves the member sets of a quiet topic |
| `client` | a fragmented handshake without a timeout, a goodbye with one, one-frame buffers | answers are the caller's own, pending equals the waiting callers; a drop closes the client, closing releases every request with a timeout and the read loop |
| `executor` | 2 tasks that both submit and await 1 future, 2 workers | once-only, stable outcomes; everything resolves unless all workers wait for each other's queue, and Stop ends even those |
| `resilient` | 2 concurrent Connects, 3 links, 1 topic, 1 call, Close | list and session agree whenever the client is settled, with late HELLOs and sessions that expire; Close leaves no connection and no goroutine |
| `replay` | both kinds of client, 3 publishes, cache of 2, 1 restart of the numbering, 2 connections | nothing skipped, repeats only after a lowered cursor; a resume of the acknowledging client covers what was missed |
| `balancers` | 3 backends, weights and loads ≤ 2, ≤ 4 picks between changes, 1 change of weight, 3 replicas on 4 hashes, shared or not | fair turns, exact draws, the least count and the least load seen are picked; a lookup is answered by the last registered at the nearest replica, or by nobody where a removal took the entry |
| `frame_codec` | 2 connections, size classes 2 and 4, MaxStreamSize 5, header of 1; 8 scripts for one peer, a plain message for the other; 6 arrays, 4 frames; 1 publish | one owner per buffer, payloads intact while read in place, the whole stream dispatched, replies whole as far as the peer can read although writes are cut off, every connection ends; refinement of `MessageStream` |
| `pipeline` | 3 handlers with different interfaces, Add calls of 1 or 2, nesting to depth 5 | scans agree with the list, events reach the nearest handler, an unhandled panic closes, a failing write spares its writer; refinement of `HandlerList` |

Why the bounds are enough. A queue, cache or buffer of one is full after one entry, so
"at the limit" is an ordinary state. Two connections (transports, workers) are what a race
between two needs; one arrives through the accept loop, which blocks in its own dispatch,
and one through Register. Two fragments suffice to put something between them. A cache of
two with three publishes evicts, and so does a cache of one with two; a frame of size 3
is over the budget of 2 by itself, so that its whole topic is evicted. The numbering restarts once, because every property of it compares
one numbering with the next. Three links allow a resume, a lost session and a resume
again; with two Connects they also allow a link that was given up, the one that resumed
after it and the late HELLO of the first. `ListMatchesServer` was also checked with two
calls, 8.6 million states. Three backends with weights up to two reach every relation between a stored
position and a total that shrank; four picks are two turns of the shortest lists. Two
size classes are what an aggregate needs to outgrow one and to outgrow both; the scripts
meet MaxFrameSize and MaxStreamSize exactly and by one, start with an empty fragment, and
break the stream by id, by type and by size. One connection's peer is plain, because it
only has to hold and return buffers meanwhile. There are as many arrays and frames as can
be in use together, so an allocation never fails. Three handlers whose interfaces overlap
in read and in write are skipped, reached and reached through in both directions. Two
nesting tasks starve an executor of two workers, and one of them leaves it working.
`HelloFirst = TRUE` in `protocol` states that a client begins with one handshake, as
ResilientClient does; `sessions` drops it and lets clients send a second HELLO, or
anything before the first.

Symmetry is used where the set is not ordered by the model and no liveness is checked.
`CHECK_DEADLOCK FALSE` stands where the system may really stop: all connections were
served and closed, all bounded calls made, or the balancer's caller panicked. The client
runs are checked for deadlock.

### The code against its own comments

One run is expected to end in a counterexample, a shortest behaviour in which a sentence
of the repository does not hold; the quotation is in `PROJECT.json`.

| Run | What happens |
|---|---|
| `resume` | Publish takes its snapshot of the members before a resume and caches after it: the publish reaches the resumed client neither live nor by replay |

The formulas at the end of the modules state further sentences of the comments that the
code does not keep. None of them belongs to a run; to see one, check it alone with the
constants of the run named here, changed as said. `(fair)` marks the ones to check under
FairSpec.

| Formula | Constants | What happens |
|---|---|---|
| `Reactor!EndedLoopStrandsNothing` (worker.go:183-185) | `server` | after a refused registration the loop ends with its context alive, and a later AddConn leaves an open connection in the queue |
| `Reactor!NilMeansNoHandler` (reactor.go:174-176) | `server` | ShutdownWithTimeout returns nil between registry.Add and the handler's count; the handler starts afterwards |
| `Reactor!DrainPrecedesForceClose` (worker.go:214-218) | `server` | the drain reads zero and skips its wait for a connection that CloseAll then closes |
| `ProtocolHandler!CacheHasHolder` (protocol.go:96-99) | `resume` | a publish racing the last unsubscribe caches for a topic nobody holds |
| `ProtocolHandler!CacheInOrder` (protocol.go:440-441) | `resume`, two publishers, `MaxPublish = 2` | concurrent publishes are cached in the opposite order of their numbers |
| `ProtocolHandler!CounterStarted` (protocol.go:615-617) | `resume` | a topic's counter is read between its creation and its first increment |
| `ProtocolHandler!WireInOrder` (protocol.go:387-388) | `resume`, `MaxPublish = 2` | a live publish is written before the older ones of a replay |
| `ProtocolHandler!NoPhantomSubscriber` (protocol.go:231-237, fair) | `sessions`, `Strict = FALSE` | a subscriber without a session that vanished stays a member on a quiet topic |
| `Client!FragmentsContiguous` (client.go:303-305) | `client` | a one-frame request is written between two fragments |
| `Client!CloseFailsPending` (client.go:411-412, fair) | `client`, `Timed = {}`, no deadlock check | a request without a timeout that registers between failPending and Close waits for ever |
| `Client!PingEnds` (client.go:221-223, fair) | `client`, `Pings = {b1}`, `Byes = Hellos = {}` | a ping waits for the mutex without a limit, behind a write that does not end |
| `Client!NoWaitCircle` (resilient.go:242-243) | `client`, 1 large and 3 small requests, all timed, no handshake, `IdSpace = 6` | a writer that holds the mutex, the server that writes a reply and the read loop that needs the mutex wait for each other |
| `Executor!DroppedNeverRuns` (async_executor.go:76) | `executor` | a task that Execute's re-check calls dropped is run |
| `ResilientClient!ReconnectReplacesDeadLink` (resilient.go:214-216) | `resilient` | concurrent Connects replace each other's live connection |
| `ResilientClient!FailedTopicIsRetried` (resilient.go:465-466) | `resilient`, `Threads = {t1}` | a topic whose re-send failed is not sent again by the next reconnect, which is resumed |
| `ResilientClient!SubscriptionSurvives` (resilient.go:254-256) | `resilient`, `Threads = {t1}` | a subscription answered on the old connection and recorded after swap's snapshot is not on the new session |
| `ResilientClient!UnsubscribeForgets` (resilient.go:292) | `resilient`, `MaxOps = 2` | swap re-subscribes a topic that was forgotten after its snapshot |
| `ResilientClient!SessionOnLink` (resilient.go:45-48) | `resilient`, `Threads = {t1}` | the HELLO of a link that was given up is handled after the next link resumed, and takes the session off it |
| `ReplayCursor`: `[][AsksForMissed]_vars` (resilient.go:163-164) | `replay`, `Modes = {FALSE}`, `MaxLinks = 3` | a live publish that overtook a replay raises the plain client's cursor above what is lost when the connection drops |
| `ReplayCursor!AcceptedOnce` (resilient.go:67-68) | `replay` | a late alignment lowers the cursor, and a publish is handled twice |
| `ReplayCursor!FreshIsOffered` (resilient.go:279-282) | `replay` | the first publish of a restarted topic is dropped as old |
| `ReplayCursor!NoGapNoGrowth` (resilient.go:462-464) | `replay` | joining a topic with a history makes the accepted set grow for ever |
| `Balancers!NextIsTotal` (edge_test.go:170-172) | `balancers`, `MaxWeight = 3`, `MaxPicks = 1` | totalWeight reaches 0 with two backends listed, and Next divides by it |
| `Balancers!NextIsMember` (contract_test.go:77-78) | `balancers` | removing one of two backends that share a hash makes Next return the zero backend without an error |
| `FrameCodec!PublishSparesReplies` (protocol.go:681-682) | `frame_codec` | a publish cut off by its deadline leaves a torn frame before the later replies of an open connection |

Four more differences need no run to be seen. codec.go:72-74 says a stream that ends within
a frame yields io.ErrUnexpectedEOF; within a header, and between two fragments of a
message, it yields io.EOF (codec.go:99-100, stream.go:70-75), and HandleRead closes such a
connection like one that ended between messages. The comments at protocol.go:746-747 and
codec.go:41 rely on a check of the length's sign in Encode, which has none; the limit on
the payload's own length does that work. The encoder has no counterpart of MaxStreamSize:
a reply above it is fragmented and refused by the peer. And AddHandler accepts the
position of the tail (linked_pipeline.go:127), has no node behind it to link
(linked_pipeline.go:148) and panics on the nil pointer: `AddPanics`.

## 4. Fairness

Weak fairness of each goroutine, which is what the Go scheduler gives to a goroutine that
stays runnable: `AcceptProgress`, `DispatchProgress`, `HandlerProgress`, `WorkerLoop`,
`ShutdownProgress` and the rest of a Stop that has begun (Reactor); handlers and
publishers (ProtocolHandler); `RoundTrip` and `ReadLoop` (Client); submitters and workers
(Executor); threads and a Close that has begun (ResilientClient). Time is fair where the
code sets a timer: a read of the frame codec returns, by the idle deadline where one is
set and otherwise because the peer sends or hangs up in the end; the shutdown's deadline,
`DeadlinePasses`, is part of `ShutdownProgress`; `Expire` of a session and the janitor's
`Reap` are fair in ProtocolHandler. The environment is not: no connection has to arrive, peers may stay
silent, servers need not answer or read, no link needs to come up, the program need not
call anything. Signals need not come; one that is buffered is taken although SIGHUPs keep
coming, because select chooses at random among the channels that are ready. Two
assumptions are about the program and are needed: actions handed to the executor return
once what they wait for is resolved, and submit it; and the mutex of the client, which Go
hands over in bounded time, does not starve a waiter.

## 5. Proofs

For every value of the constants that satisfies the named assumptions (kinds are subsets
of the requests or connections, null values are no members, capacities are positive):

- `ReactorProofs`: `TypeCorrect`, with the bound on every queue.
  `SweepLeavesNoOpenHandler`, from `SweepInv`: the registry is empty once it is closed, a
  live handler's connection is closed or in the registry, and the same holds of the
  connection that a worker has added and not spawned a handler for yet. The goal alone
  says nothing about that last connection, whose handler starts after the sweep.
  `ExitStrandsNothing`, from `QueueInv`: a loop that is draining or has exited has its
  context done, and a queued connection was sent to this worker by a dispatcher that is
  past its send; so whoever sends after the drain sees the context in its re-check.
  `NoConnectionLeaks`, from `OwnerInv`: nobody but its dispatcher has a connection that was
  not sent yet, a worker at its select holds none, and a handler past its Close has a
  closed socket; without these a send, a take or the end of a handler could drop or
  duplicate an owner. `CountersCorrect`, from `PlaceInv` beside it: a connection is in one
  queue once, with one worker or with one handler, and always at the worker it was sent
  to, so a spawn counts a new handler and a handler's clean-up lowers the count that its
  spawn raised. Connections and workers are finite sets (`FiniteAssumption`); the
  cardinalities move by one element, which the finite set theorems give without induction.
- `ProtocolHandlerProofs`: `SessionIndexCorrect` from `IndexInv`, which adds the types of
  the session tables and that a HELLO about to attach has no token yet: the check for a
  second handshake and the attach are two critical sections, and the index would be
  overwritten otherwise. From it the action property `TokenStable`. `HandlerTypeCorrect`
  beside it. `RecordedServed`, from `ServeInv`: a session the server forgot records nothing,
  and removeSubscriber runs only for a connection that a write failed on. `DeliveredOnce`,
  for clients that shake hands once and first (`HelloFirst`), from `NumberInv`, publishes
  under way and cached frames have different numbers, and `DeliverInv`: before its handshake
  a connection is a member of nothing, and afterwards the three ways a publish can be with
  it, written, waiting in its replay, or in the hands of a Publish that has it as a member,
  exclude each other (`Apart`). The goal only speaks of the first of the three. `CacheCorrect`:
  `CacheAccounted` is inductive with the types once sizes are numbers of bytes, because
  trimming, evicting and dropping a topic each take a set of bytes out of a disjoint union;
  no induction over a sum is needed, and the topics are a finite set (`TopicsAssumption`).
- `ReplayCursorProofs`: `ReplayTypeCorrect`; `CursorFull`, `NothingSkipped` and
  `ReplayCovers` from `ReplayInv`: frames of an older numbering are read first
  (`WireSorted`), nothing accepted is newer than what is on the wire (`WireRecent`),
  publishes are numbered from 1 (`Numbered`), and while only the first numbering was
  accepted everything up to the cursor, set aside or left out of the request for a replay
  was accepted (`Covered`). None of the three goals is inductive without the
  statements about the wire. `ReplayCovers` is about the acknowledging client only; the
  plain one does not have the property (section 3). `RepeatsOnlyAfterLowering` from
  `RepeatInv`, for both clients: the counter is ahead of everything of its numbering
  (`Counted`), one connection carries a publish once (`CarriedOnce`), and until an answer
  lowers the cursor what was accepted is at or below it or set aside, and what is on its way
  to a plain client is new to it (`Unseen`).
- `ResilientClientProofs`: `ResilientTypeCorrect`; `ListMatches` from `ListInv`, for any
  number of Connects. A session that was answered, presented or recorded was minted on the
  link of its name (`SessionsMinted`), and the client's token is the answer on its link
  (`ClientInUse`). Until its swap a link is known to the thread that dialled it only, and a
  session minted there has no topics (`PrivateLinks`): a swap to a new session therefore
  starts from nothing and owes the session exactly the snapshot. Topics are re-sent to
  sessions minted on the thread's own link, and a call that saw no swap and no re-send of
  its topic is about the client's session (`CallsAndResends`). The session of the token then
  records what is listed, but for an answer not recorded yet, what is still to be re-sent and
  what is in doubt (`SessionMatches`); the goal speaks of settled states only and is not
  inductive without the first two exceptions. The server appears in all of this through the
  token: a late HELLO takes the session off the link, not its topics from it.
- `FrameCodecProofs`: `PoolsExclusive` from `PoolInv`, which says what a goroutine holds at
  each place of HandleRead (`Held`), that what it holds shares no array except the
  aggregate, which begins in the payload of the frame that is returned (`Separate`), and that
  nothing is with two connections or with one and in a pool (`Owned`). `BytesStayPut`, an
  action property from the same invariant: a connection that takes no step finds the bytes
  of what it holds unchanged, whatever the others do with the pools. `PayloadIntact`,
  `StreamDispatched` and the refinement `MessageStreamImplemented`, from `ContentInv` beside
  `PoolInv`: a slice holds a run of the peer's frames when it lists their bytes, each once and
  in the order of the wire (`Holds`), which determines it; everything before the message being
  read was dispatched (`Opened`), the aggregate has the frames read so far (`Gathered`), the
  payload a handler reads is a legal message (`Complete`), and a connection that is over had
  its whole stream or a fault (`Finished`). The goals speak of whole messages only; between
  two messages nothing but `Opened` and `Gathered` says where the decoder is. That a legal
  run is the next message of `Framing`, and that the bytes of a run in order are that
  message, are arguments by least counterexample over natural numbers.
  `RepliesWhole`, from `ReplyInv` beside both. It is about all frames on the wire, those
  behind a torn one included: the bytes in the frames of replies are those of every request
  dispatched, in order, but for a reply still under way or one that the connection was
  closed over, and a fragment that announces another is followed by it unless a write has
  failed, when it may be the last (`Wired`); the encoded frames have the first bytes of the
  message that is answered (`Drafted`), and what was dispatched lies before the message being
  read (`Passed`), which is why a new reply comes after all earlier ones. That what the peer
  can read is an initial segment of this, and so inherits order and the absence of gaps, is
  `ReadsPart`. A publish and a part of a frame are no frames of a reply, so a torn publish
  changes what can be read and nothing in the invariant. The property is about sets
  of bytes and the order of their places, not about flattened sequences: bytes of the wire are
  distinct, so the two say the same, and no recursion has to be unfolded.
- `InternalProofs`, for two packages of internal/ that share no state. Executor:
  `ExecutorTypeCorrect`; `RunsOnce` from `RunsInv` (the number of runs is 1 exactly for the
  futures in `running`); `OutcomesStable`. Balancers: `OwnerAnswers` from `RingInv`, for any
  hash function: the list has a hash as often as the members have replicas on it, a hash has
  no entry in the circle when no member is there or a removal vacated it, and an entry is
  otherwise the member registered last of those that are there. The last clause is what makes
  shared hashes come out: a registration overwrites the entry and is the last, and a removal
  deletes it for everybody. That the search around the ring finds the nearest replica is
  `FoundIsNearest`.
  `LeastPicked` from `LeastInv`: a backend is listed once, and a scan belongs to the adaptive
  strategy and has seen a prefix of a list that does not change under it. `TurnsFair` and
  `DrawsWeighted` from `FairInv` beside it, which holds until somebody changes a weight behind
  the balancer's back: totalWeight and preSum are those of the list, and the picks since the
  last change are q whole turns and one pick for each position since the one the turn began
  after (`Turns`). The goals say something only when a turn is complete. `Turns` is
  preserved because a new position is a new element of the positions visited, until they are
  all there are (`NextTurn`); a backend has as many positions of a turn as its weight
  (`ShareSize`), the cardinality of an interval between two prefix sums.
- `PipelineProofs`: from `ChainInv`, in which every node is listed once, what a call has
  still to add is not listed, and AddHandler stands at a node that has one behind it:
  `ChainCorrect` (the links agree in both directions and with the size) and
  `LookupsCorrect`. The scans are recursive functions along the links; that the k-th step
  of one is the k-th node is an induction over k, done as an argument by least
  counterexample with the well-ordering fact of WellFoundedInduction, which takes no
  operator as a parameter. From `StackInv` as well (the nodes on the stack are listed, only
  handlers call on, and the list no longer changes): `PropagationCorrect`, `PanicCloses`
  and the action property `WriterUndisturbed`, for any depth of nested calls.
  `PipelineImplementsList`, that Pipeline implements `HandlerList`
  under the mapping `List`: an Add call is one abstract step, taken when it returns, so the
  invariant `CallInv` says what it has done so far: its first handlers stand at one place
  (the cut) of the list it found, reversed for AddFirst, and AddHandler is at the last of
  them. `ChainInv` gives the place of each insertion; the returning step is then an equation
  between sequences, proved element by element.
- `ClientProofs`: `AnswersMine` and `PendingCorrect` from `ClientInv`. Ids are handed out
  once because `nextID` counts the requests that have one and there are fewer requests than
  ids (`IdsUnique`; the code has 2^32 of them and no other protection against an id that
  comes round while its request waits). A frame on the wire, in the server or in the read
  loop carries the id of its request (`FramesLabelled`), so the entry resolvePending finds
  under the id is the request that is answered, and a channel is resolved once, by its own
  response, while it is pending (`ChannelsMine`).

TLC checked each inductive invariant on the instance of its run before it was proved. The
larger ones: `NumberInv` and `DeliverInv` over the 2.1 million states of `protocol`,
`RepeatInv` over the 12.7 million of `replay`, `ListInv` over the 1.6 million of `resilient`,
`PoolInv`, `ContentInv` and `ReplyInv` over the 0.3 million of `frame_codec`, `RingInv`, `LeastInv` and
`FairInv`, with the number of turns bounded, over the 1.7 million of `balancers`, together with
the identity that `SumOf` is the sum of the values. `CacheAccounted` was also checked with two topics, caches of two and
four publishes, 3.3 million states, together with the identity that `FrameBytes` is the sum of
the frames' sizes.

Only model-checked: the liveness properties. Fairness and ENABLED are out of the prover's
reach. Every invariant and every other action property that a passing run checks is proved.

## 6. Not modelled

Server options, the command line client, examples and interface declarations keep no state
of interest; the HTTP service is a map behind a mutex on net/http. Header bytes and the
JSON text of envelopes are conversions without state; the models keep the fields. Within
modelled components: ping/pong statistics, toggling RequireHello while clients are
connected, the arithmetic of the reconnect backoff, LeastConnections with counts the
backend keeps, a panicking action of the executor, the attachment of a handler context,
handlers that are added twice or to a pipeline in use (no code does it).

## 7. Plan

Done, in this order: Reactor, ProtocolHandler, Client, Executor, ResilientClient,
ReplayCursor, Balancers, FrameCodec with MessageStream, Pipeline with HandlerList, nested
submissions in Executor, Server. Next:

1. An abstract subscription service (a set of topics per client, publishes delivered at
   most once per connection) that ProtocolHandler implements by a refinement mapping; an
   abstract consistent hash (a function of the members) that the ring of Balancers
   implements: `RingInv` is most of the argument.
2. Proofs: the safety part of `Server`, whose steps are Reactor's and its own.
