------------------------------ MODULE Reactor ------------------------------
(***************************************************************************)
(* The reactor of pkg/reactor: the accept loop (reactor.go), the worker    *)
(* loops and connection handlers (worker.go) and the connection registry   *)
(* (registry.go), with the two ways of stopping them, Reactor.Stop and the *)
(* staged Reactor.ShutdownWithTimeout.                                     *)
(*                                                                         *)
(* Threads of the model, each a goroutine of the program:                  *)
(*   - the accept loop (Reactor.Run), program counter acc;                 *)
(*   - one dispatcher per connection, disp[c]: the accept loop itself for  *)
(*     an accepted connection, the caller of Register for the others;      *)
(*   - one loop per worker (Worker.Run), wpc[w], with the connection it    *)
(*     holds in wcur[w];                                                   *)
(*   - one handler per connection (Worker.handleConnection), hpc[c];       *)
(*   - the callers of ShutdownWithTimeout (spc) and Stop (stopPc).         *)
(***************************************************************************)
EXTENDS Integers, Sequences, FiniteSets, FiniteSetsExt

CONSTANTS Conns,      \* connections
          Registered, \* those a program hands over with Register; the others
                      \* come from Accept
          Calls,      \* the stopping calls the program makes
          Workers,    \* the workers of the group
          QueueCap,   \* capacity of Worker.newCh (100 in the code)
          NoConn,     \* "no connection", not a member of Conns
          NoWorker    \* "no worker", not a member of Workers

ASSUME QueueCapAssumption == QueueCap \in Nat \ {0}
ASSUME RegisteredAssumption == Registered \subseteq Conns
ASSUME CallsAssumption ==
  Calls \subseteq {"Shutdown", "Stop", "WorkerStop", "Unregister"}
ASSUME FiniteAssumption == IsFiniteSet(Conns) /\ IsFiniteSet(Workers)
ASSUME NoConnAssumption == NoConn \notin Conns
ASSUME NoWorkerAssumption == NoWorker \notin Workers

VARIABLES
  listening,  \* the listener is open
  stopping,   \* Reactor.stopping
  ctxDone,    \* the workers whose context is cancelled
  rootDone,   \* the reactor's own context is cancelled
  acc,        \* program counter of the accept loop
  accConn,    \* the connection the accept loop is dispatching
  sock,       \* state of the connection's socket
  disp,       \* program counter of the dispatcher of a connection
  target,     \* the worker the balancer chose for a connection
  queue,      \* Worker.newCh
  wpc,        \* program counter of a worker loop
  wcur,       \* the connection a worker loop holds
  lclosed,    \* lifecycleConn.closed
  hpc,        \* program counter of a connection handler
  registry,   \* ConnectionRegistry.conns
  regClosed,  \* ConnectionRegistry.closed
  active,     \* WorkerGroup.active
  count,      \* Worker.count
  spc,        \* program counter of ShutdownWithTimeout
  expired,    \* the deadline of the current shutdown stage has passed
  shutErr,    \* ShutdownWithTimeout returned an error
  stopPc,     \* program counter of Stop
  crashed     \* the process ended: a broken pipeline initializer panicked

netVars  == <<listening, stopping, ctxDone, rootDone, acc, accConn>>
connVars == <<sock, disp, target, queue>>
workVars == <<wpc, wcur, count, active>>
hndVars  == <<lclosed, hpc>>
regVars  == <<registry, regClosed>>
shutVars == <<spc, expired, shutErr, stopPc>>
vars == <<netVars, connVars, workVars, hndVars, regVars, shutVars, crashed>>

AccPc  == {"off", "check", "accept", "backoff", "dispatch", "done"}
DispPc == {"none", "arrived", "sending", "sent", "returned"}
WPc    == {"off", "select", "add", "started", "counted", "reject",
           "drain", "exited", "rejected"}
HPc    == {"none", "init", "loop", "read", "after", "close", "remove",
           "uncount", "finish", "done"}
SPc    == {"idle", "drain", "sweep", "cancel", "await", "report", "done"}

\* A handler goroutine exists and has not unregistered itself yet.
LiveHPc == HPc \ {"none", "done"}

Init ==
  /\ listening = TRUE
  /\ stopping = FALSE
  /\ ctxDone = {}
  /\ rootDone = FALSE
  /\ acc = "off"
  /\ accConn = NoConn
  /\ sock = [c \in Conns |-> "none"]
  /\ disp = [c \in Conns |-> "none"]
  /\ target = [c \in Conns |-> NoWorker]
  /\ queue = [w \in Workers |-> <<>>]
  /\ wpc = [w \in Workers |-> "off"]
  /\ wcur = [w \in Workers |-> NoConn]
  /\ lclosed = [c \in Conns |-> FALSE]
  /\ hpc = [c \in Conns |-> "none"]
  /\ registry = {}
  /\ regClosed = FALSE
  /\ active = 0
  /\ count = [w \in Workers |-> 0]
  /\ spc = "idle"
  /\ expired = FALSE
  /\ shutErr = FALSE
  /\ stopPc = "idle"
  /\ crashed = FALSE

\* The process is up; only a panicking initializer takes it down.
Running == ~crashed /\ crashed' = crashed

-----------------------------------------------------------------------------
(* The accept loop: Reactor.Run.                                           *)

\* OnStartup and workers.Start: every worker loop begins.
RunStart ==
  /\ Running
  /\ acc = "off"
  /\ acc' = "check"
  /\ wpc' = [w \in Workers |-> "select"]
  /\ UNCHANGED <<listening, stopping, ctxDone, rootDone, accConn, connVars,
                 wcur, count, active, hndVars, regVars, shutVars>>

\* The select on the reactor's context at the head of the loop.
RunCheck ==
  /\ Running
  /\ acc = "check"
  /\ acc' = IF rootDone THEN "done" ELSE "accept"
  /\ UNCHANGED <<listening, stopping, ctxDone, rootDone, accConn, connVars,
                 workVars, hndVars, regVars, shutVars>>

\* Accept returns a connection and OnConnect fires.
Accept(c) ==
  /\ Running
  /\ acc = "accept"
  /\ listening
  /\ c \notin Registered
  /\ disp[c] = "none"
  /\ acc' = "dispatch"
  /\ accConn' = c
  /\ disp' = [disp EXCEPT ![c] = "arrived"]
  /\ sock' = [sock EXCEPT ![c] = "open"]
  /\ UNCHANGED <<listening, stopping, ctxDone, rootDone, target, queue,
                 workVars, hndVars, regVars, shutVars>>

\* Accept fails: the listener was closed, or a transient error on an open
\* one.  The loop returns when a stop is under way or the listener is gone.
AcceptFails ==
  /\ Running
  /\ acc = "accept"
  /\ acc' = IF stopping \/ rootDone \/ ~listening THEN "done" ELSE "backoff"
  /\ UNCHANGED <<listening, stopping, ctxDone, rootDone, accConn, connVars,
                 workVars, hndVars, regVars, shutVars>>

\* The sleep of a transient failure ends; its length is not modelled.
BackoffOver ==
  /\ Running
  /\ acc = "backoff"
  /\ acc' = "check"
  /\ UNCHANGED <<listening, stopping, ctxDone, rootDone, accConn, connVars,
                 workVars, hndVars, regVars, shutVars>>

\* Dispatch returned, with or without an error: the next iteration.
DispatchReturned ==
  /\ Running
  /\ acc = "dispatch"
  /\ disp[accConn] = "returned"
  /\ acc' = "check"
  /\ accConn' = NoConn
  /\ UNCHANGED <<listening, stopping, ctxDone, rootDone, connVars, workVars,
                 hndVars, regVars, shutVars>>

-----------------------------------------------------------------------------
(* Dispatching a connection: Reactor.Register, WorkerGroup.Dispatch and    *)
(* Worker.AddConn.  Any number of callers of Register run concurrently     *)
(* with the accept loop.                                                   *)

\* A program hands over a connection of its own.
Register(c) ==
  /\ Running
  /\ c \in Registered
  /\ disp[c] = "none"
  /\ disp' = [disp EXCEPT ![c] = "arrived"]
  /\ sock' = [sock EXCEPT ![c] = "open"]
  /\ UNCHANGED <<netVars, target, queue, workVars, hndVars, regVars, shutVars>>

\* The injected balancer picks a worker ...
Dispatch(c, w) ==
  /\ Running
  /\ disp[c] = "arrived"
  /\ disp' = [disp EXCEPT ![c] = "sending"]
  /\ target' = [target EXCEPT ![c] = w]
  /\ UNCHANGED <<netVars, sock, queue, workVars, hndVars, regVars, shutVars>>

\* Dispatch that returns the balancer's error and forgets the connection.
DispatchLeaks(c) ==
  /\ Running
  /\ disp[c] = "arrived"
  /\ disp' = [disp EXCEPT ![c] = "returned"]
  /\ UNCHANGED <<netVars, sock, target, queue, workVars, hndVars, regVars,
                 shutVars>>

\* ... or returns an error, or no error and no worker: Dispatch closes.
DispatchFails(c) ==
  /\ Running
  /\ disp[c] = "arrived"
  /\ disp' = [disp EXCEPT ![c] = "returned"]
  /\ sock' = [sock EXCEPT ![c] = "closed"]
  /\ UNCHANGED <<netVars, target, queue, workVars, hndVars, regVars, shutVars>>

\* newCh has room for one more.
HasRoom(w) == Len(queue[w]) < QueueCap

\* AddConn's send; a full newCh blocks the dispatcher.
AddConnSend(c) ==
  LET w == target[c] IN
  /\ Running
  /\ disp[c] = "sending"
  /\ HasRoom(w)
  /\ queue' = [queue EXCEPT ![w] = Append(@, c)]
  /\ disp' = [disp EXCEPT ![c] = "sent"]
  /\ UNCHANGED <<netVars, sock, target, workVars, hndVars, regVars, shutVars>>

\* AddConn as a plain channel send.
NeverStopped(c) == FALSE

\* The worker the connection is sent to has stopped.
WorkerStopped(c) == target[c] \in ctxDone

\* AddConn's other arm: the worker's context is done.
AddConnStopped(c) ==
  /\ Running
  /\ disp[c] = "sending"
  /\ WorkerStopped(c)
  /\ disp' = [disp EXCEPT ![c] = "returned"]
  /\ sock' = [sock EXCEPT ![c] = "closed"]
  /\ UNCHANGED <<netVars, target, queue, workVars, hndVars, regVars, shutVars>>

\* The re-check after the send skipped.
NoRecheck(c) == sock

\* The socket after the re-check that follows the send: AddConn closes the
\* connection when the worker's context was cancelled meanwhile.
Recheck(c) == IF target[c] \in ctxDone THEN [sock EXCEPT ![c] = "closed"]
                                       ELSE sock

AddConnRecheck(c) ==
  /\ Running
  /\ disp[c] = "sent"
  /\ disp' = [disp EXCEPT ![c] = "returned"]
  /\ sock' = Recheck(c)
  /\ UNCHANGED <<netVars, target, queue, workVars, hndVars, regVars, shutVars>>

\* Reactor.Unregister: the program closes a connection it knows of.
Unregister(c) ==
  /\ Running
  /\ "Unregister" \in Calls
  /\ sock[c] = "open"
  /\ sock' = [sock EXCEPT ![c] = "closed"]
  /\ UNCHANGED <<netVars, disp, target, queue, workVars, hndVars, regVars,
                 shutVars>>

-----------------------------------------------------------------------------
(* The worker loop: Worker.Run and closePending.                           *)

\* The newCh arm of the select; it may win even when the context is done.
WorkerTake(w) ==
  /\ Running
  /\ wpc[w] = "select"
  /\ queue[w] # <<>>
  /\ wcur' = [wcur EXCEPT ![w] = Head(queue[w])]
  /\ queue' = [queue EXCEPT ![w] = Tail(@)]
  /\ wpc' = [wpc EXCEPT ![w] = "add"]
  /\ UNCHANGED <<netVars, sock, disp, target, count, active, hndVars,
                 regVars, shutVars>>

\* The context arm of the select.
WorkerCtxDone(w) ==
  /\ Running
  /\ wpc[w] = "select"
  /\ w \in ctxDone
  /\ wpc' = [wpc EXCEPT ![w] = "drain"]
  /\ UNCHANGED <<netVars, connVars, wcur, count, active, hndVars, regVars,
                 shutVars>>

\* A registry without its gate.
AlwaysAccepts == TRUE

\* registry.Add's answer: it refuses once CloseAll has swept.
RegistryAccepts == ~regClosed

\* registry.Add accepts the connection.
WorkerAdd(w) ==
  /\ Running
  /\ wpc[w] = "add"
  /\ RegistryAccepts
  /\ registry' = registry \cup {wcur[w]}
  /\ wpc' = [wpc EXCEPT ![w] = "started"]
  /\ UNCHANGED <<netVars, connVars, wcur, count, active, hndVars, regClosed,
                 shutVars>>

\* registry.Add refuses: the worker closes the connection itself and gives
\* up its loop.
WorkerReject(w) ==
  /\ Running
  /\ wpc[w] = "add"
  /\ ~RegistryAccepts
  /\ sock' = [sock EXCEPT ![wcur[w]] = "closed"]
  /\ wcur' = [wcur EXCEPT ![w] = NoConn]
  /\ wpc' = [wpc EXCEPT ![w] = "reject"]
  /\ UNCHANGED <<netVars, disp, target, queue, count, active, hndVars,
                 regVars, shutVars>>

\* handlerStarted
WorkerStarted(w) ==
  /\ Running
  /\ wpc[w] = "started"
  /\ active' = active + 1
  /\ wpc' = [wpc EXCEPT ![w] = "counted"]
  /\ UNCHANGED <<netVars, connVars, wcur, count, hndVars, regVars, shutVars>>

\* count.Add(1) and the go statement
WorkerSpawn(w) ==
  /\ Running
  /\ wpc[w] = "counted"
  /\ count' = [count EXCEPT ![w] = @ + 1]
  /\ hpc' = [hpc EXCEPT ![wcur[w]] = "init"]
  /\ wcur' = [wcur EXCEPT ![w] = NoConn]
  /\ wpc' = [wpc EXCEPT ![w] = "select"]
  /\ UNCHANGED <<netVars, connVars, active, lclosed, regVars, shutVars>>

\* One iteration of closePending.
ClosePending(w) ==
  /\ Running
  /\ wpc[w] \in {"drain", "reject"}
  /\ queue[w] # <<>>
  /\ sock' = [sock EXCEPT ![Head(queue[w])] = "closed"]
  /\ queue' = [queue EXCEPT ![w] = Tail(@)]
  /\ UNCHANGED <<netVars, disp, target, workVars, hndVars, regVars, shutVars>>

\* closePending found the queue empty: the loop is over.
WorkerExit(w) ==
  /\ Running
  /\ wpc[w] \in {"drain", "reject"}
  /\ queue[w] = <<>>
  /\ wpc' = [wpc EXCEPT ![w] = IF @ = "drain" THEN "exited" ELSE "rejected"]
  /\ UNCHANGED <<netVars, connVars, wcur, count, active, hndVars, regVars,
                 shutVars>>

-----------------------------------------------------------------------------
(* The connection handler: Worker.handleConnection.                        *)

\* lifecycleConn.Close: idempotent, closes the socket the first time.
CloseLc(c) ==
  /\ lclosed' = [lclosed EXCEPT ![c] = TRUE]
  /\ sock' = [sock EXCEPT ![c] = "closed"]

\* The pipeline initializer succeeds and FireActive runs.
HandlerInit(c) ==
  /\ Running
  /\ hpc[c] = "init"
  /\ hpc' = [hpc EXCEPT ![c] = "loop"]
  /\ UNCHANGED <<netVars, connVars, workVars, lclosed, regVars, shutVars>>

\* The pipeline initializer fails: the registration is undone and the panic,
\* raised before any recover is deferred, takes the process down.
HandlerInitFails(c) ==
  /\ ~crashed
  /\ hpc[c] = "init"
  /\ CloseLc(c)
  /\ registry' = registry \ {c}
  /\ count' = [count EXCEPT ![target[c]] = @ - 1]
  /\ active' = active - 1
  /\ hpc' = [hpc EXCEPT ![c] = "done"]
  /\ crashed' = TRUE
  /\ UNCHANGED <<netVars, disp, target, queue, wpc, wcur, regClosed, shutVars>>

\* The head of the read loop: a done context closes the connection ...
HandlerCtxDone(c) ==
  /\ Running
  /\ hpc[c] = "loop"
  /\ target[c] \in ctxDone
  /\ CloseLc(c)
  /\ hpc' = [hpc EXCEPT ![c] = "close"]
  /\ UNCHANGED <<netVars, disp, target, queue, workVars, regVars, shutVars>>

\* ... and otherwise FireRead parks the handler in Read.
HandlerRead(c) ==
  /\ Running
  /\ hpc[c] = "loop"
  /\ target[c] \notin ctxDone
  /\ hpc' = [hpc EXCEPT ![c] = "read"]
  /\ UNCHANGED <<netVars, connVars, workVars, lclosed, regVars, shutVars>>

\* FireRead handled a frame and kept the connection.
ReadFrame(c) ==
  /\ Running
  /\ hpc[c] = "read"
  /\ sock[c] = "open"
  /\ hpc' = [hpc EXCEPT ![c] = "after"]
  /\ UNCHANGED <<netVars, connVars, workVars, lclosed, regVars, shutVars>>

\* The read failed (peer gone, idle deadline, socket closed here) or the
\* frame was refused: the codec or a handler closes the connection.
ReadCloses(c) ==
  /\ Running
  /\ hpc[c] = "read"
  /\ CloseLc(c)
  /\ hpc' = [hpc EXCEPT ![c] = "after"]
  /\ UNCHANGED <<netVars, disp, target, queue, workVars, regVars, shutVars>>

\* A handler panicked on a frame; recover turns it into FireException.
ReadPanics(c) ==
  /\ Running
  /\ hpc[c] = "read"
  /\ sock[c] = "open"
  /\ hpc' = [hpc EXCEPT ![c] = "close"]
  /\ UNCHANGED <<netVars, connVars, workVars, lclosed, regVars, shutVars>>

\* The check of lc.closed that ends the loop.
HandlerAfterRead(c) ==
  /\ Running
  /\ hpc[c] = "after"
  /\ hpc' = [hpc EXCEPT ![c] = IF lclosed[c] THEN "close" ELSE "loop"]
  /\ UNCHANGED <<netVars, connVars, workVars, lclosed, regVars, shutVars>>

\* The deferred clean-up, one step per statement.
HandlerClose(c) ==
  /\ Running
  /\ hpc[c] = "close"
  /\ CloseLc(c)
  /\ hpc' = [hpc EXCEPT ![c] = "remove"]
  /\ UNCHANGED <<netVars, disp, target, queue, workVars, regVars, shutVars>>

HandlerRemove(c) ==
  /\ Running
  /\ hpc[c] = "remove"
  /\ registry' = registry \ {c}
  /\ hpc' = [hpc EXCEPT ![c] = "uncount"]
  /\ UNCHANGED <<netVars, connVars, workVars, lclosed, regClosed, shutVars>>

\* A clean-up that decrements only the group's counter.
HandlerNotUncounted(c) ==
  /\ Running
  /\ hpc[c] = "uncount"
  /\ hpc' = [hpc EXCEPT ![c] = "finish"]
  /\ UNCHANGED <<netVars, connVars, workVars, lclosed, regVars, shutVars>>

HandlerUncount(c) ==
  /\ Running
  /\ hpc[c] = "uncount"
  /\ count' = [count EXCEPT ![target[c]] = @ - 1]
  /\ hpc' = [hpc EXCEPT ![c] = "finish"]
  /\ UNCHANGED <<netVars, connVars, wpc, wcur, active, lclosed, regVars,
                 shutVars>>

HandlerFinish(c) ==
  /\ Running
  /\ hpc[c] = "finish"
  /\ active' = active - 1
  /\ hpc' = [hpc EXCEPT ![c] = "done"]
  /\ UNCHANGED <<netVars, connVars, wpc, wcur, count, lclosed, regVars,
                 shutVars>>

-----------------------------------------------------------------------------
(* Stopping: Reactor.ShutdownWithTimeout, Reactor.Stop, Worker.Stop.       *)

\* Stage 1; stopOnce lets one caller in.
ShutdownBegin ==
  /\ Running
  /\ "Shutdown" \in Calls
  /\ spc = "idle"
  /\ spc' = "drain"
  /\ stopping' = TRUE
  /\ listening' = FALSE
  /\ UNCHANGED <<ctxDone, rootDone, acc, accConn, connVars, workVars, hndVars,
                 regVars, expired, shutErr, stopPc>>

\* The deadline of stage 2 or of AwaitDone passes.
DeadlinePasses ==
  /\ Running
  /\ spc \in {"drain", "await"}
  /\ ~expired
  /\ expired' = TRUE
  /\ UNCHANGED <<netVars, connVars, workVars, hndVars, regVars, spc, shutErr,
                 stopPc>>

\* WorkerGroup.TotalCount
TotalCount == MapThenSumSet(LAMBDA w : count[w], Workers)

\* A drain without its deadline.
DrainForever == TotalCount = 0

\* The polling loop of stage 2 is over.
DrainOver == TotalCount = 0 \/ expired

\* Stage 2 ends: every handler is gone or the drain timeout elapsed.
ShutdownDrained ==
  /\ Running
  /\ spc = "drain"
  /\ DrainOver
  /\ spc' = "sweep"
  /\ UNCHANGED <<netVars, connVars, workVars, hndVars, regVars, expired,
                 shutErr, stopPc>>

\* ConnectionRegistry.CloseAll, one critical section of the registry's mutex.
CloseAll ==
  /\ lclosed' = [c \in Conns |-> lclosed[c] \/ c \in registry]
  /\ sock' = [c \in Conns |-> IF c \in registry THEN "closed" ELSE sock[c]]
  /\ registry' = {}
  /\ regClosed' = TRUE

\* Stage 3
ShutdownSweep ==
  /\ Running
  /\ spc = "sweep"
  /\ CloseAll
  /\ spc' = "cancel"
  /\ UNCHANGED <<netVars, disp, target, queue, workVars, hpc, expired,
                 shutErr, stopPc>>

\* Stage 4: cancelFunc and workers.Stop, then AwaitDone begins.
ShutdownCancel ==
  /\ Running
  /\ spc = "cancel"
  /\ rootDone' = TRUE
  /\ ctxDone' = Workers
  /\ expired' = FALSE
  /\ spc' = "await"
  /\ UNCHANGED <<listening, stopping, acc, accConn, connVars, workVars,
                 hndVars, regVars, shutErr, stopPc>>

\* The polling loop of AwaitDone ends.
ShutdownAwaited ==
  /\ Running
  /\ spc = "await"
  /\ active = 0 \/ expired
  /\ spc' = "report"
  /\ UNCHANGED <<netVars, connVars, workVars, hndVars, regVars, expired,
                 shutErr, stopPc>>

\* AwaitDone's answer, read once more after the polling loop.
AllHandlersDone == active = 0

\* AwaitDone returns and stage 5 fires OnShutdown.
ShutdownReturn ==
  /\ Running
  /\ spc = "report"
  /\ shutErr' = ~AllHandlersDone
  /\ spc' = "done"
  /\ UNCHANGED <<netVars, connVars, workVars, hndVars, regVars, expired,
                 stopPc>>

\* Reactor.Stop: cancel first, close the listener second.
StopCancel ==
  /\ Running
  /\ "Stop" \in Calls
  /\ stopPc = "idle"
  /\ stopPc' = "close"
  /\ stopping' = TRUE
  /\ rootDone' = TRUE
  /\ ctxDone' = Workers
  /\ UNCHANGED <<listening, acc, accConn, connVars, workVars, hndVars, regVars,
                 spc, expired, shutErr>>

StopClose ==
  /\ Running
  /\ stopPc = "close"
  /\ stopPc' = "done"
  /\ listening' = FALSE
  /\ UNCHANGED <<stopping, ctxDone, rootDone, acc, accConn, connVars, workVars,
                 hndVars, regVars, spc, expired, shutErr>>

\* Worker.Stop on one worker, reached through Reactor.Next.
WorkerStop(w) ==
  /\ Running
  /\ "WorkerStop" \in Calls
  /\ w \notin ctxDone
  /\ ctxDone' = ctxDone \cup {w}
  /\ UNCHANGED <<listening, stopping, rootDone, acc, accConn, connVars,
                 workVars, hndVars, regVars, shutVars>>

-----------------------------------------------------------------------------
AcceptLoop ==
  \/ RunStart \/ RunCheck \/ AcceptFails \/ BackoffOver \/ DispatchReturned
  \/ \E c \in Conns : Accept(c)

Dispatcher(c) ==
  \/ Register(c) \/ DispatchFails(c) \/ AddConnSend(c) \/ AddConnStopped(c)
  \/ AddConnRecheck(c) \/ Unregister(c)
  \/ \E w \in Workers : Dispatch(c, w)

WorkerLoop(w) ==
  \/ WorkerTake(w) \/ WorkerCtxDone(w) \/ WorkerAdd(w) \/ WorkerReject(w)
  \/ WorkerStarted(w) \/ WorkerSpawn(w) \/ ClosePending(w) \/ WorkerExit(w)

Handler(c) ==
  \/ HandlerInit(c) \/ HandlerInitFails(c) \/ HandlerCtxDone(c)
  \/ HandlerRead(c) \/ ReadFrame(c) \/ ReadCloses(c)
  \/ ReadPanics(c) \/ HandlerAfterRead(c) \/ HandlerClose(c)
  \/ HandlerRemove(c) \/ HandlerUncount(c) \/ HandlerFinish(c)

Shutdown ==
  \/ ShutdownBegin \/ DeadlinePasses \/ ShutdownDrained \/ ShutdownSweep
  \/ ShutdownCancel \/ ShutdownAwaited \/ ShutdownReturn

Stop ==
  \/ StopCancel \/ StopClose
  \/ \E w \in Workers : WorkerStop(w)

Next ==
  \/ AcceptLoop
  \/ \E c \in Conns : Dispatcher(c)
  \/ \E w \in Workers : WorkerLoop(w)
  \/ \E c \in Conns : Handler(c)
  \/ Shutdown
  \/ Stop

Spec == Init /\ [][Next]_vars

(* Fairness: the Go scheduler runs every goroutine that can move, so each   *)
(* thread is weakly fair in its own steps.  Nothing is assumed of the       *)
(* environment: no connection has to arrive, no peer has to send or hang    *)
(* up, nobody has to call Run, Stop or ShutdownWithTimeout.                 *)
AcceptProgress ==
  \/ RunCheck \/ BackoffOver \/ DispatchReturned \/ (~listening /\ AcceptFails)

DispatchProgress(c) ==
  \/ DispatchFails(c) \/ AddConnSend(c) \/ AddConnStopped(c)
  \/ AddConnRecheck(c) \/ \E w \in Workers : Dispatch(c, w)

\* A parked read moves only when its socket is closed.
HandlerProgress(c) ==
  \/ HandlerInit(c) \/ HandlerCtxDone(c) \/ HandlerRead(c)
  \/ HandlerAfterRead(c)
  \/ HandlerClose(c) \/ HandlerRemove(c) \/ HandlerUncount(c)
  \/ HandlerFinish(c)
  \/ (sock[c] = "closed" /\ ReadCloses(c))

ShutdownProgress ==
  \/ DeadlinePasses \/ ShutdownDrained \/ ShutdownSweep \/ ShutdownCancel
  \/ ShutdownAwaited \/ ShutdownReturn

-----------------------------------------------------------------------------
(* Properties *)

\* Every variable has its type, queues never exceed newCh's capacity and a
\* worker past its select holds a connection.
TypeOK ==
  /\ listening \in BOOLEAN /\ stopping \in BOOLEAN /\ rootDone \in BOOLEAN
  /\ ctxDone \subseteq Workers
  /\ acc \in AccPc
  /\ accConn \in Conns \cup {NoConn}
  /\ sock \in [Conns -> {"none", "open", "closed"}]
  /\ disp \in [Conns -> DispPc]
  /\ target \in [Conns -> Workers \cup {NoWorker}]
  /\ queue \in [Workers -> Seq(Conns)]
  /\ \A w \in Workers : Len(queue[w]) <= QueueCap
  /\ wpc \in [Workers -> WPc]
  /\ wcur \in [Workers -> Conns \cup {NoConn}]
  /\ \A w \in Workers :
       wpc[w] \in {"add", "started", "counted"} => wcur[w] \in Conns
  /\ lclosed \in [Conns -> BOOLEAN]
  /\ hpc \in [Conns -> HPc]
  /\ registry \subseteq Conns
  /\ regClosed \in BOOLEAN
  /\ active \in Int
  /\ count \in [Workers -> Int]
  /\ spc \in SPc
  /\ expired \in BOOLEAN
  /\ shutErr \in BOOLEAN
  /\ stopPc \in {"idle", "close", "done"}
  /\ crashed \in BOOLEAN

-----------------------------------------------------------------------------
\* The connections waiting in a worker's newCh.
Queued(w) == {queue[w][i] : i \in DOMAIN queue[w]}

\* No handler is parked on an open connection once CloseAll has swept: a
\* connection a worker was registering during the sweep is either closed by
\* it or refused, whichever order the two run in (the gate of registry.go).
NoOpenHandlerAfterSweep ==
  regClosed => \A c \in Conns : hpc[c] \in LiveHPc => lclosed[c]

\* Why it holds, as an inductive invariant: an open connection with a handler,
\* or about to get one, is in the registry, and a swept registry is empty.
SweepInv ==
  /\ regClosed => registry = {}
  /\ \A c \in Conns : hpc[c] \in LiveHPc => lclosed[c] \/ c \in registry
  /\ \A c \in Conns :
       hpc[c] \in {"remove", "uncount", "finish", "done"} => lclosed[c]
  /\ \A w \in Workers : wpc[w] \in {"started", "counted"} =>
       lclosed[wcur[w]] \/ wcur[w] \in registry

\* handlerStarted, handlerFinished and the worker counts agree with the
\* handlers that exist, whatever way a handler ends: active has one more per
\* worker between handlerStarted and go; a worker's count drops first.
CountersMatchHandlers ==
  /\ active = Cardinality({c \in Conns : hpc[c] \in LiveHPc})
                + Cardinality({w \in Workers : wpc[w] = "counted"})
  /\ \A w \in Workers :
       count[w] = Cardinality({c \in Conns : /\ target[c] = w
                                             /\ hpc[c] \in LiveHPc \ {"finish"}})

\* A connection sent to a worker whose loop ended through its context is not
\* stranded in newCh: it is closed, or AddConn is still to re-check it.
ExitedWorkerStrandsNothing ==
  \A w \in Workers : wpc[w] = "exited" =>
    \A c \in Queued(w) : sock[c] = "closed" \/ disp[c] = "sent"

\* Why it holds: a loop leaves through its context only when that is done, and
\* a queued connection was sent to this worker, so the re-check sees it.
QueueInv ==
  /\ \A w \in Workers : wpc[w] \in {"drain", "exited"} => w \in ctxDone
  /\ \A w \in Workers : \A c \in Queued(w) :
       target[c] = w /\ disp[c] \in {"sent", "returned"}
  /\ ExitedWorkerStrandsNothing

\* A connection that is neither open nor owned by someone who will close it
\* does not exist: an open socket is in a dispatcher's hands, in a queue, held
\* by a worker or by a handler (no error path of Dispatch, AddConn, Run or
\* handleConnection drops a connection without closing it).
OpenConnectionHasOwner ==
  \A c \in Conns : sock[c] = "open" =>
    \/ disp[c] \in {"arrived", "sending"}
    \/ \E w \in Workers : c \in Queued(w) \/ wcur[w] = c
    \/ hpc[c] \in LiveHPc

\* Why it holds: nobody but its dispatcher has a connection that was not sent
\* yet, a worker at its select holds none, and a handler that is past lc.Close
\* has a closed socket.
OwnerInv ==
  /\ OpenConnectionHasOwner
  /\ \A c \in Conns : disp[c] \in {"none", "arrived", "sending"} =>
       hpc[c] = "none" /\ \A w \in Workers : wcur[w] # c
  /\ \A c \in Conns : disp[c] = "sending" => target[c] \in Workers
  /\ acc = "off" => \A w \in Workers : wpc[w] = "off"
  /\ \A w \in Workers :
       wpc[w] \notin {"add", "started", "counted"} => wcur[w] = NoConn
  /\ \A c \in Conns :
       hpc[c] \in {"remove", "uncount", "finish", "done"} => sock[c] = "closed"

\* Why CountersMatchHandlers holds: a connection is in one place, so a worker
\* starts the only handler it ever has, and on the worker it was sent to.
PlaceInv ==
  /\ \A w \in Workers : \A c \in Queued(w) :
       hpc[c] = "none" /\ \A v \in Workers : wcur[v] # c
  /\ \A w \in Workers : \A i, j \in DOMAIN queue[w] :
       queue[w][i] = queue[w][j] => i = j
  /\ \A w \in Workers : wcur[w] # NoConn =>
       target[wcur[w]] = w /\ hpc[wcur[w]] = "none"
  /\ \A c \in Conns : hpc[c] # "none" => target[c] \in Workers

\* Once a shutdown has returned, every handler ends and none starts again, in
\* particular those that were parked in Read on a silent peer.
ShutdownEndsHandlers ==
  spc = "done" ~> [](crashed \/ \A c \in Conns : hpc[c] \in {"none", "done"})

\* A cancelled context ends the accept loop, also when it is blocked on a full
\* queue of a worker that no longer drains it, and every worker loop.
CancelEndsLoops ==
  rootDone ~> \/ crashed
              \/ /\ acc \in {"off", "done"}
                 /\ \A w \in Workers : wpc[w] \in {"off", "exited", "rejected"}

\* What AddConn's re-check relies on ("the loop ... only exits via ctx.Done,
\* so its closePending will reap this entry"): no open connection stays in the
\* queue of a loop that has ended.
EndedLoopStrandsNothing ==
  \A w \in Workers : wpc[w] \in {"exited", "rejected"} =>
    \A c \in Queued(w) : sock[c] = "closed" \/ disp[c] # "returned"

\* What ShutdownWithTimeout documents of its result: no handler outlives a
\* shutdown that returned nil.
NilMeansNoHandler ==
  spc = "done" /\ ~shutErr => \A c \in Conns : hpc[c] \notin LiveHPc

\* What stage 2 documents: the drain ends before its timeout only when no
\* tracked connection is open, so nothing is force-closed without the wait.
DrainPrecedesForceClose ==
  spc = "sweep" /\ ~expired => \A c \in registry : lclosed[c]
==============================================================================
