--------------------------- MODULE ReactorProofs ---------------------------
(***************************************************************************)
(* Theorems about Reactor, for any sets of connections and workers and any *)
(* queue capacity.                                                         *)
(***************************************************************************)
EXTENDS Reactor, FiniteSetTheorems, TLAPS

\* Every variable keeps its type and no newCh exceeds its capacity, whatever
\* the goroutines of the reactor do.
THEOREM TypeCorrect == Spec => []TypeOK
<1>1. Init => TypeOK
  <2> SUFFICES ASSUME Init PROVE TypeOK
    OBVIOUS
  <2>1. /\ queue \in [Workers -> Seq(Conns)]
        /\ \A w \in Workers : Len(queue[w]) <= QueueCap
    BY QueueCapAssumption DEF Init
  <2>2. /\ acc \in AccPc
        /\ disp \in [Conns -> DispPc]
        /\ wpc \in [Workers -> WPc]
        /\ hpc \in [Conns -> HPc]
        /\ spc \in SPc
    BY DEF Init, AccPc, DispPc, WPc, HPc, SPc
  <2>3. \A w \in Workers :
          wpc[w] \in {"add", "started", "counted"} => wcur[w] \in Conns
    BY DEF Init
  <2>4. /\ sock \in [Conns -> {"none", "open", "closed"}]
        /\ target \in [Conns -> Workers \cup {NoWorker}]
        /\ wcur \in [Workers -> Conns \cup {NoConn}]
        /\ lclosed \in [Conns -> BOOLEAN]
        /\ count \in [Workers -> Int]
        /\ active \in Int
    BY DEF Init
  <2>5. /\ ctxDone \subseteq Workers
        /\ accConn \in Conns \cup {NoConn}
        /\ registry \subseteq Conns
        /\ stopPc \in {"idle", "close", "done"}
    BY DEF Init
  <2>6. /\ listening \in BOOLEAN /\ stopping \in BOOLEAN
        /\ rootDone \in BOOLEAN /\ regClosed \in BOOLEAN
        /\ expired \in BOOLEAN /\ shutErr \in BOOLEAN
        /\ crashed \in BOOLEAN
    BY DEF Init
  <2> QED
    BY <2>1, <2>2, <2>3, <2>4, <2>5, <2>6 DEF TypeOK
<1>2. TypeOK /\ [Next]_vars => TypeOK'
  <2> SUFFICES ASSUME TypeOK, [Next]_vars PROVE TypeOK'
    OBVIOUS
  <2> USE QueueCapAssumption DEF TypeOK, Running, netVars, connVars, workVars,
          hndVars, regVars, shutVars
  <2>1. CASE RunStart
    BY <2>1 DEF RunStart, AccPc, WPc
  <2>2. CASE RunCheck
    BY <2>2 DEF RunCheck, AccPc
  <2>3. CASE AcceptFails
    BY <2>3 DEF AcceptFails, AccPc
  <2>4. CASE BackoffOver
    BY <2>4 DEF BackoffOver, AccPc
  <2>5. CASE DispatchReturned
    BY <2>5 DEF DispatchReturned, AccPc
  <2>6. ASSUME NEW c \in Conns, Accept(c) PROVE TypeOK'
    BY <2>6 DEF Accept, AccPc, DispPc
  <2>7. ASSUME NEW c \in Conns, Register(c) PROVE TypeOK'
    BY <2>7 DEF Register, DispPc
  <2>8. ASSUME NEW c \in Conns, DispatchFails(c) PROVE TypeOK'
    BY <2>8 DEF DispatchFails, DispPc
  <2>9. ASSUME NEW c \in Conns, AddConnSend(c) PROVE TypeOK'
    <3>2. CASE target[c] \in Workers
      <4>1. /\ queue[target[c]] \in Seq(Conns)
            /\ Len(Append(queue[target[c]], c)) = Len(queue[target[c]]) + 1
            /\ Append(queue[target[c]], c) \in Seq(Conns)
        BY <3>2
      <4>2. Len(Append(queue[target[c]], c)) <= QueueCap
        BY <2>9, <4>1 DEF AddConnSend, HasRoom
      <4> HIDE QueueCapAssumption
      <4> QED
        BY <2>9, <3>2, <4>1, <4>2 DEF AddConnSend, DispPc
    <3>3. CASE target[c] = NoWorker
      <4>1. queue' = queue
        BY <2>9, <3>3, NoWorkerAssumption DEF AddConnSend
      <4> QED
        BY <2>9, <4>1 DEF AddConnSend, DispPc
    <3> QED
      BY <3>2, <3>3
  <2>10. ASSUME NEW c \in Conns, AddConnStopped(c) PROVE TypeOK'
    BY <2>10 DEF AddConnStopped, DispPc
  <2>11. ASSUME NEW c \in Conns, AddConnRecheck(c) PROVE TypeOK'
    BY <2>11 DEF AddConnRecheck, Recheck, DispPc
  <2>12. ASSUME NEW c \in Conns, Unregister(c) PROVE TypeOK'
    BY <2>12 DEF Unregister
  <2>13. ASSUME NEW c \in Conns, NEW w \in Workers, Dispatch(c, w) PROVE TypeOK'
    BY <2>13 DEF Dispatch, DispPc
  <2>14. ASSUME NEW w \in Workers, WorkerTake(w) PROVE TypeOK'
    BY <2>14 DEF WorkerTake, WPc
  <2>15. ASSUME NEW w \in Workers, WorkerCtxDone(w) PROVE TypeOK'
    BY <2>15 DEF WorkerCtxDone, WPc
  <2>16. ASSUME NEW w \in Workers, WorkerAdd(w) PROVE TypeOK'
    BY <2>16 DEF WorkerAdd, RegistryAccepts, WPc
  <2>17. ASSUME NEW w \in Workers, WorkerReject(w) PROVE TypeOK'
    BY <2>17 DEF WorkerReject, RegistryAccepts, WPc
  <2>18. ASSUME NEW w \in Workers, WorkerStarted(w) PROVE TypeOK'
    BY <2>18 DEF WorkerStarted, WPc
  <2>19. ASSUME NEW w \in Workers, WorkerSpawn(w) PROVE TypeOK'
    BY <2>19 DEF WorkerSpawn, WPc, HPc
  <2>20. ASSUME NEW w \in Workers, ClosePending(w) PROVE TypeOK'
    BY <2>20 DEF ClosePending
  <2>21. ASSUME NEW w \in Workers, WorkerExit(w) PROVE TypeOK'
    BY <2>21 DEF WorkerExit, WPc
  <2>22. ASSUME NEW c \in Conns, HandlerInit(c) PROVE TypeOK'
    BY <2>22 DEF HandlerInit, HPc
  <2>23. ASSUME NEW c \in Conns, HandlerInitFails(c) PROVE TypeOK'
    <3>1. count' \in [Workers -> Int]
      <4>1. CASE target[c] \in Workers
        BY <2>23, <4>1 DEF HandlerInitFails
      <4>2. CASE target[c] = NoWorker
        BY <2>23, <4>2, NoWorkerAssumption DEF HandlerInitFails
      <4> QED
        BY <4>1, <4>2
    <3> QED
      BY <2>23, <3>1 DEF HandlerInitFails, CloseLc, HPc
  <2>24. ASSUME NEW c \in Conns, HandlerCtxDone(c) PROVE TypeOK'
    BY <2>24 DEF HandlerCtxDone, CloseLc, HPc
  <2>25. ASSUME NEW c \in Conns, HandlerRead(c) PROVE TypeOK'
    BY <2>25 DEF HandlerRead, HPc
  <2>26. ASSUME NEW c \in Conns, ReadFrame(c) PROVE TypeOK'
    BY <2>26 DEF ReadFrame, HPc
  <2>27. ASSUME NEW c \in Conns, ReadCloses(c) PROVE TypeOK'
    BY <2>27 DEF ReadCloses, CloseLc, HPc
  <2>28. ASSUME NEW c \in Conns, ReadPanics(c) PROVE TypeOK'
    BY <2>28 DEF ReadPanics, HPc
  <2>29. ASSUME NEW c \in Conns, HandlerAfterRead(c) PROVE TypeOK'
    BY <2>29 DEF HandlerAfterRead, HPc
  <2>30. ASSUME NEW c \in Conns, HandlerClose(c) PROVE TypeOK'
    BY <2>30 DEF HandlerClose, CloseLc, HPc
  <2>31. ASSUME NEW c \in Conns, HandlerRemove(c) PROVE TypeOK'
    BY <2>31 DEF HandlerRemove, HPc
  <2>32. ASSUME NEW c \in Conns, HandlerUncount(c) PROVE TypeOK'
    <3>1. count' \in [Workers -> Int]
      <4>1. CASE target[c] \in Workers
        BY <2>32, <4>1 DEF HandlerUncount
      <4>2. CASE target[c] = NoWorker
        BY <2>32, <4>2, NoWorkerAssumption DEF HandlerUncount
      <4> QED
        BY <4>1, <4>2
    <3> QED
      BY <2>32, <3>1 DEF HandlerUncount, HPc
  <2>33. ASSUME NEW c \in Conns, HandlerFinish(c) PROVE TypeOK'
    BY <2>33 DEF HandlerFinish, HPc
  <2>34. CASE ShutdownBegin
    BY <2>34 DEF ShutdownBegin, SPc
  <2>35. CASE DeadlinePasses
    BY <2>35 DEF DeadlinePasses
  <2>36. CASE ShutdownDrained
    BY <2>36 DEF ShutdownDrained, SPc
  <2>37. CASE ShutdownSweep
    BY <2>37 DEF ShutdownSweep, CloseAll, SPc
  <2>38. CASE ShutdownCancel
    BY <2>38 DEF ShutdownCancel, SPc
  <2>44. CASE ShutdownAwaited
    BY <2>44 DEF ShutdownAwaited, SPc
  <2>39. CASE ShutdownReturn
    BY <2>39 DEF ShutdownReturn, AllHandlersDone, SPc
  <2>40. CASE StopCancel
    BY <2>40 DEF StopCancel
  <2>41. CASE StopClose
    BY <2>41 DEF StopClose
  <2>42. ASSUME NEW w \in Workers, WorkerStop(w) PROVE TypeOK'
    BY <2>42 DEF WorkerStop
  <2>43. CASE UNCHANGED vars
    BY <2>43 DEF vars
  <2> QED
    BY <2>1, <2>2, <2>3, <2>4, <2>5, <2>6, <2>7, <2>8, <2>9, <2>10, 
       <2>11, <2>12, <2>13, <2>14, <2>15, <2>16, <2>17, <2>18, <2>19, 
       <2>20, <2>21, <2>22, <2>23, <2>24, <2>25, <2>26, <2>27, <2>28, 
       <2>29, <2>30, <2>31, <2>32, <2>33, <2>34, <2>35, <2>36, <2>37, 
       <2>38, <2>39, <2>40, <2>41, <2>42, 
       <2>43, <2>44 DEF Next, AcceptLoop, Dispatcher,
       WorkerLoop, Handler, Shutdown, Stop
<1> QED
  BY <1>1, <1>2, PTL DEF Spec

\* Once CloseAll has swept, no handler is left with an open connection: the
\* gate of registry.Add closes the race between a sweep and a registration.
THEOREM SweepLeavesNoOpenHandler == Spec => []NoOpenHandlerAfterSweep
<1>1. Init => SweepInv
  BY DEF Init, SweepInv, LiveHPc, HPc
<1>2. TypeOK /\ SweepInv /\ [Next]_vars => SweepInv'
  <2> SUFFICES ASSUME TypeOK, SweepInv, [Next]_vars PROVE SweepInv'
    OBVIOUS
  <2> USE DEF TypeOK, SweepInv, LiveHPc, HPc, Running, netVars, connVars,
          workVars, hndVars, regVars, shutVars
  <2>1. CASE RunStart
    BY <2>1 DEF RunStart
  <2>2. CASE RunCheck
    BY <2>2 DEF RunCheck
  <2>3. CASE AcceptFails
    BY <2>3 DEF AcceptFails
  <2>4. CASE BackoffOver
    BY <2>4 DEF BackoffOver
  <2>5. CASE DispatchReturned
    BY <2>5 DEF DispatchReturned
  <2>6. ASSUME NEW c \in Conns, Accept(c) PROVE SweepInv'
    BY <2>6 DEF Accept
  <2>7. ASSUME NEW c \in Conns, Register(c) PROVE SweepInv'
    BY <2>7 DEF Register
  <2>8. ASSUME NEW c \in Conns, DispatchFails(c) PROVE SweepInv'
    BY <2>8 DEF DispatchFails
  <2>9. ASSUME NEW c \in Conns, AddConnSend(c) PROVE SweepInv'
    BY <2>9 DEF AddConnSend, HasRoom
  <2>10. ASSUME NEW c \in Conns, AddConnStopped(c) PROVE SweepInv'
    BY <2>10 DEF AddConnStopped
  <2>11. ASSUME NEW c \in Conns, AddConnRecheck(c) PROVE SweepInv'
    BY <2>11 DEF AddConnRecheck, Recheck
  <2>12. ASSUME NEW c \in Conns, Unregister(c) PROVE SweepInv'
    BY <2>12 DEF Unregister
  <2>13. ASSUME NEW c \in Conns, NEW w \in Workers, Dispatch(c, w) PROVE SweepInv'
    BY <2>13 DEF Dispatch
  <2>14. ASSUME NEW w \in Workers, WorkerTake(w) PROVE SweepInv'
    BY <2>14 DEF WorkerTake
  <2>15. ASSUME NEW w \in Workers, WorkerCtxDone(w) PROVE SweepInv'
    BY <2>15 DEF WorkerCtxDone
  <2>16. ASSUME NEW w \in Workers, WorkerAdd(w) PROVE SweepInv'
    BY <2>16 DEF WorkerAdd, RegistryAccepts
  <2>17. ASSUME NEW w \in Workers, WorkerReject(w) PROVE SweepInv'
    BY <2>17 DEF WorkerReject, RegistryAccepts
  <2>18. ASSUME NEW w \in Workers, WorkerStarted(w) PROVE SweepInv'
    BY <2>18 DEF WorkerStarted
  <2>19. ASSUME NEW w \in Workers, WorkerSpawn(w) PROVE SweepInv'
    BY <2>19 DEF WorkerSpawn
  <2>20. ASSUME NEW w \in Workers, ClosePending(w) PROVE SweepInv'
    BY <2>20 DEF ClosePending
  <2>21. ASSUME NEW w \in Workers, WorkerExit(w) PROVE SweepInv'
    BY <2>21 DEF WorkerExit
  <2>22. ASSUME NEW c \in Conns, HandlerInit(c) PROVE SweepInv'
    BY <2>22 DEF HandlerInit
  <2>23. ASSUME NEW c \in Conns, HandlerInitFails(c) PROVE SweepInv'
    BY <2>23 DEF HandlerInitFails, CloseLc
  <2>24. ASSUME NEW c \in Conns, HandlerCtxDone(c) PROVE SweepInv'
    BY <2>24 DEF HandlerCtxDone, CloseLc
  <2>25. ASSUME NEW c \in Conns, HandlerRead(c) PROVE SweepInv'
    BY <2>25 DEF HandlerRead
  <2>26. ASSUME NEW c \in Conns, ReadFrame(c) PROVE SweepInv'
    BY <2>26 DEF ReadFrame
  <2>27. ASSUME NEW c \in Conns, ReadCloses(c) PROVE SweepInv'
    BY <2>27 DEF ReadCloses, CloseLc
  <2>28. ASSUME NEW c \in Conns, ReadPanics(c) PROVE SweepInv'
    BY <2>28 DEF ReadPanics
  <2>29. ASSUME NEW c \in Conns, HandlerAfterRead(c) PROVE SweepInv'
    BY <2>29 DEF HandlerAfterRead
  <2>30. ASSUME NEW c \in Conns, HandlerClose(c) PROVE SweepInv'
    BY <2>30 DEF HandlerClose, CloseLc
  <2>31. ASSUME NEW c \in Conns, HandlerRemove(c) PROVE SweepInv'
    BY <2>31 DEF HandlerRemove
  <2>32. ASSUME NEW c \in Conns, HandlerUncount(c) PROVE SweepInv'
    BY <2>32 DEF HandlerUncount
  <2>33. ASSUME NEW c \in Conns, HandlerFinish(c) PROVE SweepInv'
    BY <2>33 DEF HandlerFinish
  <2>34. CASE ShutdownBegin
    BY <2>34 DEF ShutdownBegin
  <2>35. CASE DeadlinePasses
    BY <2>35 DEF DeadlinePasses
  <2>36. CASE ShutdownDrained
    BY <2>36 DEF ShutdownDrained
  <2>37. CASE ShutdownSweep
    BY <2>37 DEF ShutdownSweep, CloseAll
  <2>38. CASE ShutdownCancel
    BY <2>38 DEF ShutdownCancel
  <2>44. CASE ShutdownAwaited
    BY <2>44 DEF ShutdownAwaited
  <2>39. CASE ShutdownReturn
    BY <2>39 DEF ShutdownReturn, AllHandlersDone
  <2>40. CASE StopCancel
    BY <2>40 DEF StopCancel
  <2>41. CASE StopClose
    BY <2>41 DEF StopClose
  <2>42. ASSUME NEW w \in Workers, WorkerStop(w) PROVE SweepInv'
    BY <2>42 DEF WorkerStop
  <2>43. CASE UNCHANGED vars
    BY <2>43 DEF vars
  <2> QED
    BY <2>1, <2>2, <2>3, <2>4, <2>5, <2>6, <2>7, <2>8, <2>9, <2>10, 
       <2>11, <2>12, <2>13, <2>14, <2>15, <2>16, <2>17, <2>18, <2>19, 
       <2>20, <2>21, <2>22, <2>23, <2>24, <2>25, <2>26, <2>27, <2>28, 
       <2>29, <2>30, <2>31, <2>32, <2>33, <2>34, <2>35, <2>36, <2>37, 
       <2>38, <2>39, <2>40, <2>41, <2>42, 
       <2>43, <2>44 DEF Next, AcceptLoop, Dispatcher,
       WorkerLoop, Handler, Shutdown, Stop
<1>3. SweepInv => NoOpenHandlerAfterSweep
  BY DEF SweepInv, NoOpenHandlerAfterSweep
<1> QED
  BY <1>1, <1>2, <1>3, TypeCorrect, PTL DEF Spec

-----------------------------------------------------------------------------
\* What a send on newCh adds to the queue, and that a receive adds nothing.
LEMMA AppendAddsOne ==
  ASSUME NEW S, NEW s \in Seq(S), NEW e \in S
  PROVE  {Append(s, e)[i] : i \in DOMAIN Append(s, e)}
           \subseteq {s[i] : i \in DOMAIN s} \cup {e}
<1> SUFFICES ASSUME NEW i \in DOMAIN Append(s, e)
             PROVE  Append(s, e)[i] = e \/ \E j \in DOMAIN s : Append(s, e)[i] = s[j]
  OBVIOUS
<1>1. i \in 1 .. Len(s) + 1 /\ DOMAIN s = 1 .. Len(s) /\ Len(s) \in Nat
  OBVIOUS
<1>2. CASE i = Len(s) + 1
  BY <1>2
<1>3. CASE i \in 1 .. Len(s)
  BY <1>1, <1>3
<1> QED
  BY <1>1, <1>2, <1>3

\* Receiving from a queue adds nothing to it.
LEMMA TailAddsNone ==
  ASSUME NEW S, NEW s \in Seq(S), s # <<>>
  PROVE  {Tail(s)[i] : i \in DOMAIN Tail(s)} \subseteq {s[i] : i \in DOMAIN s}
<1> SUFFICES ASSUME NEW i \in DOMAIN Tail(s)
             PROVE  \E j \in DOMAIN s : Tail(s)[i] = s[j]
  OBVIOUS
<1>1. i \in 1 .. Len(s) - 1 /\ DOMAIN s = 1 .. Len(s) /\ Len(s) \in Nat
  OBVIOUS
<1>2. i + 1 \in DOMAIN s /\ Tail(s)[i] = s[i + 1]
  BY <1>1
<1> QED
  BY <1>2

\* The connections queued at any worker after a step that sends or receives.
LEMMA QueuedAfterSend ==
  ASSUME TypeOK, NEW c \in Conns, AddConnSend(c), NEW w \in Workers
  PROVE  Queued(w)' \subseteq Queued(w) \cup (IF w = target[c] THEN {c} ELSE {})
<1>1. queue[w] \in Seq(Conns)
  BY DEF TypeOK
<1>2. CASE w = target[c]
  <2>1. queue'[w] = Append(queue[w], c)
    BY <1>2 DEF AddConnSend, TypeOK
  <2> QED
    BY <1>1, <1>2, <2>1, AppendAddsOne DEF Queued
<1>3. CASE w # target[c]
  <2>1. queue'[w] = queue[w]
    BY <1>3 DEF AddConnSend, TypeOK
  <2> QED
    BY <2>1 DEF Queued
<1> QED
  BY <1>2, <1>3

\* A worker that takes a connection, or closes a pending one, adds none to a queue.
LEMMA QueuedAfterReceive ==
  ASSUME TypeOK, NEW v \in Workers, WorkerTake(v) \/ ClosePending(v),
         NEW w \in Workers
  PROVE  Queued(w)' \subseteq Queued(w)
<1>1. queue[w] \in Seq(Conns)
  BY DEF TypeOK
<1>2. CASE w = v
  <2>1. queue'[w] = Tail(queue[w]) /\ queue[w] # <<>>
    BY <1>2 DEF WorkerTake, ClosePending, TypeOK
  <2> QED
    BY <1>1, <2>1, TailAddsNone DEF Queued
<1>3. CASE w # v
  <2>1. queue'[w] = queue[w]
    BY <1>3 DEF WorkerTake, ClosePending, TypeOK
  <2> QED
    BY <2>1 DEF Queued
<1> QED
  BY <1>2, <1>3

\* A worker's queue holds connections only.
LEMMA QueuedAreConns ==
  ASSUME TypeOK, NEW w \in Workers PROVE Queued(w) \subseteq Conns
<1>1. queue[w] \in Seq(Conns)
  BY DEF TypeOK
<1> QED
  BY <1>1 DEF Queued

\* A queued connection was sent to this worker, and a loop drains or ends with
\* its context done.
LEMMA QueueCorrect == Spec => []QueueInv
<1>1. Init => QueueInv
  BY DEF Init, QueueInv, ExitedWorkerStrandsNothing, Queued
<1>2. TypeOK /\ QueueInv /\ [Next]_vars => QueueInv'
  <2> SUFFICES ASSUME TypeOK, QueueInv, [Next]_vars PROVE QueueInv'
    OBVIOUS
  <2>0. /\ \A w \in Workers : Queued(w) \subseteq Conns
        /\ queue' = queue => \A w \in Workers : Queued(w)' = Queued(w)
    BY QueuedAreConns DEF Queued
  <2> USE <2>0 DEF TypeOK, QueueInv, ExitedWorkerStrandsNothing, Running,
          netVars, connVars, workVars, hndVars, regVars, shutVars
  <2>1. CASE RunStart
    BY <2>1 DEF RunStart
  <2>2. CASE RunCheck
    BY <2>2 DEF RunCheck
  <2>3. CASE AcceptFails
    BY <2>3 DEF AcceptFails
  <2>4. CASE BackoffOver
    BY <2>4 DEF BackoffOver
  <2>5. CASE DispatchReturned
    BY <2>5 DEF DispatchReturned
  <2>6. ASSUME NEW c \in Conns, Accept(c) PROVE QueueInv'
    BY <2>6 DEF Accept
  <2>7. ASSUME NEW c \in Conns, Register(c) PROVE QueueInv'
    BY <2>7 DEF Register
  <2>8. ASSUME NEW c \in Conns, DispatchFails(c) PROVE QueueInv'
    BY <2>8 DEF DispatchFails
  <2>9. ASSUME NEW c \in Conns, AddConnSend(c) PROVE QueueInv'
    <3>1. \A w \in Workers :
            Queued(w)' \subseteq Queued(w) \cup (IF w = target[c] THEN {c} ELSE {})
      BY <2>9, QueuedAfterSend
    <3> QED
      BY <2>9, <3>1 DEF AddConnSend
  <2>10. ASSUME NEW c \in Conns, AddConnStopped(c) PROVE QueueInv'
    BY <2>10 DEF AddConnStopped
  <2>11. ASSUME NEW c \in Conns, AddConnRecheck(c) PROVE QueueInv'
    BY <2>11 DEF AddConnRecheck, Recheck
  <2>12. ASSUME NEW c \in Conns, Unregister(c) PROVE QueueInv'
    BY <2>12 DEF Unregister
  <2>13. ASSUME NEW c \in Conns, NEW w \in Workers, Dispatch(c, w) PROVE QueueInv'
    BY <2>13 DEF Dispatch
  <2>14. ASSUME NEW w \in Workers, WorkerTake(w) PROVE QueueInv'
    <3>1. \A v \in Workers : Queued(v)' \subseteq Queued(v)
      BY <2>14, QueuedAfterReceive
    <3> QED
      BY <2>14, <3>1 DEF WorkerTake
  <2>15. ASSUME NEW w \in Workers, WorkerCtxDone(w) PROVE QueueInv'
    BY <2>15 DEF WorkerCtxDone
  <2>16. ASSUME NEW w \in Workers, WorkerAdd(w) PROVE QueueInv'
    BY <2>16 DEF WorkerAdd, RegistryAccepts
  <2>17. ASSUME NEW w \in Workers, WorkerReject(w) PROVE QueueInv'
    BY <2>17 DEF WorkerReject, RegistryAccepts
  <2>18. ASSUME NEW w \in Workers, WorkerStarted(w) PROVE QueueInv'
    BY <2>18 DEF WorkerStarted
  <2>19. ASSUME NEW w \in Workers, WorkerSpawn(w) PROVE QueueInv'
    BY <2>19 DEF WorkerSpawn
  <2>20. ASSUME NEW w \in Workers, ClosePending(w) PROVE QueueInv'
    <3>1. \A v \in Workers : Queued(v)' \subseteq Queued(v)
      BY <2>20, QueuedAfterReceive
    <3> QED
      BY <2>20, <3>1 DEF ClosePending
  <2>21. ASSUME NEW w \in Workers, WorkerExit(w) PROVE QueueInv'
    <3>1. Queued(w) = {}
      BY <2>21 DEF WorkerExit, Queued
    <3>2. CASE wpc[w] = "drain"
      BY <2>21, <3>1, <3>2 DEF WorkerExit
    <3>3. CASE wpc[w] = "reject"
      BY <2>21, <3>1, <3>3 DEF WorkerExit
    <3> QED
      BY <2>21, <3>2, <3>3 DEF WorkerExit
  <2>22. ASSUME NEW c \in Conns, HandlerInit(c) PROVE QueueInv'
    BY <2>22 DEF HandlerInit
  <2>23. ASSUME NEW c \in Conns, HandlerInitFails(c) PROVE QueueInv'
    BY <2>23 DEF HandlerInitFails, CloseLc
  <2>24. ASSUME NEW c \in Conns, HandlerCtxDone(c) PROVE QueueInv'
    BY <2>24 DEF HandlerCtxDone, CloseLc
  <2>25. ASSUME NEW c \in Conns, HandlerRead(c) PROVE QueueInv'
    BY <2>25 DEF HandlerRead
  <2>26. ASSUME NEW c \in Conns, ReadFrame(c) PROVE QueueInv'
    BY <2>26 DEF ReadFrame
  <2>27. ASSUME NEW c \in Conns, ReadCloses(c) PROVE QueueInv'
    BY <2>27 DEF ReadCloses, CloseLc
  <2>28. ASSUME NEW c \in Conns, ReadPanics(c) PROVE QueueInv'
    BY <2>28 DEF ReadPanics
  <2>29. ASSUME NEW c \in Conns, HandlerAfterRead(c) PROVE QueueInv'
    BY <2>29 DEF HandlerAfterRead
  <2>30. ASSUME NEW c \in Conns, HandlerClose(c) PROVE QueueInv'
    BY <2>30 DEF HandlerClose, CloseLc
  <2>31. ASSUME NEW c \in Conns, HandlerRemove(c) PROVE QueueInv'
    BY <2>31 DEF HandlerRemove
  <2>32. ASSUME NEW c \in Conns, HandlerUncount(c) PROVE QueueInv'
    BY <2>32 DEF HandlerUncount
  <2>33. ASSUME NEW c \in Conns, HandlerFinish(c) PROVE QueueInv'
    BY <2>33 DEF HandlerFinish
  <2>34. CASE ShutdownBegin
    BY <2>34 DEF ShutdownBegin
  <2>35. CASE DeadlinePasses
    BY <2>35 DEF DeadlinePasses
  <2>36. CASE ShutdownDrained
    BY <2>36 DEF ShutdownDrained
  <2>37. CASE ShutdownSweep
    BY <2>37 DEF ShutdownSweep, CloseAll
  <2>38. CASE ShutdownCancel
    BY <2>38 DEF ShutdownCancel
  <2>44. CASE ShutdownAwaited
    BY <2>44 DEF ShutdownAwaited
  <2>39. CASE ShutdownReturn
    BY <2>39 DEF ShutdownReturn, AllHandlersDone
  <2>40. CASE StopCancel
    BY <2>40 DEF StopCancel
  <2>41. CASE StopClose
    BY <2>41 DEF StopClose
  <2>42. ASSUME NEW w \in Workers, WorkerStop(w) PROVE QueueInv'
    BY <2>42 DEF WorkerStop
  <2>43. CASE UNCHANGED vars
    BY <2>43 DEF vars
  <2> QED
    BY <2>1, <2>2, <2>3, <2>4, <2>5, <2>6, <2>7, <2>8, <2>9, <2>10, 
       <2>11, <2>12, <2>13, <2>14, <2>15, <2>16, <2>17, <2>18, <2>19, 
       <2>20, <2>21, <2>22, <2>23, <2>24, <2>25, <2>26, <2>27, <2>28, 
       <2>29, <2>30, <2>31, <2>32, <2>33, <2>34, <2>35, <2>36, <2>37, 
       <2>38, <2>39, <2>40, <2>41, <2>42, 
       <2>43, <2>44 DEF Next, AcceptLoop, Dispatcher,
       WorkerLoop, Handler, Shutdown, Stop
<1> QED
  BY <1>1, <1>2, TypeCorrect, PTL DEF Spec

\* A worker whose loop ended through its context strands no connection: the
\* re-check of AddConn catches a send that raced the loop's exit.
THEOREM ExitStrandsNothing == Spec => []ExitedWorkerStrandsNothing
<1>1. QueueInv => ExitedWorkerStrandsNothing
  BY DEF QueueInv
<1> QED
  BY <1>1, QueueCorrect, PTL

-----------------------------------------------------------------------------
\* What a send and a receive leave in the queues.
LEMMA SendQueues ==
  ASSUME TypeOK, NEW c \in Conns, AddConnSend(c), NEW w \in Workers
  PROVE  /\ w = target[c] => c \in Queued(w)'
         /\ Queued(w) \subseteq Queued(w)'
<1>1. CASE w = target[c]
  <2> DEFINE s == queue[w]
  <2>1. s \in Seq(Conns) /\ queue'[w] = Append(s, c)
    BY <1>1 DEF AddConnSend, TypeOK
  <2>2. /\ DOMAIN Append(s, c) = 1 .. Len(s) + 1 /\ Len(s) + 1 \in 1 .. Len(s) + 1
        /\ DOMAIN s = 1 .. Len(s) /\ 1 .. Len(s) \subseteq 1 .. Len(s) + 1
        /\ Append(s, c)[Len(s) + 1] = c
        /\ \A i \in 1 .. Len(s) : Append(s, c)[i] = s[i]
    BY <2>1
  <2>3. c \in Queued(w)'
    BY <2>1, <2>2 DEF Queued
  <2>4. Queued(w) \subseteq Queued(w)'
    BY <2>1, <2>2 DEF Queued
  <2> QED
    BY <2>3, <2>4
<1>2. CASE w # target[c]
  BY <1>2 DEF AddConnSend, TypeOK, Queued
<1> QED
  BY <1>1, <1>2

\* The connection a worker takes is the only one to leave its queue.
LEMMA ReceiveQueues ==
  ASSUME TypeOK, NEW w \in Workers, WorkerTake(w) \/ ClosePending(w)
  PROVE  /\ Head(queue[w]) \in Queued(w) /\ Head(queue[w]) \in Conns
         /\ \A v \in Workers : Queued(v) \subseteq Queued(v)' \cup {Head(queue[w])}
<1> DEFINE s == queue[w]
<1>1. s \in Seq(Conns) /\ s # <<>> /\ queue'[w] = Tail(s)
  BY DEF WorkerTake, ClosePending, TypeOK
<1>2. /\ Len(s) \in Nat /\ Len(s) >= 1 /\ DOMAIN s = 1 .. Len(s) /\ Head(s) = s[1]
      /\ DOMAIN Tail(s) = 1 .. Len(s) - 1
      /\ \A i \in 1 .. Len(s) - 1 : Tail(s)[i] = s[i + 1]
  BY <1>1
<1>3. Head(s) \in Queued(w) /\ Head(s) \in Conns
  BY <1>1, <1>2 DEF Queued
<1>4. Queued(w) \subseteq Queued(w)' \cup {Head(s)}
  <2> SUFFICES ASSUME NEW i \in 1 .. Len(s), i # 1 PROVE s[i] \in Queued(w)'
    BY <1>2 DEF Queued
  <2>1. i - 1 \in 1 .. Len(s) - 1 /\ (i - 1) + 1 = i
    BY <1>2
  <2> QED
    BY <1>1, <1>2, <2>1 DEF Queued
<1>5. ASSUME NEW v \in Workers, v # w PROVE Queued(v)' = Queued(v)
  BY <1>5 DEF WorkerTake, ClosePending, TypeOK, Queued
<1> QED
  BY <1>3, <1>4, <1>5

\* OwnerInv is inductive, beside the two before it.
LEMMA OwnerCorrect == Spec => []OwnerInv
<1>1. Init => OwnerInv
  BY NoConnAssumption DEF Init, OwnerInv, OpenConnectionHasOwner
<1>2. TypeOK /\ QueueInv /\ OwnerInv /\ [Next]_vars => OwnerInv'
  <2> SUFFICES ASSUME TypeOK, QueueInv, OwnerInv, [Next]_vars PROVE OwnerInv'
    OBVIOUS
  <2>0. queue' = queue => \A w \in Workers : Queued(w)' = Queued(w)
    BY DEF Queued
  <2> USE <2>0 DEF TypeOK, OwnerInv, OpenConnectionHasOwner, Running, LiveHPc, HPc,
          netVars, connVars, workVars, hndVars, regVars, shutVars
  <2>1. CASE RunStart
    <3>1. (\A w \in Workers : wcur[w] = NoConn) /\ acc' = "check" /\ wcur' = wcur
      BY <2>1 DEF RunStart
    <3>2. UNCHANGED <<sock, disp, target, queue, hpc>>
      BY <2>1 DEF RunStart
    <3> QED
      BY <3>1, <3>2
  <2>2. CASE RunCheck
    BY <2>2 DEF RunCheck
  <2>3. CASE AcceptFails
    BY <2>3 DEF AcceptFails
  <2>4. CASE BackoffOver
    BY <2>4 DEF BackoffOver
  <2>5. CASE DispatchReturned
    BY <2>5 DEF DispatchReturned
  <2>6. ASSUME NEW c \in Conns, Accept(c) PROVE OwnerInv'
    BY <2>6 DEF Accept
  <2>7. ASSUME NEW c \in Conns, Register(c) PROVE OwnerInv'
    BY <2>7 DEF Register
  <2>8. ASSUME NEW c \in Conns, DispatchFails(c) PROVE OwnerInv'
    BY <2>8 DEF DispatchFails
  <2>9. ASSUME NEW c \in Conns, AddConnSend(c) PROVE OwnerInv'
    <3>1. \E w \in Workers : c \in Queued(w)'
      BY <2>9, SendQueues DEF AddConnSend
    <3>2. \A w \in Workers : Queued(w) \subseteq Queued(w)'
      BY <2>9, SendQueues DEF AddConnSend
    <3> QED
      BY <2>9, <3>1, <3>2 DEF AddConnSend
  <2>10. ASSUME NEW c \in Conns, AddConnStopped(c) PROVE OwnerInv'
    BY <2>10 DEF AddConnStopped, WorkerStopped
  <2>11. ASSUME NEW c \in Conns, AddConnRecheck(c) PROVE OwnerInv'
    BY <2>11 DEF AddConnRecheck, Recheck
  <2>12. ASSUME NEW c \in Conns, Unregister(c) PROVE OwnerInv'
    BY <2>12 DEF Unregister
  <2>13. ASSUME NEW c \in Conns, NEW w \in Workers, Dispatch(c, w) PROVE OwnerInv'
    BY <2>13 DEF Dispatch
  <2>14. ASSUME NEW w \in Workers, WorkerTake(w) PROVE OwnerInv'
    <3>1. Head(queue[w]) \in Queued(w)
      BY <2>14, ReceiveQueues
    <3>2. \A v \in Workers : Queued(v) \subseteq Queued(v)' \cup {Head(queue[w])}
      BY <2>14, ReceiveQueues
    <3>3. disp[Head(queue[w])] \in {"sent", "returned"} /\ wcur'[w] = Head(queue[w])
      BY <2>14, <3>1 DEF WorkerTake, QueueInv
    <3>4. \A v \in Workers : v # w => wcur'[v] = wcur[v]
      BY <2>14 DEF WorkerTake
    <3>5. wcur[w] = NoConn
      BY <2>14 DEF WorkerTake
    <3> QED
      BY <2>14, <3>1, <3>2, <3>3, <3>4, <3>5, NoConnAssumption DEF WorkerTake
  <2>15. ASSUME NEW w \in Workers, WorkerCtxDone(w) PROVE OwnerInv'
    BY <2>15 DEF WorkerCtxDone
  <2>16. ASSUME NEW w \in Workers, WorkerAdd(w) PROVE OwnerInv'
    BY <2>16 DEF WorkerAdd
  <2>17. ASSUME NEW w \in Workers, WorkerReject(w) PROVE OwnerInv'
    <3>1. wcur[w] \in Conns /\ wcur[w] # NoConn /\ wcur'[w] = NoConn
      BY <2>17, NoConnAssumption DEF WorkerReject
    <3>2. \A v \in Workers : v # w => wcur'[v] = wcur[v]
      BY <2>17 DEF WorkerReject
    <3>3. sock'[wcur[w]] = "closed" /\ \A c \in Conns : c # wcur[w] => sock'[c] = sock[c]
      BY <2>17, <3>1 DEF WorkerReject
    <3> QED
      BY <2>17, <3>1, <3>2, <3>3, NoConnAssumption DEF WorkerReject
  <2>18. ASSUME NEW w \in Workers, WorkerStarted(w) PROVE OwnerInv'
    BY <2>18 DEF WorkerStarted
  <2>19. ASSUME NEW w \in Workers, WorkerSpawn(w) PROVE OwnerInv'
    <3>1. wcur[w] \in Conns /\ wcur[w] # NoConn /\ wcur'[w] = NoConn
      BY <2>19, NoConnAssumption DEF WorkerSpawn
    <3>2. \A v \in Workers : v # w => wcur'[v] = wcur[v]
      BY <2>19 DEF WorkerSpawn
    <3>3. hpc'[wcur[w]] = "init" /\ \A c \in Conns : c # wcur[w] => hpc'[c] = hpc[c]
      BY <2>19, <3>1 DEF WorkerSpawn
    <3> QED
      BY <2>19, <3>1, <3>2, <3>3, NoConnAssumption DEF WorkerSpawn
  <2>20. ASSUME NEW w \in Workers, ClosePending(w) PROVE OwnerInv'
    <3>1. \A v \in Workers : Queued(v) \subseteq Queued(v)' \cup {Head(queue[w])}
      BY <2>20, ReceiveQueues
    <3>2. Head(queue[w]) \in Queued(w)
      BY <2>20, ReceiveQueues
    <3> QED
      BY <2>20, <3>1, <3>2 DEF ClosePending
  <2>21. ASSUME NEW w \in Workers, WorkerExit(w) PROVE OwnerInv'
    BY <2>21 DEF WorkerExit
  <2>22. ASSUME NEW c \in Conns, HandlerInit(c) PROVE OwnerInv'
    BY <2>22 DEF HandlerInit
  <2>23. ASSUME NEW c \in Conns, HandlerInitFails(c) PROVE OwnerInv'
    BY <2>23 DEF HandlerInitFails, CloseLc
  <2>24. ASSUME NEW c \in Conns, HandlerCtxDone(c) PROVE OwnerInv'
    BY <2>24 DEF HandlerCtxDone, CloseLc
  <2>25. ASSUME NEW c \in Conns, HandlerRead(c) PROVE OwnerInv'
    BY <2>25 DEF HandlerRead
  <2>26. ASSUME NEW c \in Conns, ReadFrame(c) PROVE OwnerInv'
    BY <2>26 DEF ReadFrame
  <2>27. ASSUME NEW c \in Conns, ReadCloses(c) PROVE OwnerInv'
    BY <2>27 DEF ReadCloses, CloseLc
  <2>28. ASSUME NEW c \in Conns, ReadPanics(c) PROVE OwnerInv'
    BY <2>28 DEF ReadPanics
  <2>29. ASSUME NEW c \in Conns, HandlerAfterRead(c) PROVE OwnerInv'
    BY <2>29 DEF HandlerAfterRead
  <2>30. ASSUME NEW c \in Conns, HandlerClose(c) PROVE OwnerInv'
    BY <2>30 DEF HandlerClose, CloseLc
  <2>31. ASSUME NEW c \in Conns, HandlerRemove(c) PROVE OwnerInv'
    BY <2>31 DEF HandlerRemove
  <2>32. ASSUME NEW c \in Conns, HandlerUncount(c) PROVE OwnerInv'
    BY <2>32 DEF HandlerUncount
  <2>33. ASSUME NEW c \in Conns, HandlerFinish(c) PROVE OwnerInv'
    BY <2>33 DEF HandlerFinish
  <2>34. CASE ShutdownBegin
    BY <2>34 DEF ShutdownBegin
  <2>35. CASE DeadlinePasses
    BY <2>35 DEF DeadlinePasses
  <2>36. CASE ShutdownDrained
    BY <2>36 DEF ShutdownDrained
  <2>37. CASE ShutdownSweep
    BY <2>37 DEF ShutdownSweep, CloseAll
  <2>38. CASE ShutdownCancel
    BY <2>38 DEF ShutdownCancel
  <2>39. CASE ShutdownAwaited
    BY <2>39 DEF ShutdownAwaited
  <2>40. CASE ShutdownReturn
    BY <2>40 DEF ShutdownReturn
  <2>41. CASE StopCancel
    BY <2>41 DEF StopCancel
  <2>42. CASE StopClose
    BY <2>42 DEF StopClose
  <2>43. ASSUME NEW w \in Workers, WorkerStop(w) PROVE OwnerInv'
    BY <2>43 DEF WorkerStop
  <2>44. CASE UNCHANGED vars
    BY <2>44 DEF vars
  <2> QED
    BY <2>1, <2>2, <2>3, <2>4, <2>5, <2>6, <2>7, <2>8, <2>9, <2>10, <2>11,
       <2>12, <2>13, <2>14, <2>15, <2>16, <2>17, <2>18, <2>19, <2>20, <2>21,
       <2>22, <2>23, <2>24, <2>25, <2>26, <2>27, <2>28, <2>29, <2>30, <2>31,
       <2>32, <2>33, <2>34, <2>35, <2>36, <2>37, <2>38, <2>39, <2>40, <2>41,
       <2>42, <2>43, <2>44
       DEF Next, AcceptLoop, Dispatcher, WorkerLoop, Handler, Shutdown, Stop
<1> QED
  BY <1>1, <1>2, TypeCorrect, QueueCorrect, PTL DEF Spec

\* An open connection is always in the hands of a dispatcher, a queue, a worker
\* or a handler: no path of Dispatch, AddConn, Run or handleConnection leaks it.
THEOREM NoConnectionLeaks == Spec => []OpenConnectionHasOwner
<1>1. OwnerInv => OpenConnectionHasOwner
  BY DEF OwnerInv
<1> QED
  BY <1>1, OwnerCorrect, PTL

-----------------------------------------------------------------------------
\* A step that moves no connection and touches no counter.
Quiet ==
  /\ UNCHANGED <<queue, wcur, target, hpc, active, count>>
  /\ \A w \in Workers : wpc'[w] = "counted" <=> wpc[w] = "counted"

\* The steps that are not quiet.
LEMMA StepKinds ==
  ASSUME TypeOK, OwnerInv, [Next]_vars
  PROVE  \/ Quiet
         \/ \E c \in Conns : Handler(c)
         \/ \E c \in Conns : AddConnSend(c) \/ \E w \in Workers : Dispatch(c, w)
         \/ \E w \in Workers : \/ WorkerTake(w) \/ WorkerReject(w) \/ WorkerStarted(w)
                               \/ WorkerSpawn(w) \/ ClosePending(w)
<1> USE DEF Running, netVars, connVars, workVars, hndVars, regVars, shutVars
<1>1. CASE AcceptLoop
  <2>1. CASE RunStart
    <3>1. \A w \in Workers : wpc[w] = "off" /\ wpc'[w] = "select"
      BY <2>1 DEF RunStart, OwnerInv
    <3>2. QED
      BY <2>1, <3>1 DEF RunStart, Quiet
  <2>2. CASE \E c \in Conns : Accept(c)
    BY <2>2 DEF Accept, Quiet
  <2>3. QED
    BY <1>1, <2>1, <2>2
       DEF AcceptLoop, RunCheck, AcceptFails, BackoffOver, DispatchReturned, Quiet
<1>2. ASSUME NEW c \in Conns, Dispatcher(c)
      PROVE  Quiet \/ AddConnSend(c) \/ \E w \in Workers : Dispatch(c, w)
  BY <1>2 DEF Dispatcher, Register, DispatchFails, AddConnStopped, AddConnRecheck,
              Unregister, Quiet
<1>3. ASSUME NEW w \in Workers, WorkerLoop(w)
      PROVE  \/ Quiet \/ WorkerTake(w) \/ WorkerReject(w) \/ WorkerStarted(w)
             \/ WorkerSpawn(w) \/ ClosePending(w)
  <2>1. CASE WorkerCtxDone(w) \/ WorkerAdd(w) \/ WorkerExit(w)
    <3>1. /\ UNCHANGED <<queue, wcur, target, hpc, active, count>>
          /\ wpc[w] # "counted"
          /\ \E l \in {"drain", "started", "exited", "rejected"} :
               wpc' = [wpc EXCEPT ![w] = l]
      BY <2>1 DEF WorkerCtxDone, WorkerAdd, WorkerExit
    <3>2. QED
      BY <3>1 DEF Quiet, TypeOK
  <2>2. QED
    BY <1>3, <2>1 DEF WorkerLoop
<1>4. CASE Shutdown
  BY <1>4 DEF Shutdown, ShutdownBegin, DeadlinePasses, ShutdownDrained, ShutdownSweep,
              ShutdownCancel, ShutdownAwaited, ShutdownReturn, Quiet
<1>5. CASE Stop
  BY <1>5 DEF Stop, StopCancel, StopClose, WorkerStop, Quiet
<1>6. CASE UNCHANGED vars
  BY <1>6 DEF vars, Quiet
<1>7. QED
  BY <1>1, <1>2, <1>3, <1>4, <1>5, <1>6 DEF Next

\* What a handler's step does to its program counter and the counters.
LEMMA HandlerKinds ==
  ASSUME TypeOK, NEW c \in Conns, Handler(c)
  PROVE  /\ UNCHANGED <<queue, wcur, target, wpc>>
         /\ hpc[c] \in LiveHPc
         /\ \E l \in HPc \ {"none"} :
              /\ hpc' = [hpc EXCEPT ![c] = l]
              /\ \/ /\ l \in LiveHPc \ {"finish"} /\ hpc[c] # "finish"
                    /\ UNCHANGED <<active, count>>
                 \/ /\ hpc[c] = "uncount" /\ l = "finish"
                    /\ count' = [count EXCEPT ![target[c]] = @ - 1] /\ active' = active
                 \/ /\ hpc[c] = "finish" /\ l = "done"
                    /\ active' = active - 1 /\ count' = count
                 \/ /\ hpc[c] = "init" /\ l = "done"
                    /\ active' = active - 1
                    /\ count' = [count EXCEPT ![target[c]] = @ - 1]
<1> USE DEF Running, netVars, connVars, workVars, hndVars, regVars, shutVars, LiveHPc, HPc
<1>1. CASE HandlerInit(c) \/ HandlerCtxDone(c) \/ HandlerRead(c)
  BY <1>1 DEF HandlerInit, HandlerCtxDone, HandlerRead
<1>2. CASE ReadFrame(c) \/ ReadCloses(c) \/ ReadPanics(c)
  BY <1>2 DEF ReadFrame, ReadCloses, ReadPanics
<1>3. CASE HandlerAfterRead(c)
  <2>1. CASE lclosed[c]
    <3>1. hpc[c] = "after" /\ hpc' = [hpc EXCEPT ![c] = "close"]
      BY <1>3, <2>1 DEF HandlerAfterRead
    <3>2. QED
      BY <1>3, <3>1 DEF HandlerAfterRead
  <2>2. CASE ~lclosed[c]
    <3>1. hpc[c] = "after" /\ hpc' = [hpc EXCEPT ![c] = "loop"]
      BY <1>3, <2>2 DEF HandlerAfterRead
    <3>2. QED
      BY <1>3, <3>1 DEF HandlerAfterRead
  <2>3. QED
    BY <2>1, <2>2
<1>4. CASE HandlerClose(c) \/ HandlerRemove(c)
  BY <1>4 DEF HandlerClose, HandlerRemove
<1>5. CASE HandlerUncount(c)
  BY <1>5 DEF HandlerUncount
<1>6. CASE HandlerFinish(c)
  BY <1>6 DEF HandlerFinish
<1>7. CASE HandlerInitFails(c)
  BY <1>7 DEF HandlerInitFails
<1>8. QED
  BY <1>1, <1>2, <1>3, <1>4, <1>5, <1>6, <1>7 DEF Handler

\* A queue without repetitions stays one, and its head leaves it.
LEMMA AppendDistinct ==
  ASSUME NEW S, NEW s \in Seq(S), NEW e \in S, NEW t, t = Append(s, e),
         \A i, j \in DOMAIN s : s[i] = s[j] => i = j,
         \A i \in DOMAIN s : s[i] # e
  PROVE  \A i, j \in DOMAIN t : t[i] = t[j] => i = j
<1>1. /\ Len(s) \in Nat /\ DOMAIN s = 1 .. Len(s) /\ DOMAIN t = 1 .. Len(s) + 1
      /\ t[Len(s) + 1] = e /\ \A i \in 1 .. Len(s) : t[i] = s[i]
  OBVIOUS
<1>2. \A i \in DOMAIN t : i = Len(s) + 1 \/ i \in DOMAIN s
  BY <1>1
<1>3. QED
  BY <1>1, <1>2

\* A queue without repetitions has none after a receive, and the one received is gone.
LEMMA TailDistinct ==
  ASSUME NEW S, NEW s \in Seq(S), s # <<>>, NEW t, t = Tail(s),
         \A i, j \in DOMAIN s : s[i] = s[j] => i = j
  PROVE  /\ \A i, j \in DOMAIN t : t[i] = t[j] => i = j
         /\ \A i \in DOMAIN t : t[i] # Head(s)
<1>1. /\ Len(s) \in Nat /\ Len(s) >= 1 /\ DOMAIN s = 1 .. Len(s)
      /\ DOMAIN t = 1 .. Len(s) - 1 /\ Head(s) = s[1]
      /\ \A i \in 1 .. Len(s) - 1 : t[i] = s[i + 1]
  OBVIOUS
<1>2. \A i \in DOMAIN t : i + 1 \in DOMAIN s /\ i + 1 # 1 /\ t[i] = s[i + 1]
  BY <1>1
<1>3. 1 \in DOMAIN s
  BY <1>1
<1>4. ASSUME NEW i \in DOMAIN t, NEW j \in DOMAIN t, t[i] = t[j] PROVE i = j
  <2>1. i + 1 = j + 1
    BY <1>2, <1>4
  <2>2. QED
    BY <1>1, <2>1
<1>5. QED
  BY <1>1, <1>2, <1>3, <1>4

\* PlaceInv is inductive, beside the three before it.
LEMMA PlaceCorrect == Spec => []PlaceInv
<1>1. Init => PlaceInv
  <2> SUFFICES ASSUME Init PROVE PlaceInv
    OBVIOUS
  <2>1. \A w \in Workers : queue[w] = <<>> /\ wcur[w] = NoConn
    BY DEF Init
  <2>2. \A w \in Workers : Queued(w) = {} /\ DOMAIN queue[w] = {}
    BY <2>1 DEF Queued
  <2>3. \A c \in Conns : hpc[c] = "none"
    BY DEF Init
  <2>4. QED
    BY <2>1, <2>2, <2>3 DEF PlaceInv
<1>2. TypeOK /\ QueueInv /\ OwnerInv /\ PlaceInv /\ [Next]_vars => PlaceInv'
  <2> SUFFICES ASSUME TypeOK, QueueInv, OwnerInv, PlaceInv, [Next]_vars PROVE PlaceInv'
    OBVIOUS
  <2>0. queue' = queue => \A w \in Workers : Queued(w)' = Queued(w)
    BY DEF Queued
  <2>q. \A w \in Workers : Queued(w) \subseteq Conns
    BY QueuedAreConns
  <2>c. \A w \in Workers : wcur[w] # NoConn => wcur[w] \in Conns
    BY DEF TypeOK
  <2> USE DEF Running, netVars, connVars, workVars, hndVars, regVars, shutVars
  <2>1. CASE Quiet
    BY <2>1, <2>0 DEF Quiet, PlaceInv
  <2>2. ASSUME NEW c \in Conns, Handler(c) PROVE PlaceInv'
    <3>1. UNCHANGED <<queue, wcur, target>> /\ hpc[c] # "none"
      BY <2>2, HandlerKinds DEF LiveHPc
    <3>2. \A d \in Conns : d # c => hpc'[d] = hpc[d]
      BY <2>2, HandlerKinds DEF TypeOK
    <3>3. target[c] \in Workers
      BY <3>1 DEF PlaceInv
    <3>4. \A w \in Workers : c \notin Queued(w) /\ wcur[w] # c
      BY <3>1, NoConnAssumption DEF PlaceInv
    <3>5. QED
      BY <3>1, <3>2, <3>3, <3>4, <2>0, <2>q, <2>c DEF PlaceInv
  <2>3. ASSUME NEW c \in Conns, AddConnSend(c) PROVE PlaceInv'
    <3> DEFINE w == target[c]
    <3>1. w \in Workers /\ disp[c] = "sending"
      BY <2>3 DEF AddConnSend, OwnerInv
    <3>2. /\ UNCHANGED <<wcur, target, hpc>>
          /\ queue'[w] = Append(queue[w], c)
          /\ \A v \in Workers : v # w => queue'[v] = queue[v]
      BY <2>3, <3>1 DEF AddConnSend, TypeOK
    <3>3. hpc[c] = "none" /\ (\A v \in Workers : wcur[v] # c)
      BY <3>1 DEF OwnerInv
    <3>4. \A v \in Workers : Queued(v)' \subseteq Queued(v) \cup {c}
      BY <2>3, QueuedAfterSend
    <3>5. c \notin Queued(w)
      BY <3>1 DEF QueueInv
    <3>6. \A i, j \in DOMAIN queue'[w] : queue'[w][i] = queue'[w][j] => i = j
      <4>1. queue[w] \in Seq(Conns) /\ \A i \in DOMAIN queue[w] : queue[w][i] # c
        BY <3>1, <3>5 DEF TypeOK, Queued
      <4>2. \A i, j \in DOMAIN queue[w] : queue[w][i] = queue[w][j] => i = j
        BY <3>1 DEF PlaceInv
      <4>3. QED
        BY <3>2, <4>1, <4>2, AppendDistinct
    <3>7. \A v \in Workers : \A i, j \in DOMAIN queue'[v] :
            queue'[v][i] = queue'[v][j] => i = j
      BY <3>2, <3>6 DEF PlaceInv
    <3>8. QED
      BY <3>2, <3>3, <3>4, <3>7 DEF PlaceInv
  <2>4. ASSUME NEW c \in Conns, NEW w \in Workers, Dispatch(c, w) PROVE PlaceInv'
    <3>1. disp[c] = "arrived" /\ UNCHANGED <<queue, wcur, hpc>>
      BY <2>4 DEF Dispatch
    <3>2. \A d \in Conns : target'[d] = IF d = c THEN w ELSE target[d]
      BY <2>4 DEF Dispatch, TypeOK
    <3>3. hpc[c] = "none" /\ \A v \in Workers : wcur[v] # c
      BY <3>1 DEF OwnerInv
    <3>4. QED
      BY <3>1, <3>2, <3>3, <2>0, <2>c DEF PlaceInv
  <2>5. ASSUME NEW w \in Workers, WorkerTake(w) \/ ClosePending(w)
        PROVE  /\ \A v \in Workers : Queued(v)' \subseteq Queued(v)
               /\ \A v \in Workers : Head(queue[w]) \notin Queued(v)'
               /\ \A v \in Workers : \A i, j \in DOMAIN queue'[v] :
                    queue'[v][i] = queue'[v][j] => i = j
    <3> DEFINE h == Head(queue[w])
    <3>1. h \in Queued(w) /\ h \in Conns
      BY <2>5, ReceiveQueues
    <3>2. /\ queue[w] \in Seq(Conns) /\ queue[w] # <<>> /\ queue'[w] = Tail(queue[w])
          /\ \A v \in Workers : v # w => queue'[v] = queue[v]
      BY <2>5 DEF WorkerTake, ClosePending, TypeOK
    <3>3. \A v \in Workers : Queued(v)' \subseteq Queued(v)
      BY <2>5, QueuedAfterReceive
    <3>4. \A i, j \in DOMAIN queue[w] : queue[w][i] = queue[w][j] => i = j
      BY DEF PlaceInv
    <3>5. /\ \A i, j \in DOMAIN queue'[w] : queue'[w][i] = queue'[w][j] => i = j
          /\ \A i \in DOMAIN queue'[w] : queue'[w][i] # h
      BY <3>2, <3>4, TailDistinct
    <3>6. h \notin Queued(w)'
      BY <3>5 DEF Queued
    <3>7. ASSUME NEW v \in Workers, v # w PROVE h \notin Queued(v)'
      BY <3>1, <3>3, <3>7 DEF QueueInv
    <3>8. \A v \in Workers : \A i, j \in DOMAIN queue'[v] :
            queue'[v][i] = queue'[v][j] => i = j
      BY <3>2, <3>5 DEF PlaceInv
    <3>9. QED
      BY <3>3, <3>6, <3>7, <3>8
  <2>6. ASSUME NEW w \in Workers, WorkerTake(w) PROVE PlaceInv'
    <3> DEFINE h == Head(queue[w])
    <3>1. h \in Queued(w) /\ h \in Conns
      BY <2>6, ReceiveQueues
    <3>2. UNCHANGED <<target, hpc>> /\ wcur' = [wcur EXCEPT ![w] = h]
      BY <2>6 DEF WorkerTake
    <3>3. \A v \in Workers : wcur'[v] = IF v = w THEN h ELSE wcur[v]
      BY <3>2 DEF TypeOK
    <3>4. hpc[h] = "none" /\ target[h] = w
      BY <3>1 DEF PlaceInv, QueueInv
    <3>5. QED
      BY <2>5, <2>6, <3>2, <3>3, <3>4 DEF PlaceInv
  <2>7. ASSUME NEW w \in Workers, ClosePending(w) PROVE PlaceInv'
    <3>1. UNCHANGED <<wcur, target, hpc>>
      BY <2>7 DEF ClosePending
    <3>2. QED
      BY <2>5, <2>7, <3>1 DEF PlaceInv
  <2>8. ASSUME NEW w \in Workers, WorkerReject(w) PROVE PlaceInv'
    <3>1. UNCHANGED <<queue, target, hpc>>
      BY <2>8 DEF WorkerReject
    <3>2. \A v \in Workers : wcur'[v] = IF v = w THEN NoConn ELSE wcur[v]
      BY <2>8 DEF WorkerReject, TypeOK
    <3>3. QED
      BY <3>1, <3>2, <2>0, <2>q, NoConnAssumption DEF PlaceInv
  <2>9. ASSUME NEW w \in Workers, WorkerStarted(w) PROVE PlaceInv'
    <3>1. UNCHANGED <<queue, wcur, target, hpc>>
      BY <2>9 DEF WorkerStarted
    <3>2. QED
      BY <3>1, <2>0 DEF PlaceInv
  <2>10. ASSUME NEW w \in Workers, WorkerSpawn(w) PROVE PlaceInv'
    <3> DEFINE c == wcur[w]
    <3>1. UNCHANGED <<queue, target>> /\ c \in Conns /\ c # NoConn
      BY <2>10, NoConnAssumption DEF WorkerSpawn, TypeOK
    <3>2. \A v \in Workers : wcur'[v] = IF v = w THEN NoConn ELSE wcur[v]
      BY <2>10 DEF WorkerSpawn, TypeOK
    <3>3. \A d \in Conns : d # c => hpc'[d] = hpc[d]
      BY <2>10 DEF WorkerSpawn, TypeOK
    <3>4. target[c] = w /\ \A v \in Workers : v # w => wcur[v] # c
      BY <3>1 DEF PlaceInv
    <3>5. \A v \in Workers : c \notin Queued(v)
      BY DEF PlaceInv
    <3>6. QED
      BY <3>1, <3>2, <3>3, <3>4, <3>5, <2>0, <2>q, <2>c, NoConnAssumption DEF PlaceInv
  <2>11. QED
    BY StepKinds, <2>1, <2>2, <2>3, <2>4, <2>6, <2>7, <2>8, <2>9, <2>10
<1>3. QED
  BY <1>1, <1>2, TypeCorrect, QueueCorrect, OwnerCorrect, PTL DEF Spec

-----------------------------------------------------------------------------
\* The sets the counters count.
Alive == {c \in Conns : hpc[c] \in LiveHPc}

Announced == {w \in Workers : wpc[w] = "counted"}

Served(w) == {c \in Conns : target[c] = w /\ hpc[c] \in LiveHPc \ {"finish"}}

\* The sets the counters count are finite.
LEMMA CountedFinite ==
  /\ IsFiniteSet(Alive) /\ IsFiniteSet(Announced)
  /\ \A w \in Workers : IsFiniteSet(Served(w))
<1>1. Alive \subseteq Conns /\ Announced \subseteq Workers
  BY DEF Alive, Announced
<1>2. \A w \in Workers : Served(w) \subseteq Conns
  BY DEF Served
<1>3. QED
  BY <1>1, <1>2, FiniteAssumption, FS_Subset

\* One element more.
LEMMA OneMore ==
  ASSUME NEW S, NEW x, IsFiniteSet(S), x \notin S
  PROVE  Cardinality(S \cup {x}) = Cardinality(S) + 1 /\ Cardinality(S) \in Nat
BY FS_AddElement, FS_CardinalityType

\* One element less.
LEMMA OneLess ==
  ASSUME NEW S, NEW x, IsFiniteSet(S), x \in S
  PROVE  Cardinality(S \ {x}) = Cardinality(S) - 1 /\ Cardinality(S) \in Nat
BY FS_RemoveElement, FS_CardinalityType

\* The group's counter and every worker's count agree with the handlers, at
\* every point between the statements that change them.
THEOREM CountersCorrect == Spec => []CountersMatchHandlers
<1> DEFINE Inv == /\ active = Cardinality(Alive) + Cardinality(Announced)
                  /\ \A w \in Workers : count[w] = Cardinality(Served(w))
<1>1. Inv <=> CountersMatchHandlers
  BY DEF CountersMatchHandlers, Alive, Announced, Served
<1>2. Init => Inv
  <2> SUFFICES ASSUME Init PROVE Inv
    OBVIOUS
  <2>1. Alive = {} /\ Announced = {} /\ \A w \in Workers : Served(w) = {}
    BY DEF Init, Alive, Announced, Served, LiveHPc
  <2>2. QED
    BY <2>1, FS_EmptySet DEF Init
<1>3. TypeOK /\ OwnerInv /\ PlaceInv /\ Inv /\ [Next]_vars => Inv'
  <2> SUFFICES ASSUME TypeOK, OwnerInv, PlaceInv, Inv, [Next]_vars PROVE Inv'
    OBVIOUS
  <2>t. /\ hpc \in [Conns -> HPc] /\ wpc \in [Workers -> WPc]
        /\ count \in [Workers -> Int] /\ active \in Int
    BY DEF TypeOK
  <2>n. /\ Cardinality(Alive) \in Nat /\ Cardinality(Announced) \in Nat
        /\ \A w \in Workers : Cardinality(Served(w)) \in Nat
    BY CountedFinite, FS_CardinalityType
  <2> USE DEF Running, netVars, connVars, workVars, hndVars, regVars, shutVars
  <2>1. CASE UNCHANGED <<target, hpc, active, count>> /\ Announced' = Announced
    <3>1. Alive' = Alive /\ \A w \in Workers : Served(w)' = Served(w)
      BY <2>1 DEF Alive, Served
    <3>2. QED
      BY <2>1, <3>1
  <2>2. CASE Quiet
    <3>1. Announced' = Announced /\ UNCHANGED <<target, hpc, active, count>>
      BY <2>2 DEF Quiet, Announced
    <3>2. QED
      BY <2>1, <3>1
  <2>3. ASSUME NEW c \in Conns, Handler(c) PROVE Inv'
    <3>1. Announced' = Announced /\ UNCHANGED target /\ hpc[c] \in LiveHPc
      BY <2>3, HandlerKinds DEF Announced
    <3> DEFINE t == target[c]
    <3>2. t \in Workers
      BY <3>1 DEF PlaceInv, LiveHPc
    <3>3. PICK l \in HPc \ {"none"} :
              /\ hpc' = [hpc EXCEPT ![c] = l]
              /\ \/ /\ l \in LiveHPc \ {"finish"} /\ hpc[c] # "finish"
                    /\ UNCHANGED <<active, count>>
                 \/ /\ hpc[c] = "uncount" /\ l = "finish"
                    /\ count' = [count EXCEPT ![t] = @ - 1] /\ active' = active
                 \/ /\ hpc[c] = "finish" /\ l = "done"
                    /\ active' = active - 1 /\ count' = count
                 \/ /\ hpc[c] = "init" /\ l = "done"
                    /\ active' = active - 1
                    /\ count' = [count EXCEPT ![t] = @ - 1]
      BY <2>3, HandlerKinds
    <3>4. /\ hpc'[c] = l /\ \A d \in Conns : d # c => hpc'[d] = hpc[d]
      BY <3>3, <2>t
    <3>5. /\ l \in LiveHPc => Alive' = Alive
          /\ l = "done" => Alive' = Alive \ {c}
      BY <3>1, <3>4 DEF Alive, LiveHPc
    <3>6. c \in Alive
      BY <3>1 DEF Alive
    <3>7. \A w \in Workers : w # t => Served(w)' = Served(w)
      BY <3>1, <3>4 DEF Served
    <3>8. /\ l \in {"finish", "done"} => Served(t)' = Served(t) \ {c}
          /\ l \in LiveHPc \ {"finish"} /\ hpc[c] # "finish" => Served(t)' = Served(t)
      BY <3>1, <3>4 DEF Served, LiveHPc
    <3>9. /\ hpc[c] # "finish" => c \in Served(t)
          /\ hpc[c] = "finish" => c \notin Served(t)
      BY <3>1 DEF Served
    <3>10. CASE /\ l \in LiveHPc \ {"finish"} /\ hpc[c] # "finish"
                /\ UNCHANGED <<active, count>>
      BY <3>10, <3>1, <3>5, <3>7, <3>8
    <3>11. CASE /\ hpc[c] = "uncount" /\ l = "finish" /\ active' = active
                /\ count' = [count EXCEPT ![t] = @ - 1]
      <4>1. Alive' = Alive
        BY <3>11, <3>5 DEF LiveHPc, HPc
      <4>2. Cardinality(Served(t)') = Cardinality(Served(t)) - 1
        BY <3>2, <3>8, <3>9, <3>11, CountedFinite, OneLess
      <4>3. \A w \in Workers : count'[w] = IF w = t THEN count[w] - 1 ELSE count[w]
        BY <3>11, <2>t
      <4>4. QED
        BY <3>1, <3>2, <3>7, <3>11, <4>1, <4>2, <4>3
    <3>12. CASE hpc[c] = "finish" /\ l = "done" /\ active' = active - 1 /\ count' = count
      <4>1. Cardinality(Alive') = Cardinality(Alive) - 1
        BY <3>5, <3>6, <3>12, CountedFinite, OneLess
      <4>2. Served(t)' = Served(t)
        BY <3>8, <3>9, <3>12
      <4>3. QED
        BY <3>1, <3>2, <3>7, <3>12, <4>1, <4>2, <2>n
    <3>13. CASE /\ hpc[c] = "init" /\ l = "done" /\ active' = active - 1
                /\ count' = [count EXCEPT ![t] = @ - 1]
      <4>1. Cardinality(Alive') = Cardinality(Alive) - 1
        BY <3>5, <3>6, <3>13, CountedFinite, OneLess
      <4>2. Cardinality(Served(t)') = Cardinality(Served(t)) - 1
        BY <3>2, <3>8, <3>9, <3>13, CountedFinite, OneLess
      <4>3. \A w \in Workers : count'[w] = IF w = t THEN count[w] - 1 ELSE count[w]
        BY <3>13, <2>t
      <4>4. QED
        BY <3>1, <3>2, <3>7, <3>13, <4>1, <4>2, <4>3, <2>n
    <3>14. QED
      BY <3>3, <3>10, <3>11, <3>12, <3>13
  <2>4. ASSUME NEW c \in Conns, AddConnSend(c) PROVE Inv'
    <3>1. Announced' = Announced /\ UNCHANGED <<target, hpc, active, count>>
      BY <2>4 DEF AddConnSend, Announced
    <3>2. QED
      BY <2>1, <3>1
  <2>5. ASSUME NEW c \in Conns, NEW w \in Workers, Dispatch(c, w) PROVE Inv'
    <3>1. UNCHANGED <<hpc, wpc, active, count>> /\ disp[c] = "arrived"
      BY <2>5 DEF Dispatch
    <3>2. hpc[c] = "none" /\ \A d \in Conns : d # c => target'[d] = target[d]
      BY <2>5, <3>1 DEF Dispatch, OwnerInv, TypeOK
    <3>3. Alive' = Alive /\ Announced' = Announced
      BY <3>1 DEF Alive, Announced
    <3>4. \A v \in Workers : Served(v)' = Served(v)
      BY <3>1, <3>2 DEF Served, LiveHPc
    <3>5. QED
      BY <3>1, <3>3, <3>4
  <2>6. ASSUME NEW w \in Workers, WorkerTake(w) \/ WorkerReject(w) PROVE Inv'
    <3>1. UNCHANGED <<target, hpc, active, count>> /\ wpc[w] # "counted"
      BY <2>6 DEF WorkerTake, WorkerReject
    <3>2. wpc'[w] # "counted" /\ \A v \in Workers : v # w => wpc'[v] = wpc[v]
      BY <2>6, <2>t DEF WorkerTake, WorkerReject
    <3>3. Announced' = Announced
      BY <3>1, <3>2 DEF Announced
    <3>4. QED
      BY <2>1, <3>1, <3>3
  <2>7. ASSUME NEW w \in Workers, ClosePending(w) PROVE Inv'
    <3>1. Announced' = Announced /\ UNCHANGED <<target, hpc, active, count>>
      BY <2>7 DEF ClosePending, Announced
    <3>2. QED
      BY <2>1, <3>1
  <2>8. ASSUME NEW w \in Workers, WorkerStarted(w) PROVE Inv'
    <3>1. UNCHANGED <<target, hpc, count>> /\ active' = active + 1 /\ wpc[w] # "counted"
      BY <2>8 DEF WorkerStarted
    <3>2. wpc'[w] = "counted" /\ \A v \in Workers : v # w => wpc'[v] = wpc[v]
      BY <2>8, <2>t DEF WorkerStarted
    <3>3. Announced' = Announced \cup {w} /\ w \notin Announced
      BY <3>1, <3>2 DEF Announced
    <3>4. Cardinality(Announced') = Cardinality(Announced) + 1
      BY <3>3, CountedFinite, OneMore
    <3>5. Alive' = Alive /\ \A v \in Workers : Served(v)' = Served(v)
      BY <3>1 DEF Alive, Served
    <3>6. QED
      BY <3>1, <3>4, <3>5, <2>n
  <2>9. ASSUME NEW w \in Workers, WorkerSpawn(w) PROVE Inv'
    <3> DEFINE c == wcur[w]
    <3>1. /\ UNCHANGED <<target, active>> /\ wpc[w] = "counted" /\ c \in Conns
          /\ count' = [count EXCEPT ![w] = @ + 1]
          /\ hpc' = [hpc EXCEPT ![c] = "init"]
      BY <2>9 DEF WorkerSpawn, TypeOK
    <3>2. wpc'[w] # "counted" /\ \A v \in Workers : v # w => wpc'[v] = wpc[v]
      BY <2>9, <2>t DEF WorkerSpawn
    <3>3. hpc'[c] = "init" /\ \A d \in Conns : d # c => hpc'[d] = hpc[d]
      BY <3>1, <2>t
    <3>4. target[c] = w /\ hpc[c] = "none"
      BY <3>1, NoConnAssumption DEF PlaceInv
    <3>5. Announced' = Announced \ {w} /\ w \in Announced
      BY <3>1, <3>2 DEF Announced
    <3>6. Alive' = Alive \cup {c} /\ c \notin Alive
      BY <3>1, <3>3, <3>4 DEF Alive, LiveHPc, HPc
    <3>7. Served(w)' = Served(w) \cup {c} /\ c \notin Served(w)
      BY <3>1, <3>3, <3>4 DEF Served, LiveHPc, HPc
    <3>8. \A v \in Workers : v # w => Served(v)' = Served(v)
      BY <3>1, <3>3, <3>4 DEF Served
    <3>9. /\ Cardinality(Announced') = Cardinality(Announced) - 1
          /\ Cardinality(Alive') = Cardinality(Alive) + 1
      BY <3>5, <3>6, CountedFinite, OneMore, OneLess
    <3>10. Cardinality(Served(w)') = Cardinality(Served(w)) + 1
      BY <3>7, CountedFinite, OneMore
    <3>11. \A v \in Workers : count'[v] = IF v = w THEN count[v] + 1 ELSE count[v]
      BY <3>1, <2>t
    <3>12. active' = Cardinality(Alive') + Cardinality(Announced')
      BY <3>1, <3>9, <2>n
    <3>13. QED
      BY <3>8, <3>10, <3>11, <3>12
  <2>10. QED
    BY StepKinds, <2>2, <2>3, <2>4, <2>5, <2>6, <2>7, <2>8, <2>9
<1>4. QED
  BY <1>1, <1>2, <1>3, TypeCorrect, OwnerCorrect, PlaceCorrect, PTL DEF Spec
=============================================================================
