------------------------------ MODULE Executor ------------------------------
(***************************************************************************)
(* internal/executor: the pool of workers behind Execute and Submit        *)
(* (async_executor.go) and the futures Submit returns (async_future.go).   *)
(* The task channels are unbuffered, so a send is a hand-over to a worker  *)
(* that is in its select. An action may itself submit a future to the      *)
(* executor that runs it and wait for the result, holding its worker.      *)
(***************************************************************************)
EXTENDS Integers

CONSTANTS Tasks,    \* the calls of Execute
          Futures,  \* the calls of Submit
          Nested,   \* the future a job's action waits for, or NoJob: the first
                    \* such action to run submits it
          Workers, NoJob

Jobs == Tasks \cup Futures

ASSUME JobsAssumption == Tasks \cap Futures = {} /\ NoJob \notin Jobs

ASSUME NestedAssumption == Nested \in [Jobs -> Futures \cup {NoJob}]

VARIABLES
  stopped,     \* the executor's context is cancelled
  spc,         \* program counter of the call of Execute or Submit
  dropped,     \* jobs whose submitter found the executor stopped
  wpc, wcur,   \* program counter of a worker and the job it holds
  cpc,         \* program counter of a program's own call of Future.Do
  running,     \* AsyncFuture.running
  runs,        \* how often a job's action was started
  ctxDone,     \* futures whose context was cancelled
  cancelling,  \* calls of cancelWithErr that have still to resolve
  outcome      \* what the future resolved to; "none" while doneCh is open

submitVars == <<spc, dropped>>
workerVars == <<wpc, wcur>>
futureVars == <<running, runs, ctxDone, cancelling, outcome>>
vars == <<stopped, submitVars, workerVars, cpc, futureVars>>

Init ==
  /\ stopped = FALSE
  /\ spc = [j \in Jobs |-> "none"]
  /\ dropped = {}
  /\ wpc = [w \in Workers |-> "select"]
  /\ wcur = [w \in Workers |-> NoJob]
  /\ cpc = [f \in Futures |-> "none"]
  /\ running = {}
  /\ runs = [j \in Jobs |-> 0]
  /\ ctxDone = {}
  /\ cancelling = {}
  /\ outcome = [f \in Futures |-> "none"]

-----------------------------------------------------------------------------
(* Nested submissions                                                      *)

\* j's action has started and has not returned.
Running(j) ==
  \/ \E w \in Workers : wpc[w] = "run" /\ wcur[w] = j
  \/ j \in Futures /\ cpc[j] = "run"

\* Submit is called by the program, or by an action that waits for the result.
Submittable(j) ==
  LET parents == {p \in Jobs : Nested[p] = j}
  IN  parents = {} \/ \E p \in parents : Running(p)

\* Get inside the action returned: the future it waits for is resolved.
Awaited(j) == Nested[j] # NoJob => outcome[Nested[j]] # "none"

-----------------------------------------------------------------------------
(* Futures                                                                 *)

\* A future that takes the last outcome it is given.
LastOutcome(f, result) == [outcome EXCEPT ![f] = result]

\* Under rwMutex: the first outcome closes doneCh, later ones are discarded.
FirstOutcome(f, result) ==
  [outcome EXCEPT ![f] = IF @ = "none" THEN result ELSE @]

\* cancelWithErr, up to f.cancel()
BeginCancel(F, cause) ==
  /\ ctxDone' = ctxDone \cup F
  /\ cancelling' = cancelling \cup (F \X {cause})

\* cancelWithErr, the critical section
CancelResolves(f, cause) ==
  /\ <<f, cause>> \in cancelling
  /\ cancelling' = cancelling \ {<<f, cause>>}
  /\ outcome' = FirstOutcome(f, cause)
  /\ UNCHANGED <<stopped, submitVars, workerVars, cpc, running, runs, ctxDone>>

\* Do on a future that does not remember having been started.
NeverRunning(f) == FALSE

\* running.Swap(true) found the future started.
AlreadyRunning(f) == f \in running

\* The program cancels a future it holds, or its GetWithTimeout expires.
Cancel(f, cause) ==
  /\ spc[f] = "returned"
  /\ BeginCancel({f}, cause)
  /\ UNCHANGED <<stopped, submitVars, workerVars, cpc, running, runs, outcome>>

\* The program calls Do itself.
CallerDo(f) ==
  /\ spc[f] = "returned"
  /\ cpc[f] = "none"
  /\ IF AlreadyRunning(f)
     THEN cpc' = [cpc EXCEPT ![f] = "done"] /\ UNCHANGED <<running, runs>>
     ELSE /\ cpc' = [cpc EXCEPT ![f] = "run"]
          /\ running' = running \cup {f}
          /\ runs' = [runs EXCEPT ![f] = @ + 1]
  /\ UNCHANGED <<stopped, submitVars, workerVars, ctxDone, cancelling, outcome>>

CallerActionEnds(f) ==
  /\ cpc[f] = "run"
  /\ Awaited(f)
  /\ cpc' = [cpc EXCEPT ![f] = "done"]
  /\ outcome' = FirstOutcome(f, "result")
  /\ UNCHANGED <<stopped, submitVars, workerVars, running, runs, ctxDone, cancelling>>

-----------------------------------------------------------------------------
(* Execute and Submit                                                      *)

Offer(j) ==
  /\ spc[j] = "none"
  /\ Submittable(j)
  /\ spc' = [spc EXCEPT ![j] = "offer"]
  /\ UNCHANGED <<stopped, dropped, workerVars, cpc, futureVars>>

\* The send: a worker takes the job.
HandOver(j, w) ==
  /\ spc[j] = "offer"
  /\ wpc[w] = "select"
  /\ spc' = [spc EXCEPT ![j] = "sent"]
  /\ wpc' = [wpc EXCEPT ![w] = "do"]
  /\ wcur' = [wcur EXCEPT ![w] = j]
  /\ UNCHANGED <<stopped, dropped, cpc, futureVars>>

\* A submitter that gives up without a word to its future.
DropsSilently(j) == UNCHANGED <<ctxDone, cancelling>>

\* What becomes of a job that meets a stopped executor: a future is cancelled.
Drops(j) == BeginCancel({j} \cap Futures, "cancelled")

\* The other arm of the send, and the re-check after it.
OfferStopped(j) ==
  /\ spc[j] \in {"offer", "sent"}
  /\ stopped
  /\ dropped' = dropped \cup {j}
  /\ spc' = [spc EXCEPT ![j] = "cancel"]
  /\ Drops(j)
  /\ UNCHANGED <<stopped, workerVars, cpc, running, runs, outcome>>

\* The call returns: the re-check found the executor alive, or the future's
\* cancellation is over.
OfferReturns(j) ==
  /\ \/ spc[j] = "sent" /\ ~stopped
     \/ spc[j] = "cancel" /\ <<j, "cancelled">> \notin cancelling
  /\ spc' = [spc EXCEPT ![j] = "returned"]
  /\ UNCHANGED <<stopped, dropped, workerVars, cpc, futureVars>>

-----------------------------------------------------------------------------
(* The workers                                                             *)

\* t(e.ctx), or Future.Do
WorkerDo(w) ==
  LET j == wcur[w] IN
  /\ wpc[w] = "do"
  /\ IF j \in Futures /\ AlreadyRunning(j)
     THEN /\ wpc' = [wpc EXCEPT ![w] = "select"]
          /\ wcur' = [wcur EXCEPT ![w] = NoJob]
          /\ UNCHANGED <<running, runs>>
     ELSE /\ wpc' = [wpc EXCEPT ![w] = "run"]
          /\ running' = running \cup ({j} \cap Futures)
          /\ runs' = [runs EXCEPT ![j] = @ + 1]
          /\ UNCHANGED wcur
  /\ UNCHANGED <<stopped, submitVars, cpc, ctxDone, cancelling, outcome>>

\* The action returns and a future is resolved, unless a cancel was first.
ActionEnds(w) ==
  /\ wpc[w] = "run"
  /\ Awaited(wcur[w])
  /\ wpc' = [wpc EXCEPT ![w] = "select"]
  /\ wcur' = [wcur EXCEPT ![w] = NoJob]
  /\ outcome' = IF wcur[w] \in Futures THEN FirstOutcome(wcur[w], "result")
                                       ELSE outcome
  /\ UNCHANGED <<stopped, submitVars, cpc, running, runs, ctxDone, cancelling>>

\* A worker that does not watch the context.
NeverStops == FALSE

\* The context arm of the worker's select is ready.
WorkerMayExit == stopped

WorkerExits(w) ==
  /\ wpc[w] = "select"
  /\ WorkerMayExit
  /\ wpc' = [wpc EXCEPT ![w] = "exited"]
  /\ UNCHANGED <<stopped, submitVars, wcur, cpc, futureVars>>

\* Stop and Shutdown
Stop ==
  /\ ~stopped
  /\ stopped' = TRUE
  /\ UNCHANGED <<submitVars, workerVars, cpc, futureVars>>

-----------------------------------------------------------------------------
SubmitterStep(j) ==
  OfferStopped(j) \/ OfferReturns(j) \/ \E w \in Workers : HandOver(j, w)

WorkerStep(w) == WorkerDo(w) \/ ActionEnds(w) \/ WorkerExits(w)

Causes == {"cancelled", "timeout"}

Next ==
  \/ \E j \in Jobs : Offer(j) \/ SubmitterStep(j)
  \/ \E w \in Workers : WorkerStep(w)
  \/ \E f \in Futures : CallerDo(f) \/ CallerActionEnds(f)
  \/ \E f \in Futures, cause \in Causes : Cancel(f, cause) \/ CancelResolves(f, cause)
  \/ Stop

Spec == Init /\ [][Next]_vars

(* Fairness: goroutines that can run do, an action submits the future it is *)
(* going to wait for, and the actions handed in return.                     *)
Fairness ==
  /\ \A p \in Jobs : Nested[p] # NoJob => WF_vars(Offer(Nested[p]))
  /\ \A j \in Jobs : WF_vars(SubmitterStep(j))
  /\ \A w \in Workers : WF_vars(WorkerStep(w))
  /\ \A f \in Futures : WF_vars(CallerActionEnds(f))
  /\ \A f \in Futures, cause \in Causes : WF_vars(CancelResolves(f, cause))

FairSpec == Spec /\ Fairness

-----------------------------------------------------------------------------
(* Properties *)

\* Every variable has its type and a working worker holds a job.
TypeOK ==
  /\ stopped \in BOOLEAN
  /\ spc \in [Jobs -> {"none", "offer", "sent", "cancel", "returned"}]
  /\ dropped \subseteq Jobs
  /\ wpc \in [Workers -> {"select", "do", "run", "exited"}]
  /\ wcur \in [Workers -> Jobs \cup {NoJob}]
  /\ \A w \in Workers : wpc[w] \in {"do", "run"} => wcur[w] \in Jobs
  /\ cpc \in [Futures -> {"none", "run", "done"}]
  /\ running \subseteq Futures
  /\ runs \in [Jobs -> Nat]
  /\ ctxDone \subseteq Futures
  /\ cancelling \subseteq Futures \X Causes
  /\ outcome \in [Futures -> {"none", "result"} \cup Causes]

\* A future's action runs at most once, although the worker that was handed
\* the future and a program's own Do may both try.
RunsAtMostOnce == \A f \in Futures : runs[f] <= 1

\* Why it holds: a start is always recorded in running, which is never reset.
RunsInv ==
  \A f \in Futures : runs[f] = IF f \in running THEN 1 ELSE 0

\* What Get returned once it returns for ever: Do racing Cancel, a timeout or
\* another Cancel never overwrites a resolved future.
OutcomeStable ==
  [][\A f \in Futures : outcome[f] # "none" => outcome'[f] = outcome[f]]_vars

\* Every worker is held by an action that waits for a future only a worker
\* could resolve.
Starved == \A w \in Workers : wpc[w] = "run" /\ ~Awaited(wcur[w])

\* Execute and Submit return and every submitted future resolves, so no Get
\* blocks for ever, whether Stop comes before, during or after the hand-over.
\* The one exception is a pool whose every worker runs an action that waits for
\* a nested submission: one worker that does not is enough.
EverythingResolves ==
  /\ \A j \in Jobs : spc[j] = "offer" ~> (spc[j] = "returned" \/ Starved)
  /\ \A f \in Futures : spc[f] = "offer" ~> (outcome[f] # "none" \/ Starved)

\* Stop ends every worker once its current action has returned, and an action
\* that waits for a nested submission does return: Submit gives the future up
\* and cancels it, which wakes the action.
StopEndsWorkers == stopped ~> \A w \in Workers : wpc[w] = "exited"

\* async_executor.go:76: a task that meets a stopped executor in Execute's
\* re-check was not picked up by a worker and is dropped.
DroppedNeverRuns == \A t \in Tasks : t \in dropped => runs[t] = 0
=============================================================================
