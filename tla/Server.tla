------------------------------- MODULE Server -------------------------------
(***************************************************************************)
(* The server program: cmd/server/main.go runs a Reactor and waits in      *)
(* utils.Graceful (pkg/utils/graceful.go) for a signal, whose callback is  *)
(* the staged shutdown.  The channels of Graceful hold one entry; a signal *)
(* that finds its channel full is lost.                                    *)
(*                                                                         *)
(* The model goes on when main returns, as the program does when a test    *)
(* drives main; the end of the process only cuts a behaviour short.        *)
(***************************************************************************)
EXTENDS Reactor

VARIABLES
  mpc,         \* program counter of runServer
  shutdownCh,  \* a shutdown signal is buffered
  reloadCh,    \* SIGHUP is buffered
  doneCh       \* a call of Graceful.Stop is buffered

mainVars   == <<mpc, shutdownCh, reloadCh, doneCh>>
serverVars == <<vars, mainVars>>

\* The reactor is built and go newReactor.Run() was said.
ServerInit ==
  /\ Init
  /\ mpc = "start"
  /\ shutdownCh = FALSE
  /\ reloadCh = FALSE
  /\ doneCh = FALSE

\* signal.Notify: from here on signals go to the channels.
Listen ==
  /\ Running
  /\ mpc = "start"
  /\ mpc' = "wait"
  /\ UNCHANGED <<vars, shutdownCh, reloadCh, doneCh>>

\* A signal before Listen ends the process; a later one is buffered.  Once Wait
\* has taken a shutdown signal nobody reads the channels any more.
Signal ==
  /\ Running
  /\ mpc = "wait"
  /\ \/ shutdownCh' = TRUE /\ UNCHANGED reloadCh
     \/ reloadCh' = TRUE /\ UNCHANGED shutdownCh
  /\ UNCHANGED <<vars, mpc, doneCh>>

SignalKills ==
  /\ mpc = "start"
  /\ ~crashed
  /\ crashed' = TRUE
  /\ UNCHANGED <<netVars, connVars, workVars, hndVars, regVars, shutVars, mainVars>>

\* Graceful.Stop: the send waits for room.
GracefulStop ==
  /\ Running
  /\ mpc = "wait"
  /\ ~doneCh
  /\ doneCh' = TRUE
  /\ UNCHANGED <<vars, mpc, shutdownCh, reloadCh>>

\* Wait leaves its loop.  What is still in the channels is never read and is
\* forgotten here.
WaitLeaves(label) ==
  /\ mpc' = label
  /\ shutdownCh' = FALSE
  /\ reloadCh' = FALSE
  /\ doneCh' = FALSE

\* Wait takes the signal and stopBySignal calls the callback, which is
\* ShutdownGracefully.
WaitShutdown ==
  /\ mpc = "wait"
  /\ shutdownCh
  /\ WaitLeaves("shutdown")
  /\ ShutdownBegin

\* The server has no reload callback.
WaitReload ==
  /\ Running
  /\ mpc = "wait"
  /\ reloadCh
  /\ reloadCh' = FALSE
  /\ UNCHANGED <<vars, mpc, shutdownCh, doneCh>>

\* Wait returns without a shutdown.
WaitDone ==
  /\ Running
  /\ mpc = "wait"
  /\ doneCh
  /\ WaitLeaves("returned")
  /\ UNCHANGED vars

\* The callback and with it Wait return.
CallbackReturns ==
  /\ Running
  /\ mpc = "shutdown"
  /\ spc = "done"
  /\ mpc' = "returned"
  /\ UNCHANGED <<vars, shutdownCh, reloadCh, doneCh>>

Main == Listen \/ WaitShutdown \/ WaitReload \/ WaitDone \/ CallbackReturns

\* The steps of the reactor; only the callback begins a shutdown.
ReactorStep ==
  /\ \/ AcceptLoop
     \/ \E c \in Conns : Dispatcher(c) \/ Handler(c)
     \/ \E w \in Workers : WorkerLoop(w)
     \/ ShutdownProgress
  /\ UNCHANGED mainVars

ServerNext == Main \/ Signal \/ SignalKills \/ GracefulStop \/ ReactorStep

(* Fairness: that of the reactor; main runs; and a signal that is buffered  *)
(* is taken although SIGHUPs keep coming, because select chooses at random. *)
ServerFairness ==
  /\ WF_serverVars(AcceptProgress /\ UNCHANGED mainVars)
  /\ \A c \in Conns : /\ WF_serverVars(DispatchProgress(c) /\ UNCHANGED mainVars)
                      /\ WF_serverVars(HandlerProgress(c) /\ UNCHANGED mainVars)
  /\ \A w \in Workers : WF_serverVars(WorkerLoop(w) /\ UNCHANGED mainVars)
  /\ WF_serverVars(ShutdownProgress /\ UNCHANGED mainVars)
  /\ WF_serverVars(Listen \/ CallbackReturns)
  /\ WF_serverVars(WaitShutdown \/ WaitDone)

ServerSpec == ServerInit /\ [][ServerNext]_serverVars /\ ServerFairness

-----------------------------------------------------------------------------
(* Properties *)

\* A shutdown signal ends the server in bounded stages: main returns although
\* connections stay open and silent, SIGHUPs keep coming and the accept loop
\* may not even have started.
SignalEndsServer ==
  shutdownCh ~> (mpc = "returned" \/ crashed)
=============================================================================
