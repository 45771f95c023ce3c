----------------------------- MODULE MCExecutor -----------------------------
(* Model values for the runs of Executor. *)
EXTENDS Executor, TLC

CONSTANTS t1, t2, f1

\* Both tasks wait for f1, which the first of them to run submits: alone it
\* leaves a worker free, together they hold both.
MCNested == t1 :> f1 @@ t2 :> f1 @@ f1 :> NoJob
====
