---------------------------- MODULE MCFrameCodec ----------------------------
(* Wire scripts and sizes for the run of FrameCodec. *)
EXTENDS FrameCodec

MCClasses == <<2, 4>>

W(type, id, len, more) == [type |-> type, id |-> id, len |-> len, more |-> more]

\* In place, then past the capacity, to exactly MaxStreamSize.
Full     == <<W("request", 1, 3, TRUE), W("request", 1, 1, TRUE), W("request", 1, 1, FALSE)>>
\* One byte more.
TooBig   == <<W("request", 1, 3, TRUE), W("request", 1, 3, FALSE)>>
\* A grown aggregate the pool can keep, then another message.
Grown    == <<W("notice", 1, 1, TRUE), W("notice", 1, 2, FALSE), W("request", 2, 4, FALSE)>>
\* An aggregate that starts with an empty fragment.
EmptyOne == <<W("request", 1, 0, TRUE), W("request", 1, 2, FALSE)>>
\* Another stream, another type, an oversize frame inside a message.
Intruded == <<W("request", 1, 2, TRUE), W("request", 2, 1, FALSE)>>
Mixed    == <<W("request", 1, 2, TRUE), W("notice", 1, 1, FALSE)>>
Oversize == <<W("notice", 1, 1, TRUE), W("notice", 1, 5, FALSE)>>
\* What the other connection sends.
Short    == <<W("notice", 1, 3, FALSE)>>
Nothing  == <<W("request", 1, 0, FALSE)>>

MCScripts == [c \in Conns |->
  IF c = "c1" THEN {Full, TooBig, Grown, EmptyOne, Intruded, Mixed, Oversize, Nothing}
  ELSE {Short}]

MCThreshold == [c \in Conns |-> 0]

MCPublishes == [c \in Conns |-> IF c = "c1" THEN 1 ELSE 0]
=============================================================================
