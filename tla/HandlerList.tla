---------------------------- MODULE HandlerList ----------------------------
(***************************************************************************)
(* What LinkedPipeline promises to a pipeline initializer: a list of       *)
(* handlers between the head and the tail, with the head at position 0.    *)
(* AddFirst puts its handlers before the others, the last one first;       *)
(* AddLast after them; AddHandler behind the one at the position.  A call  *)
(* takes effect as a whole when it returns.                                *)
(***************************************************************************)
EXTENDS Integers, Sequences, SequencesExt

CONSTANT Calls  \* the handlers of one call, a set of sequences

VARIABLES list, asked

None == [op |-> "none", position |-> 0, hs |-> <<>>]

Init == list = <<>> /\ asked = None

Ask(op, position, hs) ==
  /\ asked = None
  /\ ToSet(hs) \cap ToSet(list) = {}
  /\ asked' = [op |-> op, position |-> position, hs |-> hs]
  /\ UNCHANGED list

AddFirst == asked.op = "first" /\ list' = Reverse(asked.hs) \o list

AddLast == asked.op = "last" /\ list' = list \o asked.hs

AddHandler ==
  /\ asked.op = "behind"
  /\ list' = SubSeq(list, 1, asked.position) \o asked.hs
               \o SubSeq(list, asked.position + 1, Len(list))

Next ==
  \/ \E hs \in Calls :
       \/ Ask("first", 0, hs) \/ Ask("last", 0, hs)
       \/ \E p \in 1 .. Len(list) : Ask("behind", p, hs)
  \/ (AddFirst \/ AddLast \/ AddHandler) /\ asked' = None

Spec == Init /\ [][Next]_<<list, asked>>
=============================================================================
