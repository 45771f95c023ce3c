--------------------------- MODULE MessageStream ---------------------------
(***************************************************************************)
(* What the frame codec promises to the handlers behind it: of every       *)
(* connection they see the logical messages its peer framed, each whole    *)
(* and once, in order, up to the first one that breaks the rules of the    *)
(* framing, and nothing after the connection is closed.                    *)
(***************************************************************************)
EXTENDS Integers, Sequences

CONSTANTS Conns, Scripts,
          Framed      \* the messages of every stream a peer may send

VARIABLES script,     \* the wire frames the peer sends
          delivered,  \* the payloads the handlers saw
          open

vars == <<script, delivered, open>>

Init ==
  /\ script \in [Conns -> UNION {Scripts[c] : c \in Conns}]
  /\ \A c \in Conns : script[c] \in Scripts[c]
  /\ delivered = [c \in Conns |-> <<>>]
  /\ open = [c \in Conns |-> TRUE]

Deliver(c) ==
  /\ open[c]
  /\ Len(delivered[c]) < Len(Framed[c][script[c]])
  /\ delivered' = [delivered EXCEPT ![c] =
                     Append(@, Framed[c][script[c]][Len(@) + 1])]
  /\ UNCHANGED <<script, open>>

Close(c) ==
  /\ open' = [open EXCEPT ![c] = FALSE]
  /\ UNCHANGED <<script, delivered>>

Next == \E c \in Conns : Deliver(c) \/ Close(c)

Spec == Init /\ [][Next]_vars
=============================================================================
