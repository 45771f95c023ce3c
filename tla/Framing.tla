------------------------------ MODULE Framing ------------------------------
(***************************************************************************)
(* Which logical messages a stream of wire frames carries: the rules of    *)
(* the framing (pkg/proto/codec.go, stream.go) as a reference definition.  *)
(* It says which runs of frames are a message, without reading them one    *)
(* after the other, and names the bytes of a message by counting.          *)
(*                                                                         *)
(* The k-th byte of the i-th wire frame of connection c is <<c, i, k>>.    *)
(***************************************************************************)
EXTENDS Integers, Sequences, FiniteSets

CONSTANTS Conns,
          Scripts,        \* what the peer of a connection may send
          Classes,        \* payloadClasses, the last one is MaxFrameSize
          MaxStreamSize

MaxFrameSize == Classes[Len(Classes)]

\* From the frame i to the frame j: a run of fragments and the one that ends it.
Spans(w) ==
  {s \in (1 .. Len(w)) \X (1 .. Len(w)) :
     /\ s[1] <= s[2]
     /\ s[1] = 1 \/ ~w[s[1] - 1].more
     /\ ~w[s[2]].more
     /\ \A k \in s[1] .. s[2] - 1 : w[k].more}

BytesOf(c, w, s) ==
  UNION {{<<c, i, k>> : k \in 1 .. w[i].len} : i \in s[1] .. s[2]}

\* The order on the wire.
Before(a, b) == a[2] < b[2] \/ (a[2] = b[2] /\ a[3] < b[3])

\* The bytes of a span, each at the place it has by the bytes before it.
Message(c, w, s) ==
  LET bytes == BytesOf(c, w, s)
  IN  [n \in 1 .. Cardinality(bytes) |->
         CHOOSE b \in bytes : Cardinality({a \in bytes : Before(a, b)}) = n - 1]

\* Frames within the size limit, of one stream and type, together within the
\* limit of a stream.
Legal(c, w, s) ==
  /\ \A k \in s[1] .. s[2] :
       /\ w[k].len <= MaxFrameSize
       /\ w[k].id = w[s[1]].id /\ w[k].type = w[s[1]].type
  /\ Cardinality(BytesOf(c, w, s)) <= MaxStreamSize

\* The spans up to the first one that breaks the rules.
Good(c, w) == {s \in Spans(w) : \A t \in Spans(w) : t[1] <= s[1] => Legal(c, w, t)}

Messages(c, w) ==
  LET Place(s) == Cardinality({t \in Good(c, w) : t[1] < s[1]})
  IN  [n \in 1 .. Cardinality(Good(c, w)) |->
         Message(c, w, CHOOSE s \in Good(c, w) : Place(s) = n - 1)]

\* The messages of every stream a peer may send.
Framed == [c \in Conns |-> [w \in Scripts[c] |-> Messages(c, w)]]
=============================================================================
