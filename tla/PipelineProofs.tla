--------------------------- MODULE PipelineProofs ---------------------------
(* Proofs about Pipeline, for any handlers and any calls of the initializer. *)
EXTENDS Pipeline, WellFoundedInduction, SequenceTheorems, TLAPS

\* A set of natural numbers that is not empty has a least element.
LEMMA LeastOfNats ==
  ASSUME NEW T, T \subseteq Nat, T # {}
  PROVE  \E x \in T : \A y \in T : x <= y
<1>1. PICK x \in T : \A y \in T : ~(<<y, x>> \in OpToRel(<, Nat))
  BY NatLessThanWellFounded, WFMin
<1>2. \A y \in T : ~(y < x)
  BY <1>1 DEF OpToRel
<1>3. QED
  BY <1>2

\* g starts at n and follows the link.
Follows(g, link, n) ==
  g = [k \in 0 .. size |->
         IF k = 0 THEN n ELSE IF g[k - 1] = Nil THEN Nil ELSE link[g[k - 1]]]

\* Walk is the only sequence of nodes that starts at n and follows the link.
LEMMA WalkIs ==
  ASSUME NEW STATE link, NEW STATE n, NEW STATE g,
         size \in Nat, Follows(g, link, n)
  PROVE  Walk(link, n) = g
<1> DEFINE F(at) == Follows(at, link, n)
           w == CHOOSE at : F(at)
<1> USE DEF Follows
<1>1. F(w)
  <2>1. \E at : F(at)
    OBVIOUS
  <2> HIDE DEF F
  <2> QED
    BY <2>1
<1>2. Walk(link, n) = w
  BY DEF Walk
<1> HIDE DEF w
<1>3. \A k \in 0 .. size : w[k] = g[k]
  <2> DEFINE D == {k \in 0 .. size : w[k] # g[k]}
  <2> SUFFICES ASSUME D # {} PROVE FALSE
    OBVIOUS
  <2>1. D \subseteq Nat
    OBVIOUS
  <2>2. PICK k \in D : \A j \in D : k <= j
    <3> HIDE DEF D
    <3> QED
      BY <2>1, LeastOfNats
  <2>3. CASE k = 0
    BY <1>1, <2>2, <2>3
  <2>4. CASE k # 0
    <3>1. k \in 1 .. size /\ k - 1 \in 0 .. size
      BY <2>2, <2>4
    <3>2. w[k - 1] = g[k - 1]
      BY <2>2, <3>1
    <3>3. w[k] = (IF w[k - 1] = Nil THEN Nil ELSE link[w[k - 1]])
      BY <1>1, <3>1
    <3>4. g[k] = (IF g[k - 1] = Nil THEN Nil ELSE link[g[k - 1]])
      BY <3>1
    <3>5. QED
      BY <2>2, <3>2, <3>3, <3>4
  <2>5. QED
    BY <2>3, <2>4
<1>4. QED
  <2>1. DOMAIN w = 0 .. size /\ DOMAIN g = 0 .. size
    BY <1>1
  <2>3. w = [k \in DOMAIN w |-> w[k]] /\ g = [k \in DOMAIN g |-> g[k]]
    BY <1>1
  <2>4. w = g
    BY <1>3, <2>1, <2>3
  <2>5. QED
    BY <1>2, <2>4

\* Walking next from a node meets the nodes behind it in order, then Nil.
LEMMA WalkForward ==
  ASSUME ChainInv, NEW i \in 1 .. size
  PROVE  \A k \in 0 .. size :
           Walk(next, order[i])[k] = IF i + k <= size THEN order[i + k] ELSE Nil
<1> DEFINE g == [k \in 0 .. size |-> IF i + k <= size THEN order[i + k] ELSE Nil]
<1>1. /\ size \in Nat /\ size >= 2 /\ size = Len(order)
      /\ order[size] = TailNode /\ next[TailNode] = Nil
      /\ \A j \in 1 .. size : order[j] \in Nodes
      /\ \A j \in 1 .. size - 1 : next[order[j]] = order[j + 1]
  BY DEF ChainInv, Chain
<1>2. \A k \in 0 .. size :
        g[k] = IF k = 0 THEN order[i]
               ELSE IF g[k - 1] = Nil THEN Nil ELSE next[g[k - 1]]
  <2>0. g[0] = order[i]
    BY <1>1
  <2> SUFFICES ASSUME NEW k \in 1 .. size
               PROVE  g[k] = IF g[k - 1] = Nil THEN Nil ELSE next[g[k - 1]]
    <3> HIDE DEF g
    <3> QED
      BY <1>1, <2>0
  <2>1. CASE i + k <= size
    <3>1. i + k - 1 \in 1 .. size - 1 /\ i + k - 1 \in 1 .. size /\ (i + k - 1) + 1 = i + k
      BY <1>1, <2>1
    <3>2. g[k - 1] = order[i + k - 1] /\ g[k] = order[i + k]
      BY <1>1, <2>1, <3>1
    <3>3. order[i + k - 1] # Nil /\ next[order[i + k - 1]] = order[i + k]
      BY <1>1, <3>1, NodesAssumption
    <3>4. QED
      BY <3>2, <3>3
  <2>2. CASE i + k = size + 1
    <3>1. g[k - 1] = TailNode /\ g[k] = Nil /\ TailNode # Nil
      BY <1>1, <2>2, NodesAssumption DEF Nodes
    <3>2. QED
      BY <1>1, <3>1
  <2>3. CASE i + k > size + 1
    <3>1. g[k - 1] = Nil /\ g[k] = Nil
      BY <1>1, <2>3
    <3>2. QED
      BY <3>1
  <2>4. QED
    BY <1>1, <2>1, <2>2, <2>3
<1>3. Follows(g, next, order[i])
  BY <1>2 DEF Follows
<1>4. Walk(next, order[i]) = g
  <2> HIDE DEF g
  <2> QED
    BY <1>1, <1>3, WalkIs
<1>5. QED
  BY <1>4

\* Walking prev from a node meets the nodes before it, the nearest first.
LEMMA WalkBackward ==
  ASSUME ChainInv, NEW i \in 1 .. size
  PROVE  \A k \in 0 .. size :
           Walk(prev, order[i])[k] = IF k < i THEN order[i - k] ELSE Nil
<1> DEFINE g == [k \in 0 .. size |-> IF k < i THEN order[i - k] ELSE Nil]
<1>1. /\ size \in Nat /\ size >= 2 /\ size = Len(order)
      /\ order[1] = HeadNode /\ prev[HeadNode] = Nil
      /\ \A j \in 1 .. size : order[j] \in Nodes
      /\ \A j \in 1 .. size - 1 : prev[order[j + 1]] = order[j]
  BY DEF ChainInv, Chain
<1>2. \A k \in 0 .. size :
        g[k] = IF k = 0 THEN order[i]
               ELSE IF g[k - 1] = Nil THEN Nil ELSE prev[g[k - 1]]
  <2>0. g[0] = order[i]
    BY <1>1
  <2> SUFFICES ASSUME NEW k \in 1 .. size
               PROVE  g[k] = IF g[k - 1] = Nil THEN Nil ELSE prev[g[k - 1]]
    <3> HIDE DEF g
    <3> QED
      BY <1>1, <2>0
  <2>1. CASE k < i
    <3>1. i - k \in 1 .. size - 1 /\ (i - k) + 1 \in 1 .. size /\ (i - k) + 1 = i - (k - 1)
      BY <1>1, <2>1
    <3>2. g[k - 1] = order[(i - k) + 1] /\ g[k] = order[i - k]
      BY <1>1, <2>1, <3>1
    <3>3. order[(i - k) + 1] # Nil /\ prev[order[(i - k) + 1]] = order[i - k]
      BY <1>1, <3>1, NodesAssumption
    <3>4. QED
      BY <3>2, <3>3
  <2>2. CASE k = i
    <3>1. g[k - 1] = HeadNode /\ g[k] = Nil /\ HeadNode # Nil
      BY <1>1, <2>2, NodesAssumption DEF Nodes
    <3>2. QED
      BY <1>1, <3>1
  <2>3. CASE k > i
    <3>1. g[k - 1] = Nil /\ g[k] = Nil
      BY <1>1, <2>3
    <3>2. QED
      BY <3>1
  <2>4. QED
    BY <1>1, <2>1, <2>2, <2>3
<1>3. Follows(g, prev, order[i])
  BY <1>2 DEF Follows
<1>4. Walk(prev, order[i]) = g
  <2> HIDE DEF g
  <2> QED
    BY <1>1, <1>3, WalkIs
<1>5. QED
  BY <1>4

\* The walks from the two ends.
COROLLARY WalkEnds ==
  ASSUME ChainInv
  PROVE  \A k \in 0 .. size :
           /\ Walk(next, HeadNode)[k] = IF k < size THEN order[k + 1] ELSE Nil
           /\ Walk(prev, TailNode)[k] = IF k < size THEN order[size - k] ELSE Nil
<1>1. /\ size \in Nat /\ 1 \in 1 .. size /\ size \in 1 .. size
      /\ order[1] = HeadNode /\ order[size] = TailNode
  BY DEF ChainInv, Chain
<1> TAKE k \in 0 .. size
<1>2. Walk(next, order[1])[k] = IF 1 + k <= size THEN order[1 + k] ELSE Nil
  BY <1>1, WalkForward
<1>3. Walk(prev, order[size])[k] = IF k < size THEN order[size - k] ELSE Nil
  BY <1>1, WalkBackward
<1>4. (1 + k <= size <=> k < size) /\ 1 + k = k + 1
  BY <1>1
<1>5. QED
  BY <1>1, <1>2, <1>3, <1>4

\* Linking one handler of the call in behind order[i], with the two links of the
\* new node and the two of its neighbours, keeps the list whole.
LEMMA InsertKeepsChain ==
  ASSUME ChainInv, NEW i \in 1 .. Len(order) - 1, NEW STATE at,
         call.left # <<>>, InsertBehind(order[i], at)
  PROVE  /\ next' \in [Nodes -> Nodes \cup {Nil}]
         /\ prev' \in [Nodes -> Nodes \cup {Nil}]
         /\ order' \in Seq(Nodes) /\ Len(order') = Len(order) + 1
         /\ order'[i + 1] = call.left[1]
         /\ Distinct(order')
         /\ Chain'
         /\ Distinct(call.left)' /\ Fresh(call.left)'
         /\ call' = [call EXCEPT !.at = at, !.left = SubSeq(@, 2, Len(@))]
         /\ call'.left \in Seq(Handlers)
<1> DEFINE h == call.left[1]
           n == Len(order)
           p == order[i]
<1>1. /\ n \in Nat /\ n >= 2 /\ i \in 1 .. n /\ i + 1 \in 1 .. n
      /\ \A k \in 1 .. n : order[k] \in Nodes
      /\ order \in Seq(Nodes)
  BY DEF ChainInv
<1>2. /\ call.left \in Seq(Handlers) /\ Len(call.left) \in Nat
      /\ Len(call.left) >= 1
      /\ h \in Handlers /\ h \in Nodes
  BY DEF ChainInv, Nodes
<1>3. \A k \in 1 .. n : order[k] # h
  BY <1>2 DEF ChainInv, Fresh, InOrder
<1>4. PositionOf(p) = i
  <2>1. \A k \in 1 .. n : order[k] = p => k = i
    BY <1>1 DEF ChainInv, Distinct
  <2>2. QED
    BY <1>1, <2>1 DEF PositionOf
<1>5. /\ order' = [k \in 1 .. n + 1 |->
                    IF k <= i THEN order[k] ELSE IF k = i + 1 THEN h ELSE order[k - 1]]
      /\ next' = [next EXCEPT ![p] = h, ![h] = next[p]]
      /\ prev' = [prev EXCEPT ![h] = p, ![next[p]] = h]
      /\ size' = size + 1
      /\ call' = [call EXCEPT !.at = at, !.left = SubSeq(@, 2, Len(@))]
  BY <1>4 DEF InsertBehind, Inserted, Linked
<1> HIDE DEF h, n, p
<1>6. order' \in Seq(Nodes) /\ Len(order') = n + 1
  <2>1. ASSUME NEW k \in 1 .. n + 1
        PROVE  (IF k <= i THEN order[k] ELSE IF k = i + 1 THEN h ELSE order[k - 1]) \in Nodes
    <3>1. k <= i => k \in 1 .. n
      BY <1>1
    <3>2. k > i /\ k # i + 1 => k - 1 \in 1 .. n
      BY <1>1
    <3>3. k <= i \/ k > i
      BY <1>1
    <3>4. QED
      BY <1>1, <1>2, <3>1, <3>2, <3>3
  <2>2. order' \in [1 .. n + 1 -> Nodes]
    BY <1>5, <2>1
  <2>3. QED
    BY <1>1, <2>2
<1>7. /\ \A k \in 1 .. i : order'[k] = order[k]
      /\ order'[i + 1] = h
      /\ \A k \in i + 2 .. n + 1 : order'[k] = order[k - 1] /\ k - 1 \in 1 .. n
  BY <1>1, <1>5
<1>8. next[p] = order[i + 1] /\ next[p] \in Nodes /\ p \in Nodes /\ p # h /\ next[p] # h
  BY <1>1, <1>3 DEF ChainInv, Chain, p, n
<1>9. /\ next' \in [Nodes -> Nodes \cup {Nil}]
      /\ prev' \in [Nodes -> Nodes \cup {Nil}]
  BY <1>2, <1>5, <1>8 DEF ChainInv
<1>10. /\ next'[p] = h /\ next'[h] = order[i + 1]
       /\ \A k \in 1 .. n : k # i => next'[order[k]] = next[order[k]]
       /\ prev'[h] = p /\ prev'[order[i + 1]] = h
       /\ \A k \in 1 .. n : k # i + 1 => prev'[order[k]] = prev[order[k]]
  <2>1. \A k \in 1 .. n :
          /\ k # i => order[k] # p
          /\ k # i + 1 => order[k] # order[i + 1]
    BY <1>1 DEF ChainInv, Distinct, p, n
  <2>2. next \in [Nodes -> Nodes \cup {Nil}] /\ prev \in [Nodes -> Nodes \cup {Nil}]
    BY DEF ChainInv
  <2>3. next'[p] = h /\ next'[h] = order[i + 1]
    BY <1>2, <1>5, <1>8, <2>2
  <2>4. prev'[h] = p /\ prev'[order[i + 1]] = h
    BY <1>2, <1>5, <1>8, <2>2
  <2>5. ASSUME NEW k \in 1 .. n, k # i PROVE next'[order[k]] = next[order[k]]
    <3>1. order[k] \in Nodes /\ order[k] # p /\ order[k] # h
      BY <1>1, <1>3, <2>1, <2>5
    <3>2. QED
      BY <1>5, <2>2, <3>1
  <2>6. ASSUME NEW k \in 1 .. n, k # i + 1 PROVE prev'[order[k]] = prev[order[k]]
    <3>1. order[k] \in Nodes /\ order[k] # next[p] /\ order[k] # h
      BY <1>1, <1>3, <1>8, <2>1, <2>6
    <3>2. QED
      BY <1>5, <2>2, <3>1
  <2>7. QED
    BY <2>3, <2>4, <2>5, <2>6
<1>11. Distinct(order')
  <2> SUFFICES ASSUME NEW j \in 1 .. n + 1, NEW k \in 1 .. n + 1,
                      order'[j] = order'[k], j < k
               PROVE  FALSE
    BY <1>1, <1>6 DEF Distinct
  <2>1. \A a, b \in 1 .. n : order[a] = order[b] => a = b
    BY DEF ChainInv, Distinct, n
  <2>2. CASE k <= i
    BY <1>1, <1>7, <2>1, <2>2
  <2>3. CASE k = i + 1
    BY <1>1, <1>3, <1>7, <2>3
  <2>4. CASE k > i + 1 /\ j <= i
    <3>1. order[j] = order[k - 1] /\ k - 1 \in 1 .. n /\ j \in 1 .. n
      BY <1>1, <1>7, <2>4
    <3>2. QED
      BY <1>1, <2>1, <2>4, <3>1
  <2>5. CASE k > i + 1 /\ j = i + 1
    <3>1. h = order[k - 1] /\ k - 1 \in 1 .. n
      BY <1>1, <1>7, <2>5
    <3>2. QED
      BY <1>3, <3>1
  <2>6. CASE k > i + 1 /\ j > i + 1
    <3>1. order[j - 1] = order[k - 1] /\ k - 1 \in 1 .. n /\ j - 1 \in 1 .. n
      BY <1>1, <1>7, <2>6
    <3>2. QED
      BY <2>1, <3>1
  <2>7. QED
    BY <1>1, <2>2, <2>3, <2>4, <2>5, <2>6
<1>12. Chain'
  <2>1. size' = Len(order')
    BY <1>5, <1>6 DEF ChainInv, Chain, n
  <2>2. order'[1] = HeadNode /\ order'[n + 1] = TailNode
    <3>1. order[1] = HeadNode /\ order[n] = TailNode
      BY DEF ChainInv, Chain, n
    <3>2. 1 \in 1 .. i /\ n + 1 \in i + 2 .. n + 1 /\ (n + 1) - 1 = n
      BY <1>1
    <3>3. QED
      BY <1>7, <3>1, <3>2
  <2>3. prev'[HeadNode] = Nil /\ next'[TailNode] = Nil
    <3>1. /\ order[1] = HeadNode /\ prev[HeadNode] = Nil
          /\ order[n] = TailNode /\ next[TailNode] = Nil
      BY DEF ChainInv, Chain, n
    <3>2. 1 \in 1 .. n /\ 1 # i + 1 /\ n \in 1 .. n /\ n # i
      BY <1>1
    <3>3. QED
      BY <1>10, <3>1, <3>2
  <2>4. ASSUME NEW k \in 1 .. n
        PROVE  next'[order'[k]] = order'[k + 1] /\ prev'[order'[k + 1]] = order'[k]
    <3>0. \A j \in 1 .. n - 1 : next[order[j]] = order[j + 1] /\ prev[order[j + 1]] = order[j]
      BY DEF ChainInv, Chain, n
    <3>1. CASE k < i
      <4>1. order'[k] = order[k] /\ order'[k + 1] = order[k + 1]
        BY <1>1, <1>7, <3>1
      <4>2. k \in 1 .. n - 1 /\ k \in 1 .. n /\ k # i /\ k + 1 \in 1 .. n /\ k + 1 # i + 1
        BY <1>1, <3>1
      <4>3. QED
        BY <1>10, <3>0, <4>1, <4>2
    <3>2. CASE k = i
      BY <1>1, <1>7, <1>10, <3>2 DEF p
    <3>3. CASE k = i + 1
      <4>1. order'[k] = h /\ order'[k + 1] = order[i + 1]
        BY <1>1, <1>7, <3>3
      <4>2. QED
        BY <1>10, <4>1
    <3>4. CASE k > i + 1
      <4>1. order'[k] = order[k - 1] /\ order'[k + 1] = order[k]
        BY <1>1, <1>7, <3>4
      <4>2. /\ k - 1 \in 1 .. n - 1 /\ k - 1 \in 1 .. n /\ k - 1 # i
            /\ k \in 1 .. n /\ k # i + 1 /\ (k - 1) + 1 = k
        BY <1>1, <3>4
      <4>3. next[order[k - 1]] = order[k] /\ prev[order[k]] = order[k - 1]
        BY <3>0, <4>2
      <4>4. QED
        BY <1>10, <4>1, <4>2, <4>3
    <3>5. QED
      BY <1>1, <3>1, <3>2, <3>3, <3>4
  <2>5. QED
    BY <1>1, <1>6, <2>1, <2>2, <2>3, <2>4 DEF Chain
<1>13. /\ call'.left = SubSeq(call.left, 2, Len(call.left))
       /\ call'.left \in Seq(Handlers)
       /\ Len(call'.left) = Len(call.left) - 1
       /\ \A k \in 1 .. Len(call'.left) : call'.left[k] = call.left[k + 1]
  <2>1. call'.left = SubSeq(call.left, 2, Len(call.left))
    BY <1>5 DEF ChainInv
  <2>2. QED
    BY <1>2, <2>1
<1>14. Distinct(call.left)'
  BY <1>2, <1>13 DEF ChainInv, Distinct
<1>15. Fresh(call.left)'
  <2> SUFFICES ASSUME NEW k \in 1 .. Len(call'.left), NEW j \in 1 .. n + 1
               PROVE  order'[j] # call'.left[k]
    BY <1>6 DEF Fresh, InOrder
  <2>1. /\ call'.left[k] = call.left[k + 1] /\ k + 1 \in 1 .. Len(call.left)
        /\ call.left[k + 1] # h
    BY <1>2, <1>13 DEF ChainInv, Distinct, h
  <2>2. \A m \in 1 .. n : order[m] # call.left[k + 1]
    BY <2>1 DEF ChainInv, Fresh, InOrder, n
  <2>3. QED
    BY <1>1, <1>7, <2>1, <2>2
<1>16. QED
  BY <1>5, <1>6, <1>7, <1>9, <1>11, <1>12, <1>13, <1>14, <1>15 DEF h, n

\* ChainInv is inductive.
LEMMA ChainInit == Init => ChainInv
<1> SUFFICES ASSUME Init PROVE ChainInv
  OBVIOUS
<1>1. order = <<HeadNode, TailNode>> /\ size = 2 /\ call = NoCall
  BY DEF Init
<1>2. order \in Seq(Nodes) /\ Len(order) = 2 /\ order[1] = HeadNode /\ order[2] = TailNode
  BY <1>1 DEF Nodes
<1>3. Distinct(order)
  BY <1>2, NodesAssumption DEF Distinct
<1>4. /\ next \in [Nodes -> Nodes \cup {Nil}] /\ prev \in [Nodes -> Nodes \cup {Nil}]
      /\ next[HeadNode] = TailNode /\ next[TailNode] = Nil
      /\ prev[TailNode] = HeadNode /\ prev[HeadNode] = Nil
  BY NodesAssumption DEF Init, Nodes
<1>5. Chain
  BY <1>1, <1>2, <1>4 DEF Chain
<1>6. /\ call \in [op : {"none", "first", "last", "behind"}, position : Nat,
                   hs : Seq(Handlers), at : Nodes \cup {Nil}, left : Seq(Handlers)]
      /\ call.left = <<>> /\ call.op = "none"
  BY <1>1 DEF NoCall
<1>7. Distinct(call.left) /\ Fresh(call.left)
  BY <1>6 DEF Distinct, Fresh
<1>8. QED
  BY <1>2, <1>3, <1>4, <1>5, <1>6, <1>7 DEF ChainInv

\* Accepting a list call records it and leaves the chain alone.
LEMMA BeginKeeps ==
  ASSUME ChainInv, NEW op \in {"first", "last", "behind"}, NEW position \in Nat,
         NEW STATE n, n \in Nodes, NEW hs \in Calls, Begin(op, position, n, hs),
         op = "behind" => \E i \in 1 .. Len(order) - 1 : order[i] = n
  PROVE  ChainInv'
<1>1. /\ call' = [op |-> op, position |-> position, hs |-> hs, at |-> n, left |-> hs]
      /\ Fresh(hs)
      /\ UNCHANGED <<next, prev, size, order>>
  BY DEF Begin
<1>2. hs \in Seq(Handlers) /\ Distinct(hs)
  BY CallsAssumption DEF Distinct
<1>3. call' \in [op : {"none", "first", "last", "behind"}, position : Nat,
                 hs : Seq(Handlers), at : Nodes \cup {Nil}, left : Seq(Handlers)]
  BY <1>1, <1>2
<1>4. call'.left = hs /\ call'.op = op /\ call'.at = n
  BY <1>1
<1>5. Distinct(call.left)' /\ Fresh(call.left)'
  BY <1>1, <1>2, <1>4 DEF Distinct, Fresh, InOrder
<1>6. Chain' /\ Distinct(order')
  BY <1>1 DEF ChainInv, Chain, Distinct
<1>7. call'.op = "behind" => \E i \in 1 .. Len(order') - 1 : order'[i] = call'.at
  BY <1>1, <1>4
<1>8. QED
  BY <1>1, <1>3, <1>5, <1>6, <1>7 DEF ChainInv

\* Every step of the pipeline keeps the chain whole.
LEMMA ChainStep == ChainInv /\ [Next]_vars => ChainInv'
<1> SUFFICES ASSUME ChainInv, [Next]_vars PROVE ChainInv'
  OBVIOUS
<1>1. /\ size = Len(order) /\ Len(order) \in Nat /\ Len(order) >= 2
      /\ order[1] = HeadNode /\ order[Len(order)] = TailNode
      /\ HeadNode \in Nodes /\ TailNode \in Nodes
  BY DEF ChainInv, Chain, Nodes
<1>2. ASSUME UNCHANGED listVars PROVE ChainInv'
  BY <1>2 DEF listVars, ChainInv, Chain, Distinct, Fresh, InOrder
<1>3. ASSUME NEW hs \in Calls, Begin("first", 0, HeadNode, hs) PROVE ChainInv'
  BY <1>1, <1>3, BeginKeeps
<1>4. ASSUME NEW hs \in Calls, Begin("last", 0, TailNode, hs) PROVE ChainInv'
  BY <1>1, <1>4, BeginKeeps
<1>5. ASSUME NEW hs \in Calls, NEW position \in 1 .. size - 2,
             Begin("behind", position, ContextAt(position), hs)
      PROVE  ChainInv'
  <2>1. ContextAt(position) = order[position + 1]
    <3>1. position \in 0 .. size /\ position < size /\ ~(position < 0 \/ position >= size)
      BY <1>1
    <3>2. QED
      BY <3>1, WalkEnds DEF ContextAt
  <2>2. position + 1 \in 1 .. Len(order) - 1 /\ position \in Nat
    BY <1>1
  <2>3. order[position + 1] \in Nodes
    BY <2>2 DEF ChainInv
  <2>4. QED
    BY <1>5, <2>1, <2>2, <2>3, BeginKeeps
<1>6. ASSUME NEW i \in 1 .. Len(order) - 1, NEW STATE at, at \in Nodes,
             call.left # <<>>, InsertBehind(order[i], at),
             call.op = "behind" => at = call.left[1]
      PROVE  ChainInv'
  <2>1. /\ next' \in [Nodes -> Nodes \cup {Nil}]
        /\ prev' \in [Nodes -> Nodes \cup {Nil}]
        /\ order' \in Seq(Nodes) /\ Len(order') = Len(order) + 1
        /\ order'[i + 1] = call.left[1]
        /\ Distinct(order')
        /\ Chain'
        /\ Distinct(call.left)' /\ Fresh(call.left)'
        /\ call' = [call EXCEPT !.at = at, !.left = SubSeq(@, 2, Len(@))]
        /\ call'.left \in Seq(Handlers)
    BY <1>6, InsertKeepsChain
  <2>2. /\ call' \in [op : {"none", "first", "last", "behind"}, position : Nat,
                      hs : Seq(Handlers), at : Nodes \cup {Nil}, left : Seq(Handlers)]
        /\ call'.op = call.op /\ call'.at = at
    BY <1>6, <2>1 DEF ChainInv
  <2>3. call'.op = "behind" => \E k \in 1 .. Len(order') - 1 : order'[k] = call'.at
    <3>1. i + 1 \in 1 .. Len(order') - 1
      BY <1>1, <2>1
    <3>2. QED
      BY <1>6, <2>1, <2>2, <3>1
  <2>4. Len(order') >= 2
    BY <1>1, <2>1
  <2> HIDE DEF Chain, Distinct, Fresh
  <2>5. /\ next' \in [Nodes -> Nodes \cup {Nil}] /\ prev' \in [Nodes -> Nodes \cup {Nil}]
        /\ order' \in Seq(Nodes) /\ Distinct(order') /\ Chain'
        /\ Distinct(call.left)' /\ Fresh(call.left)'
    BY <2>1
  <2>6. QED
    BY <2>2, <2>3, <2>4, <2>5, Zenon DEF ChainInv
<1>7. CASE AddFirstOne
  <2>1. /\ call.op = "first" /\ call.left # <<>>
        /\ InsertBehind(HeadNode, HeadNode)
    BY <1>7 DEF AddFirstOne
  <2>2. 1 \in 1 .. Len(order) - 1
    BY <1>1
  <2>3. QED
    BY <1>1, <1>6, <2>1, <2>2
<1>8. CASE AddLastOne
  <2>1. /\ call.op = "last" /\ call.left # <<>>
        /\ InsertBehind(prev[TailNode], TailNode)
    BY <1>8 DEF AddLastOne
  <2>2. Len(order) - 1 \in 1 .. Len(order) - 1 /\ (Len(order) - 1) + 1 = Len(order)
    BY <1>1
  <2>3. prev[TailNode] = order[Len(order) - 1]
    BY <1>1, <2>2 DEF ChainInv, Chain
  <2>4. QED
    BY <1>1, <1>6, <2>1, <2>2, <2>3
<1>9. CASE AddBehindOne
  <2>1. /\ call.op = "behind" /\ call.left # <<>>
        /\ InsertBehind(call.at, call.left[1])
    BY <1>9 DEF AddBehindOne, AtNewNode
  <2>2. PICK i \in 1 .. Len(order) - 1 : order[i] = call.at
    BY <2>1 DEF ChainInv
  <2>3. call.left[1] \in Nodes
    BY <2>1 DEF ChainInv, Nodes
  <2>4. QED
    BY <1>6, <2>1, <2>2, <2>3
<1>10. CASE AddReturns
  <2>1. UNCHANGED <<next, prev, size, order>> /\ call' = NoCall
    BY <1>10 DEF AddReturns
  <2>2. /\ call' \in [op : {"none", "first", "last", "behind"}, position : Nat,
                      hs : Seq(Handlers), at : Nodes \cup {Nil}, left : Seq(Handlers)]
        /\ call'.left = <<>> /\ call'.op = "none"
    BY <2>1 DEF NoCall
  <2>3. Distinct(call.left)' /\ Fresh(call.left)'
    BY <2>2 DEF Distinct, Fresh
  <2>4. Chain' /\ Distinct(order')
    BY <2>1 DEF ChainInv, Chain, Distinct
  <2>5. QED
    BY <2>1, <2>2, <2>3, <2>4 DEF ChainInv
<1>11. CASE Build
  <2>1. CASE CallAddFirst
    BY <1>3, <2>1 DEF CallAddFirst
  <2>2. CASE CallAddLast
    BY <1>4, <2>2 DEF CallAddLast
  <2>3. CASE CallAddHandler
    BY <1>3, <1>4, <1>5, <2>3 DEF CallAddHandler
  <2>4. CASE AddPanics
    BY <1>2, <2>4 DEF AddPanics
  <2>5. QED
    BY <1>7, <1>8, <1>9, <1>10, <1>11, <2>1, <2>2, <2>3, <2>4 DEF Build
<1>12. QED
  BY <1>2, <1>11 DEF Next, BuildDone, WorkerLoop, Forward, Write, HandlerCloses, Return,
     Panic, vars

\* The links of the pipeline's list agree in both directions with size and with
\* the order of the handlers, after every insertion of AddFirst, AddLast and
\* AddHandler (linked_pipeline.go), for any handlers and any calls.
THEOREM ChainCorrect == Spec => []Chain
<1>1. ChainInv => Chain
  BY DEF ChainInv
<1>2. QED
  BY <1>1, ChainInit, ChainStep, PTL DEF Spec

\* The least element is Min.
LEMMA MinIs ==
  ASSUME NEW T, T \subseteq Int, NEW x \in T, \A y \in T : x <= y
  PROVE  Min(T) = x
<1>1. \A z \in T : (\A y \in T : z <= y) => z = x
  OBVIOUS
<1>2. QED
  BY <1>1 DEF Min

\* The greatest element is Max.
LEMMA MaxIs ==
  ASSUME NEW T, T \subseteq Int, NEW x \in T, \A y \in T : x >= y
  PROVE  Max(T) = x
<1>1. \A z \in T : (\A y \in T : z >= y) => z = x
  OBVIOUS
<1>2. QED
  BY <1>1 DEF Max

\* The scan from the head finds the first position, the scan from the tail the
\* last one, and ContextAt undoes both.
LEMMA ChainLookups == ChainInv => LookupsMatch
<1> SUFFICES ASSUME ChainInv, NEW S \in SUBSET Nodes
             PROVE  LET hits == {i \in 1 .. Len(order) : order[i] \in S}
                    IN  IF hits = {} THEN IndexOf(S) = -1 /\ LastIndexOf(S) = -1
                        ELSE /\ IndexOf(S) = Min(hits) - 1 /\ LastIndexOf(S) = Max(hits) - 1
                             /\ ContextAt(IndexOf(S)) \in S /\ ContextAt(LastIndexOf(S)) \in S
  BY DEF LookupsMatch
<1> DEFINE hits == {i \in 1 .. Len(order) : order[i] \in S}
           up   == {k \in 0 .. size : Walk(next, HeadNode)[k] \in S}
           down == {k \in 0 .. size : Walk(prev, TailNode)[k] \in S}
<1>1. size = Len(order) /\ size \in Nat /\ Nil \notin S
  BY NodesAssumption DEF ChainInv, Chain
<1>2. \A k : k \in up <=> k \in 0 .. size - 1 /\ k + 1 \in hits
  BY <1>1, WalkEnds
<1>3. \A k : k \in down <=> k \in 0 .. size - 1 /\ size - k \in hits
  BY <1>1, WalkEnds
<1>4. /\ IndexOf(S) = IF up = {} THEN -1 ELSE Min(up)
      /\ LastIndexOf(S) = IF down = {} THEN -1 ELSE size - 1 - Min(down)
  BY DEF IndexOf, LastIndexOf
<1>5. up \subseteq Nat /\ down \subseteq Nat /\ hits \subseteq 1 .. size
  BY <1>1
<1>6. \A k \in 0 .. size - 1 : ContextAt(k) = order[k + 1]
  BY <1>1, WalkEnds DEF ContextAt
<1>7. \A i \in hits : order[i] \in S
  OBVIOUS
<1> HIDE DEF hits, up, down
<1>8. CASE hits = {}
  <2>1. up = {} /\ down = {}
    BY <1>2, <1>3, <1>8
  <2>2. QED
    BY <1>4, <1>8, <2>1 DEF hits
<1>9. CASE hits # {}
  <2>1. PICK i \in hits : TRUE
    BY <1>9
  <2>2. i - 1 \in up /\ size - i \in down
    <3>1. /\ i - 1 \in 0 .. size - 1 /\ (i - 1) + 1 = i
          /\ size - i \in 0 .. size - 1 /\ size - (size - i) = i
      BY <1>1, <1>5
    <3>2. QED
      BY <1>2, <1>3, <3>1
  <2>3. PICK a \in up : \A y \in up : a <= y
    BY <1>5, <2>2, LeastOfNats
  <2>4. PICK b \in down : \A y \in down : b <= y
    BY <1>5, <2>2, LeastOfNats
  <2>5. /\ a \in 0 .. size - 1 /\ a + 1 \in hits
        /\ b \in 0 .. size - 1 /\ size - b \in hits
    BY <1>2, <1>3
  <2>6. ASSUME NEW y \in hits PROVE a + 1 <= y /\ size - b >= y
    <3>1. /\ y - 1 \in 0 .. size - 1 /\ (y - 1) + 1 = y
          /\ size - y \in 0 .. size - 1 /\ size - (size - y) = y
      BY <1>1, <1>5
    <3>2. y - 1 \in up /\ size - y \in down
      BY <1>2, <1>3, <3>1
    <3>3. a <= y - 1 /\ b <= size - y
      BY <2>3, <2>4, <3>2
    <3>4. QED
      BY <1>1, <2>5, <3>1, <3>3
  <2>7. Min(up) = a /\ Min(down) = b
    <3>1. up \subseteq Int /\ down \subseteq Int
      BY <1>5
    <3>2. Min(up) = a
      BY <2>3, <3>1, MinIs
    <3>3. Min(down) = b
      BY <2>4, <3>1, MinIs
    <3>4. QED
      BY <3>2, <3>3
  <2>8. Min(hits) = a + 1 /\ Max(hits) = size - b
    <3>1. hits \subseteq Int
      BY <1>5
    <3>2. Min(hits) = a + 1
      BY <2>5, <2>6, <3>1, MinIs
    <3>3. Max(hits) = size - b
      BY <2>5, <2>6, <3>1, MaxIs
    <3>4. QED
      BY <3>2, <3>3
  <2>9. IndexOf(S) = a /\ LastIndexOf(S) = size - 1 - b
    BY <1>4, <2>2, <2>7
  <2>10. size - 1 - b \in 0 .. size - 1 /\ (size - 1 - b) + 1 = size - b
    BY <1>1, <2>5
  <2>11. ContextAt(a) \in S /\ ContextAt(size - 1 - b) \in S
    BY <1>6, <1>7, <2>5, <2>10
  <2>12. a = (a + 1) - 1 /\ size - 1 - b = (size - b) - 1
    BY <1>1, <2>5
  <2>13. QED
    BY <1>9, <2>8, <2>9, <2>11, <2>12 DEF hits
<1>10. QED
  BY <1>8, <1>9

\* IndexOf, LastIndexOf and ContextAt speak of the same positions whatever the
\* initializer built (the scans from either end of linked_pipeline.go).
THEOREM LookupsCorrect == Spec => []LookupsMatch
BY ChainLookups, ChainInit, ChainStep, PTL DEF Spec

-----------------------------------------------------------------------------
(* Propagation                                                             *)

\* Where a node of the list stands.
LEMMA PositionIs ==
  ASSUME ChainInv, NEW i \in 1 .. Len(order)
  PROVE  PositionOf(order[i]) = i
<1>1. \A k \in 1 .. Len(order) : order[k] = order[i] => k = i
  BY DEF ChainInv, Distinct
<1>2. QED
  BY <1>1 DEF PositionOf

\* A propagated event skips no node that handles it.
LEMMA OnwardIsNearest ==
  ASSUME ChainInv, NEW i \in 1 .. Len(order), NEW STATE ev, ev \in Events,
         Onward(order[i], ev) # Nil
  PROVE  \E j \in 1 .. Len(order) :
           /\ Onward(order[i], ev) = order[j]
           /\ ev \in Caps[order[j]]
           /\ IF ev = "write" THEN j < i ELSE i < j
           /\ \A k \in (IF ev = "write" THEN j + 1 .. i - 1 ELSE i + 1 .. j - 1) :
                ev \notin Caps[order[k]]
<1> DEFINE link == Along(ev)
           hits == {k \in 1 .. size : Walk(link, order[i])[k] # Nil
                                        /\ ev \in Caps[Walk(link, order[i])[k]]}
<1>1. /\ size = Len(order) /\ size \in Nat /\ i \in 1 .. size
      /\ \A k \in 1 .. size : order[k] \in Nodes /\ order[k] # Nil
  BY NodesAssumption DEF ChainInv, Chain
<1>2. Onward(order[i], ev) = IF hits = {} THEN Nil ELSE Walk(link, order[i])[Min(hits)]
  BY DEF Onward, Receiver
<1>3. hits \subseteq Nat /\ hits \subseteq Int /\ hits # {}
  BY <1>1, <1>2
<1>4. PICK m \in hits : \A y \in hits : m <= y
  <2> HIDE DEF hits
  <2> QED
    BY <1>3, LeastOfNats
<1>5. Onward(order[i], ev) = Walk(link, order[i])[m]
  <2> HIDE DEF hits
  <2>1. Min(hits) = m
    BY <1>3, <1>4, MinIs
  <2>2. QED
    BY <1>2, <1>3, <2>1
<1>6. \A k \in 1 .. m - 1 :
        Walk(link, order[i])[k] # Nil => ev \notin Caps[Walk(link, order[i])[k]]
  BY <1>1, <1>4
<1>7. CASE ev = "write"
  <2>1. \A k \in 0 .. size :
          Walk(link, order[i])[k] = IF k < i THEN order[i - k] ELSE Nil
    BY <1>1, <1>7, WalkBackward DEF Along
  <2>2. m < i /\ i - m \in 1 .. size /\ Walk(link, order[i])[m] = order[i - m]
    BY <1>1, <1>4, <2>1
  <2>3. ASSUME NEW k \in (i - m) + 1 .. i - 1 PROVE ev \notin Caps[order[k]]
    <3>1. i - k \in 1 .. m - 1 /\ i - k \in 0 .. size /\ i - (i - k) = k /\ k \in 1 .. size
          /\ i - k < i
      BY <1>1, <1>4, <2>2
    <3>2. Walk(link, order[i])[i - k] = order[k]
      BY <2>1, <3>1
    <3>3. QED
      BY <1>1, <1>6, <3>1, <3>2
  <2>4. ev \in Caps[order[i - m]]
    BY <1>4, <2>2
  <2>5. i - m < i
    BY <1>1, <1>4
  <2>6. QED
    BY <1>1, <1>5, <1>7, <2>2, <2>3, <2>4, <2>5
<1>8. CASE ev # "write"
  <2>1. \A k \in 0 .. size :
          Walk(link, order[i])[k] = IF i + k <= size THEN order[i + k] ELSE Nil
    BY <1>1, <1>8, WalkForward DEF Along
  <2>2. i + m \in 1 .. size /\ Walk(link, order[i])[m] = order[i + m]
    BY <1>1, <1>4, <2>1
  <2>3. ASSUME NEW k \in i + 1 .. (i + m) - 1 PROVE ev \notin Caps[order[k]]
    <3>1. k - i \in 1 .. m - 1 /\ k - i \in 0 .. size /\ i + (k - i) = k /\ k \in 1 .. size
          /\ k <= size
      BY <1>1, <1>4, <2>2
    <3>2. Walk(link, order[i])[k - i] = order[k]
      BY <2>1, <3>1
    <3>3. QED
      BY <1>1, <1>6, <3>1, <3>2
  <2>4. ev \in Caps[order[i + m]]
    BY <1>4, <2>2
  <2>5. i < i + m
    BY <1>1, <1>4
  <2>6. QED
    BY <1>1, <1>5, <1>8, <2>2, <2>3, <2>4, <2>5
<1>9. QED
  BY <1>7, <1>8

\* The part of StackInv that is about one stack.
StackOK(s) ==
  /\ s \in Seq(Frames)
  /\ \A i \in 1 .. Len(s) : InOrder(s[i].node)
  /\ \A i \in 1 .. Len(s) - 1 : s[i].node \in Handlers
  /\ \A i \in 1 .. Len(s) - 1 : s[i + 1].how # "fire" => Nearest(s[i], s[i + 1])

\* Returning from calls cuts the stack, which stays a stack.
LEMMA CutKeeps ==
  ASSUME NEW STATE s, StackOK(s), NEW STATE m, m \in 0 .. Len(s)
  PROVE  /\ StackOK(SubSeq(s, 1, m)) /\ Len(SubSeq(s, 1, m)) = m
         /\ \A i \in 1 .. m : SubSeq(s, 1, m)[i] = s[i]
<1>1. s \in Seq(Frames) /\ Len(s) \in Nat /\ m \in Nat /\ m <= Len(s)
  BY DEF StackOK
<1>2. /\ SubSeq(s, 1, m) \in Seq(Frames) /\ Len(SubSeq(s, 1, m)) = m
      /\ \A i \in 1 .. m : SubSeq(s, 1, m)[i] = s[i]
  BY <1>1
<1>3. \A i \in 1 .. m : i \in 1 .. Len(s)
  BY <1>1
<1>4. \A i \in 1 .. m - 1 : i \in 1 .. m /\ i + 1 \in 1 .. m /\ i \in 1 .. Len(s) - 1
  BY <1>1
<1>5. QED
  BY <1>2, <1>3, <1>4 DEF StackOK

\* Calling a nearest context pushes a frame, and the stack stays a stack.
LEMMA PushKeeps ==
  ASSUME NEW STATE s, StackOK(s), NEW STATE f, f \in Frames, InOrder(f.node),
         s # <<>> => /\ s[Len(s)].node \in Handlers
                     /\ f.how # "fire" => Nearest(s[Len(s)], f)
  PROVE  StackOK(Append(s, f))
<1> DEFINE t == Append(s, f)
           n == Len(s)
<1>1. /\ s \in Seq(Frames) /\ n \in Nat
      /\ t \in Seq(Frames) /\ Len(t) = n + 1 /\ t[n + 1] = f
      /\ \A i \in 1 .. n : t[i] = s[i]
  BY DEF StackOK
<1>2. n > 0 => s # <<>>
  OBVIOUS
<1>3. /\ \A i \in 1 .. n : InOrder(s[i].node)
      /\ \A i \in 1 .. n - 1 : s[i].node \in Handlers
      /\ \A i \in 1 .. n - 1 : s[i + 1].how # "fire" => Nearest(s[i], s[i + 1])
  BY DEF StackOK
<1> HIDE DEF t, n
<1>4. ASSUME NEW i \in 1 .. n + 1 PROVE InOrder(t[i].node)
  BY <1>1, <1>3
<1>5. ASSUME NEW i \in 1 .. n
      PROVE  t[i].node \in Handlers /\ (t[i + 1].how # "fire" => Nearest(t[i], t[i + 1]))
  <2>1. CASE i = n
    BY <1>1, <1>2, <2>1 DEF n
  <2>2. CASE i # n
    <3>1. i \in 1 .. n - 1 /\ i + 1 \in 1 .. n
      BY <1>1, <2>2
    <3>2. QED
      BY <1>1, <1>3, <3>1
  <2>3. QED
    BY <2>1, <2>2
<1>6. QED
  BY <1>1, <1>4, <1>5 DEF StackOK, t

\* The event goes to a node of the list.
LEMMA OnwardInOrder ==
  ASSUME ChainInv, NEW STATE n, InOrder(n), NEW STATE ev, ev \in Events,
         Onward(n, ev) # Nil
  PROVE  InOrder(Onward(n, ev)) /\ Onward(n, ev) \in Nodes
<1>1. PICK i \in 1 .. Len(order) : order[i] = n
  BY DEF InOrder
<1>2. \E j \in 1 .. Len(order) : Onward(order[i], ev) = order[j]
  BY <1>1, OnwardIsNearest
<1>3. QED
  BY <1>1, <1>2 DEF InOrder, ChainInv

\* A handler on top of the stack passes an event on or writes.
LEMMA CallKeeps ==
  ASSUME ChainInv, StackOK(stack), Busy, Top.node \in Handlers,
         NEW STATE ev, ev \in Events, NEW STATE how, how \in {"ctx", "Write"}
  PROVE  StackOK(Called(stack, Onward(Top.node, ev), ev, how))
<1> DEFINE r == Onward(Top.node, ev)
           f == [node |-> r, ev |-> ev, how |-> how]
<1>1. CASE r = Nil
  BY <1>1 DEF Called
<1>2. CASE r # Nil
  <2>1. Len(stack) \in 1 .. Len(stack) /\ InOrder(Top.node)
    BY DEF StackOK, Busy, Top
  <2>2. PICK i \in 1 .. Len(order) : order[i] = Top.node
    BY <2>1 DEF InOrder
  <2>3. PICK j \in 1 .. Len(order) :
          /\ r = order[j]
          /\ ev \in Caps[order[j]]
          /\ IF ev = "write" THEN j < i ELSE i < j
          /\ \A k \in (IF ev = "write" THEN j + 1 .. i - 1 ELSE i + 1 .. j - 1) :
               ev \notin Caps[order[k]]
    BY <1>2, <2>2, OnwardIsNearest
  <2>4. PositionOf(Top.node) = i /\ PositionOf(r) = j
    BY <2>2, <2>3, PositionIs
  <2>5. f \in Frames /\ InOrder(r) /\ f.node = r /\ f.ev = ev
    BY <1>2, <2>1, OnwardInOrder DEF Frames
  <2> HIDE DEF r
  <2>6. Nearest(Top, f)
    BY <2>3, <2>4, <2>5 DEF Nearest
  <2>7. Called(stack, r, ev, how) = Append(stack, f)
    BY <1>2 DEF Called
  <2> HIDE DEF f
  <2>8. QED
    BY <2>5, <2>6, <2>7, PushKeeps DEF Top, r
<1>3. QED
  BY <1>1, <1>2

\* An event fired from the head onto a stack whose top is a handler.
LEMMA FireKeeps ==
  ASSUME ChainInv, NEW STATE s, StackOK(s), NEW STATE ev, ev \in Events,
         s # <<>> => s[Len(s)].node \in Handlers
  PROVE  StackOK(Called(s, Onward(HeadNode, ev), ev, "fire"))
<1> DEFINE r == Onward(HeadNode, ev)
           f == [node |-> r, ev |-> ev, how |-> "fire"]
<1>1. CASE r = Nil
  BY <1>1 DEF Called
<1>2. CASE r # Nil
  <2>1. InOrder(HeadNode)
    BY DEF ChainInv, Chain, InOrder
  <2>2. f \in Frames /\ InOrder(r) /\ f.node = r /\ f.how = "fire"
    BY <1>2, <2>1, OnwardInOrder DEF Frames
  <2>3. Called(s, r, ev, "fire") = Append(s, f)
    BY <1>2 DEF Called
  <2> HIDE DEF f
  <2>4. QED
    BY <2>2, <2>3, PushKeeps
<1>3. QED
  BY <1>1, <1>2

\* No call is under way.
LEMMA EmptyOK == StackOK(<<>>)
BY DEF StackOK

\* The newest call of Context.Write is one of the stack.
LEMMA LastWriteIs ==
  ASSUME StackOK(stack)
  PROVE  LastWrite \in 0 .. Len(stack)
<1> DEFINE W == {0} \cup {i \in 1 .. Len(stack) : stack[i].how = "Write"}
           n == Len(stack)
           D == {k \in 0 .. n : n - k \in W}
<1>1. n \in Nat /\ W \subseteq 0 .. n /\ W \subseteq Int /\ LastWrite = Max(W)
  BY DEF StackOK, LastWrite
<1>2. 0 \in W /\ n \in D /\ D \subseteq Nat
  BY <1>1
<1>3. \A k \in D : n - k \in W /\ k \in 0 .. n
  OBVIOUS
<1>4. \A y \in W : n - y \in D
  BY <1>1
<1> HIDE DEF W, n, D
<1>5. PICK m \in D : \A y \in D : m <= y
  BY <1>2, LeastOfNats
<1>6. n - m \in W /\ \A y \in W : n - m >= y
  <2>1. ASSUME NEW y \in W PROVE n - m >= y
    <3>1. m <= n - y
      BY <1>4, <1>5
    <3>2. QED
      BY <1>1, <1>3, <1>5, <3>1
  <2>2. QED
    BY <1>3, <1>5, <2>1
<1>7. Max(W) = n - m
  BY <1>1, <1>6, MaxIs
<1>8. QED
  BY <1>1, <1>6, <1>7 DEF n

\* Every step of the pipeline keeps the call stack in propagation order.
LEMMA StackStep == ChainInv /\ StackInv /\ [Next]_vars => StackInv'
<1> SUFFICES ASSUME ChainInv, StackInv, [Next]_vars PROVE StackInv'
  OBVIOUS
<1>1. StackOK(stack)
  BY DEF StackInv, StackOK, PropagationOrdered
<1>2. /\ call # NoCall => phase = "build"
      /\ phase = "build" => stack = <<>>
      /\ UnhandledPanicCloses
  BY DEF StackInv
<1>3. ASSUME StackOK(stack'), order' = order, call' # NoCall => phase' = "build",
             phase' = "build" => stack' = <<>>, UnhandledPanicCloses'
      PROVE  StackInv'
  <2>1. \A i \in 1 .. Len(stack') : InOrder(stack[i].node)'
    BY <1>3 DEF StackOK, InOrder
  <2>2. ASSUME NEW f, NEW g, Nearest(f, g) PROVE Nearest(f, g)'
    <3>1. \A n : PositionOf(n)' = PositionOf(n)
      BY <1>3 DEF PositionOf
    <3>2. QED
      BY <1>3, <2>2, <3>1 DEF Nearest
  <2>3. PropagationOrdered'
    <3> SUFFICES ASSUME NEW i \in 1 .. Len(stack') - 1, stack'[i + 1].how # "fire"
                 PROVE  Nearest(stack[i], stack[i + 1])'
      BY DEF PropagationOrdered
    <3>1. Nearest(stack'[i], stack'[i + 1])
      BY <1>3 DEF StackOK
    <3>2. QED
      BY <2>2, <3>1
  <2>4. QED
    BY <1>3, <2>1, <2>3 DEF StackInv, StackOK
<1>4. ASSUME phase = "build", UNCHANGED <<stack, raised, closed>>,
             call' # NoCall => phase' = "build"
      PROVE  StackInv'
  <2>1. stack = <<>> /\ stack' = <<>> /\ Len(stack') = 0
    BY <1>2, <1>4
  <2>2. UnhandledPanicCloses'
    BY <1>2, <1>4 DEF UnhandledPanicCloses
  <2>3. stack' \in Seq(Frames) /\ PropagationOrdered'
    BY <2>1 DEF PropagationOrdered
  <2>4. QED
    BY <1>4, <2>1, <2>2, <2>3 DEF StackInv
<1>5. CASE Build
  <2>1. CASE CallAddFirst \/ CallAddLast \/ CallAddHandler
    <3>1. phase = "build" /\ UNCHANGED eventVars
      BY <2>1 DEF CallAddFirst, CallAddLast, CallAddHandler, Begin
    <3>2. QED
      BY <1>4, <3>1 DEF eventVars
  <2>2. CASE AddPanics
    BY <1>4, <2>2 DEF AddPanics, listVars
  <2>3. CASE AddFirstOne \/ AddLastOne \/ AddBehindOne
    <3>1. call.op # "none" /\ UNCHANGED eventVars
      BY <2>3 DEF AddFirstOne, AddLastOne, AddBehindOne, InsertBehind
    <3>2. phase = "build"
      BY <1>2, <3>1 DEF NoCall
    <3>3. QED
      BY <1>4, <3>1, <3>2 DEF eventVars
  <2>4. CASE AddReturns
    <3>1. phase = "build" /\ UNCHANGED eventVars
      BY <1>2, <2>4 DEF AddReturns
    <3>2. QED
      BY <1>4, <3>1 DEF eventVars
  <2>5. QED
    BY <1>5, <2>1, <2>2, <2>3, <2>4 DEF Build
<1>6. \A ev \in Events : StackOK(Fire(ev))
  BY EmptyOK, FireKeeps DEF Fire
<1>7. CASE BuildDone
  <2>1. /\ StackOK(stack') /\ order' = order /\ phase' = "active" /\ call' = NoCall
        /\ raised' = raised /\ closed' = closed
    BY <1>6, <1>7 DEF BuildDone, listVars, Events
  <2>2. UnhandledPanicCloses'
    <3>1. stack = <<>>
      BY <1>2, <1>7 DEF BuildDone
    <3>2. raised => closed
      BY <1>2, <3>1 DEF UnhandledPanicCloses
    <3>3. QED
      BY <2>1, <3>2 DEF UnhandledPanicCloses
  <2>3. QED
    BY <1>3, <2>1, <2>2
<1>8. CASE WorkerLoop
  <2>1. /\ order' = order /\ call' = call /\ raised' = raised /\ stack = <<>>
        /\ phase # "build" /\ phase' # "build" /\ (closed => closed')
    BY <1>8 DEF WorkerLoop, listVars, Busy
  <2>2. StackOK(stack')
    BY <1>1, <1>6, <1>8 DEF WorkerLoop, Events
  <2>3. UnhandledPanicCloses'
    <3>1. raised => closed
      BY <1>2, <2>1 DEF UnhandledPanicCloses
    <3>2. QED
      BY <2>1, <3>1 DEF UnhandledPanicCloses
  <2>4. QED
    BY <1>2, <1>3, <2>1, <2>2, <2>3
<1>9. Busy => phase # "build" /\ call = NoCall
  BY <1>2 DEF Busy
<1>10. Busy => /\ Len(stack) \in Nat /\ Len(stack) >= 1
               /\ Top \in Frames /\ Top.ev \in Events
  <2> SUFFICES ASSUME Busy
               PROVE  /\ Len(stack) \in Nat /\ Len(stack) >= 1
                      /\ Top \in Frames /\ Top.ev \in Events
    OBVIOUS
  <2>1. stack \in Seq(Frames) /\ stack # <<>>
    BY <1>1 DEF StackOK, Busy
  <2>2. Len(stack) \in Nat /\ Len(stack) >= 1 /\ stack[Len(stack)] \in Frames
    BY <2>1
  <2>3. QED
    BY <2>2 DEF Top, Frames
<1>11. CASE Forward \/ Write
  <2>1. /\ Busy /\ Top.node \in Handlers /\ UNCHANGED <<listVars, phase, closed, raised>>
        /\ \/ stack' = Called(stack, Onward(Top.node, Top.ev), Top.ev, "ctx")
           \/ stack' = Called(stack, Onward(Top.node, "write"), "write", "Write")
    BY <1>11 DEF Forward, Write
  <2>2. StackOK(stack')
    BY <1>1, <1>10, <2>1, CallKeeps DEF Events
  <2>3. UnhandledPanicCloses'
    <3>1. /\ Len(stack') >= Len(stack) /\ Len(stack) \in Nat /\ Len(stack') \in Nat
          /\ \A i \in 1 .. Len(stack) : stack'[i] = stack[i]
      <4>1. stack \in Seq(Frames)
        BY <1>1 DEF StackOK
      <4>2. stack' = stack \/ \E f : stack' = Append(stack, f)
        BY <2>1 DEF Called
      <4>3. QED
        BY <4>1, <4>2
    <3>2. QED
      BY <1>2, <2>1, <3>1 DEF UnhandledPanicCloses
  <2>4. QED
    BY <1>2, <1>3, <1>9, <2>1, <2>2, <2>3 DEF listVars
<1>12. CASE HandlerCloses
  <2>1. /\ Busy /\ UNCHANGED <<listVars, phase, stack, raised>> /\ closed'
    BY <1>12 DEF HandlerCloses
  <2>2. QED
    BY <1>1, <1>2, <1>3, <1>9, <2>1 DEF UnhandledPanicCloses, listVars
<1>13. CASE Return
  <2>1. /\ Busy /\ stack' = SubSeq(stack, 1, Len(stack) - 1)
        /\ closed' = (closed \/ Top.node = TailNode)
        /\ UNCHANGED <<listVars, phase, raised>>
    BY <1>13 DEF Return, TailCloses
  <2>2. Len(stack) - 1 \in 0 .. Len(stack)
    BY <1>10, <2>1
  <2>3. /\ StackOK(stack') /\ Len(stack') = Len(stack) - 1
        /\ \A i \in 1 .. Len(stack) - 1 : stack'[i] = stack[i]
    BY <1>1, <2>1, <2>2, CutKeeps
  <2>4. UnhandledPanicCloses'
    <3> SUFFICES ASSUME raised', ~closed'
                 PROVE  \E i \in 1 .. Len(stack') : stack'[i].node = TailNode
      BY DEF UnhandledPanicCloses
    <3>1. PICK i \in 1 .. Len(stack) : stack[i].node = TailNode
      BY <1>2, <2>1 DEF UnhandledPanicCloses
    <3>2. i # Len(stack)
      BY <2>1, <3>1 DEF Top
    <3>3. i \in 1 .. Len(stack) - 1
      BY <1>10, <2>1, <3>2
    <3>4. QED
      BY <2>3, <3>1, <3>3
  <2>5. QED
    BY <1>2, <1>3, <1>9, <2>1, <2>3, <2>4 DEF listVars
<1>14. CASE Panic
  <2> DEFINE e == Onward(HeadNode, "exception")
  <2>1. Busy /\ Top.node # TailNode /\ UNCHANGED <<listVars, closed>>
    BY <1>14 DEF Panic
  <2>2. raised => closed
    <3> SUFFICES ASSUME raised, ~closed PROVE FALSE
      OBVIOUS
    <3>1. PICK i \in 1 .. Len(stack) : stack[i].node = TailNode
      BY <1>2 DEF UnhandledPanicCloses
    <3>2. i \in 1 .. Len(stack) - 1
      BY <1>10, <2>1, <3>1 DEF Top
    <3>3. TailNode \in Handlers
      BY <1>1, <3>1, <3>2 DEF StackOK
    <3>4. QED
      BY <3>3, NodesAssumption
  <2>3. TailNode # Nil /\ "exception" \in Events
    BY NodesAssumption DEF Nodes, Events
  <2>4. ASSUME NEW STATE s, StackOK(s), s # <<>> => s[Len(s)].node \in Handlers,
               stack' = Called(s, e, "exception", "fire"), raised' = (e = TailNode),
               phase' # "build"
        PROVE  StackInv'
    <3>1. StackOK(stack')
      BY <2>3, <2>4, FireKeeps
    <3>2. UnhandledPanicCloses'
      <4> SUFFICES ASSUME e = TailNode
                   PROVE  \E i \in 1 .. Len(stack') : stack'[i].node = TailNode
        BY <2>4 DEF UnhandledPanicCloses
      <4>1. stack' = Append(s, [node |-> TailNode, ev |-> "exception", how |-> "fire"])
        BY <2>3, <2>4 DEF Called
      <4>2. Len(s) + 1 \in 1 .. Len(stack') /\ stack'[Len(s) + 1].node = TailNode
        BY <2>4, <4>1 DEF StackOK
      <4>3. QED
        BY <4>2
    <3>3. QED
      BY <1>3, <1>9, <2>1, <2>4, <3>1, <3>2 DEF listVars
  <2>5. CASE RecoveredAt > 0
    <3>1. /\ stack' = Called(SubSeq(stack, 1, LastWrite - 1), e, "exception", "fire")
          /\ raised' = (e = TailNode) /\ phase' = phase
      BY <1>1, <1>14, <2>5, LastWriteIs DEF Panic, RecoveredAt
    <3>2. LastWrite - 1 \in 0 .. Len(stack) /\ LastWrite - 1 < Len(stack)
      BY <1>1, <1>10, <2>1, <2>5, LastWriteIs DEF RecoveredAt
    <3>3. /\ StackOK(SubSeq(stack, 1, LastWrite - 1))
          /\ Len(SubSeq(stack, 1, LastWrite - 1)) = LastWrite - 1
          /\ \A i \in 1 .. LastWrite - 1 : SubSeq(stack, 1, LastWrite - 1)[i] = stack[i]
      BY <1>1, <3>2, CutKeeps
    <3>4. ASSUME SubSeq(stack, 1, LastWrite - 1) # <<>>
          PROVE  SubSeq(stack, 1, LastWrite - 1)[LastWrite - 1].node \in Handlers
      <4>1. LastWrite - 1 # 0
        BY <3>3, <3>4 DEF StackOK
      <4>2. LastWrite - 1 \in 1 .. LastWrite - 1 /\ LastWrite - 1 \in 1 .. Len(stack) - 1
        <5>1. LastWrite \in Int /\ Len(stack) \in Nat
          BY <1>1, <1>10, <2>1, LastWriteIs
        <5>2. QED
          BY <3>2, <4>1, <5>1
      <4>3. QED
        BY <1>1, <3>3, <4>2 DEF StackOK
    <3>5. QED
      BY <1>9, <2>1, <2>4, <3>1, <3>3, <3>4
  <2>6. CASE RecoveredAt = 0 /\ phase \in {"active", "read"}
    <3>1. /\ stack' = Called(<<>>, e, "exception", "fire")
          /\ raised' = (e = TailNode) /\ phase' = "exception"
      BY <1>14, <2>6 DEF Panic, Fire
    <3>2. QED
      BY <2>4, <3>1, EmptyOK
  <2>7. CASE RecoveredAt = 0 /\ phase \notin {"active", "read"}
    <3>1. stack' = <<>> /\ phase' = "crashed" /\ raised' = raised
      BY <1>14, <2>7 DEF Panic
    <3>2. UnhandledPanicCloses'
      BY <2>1, <2>2, <3>1 DEF UnhandledPanicCloses
    <3>3. QED
      BY <1>3, <1>9, <2>1, <3>1, <3>2, EmptyOK DEF listVars
  <2>8. RecoveredAt > 0 \/ RecoveredAt = 0
    BY <1>1, LastWriteIs DEF RecoveredAt, StackOK
  <2>9. QED
    BY <2>5, <2>6, <2>7, <2>8
<1>15. CASE UNCHANGED vars
  BY <1>1, <1>2, <1>3, <1>15 DEF vars, listVars, eventVars, UnhandledPanicCloses
<1>16. QED
  BY <1>5, <1>7, <1>8, <1>11, <1>12, <1>13, <1>14, <1>15 DEF Next

\* The call stack starts empty.
LEMMA StackInit == Init => StackInv
BY DEF Init, StackInv, PropagationOrdered, UnhandledPanicCloses, NoCall

\* Every event a handler passes on, and every message it writes, reaches the
\* nearest handler for it (the scans of node_context.go), in any pipeline an
\* initializer can build and at any depth of nested calls.
THEOREM PropagationCorrect == Spec => []PropagationOrdered
<1>1. StackInv => PropagationOrdered
  BY DEF StackInv
<1>2. QED
  BY <1>1, ChainInit, ChainStep, StackInit, StackStep, PTL DEF Spec

\* A panic that found no handler but the tail ends with the connection closed
\* (TailHeader.HandleException), also when Context.Write recovered from it.
THEOREM PanicCloses == Spec => []UnhandledPanicCloses
<1>1. StackInv => UnhandledPanicCloses
  BY DEF StackInv
<1>2. QED
  BY <1>1, ChainInit, ChainStep, StackInit, StackStep, PTL DEF Spec

\* Two stacks that agree up to m have the same calls below it.
LEMMA SamePrefix ==
  ASSUME NEW STATE s, s \in Seq(Frames), NEW STATE m, m \in 0 .. Len(s), NEW STATE t,
         t \in Seq(Frames), m <= Len(t), \A i \in 1 .. m : t[i] = s[i]
  PROVE  SubSeq(t, 1, m) = SubSeq(s, 1, m)
<1>1. Len(s) \in Nat /\ Len(t) \in Nat /\ m \in Nat
  OBVIOUS
<1>2. /\ SubSeq(s, 1, m) \in Seq(Frames) /\ Len(SubSeq(s, 1, m)) = m
      /\ \A i \in 1 .. m : SubSeq(s, 1, m)[i] = s[i]
  BY <1>1
<1>3. /\ SubSeq(t, 1, m) \in Seq(Frames) /\ Len(SubSeq(t, 1, m)) = m
      /\ \A i \in 1 .. m : SubSeq(t, 1, m)[i] = t[i]
  BY <1>1
<1>4. QED
  BY <1>2, <1>3, SeqEqual

\* No step, a failing write included, touches the calls below the newest
\* Context.Write (the recover in NodeContext.Write), however deep they nest.
THEOREM WriterUndisturbed == Spec => WriterGoesOn
<1> DEFINE m == LastWrite - 1
           A == LastWrite > 1 => SubSeq(stack', 1, m) = SubSeq(stack, 1, m)
<1>1. StackInv /\ StackInv' /\ [Next]_vars => [A]_vars
  <2> SUFFICES ASSUME StackInv, StackInv', Next, LastWrite > 1
               PROVE  SubSeq(stack', 1, m) = SubSeq(stack, 1, m)
    OBVIOUS
  <2>1. StackOK(stack) /\ stack \in Seq(Frames) /\ stack' \in Seq(Frames)
    BY DEF StackInv, StackOK, PropagationOrdered
  <2>2. LastWrite \in 0 .. Len(stack) /\ Len(stack) \in Nat
    BY <2>1, LastWriteIs
  <2>3. m \in 0 .. Len(stack) /\ m \in 0 .. Len(stack) - 1 /\ Len(stack) >= 1
    BY <2>2
  <2>4. stack # <<>> /\ Busy /\ phase # "build"
    BY <2>3 DEF StackInv, Busy
  <2> HIDE DEF m
  <2>5. ASSUME m <= Len(stack'), \A i \in 1 .. m : stack'[i] = stack[i]
        PROVE  SubSeq(stack', 1, m) = SubSeq(stack, 1, m)
    BY <2>1, <2>3, <2>5, SamePrefix
  <2>6. CASE UNCHANGED stack
    BY <2>6
  <2>7. CASE Build
    <3>1. UNCHANGED stack
      BY <2>7 DEF Build, CallAddFirst, CallAddLast, CallAddHandler, Begin, AddPanics,
         AddFirstOne, AddLastOne, AddBehindOne, InsertBehind, AddReturns, eventVars
    <3>2. QED
      BY <2>6, <3>1
  <2>8. CASE BuildDone \/ WorkerLoop
    BY <2>4, <2>8 DEF BuildDone, WorkerLoop
  <2>9. CASE Forward \/ Write
    <3>1. stack' = stack \/ \E f : stack' = Append(stack, f)
      BY <2>9 DEF Forward, Write, Called
    <3>2. /\ Len(stack') >= Len(stack)
          /\ \A i \in 1 .. Len(stack) : stack'[i] = stack[i]
      BY <2>1, <3>1
    <3>3. Len(stack') \in Nat
      BY <2>1
    <3>4. m <= Len(stack') /\ \A i \in 1 .. m : i \in 1 .. Len(stack)
      BY <2>2, <2>3, <3>2, <3>3
    <3>5. QED
      BY <2>5, <3>2, <3>4
  <2>10. CASE HandlerCloses
    BY <2>6, <2>10 DEF HandlerCloses
  <2>11. CASE Return
    <3>1. /\ stack' = SubSeq(stack, 1, Len(stack) - 1)
          /\ Len(stack) - 1 \in 0 .. Len(stack)
      BY <2>2, <2>3, <2>11 DEF Return
    <3>2. /\ Len(stack') = Len(stack) - 1
          /\ \A i \in 1 .. Len(stack) - 1 : stack'[i] = stack[i]
      BY <2>1, <3>1, CutKeeps
    <3>3. m <= Len(stack') /\ \A i \in 1 .. m : i \in 1 .. Len(stack) - 1
      BY <2>2, <2>3, <3>2
    <3>4. QED
      BY <2>5, <3>2, <3>3
  <2>12. CASE Panic
    <3>1. stack' = Called(SubSeq(stack, 1, m), Onward(HeadNode, "exception"), "exception", "fire")
      BY <2>2, <2>12 DEF Panic, RecoveredAt, m
    <3>2. /\ Len(SubSeq(stack, 1, m)) = m /\ SubSeq(stack, 1, m) \in Seq(Frames)
          /\ \A i \in 1 .. m : SubSeq(stack, 1, m)[i] = stack[i]
      BY <2>1, <2>3, CutKeeps DEF StackOK
    <3>3. \/ stack' = SubSeq(stack, 1, m)
          \/ \E f : stack' = Append(SubSeq(stack, 1, m), f)
      BY <3>1 DEF Called
    <3>4. m <= Len(stack') /\ \A i \in 1 .. m : stack'[i] = stack[i]
      BY <2>3, <3>2, <3>3
    <3>5. QED
      BY <2>5, <3>4
  <2>13. QED
    BY <2>7, <2>8, <2>9, <2>10, <2>11, <2>12 DEF Next
<1>2. Spec => [](ChainInv /\ StackInv)
  BY ChainInit, ChainStep, StackInit, StackStep, PTL DEF Spec
<1>3. QED
  BY <1>1, <1>2, PTL DEF Spec, WriterGoesOn

-----------------------------------------------------------------------------
(* The linked list implements HandlerList, for any handlers and any calls  *)
(* of the initializer.                                                     *)

\* No call has begun in a new pipeline.
LEMMA CallInit == Init => CallInv
  BY DEF Init, CallInv

\* A step that leaves the list and the call alone keeps what the call has added.
LEMMA CallSame ==
  ASSUME CallInv, UNCHANGED <<order, before, call>>
  PROVE  CallInv'
  BY DEF CallInv, Cut, Done

\* A call that begins has added nothing.
LEMMA CallBegins ==
  ASSUME ChainInv, NEW op \in {"first", "last", "behind"}, NEW position \in Nat,
         NEW STATE n, NEW hs \in Calls, Begin(op, position, n, hs),
         op = "behind" => position + 1 \in 1 .. Len(order) - 1 /\ n = order[position + 1]
  PROVE  CallInv'
<1>1. /\ call' = [op |-> op, position |-> position, hs |-> hs, at |-> n, left |-> hs]
      /\ before' = order /\ order' = order
  BY DEF Begin
<1>2. /\ call'.op = op /\ call'.position = position /\ call'.hs = hs
      /\ call'.left = hs /\ call'.at = n
  BY <1>1
<1>3. hs \in Seq(Handlers) /\ Len(hs) \in Nat
  BY CallsAssumption
<1>4. Done' = 0
  BY <1>2, <1>3 DEF Done
<1>5. order \in Seq(Nodes) /\ Len(order) \in Nat /\ Len(order) >= 2
  BY DEF ChainInv
<1>6. /\ Cut' \in 1 .. Len(order) - 1
      /\ op = "behind" => Cut' = position + 1
  BY <1>1, <1>2, <1>5 DEF Cut
<1>7. \A i \in 1 .. Len(order) : order'[i] = before'[i] /\ 0 + i = i
  BY <1>1, <1>5
<1>8. \A i \in 1 .. Len(hs) : call'.left[i] = call'.hs[0 + i]
  BY <1>2, <1>3
<1> HIDE DEF Cut, Done
<1>9. QED
  BY <1>1, <1>2, <1>3, <1>4, <1>5, <1>6, <1>7, <1>8 DEF CallInv

\* A call with a handler left has not added all of them.
LEMMA OneMore ==
  ASSUME NEW x \in Nat, NEW y \in Nat, y >= 1, x - y \in 0 .. x
  PROVE  (x - y) + 1 \in 0 .. x
<1>1. x - y >= 0
  OBVIOUS
<1>2. QED
  BY <1>1

\* AddFirst adds behind the head.
LEMMA CutFirst ==
  call.op = "first" => Cut = 1
  BY DEF Cut

\* One more handler, behind the head for AddFirst and behind the handlers that
\* were added before it for the two others.
LEMMA CallInserts ==
  ASSUME ChainInv, CallInv, call # NoCall, call.left # <<>>,
         NEW i \in 1 .. Len(order) - 1, NEW STATE at, InsertBehind(order[i], at),
         i = IF call.op = "first" THEN 1 ELSE Cut + Done,
         call.op = "behind" => at = call.left[1]
  PROVE  CallInv' /\ call' # NoCall
<1> DEFINE h == call.left[1]
<1>1. /\ order \in Seq(Nodes) /\ Len(order) \in Nat /\ i \in Nat /\ i >= 1
      /\ call.left \in Seq(Handlers) /\ call.hs \in Seq(Handlers)
      /\ Len(call.left) \in Nat /\ Len(call.left) >= 1 /\ Len(call.hs) \in Nat
      /\ call.op \in {"none", "first", "last", "behind"}
  BY DEF ChainInv
<1>2. /\ call.op # "none" /\ before \in Seq(Nodes)
      /\ Cut \in 1 .. Len(before) - 1
      /\ Done \in 0 .. Len(call.hs)
      /\ \A k \in 1 .. Len(call.left) : call.left[k] = call.hs[Done + k]
      /\ Len(order) = Len(before) + Done
      /\ \A k \in 1 .. Cut : order[k] = before[k]
      /\ \A k \in 1 .. Done :
           order[Cut + k] = call.hs[IF call.op = "first" THEN Done + 1 - k ELSE k]
      /\ \A k \in Cut + 1 .. Len(before) : order[Done + k] = before[k]
  BY DEF CallInv
<1>3. PositionOf(order[i]) = i
  BY <1>1, PositionIs
<1>4. /\ order' = [k \in 1 .. Len(order) + 1 |->
                    IF k <= i THEN order[k] ELSE IF k = i + 1 THEN h ELSE order[k - 1]]
      /\ call' = [call EXCEPT !.at = at, !.left = SubSeq(@, 2, Len(@))]
      /\ before' = before
  BY <1>3 DEF InsertBehind, Inserted
<1>5. /\ call'.op = call.op /\ call'.position = call.position /\ call'.hs = call.hs
      /\ call'.at = at /\ call'.left = SubSeq(call.left, 2, Len(call.left))
  BY <1>4 DEF ChainInv
<1>6. /\ Len(call'.left) = Len(call.left) - 1
      /\ \A k \in 1 .. Len(call.left) - 1 : call'.left[k] = call.left[k + 1]
  <2>1. \A k \in 2 .. Len(call.left) : call.left[k] \in Handlers
    BY <1>1
  <2>2. /\ Len(call'.left) = IF 2 <= Len(call.left) THEN Len(call.left) - 2 + 1 ELSE 0
        /\ \A k \in 1 .. Len(call.left) - 2 + 1 : call'.left[k] = call.left[2 + k - 1]
    BY <1>1, <1>5, <2>1, SubSeqProperties
  <2>3. QED
    BY <1>1, <2>2
<1>7. Done' = Done + 1 /\ Cut' = Cut
  <2>1. Done = Len(call.hs) - Len(call.left) /\ Done' = Len(call.hs) - (Len(call.left) - 1)
    BY <1>5, <1>6 DEF Done
  <2>2. Cut' = Cut
    BY <1>4, <1>5 DEF Cut
  <2>3. ASSUME NEW x \in Nat, NEW y \in Nat PROVE x - (y - 1) = (x - y) + 1
    OBVIOUS
  <2>4. QED
    BY <1>1, <2>1, <2>2, <2>3
<1>8. /\ Len(order') = Len(order) + 1
      /\ \A k \in 1 .. i : order'[k] = order[k]
      /\ order'[i + 1] = h
      /\ \A k \in i + 2 .. Len(order) + 1 : order'[k] = order[k - 1]
  <2>1. Len(order') = Len(order) + 1
    BY InsertKeepsChain
  <2>2. QED
    BY <1>1, <1>4, <2>1
<1>9. Done + 1 \in 0 .. Len(call.hs) /\ h = call.hs[Done + 1]
  <2>1. Done = Len(call.hs) - Len(call.left)
    BY DEF Done
  <2>3. Done + 1 \in 0 .. Len(call.hs)
    BY <1>1, <1>2, <2>1, OneMore
  <2>4. 1 \in 1 .. Len(call.left)
    BY <1>1
  <2>5. QED
    BY <1>2, <2>3, <2>4
<1>10. \A k \in 1 .. Len(call'.left) : call'.left[k] = call'.hs[Done' + k]
  <2> SUFFICES ASSUME NEW k \in 1 .. Len(call'.left)
               PROVE  call'.left[k] = call'.hs[Done' + k]
    OBVIOUS
  <2>1. k + 1 \in 1 .. Len(call.left) /\ k \in 1 .. Len(call.left) - 1
    BY <1>1, <1>6
  <2>2. call'.left[k] = call.hs[Done + (k + 1)]
    BY <1>2, <1>6, <2>1
  <2>3. ASSUME NEW d \in Nat PROVE d + (k + 1) = (d + 1) + k
    BY <2>1
  <2>4. Done \in Nat
    BY <1>1, <1>2
  <2>5. QED
    BY <1>5, <1>7, <2>2, <2>3, <2>4
<1>11. Len(before) \in Nat /\ Cut \in Nat /\ Done \in Nat /\ Cut >= 1
  <2>1. Len(before) \in Nat
    BY <1>2
  <2>2. QED
    BY <1>1, <1>2, <2>1
<1> HIDE DEF h, Cut, Done
<1>12. \A k \in 1 .. Cut : order'[k] = before[k]
  <2>1. Cut <= i
    BY <1>11, CutFirst
  <2>2. \A k \in 1 .. Cut : k \in 1 .. i
    BY <1>1, <1>11, <2>1
  <2>3. QED
    BY <1>2, <1>8, <2>2
<1>13. \A k \in Cut + 1 .. Len(before) : order'[Done + 1 + k] = before[k]
  <2> SUFFICES ASSUME NEW k \in Cut + 1 .. Len(before)
               PROVE  order'[Done + 1 + k] = before[k]
    OBVIOUS
  <2>1. Done + 1 + k \in i + 2 .. Len(order) + 1 /\ (Done + 1 + k) - 1 = Done + k
    BY <1>1, <1>2, <1>11, CutFirst
  <2>2. QED
    BY <1>2, <1>8, <2>1
<1>14. \A k \in 1 .. Done + 1 :
         order'[Cut + k] = call.hs[IF call.op = "first" THEN (Done + 1) + 1 - k ELSE k]
  <2> SUFFICES ASSUME NEW k \in 1 .. Done + 1
               PROVE  order'[Cut + k] =
                        call.hs[IF call.op = "first" THEN (Done + 1) + 1 - k ELSE k]
    OBVIOUS
  <2>1. CASE call.op = "first"
    <3>1. i = 1 /\ Cut = 1
      BY <2>1, CutFirst
    <3>2. CASE k = 1
      BY <1>8, <1>9, <1>11, <2>1, <3>1, <3>2
    <3>3. CASE k # 1
      <4>1. Cut + k \in i + 2 .. Len(order) + 1 /\ k - 1 \in 1 .. Done
        BY <1>2, <1>11, <3>1, <3>3
      <4>2. order'[Cut + k] = order[Cut + (k - 1)]
        BY <1>8, <1>11, <4>1
      <4>3. order[Cut + (k - 1)] = call.hs[Done + 1 - (k - 1)]
        BY <1>2, <2>1, <4>1
      <4>4. Done + 1 - (k - 1) = (Done + 1) + 1 - k
        BY <1>11
      <4>5. QED
        BY <2>1, <4>2, <4>3, <4>4
    <3>4. QED
      BY <3>2, <3>3
  <2>2. CASE call.op # "first"
    <3>1. i = Cut + Done
      BY <2>2
    <3>2. CASE k = Done + 1
      <4>1. Cut + k = i + 1
        BY <1>11, <3>1, <3>2
      <4>2. QED
        BY <1>8, <1>9, <2>2, <3>2, <4>1
    <3>3. CASE k # Done + 1
      <4>1. k \in 1 .. Done /\ Cut + k \in 1 .. i
        BY <1>11, <3>1, <3>3
      <4>2. QED
        BY <1>2, <1>8, <2>2, <4>1
    <3>4. QED
      BY <3>2, <3>3
  <2>3. QED
    BY <2>1, <2>2
<1>15. call'.op = "behind" => call'.at = order'[Cut + (Done + 1)]
  <2>1. call.op = "behind" => i = Cut + Done /\ Cut + (Done + 1) = i + 1
    BY <1>11
  <2>2. QED
    BY <1>5, <1>8, <2>1 DEF h
<1>16. CallInv'
  <2>1. /\ call'.op # "none" /\ before' \in Seq(Nodes)
        /\ Cut' \in 1 .. Len(before') - 1
        /\ Done' \in 0 .. Len(call'.hs)
    BY <1>2, <1>4, <1>5, <1>7, <1>9
  <2>2. Len(order') = Len(before') + Done'
    BY <1>2, <1>4, <1>7, <1>8, <1>11
  <2>3. \A k \in 1 .. Cut' : order'[k] = before'[k]
    BY <1>4, <1>7, <1>12
  <2>4. \A k \in 1 .. Done' :
          order'[Cut' + k] = call'.hs[IF call'.op = "first" THEN Done' + 1 - k ELSE k]
    BY <1>5, <1>7, <1>14
  <2>5. \A k \in Cut' + 1 .. Len(before') : order'[Done' + k] = before'[k]
    BY <1>4, <1>7, <1>13
  <2>6. call'.op = "behind" => call'.at = order'[Cut' + Done']
    BY <1>7, <1>15
  <2>7. QED
    BY <1>10, <2>1, <2>2, <2>3, <2>4, <2>5, <2>6 DEF CallInv
<1>17. call' # NoCall
  BY <1>2, <1>5 DEF NoCall
<1>18. QED
  BY <1>16, <1>17

\* A step that adds one handler is under way in a call and stays there.
LEMMA AddKeeps ==
  ASSUME ChainInv, CallInv, AddFirstOne \/ AddLastOne \/ AddBehindOne
  PROVE  CallInv' /\ call # NoCall /\ call' # NoCall
<1>1. /\ size = Len(order) /\ Len(order) \in Nat /\ Len(order) >= 2
      /\ order[1] = HeadNode /\ order[Len(order)] = TailNode
  BY DEF ChainInv, Chain
<1>2. call # NoCall /\ call.left # <<>>
  BY DEF AddFirstOne, AddLastOne, AddBehindOne, NoCall
<1>3. /\ before \in Seq(Nodes) /\ Len(before) \in Nat
      /\ Cut \in 1 .. Len(before) - 1 /\ Done \in 0 .. Len(call.hs)
      /\ Len(call.hs) \in Nat /\ Done \in Nat
      /\ Len(order) = Len(before) + Done
  BY <1>2 DEF CallInv, ChainInv
<1>4. Cut + Done \in 1 .. Len(order) - 1
  BY <1>3
<1>5. CASE AddFirstOne
  <2>1. call.op = "first" /\ InsertBehind(order[1], HeadNode)
    BY <1>1, <1>5 DEF AddFirstOne
  <2>2. 1 \in 1 .. Len(order) - 1
    BY <1>1
  <2>3. QED
    BY <1>2, <2>1, <2>2, CallInserts
<1>6. CASE AddLastOne
  <2>1. call.op = "last" /\ InsertBehind(prev[TailNode], TailNode)
    BY <1>6 DEF AddLastOne
  <2>2. Len(order) - 1 \in 1 .. Len(order) - 1 /\ (Len(order) - 1) + 1 = Len(order)
    BY <1>1
  <2>3. prev[TailNode] = order[Len(order) - 1]
    BY <1>1, <2>2 DEF ChainInv, Chain
  <2>4. Cut = Len(before) - 1
    BY <2>1 DEF Cut
  <2>5. Len(order) - 1 = Cut + Done
    BY <1>3, <2>4
  <2>6. InsertBehind(order[Cut + Done], TailNode)
    BY <2>1, <2>3, <2>5
  <2>7. QED
    BY <1>2, <1>4, <2>1, <2>6, CallInserts
<1>7. CASE AddBehindOne
  <2>1. call.op = "behind" /\ InsertBehind(call.at, call.left[1])
    BY <1>7 DEF AddBehindOne, AtNewNode
  <2>2. call.at = order[Cut + Done]
    BY <1>2, <2>1 DEF CallInv
  <2>3. InsertBehind(order[Cut + Done], call.left[1])
    BY <2>1, <2>2
  <2>4. QED
    BY <1>2, <1>4, <2>1, <2>3, CallInserts
<1>8. QED
  BY <1>2, <1>5, <1>6, <1>7

\* What AddHandler's position denotes.
LEMMA PositionDenotes ==
  ASSUME ChainInv, NEW position \in 1 .. size - 2
  PROVE  /\ position \in Nat /\ position + 1 \in 1 .. Len(order) - 1
         /\ ContextAt(position) = order[position + 1]
<1>1. size = Len(order) /\ Len(order) \in Nat /\ Len(order) >= 2
  BY DEF ChainInv, Chain
<1>2. position \in 0 .. size /\ position < size /\ ~(position < 0 \/ position >= size)
  BY <1>1
<1>3. ContextAt(position) = order[position + 1]
  BY <1>2, WalkEnds DEF ContextAt
<1>4. QED
  BY <1>1, <1>3

\* CallInv is inductive, beside ChainInv.
LEMMA CallStep == ChainInv /\ CallInv /\ [Next]_vars => CallInv'
<1> SUFFICES ASSUME ChainInv, CallInv, [Next]_vars PROVE CallInv'
  OBVIOUS
<1>1. ASSUME UNCHANGED listVars PROVE CallInv'
  BY <1>1, CallSame DEF listVars
<1>2. ASSUME NEW hs \in Calls, Begin("first", 0, HeadNode, hs) PROVE CallInv'
  BY <1>2, CallBegins
<1>3. ASSUME NEW hs \in Calls, Begin("last", 0, TailNode, hs) PROVE CallInv'
  BY <1>3, CallBegins
<1>4. ASSUME NEW hs \in Calls, NEW position \in 1 .. size - 2,
             Begin("behind", position, ContextAt(position), hs)
      PROVE  CallInv'
  BY <1>4, PositionDenotes, CallBegins
<1>5. CASE AddReturns
  BY <1>5 DEF AddReturns, CallInv
<1>6. CASE Build
  <2>1. CASE CallAddFirst
    BY <1>2, <2>1 DEF CallAddFirst
  <2>2. CASE CallAddLast
    BY <1>3, <2>2 DEF CallAddLast
  <2>3. CASE CallAddHandler
    BY <1>2, <1>3, <1>4, <2>3 DEF CallAddHandler
  <2>4. CASE AddPanics
    BY <1>1, <2>4 DEF AddPanics
  <2>5. QED
    BY <1>5, <1>6, <2>1, <2>2, <2>3, <2>4, AddKeeps DEF Build
<1>7. QED
  BY <1>1, <1>6 DEF Next, BuildDone, WorkerLoop, Forward, Write, HandlerCloses, Return,
     Panic, vars

-----------------------------------------------------------------------------
(* The refinement                                                          *)

\* The handlers of a list of nodes.
LEMMA ListOfIs ==
  ASSUME NEW s \in Seq(Nodes), Len(s) >= 2
  PROVE  /\ ListOf(s) \in Seq(Nodes) /\ Len(ListOf(s)) = Len(s) - 2
         /\ \A i \in 1 .. Len(s) - 2 : ListOf(s)[i] = s[i + 1]
<1>1. Len(s) \in Nat
  OBVIOUS
<1>2. \A i \in 2 .. Len(s) - 1 : s[i] \in Nodes
  BY <1>1
<1>3. /\ ListOf(s) \in Seq(Nodes)
      /\ Len(ListOf(s)) = IF 2 <= Len(s) - 1 THEN (Len(s) - 1) - 2 + 1 ELSE 0
      /\ \A i \in 1 .. (Len(s) - 1) - 2 + 1 : ListOf(s)[i] = s[2 + i - 1]
  BY <1>1, <1>2, SubSeqProperties DEF ListOf
<1>4. Len(ListOf(s)) = Len(s) - 2
  <2>1. CASE Len(s) = 2
    BY <1>3, <2>1
  <2>2. CASE Len(s) # 2
    <3>1. 2 <= Len(s) - 1
      <4>1. ASSUME NEW n \in Nat, n >= 2, n # 2 PROVE 2 <= n - 1
        BY <4>1
      <4>2. QED
        BY <1>1, <2>2, <4>1
    <3>2. QED
      BY <1>1, <1>3, <3>1
  <2>3. QED
    BY <2>1, <2>2
<1>5. ASSUME NEW i \in 1 .. Len(s) - 2 PROVE ListOf(s)[i] = s[i + 1]
  <2>1. i \in 1 .. (Len(s) - 1) - 2 + 1 /\ 2 + i - 1 = i + 1
    BY <1>1
  <2>2. QED
    BY <1>3, <2>1
<1>6. QED
  BY <1>3, <1>4, <1>5

\* A function on an initial interval is a sequence.
LEMMA FunctionIsSeq ==
  ASSUME NEW S, NEW n \in Nat, NEW f \in [1 .. n -> S]
  PROVE  f \in Seq(S) /\ Len(f) = n
  OBVIOUS

\* A sequence that is one sequence, another and a third, element by element.
LEMMA ThreeParts ==
  ASSUME NEW S, NEW a \in Seq(S), NEW b \in Seq(S), NEW c \in Seq(S), NEW t \in Seq(S),
         Len(t) = Len(a) + Len(b) + Len(c),
         \A i \in 1 .. Len(a) : t[i] = a[i],
         \A i \in 1 .. Len(b) : t[Len(a) + i] = b[i],
         \A i \in 1 .. Len(c) : t[Len(a) + Len(b) + i] = c[i]
  PROVE  t = (a \o b) \o c
<1>0. Len(a) \in Nat /\ Len(b) \in Nat /\ Len(c) \in Nat
  OBVIOUS
<1>1. /\ a \o b \in Seq(S) /\ Len(a \o b) = Len(a) + Len(b)
      /\ \A i \in 1 .. Len(a) + Len(b) : (a \o b)[i] = IF i <= Len(a) THEN a[i] ELSE b[i - Len(a)]
  BY ConcatProperties
<1> DEFINE u == a \o b
<1> HIDE DEF u
<1>2. /\ u \o c \in Seq(S) /\ Len(u \o c) = Len(u) + Len(c)
      /\ \A i \in 1 .. Len(u) + Len(c) : (u \o c)[i] = IF i <= Len(u) THEN u[i] ELSE c[i - Len(u)]
  BY <1>1, ConcatProperties DEF u
<1>3. ASSUME NEW i \in 1 .. Len(t) PROVE t[i] = (u \o c)[i]
  <2>1. CASE i <= Len(a)
    BY <1>0, <1>1, <1>2, <2>1 DEF u
  <2>2. CASE i > Len(a) /\ i <= Len(a) + Len(b)
    <3>1. i - Len(a) \in 1 .. Len(b) /\ Len(a) + (i - Len(a)) = i
      BY <1>0, <2>2
    <3>2. t[i] = b[i - Len(a)]
      BY <3>1
    <3>3. QED
      BY <1>0, <1>1, <1>2, <2>2, <3>2 DEF u
  <2>3. CASE i > Len(a) + Len(b)
    <3>1. /\ i - (Len(a) + Len(b)) \in 1 .. Len(c)
          /\ Len(a) + Len(b) + (i - (Len(a) + Len(b))) = i
      BY <1>0, <2>3
    <3>2. t[i] = c[i - (Len(a) + Len(b))]
      BY <3>1
    <3>3. QED
      BY <1>0, <1>1, <1>2, <2>3, <3>2 DEF u
  <2>4. i <= Len(a) \/ (i > Len(a) /\ i <= Len(a) + Len(b)) \/ i > Len(a) + Len(b)
    BY <1>0
  <2>5. QED
    BY <2>1, <2>2, <2>3, <2>4
<1>4. t = u \o c
  BY <1>0, <1>1, <1>2, <1>3, SeqEqual DEF u
<1>5. QED
  BY <1>4 DEF u

\* What the list holds when a call returns: the old handlers up to the cut, the
\* new ones, the old ones from the cut on.
LEMMA ReturnedList ==
  ASSUME ChainInv, CallInv, call # NoCall, call.left = <<>>
  PROVE  LET new == ListOf(order)
             old == ListOf(before)
             n   == Len(call.hs)
         IN  /\ new \in Seq(Nodes) /\ old \in Seq(Nodes) /\ Len(old) \in Nat
             /\ call.hs \in Seq(Nodes) /\ n \in Nat
             /\ Len(new) = Len(old) + n
             /\ Len(old) = Len(before) - 2 /\ Len(before) \in Nat
             /\ Cut - 1 \in 0 .. Len(old)
             /\ \A i \in 1 .. Cut - 1 : new[i] = old[i]
             /\ \A i \in 1 .. n :
                  new[Cut - 1 + i] = call.hs[IF call.op = "first" THEN n + 1 - i ELSE i]
             /\ \A i \in Cut .. Len(old) : new[n + i] = old[i]
<1> DEFINE new == ListOf(order)
           old == ListOf(before)
           n == Len(call.hs)
<1>1. /\ order \in Seq(Nodes) /\ Len(order) \in Nat /\ Len(order) >= 2
      /\ call.hs \in Seq(Handlers) /\ n \in Nat
  BY DEF ChainInv
<1>2. call.hs \in Seq(Nodes)
  <2>1. Handlers \subseteq Nodes
    BY DEF Nodes
  <2>2. QED
    BY <1>1, <2>1, SeqMonotonic
<1>3. Done = n
  <2>1. Len(call.left) = 0
    OBVIOUS
  <2>2. QED
    BY <1>1, <2>1 DEF Done
<1>4. /\ before \in Seq(Nodes) /\ Cut \in 1 .. Len(before) - 1
      /\ Len(order) = Len(before) + n
      /\ \A i \in 1 .. Cut : order[i] = before[i]
      /\ \A i \in 1 .. n :
           order[Cut + i] = call.hs[IF call.op = "first" THEN n + 1 - i ELSE i]
      /\ \A i \in Cut + 1 .. Len(before) : order[n + i] = before[i]
  BY <1>3 DEF CallInv
<1>5. Len(before) \in Nat /\ Cut \in Nat /\ Cut >= 1 /\ Len(before) >= 2
  <2>1. Len(before) \in Nat
    BY <1>4
  <2>2. QED
    BY <1>4, <2>1
<1>6. /\ new \in Seq(Nodes) /\ Len(new) = Len(order) - 2
      /\ \A i \in 1 .. Len(order) - 2 : new[i] = order[i + 1]
  BY <1>1, ListOfIs
<1>7. /\ old \in Seq(Nodes) /\ Len(old) = Len(before) - 2
      /\ \A i \in 1 .. Len(before) - 2 : old[i] = before[i + 1]
  BY <1>4, <1>5, ListOfIs
<1> HIDE DEF new, old, n, Cut
<1>8. Len(new) = Len(old) + n /\ Len(old) \in Nat /\ Cut - 1 \in 0 .. Len(old)
  BY <1>1, <1>4, <1>5, <1>6, <1>7
<1>9. ASSUME NEW i \in 1 .. Cut - 1 PROVE new[i] = old[i]
  <2>1. i \in 1 .. Len(order) - 2 /\ i \in 1 .. Len(before) - 2 /\ i + 1 \in 1 .. Cut
    BY <1>1, <1>4, <1>5
  <2>2. QED
    BY <1>4, <1>6, <1>7, <2>1
<1>10. ASSUME NEW i \in 1 .. n
       PROVE  new[Cut - 1 + i] = call.hs[IF call.op = "first" THEN n + 1 - i ELSE i]
  <2>1. Cut - 1 + i \in 1 .. Len(order) - 2 /\ (Cut - 1 + i) + 1 = Cut + i
    BY <1>1, <1>4, <1>5
  <2>2. QED
    BY <1>4, <1>6, <2>1
<1>11. ASSUME NEW i \in Cut .. Len(old) PROVE new[n + i] = old[i]
  <2>1. /\ n + i \in 1 .. Len(order) - 2 /\ (n + i) + 1 = n + (i + 1)
        /\ i \in 1 .. Len(before) - 2 /\ i + 1 \in Cut + 1 .. Len(before)
    BY <1>1, <1>4, <1>5, <1>7
  <2>2. QED
    BY <1>4, <1>6, <1>7, <2>1
<1>12. QED
  BY <1>1, <1>2, <1>5, <1>6, <1>7, <1>8, <1>9, <1>10, <1>11 DEF new, old, n

\* AddFirst, AddLast and AddHandler leave the list of their contracts.
LEMMA ReturnRefines ==
  ASSUME ChainInv, CallInv, AddReturns
  PROVE  List!Next
<1> DEFINE new == ListOf(order)
           old == ListOf(before)
           hs == call.hs
           n == Len(hs)
<1>1. /\ call # NoCall /\ call.left = <<>> /\ call' = NoCall
      /\ order' = order /\ before' = before
  BY DEF AddReturns
<1>2. /\ new \in Seq(Nodes) /\ old \in Seq(Nodes) /\ Len(old) \in Nat
      /\ hs \in Seq(Nodes) /\ n \in Nat
      /\ Len(new) = Len(old) + n
      /\ Len(old) = Len(before) - 2 /\ Len(before) \in Nat
      /\ Cut - 1 \in 0 .. Len(old)
      /\ \A i \in 1 .. Cut - 1 : new[i] = old[i]
      /\ \A i \in 1 .. n :
           new[Cut - 1 + i] = hs[IF call.op = "first" THEN n + 1 - i ELSE i]
      /\ \A i \in Cut .. Len(old) : new[n + i] = old[i]
  BY <1>1, ReturnedList
<1>3. call.op \in {"first", "last", "behind"}
  BY <1>1 DEF CallInv, ChainInv
<1>4. /\ ListOf(IF call = NoCall THEN order ELSE before)' = new
      /\ ListOf(IF call = NoCall THEN order ELSE before) = old
      /\ [op |-> call.op, position |-> call.position, hs |-> call.hs]' = List!None
  BY <1>1 DEF List!None, NoCall, ListOf
<1> HIDE DEF new, old, hs, n
<1>5. CASE call.op = "first"
  <2> DEFINE r == List!Reverse(hs)
  <2>1. Cut = 1
    BY <1>5 DEF Cut
  <2>2. /\ r \in Seq(Nodes) /\ Len(r) = n
        /\ \A i \in 1 .. n : r[i] = hs[n + 1 - i]
    <3>1. r = [i \in 1 .. n |-> hs[(n - i) + 1]]
      BY DEF List!Reverse, n
    <3>2. ASSUME NEW i \in 1 .. n PROVE (n - i) + 1 = n + 1 - i /\ hs[(n - i) + 1] \in Nodes
      <4>1. (n - i) + 1 = n + 1 - i /\ (n - i) + 1 \in 1 .. n
        BY <1>2
      <4>2. QED
        BY <1>2, <4>1, ElementOfSeq DEF n
    <3>3. r \in [1 .. n -> Nodes]
      BY <3>1, <3>2
    <3>4. r \in Seq(Nodes) /\ Len(r) = n
      BY <1>2, <3>3, FunctionIsSeq
    <3>5. QED
      BY <3>1, <3>2, <3>4
  <2> HIDE DEF r
  <2>3. <<>> \in Seq(Nodes) /\ Len(<<>>) = 0
    OBVIOUS
  <2>4. new = (r \o <<>>) \o old
    <3>1. Len(new) = Len(r) + Len(<<>>) + Len(old)
      BY <1>2, <2>2, <2>3
    <3>2. \A i \in 1 .. Len(r) : new[i] = r[i]
      <4> SUFFICES ASSUME NEW i \in 1 .. n PROVE new[i] = r[i]
        BY <2>2
      <4>1. Cut - 1 + i = i
        BY <1>2, <2>1
      <4>2. QED
        BY <1>2, <1>5, <2>2, <4>1
    <3>3. ASSUME NEW i \in 1 .. Len(old) PROVE new[Len(r) + Len(<<>>) + i] = old[i]
      <4>1. i \in Cut .. Len(old) /\ Len(r) + Len(<<>>) + i = n + i
        BY <1>2, <2>1, <2>2, <2>3
      <4>2. QED
        BY <1>2, <4>1
    <3>4. \A i \in 1 .. Len(<<>>) : new[Len(r) + i] = <<>>[i]
      BY <2>3
    <3> DEFINE e == <<>>
    <3>5. /\ e \in Seq(Nodes) /\ Len(new) = Len(r) + Len(e) + Len(old)
          /\ \A i \in 1 .. Len(e) : new[Len(r) + i] = e[i]
          /\ \A i \in 1 .. Len(old) : new[Len(r) + Len(e) + i] = old[i]
      BY <2>3, <3>1, <3>3, <3>4
    <3> HIDE DEF e
    <3>6. new = (r \o e) \o old
      BY <1>2, <2>2, <3>2, <3>5, ThreeParts
    <3>7. QED
      BY <3>6 DEF e
  <2>5. r \o <<>> = r
    BY <2>2, ConcatEmptySeq
  <2>6. new = r \o old
    BY <2>4, <2>5
  <2>7. QED
    BY <1>4, <1>5, <2>6 DEF List!Next, List!AddFirst, r, hs
<1>6. CASE call.op = "last"
  <2>1. Cut - 1 = Len(old)
    BY <1>2, <1>6 DEF Cut
  <2>2. /\ \A i \in 1 .. Len(old) : new[i] = old[i]
        /\ \A i \in 1 .. n : new[Len(old) + i] = hs[i]
    BY <1>2, <1>6, <2>1
  <2> DEFINE u == old \o hs
  <2>3. /\ u \in Seq(Nodes) /\ Len(u) = Len(old) + n
        /\ \A i \in 1 .. Len(old) + n : u[i] = IF i <= Len(old) THEN old[i] ELSE hs[i - Len(old)]
    BY <1>2, ConcatProperties DEF n
  <2> HIDE DEF u
  <2>4. ASSUME NEW i \in 1 .. Len(new) PROVE new[i] = u[i]
    <3>1. CASE i <= Len(old)
      <4>1. i \in 1 .. Len(old) /\ i \in 1 .. Len(old) + n
        BY <1>2, <3>1
      <4>2. QED
        BY <2>2, <2>3, <3>1, <4>1
    <3>2. CASE i > Len(old)
      <4>1. i - Len(old) \in 1 .. n /\ Len(old) + (i - Len(old)) = i
        BY <1>2, <3>2
      <4>2. new[i] = hs[i - Len(old)]
        BY <2>2, <4>1
      <4>3. i \in 1 .. Len(old) + n /\ ~(i <= Len(old))
        BY <1>2, <3>2
      <4>4. u[i] = hs[i - Len(old)]
        BY <2>3, <4>3
      <4>5. QED
        BY <4>2, <4>4
    <3>3. QED
      BY <1>2, <3>1, <3>2
  <2>5. new = u
    BY <1>2, <2>3, <2>4, SeqEqual
  <2>6. QED
    BY <1>4, <1>6, <2>5 DEF List!Next, List!AddLast, u, hs
<1>7. CASE call.op = "behind"
  <2> DEFINE p == call.position
             a == SubSeq(old, 1, p)
             c == SubSeq(old, p + 1, Len(old))
  <2>1. Cut = p + 1 /\ p \in Nat
    BY <1>7 DEF Cut, ChainInv
  <2>2. p \in 0 .. Len(old) /\ Cut - 1 = p
    BY <1>2, <2>1
  <2> HIDE DEF p
  <2>3. /\ a \in Seq(Nodes) /\ Len(a) = p
        /\ \A i \in 1 .. p : a[i] = old[i]
    BY <1>2, <2>2
  <2>4. /\ c \in Seq(Nodes) /\ Len(c) = Len(old) - p
        /\ \A i \in 1 .. Len(old) - p : c[i] = old[p + i]
    BY <1>2, <2>2
  <2> HIDE DEF a, c
  <2>5. Len(new) = Len(a) + Len(hs) + Len(c)
    BY <1>2, <2>2, <2>3, <2>4 DEF n
  <2>6. \A i \in 1 .. Len(a) : new[i] = a[i]
    BY <1>2, <2>2, <2>3
  <2>7. \A i \in 1 .. Len(hs) : new[Len(a) + i] = hs[i]
    BY <1>2, <1>7, <2>2, <2>3 DEF n
  <2>8. ASSUME NEW i \in 1 .. Len(c) PROVE new[Len(a) + Len(hs) + i] = c[i]
    <3>1. p + i \in Cut .. Len(old) /\ Len(a) + Len(hs) + i = n + (p + i)
      <4>1. Len(hs) = n /\ Len(a) = p /\ Len(c) = Len(old) - p
        BY <2>3, <2>4 DEF n
      <4>2. QED
        BY <1>2, <2>1, <2>2, <4>1
    <3>2. QED
      BY <1>2, <2>4, <3>1
  <2>9. new = (a \o hs) \o c
    BY <1>2, <2>3, <2>4, <2>5, <2>6, <2>7, <2>8, ThreeParts
  <2>10. QED
    BY <1>4, <1>7, <2>9 DEF List!Next, List!AddHandler, a, c, p, hs
<1>8. QED
  BY <1>3, <1>5, <1>6, <1>7

\* A new pipeline is an empty list.
LEMMA InitRefines == Init => List!Init
<1> SUFFICES ASSUME Init PROVE List!Init
  OBVIOUS
<1>1. call = NoCall /\ order = <<HeadNode, TailNode>>
  BY DEF Init
<1>2. ListOf(order) = <<>>
  BY <1>1 DEF ListOf
<1>3. QED
  BY <1>1, <1>2 DEF List!Init, List!None, NoCall

\* A call that begins asks for what it was called with.
LEMMA BeginRefines ==
  ASSUME ChainInv, NEW op \in {"first", "last", "behind"}, NEW position,
         NEW STATE n, NEW hs \in Calls, Begin(op, position, n, hs)
  PROVE  List!Ask(op, position, hs)
<1> DEFINE L == ListOf(order)
<1>1. /\ call = NoCall /\ Fresh(hs) /\ before' = order
      /\ call' = [op |-> op, position |-> position, hs |-> hs, at |-> n, left |-> hs]
  BY DEF Begin
<1>2. call' # NoCall
  BY <1>1 DEF NoCall
<1>3. /\ call'.op = op /\ call'.position = position /\ call'.hs = hs
      /\ call.op = "none" /\ call.position = 0 /\ call.hs = <<>>
  BY <1>1 DEF NoCall
<1>4. /\ ListOf(IF call = NoCall THEN order ELSE before) = L
      /\ ListOf(IF call = NoCall THEN order ELSE before)' = L
  BY <1>1, <1>2 DEF ListOf
<1>5. /\ [op |-> call.op, position |-> call.position, hs |-> call.hs] = List!None
      /\ [op |-> call.op, position |-> call.position, hs |-> call.hs]'
           = [op |-> op, position |-> position, hs |-> hs]
  BY <1>3 DEF List!None
<1>6. List!ToSet(hs) \cap List!ToSet(L) = {}
  <2>1. /\ L \in Seq(Nodes) /\ order \in Seq(Nodes) /\ Len(order) \in Nat
        /\ Len(L) = Len(order) - 2
        /\ \A i \in 1 .. Len(order) - 2 : L[i] = order[i + 1]
    BY ListOfIs DEF ChainInv
  <2>2. hs \in Seq(Handlers) /\ DOMAIN hs = 1 .. Len(hs) /\ DOMAIN L = 1 .. Len(order) - 2
    BY <2>1, CallsAssumption
  <2>3. \A i \in 1 .. Len(order) - 2 : i + 1 \in 1 .. Len(order)
    BY <2>1
  <2>4. \A i \in 1 .. Len(hs), j \in 1 .. Len(order) - 2 : hs[i] # L[j]
    BY <1>1, <2>1, <2>3 DEF Fresh, InOrder
  <2>5. QED
    BY <2>2, <2>4 DEF List!ToSet
<1> HIDE DEF L
<1>7. QED
  BY <1>4, <1>5, <1>6 DEF List!Ask

\* Every step is a step of the list or leaves it alone.
LEMMA StepRefines ==
  ASSUME ChainInv, CallInv, [Next]_vars
  PROVE  [List!Next]_<<ListOf(IF call = NoCall THEN order ELSE before),
                       [op |-> call.op, position |-> call.position, hs |-> call.hs]>>
<1> DEFINE Same == UNCHANGED <<ListOf(IF call = NoCall THEN order ELSE before),
                       [op |-> call.op, position |-> call.position, hs |-> call.hs]>>
<1> SUFFICES List!Next \/ Same
  OBVIOUS
<1>1. ASSUME UNCHANGED <<order, before, call>> PROVE Same
  BY <1>1 DEF ListOf, NoCall
<1>2. ASSUME NEW hs \in Calls, Begin("first", 0, HeadNode, hs) PROVE List!Next
  <2>1. List!Ask("first", 0, hs)
    BY <1>2, BeginRefines
  <2>2. QED
    BY <2>1 DEF List!Next
<1>3. ASSUME NEW hs \in Calls, Begin("last", 0, TailNode, hs) PROVE List!Next
  <2>1. List!Ask("last", 0, hs)
    BY <1>3, BeginRefines
  <2>2. QED
    BY <2>1 DEF List!Next
<1>4. ASSUME NEW hs \in Calls, NEW position \in 1 .. size - 2,
             Begin("behind", position, ContextAt(position), hs)
      PROVE  List!Next
  <2>1. List!Ask("behind", position, hs)
    BY <1>4, BeginRefines
  <2>2. position \in 1 .. Len(ListOf(IF call = NoCall THEN order ELSE before))
    <3>1. call = NoCall
      BY <1>4 DEF Begin
    <3>2. /\ order \in Seq(Nodes) /\ Len(order) \in Nat /\ Len(order) >= 2
          /\ size = Len(order)
      BY DEF ChainInv, Chain
    <3>3. Len(ListOf(order)) = Len(order) - 2
      BY <3>2, ListOfIs
    <3>4. QED
      BY <3>1, <3>2, <3>3
  <2>3. QED
    BY <2>1, <2>2 DEF List!Next
<1>5. ASSUME AddFirstOne \/ AddLastOne \/ AddBehindOne PROVE Same
  <2>1. call # NoCall /\ call' # NoCall
    BY <1>5, AddKeeps
  <2>2. /\ before' = before /\ call'.op = call.op /\ call'.position = call.position
        /\ call'.hs = call.hs
    BY <1>5 DEF AddFirstOne, AddLastOne, AddBehindOne, InsertBehind, ChainInv
  <2>3. QED
    BY <2>1, <2>2 DEF ListOf
<1>6. CASE Build
  <2>1. CASE CallAddFirst
    BY <1>2, <2>1 DEF CallAddFirst
  <2>2. CASE CallAddLast
    BY <1>3, <2>2 DEF CallAddLast
  <2>3. CASE CallAddHandler
    BY <1>2, <1>3, <1>4, <2>3 DEF CallAddHandler
  <2>4. CASE AddPanics
    BY <1>1, <2>4 DEF AddPanics, listVars
  <2>5. CASE AddReturns
    BY <2>5, ReturnRefines
  <2>6. QED
    BY <1>5, <1>6, <2>1, <2>2, <2>3, <2>4, <2>5 DEF Build
<1>7. CASE ~Build
  <2>1. UNCHANGED listVars
    BY <1>7 DEF Next, BuildDone, WorkerLoop, Forward, Write, HandlerCloses, Return, Panic,
                vars
  <2>2. QED
    BY <1>1, <2>1 DEF listVars
<1>8. QED
  BY <1>6, <1>7

\* LinkedPipeline implements the list its callers rely on: AddFirst, AddLast and
\* AddHandler, one insertion at a time, for any handlers, any number of them in a
\* call and any sequence of calls.
THEOREM PipelineImplementsList == Spec => ImplementsHandlerList
<1>1. Init => ChainInv /\ CallInv /\ List!Init
  BY ChainInit, CallInit, InitRefines
<1>2. ChainInv /\ CallInv /\ [Next]_vars => (ChainInv /\ CallInv)'
  BY ChainStep, CallStep
<1>3. ChainInv /\ CallInv /\ [Next]_vars
        => [List!Next]_<<ListOf(IF call = NoCall THEN order ELSE before),
                         [op |-> call.op, position |-> call.position, hs |-> call.hs]>>
  BY StepRefines
<1>4. QED
  BY <1>1, <1>2, <1>3, PTL DEF Spec, ImplementsHandlerList, List!Spec

=============================================================================
