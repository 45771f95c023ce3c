------------------------------ MODULE Pipeline ------------------------------
(***************************************************************************)
(* The handler pipeline of a connection, internal/handler: the doubly      *)
(* linked list of node contexts (linked_pipeline.go), the propagation of   *)
(* events along it (node_context.go), the head and the tail handler, and   *)
(* the way Worker.handleConnection (pkg/reactor/worker.go) drives it.      *)
(*                                                                         *)
(* A pipeline belongs to one goroutine: the initializer builds it, then    *)
(* events run as nested calls, stack, newest last.  A handler may do       *)
(* anything its context offers: pass the event on, Write, close the        *)
(* connection, panic, return.  A handler is added once, so a node is named *)
(* by its handler.                                                         *)
(***************************************************************************)
EXTENDS Integers, Sequences, FiniteSets, SequencesExt

CONSTANTS Handlers,
          HeadNode, TailNode, Nil,
          Caps,       \* the interfaces a handler implements
          Calls,      \* the handlers of one Add call, a set of sequences
          MaxDepth    \* nested handler calls

Nodes  == Handlers \cup {HeadNode, TailNode}
Events == {"active", "read", "write", "exception", "inactive"}

ASSUME NodesAssumption ==
  /\ HeadNode # TailNode /\ Nil \notin Nodes
  /\ {HeadNode, TailNode} \cap Handlers = {}
ASSUME CapsAssumption ==
  /\ Caps \in [Nodes -> SUBSET Events]
  /\ Caps[HeadNode] = {"write"} /\ Caps[TailNode] = {"exception"}
ASSUME CallsAssumption ==
  \A hs \in Calls : /\ hs \in Seq(Handlers)
                    /\ \A i, j \in 1 .. Len(hs) : hs[i] = hs[j] => i = j
ASSUME MaxDepthAssumption == MaxDepth \in Nat

VARIABLES
  next, prev, size,  \* the list
  call,              \* the Add call under way: its arguments, where it is, what is left
  order,             \* history: the nodes from head to tail
  before,            \* history: order when the call began
  phase,             \* of handleConnection
  stack,             \* handler calls: the node, its event, how it was called
  closed,            \* lifecycleConn.closed
  raised             \* history: the last exception found no handler but the tail

listVars  == <<next, prev, size, call, order, before>>
eventVars == <<phase, stack, closed, raised>>
vars == <<listVars, eventVars>>

NoCall == [op |-> "none", position |-> 0, hs |-> <<>>, at |-> Nil, left |-> <<>>]

\* NewPipeline
Init ==
  /\ next = [n \in Nodes |-> IF n = HeadNode THEN TailNode ELSE Nil]
  /\ prev = [n \in Nodes |-> IF n = TailNode THEN HeadNode ELSE Nil]
  /\ size = 2
  /\ call = NoCall
  /\ order = <<HeadNode, TailNode>>
  /\ before = order
  /\ phase = "build"
  /\ stack = <<>>
  /\ closed = FALSE
  /\ raised = FALSE

-----------------------------------------------------------------------------
(* The list                                                                *)

\* The nodes met along a link, n itself at 0.
Walk(link, n) ==
  LET at[k \in 0 .. size] ==
        IF k = 0 THEN n ELSE IF at[k - 1] = Nil THEN Nil ELSE link[at[k - 1]]
  IN  at

\* IndexOf and LastIndexOf of the handlers in S, ContextAt
IndexOf(S) ==
  LET hits == {k \in 0 .. size : Walk(next, HeadNode)[k] \in S}
  IN  IF hits = {} THEN -1 ELSE Min(hits)

LastIndexOf(S) ==
  LET hits == {k \in 0 .. size : Walk(prev, TailNode)[k] \in S}
  IN  IF hits = {} THEN -1 ELSE size - 1 - Min(hits)

ContextAt(position) ==
  IF position < 0 \/ position >= size THEN Nil ELSE Walk(next, HeadNode)[position]

InOrder(h) == \E i \in 1 .. Len(order) : order[i] = h
Fresh(hs)  == \A i \in 1 .. Len(hs) : ~InOrder(hs[i])
PositionOf(n) == CHOOSE i \in 1 .. Len(order) : order[i] = n

Begin(op, position, n, hs) ==
  /\ phase = "build" /\ call = NoCall
  /\ Fresh(hs)
  /\ call' = [op |-> op, position |-> position, hs |-> hs, at |-> n, left |-> hs]
  /\ before' = order
  /\ UNCHANGED <<next, prev, size, order, eventVars>>

CallAddFirst == \E hs \in Calls : Begin("first", 0, HeadNode, hs)
CallAddLast  == \E hs \in Calls : Begin("last", 0, TailNode, hs)

\* AddHandler: position 0 is AddFirst, size is AddLast; any other one, the
\* tail's excepted, is the node to insert behind.
CallAddHandler ==
  \E hs \in Calls, position \in 0 .. size :
    \/ position = 0 /\ Begin("first", 0, HeadNode, hs)
    \/ position = size /\ Begin("last", 0, TailNode, hs)
    \/ position \in 1 .. size - 2 /\ Begin("behind", position, ContextAt(position), hs)

\* A handler that implements no interface or a position out of bounds panics;
\* so does the position of the tail, which passes the bounds check and has no
\* node behind it.  The initializer runs unprotected: the process ends.
AddPanics ==
  /\ phase = "build" /\ call = NoCall
  /\ phase' = "crashed"
  /\ UNCHANGED <<listVars, stack, closed, raised>>

\* The back link of the old neighbour is forgotten.
LinkedOneWay(h, p) ==
  /\ next' = [next EXCEPT ![p] = h, ![h] = next[p]]
  /\ prev' = [prev EXCEPT ![h] = p]

\* NewNodeContext(p, h, p, next[p]) and the links of its neighbours
Linked(h, p) ==
  /\ next' = [next EXCEPT ![p] = h, ![h] = next[p]]
  /\ prev' = [prev EXCEPT ![h] = p, ![next[p]] = h]

Inserted(s, i, h) ==
  [k \in 1 .. Len(s) + 1 |-> IF k <= i THEN s[k] ELSE IF k = i + 1 THEN h ELSE s[k - 1]]

\* One handler of the call is linked in behind node p.
InsertBehind(p, at) ==
  /\ Linked(call.left[1], p)
  /\ size' = size + 1
  /\ order' = Inserted(order, PositionOf(p), call.left[1])
  /\ call' = [call EXCEPT !.at = at, !.left = SubSeq(@, 2, Len(@))]
  /\ UNCHANGED <<before, eventVars>>

\* addFirst, addLast and the loop of AddHandler
AddFirstOne == call.op = "first" /\ call.left # <<>> /\ InsertBehind(HeadNode, HeadNode)

AddLastOne == call.op = "last" /\ call.left # <<>> /\ InsertBehind(prev[TailNode], TailNode)

\* The loop of AddHandler that stays at the node of the position.
AtSameNode == call.at

\* curNode = curNode.next
AtNewNode == call.left[1]

AddBehindOne == call.op = "behind" /\ call.left # <<>> /\ InsertBehind(call.at, AtNewNode)

AddReturns ==
  /\ call # NoCall /\ call.left = <<>>
  /\ call' = NoCall
  /\ UNCHANGED <<next, prev, size, order, before, eventVars>>

Build == CallAddFirst \/ CallAddLast \/ CallAddHandler \/ AddPanics
           \/ AddFirstOne \/ AddLastOne \/ AddBehindOne \/ AddReturns

-----------------------------------------------------------------------------
(* Propagation                                                             *)

\* The next node along the link, n excluded, that handles the event.
Receiver(link, n, ev) ==
  LET hits == {k \in 1 .. size : Walk(link, n)[k] # Nil
                                   /\ ev \in Caps[Walk(link, n)[k]]}
  IN  IF hits = {} THEN Nil ELSE Walk(link, n)[Min(hits)]

Along(ev) == IF ev = "write" THEN prev ELSE next

\* Inbound propagation that starts at the context's own node.
SelfToo(n, ev) == IF ev \in Caps[n] THEN n ELSE Receiver(Along(ev), n, ev)

\* HandleActive, HandleRead, HandleWrite, HandleException, HandleInactive
Onward(n, ev) == Receiver(Along(ev), n, ev)

\* A handler call on top of s, none if no node handles the event.
Called(s, n, ev, how) ==
  IF n = Nil THEN s ELSE Append(s, [node |-> n, ev |-> ev, how |-> how])

Top == stack[Len(stack)]
Busy == stack # <<>>

\* FireActive, FireRead, FireException, FireInactive
Fire(ev) == Called(<<>>, Onward(HeadNode, ev), ev, "fire")

\* The initializer returned nil: FireActive.
BuildDone ==
  /\ phase = "build" /\ call = NoCall
  /\ phase' = "active"
  /\ stack' = Fire("active")
  /\ UNCHANGED <<listVars, closed, raised>>

\* The worker loop: FireRead until the connection is closed, then FireInactive.
\* Stop and shutdown close it from outside.
WorkerLoop ==
  /\ ~Busy
  /\ \/ /\ phase \in {"active", "read"} /\ (~closed \/ phase = "active")
        /\ phase' = "read" /\ stack' = Fire("read") /\ UNCHANGED closed
     \/ /\ phase \in {"active", "read", "exception"}
        /\ phase' = "inactive" /\ stack' = Fire("inactive") /\ closed' = TRUE
     \/ /\ phase = "inactive"
        /\ phase' = "done" /\ UNCHANGED <<stack, closed>>
  /\ UNCHANGED <<listVars, raised>>

\* The handler passes its event on.
Forward ==
  /\ Busy /\ Top.node \in Handlers /\ Len(stack) < MaxDepth
  /\ stack' = Called(stack, Onward(Top.node, Top.ev), Top.ev, "ctx")
  /\ UNCHANGED <<listVars, phase, closed, raised>>

\* Context.Write, which recovers from what happens under it.
Write ==
  /\ Busy /\ Top.node \in Handlers /\ Len(stack) < MaxDepth
  /\ stack' = Called(stack, Onward(Top.node, "write"), "write", "Write")
  /\ UNCHANGED <<listVars, phase, closed, raised>>

\* Context.Close
HandlerCloses ==
  /\ Busy /\ Top.node \in Handlers
  /\ closed' = TRUE
  /\ UNCHANGED <<listVars, phase, stack, raised>>

\* A tail that only reports the exception.
TailIgnores == closed

\* TailHeader.HandleException closes the connection.
TailCloses == closed \/ Top.node = TailNode

\* A handler returns; HeadHandler wrote the message.
Return ==
  /\ Busy
  /\ closed' = TailCloses
  /\ stack' = SubSeq(stack, 1, Len(stack) - 1)
  /\ UNCHANGED <<listVars, phase, raised>>

\* The newest call made by Context.Write, 0 if there is none.
LastWrite == Max({0} \cup {i \in 1 .. Len(stack) : stack[i].how = "Write"})

\* Only the worker recovers.
WorkerRecovers == 0

\* Context.Write recovers first.
RecoveredAt == LastWrite

\* A handler panics, or HeadHandler because the write failed.  Context.Write
\* fires the exception on top of its caller; without one on the stack the
\* worker does, and ends the connection.  A panic while it fires an exception
\* or FireInactive is not recovered and ends the process.
Panic ==
  /\ Busy /\ Top.node # TailNode
  /\ LET e == Onward(HeadNode, "exception")
     IN  \/ /\ RecoveredAt > 0
            /\ stack' = Called(SubSeq(stack, 1, RecoveredAt - 1), e, "exception", "fire")
            /\ raised' = (e = TailNode)
            /\ UNCHANGED phase
         \/ /\ RecoveredAt = 0 /\ phase \in {"active", "read"}
            /\ stack' = Fire("exception")
            /\ phase' = "exception"
            /\ raised' = (e = TailNode)
         \/ /\ RecoveredAt = 0 /\ phase \notin {"active", "read"}
            /\ stack' = <<>>
            /\ phase' = "crashed"
            /\ UNCHANGED raised
  /\ UNCHANGED <<listVars, closed>>

Next == Build \/ BuildDone \/ WorkerLoop
          \/ Forward \/ Write \/ HandlerCloses \/ Return \/ Panic

Spec == Init /\ [][Next]_vars

-----------------------------------------------------------------------------
(* Properties                                                              *)

\* The links of the list agree in both directions and with size, between any
\* two insertions (linked_pipeline.go updates three links and a counter).
Chain ==
  /\ size = Len(order)
  /\ order[1] = HeadNode /\ order[Len(order)] = TailNode
  /\ prev[HeadNode] = Nil /\ next[TailNode] = Nil
  /\ \A i \in 1 .. Len(order) - 1 :
       next[order[i]] = order[i + 1] /\ prev[order[i + 1]] = order[i]

Distinct(s) == \A i, j \in 1 .. Len(s) : s[i] = s[j] => i = j

\* Why Chain holds: every node is in the list once, what a call has still to
\* add is not in it, and AddHandler stands at a node that has one behind it.
ChainInv ==
  /\ next \in [Nodes -> Nodes \cup {Nil}]
  /\ prev \in [Nodes -> Nodes \cup {Nil}]
  /\ order \in Seq(Nodes) /\ Len(order) >= 2
  /\ Distinct(order)
  /\ Chain
  /\ call \in [op : {"none", "first", "last", "behind"}, position : Nat,
               hs : Seq(Handlers), at : Nodes \cup {Nil}, left : Seq(Handlers)]
  /\ Distinct(call.left) /\ Fresh(call.left)
  /\ call.op = "behind" => \E i \in 1 .. Len(order) - 1 : order[i] = call.at

\* The handlers between head and tail, as the last complete call left them.
ListOf(s) == SubSeq(s, 2, Len(s) - 1)

List == INSTANCE HandlerList WITH
          list  <- ListOf(IF call = NoCall THEN order ELSE before),
          asked <- [op |-> call.op, position |-> call.position, hs |-> call.hs]

\* Why ImplementsHandlerList holds: a call has added its first handlers, in
\* their order or in the reverse one, at one place of the list it found.
Done == Len(call.hs) - Len(call.left)

Cut == IF call.op = "first" THEN 1
       ELSE IF call.op = "last" THEN Len(before) - 1 ELSE call.position + 1

CallInv ==
  call # NoCall =>
    /\ call.op # "none" /\ before \in Seq(Nodes)
    /\ Cut \in 1 .. Len(before) - 1
    /\ Done \in 0 .. Len(call.hs)
    /\ \A i \in 1 .. Len(call.left) : call.left[i] = call.hs[Done + i]
    /\ Len(order) = Len(before) + Done
    /\ \A i \in 1 .. Cut : order[i] = before[i]
    /\ \A i \in 1 .. Done :
         order[Cut + i] = call.hs[IF call.op = "first" THEN Done + 1 - i ELSE i]
    /\ \A i \in Cut + 1 .. Len(before) : order[Done + i] = before[i]
    /\ call.op = "behind" => call.at = order[Cut + Done]

\* Each call of AddFirst, AddLast and AddHandler leaves the list its contract
\* describes, however many handlers it gets.
ImplementsHandlerList == List!Spec

\* The scans from either end and ContextAt speak of the same positions.
LookupsMatch ==
  \A S \in SUBSET Nodes :
    LET hits == {i \in 1 .. Len(order) : order[i] \in S}
    IN  IF hits = {} THEN IndexOf(S) = -1 /\ LastIndexOf(S) = -1
        ELSE /\ IndexOf(S) = Min(hits) - 1 /\ LastIndexOf(S) = Max(hits) - 1
             /\ ContextAt(IndexOf(S)) \in S /\ ContextAt(LastIndexOf(S)) \in S

\* The call g was made by the handler of f to the nearest node for its event in
\* the event's direction.
Nearest(f, g) ==
  LET from == PositionOf(f.node)
      to   == PositionOf(g.node)
      between == IF g.ev = "write" THEN to + 1 .. from - 1 ELSE from + 1 .. to - 1
  IN  /\ IF g.ev = "write" THEN to < from ELSE from < to
      /\ g.ev \in Caps[g.node]
      /\ \A k \in between : g.ev \notin Caps[order[k]]

\* An event a handler passes on, and a message it writes, reaches the nearest
\* handler for it in its direction: nobody is skipped, and no handler meets
\* its own event again.
PropagationOrdered ==
  \A i \in 1 .. Len(stack) - 1 :
    stack[i + 1].how # "fire" => Nearest(stack[i], stack[i + 1])

\* A panic with no exception handler in the pipeline closes the connection
\* once the tail has seen it, also when Context.Write recovered from it.
UnhandledPanicCloses ==
  raised => closed \/ \E i \in 1 .. Len(stack) : stack[i].node = TailNode

\* Why the two hold: the list no longer changes when handlers run, the nodes on
\* the stack are in it, and only handlers call on.
Frames == [node : Nodes, ev : Events, how : {"fire", "ctx", "Write"}]

StackInv ==
  /\ stack \in Seq(Frames)
  /\ \A i \in 1 .. Len(stack) : InOrder(stack[i].node)
  /\ \A i \in 1 .. Len(stack) - 1 : stack[i].node \in Handlers
  /\ call # NoCall => phase = "build"
  /\ phase = "build" => stack = <<>>
  /\ PropagationOrdered
  /\ UnhandledPanicCloses

\* A failing write does not unwind the handler that wrote: the calls below the
\* newest Context.Write are left alone by every step.
WriterGoesOn ==
  [][LastWrite > 1 => SubSeq(stack', 1, LastWrite - 1) = SubSeq(stack, 1, LastWrite - 1)]_vars

=============================================================================
