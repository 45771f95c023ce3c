---------------------------- MODULE ClientProofs ----------------------------
(* Proofs about Client, for any requests, kinds of requests and buffers, as *)
(* long as there are fewer requests than stream ids.                        *)
EXTENDS Client, FiniteSetTheorems, SequenceTheorems, TLAPS

\* The stream id a request gets is new: nextID counts the requests that have
\* one, so it neither wraps nor meets an id in use (client.go:278).
LEMMA FreshId ==
  ASSUME TypeOK, IdsUnique, NEW k \in Requests, pc[k] = "lock"
  PROVE  /\ IncrementedID = nextID + 1
         /\ IncrementedID \in Ids
         /\ Cardinality({m \in Requests : HasId(m)} \cup {k}) = nextID + 1
<1> DEFINE S == {m \in Requests : HasId(m)}
<1>1. IsFiniteSet(S) /\ S \subseteq Requests /\ k \notin S
  <2>1. S \subseteq Requests
    OBVIOUS
  <2>2. IsFiniteSet(S)
    BY <2>1, IdSpaceAssumption, FS_Subset
  <2>3. ~HasId(k)
    BY DEF IdsUnique
  <2> QED
    BY <2>1, <2>2, <2>3
<1>2. Cardinality(S \cup {k}) = Cardinality(S) + 1
  BY <1>1, FS_AddElement
<1>3. Cardinality(S \cup {k}) <= Cardinality(Requests)
  <2>1. S \cup {k} \subseteq Requests
    BY <1>1
  <2> QED
    BY <2>1, IdSpaceAssumption, FS_Subset
<1>4. nextID = Cardinality(S)
  BY DEF IdsUnique
<1>5. Cardinality(Requests) \in Nat /\ Cardinality(S \cup {k}) \in Nat
  <2>1. S \cup {k} \subseteq Requests
    BY <1>1
  <2>2. IsFiniteSet(S \cup {k})
    BY <2>1, IdSpaceAssumption, FS_Subset
  <2> QED
    BY <2>2, IdSpaceAssumption, FS_CardinalityType
<1>6. nextID + 1 < IdSpace /\ nextID \in Nat /\ IdSpace \in Nat
  BY <1>2, <1>3, <1>4, <1>5, IdSpaceAssumption DEF TypeOK, Ids
<1>7. (nextID + 1) % IdSpace = nextID + 1
  BY <1>6
<1> QED
  BY <1>2, <1>4, <1>6, <1>7 DEF IncrementedID, Ids

\* Nothing is labelled, pending or resolved in the initial state.
LEMMA InitHolds == Init => ClientInv
<1> SUFFICES ASSUME Init PROVE ClientInv
  OBVIOUS
<1>0. 0 \in Ids
  <2>1. Cardinality(Requests) \in Nat
    BY IdSpaceAssumption, FS_CardinalityType
  <2> QED
    BY <2>1, IdSpaceAssumption DEF Ids
<1>1. TypeOK
  <2>1. toServer = <<>> /\ toClient = <<>>
    BY DEF Init
  <2> QED
    BY <1>0, <2>1 DEF Init, TypeOK, Results, NoResponse
<1>2. IdsUnique
  <2>1. {k \in Requests : HasId(k)} = {}
    BY DEF Init, HasId
  <2>2. Cardinality({k \in Requests : HasId(k)}) = 0
    BY <2>1, FS_EmptySet
  <2> QED
    BY <2>2 DEF Init, IdsUnique, HasId
<1>3. FramesLabelled
  BY DEF Init, FramesLabelled
<1>4. ChannelsMine /\ AnswerIsMine /\ PendingMatchesCallers
  BY DEF Init, ChannelsMine, AnswerIsMine, PendingMatchesCallers
<1> QED
  BY <1>1, <1>2, <1>3, <1>4 DEF ClientInv

\* A step that leaves the ids alone leaves them unique, if a caller that needs
\* an id has one.
LEMMA IdsKept ==
  ASSUME IdsUnique, UNCHANGED <<id, nextID>>,
         \A k \in Requests : pc'[k] \in {"idle", "lock"} => ~HasId(k),
         \A k \in Requests : pc'[k] \in {"write", "wait", "remove"} => HasId(k)
  PROVE  IdsUnique'
  BY DEF IdsUnique, HasId

\* What is on the wire belongs to a request.
LEMMA FramesOfRequests ==
  ASSUME TypeOK
  PROVE  /\ \A i \in 1 .. Len(toServer) : toServer[i] \in [id : Ids, of : Requests, more : BOOLEAN]
         /\ \A i \in 1 .. Len(toClient) : toClient[i] \in [id : Ids, of : Requests, err : BOOLEAN]
<1>1. /\ toServer \in Seq([id : Ids, of : Requests, more : BOOLEAN])
      /\ toClient \in Seq([id : Ids, of : Requests, err : BOOLEAN])
  BY DEF TypeOK
<1> QED
  BY <1>1, ElementOfSeq

\* The critical section of roundTrip (client.go:277-292).
LEMMA RegisterKeeps ==
  ASSUME ClientInv, NEW k \in Requests, RegisterPending(k),
         NEW l \in {"write", "remove"}, pc' = [pc EXCEPT ![k] = l],
         res' = res \/ res' = [res EXCEPT ![k] = "failed"],
         UNCHANGED <<ch, readVars, srvVars, toServer, toClient>>
  PROVE  ClientInv'
<1> USE DEF ClientInv
<1>1. /\ nextID' = nextID + 1 /\ nextID + 1 \in Ids
      /\ Cardinality({m \in Requests : HasId(m)} \cup {k}) = nextID + 1
      /\ id' = [id EXCEPT ![k] = nextID + 1]
      /\ pending' = [pending EXCEPT ![nextID + 1] = k]
      /\ pc[k] = "lock"
  BY FreshId DEF RegisterPending
<1>2. TypeOK'
  BY <1>1 DEF TypeOK, Results, readVars, srvVars
<1>3. nextID \in Nat /\ id \in [Requests -> Nat] /\ Ids \subseteq Nat
  BY DEF TypeOK, Ids
<1>4. /\ id'[k] = nextID + 1 /\ ~HasId(k)
      /\ \A m \in Requests \ {k} : id'[m] = id[m]
      /\ \A m \in Requests : HasId(m)' <=> HasId(m) \/ m = k
  <2>1. pc[k] = "lock" /\ id' = [id EXCEPT ![k] = nextID + 1]
    BY <1>1
  <2>2. ~HasId(k)
    BY <2>1 DEF IdsUnique
  <2>3. id'[k] = nextID + 1 /\ \A m \in Requests \ {k} : id'[m] = id[m]
    BY <2>1, <1>3
  <2>4. nextID + 1 # 0
    BY <1>3
  <2> QED
    BY <2>2, <2>3, <2>4 DEF HasId
<1>5. IdsUnique'
  <2>1. {m \in Requests : HasId(m)}' = {m \in Requests : HasId(m)} \cup {k}
    BY <1>4
  <2>2. (nextID = Cardinality({m \in Requests : HasId(m)}))'
    BY <1>1, <2>1
  <2>3. \A m \in Requests : id'[m] <= nextID'
    BY <1>1, <1>3, <1>4 DEF IdsUnique
  <2>4. \A m, n \in Requests : HasId(m)' /\ id'[m] = id'[n] => m = n
    BY <1>3, <1>4 DEF IdsUnique
  <2>5. \A m \in Requests : pc'[m] \in {"idle", "lock"} => ~HasId(m)'
    BY <1>4 DEF IdsUnique, TypeOK
  <2>6. \A m \in Requests : pc'[m] \in {"write", "wait", "remove"} => HasId(m)'
    BY <1>4 DEF IdsUnique, TypeOK
  <2> QED
    BY <2>2, <2>3, <2>4, <2>5, <2>6 DEF IdsUnique
<1>6. FramesLabelled'
  <2>1. \A m \in Requests : HasId(m) => HasId(m)' /\ id'[m] = id[m]
    BY <1>4
  <2>2. /\ \A i \in 1 .. Len(toServer) : toServer[i].of \in Requests
        /\ \A i \in 1 .. Len(toClient) : toClient[i].of \in Requests
    BY FramesOfRequests
  <2> QED
    BY <2>1, <2>2 DEF FramesLabelled, Labelled, readVars, srvVars
<1>7. ChannelsMine' /\ AnswerIsMine'
  <2>1. pending' \in [Ids -> Requests \cup {NoRequest}] /\ ch[k] = "open"
    BY <1>1, <1>2 DEF TypeOK, ChannelsMine
  <2>2. \A i \in Ids : pending'[i] # NoRequest => ch[pending'[i]] = "open"
    BY <1>1, <2>1 DEF ChannelsMine, TypeOK
  <2>3. \A m \in Requests : res'[m] \in {"ok", "refused"} => res'[m] = res[m] /\ m # k
    BY <1>1 DEF TypeOK, ChannelsMine
  <2>4. ChannelsMine'
    BY <1>1, <2>2, <2>3 DEF ChannelsMine, TypeOK
  <2>5. AnswerIsMine'
    BY <2>3 DEF AnswerIsMine
  <2> QED
    BY <2>4, <2>5
<1>8. PendingMatchesCallers'
  <2>1. \A i \in Ids : pending[i] # NoRequest => pending[i] # k
    BY <1>1 DEF PendingMatchesCallers, TypeOK
  <2>2. \A m \in Requests \ {k} : id[m] # nextID + 1
    BY <1>3 DEF IdsUnique
  <2>3. \A m \in Requests : pc'[m] \in {"write", "wait"} /\ ch'[m] = "open"
                              => pending'[id'[m]] = m
    <3> SUFFICES ASSUME NEW m \in Requests, pc'[m] \in {"write", "wait"}, ch'[m] = "open"
                 PROVE  pending'[id'[m]] = m
      OBVIOUS
    <3>1. CASE m = k
      BY <3>1, <1>1, <1>4 DEF TypeOK
    <3>2. CASE m # k
      <4>1. pending[id[m]] = m /\ id[m] \in Ids
        BY <3>2 DEF PendingMatchesCallers, TypeOK
      <4> QED
        BY <3>2, <4>1, <1>1, <1>4, <2>2 DEF TypeOK
    <3> QED
      BY <3>1, <3>2
  <2>4. \A i \in Ids : pending'[i] # NoRequest =>
          id'[pending'[i]] = i /\ pc'[pending'[i]] \in {"write", "wait", "remove"}
    <3> SUFFICES ASSUME NEW i \in Ids, pending'[i] # NoRequest
                 PROVE  /\ id'[pending'[i]] = i
                        /\ pc'[pending'[i]] \in {"write", "wait", "remove"}
      OBVIOUS
    <3>1. CASE i = nextID + 1
      BY <3>1, <1>1, <1>4 DEF TypeOK
    <3>2. CASE i # nextID + 1
      <4>1. pending'[i] = pending[i] /\ pending[i] \in Requests /\ pending[i] # k
        BY <3>2, <1>1, <2>1 DEF TypeOK
      <4> QED
        BY <4>1, <1>4 DEF PendingMatchesCallers, TypeOK
    <3> QED
      BY <3>1, <3>2
  <2> QED
    BY <2>3, <2>4 DEF PendingMatchesCallers
<1> QED
  BY <1>2, <1>5, <1>6, <1>7, <1>8

\* A step of a caller that registers nothing and resolves nothing: what it may
\* do to its program counter and its result.
LEMMA CallerKeeps ==
  ASSUME ClientInv, NEW k \in Requests, NEW l,
         pc' = [pc EXCEPT ![k] = l],
         \/ pc[k] = "idle" /\ l \in {"lock", "returned"}
         \/ pc[k] = "write" /\ l \in {"write", "wait", "remove"}
         \/ pc[k] = "wait" /\ l = "remove"
         \/ pc[k] = "wait" /\ l = "returned" /\ ch[k] # "open"
         \/ pc[k] = "returned" /\ l = "done",
         res' \in [Requests -> Results],
         \A m \in Requests \ {k} : res'[m] = res[m],
         res'[k] \in {"ok", "refused"} => ch[k] = k /\ l \in {"returned", "done"},
         UNCHANGED <<id, nextID, ch, pending, rcur, scur, toClient>>,
         toServer' \in Seq([id : Ids, of : Requests, more : BOOLEAN]),
         FramesLabelled'
  PROVE  ClientInv'
<1> USE DEF ClientInv
<1>0. /\ pc \in [Requests -> {"idle", "lock", "write", "wait", "remove", "returned", "done"}]
      /\ pc'[k] = l /\ \A m \in Requests \ {k} : pc'[m] = pc[m]
  BY DEF TypeOK
<1>1. TypeOK'
  BY DEF TypeOK
<1>2. IdsUnique'
  <2>1. /\ pc[k] \in {"idle", "lock"} => ~HasId(k)
        /\ pc[k] \in {"write", "wait", "remove"} => HasId(k)
    BY DEF IdsUnique
  <2>2. /\ \A m \in Requests : pc'[m] \in {"idle", "lock"} => ~HasId(m)
        /\ \A m \in Requests : pc'[m] \in {"write", "wait", "remove"} => HasId(m)
    BY <1>0, <2>1 DEF IdsUnique
  <2> QED
    BY <2>2, IdsKept
<1>3. ChannelsMine'
  <2>1. pc[k] \in {"idle", "lock"} => ch[k] = "open"
    BY DEF ChannelsMine
  <2>2. \A m \in Requests : pc'[m] \in {"idle", "lock"} => ch'[m] = "open"
    BY <1>0, <2>1 DEF ChannelsMine
  <2>3. \A m \in Requests : res'[m] \in {"ok", "refused"} => pc'[m] \in {"returned", "done"}
    BY <1>0 DEF ChannelsMine
  <2> QED
    BY <2>2, <2>3 DEF ChannelsMine
<1>4. AnswerIsMine'
  BY DEF AnswerIsMine
<1>5. PendingMatchesCallers'
  <2>1. \A m \in Requests : pc'[m] \in {"write", "wait"} => pc[m] \in {"write", "wait"}
    BY <1>0
  <2>2. \A i \in Ids : pending[i] # NoRequest =>
          pending[i] \in Requests /\ ch[pending[i]] = "open"
            /\ pc[pending[i]] \in {"write", "wait", "remove"}
    BY DEF ChannelsMine, PendingMatchesCallers, TypeOK
  <2>3. \A i \in Ids : pending[i] # NoRequest => pc'[pending[i]] \in {"write", "wait", "remove"}
    BY <1>0, <2>2
  <2> QED
    BY <2>1, <2>3 DEF PendingMatchesCallers
<1> QED
  BY <1>1, <1>2, <1>3, <1>4, <1>5

\* A step of the read loop or the server that resolves nothing.
LEMMA WireKeeps ==
  ASSUME ClientInv, UNCHANGED <<pc, id, res, ch, pending, nextID>>,
         toServer' \in Seq([id : Ids, of : Requests, more : BOOLEAN]),
         toClient' \in Seq([id : Ids, of : Requests, err : BOOLEAN]),
         rcur' \in [id : Ids, of : Requests \cup {NoRequest}, err : BOOLEAN],
         scur' \in Requests \cup {NoRequest},
         FramesLabelled'
  PROVE  ClientInv'
<1>1. TypeOK'
  BY DEF ClientInv, TypeOK
<1>2. IdsUnique'
  BY DEF ClientInv, IdsUnique, HasId
<1>3. ChannelsMine' /\ AnswerIsMine' /\ PendingMatchesCallers'
  BY DEF ClientInv, ChannelsMine, AnswerIsMine, PendingMatchesCallers
<1> QED
  BY <1>1, <1>2, <1>3 DEF ClientInv

\* removePending takes out the caller's own entry, and no other request loses
\* its one (client.go:336-340).
LEMMA RemoveKeeps ==
  ASSUME ClientInv, NEW k \in Requests, RemovePending(k)
  PROVE  ClientInv'
<1> USE DEF ClientInv
<1>1. /\ pc[k] = "remove" /\ id[k] \in Ids
      /\ pc' = [pc EXCEPT ![k] = "returned"]
      /\ pending' = [pending EXCEPT ![id[k]] = NoRequest]
      /\ res' = [res EXCEPT ![k] = res[k]]
      /\ UNCHANGED <<id, ch, nextID, rpc, rcur, srv, scur, intruder, toServer, toClient>>
  BY DEF RemovePending, PendingWithout, Returns, TypeOK, readVars, srvVars
<1>2. res' = res
  BY <1>1 DEF TypeOK
<1>3. TypeOK'
  BY <1>1, <1>2 DEF TypeOK
<1>4. \A m \in Requests \ {k} : pc'[m] = pc[m]
  BY <1>1 DEF TypeOK
<1>5. IdsUnique'
  <2>1. pc'[k] = "returned"
    BY <1>1 DEF TypeOK
  <2>2. /\ \A m \in Requests : pc'[m] \in {"idle", "lock"} => ~HasId(m)
        /\ \A m \in Requests : pc'[m] \in {"write", "wait", "remove"} => HasId(m)
    BY <1>4, <2>1 DEF IdsUnique
  <2> QED
    BY <1>1, <2>2, IdsKept
<1>6. FramesLabelled'
  BY <1>1 DEF FramesLabelled, Labelled, HasId
<1>7. \A i \in Ids : pending'[i] # NoRequest => pending'[i] = pending[i] /\ i # id[k]
  BY <1>1 DEF TypeOK
<1>8. ChannelsMine' /\ AnswerIsMine'
  <2>1. pc'[k] = "returned"
    BY <1>1 DEF TypeOK
  <2>2. ChannelsMine'
    BY <1>1, <1>2, <1>4, <1>7, <2>1 DEF ChannelsMine
  <2> QED
    BY <1>1, <1>2, <2>2 DEF AnswerIsMine
<1>9. PendingMatchesCallers'
  <2>1. pc'[k] = "returned"
    BY <1>1 DEF TypeOK
  <2>2. \A m \in Requests \ {k} : HasId(m) => id[m] # id[k]
    BY DEF IdsUnique
  <2>3. \A m \in Requests : pc'[m] \in {"write", "wait"} /\ ch'[m] = "open"
                              => pending'[id'[m]] = m
    <3> SUFFICES ASSUME NEW m \in Requests, pc'[m] \in {"write", "wait"}, ch'[m] = "open"
                 PROVE  pending'[id'[m]] = m
      OBVIOUS
    <3>1. m # k /\ pc[m] \in {"write", "wait"}
      BY <1>4, <2>1
    <3>2. HasId(m) /\ pending[id[m]] = m /\ id[m] \in Ids /\ id[m] # id[k]
      BY <1>1, <2>2, <3>1 DEF IdsUnique, PendingMatchesCallers, TypeOK
    <3> QED
      BY <1>1, <3>2 DEF TypeOK
  <2>4. \A i \in Ids : pending'[i] # NoRequest =>
          id'[pending'[i]] = i /\ pc'[pending'[i]] \in {"write", "wait", "remove"}
    <3> SUFFICES ASSUME NEW i \in Ids, pending'[i] # NoRequest
                 PROVE  /\ id'[pending'[i]] = i
                        /\ pc'[pending'[i]] \in {"write", "wait", "remove"}
      OBVIOUS
    <3>1. /\ pending'[i] = pending[i] /\ i # id[k] /\ pending[i] \in Requests
          /\ id[pending[i]] = i /\ pc[pending[i]] \in {"write", "wait", "remove"}
      BY <1>7 DEF PendingMatchesCallers, TypeOK
    <3>2. pending[i] # k
      BY <3>1
    <3> QED
      BY <1>1, <1>4, <3>1, <3>2
  <2> QED
    BY <2>3, <2>4 DEF PendingMatchesCallers
<1> QED
  BY <1>3, <1>5, <1>6, <1>8, <1>9

\* resolvePending hands a response to the request that waits for its id, which
\* is the one it answers, or drops it (client.go:375-398).
LEMMA ResolveKeeps ==
  ASSUME ClientInv, ResolvePending
  PROVE  ClientInv'
<1> DEFINE k == pending[rcur.id]
<1> USE DEF ClientInv
<1>1. /\ rpc = "resolve" /\ rpc' = "read" /\ rcur' = NoResponse
      /\ pending' = [pending EXCEPT ![rcur.id] = NoRequest]
      /\ k = NoRequest => ch' = ch
      /\ k # NoRequest => ch' = [ch EXCEPT ![k] = rcur.of]
      /\ UNCHANGED <<pc, id, left, res, nextID, srv, scur, intruder, toServer, toClient>>
  BY DEF ResolvePending, callVars, srvVars
<1>2. /\ rcur.of \in Requests /\ HasId(rcur.of) /\ rcur.id = id[rcur.of]
      /\ rcur.id \in Ids
  BY <1>1 DEF FramesLabelled, Labelled, TypeOK
<1>3. k # NoRequest => /\ k = rcur.of /\ ch[k] = "open"
                       /\ pc[k] \in {"write", "wait", "remove"}
  <2> SUFFICES ASSUME k # NoRequest
               PROVE  k = rcur.of /\ ch[k] = "open" /\ pc[k] \in {"write", "wait", "remove"}
    OBVIOUS
  <2>1. /\ k \in Requests /\ id[k] = rcur.id /\ ch[k] = "open"
        /\ pc[k] \in {"write", "wait", "remove"}
    BY <1>2 DEF PendingMatchesCallers, ChannelsMine, TypeOK
  <2>2. k = rcur.of
    BY <1>2, <2>1 DEF IdsUnique
  <2> QED
    BY <2>1, <2>2
<1>4. \A m \in Requests : \/ ch'[m] = ch[m] /\ (k = NoRequest \/ m # k)
                          \/ m = k /\ ch'[m] = m /\ ch[m] = "open"
  BY <1>1, <1>2, <1>3 DEF TypeOK
<1>5. \A i \in Ids : /\ i # rcur.id => pending'[i] = pending[i]
                     /\ pending'[rcur.id] = NoRequest
  BY <1>1, <1>2 DEF TypeOK
<1>6. TypeOK'
  <2>1. NoResponse \in [id : Ids, of : Requests \cup {NoRequest}, err : BOOLEAN]
    <3>1. 0 \in Ids
      BY <1>2, IdSpaceAssumption DEF Ids
    <3> QED
      BY <3>1 DEF NoResponse
  <2>2. ch' \in [Requests -> {"open", "failed"} \cup Requests]
    BY <1>1, <1>2, <1>3 DEF TypeOK
  <2>3. pending' \in [Ids -> Requests \cup {NoRequest}]
    BY <1>1, <1>2 DEF TypeOK
  <2> QED
    BY <1>1, <2>1, <2>2, <2>3 DEF TypeOK
<1>7. IdsUnique'
  BY <1>1 DEF IdsUnique, HasId
<1>8. FramesLabelled'
  BY <1>1 DEF FramesLabelled, Labelled, HasId
<1>9. \A i \in Ids : pending'[i] # NoRequest =>
        pending'[i] = pending[i] /\ pending[i] \in Requests /\ pending[i] # k
  BY <1>5 DEF PendingMatchesCallers, TypeOK
<1>10. ChannelsMine'
  <2>1. \A m \in Requests : ch'[m] \in {"open", "failed", m}
    BY <1>4 DEF ChannelsMine
  <2>2. \A m \in Requests : pc'[m] \in {"idle", "lock"} => ch'[m] = "open"
    BY <1>1, <1>3, <1>4, NoRequestAssumption DEF ChannelsMine
  <2>3. \A i \in Ids : pending'[i] # NoRequest => ch'[pending'[i]] = "open"
    BY <1>4, <1>9 DEF ChannelsMine
  <2> QED
    BY <1>1, <2>1, <2>2, <2>3 DEF ChannelsMine
<1>11. AnswerIsMine'
  BY <1>1, <1>4 DEF AnswerIsMine
<1>12. PendingMatchesCallers'
  <2>1. \A m \in Requests : pc'[m] \in {"write", "wait"} /\ ch'[m] = "open"
                              => pending'[id'[m]] = m
    <3> SUFFICES ASSUME NEW m \in Requests, pc'[m] \in {"write", "wait"}, ch'[m] = "open"
                 PROVE  pending'[id'[m]] = m
      OBVIOUS
    <3>1. ch[m] = "open" /\ (k = NoRequest \/ m # k)
      BY <1>4, ChannelAssumption
    <3>2. pending[id[m]] = m /\ id[m] \in Ids
      BY <1>1, <3>1 DEF PendingMatchesCallers, TypeOK
    <3>3. id[m] # rcur.id
      BY <3>1, <3>2, NoRequestAssumption
    <3> QED
      BY <1>1, <1>5, <3>2, <3>3
  <2>2. \A i \in Ids : pending'[i] # NoRequest =>
          id'[pending'[i]] = i /\ pc'[pending'[i]] \in {"write", "wait", "remove"}
    BY <1>1, <1>9 DEF PendingMatchesCallers
  <2> QED
    BY <2>1, <2>2 DEF PendingMatchesCallers
<1> QED
  BY <1>6, <1>7, <1>8, <1>10, <1>11, <1>12

\* failPending closes the channel of every request that still waits, and of no
\* other (client.go:402-409).
LEMMA FailKeeps ==
  ASSUME ClientInv, FailPending
  PROVE  ClientInv'
<1> USE DEF ClientInv
<1>1. /\ rpc' = "close" /\ ch' = ChannelsFailed
      /\ pending' = [i \in Ids |-> NoRequest]
      /\ UNCHANGED <<pc, id, left, res, nextID, rcur, srv, scur, intruder, toServer,
                     toClient>>
  BY DEF FailPending, callVars, srvVars
<1>2. \A m \in Requests :
        \/ ch'[m] = ch[m] /\ \A i \in Ids : pending[i] # m
        \/ /\ ch'[m] = "failed" /\ ch[m] = "open"
           /\ pc[m] \in {"write", "wait", "remove"}
  <2> SUFFICES ASSUME NEW m \in Requests
               PROVE  \/ ch'[m] = ch[m] /\ \A i \in Ids : pending[i] # m
                      \/ /\ ch'[m] = "failed" /\ ch[m] = "open"
                         /\ pc[m] \in {"write", "wait", "remove"}
    OBVIOUS
  <2>1. CASE \E i \in Ids : pending[i] = m
    <3>1. PICK i \in Ids : pending[i] = m
      BY <2>1
    <3>2. ch[m] = "open" /\ pc[m] \in {"write", "wait", "remove"}
      BY <3>1, NoRequestAssumption DEF ChannelsMine, PendingMatchesCallers
    <3>3. ch'[m] = "failed"
      BY <1>1, <2>1 DEF ChannelsFailed
    <3> QED
      BY <3>2, <3>3
  <2>2. CASE \A i \in Ids : pending[i] # m
    BY <1>1, <2>2 DEF ChannelsFailed
  <2> QED
    BY <2>1, <2>2
<1>3. \A i \in Ids : pending'[i] = NoRequest
  BY <1>1
<1>4. TypeOK'
  <2>1. ch' \in [Requests -> {"open", "failed"} \cup Requests]
    BY <1>1 DEF TypeOK, ChannelsFailed
  <2> QED
    BY <1>1, <2>1 DEF TypeOK
<1>5. IdsUnique'
  BY <1>1 DEF IdsUnique, HasId
<1>6. FramesLabelled'
  BY <1>1 DEF FramesLabelled, Labelled, HasId
<1>7. ChannelsMine'
  BY <1>1, <1>2, <1>3 DEF ChannelsMine
<1>8. AnswerIsMine'
  BY <1>1, <1>2 DEF AnswerIsMine, ChannelsMine
<1>9. PendingMatchesCallers'
  BY <1>1, <1>2, <1>3 DEF PendingMatchesCallers, TypeOK
<1> QED
  BY <1>4, <1>5, <1>6, <1>7, <1>8, <1>9

\* Behind a Write, every frame of the buffer is the new one or was there.
LEMMA FrameAppended ==
  ASSUME NEW F, NEW s \in Seq(F), NEW f \in F, NEW t, t = Append(s, f)
  PROVE  /\ t \in Seq(F)
         /\ \A i \in 1 .. Len(t) : t[i] = f \/ \E j \in 1 .. Len(s) : t[i] = s[j]
<1>1. t \in Seq(F) /\ Len(t) = Len(s) + 1
  BY AppendProperties
<1>2. \A i \in 1 .. Len(t) : t[i] = f \/ \E j \in 1 .. Len(s) : t[i] = s[j]
  <2> SUFFICES ASSUME NEW i \in 1 .. Len(t)
               PROVE  t[i] = f \/ \E j \in 1 .. Len(s) : t[i] = s[j]
    OBVIOUS
  <2>0. Len(s) \in Nat
    BY LenProperties
  <2>1. CASE i = Len(s) + 1
    BY <2>1, AppendProperties
  <2>2. CASE i # Len(s) + 1
    <3>1. i \in 1 .. Len(s)
      BY <1>1, <2>0, <2>2
    <3> QED
      BY <3>1, AppendProperties
  <2> QED
    BY <2>1, <2>2
<1> QED
  BY <1>1, <1>2

\* Behind a read, every frame of the buffer was there.
LEMMA FrameTaken ==
  ASSUME NEW F, NEW s \in Seq(F), s # <<>>, NEW t, t = Tail(s)
  PROVE  /\ t \in Seq(F) /\ Head(s) \in F
         /\ 1 \in 1 .. Len(s) /\ Head(s) = s[1]
         /\ \A i \in 1 .. Len(t) : \E j \in 1 .. Len(s) : t[i] = s[j]
<1>0. Len(s) \in Nat
  BY LenProperties
<1>1. t \in Seq(F) /\ Head(s) \in F /\ Len(t) = Len(s) - 1 /\ Head(s) = s[1]
  BY HeadTailProperties
<1>2. Len(s) # 0
  BY EmptySeq
<1>3. \A i \in 1 .. Len(t) : \E j \in 1 .. Len(s) : t[i] = s[j]
  <2> SUFFICES ASSUME NEW i \in 1 .. Len(t)
               PROVE  \E j \in 1 .. Len(s) : t[i] = s[j]
    OBVIOUS
  <2>1. i + 1 \in 1 .. Len(s) /\ t[i] = s[i + 1]
    BY <1>0, <1>1, HeadTailProperties
  <2> QED
    BY <2>1
<1> QED
  BY <1>0, <1>1, <1>2, <1>3

\* A frame written by a caller carries the id it was registered under.
LEMMA WriteKeeps ==
  ASSUME ClientInv, NEW k \in Requests, Write(k)
  PROVE  ClientInv'
<1> USE DEF ClientInv
<1> DEFINE f == [id |-> id[k], of |-> k, more |-> left[k] > 1]
           l == IF left[k] > 1 THEN "write" ELSE "wait"
<1>1. /\ pc[k] = "write" /\ toServer' = Append(toServer, f)
      /\ pc' = IF left[k] > 1 THEN pc ELSE [pc EXCEPT ![k] = "wait"]
      /\ UNCHANGED <<id, res, ch, pending, nextID, rpc, rcur, srv, scur, intruder, toClient>>
  BY DEF Write, readVars, srvVars
<1>2. pc' = [pc EXCEPT ![k] = l]
  BY <1>1 DEF TypeOK
<1>3. f \in [id : Ids, of : Requests, more : BOOLEAN] /\ HasId(k)
  BY <1>1 DEF TypeOK, IdsUnique
<1>4. /\ toServer' \in Seq([id : Ids, of : Requests, more : BOOLEAN])
      /\ \A i \in 1 .. Len(toServer') :
           toServer'[i] = f \/ \E j \in 1 .. Len(toServer) : toServer'[i] = toServer[j]
  <2>1. toServer \in Seq([id : Ids, of : Requests, more : BOOLEAN])
    BY DEF TypeOK
  <2> HIDE DEF f
  <2> QED
    BY <1>1, <1>3, <2>1, FrameAppended
<1>5. FramesLabelled'
  <2>1. \A i \in 1 .. Len(toServer') : Labelled(toServer'[i])
    BY <1>3, <1>4 DEF FramesLabelled, Labelled
  <2> QED
    BY <1>1, <2>1 DEF FramesLabelled, Labelled, HasId
<1>6. res'[k] \notin {"ok", "refused"}
  BY <1>1 DEF ChannelsMine
<1>7. res' \in [Requests -> Results]
  BY <1>1 DEF TypeOK
<1>8. l \in {"write", "wait", "remove"}
  OBVIOUS
<1> HIDE DEF l
<1> QED
  BY <1>1, <1>2, <1>4, <1>5, <1>6, <1>7, <1>8, CallerKeeps

\* The read loop takes over a frame's label with the frame.
LEMMA ReadKeeps ==
  ASSUME ClientInv, ReadResponse
  PROVE  ClientInv'
<1> USE DEF ClientInv
<1>1. /\ toClient # <<>> /\ rcur' = Head(toClient) /\ toClient' = Tail(toClient)
      /\ UNCHANGED <<pc, id, res, ch, pending, nextID, srv, scur, intruder, toServer>>
  BY DEF ReadResponse, callVars, chanVars, srvVars
<1>2. /\ toClient' \in Seq([id : Ids, of : Requests, err : BOOLEAN])
      /\ rcur' \in [id : Ids, of : Requests, err : BOOLEAN]
      /\ 1 \in 1 .. Len(toClient) /\ rcur' = toClient[1]
      /\ \A i \in 1 .. Len(toClient') : \E j \in 1 .. Len(toClient) : toClient'[i] = toClient[j]
  <2> DEFINE F == [id : Ids, of : Requests, err : BOOLEAN]
  <2>1. toClient \in Seq(F)
    BY DEF TypeOK
  <2> HIDE DEF F
  <2>2. /\ Tail(toClient) \in Seq(F) /\ Head(toClient) \in F
        /\ 1 \in 1 .. Len(toClient) /\ Head(toClient) = toClient[1]
        /\ \A i \in 1 .. Len(Tail(toClient)) :
             \E j \in 1 .. Len(toClient) : Tail(toClient)[i] = toClient[j]
    BY <1>1, <2>1, FrameTaken
  <2> QED
    BY <1>1, <2>2, Zenon DEF F
<1>3. FramesLabelled'
  <2>1. Labelled(rcur') /\ \A i \in 1 .. Len(toClient') : Labelled(toClient'[i])
    BY <1>2 DEF FramesLabelled
  <2>2. rcur'.of \in Requests
    BY <1>2
  <2> QED
    BY <1>1, <2>1, <2>2 DEF FramesLabelled, Labelled, HasId
<1>4. /\ toServer' \in Seq([id : Ids, of : Requests, more : BOOLEAN])
      /\ scur' \in Requests \cup {NoRequest}
      /\ rcur' \in [id : Ids, of : Requests \cup {NoRequest}, err : BOOLEAN]
  BY <1>1, <1>2 DEF TypeOK
<1> QED
  BY <1>1, <1>2, <1>3, <1>4, WireKeeps

\* The server answers requests it has read, under the id of the frames it read.
LEMMA ServeKeeps ==
  ASSUME ClientInv, Serve
  PROVE  ClientInv'
<1> USE DEF ClientInv
<1>0. /\ toServer \in Seq([id : Ids, of : Requests, more : BOOLEAN])
      /\ toClient \in Seq([id : Ids, of : Requests, err : BOOLEAN])
      /\ rcur \in [id : Ids, of : Requests \cup {NoRequest}, err : BOOLEAN]
      /\ scur \in Requests \cup {NoRequest}
  BY DEF TypeOK
<1>1. CASE ServerReads
  <2> DEFINE f == Head(toServer)
  <2>1. /\ toServer # <<>> /\ toServer' = Tail(toServer) /\ srv \in {"read", "assemble"}
        /\ (scur' = scur /\ srv' = "gone") \/ scur' = f.of
        /\ UNCHANGED <<pc, id, res, ch, pending, nextID, rpc, rcur, toClient>>
    BY <1>1 DEF ServerReads, callVars, chanVars, readVars
  <2>2. /\ toServer' \in Seq([id : Ids, of : Requests, more : BOOLEAN])
        /\ f \in [id : Ids, of : Requests, more : BOOLEAN]
        /\ 1 \in 1 .. Len(toServer) /\ f = toServer[1]
        /\ \A i \in 1 .. Len(toServer') : \E j \in 1 .. Len(toServer) : toServer'[i] = toServer[j]
    <3> DEFINE F == [id : Ids, of : Requests, more : BOOLEAN]
    <3>1. toServer \in Seq(F)
      BY <1>0
    <3> HIDE DEF F
    <3>2. /\ Tail(toServer) \in Seq(F) /\ Head(toServer) \in F
          /\ 1 \in 1 .. Len(toServer) /\ Head(toServer) = toServer[1]
          /\ \A i \in 1 .. Len(Tail(toServer)) :
               \E j \in 1 .. Len(toServer) : Tail(toServer)[i] = toServer[j]
      BY <2>1, <3>1, FrameTaken
    <3> QED
      BY <2>1, <3>2, Zenon DEF F
  <2> HIDE DEF f
  <2>3. f.of \in Requests /\ HasId(f.of)
    BY <2>2 DEF FramesLabelled, Labelled
  <2>4. FramesLabelled'
    <3>1. \A i \in 1 .. Len(toServer') : Labelled(toServer'[i])
      BY <2>2 DEF FramesLabelled
    <3> QED
      BY <2>1, <2>3, <3>1 DEF FramesLabelled, Labelled, HasId
  <2>5. scur' \in Requests \cup {NoRequest}
    BY <1>0, <2>1, <2>3
  <2> QED
    BY <1>0, <2>1, <2>2, <2>4, <2>5, WireKeeps
<1>2. ASSUME NEW err \in BOOLEAN, ServerReplies(err)
      PROVE  ClientInv'
  <2> DEFINE f == [id |-> id[scur], of |-> scur, err |-> err]
  <2>1. /\ toClient' = Append(toClient, f) /\ srv = "reply" /\ srv' \in {"gone", "read"}
        /\ scur' = NoRequest
        /\ UNCHANGED <<pc, id, res, ch, pending, nextID, rpc, rcur, toServer>>
    BY <1>2 DEF ServerReplies, callVars, chanVars, readVars
  <2>2. scur \in Requests /\ HasId(scur)
    BY <2>1 DEF FramesLabelled
  <2>3. f \in [id : Ids, of : Requests, err : BOOLEAN]
    BY <2>2 DEF TypeOK
  <2>4. f.of = scur /\ f.id = id[scur]
    OBVIOUS
  <2> HIDE DEF f
  <2>5. /\ toClient' \in Seq([id : Ids, of : Requests, err : BOOLEAN])
        /\ \A i \in 1 .. Len(toClient') :
             toClient'[i] = f \/ \E j \in 1 .. Len(toClient) : toClient'[i] = toClient[j]
    BY <1>0, <2>1, <2>3, FrameAppended
  <2>6. FramesLabelled'
    <3>1. \A i \in 1 .. Len(toClient') : Labelled(toClient'[i])
      BY <2>2, <2>4, <2>5 DEF FramesLabelled, Labelled
    <3> QED
      BY <2>1, <3>1 DEF FramesLabelled, Labelled, HasId
  <2> QED
    BY <1>0, <2>1, <2>5, <2>6, WireKeeps
<1> QED
  BY <1>1, <1>2 DEF Serve

\* The steps of a caller that leave the connection alone.
LEMMA QuietCallerKeeps ==
  ASSUME ClientInv, NEW k \in Requests,
         Begin(k) \/ WriteFails(k) \/ Receive(k) \/ Timeout(k) \/ CallerContinues(k)
  PROVE  ClientInv'
<1> USE DEF ClientInv
<1>0. /\ UNCHANGED <<id, ch, pending, nextID, rpc, rcur, srv, scur, toServer, toClient>>
      /\ toServer' \in Seq([id : Ids, of : Requests, more : BOOLEAN])
      /\ pc \in [Requests -> {"idle", "lock", "write", "wait", "remove", "returned", "done"}]
      /\ res \in [Requests -> Results]
      /\ res[k] \in {"ok", "refused"} => ch[k] = k /\ pc[k] \in {"returned", "done"}
  BY DEF Begin, WriteFails, Receive, Timeout, CallerContinues, chanVars, readVars, srvVars,
         TypeOK, AnswerIsMine, ChannelsMine
<1>1. FramesLabelled'
  BY <1>0 DEF FramesLabelled, Labelled, HasId
<1>2. PICK l : /\ pc' = [pc EXCEPT ![k] = l]
               /\ \/ pc[k] = "idle" /\ l \in {"lock", "returned"}
                  \/ pc[k] = "write" /\ l \in {"write", "wait", "remove"}
                  \/ pc[k] = "wait" /\ l = "remove"
                  \/ pc[k] = "wait" /\ l = "returned" /\ ch[k] # "open"
                  \/ pc[k] = "returned" /\ l = "done"
               /\ \/ res' = res
                  \/ \E r \in Results : res' = [res EXCEPT ![k] = r] /\
                       (r \in {"ok", "refused"} => ch[k] = k /\ l \in {"returned", "done"})
  <2>1. CASE Begin(k)
    <3>1. "closed" \in Results
      BY DEF Results
    <3>2. CASE closed
      BY <2>1, <3>1, <3>2 DEF Begin, Returns
    <3>3. CASE ~closed
      BY <2>1, <3>3 DEF Begin
    <3> QED
      BY <3>2, <3>3
  <2>2. CASE WriteFails(k)
    BY <2>2 DEF WriteFails, Results
  <2>3. CASE Receive(k)
    <3> DEFINE r == IF ch[k] = "failed" THEN "pendingClosed"
                    ELSE IF refused[k] THEN "refused" ELSE "ok"
    <3>1. /\ pc[k] = "wait" /\ ch[k] # "open"
          /\ pc' = [pc EXCEPT ![k] = "returned"] /\ res' = [res EXCEPT ![k] = r]
      BY <2>3 DEF Receive, Returns
    <3>2. r \in Results /\ (r \in {"ok", "refused"} => ch[k] # "failed")
      BY DEF Results
    <3>3. ch[k] # "failed" => ch[k] = k
      BY <3>1 DEF ChannelsMine
    <3> HIDE DEF r
    <3> QED
      BY <3>1, <3>2, <3>3
  <2>4. CASE Timeout(k)
    BY <2>4 DEF Timeout, Results
  <2>5. CASE CallerContinues(k)
    BY <2>5 DEF CallerContinues
  <2> QED
    BY <2>1, <2>2, <2>3, <2>4, <2>5
<1>3. /\ res' \in [Requests -> Results]
      /\ \A m \in Requests \ {k} : res'[m] = res[m]
      /\ res'[k] \in {"ok", "refused"} => ch[k] = k /\ l \in {"returned", "done"}
  BY <1>0, <1>2
<1> QED
  BY <1>0, <1>1, <1>2, <1>3, CallerKeeps

\* Every step of the specification keeps the invariant.
LEMMA NextKeeps == ClientInv /\ [Next]_vars => ClientInv'
<1> SUFFICES ASSUME ClientInv, [Next]_vars PROVE ClientInv'
  OBVIOUS
<1>1. ASSUME NEW k \in Requests, Begin(k) \/ RoundTrip(k) PROVE ClientInv'
  <2>1. CASE EncodeFrames(k)
    BY <2>1, RegisterKeeps DEF EncodeFrames
  <2>2. CASE EncodeFails(k)
    BY <2>2, RegisterKeeps DEF EncodeFails
  <2>3. CASE Write(k)
    BY <2>3, WriteKeeps
  <2>4. CASE RemovePending(k)
    BY <2>4, RemoveKeeps
  <2> QED
    BY <1>1, <2>1, <2>2, <2>3, <2>4, QuietCallerKeeps DEF RoundTrip
<1>2. CASE ReadResponse
  BY <1>2, ReadKeeps
<1>3. CASE ResolvePending
  BY <1>3, ResolveKeeps
<1>4. CASE FailPending
  BY <1>4, FailKeeps
<1>5. CASE Serve
  BY <1>5, ServeKeeps
<1>6. CASE ReadFails \/ ReadLoopCloses \/ Close \/ ServerHangsUp \/ Finished \/ UNCHANGED vars
  <2>1. /\ UNCHANGED <<pc, id, res, ch, pending, nextID, rcur, scur, toServer, toClient>>
        /\ srv' \in {srv, "gone"} /\ rpc' \in {rpc, "fail", "done"}
    BY <1>6 DEF ReadFails, ReadLoopCloses, Close, ServerHangsUp, Finished, vars, callVars,
                chanVars, readVars, srvVars
  <2>2. FramesLabelled'
    BY <2>1 DEF ClientInv, FramesLabelled, Labelled, HasId
  <2>3. /\ toServer' \in Seq([id : Ids, of : Requests, more : BOOLEAN])
        /\ toClient' \in Seq([id : Ids, of : Requests, err : BOOLEAN])
        /\ rcur' \in [id : Ids, of : Requests \cup {NoRequest}, err : BOOLEAN]
        /\ scur' \in Requests \cup {NoRequest}
    BY <2>1 DEF ClientInv, TypeOK
  <2> QED
    BY <2>1, <2>2, <2>3, WireKeeps
<1> QED
  BY <1>1, <1>2, <1>3, <1>4, <1>5, <1>6 DEF Next, ReadLoop

\* The inductive invariant: stream ids are handed out once, what is on the wire
\* carries its request's id, a channel holds its own request's response.
THEOREM ClientCorrect == Spec => []ClientInv
<1>1. Init => ClientInv
  BY InitHolds
<1>2. ClientInv /\ [Next]_vars => ClientInv'
  BY NextKeeps
<1> QED
  BY <1>1, <1>2, PTL DEF Spec

\* roundTrip returns the answer to its own request and to no other, whatever
\* responses come late, after a timeout or after the connection failed.
THEOREM AnswersMine == Spec => []AnswerIsMine
<1>1. ClientInv => AnswerIsMine
  BY DEF ClientInv
<1> QED
  BY <1>1, ClientCorrect, PTL

\* The pending map holds exactly the requests somebody waits for, on every path
\* out of roundTrip and out of the read loop.
THEOREM PendingCorrect == Spec => []PendingMatchesCallers
<1>1. ClientInv => PendingMatchesCallers
  BY DEF ClientInv
<1> QED
  BY <1>1, ClientCorrect, PTL
=============================================================================
