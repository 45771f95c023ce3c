--------------------------- MODULE InternalProofs ---------------------------
(***************************************************************************)
(* Proofs about two packages under internal/: Balancers, for any           *)
(* backends, weights, replicas and size of the ring, and Executor, for any *)
(* sets of tasks, futures and workers.  They share no state.               *)
(***************************************************************************)
EXTENDS Executor, Balancers, FiniteSetTheorems, WellFoundedInduction, SequenceTheorems,
        TLAPS

\* A backend is listed once.
Listing ==
  /\ strategy \in Strategies /\ list \in Seq(Backends)
  /\ \A i, j \in DOMAIN list : list[i] = list[j] => i = j

\* The invariant of PicksLeast: a scan belongs to the adaptive balancer and has
\* seen some of the list, which does not change meanwhile.
LeastInv ==
  /\ Listing
  /\ count \in [Backends -> Nat] /\ load \in [Backends -> Nat] /\ picks \in [Backends -> Nat]
  /\ scan # NoScan => /\ strategy = "adaptive"
                      /\ scan \in [seen : Seq(Nat), best : Nat, next : Backends]
                      /\ Len(scan.seen) \in 1 .. Len(list)
  /\ PicksLeast

\* The replicas of the members at hash h.
Entries(h) == {p \in Members \X Indices : hash[p[1]][p[2]] = h}

\* Entry i of the list is the last one with a replica at h.
LastEntry(i, h) ==
  /\ h \in HashesOf(list[i])
  /\ \A j \in DOMAIN list : h \in HashesOf(list[j]) => j <= i

\* The invariant of NextIsOwner: the sorted list has every replica of every member,
\* and a hash has no entry of the circle where nobody has a replica or where one was
\* taken away since the last was placed; otherwise the entry is the last member placed.
RingInv ==
  /\ Listing
  /\ strategy = "ipHashing" =>
       /\ hash \in [Backends -> [Indices -> Hashes]]
       /\ circle \in [Hashes -> Backends \cup {NoBackend}]
       /\ sortedHashList = [h \in Hashes |-> Cardinality(Entries(h))]
       /\ \A h \in Hashes :
            circle[h] = NoBackend <=> h \in vacated \/ Entries(h) = {}
       /\ \A h \in Hashes :
            circle[h] # NoBackend => \E i \in DOMAIN list : list[i] = circle[h] /\ LastEntry(i, h)

\* Min of a set of natural numbers is its least element.
LEMMA MinOfNats ==
  ASSUME NEW T, T \subseteq Nat, T # {}
  PROVE  Min(T) \in T /\ \A y \in T : Min(T) <= y
<1>1. PICK x \in T : \A y \in T : ~(<<y, x>> \in OpToRel(<, Nat))
  BY NatLessThanWellFounded, WFMin
<1>2. \A y \in T : ~(y < x)
  BY <1>1 DEF OpToRel
<1>3. \A y \in T : x <= y
  BY <1>2
<1> QED
  BY <1>3 DEF Min

\* The element that bounds the set is its Min.
LEMMA LeastIsMin ==
  ASSUME NEW T, T \subseteq Nat, NEW x \in T, \A y \in T : x <= y
  PROVE  Min(T) = x
<1>1. \A z \in T : (\A y \in T : z <= y) => z = x
  OBVIOUS
<1> QED
  BY <1>1 DEF Min

\* Unregister takes one entry out of the list and no other.
LEMMA EntryGone ==
  ASSUME Listing, NEW b \in Members
  PROVE  /\ EntryRemoved(b) \in Seq(Backends)
         /\ \A i, j \in DOMAIN EntryRemoved(b) :
              EntryRemoved(b)[i] = EntryRemoved(b)[j] => i = j
         /\ ToSet(EntryRemoved(b)) = Members \ {b}
         /\ \A i, j \in DOMAIN EntryRemoved(b), k, l \in DOMAIN list :
              EntryRemoved(b)[i] = list[k] /\ EntryRemoved(b)[j] = list[l] =>
                (i <= j <=> k <= l)
<1> DEFINE n == CHOOSE i \in DOMAIN list : list[i] = b
           before == SubSeq(list, 1, n - 1)
           behind == SubSeq(list, n + 1, Len(list))
           r == before \o behind
<1>1. list \in Seq(Backends) /\ Len(list) \in Nat /\ DOMAIN list = 1 .. Len(list)
  BY DEF Listing
<1>2. n \in 1 .. Len(list) /\ list[n] = b
  <2>1. \E i \in DOMAIN list : list[i] = b
    BY DEF Members, ToSet
  <2> QED
    BY <1>1, <2>1
<1>3. EntryRemoved(b) = r
  BY DEF EntryRemoved, RemoveAt
<1> HIDE DEF n
<1>4. /\ before \in Seq(Backends) /\ Len(before) = n - 1
      /\ \A i \in 1 .. n - 1 : before[i] = list[i]
  BY <1>1, <1>2
<1>5. /\ behind \in Seq(Backends) /\ Len(behind) = Len(list) - n
      /\ \A i \in 1 .. Len(list) - n : behind[i] = list[n + i]
  <2>1. n + 1 \in 1 .. Len(list) + 1 /\ Len(list) \in (n + 1) - 1 .. Len(list)
    BY <1>1, <1>2
  <2>2. /\ behind \in Seq(Backends) /\ Len(behind) = Len(list) - (n + 1) + 1
        /\ \A i \in 1 .. Len(list) - (n + 1) + 1 : behind[i] = list[(n + 1) + i - 1]
    BY <1>1, <2>1, SubSeqProperties
  <2>3. /\ Len(list) - (n + 1) + 1 = Len(list) - n
        /\ \A i \in 1 .. Len(list) - n : (n + 1) + i - 1 = n + i
    BY <1>1, <1>2
  <2> QED
    BY <2>2, <2>3
<1> HIDE DEF before, behind
<1>6. /\ r \in Seq(Backends) /\ DOMAIN r = 1 .. Len(list) - 1
      /\ \A i \in 1 .. n - 1 : r[i] = list[i]
      /\ \A i \in n .. Len(list) - 1 : r[i] = list[i + 1]
  <2>1. r \in Seq(Backends) /\ Len(r) = Len(list) - 1
    <3>1. r \in Seq(Backends) /\ Len(r) = Len(before) + Len(behind)
      BY <1>4, <1>5, ConcatProperties
    <3> QED
      BY <1>1, <1>2, <1>4, <1>5, <3>1
  <2>2. \A i \in 1 .. n - 1 : r[i] = list[i]
    BY <1>1, <1>2, <1>4, <1>5
  <2>3. ASSUME NEW i \in n .. Len(list) - 1 PROVE r[i] = list[i + 1]
    <3>1. i - (n - 1) \in 1 .. Len(list) - n /\ n + (i - (n - 1)) = i + 1
      BY <1>1, <1>2
    <3>2. r[i] = behind[i - (n - 1)]
      BY <1>1, <1>2, <1>4, <1>5, <3>1
    <3> QED
      BY <1>5, <3>1, <3>2
  <2>4. DOMAIN r = 1 .. Len(list) - 1
    BY <2>1
  <2> HIDE DEF r
  <2> QED
    BY <2>1, <2>2, <2>3, <2>4
<1> HIDE DEF r
<1> DEFINE at(i) == IF i < n THEN i ELSE i + 1
<1>7. \A i \in DOMAIN r : r[i] = list[at(i)] /\ at(i) \in DOMAIN list \ {n} /\ i \in Nat
  BY <1>1, <1>2, <1>6
<1>8. \A i, j \in DOMAIN r : r[i] = r[j] => i = j
  <2> SUFFICES ASSUME NEW i \in DOMAIN r, NEW j \in DOMAIN r, r[i] = r[j] PROVE i = j
    OBVIOUS
  <2>1. at(i) = at(j)
    BY <1>7 DEF Listing
  <2> QED
    BY <1>2, <1>7, <2>1
<1>9. \A k \in DOMAIN list \ {n} : \E i \in DOMAIN r : r[i] = list[k]
  <2> SUFFICES ASSUME NEW k \in DOMAIN list, k # n PROVE \E i \in DOMAIN r : r[i] = list[k]
    OBVIOUS
  <2>1. CASE k < n
    BY <1>1, <1>2, <1>6, <2>1
  <2>2. CASE k > n
    <3>1. k - 1 \in n .. Len(list) - 1 /\ (k - 1) + 1 = k
      BY <1>1, <1>2, <2>2
    <3>2. k - 1 \in DOMAIN r /\ r[k - 1] = list[k]
      BY <1>1, <1>2, <1>6, <3>1
    <3> QED
      BY <3>2
  <2> QED
    BY <1>1, <1>2, <2>1, <2>2
<1>10. \A k \in DOMAIN list \ {n} : list[k] # b
  BY <1>1, <1>2 DEF Listing
<1>11. ToSet(r) = Members \ {b}
  BY <1>2, <1>7, <1>9, <1>10 DEF ToSet, Members
<1>12. \A i, j \in DOMAIN r, k, l \in DOMAIN list :
         r[i] = list[k] /\ r[j] = list[l] => (i <= j <=> k <= l)
  <2> SUFFICES ASSUME NEW i \in DOMAIN r, NEW j \in DOMAIN r,
                      NEW k \in DOMAIN list, NEW l \in DOMAIN list,
                      r[i] = list[k], r[j] = list[l]
               PROVE  i <= j <=> k <= l
    OBVIOUS
  <2>1. at(i) = k /\ at(j) = l
    BY <1>7 DEF Listing
  <2> QED
    BY <1>2, <1>7, <2>1
<1> QED
  BY <1>3, <1>6, <1>8, <1>11, <1>12

\* A new entry is the last one.
LEMMA EntryAdded ==
  ASSUME Listing, NEW b \in Backends, b \notin Members
  PROVE  /\ Append(list, b) \in Seq(Backends)
         /\ \A i, j \in DOMAIN Append(list, b) :
              Append(list, b)[i] = Append(list, b)[j] => i = j
         /\ ToSet(Append(list, b)) = Members \cup {b}
<1> DEFINE r == Append(list, b)
<1>1. /\ list \in Seq(Backends) /\ Len(list) \in Nat /\ DOMAIN list = 1 .. Len(list)
      /\ \A i \in DOMAIN list : list[i] # b
  BY DEF Listing, Members, ToSet
<1>2. /\ r \in Seq(Backends) /\ DOMAIN r = DOMAIN list \cup {Len(list) + 1}
      /\ r[Len(list) + 1] = b /\ \A i \in DOMAIN list : r[i] = list[i]
  BY <1>1
<1> HIDE DEF r
<1>3. \A i, j \in DOMAIN r : r[i] = r[j] => i = j
  BY <1>1, <1>2 DEF Listing
<1>4. ToSet(r) = Members \cup {b}
  BY <1>1, <1>2 DEF ToSet, Members
<1> QED
  BY <1>2, <1>3, <1>4 DEF r

\* The steps that change neither the list nor the ring.
LEMMA StepKeeps ==
  ASSUME [BalancerNext]_balancerVars,
         ~ \E b \in Backends, n \in 0 .. MaxWeight : RegisterNew(b, n),
         ~ \E b \in Backends : Unregister(b)
  PROVE  UNCHANGED <<strategy, list, ringVars>>
BY DEF BalancerNext, balancerVars, ringVars, RegisterAgain, LoadChanges, SetWeight,
       RoundRobinNext,
       WeightedRoundRobinNext, WeightedRandomNext, LeastConnectionsNext, RandomNext,
       AdaptiveBegin, AdaptiveRead, AdaptiveEnd

\* Registering keeps a backend listed once.
LEMMA ListingStep == Listing /\ [BalancerNext]_balancerVars => Listing'
<1> SUFFICES ASSUME Listing, [BalancerNext]_balancerVars PROVE Listing'
  OBVIOUS
<1>1. ASSUME NEW b \in Backends, NEW n \in 0 .. MaxWeight, RegisterNew(b, n) PROVE Listing'
  BY <1>1, EntryAdded DEF RegisterNew, Listing
<1>2. ASSUME NEW b \in Backends, Unregister(b) PROVE Listing'
  <2>1. CASE b \in Members
    BY <1>2, <2>1, EntryGone DEF Unregister, Listing
  <2>2. CASE b \notin Members
    BY <1>2, <2>2 DEF Unregister, Listing
  <2> QED
    BY <2>1, <2>2
<1>3. CASE UNCHANGED <<strategy, list, ringVars>>
  BY <1>3 DEF Listing
<1> QED
  BY <1>1, <1>2, <1>3, StepKeeps

\* A hash has as many entries of a backend as the backend has replicas there.
LEMMA TimesOf ==
  ASSUME NEW b, NEW h
  PROVE  Times(b, h) \in Nat /\ (Times(b, h) = 0 <=> h \notin HashesOf(b))
<1> DEFINE T == {i \in Indices : hash[b][i] = h}
<1>1. IsFiniteSet(T)
  <2>1. IsFiniteSet(Indices)
    BY ReplicasAssumption, FS_Interval DEF Indices
  <2>2. T \in SUBSET Indices
    OBVIOUS
  <2> QED
    BY <2>1, <2>2, FS_Subset
<1>2. T = {} <=> h \notin HashesOf(b)
  BY DEF HashesOf
<1> QED
  BY <1>1, <1>2, FS_CardinalityType, FS_EmptySet DEF Times

\* The members are finitely many.
LEMMA MembersFinite == ASSUME Listing PROVE IsFiniteSet(Members) /\ Members \subseteq Backends
<1>1. list \in Seq(Backends) /\ Len(list) \in Nat /\ DOMAIN list = 1 .. Len(list)
  BY DEF Listing
<1>2. Members = {list[i] : i \in 1 .. Len(list)}
  BY <1>1 DEF Members, ToSet
<1>3. IsFiniteSet(1 .. Len(list))
  BY <1>1, FS_Interval
<1>4. IsFiniteSet({list[i] : i \in 1 .. Len(list)})
  <2> DEFINE T == {list[k] : k \in 1 .. Len(list)}
             g == [k \in 1 .. Len(list) |-> list[k]]
  <2>1. g \in Surjection(1 .. Len(list), T)
    BY DEF Surjection
  <2> HIDE DEF g, T
  <2>2. IsFiniteSet(T)
    BY <1>3, <2>1, FS_Surjection
  <2> QED
    BY <2>2 DEF T
<1> QED
  BY <1>1, <1>2, <1>4

\* A hash has finitely many replicas, and as many of a backend as Times says.
LEMMA EntriesOf ==
  ASSUME Listing, NEW h
  PROVE  /\ IsFiniteSet(Entries(h)) /\ Cardinality(Entries(h)) \in Nat
         /\ Cardinality(Entries(h)) = 0 <=> Entries(h) = {}
         /\ Entries(h) = {} <=> \A i \in DOMAIN list : h \notin HashesOf(list[i])
<1>1. IsFiniteSet(Members \X Indices)
  <2>1. IsFiniteSet(Indices)
    BY ReplicasAssumption, FS_Interval DEF Indices
  <2>2. IsFiniteSet(Members)
    BY MembersFinite
  <2> QED
    BY <2>1, <2>2, FS_Product
<1>2. IsFiniteSet(Entries(h))
  BY <1>1, FS_Subset DEF Entries
<1>3. Entries(h) = {} <=> \A i \in DOMAIN list : h \notin HashesOf(list[i])
  <2>1. Members = {list[i] : i \in DOMAIN list}
    BY DEF Members, ToSet
  <2>2. ASSUME NEW p \in Entries(h) PROVE \E i \in DOMAIN list : h \in HashesOf(list[i])
    BY <2>1 DEF Entries, HashesOf
  <2>3. ASSUME NEW i \in DOMAIN list, h \in HashesOf(list[i]) PROVE Entries(h) # {}
    <3>1. PICK m \in Indices : hash[list[i]][m] = h
      BY <2>3 DEF HashesOf
    <3>2. <<list[i], m>> \in Entries(h)
      BY <2>1, <3>1 DEF Entries
    <3> QED
      BY <3>2
  <2> QED
    BY <2>2, <2>3
<1> QED
  BY <1>2, <1>3, FS_CardinalityType, FS_EmptySet

\* The replicas of one backend at a hash.
LEMMA OwnEntries ==
  ASSUME NEW b, NEW h
  PROVE  LET own == {p \in {b} \X Indices : hash[p[1]][p[2]] = h}
         IN  IsFiniteSet(own) /\ Cardinality(own) = Times(b, h)
<1> DEFINE own == {p \in {b} \X Indices : hash[p[1]][p[2]] = h}
           T == {i \in Indices : hash[b][i] = h}
           f == [i \in T |-> <<b, i>>]
<1>1. IsFiniteSet(T)
  <2>1. IsFiniteSet(Indices)
    BY ReplicasAssumption, FS_Interval DEF Indices
  <2> QED
    BY <2>1, FS_Subset
<1>2. f \in Bijection(T, own)
  <2>1. f \in [T -> own]
    OBVIOUS
  <2>2. \A i, j \in T : f[i] = f[j] => i = j
    OBVIOUS
  <2>3. \A p \in own : \E i \in T : f[i] = p
    <3> SUFFICES ASSUME NEW p \in own PROVE \E i \in T : f[i] = p
      OBVIOUS
    <3>1. p = <<b, p[2]>> /\ p[2] \in T
      OBVIOUS
    <3>2. f[p[2]] = p
      BY <3>1
    <3> QED
      BY <3>1, <3>2
  <2> QED
    BY <2>1, <2>2, <2>3 DEF Bijection, Injection, Surjection, IsInjective
<1>3. Cardinality(own) = Cardinality(T) /\ IsFiniteSet(own)
  BY <1>1, <1>2, FS_Bijection DEF ExistsBijection
<1> QED
  BY <1>3 DEF Times

\* Placing a backend adds its replicas and takes over every hash it has.
LEMMA RingGrows ==
  ASSUME RingInv, strategy = "ipHashing", NEW b \in Backends, NEW n, RegisterNew(b, n)
  PROVE  RingInv'
<1> USE NoBackendAssumption
<1>1. /\ hash \in [Backends -> [Indices -> Hashes]] /\ hash' = hash
      /\ strategy' = strategy /\ b \notin Members
      /\ circle \in [Hashes -> Backends \cup {NoBackend}]
  BY DEF RingInv, RegisterNew, Placed
<1>2. Listing /\ Listing' /\ Members' = Members \cup {b} /\ list' = Append(list, b)
  BY EntryAdded DEF RingInv, RegisterNew, Listing, Members
<1>3. /\ circle' = [h \in Hashes |-> IF h \in HashesOf(b) THEN b ELSE circle[h]]
      /\ sortedHashList' = [h \in Hashes |-> sortedHashList[h] + Times(b, h)]
      /\ vacated' = vacated \ HashesOf(b)
  BY DEF RegisterNew, Placed
<1>4. \A a : HashesOf(a)' = HashesOf(a)
  BY <1>1 DEF HashesOf
<1>5. /\ Len(list) \in Nat /\ DOMAIN list = 1 .. Len(list)
      /\ DOMAIN list' = 1 .. Len(list) + 1 /\ list'[Len(list) + 1] = b
      /\ \A i \in DOMAIN list : list'[i] = list[i]
  BY <1>2 DEF Listing
<1> DEFINE own(h) == {p \in {b} \X Indices : hash[p[1]][p[2]] = h}
<1>6. \A h : Entries(h)' = Entries(h) \cup own(h) /\ Entries(h) \cap own(h) = {}
  BY <1>1, <1>2 DEF Entries
<1>7. sortedHashList' = [h \in Hashes |-> Cardinality(Entries(h)')]
  <2>1. ASSUME NEW h \in Hashes
        PROVE  sortedHashList[h] + Times(b, h) = Cardinality(Entries(h)')
    <3>a. IsFiniteSet(Entries(h))
      BY <1>2, EntriesOf
    <3>b. IsFiniteSet(own(h)) /\ Cardinality(own(h)) = Times(b, h)
      BY OwnEntries
    <3>1. IsFiniteSet(Entries(h)) /\ IsFiniteSet(own(h)) /\ Cardinality(own(h)) = Times(b, h)
      BY <3>a, <3>b
    <3>2. Entries(h) \cap own(h) = {} /\ Entries(h)' = Entries(h) \cup own(h)
      BY <1>6
    <3>3. /\ Cardinality(Entries(h) \cup own(h))
               = Cardinality(Entries(h)) + Cardinality(own(h)) - Cardinality(Entries(h) \cap own(h))
          /\ Cardinality(Entries(h)) \in Nat /\ Cardinality(own(h)) \in Nat
      BY <3>1, FS_Union, FS_CardinalityType
    <3>4. Cardinality(Entries(h) \cap own(h)) = 0
      BY <3>2, FS_EmptySet
    <3>5. sortedHashList[h] = Cardinality(Entries(h))
      BY DEF RingInv
    <3> HIDE DEF own
    <3> QED
      BY <3>1, <3>2, <3>3, <3>4, <3>5
  <2> QED
    BY <1>3, <2>1
<1>8. circle' \in [Hashes -> Backends \cup {NoBackend}]
  BY <1>1, <1>3
<1>9. \A h : own(h) = {} <=> h \notin HashesOf(b)
  <2> SUFFICES ASSUME NEW h PROVE own(h) = {} <=> h \notin HashesOf(b)
    OBVIOUS
  <2>1. ASSUME NEW p \in own(h) PROVE h \in HashesOf(b)
    BY DEF HashesOf
  <2>2. ASSUME h \in HashesOf(b) PROVE own(h) # {}
    <3>1. PICK m \in Indices : hash[b][m] = h
      BY <2>2 DEF HashesOf
    <3>2. <<b, m>> \in own(h)
      BY <3>1
    <3> QED
      BY <3>2
  <2> QED
    BY <2>1, <2>2
<1> HIDE DEF own
<1>10. ASSUME NEW h \in Hashes
       PROVE  circle'[h] = NoBackend <=> h \in vacated' \/ Entries(h)' = {}
  <2>1. circle[h] = NoBackend <=> h \in vacated \/ Entries(h) = {}
    BY DEF RingInv
  <2> QED
    BY <1>1, <1>3, <1>6, <1>9, <2>1
<1>11. ASSUME NEW h \in Hashes, circle'[h] # NoBackend
       PROVE  \E i \in DOMAIN list' : list'[i] = circle'[h] /\ LastEntry(i, h)'
  <2>1. CASE h \in HashesOf(b)
    <3>0. PICK m : m = Len(list) + 1
      OBVIOUS
    <3>1. list'[m] = circle'[h] /\ m \in DOMAIN list'
      BY <1>3, <1>5, <2>1, <3>0
    <3>2. LastEntry(m, h)'
      BY <1>4, <1>5, <2>1, <3>0 DEF LastEntry
    <3> QED
      BY <3>1, <3>2
  <2>2. CASE h \notin HashesOf(b)
    <3>1. circle'[h] = circle[h]
      BY <1>3, <2>2
    <3>2. PICK i \in DOMAIN list : list[i] = circle[h] /\ LastEntry(i, h)
      BY <1>11, <3>1 DEF RingInv
    <3>3. list'[i] = circle'[h] /\ i \in DOMAIN list'
      BY <1>5, <3>1, <3>2
    <3>4. LastEntry(i, h)'
      BY <1>4, <1>5, <2>2, <3>2 DEF LastEntry
    <3> QED
      BY <3>3, <3>4
  <2> QED
    BY <2>1, <2>2
<1> QED
  BY <1>1, <1>2, <1>7, <1>8, <1>10, <1>11 DEF RingInv

\* A backend that goes takes its own replicas from the sorted list, and every entry
\* of the circle at its hashes.
LEMMA RingShrinks ==
  ASSUME RingInv, strategy = "ipHashing", NEW b \in Backends, b \in Members, Unregister(b)
  PROVE  RingInv'
<1> USE NoBackendAssumption
<1>1. /\ hash \in [Backends -> [Indices -> Hashes]] /\ hash' = hash
      /\ strategy' = strategy
      /\ circle \in [Hashes -> Backends \cup {NoBackend}]
  BY DEF RingInv, Unregister, Taken
<1>2. /\ Listing /\ Listing' /\ Members' = Members \ {b}
      /\ \A i, j \in DOMAIN list', k, l \in DOMAIN list :
           list'[i] = list[k] /\ list'[j] = list[l] => (i <= j <=> k <= l)
  BY EntryGone DEF RingInv, Unregister, Listing, Members
<1>3. /\ circle' = [h \in Hashes |-> IF h \in HashesOf(b) THEN NoBackend ELSE circle[h]]
      /\ sortedHashList' = [h \in Hashes |-> Max({0, sortedHashList[h] - Times(b, h)})]
      /\ vacated' = vacated \cup HashesOf(b)
  BY DEF Unregister, Taken, Unlisted
<1>4. \A a : HashesOf(a)' = HashesOf(a)
  BY <1>1 DEF HashesOf
<1> DEFINE own(h) == {p \in {b} \X Indices : hash[p[1]][p[2]] = h}
<1>6. \A h : Entries(h) = Entries(h)' \cup own(h) /\ Entries(h)' \cap own(h) = {}
  BY <1>1, <1>2 DEF Entries
<1>7. sortedHashList' = [h \in Hashes |-> Cardinality(Entries(h)')]
  <2>0. \A m \in Nat : Max({0, m}) = m
    <3> SUFFICES ASSUME NEW m \in Nat PROVE Max({0, m}) = m
      OBVIOUS
    <3>1. \A z \in {0, m} : (\A y \in {0, m} : z >= y) => z = m
      OBVIOUS
    <3>2. m \in {0, m} /\ \A y \in {0, m} : m >= y
      OBVIOUS
    <3> QED
      BY <3>1, <3>2 DEF Max
  <2>1. ASSUME NEW h \in Hashes
        PROVE  Max({0, sortedHashList[h] - Times(b, h)}) = Cardinality(Entries(h)')
    <3>a. IsFiniteSet(Entries(h))
      BY <1>2, EntriesOf
    <3>b. IsFiniteSet(own(h)) /\ Cardinality(own(h)) = Times(b, h)
      BY OwnEntries
    <3>1. IsFiniteSet(Entries(h)) /\ IsFiniteSet(own(h)) /\ Cardinality(own(h)) = Times(b, h)
      BY <3>a, <3>b
    <3>2. Entries(h)' \cap own(h) = {} /\ Entries(h) = Entries(h)' \cup own(h)
      BY <1>6
    <3>3. IsFiniteSet(Entries(h)')
      BY <3>1, <3>2, FS_Subset
    <3>4. /\ Cardinality(Entries(h)' \cup own(h))
               = Cardinality(Entries(h)') + Cardinality(own(h)) - Cardinality(Entries(h)' \cap own(h))
          /\ Cardinality(Entries(h)') \in Nat /\ Cardinality(own(h)) \in Nat
      BY <3>1, <3>3, FS_Union, FS_CardinalityType
    <3>5. Cardinality(Entries(h)' \cap own(h)) = 0
      BY <3>2, FS_EmptySet
    <3>6. sortedHashList[h] = Cardinality(Entries(h))
      BY DEF RingInv
    <3> HIDE DEF own
    <3>7. sortedHashList[h] - Times(b, h) = Cardinality(Entries(h)')
      BY <3>1, <3>2, <3>4, <3>5, <3>6
    <3> QED
      BY <2>0, <3>4, <3>7
  <2> QED
    BY <1>3, <2>1
<1>8. circle' \in [Hashes -> Backends \cup {NoBackend}]
  BY <1>1, <1>3
<1>9. \A h : h \notin HashesOf(b) => own(h) = {}
  BY DEF HashesOf
<1> HIDE DEF own
<1>10. ASSUME NEW h \in Hashes
       PROVE  circle'[h] = NoBackend <=> h \in vacated' \/ Entries(h)' = {}
  <2>1. circle[h] = NoBackend <=> h \in vacated \/ Entries(h) = {}
    BY DEF RingInv
  <2> QED
    BY <1>1, <1>3, <1>6, <1>9, <2>1
<1>11. ASSUME NEW h \in Hashes, circle'[h] # NoBackend
       PROVE  \E i \in DOMAIN list' : list'[i] = circle'[h] /\ LastEntry(i, h)'
  <2>1. h \notin HashesOf(b) /\ circle'[h] = circle[h]
    BY <1>3, <1>11
  <2>2. PICK k \in DOMAIN list : list[k] = circle[h] /\ LastEntry(k, h)
    BY <1>11, <2>1 DEF RingInv
  <2>3. Members = {list[m] : m \in DOMAIN list} /\ Members' = {list'[m] : m \in DOMAIN list'}
    BY DEF Members, ToSet
  <2>4. list[k] # b /\ list[k] \in Members'
    BY <1>2, <2>1, <2>2, <2>3 DEF LastEntry
  <2>5. PICK i \in DOMAIN list' : list'[i] = list[k]
    BY <2>3, <2>4
  <2>6. ASSUME NEW j \in DOMAIN list', h \in HashesOf(list'[j]) PROVE j <= i
    <3>0. list'[j] \in Members
      BY <1>2, <2>3
    <3>1. PICK l \in DOMAIN list : list[l] = list'[j]
      BY <2>3, <3>0
    <3>2. l <= k
      BY <2>2, <2>6, <3>1 DEF LastEntry
    <3> QED
      BY <1>2, <2>5, <3>1, <3>2
  <2>7. LastEntry(i, h)'
    BY <1>4, <2>2, <2>5, <2>6 DEF LastEntry
  <2> QED
    BY <2>1, <2>2, <2>5, <2>7
<1> QED
  BY <1>1, <1>2, <1>7, <1>8, <1>10, <1>11 DEF RingInv

\* Every action keeps the ring what registrations and removals made it.
LEMMA RingStep == RingInv /\ [BalancerNext]_balancerVars => RingInv'
<1> SUFFICES ASSUME RingInv, [BalancerNext]_balancerVars PROVE RingInv'
  OBVIOUS
<1>1. Listing' /\ strategy' = strategy
  <2>1. strategy' = strategy
    BY StepKeeps DEF RegisterNew, Unregister
  <2> QED
    BY <2>1, ListingStep DEF RingInv
<1>2. CASE strategy # "ipHashing"
  BY <1>1, <1>2 DEF RingInv
<1>3. CASE strategy = "ipHashing" /\ UNCHANGED <<list, ringVars>>
  <2>1. UNCHANGED <<list, hash, circle, sortedHashList, vacated>>
    BY <1>3 DEF ringVars
  <2>2. /\ \A h : Entries(h)' = Entries(h)
        /\ \A i, h : LastEntry(i, h)' = LastEntry(i, h)
    BY <2>1 DEF HashesOf, Members, Entries, LastEntry
  <2> QED
    BY <1>1, <1>3, <2>1, <2>2 DEF RingInv
<1>4. CASE strategy = "ipHashing" /\ \E b \in Backends, n \in 0 .. MaxWeight : RegisterNew(b, n)
  BY <1>4, RingGrows
<1>5. ASSUME strategy = "ipHashing", NEW b \in Backends, Unregister(b) PROVE RingInv'
  <2>1. CASE b \in Members
    BY <1>5, <2>1, RingShrinks
  <2>2. CASE b \notin Members
    BY <1>3, <1>5, <2>2 DEF Unregister, Taken
  <2> QED
    BY <2>1, <2>2
<1> QED
  BY <1>2, <1>3, <1>4, <1>5, StepKeeps

\* The clockwise distance from k to h, as in Nearest.
Clockwise(k, h) == IF h >= k THEN h - k ELSE h - k + MaxHash + 1

\* The search of ipHashing finds the listed hash that is nearest clockwise.
LEMMA FoundIsNearest ==
  ASSUME NEW k \in Hashes, Listed # {}
  PROVE  /\ Found(k) \in Listed
         /\ \A h \in Listed : Clockwise(k, Found(k)) <= Clockwise(k, h)
<1> DEFINE above == {h \in Listed : h >= k}
<1>1. MaxHash \in Nat /\ k \in Nat /\ k <= MaxHash
  BY BoundsAssumption DEF Hashes
<1>2. \A h \in Listed : h \in Nat /\ h <= MaxHash
  BY <1>1 DEF Listed, Hashes
<1>3. CASE above # {}
  <2>1. Found(k) = Min(above)
    BY <1>3 DEF Found
  <2>2. above \subseteq Nat
    BY <1>2
  <2>3. Min(above) \in above /\ \A h \in above : Min(above) <= h
    BY <1>3, <2>2, MinOfNats
  <2>4. Found(k) \in Listed /\ Found(k) >= k /\ \A h \in Listed : h >= k => Found(k) <= h
    BY <2>1, <2>3
  <2> QED
    BY <1>1, <1>2, <2>4 DEF Clockwise
<1>4. CASE above = {}
  <2>1. Found(k) = Min(Listed)
    BY <1>4 DEF Found
  <2>2. Listed \subseteq Nat
    BY <1>2
  <2>3. Min(Listed) \in Listed /\ \A h \in Listed : Min(Listed) <= h
    BY <2>2, MinOfNats
  <2>4. \A h \in Listed : ~(h >= k)
    BY <1>4
  <2> QED
    BY <1>1, <1>2, <2>1, <2>3, <2>4 DEF Clockwise
<1> QED
  BY <1>3, <1>4

\* What the search finds is the nearest replica of a member.
LEMMA FoundIs ==
  ASSUME RingInv, strategy = "ipHashing", list # <<>>, NEW k \in Hashes
  PROVE  Found(k) \in Listed /\ Found(k) = Nearest(k)
<1> DEFINE f == Found(k)
           taken == UNION {HashesOf(b) : b \in Members}
<1>0. MaxHash \in Nat /\ k \in 0 .. MaxHash /\ 1 \in Indices
  BY BoundsAssumption, ReplicasAssumption DEF Hashes, Indices
<1>1. /\ hash \in [Backends -> [Indices -> Hashes]]
      /\ sortedHashList = [h \in Hashes |-> Cardinality(Entries(h))]
      /\ Listing /\ list \in Seq(Backends) /\ 1 \in DOMAIN list
  BY DEF RingInv, Listing
<1>2. Members = {list[i] : i \in DOMAIN list} /\ \A i \in DOMAIN list : list[i] \in Backends
  BY <1>1 DEF Members, ToSet
<1>3. taken \subseteq Hashes /\ hash[list[1]][1] \in taken
  BY <1>0, <1>1, <1>2 DEF HashesOf
<1>4. Listed = taken
  <2>1. ASSUME NEW h \in Hashes PROVE h \in Listed <=> h \in taken
    <3>1. sortedHashList[h] > 0 <=> Entries(h) # {}
      BY <1>1, EntriesOf
    <3>2. Entries(h) # {} <=> \E i \in DOMAIN list : h \in HashesOf(list[i])
      BY <1>1, EntriesOf
    <3> QED
      BY <1>2, <3>1, <3>2 DEF Listed
  <2> QED
    BY <1>3, <2>1 DEF Listed
<1>5. f \in taken /\ \A h \in taken : Clockwise(k, f) <= Clockwise(k, h)
  BY <1>3, <1>4, FoundIsNearest
<1>6. \A h \in taken : h \in Nat /\ h <= MaxHash
  BY <1>0, <1>3 DEF Hashes
<1>7. Nearest(k) = CHOOSE h \in taken : \A g \in taken : Clockwise(k, h) <= Clockwise(k, g)
  BY DEF Nearest, Clockwise
<1> HIDE DEF f, taken
<1>8. ASSUME NEW h \in taken, \A g \in taken : Clockwise(k, h) <= Clockwise(k, g) PROVE h = f
  <2>1. Clockwise(k, h) <= Clockwise(k, f) /\ Clockwise(k, f) <= Clockwise(k, h)
    BY <1>5, <1>8
  <2> QED
    BY <1>0, <1>5, <1>6, <2>1 DEF Clockwise
<1>9. Nearest(k) = f
  BY <1>5, <1>7, <1>8
<1> QED
  BY <1>4, <1>5, <1>9 DEF f

\* The circle has the last member placed at the hash that is found.
LEMMA RingAnswers == RingInv => NextIsOwner
<1> SUFFICES ASSUME RingInv, strategy = "ipHashing", list # <<>>, NEW k \in Hashes
             PROVE  Lookup(k) = IF Nearest(k) \in vacated THEN NoBackend ELSE LastAt(Nearest(k))
  BY DEF NextIsOwner
<1> DEFINE h == Nearest(k)
<1>1. Found(k) = h /\ h \in Listed
  BY FoundIs
<1>2. h \in Hashes /\ Entries(h) # {} /\ Listing
  <2>1. h \in Hashes /\ sortedHashList[h] > 0
    BY <1>1 DEF Listed
  <2>2. Listing /\ sortedHashList[h] = Cardinality(Entries(h))
    BY <2>1 DEF RingInv
  <2> QED
    BY <2>1, <2>2, EntriesOf
<1> HIDE DEF h
<1>3. Lookup(k) = circle[h]
  BY <1>1, <1>2 DEF Lookup
<1>4. circle[h] = NoBackend <=> h \in vacated
  BY <1>2 DEF RingInv
<1>5. ASSUME h \notin vacated PROVE circle[h] = LastAt(h)
  <2>1. PICK i \in DOMAIN list : list[i] = circle[h] /\ LastEntry(i, h)
    BY <1>2, <1>4, <1>5 DEF RingInv
  <2> DEFINE T == {j \in DOMAIN list : h \in HashesOf(list[j])}
  <2>2. i \in T /\ \A j \in T : i >= j
    BY <1>2, <2>1 DEF LastEntry, Listing
  <2>3. \A j \in T : (\A m \in T : j >= m) => j = i
    BY <1>2, <2>2 DEF Listing
  <2>4. Max(T) = i
    BY <2>2, <2>3 DEF Max
  <2> QED
    BY <2>1, <2>4 DEF LastAt
<1> QED
  BY <1>3, <1>4, <1>5 DEF h

\* ipHashing answers with the owner of a key for any backends, any number of
\* replicas, any hash function and any size of the ring, shared hashes included.
THEOREM OwnerAnswers == BalancerSpec => []NextIsOwner
<1>1. BalancerInit => RingInv
  <2> SUFFICES ASSUME BalancerInit PROVE RingInv
    OBVIOUS
  <2>1. list = <<>> /\ strategy \in Strategies /\ Members = {}
    BY DEF BalancerInit, Members, ToSet
  <2>2. Listing
    BY <2>1 DEF Listing
  <2>3. strategy = "ipHashing" => hash \in [Backends -> [Indices -> Hashes]]
    BY DEF BalancerInit, InitRing
  <2>4. circle = [h \in Hashes |-> NoBackend] /\ sortedHashList = [h \in Hashes |-> 0]
    BY DEF BalancerInit, InitRing
  <2>5. \A h : Entries(h) = {} /\ Cardinality(Entries(h)) = 0
    BY <2>1, FS_EmptySet DEF Entries
  <2> QED
    BY <2>1, <2>2, <2>3, <2>4, <2>5, NoBackendAssumption DEF RingInv
<1> QED
  BY <1>1, RingStep, RingAnswers, PTL DEF BalancerSpec

-----------------------------------------------------------------------------
\* leastConnections picks a registered backend and none has a smaller count.
LEMMA LeastIs ==
  ASSUME Listing, count \in [Backends -> Nat], list # <<>>
  PROVE  Least \in Members /\ \A b \in Members : count[Least] <= count[b]
<1> DEFINE counts == {count[b] : b \in Members}
           least == {i \in 1 .. Len(list) : \A b \in Members : count[list[i]] <= count[b]}
<1>1. /\ list \in Seq(Backends) /\ Len(list) \in Nat /\ 1 \in 1 .. Len(list)
      /\ DOMAIN list = 1 .. Len(list)
  BY DEF Listing
<1>2. Members = {list[i] : i \in 1 .. Len(list)} /\ Members \subseteq Backends /\ Members # {}
  BY <1>1 DEF Members, ToSet
<1>3. counts \subseteq Nat /\ counts # {}
  BY <1>2
<1>4. Min(counts) \in counts /\ \A y \in counts : Min(counts) <= y
  BY <1>3, MinOfNats
<1>5. PICK b \in Members : \A a \in Members : count[b] <= count[a]
  BY <1>4
<1>6. least \subseteq Nat /\ least # {}
  <2>1. PICK i \in 1 .. Len(list) : list[i] = b
    BY <1>2, <1>5
  <2>2. i \in least
    BY <1>5, <2>1
  <2>3. \A j \in 1 .. Len(list) : j \in Nat
    BY <1>1
  <2> QED
    BY <2>2, <2>3
<1>7. Min(least) \in least
  BY <1>6, MinOfNats
<1>8. Least = list[Min(least)]
  BY DEF Least
<1> QED
  BY <1>2, <1>7, <1>8

\* Every action keeps the counts level and the scan's candidate the best seen.
LEMMA LeastStep == LeastInv /\ [BalancerNext]_balancerVars => LeastInv'
<1> SUFFICES ASSUME LeastInv, [BalancerNext]_balancerVars PROVE LeastInv'
  OBVIOUS
<1>0. /\ Listing' /\ strategy' = strategy /\ 0 .. MaxWeight \subseteq Nat
      /\ NoPicks \in [Backends -> Nat] /\ \A b \in Backends : NoPicks[b] = 0
  <2>1. strategy' = strategy
    BY StepKeeps DEF RegisterNew, Unregister
  <2>2. 0 .. MaxWeight \subseteq Nat
    BY BoundsAssumption
  <2> QED
    BY <2>1, <2>2, ListingStep DEF LeastInv, NoPicks
<1>1. /\ count \in [Backends -> Nat] /\ load \in [Backends -> Nat] /\ picks \in [Backends -> Nat]
      /\ list \in Seq(Backends) /\ Members \subseteq Backends
      /\ Len(list) \in Nat /\ DOMAIN list = 1 .. Len(list)
  BY DEF LeastInv, Listing, Members, ToSet
<1>2. /\ list' \in Seq(Backends) /\ Members' \subseteq Backends
  BY <1>0 DEF Listing, Members, ToSet
<1>3. ASSUME scan = NoScan, scan' = scan, load' = load, picks' = NoPicks,
             count' \in [Backends -> Nat]
      PROVE  LeastInv'
  BY <1>0, <1>1, <1>2, <1>3 DEF LeastInv, PicksLeast
<1>4. ASSUME UNCHANGED <<list, scan, count, picks>>, load' \in [Backends -> Nat]
      PROVE  LeastInv'
  BY <1>0, <1>1, <1>4 DEF LeastInv, PicksLeast, Members
<1>5. ASSUME UNCHANGED <<list, scan, count, load>>,
             strategy \notin {"leastConnections", "adaptive"},
             picks' \in [Backends -> Nat]
      PROVE  LeastInv'
  BY <1>0, <1>1, <1>5 DEF LeastInv, PicksLeast
<1>6. ASSUME NEW b, Picked(b) PROVE picks' \in [Backends -> Nat]
  <2>1. picks' = [picks EXCEPT ![b] = picks[b] + 1]
    BY <1>6 DEF Picked
  <2>2. CASE b \in Backends
    <3>1. picks[b] + 1 \in Nat
      BY <1>1, <2>2
    <3> QED
      BY <1>1, <2>1, <3>1
  <2>3. CASE b \notin Backends
    BY <1>1, <2>1, <2>3
  <2> QED
    BY <2>2, <2>3
<1>7. ASSUME NEW b \in Backends, NEW n \in 0 .. MaxWeight, RegisterNew(b, n) PROVE LeastInv'
  BY <1>0, <1>1, <1>3, <1>7 DEF RegisterNew, Unlocked
<1>8. ASSUME NEW b \in Backends, NEW n \in 0 .. MaxWeight, RegisterAgain(b, n) PROVE LeastInv'
  BY <1>0, <1>1, <1>3, <1>8 DEF RegisterAgain, Unlocked
<1>9. ASSUME NEW b \in Backends, NEW n \in 0 .. MaxWeight, LoadChanges(b, n) PROVE LeastInv'
  BY <1>0, <1>1, <1>4, <1>9 DEF LoadChanges
<1>10. ASSUME NEW b \in Backends, NEW n \in -1 .. MaxWeight, SetWeight(b, n) PROVE LeastInv'
  BY <1>0, <1>5, <1>10 DEF SetWeight, Weighted
<1>11. ASSUME NEW b \in Backends, Unregister(b) PROVE LeastInv'
  BY <1>0, <1>1, <1>3, <1>11 DEF Unregister, Unlocked
<1>12. CASE RoundRobinNext \/ WeightedRoundRobinNext \/ WeightedRandomNext \/ RandomNext
  BY <1>1, <1>5, <1>6, <1>12
     DEF RoundRobinNext, WeightedRoundRobinNext, WeightedRandomNext, RandomNext
<1>13. CASE LeastConnectionsNext
  <2>1. Least \in Members /\ \A b \in Members : count[Least] <= count[b]
    BY <1>1, <1>13, LeastIs DEF LeastConnectionsNext, LeastInv
  <2> DEFINE l == Least
  <2>2. /\ count' = [count EXCEPT ![l] = @ + 1] /\ Picked(l) /\ strategy = "leastConnections"
        /\ UNCHANGED <<list, scan, load>>
    BY <1>13 DEF LeastConnectionsNext, Counted
  <2> HIDE DEF l
  <2>3. /\ picks' = [picks EXCEPT ![l] = @ + 1] /\ l \in Members /\ l \in Backends
        /\ \A b \in Members : count[l] <= count[b]
    BY <1>1, <2>1, <2>2 DEF Picked, l
  <2>4. scan = NoScan
    BY <2>2 DEF LeastInv
  <2>5. Members' = Members /\ count' \in [Backends -> Nat]
    BY <1>1, <2>2, <2>3 DEF Members
  <2>6. ASSUME NEW a \in Members, NEW b \in Members, picks'[a] > 0
        PROVE  count'[a] <= count'[b] + 1
    <3>1. /\ a \in Backends /\ b \in Backends /\ count[a] \in Nat /\ count[b] \in Nat
          /\ count[l] \in Nat /\ count'[b] \in Nat /\ count'[b] >= count[b]
      BY <1>1, <2>2, <2>3
    <3>2. CASE a = l
      <4>1. count'[a] = count[l] + 1 /\ count[l] <= count[b]
        BY <1>1, <2>2, <2>3, <3>2
      <4> QED
        BY <3>1, <4>1
    <3>3. CASE a # l
      <4>1. count'[a] = count[a] /\ picks[a] > 0
        BY <1>1, <2>2, <2>3, <2>6, <3>1, <3>3
      <4>2. count[a] <= count[b] + 1
        BY <2>2, <4>1 DEF LeastInv, PicksLeast
      <4> QED
        BY <3>1, <4>1, <4>2
    <3> QED
      BY <3>2, <3>3
  <2>7. picks' \in [Backends -> Nat] /\ load' \in [Backends -> Nat] /\ scan' = NoScan
    BY <1>1, <1>6, <2>2, <2>4
  <2> QED
    BY <1>0, <2>5, <2>6, <2>7 DEF LeastInv, PicksLeast
<1>14. CASE AdaptiveBegin
  <2> DEFINE x == load[list[1]]
  <2>1. /\ strategy = "adaptive" /\ UNCHANGED <<list, count, load, picks>>
        /\ scan' = [seen |-> <<x>>, best |-> x, next |-> list[1]]
        /\ 1 \in DOMAIN list /\ list[1] \in Backends /\ x \in Nat
    BY <1>1, <1>14 DEF AdaptiveBegin
  <2> HIDE DEF x
  <2>2. /\ scan'.seen = <<x>> /\ scan'.best = x /\ scan'.next = list'[1]
        /\ scan' \in [seen : Seq(Nat), best : Nat, next : Backends]
        /\ Len(scan'.seen) \in 1 .. Len(list')
    BY <1>1, <2>1
  <2>3. ToSet(<<x>>) = {x} /\ DOMAIN <<x>> = {1} /\ <<x>>[1] = x
    BY DEF ToSet
  <2>4. Min({x}) = x
    BY <2>1, LeastIsMin
  <2>5. /\ scan'.best = Min(ToSet(scan'.seen))
        /\ \E i \in DOMAIN scan'.seen : scan'.seen[i] = scan'.best /\ list'[i] = scan'.next
    BY <2>2, <2>3, <2>4
  <2>6. /\ count' \in [Backends -> Nat] /\ load' \in [Backends -> Nat]
        /\ picks' \in [Backends -> Nat] /\ strategy' = "adaptive"
    BY <1>0, <1>1, <2>1
  <2> QED
    BY <1>0, <2>2, <2>5, <2>6 DEF LeastInv, PicksLeast
<1>15. CASE AdaptiveRead
  <2> DEFINE n == Len(scan.seen)
             b == list[n + 1]
             x == load[b]
             seen == Append(scan.seen, x)
  <2>1. /\ n \in 1 .. Len(list) - 1 /\ UNCHANGED <<list, count, load, picks>>
        /\ \/ scan' = [seen |-> seen, best |-> x, next |-> b] /\ x <= scan.best
           \/ scan' = [scan EXCEPT !.seen = seen] /\ x >= scan.best
    BY <1>15 DEF AdaptiveRead, Scanned
  <2>2. scan # NoScan
    BY <2>1 DEF NoScan
  <2>3. /\ strategy = "adaptive" /\ scan \in [seen : Seq(Nat), best : Nat, next : Backends]
        /\ scan.best = Min(ToSet(scan.seen))
        /\ \E i \in DOMAIN scan.seen : scan.seen[i] = scan.best /\ list[i] = scan.next
    BY <2>2 DEF LeastInv, PicksLeast
  <2>4. b \in Backends /\ x \in Nat /\ scan.seen \in Seq(Nat) /\ n \in Nat
    BY <1>1, <2>1, <2>3
  <2> HIDE DEF b, x
  <2>5. /\ seen \in Seq(Nat) /\ Len(seen) = n + 1 /\ seen[n + 1] = x
        /\ DOMAIN scan.seen = 1 .. n /\ DOMAIN seen = 1 .. n + 1
        /\ \A i \in 1 .. n : seen[i] = scan.seen[i]
    BY <2>4
  <2>6. ToSet(seen) = ToSet(scan.seen) \cup {x} /\ ToSet(scan.seen) \subseteq Nat
    BY <2>4, <2>5 DEF ToSet
  <2>7. scan.best \in ToSet(scan.seen) /\ \A y \in ToSet(scan.seen) : scan.best <= y
    <3>1. 1 \in DOMAIN scan.seen
      BY <1>1, <2>1, <2>5
    <3>2. ToSet(scan.seen) # {}
      BY <3>1 DEF ToSet
    <3> QED
      BY <2>3, <2>6, <3>2, MinOfNats
  <2>8. scan'.seen = seen /\ scan' \in [seen : Seq(Nat), best : Nat, next : Backends]
    <3> HIDE DEF n, seen
    <3>1. CASE scan' = [seen |-> seen, best |-> x, next |-> b]
      BY <2>4, <2>5, <3>1
    <3>2. CASE scan' = [scan EXCEPT !.seen = seen]
      BY <2>3, <2>5, <3>2
    <3> QED
      BY <2>1, <3>1, <3>2
  <2> HIDE DEF n, seen
  <2>9. scan'.best = Min(ToSet(seen))
    <3>1. \A z \in ToSet(seen) : (\A y \in ToSet(seen) : z <= y) => Min(ToSet(seen)) = z
      BY <2>4, <2>6, LeastIsMin
    <3>2. scan'.best \in ToSet(seen) /\ \A y \in ToSet(seen) : scan'.best <= y
      BY <2>1, <2>3, <2>4, <2>6, <2>7
    <3> QED
      BY <3>1, <3>2
  <2>10. \E i \in DOMAIN seen : seen[i] = scan'.best /\ list[i] = scan'.next
    <3>1. CASE scan' = [seen |-> seen, best |-> x, next |-> b]
      <4>1. n + 1 \in DOMAIN seen /\ seen[n + 1] = scan'.best /\ list[n + 1] = scan'.next
        BY <2>4, <2>5, <3>1 DEF b
      <4> QED
        BY <4>1
    <3>2. CASE scan' = [scan EXCEPT !.seen = seen]
      <4>1. scan'.best = scan.best /\ scan'.next = scan.next
        BY <2>3, <3>2
      <4>2. PICK i \in 1 .. n : scan.seen[i] = scan.best /\ list[i] = scan.next
        BY <2>3, <2>5
      <4>3. i \in DOMAIN seen /\ seen[i] = scan.seen[i]
        BY <2>4, <2>5
      <4> QED
        BY <4>1, <4>2, <4>3
    <3> QED
      BY <2>1, <3>1, <3>2
  <2>11. Len(scan'.seen) \in 1 .. Len(list')
    <3>1. Len(scan'.seen) = n + 1 /\ Len(list') = Len(list)
      BY <2>1, <2>5, <2>8
    <3>2. Len(list) \in Nat /\ n \in 1 .. Len(list) - 1
      BY <1>1, <2>1
    <3>3. n + 1 \in 1 .. Len(list)
      BY <3>2
    <3> QED
      BY <3>1, <3>3
  <2>12. /\ count' \in [Backends -> Nat] /\ load' \in [Backends -> Nat]
         /\ picks' \in [Backends -> Nat] /\ strategy' = "adaptive" /\ list' = list
    BY <1>0, <1>1, <2>1, <2>3
  <2> QED
    BY <1>0, <2>8, <2>9, <2>10, <2>11, <2>12 DEF LeastInv, PicksLeast
<1>16. CASE AdaptiveEnd
  <2>1. /\ scan' = NoScan /\ UNCHANGED <<list, count, load>> /\ strategy = "adaptive"
        /\ picks' \in [Backends -> Nat]
    BY <1>6, <1>16 DEF AdaptiveEnd, LeastInv
  <2> QED
    BY <1>0, <1>1, <2>1 DEF LeastInv, PicksLeast
<1>17. CASE UNCHANGED balancerVars
  BY <1>1, <1>4, <1>17 DEF balancerVars
<1> QED
  BY <1>7, <1>8, <1>9, <1>10, <1>11, <1>12, <1>13, <1>14, <1>15, <1>16, <1>17 DEF BalancerNext

\* A balancer begins with an empty list.
LEMMA LeastInit == BalancerInit => LeastInv
<1> SUFFICES ASSUME BalancerInit PROVE LeastInv
  OBVIOUS
<1>1. list = <<>> /\ strategy \in Strategies /\ Members = {} /\ scan = NoScan
  BY DEF BalancerInit, Members, ToSet
<1>2. Listing
  BY <1>1 DEF Listing
<1>3. NoPicks \in [Backends -> Nat] /\ count = NoPicks /\ load = NoPicks /\ picks = NoPicks
  BY DEF BalancerInit, NoPicks
<1> QED
  BY <1>1, <1>2, <1>3 DEF LeastInv, PicksLeast

\* leastConnections levels the counts and the adaptive scan keeps the best of what
\* it has seen while loads change under it, for any backends, counts and loads.
THEOREM LeastPicked == BalancerSpec => []PicksLeast
<1>1. BalancerInit => LeastInv
  BY LeastInit
<1>2. LeastInv => PicksLeast
  BY DEF LeastInv
<1> QED
  BY <1>1, <1>2, LeastStep, PTL DEF BalancerSpec
-----------------------------------------------------------------------------
(* Sums over sets of backends                                              *)

\* A backend has as many units as its number says.
LEMMA UnitsOfOne ==
  ASSUME NEW x, NEW n \in Int
  PROVE  /\ IsFiniteSet({x} \X (1 .. n))
         /\ Cardinality({x} \X (1 .. n)) = IF n > 0 THEN n ELSE 0
<1>2. IsFiniteSet(1 .. n) /\ Cardinality(1 .. n) = IF n > 0 THEN n ELSE 0
  BY FS_Interval
<1>3. IsFiniteSet({x}) /\ Cardinality({x}) = 1
  BY FS_Singleton
<1>4. /\ IsFiniteSet({x} \X (1 .. n))
      /\ Cardinality({x} \X (1 .. n)) = 1 * Cardinality(1 .. n)
  BY <1>2, <1>3, FS_Product
<1> QED
  BY <1>2, <1>4

\* There are finitely many units.
LEMMA UnitsFinite ==
  ASSUME NEW f, NEW S, IsFiniteSet(S), \A x \in S : f[x] \in Int
  PROVE  IsFiniteSet(Units(f, S)) /\ Cardinality(Units(f, S)) \in Nat
<1> DEFINE own(x) == {x} \X (1 .. f[x])
           all == {own(x) : x \in S}
           g == [x \in S |-> own(x)]
<1>1. g \in Surjection(S, all)
  BY DEF Surjection
<1>2. IsFiniteSet(all)
  <2> HIDE DEF g, all
  <2> QED
    BY <1>1, FS_Surjection
<1>3. \A T \in all : IsFiniteSet(T)
  BY UnitsOfOne
<1>4. IsFiniteSet(UNION all)
  <2> HIDE DEF all
  <2> QED
    BY <1>2, <1>3, FS_UNION
<1> QED
  BY <1>4, FS_CardinalityType DEF Units

\* The units of one more backend are apart from the others.
LEMMA UnitsGrow ==
  ASSUME NEW f, NEW S, IsFiniteSet(S), NEW b, b \notin S, \A x \in S \cup {b} : f[x] \in Int
  PROVE  Cardinality(Units(f, S \cup {b})) =
           Cardinality(Units(f, S)) + IF f[b] > 0 THEN f[b] ELSE 0
<1> DEFINE own == {b} \X (1 .. f[b])
<1>1. IsFiniteSet(own) /\ Cardinality(own) = IF f[b] > 0 THEN f[b] ELSE 0
  <2>1. f[b] \in Int
    OBVIOUS
  <2> QED
    BY <2>1, UnitsOfOne
<1>2. IsFiniteSet(Units(f, S)) /\ Cardinality(Units(f, S)) \in Nat
  BY UnitsFinite
<1>3. Units(f, S \cup {b}) = Units(f, S) \cup own
  BY DEF Units
<1>4. Units(f, S) \cap own = {}
  BY DEF Units
<1> HIDE DEF own
<1>5. Cardinality(Units(f, S) \cup own) =
        Cardinality(Units(f, S)) + Cardinality(own) - Cardinality(Units(f, S) \cap own)
  BY <1>1, <1>2, FS_Union
<1>6. Cardinality({}) = 0 /\ Cardinality(own) \in Nat
  BY <1>1, FS_EmptySet, FS_CardinalityType
<1>7. Cardinality(Units(f, S \cup {b})) = Cardinality(Units(f, S)) + Cardinality(own)
  <2>1. \A x, y \in Nat : x + y - 0 = x + y
    OBVIOUS
  <2>2. Cardinality(Units(f, S) \cup own) = Cardinality(Units(f, S)) + Cardinality(own) - 0
    BY <1>4, <1>5, <1>6, Zenon
  <2> QED
    BY <1>2, <1>3, <1>6, <2>1, <2>2, Zenon
<1> QED
  BY <1>1, <1>7

\* A sum takes one backend after the other.
LEMMA SumAdds ==
  ASSUME NEW f, NEW S, IsFiniteSet(S), NEW b, b \notin S, \A x \in S \cup {b} : f[x] \in Int
  PROVE  /\ SumOf(f, S) \in Int /\ SumOf(f, S \cup {b}) = SumOf(f, S) + f[b]
<1>p. PICK T : T = S \cup {b}
  OBVIOUS
<1> DEFINE m == [x \in S |-> -f[x]]
           n == [x \in T |-> -f[x]]
<1>1. /\ Cardinality(Units(f, S)) \in Nat
      /\ Cardinality(Units(f, T)) = Cardinality(Units(f, S)) + IF f[b] > 0 THEN f[b] ELSE 0
  BY <1>p, UnitsGrow, UnitsFinite
<1>2. \A x \in T : n[x] = -f[x] /\ n[x] \in Int
  BY <1>p
<1>3. Units(m, S) = Units(n, S)
  BY <1>p DEF Units
<1> HIDE DEF m, n
<1>4. /\ Cardinality(Units(n, S)) \in Nat
      /\ Cardinality(Units(n, T)) = Cardinality(Units(n, S)) + IF n[b] > 0 THEN n[b] ELSE 0
  BY <1>p, <1>2, UnitsGrow, UnitsFinite
<1>5. SumOf(f, S) = Cardinality(Units(f, S)) - Cardinality(Units(n, S))
  BY <1>3 DEF SumOf, m
<1>6. SumOf(f, T) = Cardinality(Units(f, T)) - Cardinality(Units(n, T))
  BY DEF SumOf, n
<1>7. b \in T /\ f[b] \in Int /\ n[b] = -f[b]
  BY <1>p, <1>2
<1> QED
  BY <1>p, <1>1, <1>4, <1>5, <1>6, <1>7

\* The sum over nothing.
LEMMA SumOfNone == ASSUME NEW f PROVE SumOf(f, {}) = 0
<1>1. \A g : Units(g, {}) = {}
  BY DEF Units
<1> QED
  BY <1>1, FS_EmptySet DEF SumOf

\* Only the values over the set matter.
LEMMA SumSame ==
  ASSUME NEW f, NEW g, NEW S, \A x \in S : f[x] = g[x]
  PROVE  SumOf(f, S) = SumOf(g, S)
<1>1. Units(f, S) = Units(g, S)
  BY DEF Units
<1>2. [x \in S |-> -f[x]] = [x \in S |-> -g[x]]
  OBVIOUS
<1> QED
  BY <1>1, <1>2 DEF SumOf

\* A sum is a number, and that of nothing negative grows with the set.
LEMMA SumGrows ==
  ASSUME NEW f, NEW T, IsFiniteSet(T), NEW S, S \subseteq T, \A x \in T : f[x] \in Nat
  PROVE  SumOf(f, S) \in Nat /\ SumOf(f, T) \in Nat /\ SumOf(f, S) <= SumOf(f, T)
<1>1. ASSUME NEW R, R \subseteq T
      PROVE  /\ IsFiniteSet(Units(f, R)) /\ Cardinality(Units(f, R)) \in Nat
             /\ SumOf(f, R) = Cardinality(Units(f, R))
  <2>1. IsFiniteSet(R)
    BY <1>1, FS_Subset
  <2>2. IsFiniteSet(Units(f, R)) /\ Cardinality(Units(f, R)) \in Nat
    BY <1>1, <2>1, UnitsFinite
  <2>3. \A x \in R : 1 .. -f[x] = {}
    BY <1>1
  <2>4. Units([x \in R |-> -f[x]], R) = {}
    BY <2>3 DEF Units
  <2> QED
    BY <2>2, <2>4, FS_EmptySet DEF SumOf
<1>2. Units(f, S) \in SUBSET Units(f, T)
  BY DEF Units
<1> QED
  BY <1>1, <1>2, FS_Subset

\* One unit more for a backend of the set is one more in the sum.
LEMMA SumCounts ==
  ASSUME NEW f, NEW S, IsFiniteSet(S)
  PROVE  \A g : \A b \in S :
           /\ \A x \in S : f[x] \in Int
           /\ g[b] \in Int /\ \A x \in S \ {b} : g[x] = f[x]
           => SumOf(g, S) = SumOf(f, S) - f[b] + g[b]
<1> SUFFICES ASSUME NEW g, NEW b \in S, \A x \in S : f[x] \in Int,
                    g[b] \in Int, \A x \in S \ {b} : g[x] = f[x]
             PROVE  SumOf(g, S) = SumOf(f, S) - f[b] + g[b]
  OBVIOUS
<1>p. PICK R : R = S \ {b}
  OBVIOUS
<1>1. IsFiniteSet(R) /\ S = R \cup {b} /\ b \notin R
  BY <1>p, FS_Subset
<1>2. SumOf(f, R) \in Int /\ SumOf(f, S) = SumOf(f, R) + f[b]
  BY <1>1, SumAdds
<1>3. SumOf(g, S) = SumOf(g, R) + g[b]
  <2>1. \A x \in R \cup {b} : g[x] \in Int
    BY <1>p, <1>1
  <2> QED
    BY <1>1, <2>1, SumAdds
<1>4. SumOf(g, R) = SumOf(f, R)
  BY <1>p, SumSame
<1>5. f[b] \in Int
  OBVIOUS
<1> QED
  BY <1>2, <1>3, <1>4, <1>5

-----------------------------------------------------------------------------
(* The shares of the backends of a list                                    *)

\* A list that has every backend once, each of a positive weight.
Shared(l, w) ==
  /\ l \in Seq(Backends) /\ \A i, j \in 1 .. Len(l) : l[i] = l[j] => i = j
  /\ \A i \in 1 .. Len(l) : w[l[i]] \in Nat \ {0}

\* The weights of the first i backends together.
Upto(l, w, i) == SumOf(w, ToSet(SubSeq(l, 1, i)))

\* The backend whose share of the weights has r.
Holding(l, w, r) == l[Min({i \in 1 .. Len(l) : r < Upto(l, w, i)})]

\* The share of a backend.
Part(l, w, b) == {r \in 0 .. Upto(l, w, Len(l)) - 1 : Holding(l, w, r) = b}

\* The backends of the beginning of a list.
LEMMA FirstOnes ==
  ASSUME NEW l \in Seq(Backends), NEW i \in 0 .. Len(l)
  PROVE  ToSet(SubSeq(l, 1, i)) = {l[k] : k \in 1 .. i} /\ IsFiniteSet(ToSet(SubSeq(l, 1, i)))
<1>0. Len(l) \in Nat
  OBVIOUS
<1>p. PICK s : s = SubSeq(l, 1, i)
  OBVIOUS
<1>1. DOMAIN s = 1 .. i /\ \A k \in 1 .. i : s[k] = l[k]
  BY <1>0, <1>p
<1>2. ToSet(s) = {l[k] : k \in 1 .. i}
  BY <1>1 DEF ToSet
<1>3. IsFiniteSet({l[k] : k \in 1 .. i})
  <2> DEFINE T == {l[k] : k \in 1 .. i}
             g == [k \in 1 .. i |-> l[k]]
  <2>1. g \in Surjection(1 .. i, T)
    BY DEF Surjection
  <2>2. IsFiniteSet(1 .. i)
    BY FS_Interval
  <2> HIDE DEF g, T
  <2>3. IsFiniteSet(T)
    BY <2>1, <2>2, FS_Surjection
  <2> QED
    BY <2>3 DEF T
<1> QED
  BY <1>p, <1>2, <1>3

\* The prefix sums of a list.
LEMMA PrefixSums ==
  ASSUME NEW l, NEW w, Shared(l, w), NEW n, n = Len(l)
  PROVE  /\ n \in Nat /\ Upto(l, w, 0) = 0 /\ Upto(l, w, n) = SumOf(w, ToSet(l))
         /\ \A i \in 0 .. n : Upto(l, w, i) \in Nat
         /\ \A i \in 1 .. n : Upto(l, w, i) = Upto(l, w, i - 1) + w[l[i]]
         /\ \A i, j \in 0 .. n : i <= j => Upto(l, w, i) <= Upto(l, w, j)
<1>0. /\ l \in Seq(Backends) /\ \A i, j \in 1 .. n : l[i] = l[j] => i = j
      /\ \A i \in 1 .. n : w[l[i]] \in Nat \ {0}
  BY DEF Shared
<1>1. n \in Nat
  BY <1>0
<1> DEFINE F(i) == {l[k] : k \in 1 .. i}
<1>2. \A i \in 0 .. n : ToSet(SubSeq(l, 1, i)) = F(i) /\ IsFiniteSet(F(i))
  <2> SUFFICES ASSUME NEW i \in 0 .. n
               PROVE  ToSet(SubSeq(l, 1, i)) = F(i) /\ IsFiniteSet(F(i))
    OBVIOUS
  <2>1. /\ ToSet(SubSeq(l, 1, i)) = {l[k] : k \in 1 .. i}
        /\ IsFiniteSet(ToSet(SubSeq(l, 1, i)))
    BY <1>0, FirstOnes
  <2> QED
    BY <2>1
<1>3. Upto(l, w, 0) = 0
  <2>1. F(0) = {}
    OBVIOUS
  <2>2. 0 \in 0 .. n
    BY <1>1
  <2> QED
    BY <1>2, <2>1, <2>2, SumOfNone DEF Upto
<1>4. Upto(l, w, n) = SumOf(w, ToSet(l))
  <2>1. SubSeq(l, 1, n) = l
    BY <1>0
  <2> QED
    BY <2>1 DEF Upto
<1>5. ASSUME NEW i \in 0 .. n, NEW j \in 0 .. n, i <= j
      PROVE  Upto(l, w, i) \in Nat /\ Upto(l, w, i) <= Upto(l, w, j)
  <2>1. F(i) \subseteq F(j)
    BY <1>1, <1>5
  <2>2. \A x \in F(j) : w[x] \in Nat
    BY <1>0, <1>1
  <2>3. IsFiniteSet(F(j))
    BY <1>2
  <2>4. SumOf(w, F(i)) \in Nat /\ SumOf(w, F(i)) <= SumOf(w, F(j))
    BY <2>1, <2>2, <2>3, SumGrows
  <2> QED
    BY <1>2, <2>4 DEF Upto
<1>6. ASSUME NEW i \in 1 .. n PROVE Upto(l, w, i) = Upto(l, w, i - 1) + w[l[i]]
  <2>0. i - 1 \in 0 .. n /\ i \in 0 .. n
    BY <1>1
  <2>1. F(i) = F(i - 1) \cup {l[i]}
    <3>1. \A k : k \in 1 .. i <=> (k \in 1 .. i - 1 \/ k = i)
      BY <1>1
    <3> QED
      BY <3>1
  <2>2. l[i] \notin F(i - 1)
    <3>1. \A k \in 1 .. i - 1 : k \in 1 .. n /\ k # i
      BY <1>1
    <3> QED
      BY <1>0, <3>1
  <2>3. \A x \in F(i - 1) \cup {l[i]} : w[x] \in Int
    BY <1>0, <1>1, <2>0
  <2>4. IsFiniteSet(F(i - 1))
    BY <1>2, <2>0
  <2> HIDE DEF F
  <2>5. SumOf(w, F(i - 1) \cup {l[i]}) = SumOf(w, F(i - 1)) + w[l[i]]
    BY <2>2, <2>3, <2>4, SumAdds
  <2> QED
    BY <1>2, <2>0, <2>1, <2>5 DEF Upto
<1>7. \A i \in 0 .. n : Upto(l, w, i) \in Nat
  BY <1>1, <1>5
<1> QED
  BY <1>1, <1>3, <1>4, <1>5, <1>6, <1>7

\* The first prefix that exceeds r is that of the backend whose share has r.
LEMMA ShareOf ==
  ASSUME NEW l, NEW w, Shared(l, w), NEW n, n = Len(l)
  PROVE  /\ \A r \in Nat, j \in 1 .. n :
              Upto(l, w, j - 1) <= r /\ r < Upto(l, w, j) => Holding(l, w, r) = l[j]
         /\ \A r \in Nat : r < Upto(l, w, n) =>
              \E j \in 1 .. n : Upto(l, w, j - 1) <= r /\ r < Upto(l, w, j)
<1>0. /\ n \in Nat /\ Upto(l, w, 0) = 0
      /\ \A i \in 0 .. n : Upto(l, w, i) \in Nat
      /\ \A i, j \in 0 .. n : i <= j => Upto(l, w, i) <= Upto(l, w, j)
  BY PrefixSums
<1> DEFINE Over(r) == {i \in 1 .. n : r < Upto(l, w, i)}
<1>1. \A r : Over(r) \subseteq Nat
  BY <1>0
<1>2. ASSUME NEW r \in Nat, NEW j \in 1 .. n, Upto(l, w, j - 1) <= r, r < Upto(l, w, j)
      PROVE  Min(Over(r)) = j
  <2>1. j \in Over(r) /\ j \in Nat
    BY <1>0, <1>2
  <2>2. ASSUME NEW i \in Over(r), i < j PROVE FALSE
    <3>1. i \in 1 .. n /\ i <= j - 1 /\ i \in 0 .. n /\ j - 1 \in 0 .. n
      BY <1>0, <2>2
    <3>2. Upto(l, w, i) <= Upto(l, w, j - 1) /\ Upto(l, w, i) \in Nat /\ Upto(l, w, j - 1) \in Nat
      BY <1>0, <3>1
    <3> QED
      BY <1>2, <3>2
  <2>3. \A i \in Over(r) : j <= i
    BY <1>0, <1>1, <2>1, <2>2
  <2>4. Min(Over(r)) \in Over(r) /\ \A y \in Over(r) : Min(Over(r)) <= y
    BY <1>1, <2>1, MinOfNats
  <2> HIDE DEF Over
  <2> QED
    BY <1>1, <2>1, <2>3, <2>4
<1>3. ASSUME NEW r \in Nat, r < Upto(l, w, n)
      PROVE  \E j \in 1 .. n : Upto(l, w, j - 1) <= r /\ r < Upto(l, w, j)
  <2>1. n # 0
    BY <1>0, <1>3
  <2>2. n \in Over(r)
    BY <1>0, <1>3, <2>1
  <2>6. Min(Over(r)) \in Over(r) /\ \A y \in Over(r) : Min(Over(r)) <= y
    <3> HIDE DEF Over
    <3> QED
      BY <1>1, <2>2, MinOfNats
  <2>3. PICK m : m = Min(Over(r)) /\ m \in Over(r) /\ \A y \in Over(r) : m <= y
    BY <2>6
  <2>4. m \in 1 .. n /\ r < Upto(l, w, m) /\ m - 1 \in 0 .. n
    BY <1>0, <2>3
  <2>5. Upto(l, w, m - 1) <= r
    <3>1. CASE m - 1 = 0
      BY <1>0, <3>1
    <3>2. CASE m - 1 # 0
      <4>1. m - 1 \in 1 .. n /\ ~(m <= m - 1)
        BY <1>0, <2>4, <3>2
      <4>2. ~(r < Upto(l, w, m - 1))
        BY <2>3, <4>1
      <4>3. Upto(l, w, m - 1) \in Nat
        BY <1>0, <2>4
      <4> QED
        BY <4>2, <4>3
    <3> QED
      BY <3>1, <3>2
  <2> QED
    BY <2>3, <2>4, <2>5
<1> QED
  BY <1>2, <1>3 DEF Holding

\* As many numbers as its weight are in a backend's share.
LEMMA ShareSize ==
  ASSUME NEW l, NEW w, Shared(l, w), NEW j \in 1 .. Len(l)
  PROVE  Cardinality(Part(l, w, l[j])) = w[l[j]]
<1>n. PICK n : n = Len(l)
  OBVIOUS
<1>0. /\ n \in Nat /\ Upto(l, w, 0) = 0
      /\ \A i \in 0 .. n : Upto(l, w, i) \in Nat
      /\ \A i \in 1 .. n : Upto(l, w, i) = Upto(l, w, i - 1) + w[l[i]]
      /\ \A i, k \in 0 .. n : i <= k => Upto(l, w, i) <= Upto(l, w, k)
      /\ \A i, k \in 1 .. n : l[i] = l[k] => i = k
      /\ w[l[j]] \in Nat \ {0} /\ j \in 1 .. n
  BY <1>n, PrefixSums DEF Shared
<1>1. /\ \A r \in Nat, k \in 1 .. n :
           Upto(l, w, k - 1) <= r /\ r < Upto(l, w, k) => Holding(l, w, r) = l[k]
      /\ \A r \in Nat : r < Upto(l, w, n) =>
           \E k \in 1 .. n : Upto(l, w, k - 1) <= r /\ r < Upto(l, w, k)
  BY <1>n, ShareOf
<1>p. PICK t, a, b : t = Upto(l, w, n) /\ a = Upto(l, w, j - 1) /\ b = Upto(l, w, j)
  OBVIOUS
<1>2. t \in Nat /\ a \in Nat /\ b \in Nat /\ b = a + w[l[j]] /\ b <= t
  <2>1. n \in 0 .. n /\ j \in 0 .. n /\ j - 1 \in 0 .. n /\ j <= n
    BY <1>0
  <2> QED
    BY <1>p, <1>0, <2>1
<1>3. ASSUME NEW r \in 0 .. t - 1 PROVE Holding(l, w, r) = l[j] <=> r \in a .. b - 1
  <2>0. r \in Nat /\ r < t
    BY <1>2
  <2>1. PICK k \in 1 .. n : Upto(l, w, k - 1) <= r /\ r < Upto(l, w, k)
    BY <1>p, <1>1, <2>0
  <2>2. Holding(l, w, r) = l[k]
    BY <1>1, <2>0, <2>1
  <2>3. Holding(l, w, r) = l[j] <=> k = j
    BY <1>0, <2>2
  <2>4. k = j => r \in a .. b - 1
    <3> SUFFICES ASSUME k = j PROVE r \in a .. b - 1
      OBVIOUS
    <3>1. a <= r /\ r < b
      BY <1>p, <2>1
    <3> QED
      BY <1>2, <2>0, <3>1
  <2>5. r \in a .. b - 1 => Holding(l, w, r) = l[j]
    <3> SUFFICES ASSUME r \in a .. b - 1 PROVE Holding(l, w, r) = l[j]
      OBVIOUS
    <3>1. Upto(l, w, j - 1) <= r /\ r < Upto(l, w, j)
      BY <1>p, <1>2, <2>0
    <3> QED
      BY <1>0, <1>1, <2>0, <3>1
  <2> QED
    BY <2>2, <2>3, <2>4, <2>5
<1>4. Part(l, w, l[j]) = a .. b - 1
  <2>1. \A r \in a .. b - 1 : r \in 0 .. t - 1
    BY <1>2
  <2> QED
    BY <1>n, <1>p, <1>3, <2>1 DEF Part
<1>5. Cardinality(a .. b - 1) = w[l[j]]
  <2>p. PICK c : c = b - 1
    OBVIOUS
  <2>x. PICK x \in Nat \ {0} : x = w[l[j]]
    BY <1>0
  <2>0. a \in Int /\ c \in Int /\ ~(a > c) /\ c - a + 1 = x
    <3>1. b = a + x
      BY <1>2, <2>x
    <3> QED
      BY <3>1, <1>2, <2>p
  <2>1. Cardinality(a .. c) = c - a + 1
    BY <2>0, FS_Interval
  <2> QED
    BY <2>p, <2>x, <2>0, <2>1
<1> QED
  BY <1>4, <1>5

-----------------------------------------------------------------------------
(* Positions                                                               *)

\* The position that follows.
LEMMA NextPosition ==
  ASSUME NEW t \in Nat \ {0}, NEW p \in Nat, NEW m, m = p % t
  PROVE  m \in 0 .. t - 1 /\ (p + 1) % t = IF m + 1 = t THEN 0 ELSE m + 1
<1>1. PICK d \in Nat : d = p \div t
  OBVIOUS
<1>2. p = t * d + m /\ m \in 0 .. t - 1
  BY <1>1
<1>3. CASE m + 1 = t
  <2>1. p + 1 = t * (d + 1)
    BY <1>1, <1>2, <1>3
  <2>2. (t * (d + 1)) % t = 0
    OBVIOUS
  <2> QED
    BY <1>2, <1>3, <2>1, <2>2
<1>4. CASE m + 1 # t
  <2>1. p + 1 = t * d + (m + 1) /\ m + 1 \in 0 .. t - 1
    BY <1>1, <1>2, <1>4
  <2>2. \A e \in 0 .. t - 1 : (t * d + e) % t = e
    OBVIOUS
  <2> QED
    BY <1>2, <1>4, <2>1, <2>2
<1> QED
  BY <1>3, <1>4

\* A position within the turn.
LEMMA PositionWithin == ASSUME NEW t \in Nat \ {0}, NEW p \in 0 .. t - 1 PROVE p % t = p
  OBVIOUS

\* Whole turns.
LEMMA WholeTurns ==
  ASSUME NEW t \in Nat \ {0}, NEW q \in Nat, NEW e \in 0 .. t - 1, (q * t + e) % t = 0
  PROVE  e = 0
  OBVIOUS

\* Products.
LEMMA Products == \A q, t, x \in Int : (q * x) * t = x * (q * t) /\ (q + 1) * x = q * x + x
  OBVIOUS

-----------------------------------------------------------------------------
(* Turns of the two round robins                                           *)

RoundRobins == {"roundRobin", "weightedRoundRobin"}

\* The picks a backend has in a turn.
Picks(k, w) == IF k = "roundRobin" THEN [b \in Backends |-> 1] ELSE w

\* The backend that is picked when the position becomes r.
Place(k, l, w, r) ==
  IF k = "roundRobin" THEN l[IF r = 0 THEN Len(l) ELSE r]
                      ELSE Holding(l, w, r)

\* The positions after s up to p, around a turn of t.
Visited(s, p, t) == IF p >= s THEN s + 1 .. p ELSE (s + 1 .. t - 1) \cup (0 .. p)

\* How often a backend is picked at the positions D.
Visits(k, l, w, D, b) == Cardinality({r \in D : Place(k, l, w, r) = b})

\* The backends had their picks of q turns that began after the position s, and
\* those of the positions visited since.
Turns(k, l, w, p, pk) ==
  LET t == SumOf(Picks(k, w), ToSet(l))
  IN  \E q \in Nat, s \in 0 .. t - 1 :
        /\ SumOf(pk, ToSet(l)) = q * t + Cardinality(Visited(s, p % t, t))
        /\ \A b \in ToSet(l) :
             pk[b] = q * Picks(k, w)[b] + Visits(k, l, w, Visited(s, p % t, t), b)

\* Backends of weight one have as many picks as there are of them.
LEMMA Ones ==
  ASSUME NEW l, NEW w, Shared(l, w), NEW n, n = Len(l), \A i \in 1 .. n : w[l[i]] = 1
  PROVE  Upto(l, w, n) = n
<1>0. /\ n \in Nat /\ Upto(l, w, 0) = 0
      /\ \A i \in 1 .. n : Upto(l, w, i) = Upto(l, w, i - 1) + 1
  BY PrefixSums
<1> DEFINE wrong == {i \in 0 .. n : Upto(l, w, i) # i}
<1>1. wrong = {}
  <2> SUFFICES ASSUME wrong # {} PROVE FALSE
    OBVIOUS
  <2>1. wrong \subseteq Nat
    BY <1>0
  <2>2. PICK m : m \in wrong /\ \A y \in wrong : m <= y
    <3> HIDE DEF wrong
    <3> QED
      BY <2>1, MinOfNats
  <2>3. m \in 0 .. n /\ Upto(l, w, m) # m
    BY <2>2
  <2>4. m # 0
    BY <1>0, <2>3
  <2>5. m - 1 \in 0 .. n /\ ~(m <= m - 1) /\ m \in 1 .. n
    BY <1>0, <2>3, <2>4
  <2>6. Upto(l, w, m - 1) = m - 1
    BY <2>2, <2>5
  <2> QED
    BY <1>0, <2>3, <2>5, <2>6
<1>2. n \in 0 .. n
  BY <1>0
<1> QED
  BY <1>1, <1>2

\* In a turn every backend has its share of the positions.
LEMMA TurnIs ==
  ASSUME NEW k \in RoundRobins, NEW l, NEW w, Shared(l, Picks(k, w)), Len(l) > 0,
         NEW t, t = SumOf(Picks(k, w), ToSet(l))
  PROVE  /\ t \in Nat \ {0} /\ IsFiniteSet(ToSet(l)) /\ (k = "roundRobin" => t = Len(l))
         /\ \A b \in ToSet(l) : Picks(k, w)[b] \in Nat \ {0}
         /\ \A r \in 0 .. t - 1 : Place(k, l, w, r) \in ToSet(l)
         /\ \A b \in ToSet(l) : Visits(k, l, w, 0 .. t - 1, b) = Picks(k, w)[b]
<1>p. PICK sh, n : sh = Picks(k, w) /\ n = Len(l)
  OBVIOUS
<1>0. /\ l \in Seq(Backends) /\ \A i, j \in 1 .. n : l[i] = l[j] => i = j
      /\ \A i \in 1 .. n : sh[l[i]] \in Nat \ {0}
  BY <1>p DEF Shared
<1>1. /\ n \in Nat \ {0} /\ Upto(l, sh, n) = t /\ \A i \in 0 .. n : Upto(l, sh, i) \in Nat
      /\ \A i \in 1 .. n : Upto(l, sh, i) = Upto(l, sh, i - 1) + sh[l[i]]
      /\ DOMAIN l = 1 .. n
  BY <1>p, <1>0, PrefixSums
<1>2. t \in Nat \ {0}
  <2>1. n \in 1 .. n /\ n \in 0 .. n /\ n - 1 \in 0 .. n
    BY <1>1
  <2>2. Upto(l, sh, n - 1) \in Nat /\ sh[l[n]] \in Nat \ {0} /\ t = Upto(l, sh, n - 1) + sh[l[n]]
    BY <1>0, <1>1, <2>1
  <2> QED
    BY <2>2
<1>3. IsFiniteSet(ToSet(l)) /\ ToSet(l) = {l[i] : i \in 1 .. n}
  <2>1. n \in 0 .. Len(l) /\ SubSeq(l, 1, n) = l
    BY <1>p, <1>0
  <2> QED
    BY <1>0, <2>1, FirstOnes
<1>4. \A b \in ToSet(l) : sh[b] \in Nat \ {0}
  BY <1>0, <1>3
<1>5. CASE k = "roundRobin"
  <2>1. \A i \in 1 .. n : sh[l[i]] = 1
    BY <1>p, <1>0, <1>1, <1>5 DEF Picks
  <2>2. t = n
    BY <1>p, <1>1, <2>1, Ones
  <2>3. \A r \in 0 .. t - 1 : /\ (IF r = 0 THEN n ELSE r) \in 1 .. n
                             /\ Place(k, l, w, r) = l[IF r = 0 THEN n ELSE r]
    BY <1>p, <1>1, <1>5, <2>2 DEF Place
  <2>4. \A r \in 0 .. t - 1 : Place(k, l, w, r) \in ToSet(l)
    BY <1>3, <2>3
  <2>5. ASSUME NEW b \in ToSet(l)
        PROVE  Cardinality({r \in 0 .. t - 1 : Place(k, l, w, r) = b}) = sh[b]
    <3>1. PICK j \in 1 .. n : b = l[j]
      BY <1>3
    <3>2. PICK m : m = IF j = n THEN 0 ELSE j
      OBVIOUS
    <3>3. m \in 0 .. t - 1 /\ \A r \in 0 .. t - 1 : (IF r = 0 THEN n ELSE r) = j <=> r = m
      BY <1>1, <2>2, <3>2
    <3>4. \A r \in 0 .. t - 1 : Place(k, l, w, r) = b <=> r = m
      BY <1>0, <2>3, <3>1, <3>3
    <3>5. {r \in 0 .. t - 1 : Place(k, l, w, r) = b} = {m}
      BY <3>3, <3>4
    <3> QED
      BY <2>1, <3>1, <3>5, FS_Singleton
  <2> QED
    BY <1>p, <1>2, <1>3, <1>4, <2>2, <2>4, <2>5 DEF Visits
<1>6. CASE k # "roundRobin"
  <2>1. sh = w
    BY <1>p, <1>6 DEF Picks
  <2>2. \A r : Place(k, l, w, r) = Holding(l, sh, r)
    BY <1>6, <2>1 DEF Place
  <2>3. ASSUME NEW r \in 0 .. t - 1 PROVE Place(k, l, w, r) \in ToSet(l)
    <3>1. r \in Nat /\ r < Upto(l, sh, n)
      BY <1>1, <1>2
    <3>2. PICK j \in 1 .. n : Holding(l, sh, r) = l[j]
      BY <1>p, <3>1, ShareOf
    <3> QED
      BY <1>3, <2>2, <3>2
  <2>4. ASSUME NEW b \in ToSet(l)
        PROVE  Cardinality({r \in 0 .. t - 1 : Place(k, l, w, r) = b}) = sh[b]
    <3>1. PICK j \in 1 .. n : b = l[j]
      BY <1>3
    <3>2. {r \in 0 .. t - 1 : Place(k, l, w, r) = b} = Part(l, sh, b)
      BY <1>p, <1>1, <2>2 DEF Part
    <3>3. Cardinality(Part(l, sh, l[j])) = sh[l[j]]
      BY <1>p, ShareSize
    <3> QED
      BY <3>1, <3>2, <3>3
  <2> QED
    BY <1>p, <1>2, <1>3, <1>4, <1>6, <2>3, <2>4 DEF Visits
<1> QED
  BY <1>5, <1>6

\* Before the first pick.
LEMMA FreshTurn ==
  ASSUME NEW k \in RoundRobins, NEW l, NEW w, Shared(l, Picks(k, w)), Len(l) > 0, NEW p \in Nat
  PROVE  Turns(k, l, w, p, NoPicks)
<1>p. PICK t, m : t = SumOf(Picks(k, w), ToSet(l)) /\ m = p % t
  OBVIOUS
<1>1. /\ t \in Nat \ {0} /\ IsFiniteSet(ToSet(l))
      /\ \A b \in ToSet(l) : Picks(k, w)[b] \in Nat \ {0}
  BY <1>p, TurnIs
<1>2. m \in 0 .. t - 1
  BY <1>p, <1>1, NextPosition
<1>3. Visited(m, m, t) = {}
  BY <1>2 DEF Visited
<1>4. \A b \in ToSet(l) : NoPicks[b] = 0
  BY DEF Shared, ToSet, NoPicks
<1>5. SumOf(NoPicks, ToSet(l)) = 0
  <2>1. Units(NoPicks, ToSet(l)) = {}
    BY <1>4 DEF Units
  <2>2. Units([b \in ToSet(l) |-> -NoPicks[b]], ToSet(l)) = {}
    BY <1>4 DEF Units
  <2>3. Cardinality({}) = 0
    BY FS_EmptySet
  <2>4. SumOf(NoPicks, ToSet(l)) = 0 - 0
    BY <2>1, <2>2, <2>3, Zenon DEF SumOf
  <2> QED
    BY <2>4
<1>6. SumOf(NoPicks, ToSet(l)) = 0 * t + Cardinality(Visited(m, m, t))
  BY <1>1, <1>3, <1>5, FS_EmptySet
<1>7. ASSUME NEW b \in ToSet(l)
      PROVE  NoPicks[b] = 0 * Picks(k, w)[b] + Visits(k, l, w, Visited(m, m, t), b)
  <2>1. Visits(k, l, w, Visited(m, m, t), b) = 0
    BY <1>3, FS_EmptySet DEF Visits
  <2>2. 0 * Picks(k, w)[b] = 0
    BY <1>1
  <2> QED
    BY <1>4, <2>1, <2>2
<1> QED
  BY <1>p, <1>2, <1>6, <1>7 DEF Turns

\* A position that is not among those visited.
LEMMA OneMore ==
  ASSUME NEW D, IsFiniteSet(D)
  PROVE  \A m : m \notin D =>
           /\ Cardinality(D) \in Nat /\ Cardinality(D \cup {m}) = Cardinality(D) + 1
           /\ \A k, l, w, b :
                /\ Visits(k, l, w, D, b) \in Nat
                /\ Visits(k, l, w, D \cup {m}, b) =
                     Visits(k, l, w, D, b) + IF Place(k, l, w, m) = b THEN 1 ELSE 0
<1> SUFFICES ASSUME NEW m, m \notin D
             PROVE  /\ Cardinality(D) \in Nat /\ Cardinality(D \cup {m}) = Cardinality(D) + 1
                    /\ \A k, l, w, b :
                         /\ Visits(k, l, w, D, b) \in Nat
                         /\ Visits(k, l, w, D \cup {m}, b) =
                              Visits(k, l, w, D, b) + IF Place(k, l, w, m) = b THEN 1 ELSE 0
  OBVIOUS
<1>1. Cardinality(D) \in Nat /\ Cardinality(D \cup {m}) = Cardinality(D) + 1
  BY FS_AddElement, FS_CardinalityType
<1>2. ASSUME NEW k, NEW l, NEW w, NEW b
      PROVE  /\ Visits(k, l, w, D, b) \in Nat
             /\ Visits(k, l, w, D \cup {m}, b) =
                  Visits(k, l, w, D, b) + IF Place(k, l, w, m) = b THEN 1 ELSE 0
  <2> DEFINE E == {r \in D : Place(k, l, w, r) = b}
  <2>1. IsFiniteSet(E) /\ Cardinality(E) \in Nat
    <3>1. E \in SUBSET D
      OBVIOUS
    <3> QED
      BY <3>1, FS_Subset, FS_CardinalityType
  <2>2. CASE Place(k, l, w, m) = b
    <3>1. {r \in D \cup {m} : Place(k, l, w, r) = b} = E \cup {m} /\ m \notin E
      BY <2>2
    <3> HIDE DEF E
    <3>2. Cardinality(E \cup {m}) = Cardinality(E) + 1
      BY <2>1, <3>1, FS_AddElement
    <3> QED
      BY <2>1, <2>2, <3>1, <3>2 DEF E, Visits
  <2>3. CASE Place(k, l, w, m) # b
    <3>1. {r \in D \cup {m} : Place(k, l, w, r) = b} = E
      BY <2>3
    <3>2. Visits(k, l, w, D \cup {m}, b) = Visits(k, l, w, D, b)
      BY <3>1 DEF Visits
    <3>3. Visits(k, l, w, D, b) \in Nat
      BY <2>1 DEF Visits
    <3> QED
      BY <2>3, <3>2, <3>3
  <2> QED
    BY <2>2, <2>3
<1> QED
  BY <1>1, <1>2

\* The next position is a new one until the turn is over.
LEMMA NextVisited ==
  ASSUME NEW t \in Nat \ {0}
  PROVE  \A s, m, n \in 0 .. t - 1 : n = (IF m + 1 = t THEN 0 ELSE m + 1) =>
           /\ n \notin Visited(s, m, t) /\ IsFiniteSet(Visited(s, m, t))
           /\ n # s => Visited(s, n, t) = Visited(s, m, t) \cup {n}
           /\ n = s => Visited(s, m, t) \cup {n} = 0 .. t - 1 /\ Visited(s, n, t) = {}
           /\ Visited(s, m, t) \subseteq (0 .. t - 1) \ {s}
<1> SUFFICES ASSUME NEW s \in 0 .. t - 1, NEW m \in 0 .. t - 1, NEW n \in 0 .. t - 1,
                    n = IF m + 1 = t THEN 0 ELSE m + 1
             PROVE  /\ n \notin Visited(s, m, t) /\ IsFiniteSet(Visited(s, m, t))
                    /\ n # s => Visited(s, n, t) = Visited(s, m, t) \cup {n}
                    /\ n = s => /\ Visited(s, m, t) \cup {n} = 0 .. t - 1
                               /\ Visited(s, n, t) = {}
                    /\ Visited(s, m, t) \subseteq (0 .. t - 1) \ {s}
  OBVIOUS
<1>1. n \in 0 .. t - 1
  OBVIOUS
<1>2. \A r, p \in 0 .. t - 1 : r \in Visited(s, p, t) <=>
         IF p >= s THEN s < r /\ r <= p ELSE s < r \/ r <= p
  BY DEF Visited
<1>3. \A p \in 0 .. t - 1 : Visited(s, p, t) \subseteq (0 .. t - 1)
  BY DEF Visited
<1> HIDE DEF Visited
<1>4. n \notin Visited(s, m, t)
  BY <1>1, <1>2
<1>5. IsFiniteSet(Visited(s, m, t))
  <2>1. IsFiniteSet(0 .. t - 1)
    BY FS_Interval
  <2>2. Visited(s, m, t) \in SUBSET (0 .. t - 1)
    BY <1>3
  <2> QED
    BY <2>1, <2>2, FS_Subset
<1>6. ASSUME n # s, NEW r \in 0 .. t - 1
      PROVE  r \in Visited(s, n, t) <=> r \in Visited(s, m, t) \/ r = n
  BY <1>1, <1>2, <1>6
<1>7. n # s => Visited(s, n, t) = Visited(s, m, t) \cup {n}
  BY <1>1, <1>3, <1>6
<1>8. ASSUME n = s, NEW r \in 0 .. t - 1
      PROVE  r \notin Visited(s, n, t) /\ (r \in Visited(s, m, t) \/ r = n)
  BY <1>1, <1>2, <1>8
<1>9. n = s => Visited(s, m, t) \cup {n} = 0 .. t - 1 /\ Visited(s, n, t) = {}
  BY <1>1, <1>3, <1>8
<1>10. s \notin Visited(s, m, t)
  BY <1>2
<1> QED
  BY <1>1, <1>3, <1>4, <1>5, <1>7, <1>9, <1>10

\* A pick for the next position, which begins another turn when this one is over.
LEMMA NextTurn ==
  ASSUME NEW k \in RoundRobins, NEW l, NEW w, NEW p \in Nat, NEW pk \in [Backends -> Nat]
  PROVE  \A n, a, pl :
           /\ Shared(l, Picks(k, w)) /\ Len(l) > 0
           /\ Turns(k, l, w, p, pk)
           /\ n = (p + 1) % SumOf(Picks(k, w), ToSet(l))
           /\ a = Place(k, l, w, n) /\ pl = [pk EXCEPT ![a] = @ + 1]
           => n \in Nat /\ Turns(k, l, w, n, pl)
<1>h. SUFFICES ASSUME NEW n, NEW a, NEW pl, Shared(l, Picks(k, w)), Len(l) > 0,
                      Turns(k, l, w, p, pk),
                      n = (p + 1) % SumOf(Picks(k, w), ToSet(l)),
                      a = Place(k, l, w, n), pl = [pk EXCEPT ![a] = @ + 1]
               PROVE  n \in Nat /\ Turns(k, l, w, n, pl)
  OBVIOUS
<1>p. PICK sh, S, t, m : sh = Picks(k, w) /\ S = ToSet(l) /\ t = SumOf(sh, S) /\ m = p % t
  OBVIOUS
<1>q. a = Place(k, l, w, n) /\ pl = [pk EXCEPT ![a] = @ + 1]
  BY <1>h
<1>1. /\ t \in Nat \ {0} /\ IsFiniteSet(S) /\ \A b \in S : sh[b] \in Nat
      /\ \A r \in 0 .. t - 1 : Place(k, l, w, r) \in S
      /\ \A b \in S : Visits(k, l, w, 0 .. t - 1, b) = sh[b]
  BY <1>h, <1>p, TurnIs
<1>2. m \in 0 .. t - 1 /\ n = IF m + 1 = t THEN 0 ELSE m + 1
  BY <1>h, <1>p, <1>1, NextPosition
<1>3. n \in 0 .. t - 1 /\ n % t = n /\ n \in Nat
  <2>1. n \in 0 .. t - 1
    BY <1>1, <1>2
  <2> QED
    BY <1>1, <2>1, PositionWithin
<1>4. PICK q \in Nat, s \in 0 .. t - 1 :
        /\ SumOf(pk, S) = q * t + Cardinality(Visited(s, m, t))
        /\ \A b \in S : pk[b] = q * sh[b] + Visits(k, l, w, Visited(s, m, t), b)
  BY <1>h, <1>p DEF Turns
<1>5. PICK D : D = Visited(s, m, t)
  OBVIOUS
<1>6. /\ n \notin D /\ IsFiniteSet(D)
      /\ n # s => Visited(s, n, t) = D \cup {n}
      /\ n = s => D \cup {n} = 0 .. t - 1 /\ Visited(s, n, t) = {}
  <2>1. /\ n \notin Visited(s, m, t) /\ IsFiniteSet(Visited(s, m, t))
        /\ n # s => Visited(s, n, t) = Visited(s, m, t) \cup {n}
        /\ n = s => Visited(s, m, t) \cup {n} = 0 .. t - 1 /\ Visited(s, n, t) = {}
    <3>1. t \in Nat \ {0}
      BY <1>1
    <3>2. /\ s \in 0 .. t - 1 /\ m \in 0 .. t - 1 /\ n \in 0 .. t - 1
          /\ n = IF m + 1 = t THEN 0 ELSE m + 1
      BY <1>2, <1>3
    <3>3. \A x, y, z \in 0 .. t - 1 : z = (IF y + 1 = t THEN 0 ELSE y + 1) =>
            /\ z \notin Visited(x, y, t) /\ IsFiniteSet(Visited(x, y, t))
            /\ z # x => Visited(x, z, t) = Visited(x, y, t) \cup {z}
            /\ z = x => Visited(x, y, t) \cup {z} = 0 .. t - 1 /\ Visited(x, z, t) = {}
            /\ Visited(x, y, t) \subseteq (0 .. t - 1) \ {x}
      BY <3>1, NextVisited
    <3> QED
      BY <3>2, <3>3
  <2> QED
    BY <1>5, <2>1
<1>8. a \in S
  BY <1>1, <1>3, <1>q
<1>9. /\ S \subseteq Backends /\ \A b \in S : pk[b] \in Nat
      /\ \A b \in S : pl[b] = pk[b] + IF a = b THEN 1 ELSE 0
  <2>1. S \subseteq Backends
    BY <1>h, <1>p DEF Shared, ToSet
  <2> QED
    BY <1>8, <1>q, <2>1
<1>10. SumOf(pl, S) = SumOf(pk, S) + 1 /\ SumOf(pk, S) \in Nat
  <2>1. SumOf(pk, S) \in Nat
    BY <1>1, <1>9, SumGrows
  <2>2. PICK x \in Nat : x = pk[a]
    BY <1>8, <1>9
  <2>3. \A y \in S \ {a} : pl[y] = pk[y]
    BY <1>9
  <2>4. pl[a] = x + 1 /\ pl[a] \in Int
    BY <1>8, <1>9, <2>2
  <2>5. \A y \in S : pk[y] \in Int
    BY <1>9
  <2>6. SumOf(pl, S) = SumOf(pk, S) - pk[a] + pl[a]
    <3>1. IsFiniteSet(S)
      BY <1>1
    <3>2. \A g : \A y \in S :
            /\ \A x1 \in S : pk[x1] \in Int
            /\ g[y] \in Int /\ \A x1 \in S \ {y} : g[x1] = pk[x1]
            => SumOf(g, S) = SumOf(pk, S) - pk[y] + g[y]
      BY <3>1, SumCounts
    <3>3. /\ \A x1 \in S : pk[x1] \in Int
          /\ pl[a] \in Int /\ \A x1 \in S \ {a} : pl[x1] = pk[x1]
          => SumOf(pl, S) = SumOf(pk, S) - pk[a] + pl[a]
      BY <1>8, <3>2, Zenon
    <3> QED
      BY <2>3, <2>4, <2>5, <3>3, Zenon
  <2> QED
    BY <2>1, <2>2, <2>4, <2>6
<1>11. /\ Cardinality(D) \in Nat /\ Cardinality(D \cup {n}) = Cardinality(D) + 1
       /\ \A b : /\ Visits(k, l, w, D, b) \in Nat
                 /\ Visits(k, l, w, D \cup {n}, b) =
                      Visits(k, l, w, D, b) + IF a = b THEN 1 ELSE 0
  <2>1. n \notin D /\ IsFiniteSet(D)
    BY <1>6
  <2>2. /\ Cardinality(D) \in Nat /\ Cardinality(D \cup {n}) = Cardinality(D) + 1
        /\ \A b : /\ Visits(k, l, w, D, b) \in Nat
                  /\ Visits(k, l, w, D \cup {n}, b) =
                       Visits(k, l, w, D, b) + IF Place(k, l, w, n) = b THEN 1 ELSE 0
    <3>1. \A x : x \notin D =>
            /\ Cardinality(D) \in Nat /\ Cardinality(D \cup {x}) = Cardinality(D) + 1
            /\ \A kk, ll, ww, b :
                 /\ Visits(kk, ll, ww, D, b) \in Nat
                 /\ Visits(kk, ll, ww, D \cup {x}, b) =
                      Visits(kk, ll, ww, D, b) + IF Place(kk, ll, ww, x) = b THEN 1 ELSE 0
      BY <2>1, OneMore
    <3> QED
      BY <2>1, <3>1
  <2> QED
    BY <1>q, <2>2
<1>12. ASSUME NEW b \in S PROVE pl[b] = q * sh[b] + Visits(k, l, w, D \cup {n}, b)
  <2>1. PICK x \in Nat : x = q * sh[b]
    BY <1>1
  <2>2. pk[b] = x + Visits(k, l, w, D, b)
    BY <1>4, <1>5, <2>1
  <2>3. pl[b] = x + Visits(k, l, w, D \cup {n}, b)
    <3>1. pl[b] = pk[b] + IF a = b THEN 1 ELSE 0
      BY <1>9
    <3>2. /\ Visits(k, l, w, D, b) \in Nat
          /\ Visits(k, l, w, D \cup {n}, b) = Visits(k, l, w, D, b) + IF a = b THEN 1 ELSE 0
      BY <1>11
    <3> QED
      BY <2>1, <2>2, <3>1, <3>2
  <2> QED
    BY <2>1, <2>3
<1>15. SumOf(pl, S) = q * t + Cardinality(D \cup {n})
  <2>1. PICK x \in Nat : x = q * t
    BY <1>1
  <2>2. SumOf(pk, S) = x + Cardinality(D)
    BY <1>4, <1>5, <2>1
  <2> QED
    BY <1>10, <1>11, <2>1, <2>2
<1>13. CASE n # s
  <2>1. SumOf(pl, S) = q * t + Cardinality(Visited(s, n, t))
    BY <1>6, <1>13, <1>15
  <2>2. \A b \in S : pl[b] = q * sh[b] + Visits(k, l, w, Visited(s, n, t), b)
    BY <1>6, <1>12, <1>13
  <2> QED
    BY <1>p, <1>3, <2>1, <2>2 DEF Turns
<1>14. CASE n = s
  <2>0. q + 1 \in Nat /\ Cardinality({}) = 0 /\ Cardinality(0 .. t - 1) = t
    BY <1>1, FS_EmptySet, FS_Interval
  <2>1. SumOf(pl, S) = (q + 1) * t + Cardinality(Visited(s, n, t))
    <3>1. PICK x \in Nat : x = q * t /\ (q + 1) * t = x + t
      BY <1>1, Products
    <3>2. SumOf(pl, S) = x + t
      BY <1>6, <1>14, <1>15, <2>0, <3>1
    <3>3. Cardinality(Visited(s, n, t)) = 0
      BY <1>6, <1>14, <2>0
    <3> QED
      BY <1>1, <3>1, <3>2, <3>3
  <2>2. ASSUME NEW b \in S PROVE pl[b] = (q + 1) * sh[b] + Visits(k, l, w, Visited(s, n, t), b)
    <3>1. PICK x \in Nat : x = q * sh[b] /\ (q + 1) * sh[b] = x + sh[b]
      BY <1>1, Products
    <3>2. pl[b] = x + sh[b]
      BY <1>1, <1>6, <1>12, <1>14, <3>1
    <3>3. Visits(k, l, w, Visited(s, n, t), b) = 0
      BY <1>6, <1>14, <2>0 DEF Visits
    <3> QED
      BY <1>1, <3>1, <3>2, <3>3
  <2> QED
    BY <1>p, <1>3, <2>0, <2>1, <2>2 DEF Turns
<1> QED
  BY <1>3, <1>13, <1>14

-----------------------------------------------------------------------------
(* Fair turns and draws                                                    *)

\* What a balancer of kind k keeps for the list l and the weights w, which nobody
\* changed behind its back: its position p, totalWeight, preSum, and the picks made
\* since the last change.
Fair(k, l, w, p, tot, pre, pk) ==
  /\ p \in Nat
  /\ k \in {"weightedRoundRobin", "weightedRandom"} => \A b \in ToSet(l) : w[b] \in Nat \ {0}
  /\ k = "weightedRoundRobin" => tot = SumOf(w, ToSet(l))
  /\ k = "weightedRandom" /\ l # <<>> => pre = BuildPreSum(l, w)
  /\ k \in RoundRobins /\ Len(l) > 1 => Turns(k, l, w, p, pk)

\* The invariant of TurnIsFair and DrawMatchesWeights.
FairInv ==
  /\ weight \in [Backends -> Int] /\ setWeights \in Nat
  /\ setWeights = 0 => Fair(strategy, list, weight, pos, total, preSum, picks)

\* A list without duplicates, with positive weights where they count.
LEMMA ListShared ==
  ASSUME NEW l \in Seq(Backends), \A i, j \in DOMAIN l : l[i] = l[j] => i = j
  PROVE  \A w : /\ (\A b \in ToSet(l) : w[b] \in Nat \ {0}) => Shared(l, w)
                /\ Shared(l, Picks("roundRobin", w))
                /\ Picks("weightedRoundRobin", w) = w
<1>1. DOMAIN l = 1 .. Len(l) /\ \A i \in 1 .. Len(l) : l[i] \in ToSet(l) /\ l[i] \in Backends
  BY DEF ToSet
<1>2. \A w : (\A b \in ToSet(l) : w[b] \in Nat \ {0}) => Shared(l, w)
  BY <1>1 DEF Shared
<1>3. \A w : Picks("weightedRoundRobin", w) = w /\ Picks("roundRobin", w) = [b \in Backends |-> 1]
  BY DEF Picks
<1>4. \A b \in ToSet(l) : [x \in Backends |-> 1][b] \in Nat \ {0}
  BY DEF ToSet
<1> QED
  BY <1>2, <1>3, <1>4

\* After a change of the list or of a weight.
LEMMA FreshFair ==
  ASSUME NEW k \in Strategies, NEW l \in Seq(Backends),
         \A i, j \in DOMAIN l : l[i] = l[j] => i = j,
         NEW w, NEW p \in Nat, NEW tot, NEW pre,
         k \in {"weightedRoundRobin", "weightedRandom"} =>
           \A b \in ToSet(l) : w[b] \in Nat \ {0},
         k = "weightedRoundRobin" => tot = SumOf(w, ToSet(l)),
         k = "weightedRandom" => pre = BuildPreSum(l, w)
  PROVE  Fair(k, l, w, p, tot, pre, NoPicks)
<1>1. ASSUME k \in RoundRobins, Len(l) > 1 PROVE Turns(k, l, w, p, NoPicks)
  <2>1. Shared(l, Picks(k, w)) /\ Len(l) > 0
    BY <1>1, ListShared DEF RoundRobins
  <2> QED
    BY <1>1, <2>1, FreshTurn
<1> QED
  BY <1>1 DEF Fair

\* A table sees only the weights of those listed.
LEMMA SameTable ==
  ASSUME NEW l \in Seq(Backends), NEW w, NEW v, \A b \in ToSet(l) : w[b] = v[b]
  PROVE  BuildPreSum(l, w) = BuildPreSum(l, v)
<1>1. ASSUME NEW i \in 1 .. Len(l) + 1
      PROVE  SumOf(w, ToSet(SubSeq(l, 1, i - 1))) = SumOf(v, ToSet(SubSeq(l, 1, i - 1)))
  <2>1. i - 1 \in 0 .. Len(l) /\ Len(l) \in Nat
    OBVIOUS
  <2>2. ToSet(SubSeq(l, 1, i - 1)) = {l[j] : j \in 1 .. i - 1}
    BY <2>1, FirstOnes
  <2>3. \A x \in ToSet(SubSeq(l, 1, i - 1)) : w[x] = v[x]
    BY <2>1, <2>2 DEF ToSet
  <2> QED
    BY <2>3, SumSame
<1> QED
  BY <1>1 DEF BuildPreSum

\* Register and Unregister keep the total and the table, and begin a new turn.
LEMMA FairChanges ==
  ASSUME LeastInv, LeastInv', FairInv, NEW b \in Backends, NEW n \in 0 .. MaxWeight,
         setWeights = 0, RegisterNew(b, n) \/ RegisterAgain(b, n) \/ Unregister(b)
  PROVE  Fair(strategy, list', weight', pos, total', preSum', NoPicks)
<1>0. /\ weight \in [Backends -> Int] /\ pos \in Nat /\ strategy \in Strategies
      /\ Weighted => \A x \in Members : weight[x] \in Nat \ {0}
      /\ strategy = "weightedRoundRobin" => total = SumOf(weight, Members)
      /\ Members \subseteq Backends /\ n \in Nat /\ list \in Seq(Backends)
  <2>1. list \in Seq(Backends) /\ strategy \in Strategies
    BY DEF LeastInv, Listing
  <2>2. Members \subseteq Backends
    BY <2>1 DEF Members, ToSet
  <2>3. n \in Nat
    BY BoundsAssumption
  <2>4. weight \in [Backends -> Int] /\ Fair(strategy, list, weight, pos, total, preSum, picks)
    BY DEF FairInv
  <2>5. /\ pos \in Nat
        /\ Weighted => \A x \in Members : weight[x] \in Nat \ {0}
        /\ strategy = "weightedRoundRobin" => total = SumOf(weight, Members)
    BY <2>4 DEF Fair, Members, Weighted
  <2> QED
    BY <2>1, <2>2, <2>3, <2>4, <2>5
<1>1. IsFiniteSet(Members)
  <2>1. Len(list) \in 0 .. Len(list) /\ SubSeq(list, 1, Len(list)) = list
    BY <1>0
  <2> QED
    BY <1>0, <2>1, FirstOnes DEF Members
<1>2. list' \in Seq(Backends) /\ \A i, j \in DOMAIN list' : list'[i] = list'[j] => i = j
  BY DEF LeastInv, Listing
<1>p. PICK l, w : l = list' /\ w = weight'
  OBVIOUS
<1>3. ASSUME Weighted => \A x \in ToSet(l) : w[x] \in Nat \ {0},
             strategy = "weightedRoundRobin" => total' = SumOf(w, ToSet(l)),
             strategy = "weightedRandom" => preSum' = BuildPreSum(l, w)
      PROVE  Fair(strategy, list', weight', pos, total', preSum', NoPicks)
  <2>1. Fair(strategy, l, w, pos, total', preSum', NoPicks)
    BY <1>0, <1>2, <1>3, <1>p, FreshFair DEF Weighted
  <2> QED
    BY <1>p, <2>1
<1>4. CASE RegisterNew(b, n)
  <2>1. b \notin Members /\ ToSet(l) = Members \cup {b}
    BY <1>4, <1>p, EntryAdded DEF RegisterNew, LeastInv
  <2>2. CASE ~Weighted
    BY <1>3, <2>2 DEF Weighted
  <2>3. CASE Weighted
    <3>1. w = [weight EXCEPT ![b] = n] /\ n > 0
      BY <1>4, <1>p, <2>3 DEF RegisterNew
    <3>2. /\ w[b] = n /\ \A x \in Members : w[x] = weight[x]
          /\ \A x \in Members \cup {b} : w[x] \in Nat \ {0}
      BY <1>0, <2>1, <2>3, <3>1
    <3>3. SumOf(w, Members \cup {b}) = SumOf(w, Members) + n
      <4>1. \A x \in Members \cup {b} : w[x] \in Int
        BY <3>2
      <4> QED
        BY <1>1, <2>1, <3>2, <4>1, SumAdds
    <3>4. SumOf(w, Members) = SumOf(weight, Members)
      BY <3>2, SumSame
    <3>5. strategy = "weightedRoundRobin" => total' = SumOf(w, ToSet(l))
      BY <1>0, <1>4, <2>1, <3>3, <3>4 DEF RegisterNew
    <3>6. strategy = "weightedRandom" => preSum' = BuildPreSum(l, w)
      BY <1>4, <1>p DEF RegisterNew
    <3> QED
      BY <1>3, <2>1, <3>2, <3>5, <3>6
  <2> QED
    BY <2>2, <2>3
<1>5. CASE RegisterAgain(b, n)
  <2>1. b \in Members /\ ToSet(l) = Members
    BY <1>5, <1>p DEF RegisterAgain, Members
  <2>2. CASE strategy # "weightedRoundRobin"
    <3>1. strategy = "leastConnections"
      BY <1>5, <2>2 DEF RegisterAgain
    <3> QED
      BY <1>3, <3>1 DEF Weighted
  <2>3. CASE strategy = "weightedRoundRobin"
    <3>1. w = [weight EXCEPT ![b] = n] /\ n > 0 /\ total' = total - (weight[b] - n)
      BY <1>5, <1>p, <2>3 DEF RegisterAgain, TotalRefreshed
    <3>2. /\ w[b] = n /\ \A x \in Members \ {b} : w[x] = weight[x]
          /\ \A x \in Members : w[x] \in Nat \ {0} /\ weight[x] \in Nat
      BY <1>0, <2>1, <2>3, <3>1 DEF Weighted
    <3>3. SumOf(w, Members) = SumOf(weight, Members) - weight[b] + w[b]
      <4>1. \A x \in Members : weight[x] \in Int
        BY <3>2
      <4>2. w[b] \in Int
        BY <1>0, <3>2
      <4> QED
        BY <1>1, <2>1, <3>2, <4>1, <4>2, SumCounts
    <3>4. SumOf(weight, Members) \in Nat
      BY <1>1, <3>2, SumGrows
    <3>5. total' = SumOf(w, ToSet(l))
      BY <1>0, <2>1, <2>3, <3>1, <3>2, <3>3, <3>4
    <3> QED
      BY <1>3, <2>1, <2>3, <3>2, <3>5
  <2> QED
    BY <2>2, <2>3
<1>6. CASE Unregister(b)
  <2>1. ToSet(l) = Members \ {b} /\ (b \notin Members => Members \ {b} = Members)
    <3>1. CASE b \in Members
      BY <1>6, <1>p, <3>1, EntryGone DEF Unregister, LeastInv
    <3>2. CASE b \notin Members
      BY <1>6, <1>p, <3>2 DEF Unregister, Members
    <3> QED
      BY <3>1, <3>2
  <2>2. /\ w = [weight EXCEPT ![b] = 0]
        /\ \A x \in ToSet(l) : w[x] = weight[x]
    BY <1>0, <1>6, <1>p, <2>1 DEF Unregister
  <2>3. Weighted => \A x \in ToSet(l) : w[x] \in Nat \ {0}
    BY <1>0, <2>1, <2>2
  <2>4. SumOf(w, ToSet(l)) = SumOf(weight, ToSet(l))
    <3>1. \A x \in ToSet(l) : w[x] = weight[x]
      BY <2>2
    <3> QED
      BY <3>1, SumSame
  <2>5. strategy = "weightedRoundRobin" => total' = SumOf(w, ToSet(l))
    <3>1. CASE b \notin Members
      BY <1>0, <1>6, <2>1, <2>4, <3>1 DEF Unregister
    <3>2. CASE b \in Members
      <4>1. PICK R : R = Members \ {b}
        OBVIOUS
      <4>2. IsFiniteSet(R) /\ b \notin R /\ Members = R \cup {b}
        BY <1>1, <3>2, <4>1, FS_Subset
      <4>3. \A x \in R \cup {b} : weight[x] \in Int
        BY <1>0, <4>2
      <4>4. SumOf(weight, R) \in Int /\ SumOf(weight, R \cup {b}) = SumOf(weight, R) + weight[b]
        BY <4>2, <4>3, SumAdds
      <4>5. strategy = "weightedRoundRobin" => total' = total - weight[b]
        BY <1>6, <3>2 DEF Unregister
      <4>6. weight[b] \in Int
        BY <1>0
      <4>7. SumOf(weight, Members) = SumOf(weight, R) + weight[b]
        BY <4>2, <4>4
      <4>8. SumOf(w, ToSet(l)) = SumOf(weight, R)
        BY <2>1, <2>4, <4>1
      <4>9. strategy = "weightedRoundRobin" => total = SumOf(weight, R) + weight[b]
        BY <1>0, <4>7
      <4> QED
        BY <4>4, <4>5, <4>6, <4>8, <4>9
    <3> QED
      BY <3>1, <3>2
  <2>6. strategy = "weightedRandom" => preSum' = BuildPreSum(l, w)
    <3>1. BuildPreSum(l, w) = BuildPreSum(l, weight)
      BY <1>2, <1>p, <2>2, SameTable
    <3> QED
      BY <1>6, <1>p, <3>1 DEF Unregister
  <2> QED
    BY <1>3, <2>3, <2>5, <2>6
<1> QED
  BY <1>4, <1>5, <1>6

\* The next pick of roundRobin.
LEMMA RoundRobinFair ==
  ASSUME LeastInv, FairInv, setWeights = 0, RoundRobinNext
  PROVE  Fair(strategy, list, weight, pos', total, preSum, picks')
<1>p. PICK l, w, p, pk : l = list /\ w = weight /\ p = pos /\ pk = picks
  OBVIOUS
<1>0. /\ l \in Seq(Backends) /\ \A i, j \in DOMAIN l : l[i] = l[j] => i = j
      /\ pk \in [Backends -> Nat] /\ strategy = "roundRobin" /\ l # <<>>
  BY <1>p DEF LeastInv, Listing, RoundRobinNext
<1>1. /\ p \in Nat /\ (Len(l) > 1 => Turns("roundRobin", l, w, p, pk))
  BY <1>p, <1>0 DEF FairInv, Fair, RoundRobins
<1>2. Shared(l, Picks("roundRobin", w)) /\ Len(l) > 0 /\ Len(l) \in Nat \ {0}
  BY <1>0, ListShared
<1>q. PICK t, m, n : t = Len(l) /\ m = p % t /\ n = (p + 1) % t
  OBVIOUS
<1>3. m \in 0 .. t - 1 /\ n = (IF m + 1 = t THEN 0 ELSE m + 1) /\ t \in Nat \ {0}
  BY <1>1, <1>2, <1>q, NextPosition
<1>4. t = SumOf(Picks("roundRobin", w), ToSet(l)) /\ "roundRobin" \in RoundRobins
  BY <1>2, <1>q, TurnIs DEF RoundRobins
<1>5. (m + 1) % t = n
  <2>1. CASE m + 1 = t
    <3>1. t % t = 0
      BY <1>3
    <3> QED
      BY <1>3, <2>1, <3>1
  <2>2. CASE m + 1 # t
    <3>1. m + 1 \in 0 .. t - 1
      BY <1>3, <2>2
    <3> QED
      BY <1>3, <2>2, <3>1, PositionWithin
  <2> QED
    BY <2>1, <2>2
<1>6. pos' = n /\ n \in Nat
  BY <1>3, <1>5, <1>p, <1>q DEF RoundRobinNext, Slot
<1>7. PICK a : a = l[m + 1] /\ picks' = [pk EXCEPT ![a] = @ + 1]
  BY <1>p, <1>q DEF RoundRobinNext, Slot, Picked
<1>8. a = Place("roundRobin", l, w, n)
  <2>1. m + 1 = IF n = 0 THEN t ELSE n
    BY <1>3
  <2> QED
    BY <1>7, <1>q, <2>1 DEF Place
<1>9. ASSUME Len(l) > 1 PROVE Turns("roundRobin", l, w, n, picks')
  <2>1. n = (p + 1) % SumOf(Picks("roundRobin", w), ToSet(l))
    BY <1>4, <1>q
  <2> HIDE <1>p
  <2>2. Turns("roundRobin", l, w, p, pk)
    BY <1>1, <1>9
  <2>3. \A nn, aa, pl :
           /\ Shared(l, Picks("roundRobin", w)) /\ Len(l) > 0
           /\ Turns("roundRobin", l, w, p, pk)
           /\ nn = (p + 1) % SumOf(Picks("roundRobin", w), ToSet(l))
           /\ aa = Place("roundRobin", l, w, nn) /\ pl = [pk EXCEPT ![aa] = @ + 1]
           => nn \in Nat /\ Turns("roundRobin", l, w, nn, pl)
    BY <1>0, <1>1, <1>4, NextTurn
  <2> QED
    BY <1>2, <1>7, <1>8, <2>1, <2>2, <2>3
<1>10. Fair("roundRobin", l, w, n, total, preSum, picks')
  BY <1>6, <1>9 DEF Fair
<1> QED
  BY <1>p, <1>0, <1>6, <1>10

\* The next pick of weightedRoundRobin.
LEMMA WeightedRoundRobinFair ==
  ASSUME LeastInv, FairInv, setWeights = 0, WeightedRoundRobinNext
  PROVE  Fair(strategy, list, weight, pos', total, preSum, picks')
<1>d. PICK k : k = "weightedRoundRobin"
  OBVIOUS
<1>p. PICK l, w, p, pk : l = list /\ w = weight /\ p = pos /\ pk = picks
  OBVIOUS
<1>0. /\ l \in Seq(Backends) /\ \A i, j \in DOMAIN l : l[i] = l[j] => i = j
      /\ pk \in [Backends -> Nat] /\ strategy = k /\ l # <<>>
  BY <1>d, <1>p DEF LeastInv, Listing, WeightedRoundRobinNext
<1>1. /\ p \in Nat /\ (Len(l) > 1 => Turns(k, l, w, p, pk))
      /\ \A b \in ToSet(l) : w[b] \in Nat \ {0}
      /\ total = SumOf(w, ToSet(l))
  <2>1. Fair(k, l, w, p, total, preSum, pk)
    BY <1>0, <1>p DEF FairInv
  <2> QED
    BY <1>d, <2>1 DEF Fair, RoundRobins
<1>2. Shared(l, Picks(k, w)) /\ Shared(l, w) /\ Picks(k, w) = w
      /\ Len(l) > 0 /\ Len(l) \in Nat \ {0}
  BY <1>d, <1>0, <1>1, ListShared
<1>t. PICK t : t = total
  OBVIOUS
<1>3. t = SumOf(Picks(k, w), ToSet(l)) /\ t \in Nat \ {0} /\ k \in RoundRobins
  <2>1. t = SumOf(Picks(k, w), ToSet(l)) /\ k \in RoundRobins
    BY <1>d, <1>1, <1>2, <1>t DEF RoundRobins
  <2> QED
    BY <1>2, <2>1, TurnIs
<1>4. CASE Len(l) = 1
  <2>1. pos' = p
    BY <1>3, <1>4, <1>p, <1>t DEF WeightedRoundRobinNext
  <2>2. Fair(k, l, w, pos', total, preSum, picks')
    BY <1>d, <1>1, <1>4, <2>1 DEF Fair, RoundRobins
  <2> QED
    BY <1>0, <1>p, <2>2
<1>5. CASE Len(l) # 1
  <2>0. Len(l) > 1
    BY <1>2, <1>5
  <2>q. PICK n : n = (p + 1) % t
    OBVIOUS
  <2>1. n \in 0 .. t - 1
    BY <1>1, <1>3, <2>q
  <2>2. pos' = n
    BY <1>3, <1>5, <1>p, <1>t, <2>q DEF WeightedRoundRobinNext, Advanced
  <2>3. PICK a : a = Holder(pos') /\ picks' = [pk EXCEPT ![a] = @ + 1]
    BY <1>3, <1>5, <1>p, <1>t DEF WeightedRoundRobinNext, Picked
  <2>4. a = Holding(l, w, n)
    <3>1. {i \in 1 .. Len(list) : n < SumOf(weight, ToSet(SubSeq(list, 1, i)))}
            = {i \in 1 .. Len(l) : n < Upto(l, w, i)}
      BY <1>p DEF Upto
    <3>2. Len(l) \in {i \in 1 .. Len(l) : n < Upto(l, w, i)}
      <4>1. Upto(l, w, Len(l)) = t
        BY <1>1, <1>2, <1>t, PrefixSums
      <4> QED
        BY <1>2, <1>3, <2>1, <4>1
    <3> QED
      BY <1>p, <2>2, <2>3, <3>1, <3>2 DEF Holder, Holding
  <2>5. a = Place(k, l, w, n)
    BY <1>d, <2>4 DEF Place
  <2>6. n = (p + 1) % SumOf(Picks(k, w), ToSet(l))
    BY <1>3, <2>q
  <2>7. Turns(k, l, w, p, pk)
    BY <1>1, <2>0
  <2>8. \A nn, aa, pl :
           /\ Shared(l, Picks(k, w)) /\ Len(l) > 0
           /\ Turns(k, l, w, p, pk)
           /\ nn = (p + 1) % SumOf(Picks(k, w), ToSet(l))
           /\ aa = Place(k, l, w, nn) /\ pl = [pk EXCEPT ![aa] = @ + 1]
           => nn \in Nat /\ Turns(k, l, w, nn, pl)
    BY <1>0, <1>1, <1>3, NextTurn
  <2>9. n \in Nat /\ Turns(k, l, w, n, picks')
    BY <1>2, <2>3, <2>5, <2>6, <2>7, <2>8
  <2>10. Fair(k, l, w, n, total, preSum, picks')
    BY <1>d, <1>1, <2>9 DEF Fair
  <2> QED
    BY <1>p, <1>0, <2>2, <2>10
<1> QED
  BY <1>4, <1>5

\* No step of a balancer whose weights are left alone makes a turn unfair.
LEMMA FairStep ==
  LeastInv /\ LeastInv' /\ FairInv /\ [BalancerNext]_balancerVars => FairInv'
<1> SUFFICES ASSUME LeastInv, LeastInv', FairInv, [BalancerNext]_balancerVars PROVE FairInv'
  OBVIOUS
<1>0. /\ weight \in [Backends -> Int] /\ setWeights \in Nat /\ strategy \in Strategies
      /\ strategy' = strategy /\ MaxWeight \in Nat
      /\ setWeights = 0 => Fair(strategy, list, weight, pos, total, preSum, picks)
  <2>1. strategy' = strategy
    BY StepKeeps DEF RegisterNew, Unregister
  <2> QED
    BY <2>1, BoundsAssumption DEF FairInv, LeastInv, Listing
<1>1. ASSUME weight' \in [Backends -> Int], setWeights' = setWeights, pos' = pos,
             picks' = NoPicks,
             setWeights = 0 => Fair(strategy, list', weight', pos, total', preSum', NoPicks)
      PROVE  FairInv'
  BY <1>0, <1>1 DEF FairInv
<1>2. ASSUME NEW b \in Backends, NEW n \in 0 .. MaxWeight, RegisterNew(b, n) PROVE FairInv'
  <2>1. weight' \in [Backends -> Int]
    BY <1>0, <1>2 DEF RegisterNew
  <2>2. setWeights = 0 => Fair(strategy, list', weight', pos, total', preSum', NoPicks)
    BY <1>2, FairChanges
  <2> QED
    BY <1>1, <1>2, <2>1, <2>2 DEF RegisterNew
<1>3. ASSUME NEW b \in Backends, NEW n \in 0 .. MaxWeight, RegisterAgain(b, n) PROVE FairInv'
  <2>1. weight' \in [Backends -> Int]
    BY <1>0, <1>3 DEF RegisterAgain
  <2>2. setWeights = 0 => Fair(strategy, list', weight', pos, total', preSum', NoPicks)
    BY <1>3, FairChanges
  <2> QED
    BY <1>1, <1>3, <2>1, <2>2 DEF RegisterAgain
<1>4. ASSUME NEW b \in Backends, Unregister(b) PROVE FairInv'
  <2>1. weight' \in [Backends -> Int]
    BY <1>0, <1>4 DEF Unregister
  <2>2. 0 \in 0 .. MaxWeight
    BY <1>0
  <2>3. setWeights = 0 => Fair(strategy, list', weight', pos, total', preSum', NoPicks)
    BY <1>4, <2>2, FairChanges
  <2> QED
    BY <1>1, <1>4, <2>1, <2>3 DEF Unregister
<1>5. ASSUME NEW b \in Backends, NEW n \in -1 .. MaxWeight, SetWeight(b, n) PROVE FairInv'
  <2>1. weight' \in [Backends -> Int]
    BY <1>0, <1>5 DEF SetWeight
  <2>2. setWeights' \in Nat /\ setWeights' # 0
    BY <1>0, <1>5 DEF SetWeight
  <2> QED
    BY <2>1, <2>2 DEF FairInv
<1>6. ASSUME UNCHANGED <<list, weight, total, preSum, setWeights>>,
             setWeights = 0 => Fair(strategy, list, weight, pos', total, preSum, picks')
      PROVE  FairInv'
  BY <1>0, <1>6 DEF FairInv
<1>7. CASE RoundRobinNext
  BY <1>6, <1>7, RoundRobinFair DEF RoundRobinNext
<1>8. CASE WeightedRoundRobinNext
  BY <1>6, <1>8, WeightedRoundRobinFair DEF WeightedRoundRobinNext
<1>9. ASSUME UNCHANGED <<list, weight, pos, total, preSum, setWeights>>,
             picks' = picks \/ strategy \notin RoundRobins
      PROVE  FairInv'
  <2>1. setWeights = 0 => Fair(strategy, list, weight, pos', total, preSum, picks')
    BY <1>0, <1>9 DEF Fair
  <2> QED
    BY <1>6, <1>9, <2>1
<1>10. CASE WeightedRandomNext \/ LeastConnectionsNext \/ RandomNext
  BY <1>9, <1>10 DEF WeightedRandomNext, LeastConnectionsNext, RandomNext, RoundRobins
<1>11. CASE AdaptiveBegin \/ AdaptiveRead
  BY <1>9, <1>11 DEF AdaptiveBegin, AdaptiveRead
<1>12. CASE AdaptiveEnd
  BY <1>9, <1>12 DEF AdaptiveEnd, LeastInv, RoundRobins
<1>13. ASSUME NEW b \in Backends, NEW n \in 0 .. MaxWeight, LoadChanges(b, n) PROVE FairInv'
  BY <1>9, <1>13 DEF LoadChanges
<1>14. CASE UNCHANGED balancerVars
  BY <1>9, <1>14 DEF balancerVars
<1> QED
  BY <1>2, <1>3, <1>4, <1>5, <1>7, <1>8, <1>10, <1>11, <1>12, <1>13, <1>14 DEF BalancerNext

\* The invariant holds in every state of the balancer.
LEMMA FairAlways == BalancerSpec => [](LeastInv /\ FairInv)
<1>1. BalancerInit => LeastInv
  BY LeastInit
<1>2. BalancerInit => FairInv
  <2> SUFFICES ASSUME BalancerInit PROVE FairInv
    OBVIOUS
  <2>1. /\ strategy \in Strategies /\ list = <<>> /\ weight = NoPicks /\ pos = 0 /\ total = 0
        /\ setWeights = 0 /\ ToSet(list) = {} /\ Len(list) = 0
    BY DEF BalancerInit, ToSet
  <2>2. NoPicks \in [Backends -> Int]
    BY DEF NoPicks
  <2>3. SumOf(weight, ToSet(list)) = 0
    BY <2>1, SumOfNone
  <2>4. Fair(strategy, list, weight, pos, total, preSum, picks)
    BY <2>1, <2>3 DEF Fair
  <2> QED
    BY <2>1, <2>2, <2>4 DEF FairInv
<1> QED
  BY <1>1, <1>2, LeastStep, FairStep, PTL DEF BalancerSpec

\* Picks after whole turns, in a turn of t picks of which a backend has x.
LEMMA WholeShare ==
  ASSUME NEW t \in Nat, NEW q \in Nat, NEW x \in Nat PROVE (q * x) * t = x * (q * t)
BY Products

\* A list and its picks that have the turns of FairInv are fair.
LEMMA FairTurns ==
  ASSUME NEW k \in RoundRobins, NEW l, NEW w, NEW p \in Nat, NEW pk
  PROVE  Shared(l, Picks(k, w)) /\ Len(l) > 0 /\ Turns(k, l, w, p, pk) =>
           (SumOf(pk, ToSet(l)) % SumOf(Picks(k, w), ToSet(l)) = 0 =>
              \A b \in ToSet(l) : pk[b] * SumOf(Picks(k, w), ToSet(l)) =
                                  Picks(k, w)[b] * SumOf(pk, ToSet(l)))
<1>h. SUFFICES ASSUME Shared(l, Picks(k, w)), Len(l) > 0, Turns(k, l, w, p, pk),
                      SumOf(pk, ToSet(l)) % SumOf(Picks(k, w), ToSet(l)) = 0,
                      NEW b \in ToSet(l)
               PROVE  pk[b] * SumOf(Picks(k, w), ToSet(l)) =
                      Picks(k, w)[b] * SumOf(pk, ToSet(l))
  OBVIOUS
<1>p. PICK t, m : t = SumOf(Picks(k, w), ToSet(l)) /\ m = p % t
  OBVIOUS
<1>1. t \in Nat \ {0} /\ \A x \in ToSet(l) : Picks(k, w)[x] \in Nat
  BY <1>h, <1>p, TurnIs
<1>2. m \in 0 .. t - 1
  BY <1>p, <1>1, NextPosition
<1>3. PICK q \in Nat, s \in 0 .. t - 1 :
        /\ SumOf(pk, ToSet(l)) = q * t + Cardinality(Visited(s, m, t))
        /\ \A x \in ToSet(l) :
             pk[x] = q * Picks(k, w)[x] + Visits(k, l, w, Visited(s, m, t), x)
  BY <1>h, <1>p DEF Turns
<1>4. PICK D, e : D = Visited(s, m, t) /\ e = Cardinality(D)
  OBVIOUS
<1>5. IsFiniteSet(D) /\ e \in 0 .. t - 1
  <2>1. D \subseteq (0 .. t - 1) \ {s}
    BY <1>1, <1>2, <1>4 DEF Visited
  <2>2. IsFiniteSet(0 .. t - 1) /\ Cardinality(0 .. t - 1) = t
    BY <1>1, FS_Interval
  <2>3. /\ IsFiniteSet((0 .. t - 1) \ {s})
        /\ Cardinality((0 .. t - 1) \ {s}) = t - 1
    BY <2>2, FS_RemoveElement
  <2>4. IsFiniteSet(D) /\ Cardinality(D) <= t - 1
    <3>1. PICK E : E = (0 .. t - 1) \ {s}
      OBVIOUS
    <3>2. IsFiniteSet(E) /\ D \in SUBSET E /\ Cardinality(E) = t - 1
      BY <2>1, <2>3, <3>1
    <3>3. IsFiniteSet(D) /\ Cardinality(D) <= Cardinality(E)
      BY <3>2, FS_Subset
    <3> QED
      BY <3>2, <3>3
  <2>5. Cardinality(D) \in Nat
    BY <2>4, FS_CardinalityType
  <2> QED
    BY <1>1, <1>4, <2>4, <2>5
<1>6. e = 0
  <2>1. (q * t + e) % t = 0
    BY <1>h, <1>p, <1>3, <1>4
  <2> QED
    BY <1>1, <1>5, <2>1, WholeTurns
<1>7. D = {}
  BY <1>4, <1>5, <1>6, FS_EmptySet
<1>8. Visits(k, l, w, D, b) = 0
  BY <1>7, FS_EmptySet DEF Visits
<1>9. PICK x \in Nat : x = Picks(k, w)[b]
  BY <1>1
<1>10. pk[b] = q * x /\ SumOf(pk, ToSet(l)) = q * t
  <2>1. q * x \in Nat /\ q * t \in Nat
    BY <1>1
  <2>2. pk[b] = q * x + 0
    BY <1>3, <1>4, <1>8, <1>9
  <2>3. SumOf(pk, ToSet(l)) = q * t + 0
    BY <1>3, <1>4, <1>6
  <2> QED
    BY <2>1, <2>2, <2>3
<1>11. (q * x) * t = x * (q * t)
  BY <1>1, WholeShare
<1> QED
  BY <1>p, <1>9, <1>10, <1>11

\* Both round robins are fair: over a number of whole turns since the last change
\* of the list or of a weight, every backend got its share exactly, from whatever
\* position the turn began, for any backends, weights and number of picks.
THEOREM TurnsFair == BalancerSpec => []TurnIsFair
<1>1. LeastInv /\ FairInv => TurnIsFair
  <2>h. SUFFICES ASSUME LeastInv, FairInv, strategy \in RoundRobins, list # <<>>, setWeights = 0,
                        SumOf(picks, Members) % SumOf(Picks(strategy, weight), Members) = 0,
                        NEW b \in Members
                 PROVE  picks[b] * SumOf(Picks(strategy, weight), Members) =
                        Picks(strategy, weight)[b] * SumOf(picks, Members)
    BY DEF TurnIsFair, RoundRobins, Picks
  <2>p. PICK k, l, w, p, pk :
          k = strategy /\ l = list /\ w = weight /\ p = pos /\ pk = picks
    OBVIOUS
  <2>0. /\ l \in Seq(Backends) /\ \A i, j \in DOMAIN l : l[i] = l[j] => i = j
        /\ pk \in [Backends -> Nat] /\ l # <<>> /\ k \in RoundRobins
        /\ b \in ToSet(l) /\ Members = ToSet(l)
    BY <2>h, <2>p DEF LeastInv, Listing, Members
  <2>1. Fair(k, l, w, p, total, preSum, pk)
    BY <2>h, <2>p DEF FairInv
  <2>2. /\ p \in Nat /\ (Len(l) > 1 => Turns(k, l, w, p, pk))
        /\ k = "weightedRoundRobin" => \A x \in ToSet(l) : w[x] \in Nat \ {0}
    BY <2>0, <2>1 DEF Fair
  <2>3. Shared(l, Picks(k, w)) /\ Len(l) \in Nat \ {0} /\ Len(l) > 0
    BY <2>0, <2>2, ListShared DEF RoundRobins
  <2>4. CASE Len(l) > 1
    <3>1. SumOf(pk, ToSet(l)) % SumOf(Picks(k, w), ToSet(l)) = 0
      BY <2>h, <2>p, <2>0
    <3>2. pk[b] * SumOf(Picks(k, w), ToSet(l)) = Picks(k, w)[b] * SumOf(pk, ToSet(l))
      BY <2>0, <2>2, <2>3, <2>4, <3>1, FairTurns
    <3> QED
      BY <2>p, <2>0, <3>2
  <2>5. CASE Len(l) = 1
    <3>1. ToSet(l) = {} \cup {b} /\ b \in Backends
      BY <2>0, <2>5 DEF ToSet
    <3>2. Picks(k, w)[b] \in Nat /\ pk[b] \in Nat
      BY <2>0, <2>3, <3>1, TurnIs
    <3>3. ASSUME NEW f, f[b] \in Nat PROVE SumOf(f, ToSet(l)) = f[b]
      <4>1. IsFiniteSet({}) /\ b \notin {} /\ \A x \in {} \cup {b} : f[x] \in Int
        BY <3>3, FS_EmptySet
      <4>2. SumOf(f, {} \cup {b}) = SumOf(f, {}) + f[b]
        BY <4>1, SumAdds
      <4> QED
        BY <3>1, <3>3, <4>2, SumOfNone
    <3>4. SumOf(Picks(k, w), ToSet(l)) = Picks(k, w)[b] /\ SumOf(pk, ToSet(l)) = pk[b]
      BY <3>2, <3>3
    <3>5. PICK x \in Nat, y \in Nat : x = Picks(k, w)[b] /\ y = pk[b]
      BY <3>2
    <3>6. y * x = x * y
      OBVIOUS
    <3> QED
      BY <2>p, <2>0, <3>4, <3>5, <3>6
  <2>6. Len(l) > 1 \/ Len(l) = 1
    <3>1. PICK c \in Nat \ {0} : c = Len(l)
      BY <2>3
    <3>2. c > 1 \/ c = 1
      OBVIOUS
    <3> QED
      BY <3>1, <3>2, Zenon
  <2> QED
    BY <2>4, <2>5, <2>6, Zenon
<1> QED
  BY <1>1, FairAlways, PTL

\* The binary search over the prefix sums draws a backend for as many numbers as its
\* weight, after any Register and Unregister, for any backends and weights.
THEOREM DrawsWeighted == BalancerSpec => []DrawMatchesWeights
<1>1. LeastInv /\ FairInv => DrawMatchesWeights
  <2>h. SUFFICES ASSUME LeastInv, FairInv, strategy = "weightedRandom", list # <<>>,
                        setWeights = 0
                 PROVE  /\ Drawable
                        /\ \A b \in Members :
                             Cardinality({r \in 0 .. Last(preSum) - 1 : Drawn(r) = b}) = weight[b]
    BY DEF DrawMatchesWeights
  <2>p. PICK l, w, n, pre : l = list /\ w = weight /\ n = Len(list) /\ pre = preSum
    OBVIOUS
  <2>0. /\ l \in Seq(Backends) /\ \A i, j \in DOMAIN l : l[i] = l[j] => i = j
        /\ l # <<>> /\ Members = ToSet(l)
    BY <2>h, <2>p DEF LeastInv, Listing, Members
  <2>1. /\ \A x \in ToSet(l) : w[x] \in Nat \ {0}
        /\ pre = [i \in 1 .. n + 1 |-> Upto(l, w, i - 1)]
    <3>1. Fair(strategy, list, weight, pos, total, preSum, picks)
      BY <2>h DEF FairInv
    <3> QED
      BY <2>h, <2>p, <3>1 DEF Fair, BuildPreSum, Upto
  <2>2. Shared(l, w) /\ n \in Nat \ {0} /\ n = Len(l)
    BY <2>p, <2>0, <2>1, ListShared
  <2>3. /\ Upto(l, w, 0) = 0
        /\ \A i \in 0 .. n : Upto(l, w, i) \in Nat
        /\ \A i \in 1 .. n : Upto(l, w, i) = Upto(l, w, i - 1) + w[l[i]]
    BY <2>2, PrefixSums
  <2>4. /\ pre \in Seq(Nat) /\ Len(pre) = n + 1
        /\ \A i \in 1 .. n + 1 : pre[i] = Upto(l, w, i - 1)
        /\ Last(pre) = Upto(l, w, n)
    <3>1. \A i \in 1 .. n + 1 : pre[i] = Upto(l, w, i - 1) /\ i - 1 \in 0 .. n
      BY <2>1, <2>2
    <3>2. pre \in Seq(Nat) /\ Len(pre) = n + 1
      BY <2>1, <2>2, <2>3, <3>1
    <3> QED
      BY <2>2, <3>1, <3>2 DEF Last
  <2>5. \A i \in 1 .. n : l[i] \in ToSet(l) /\ w[l[i]] \in Nat \ {0}
    BY <2>0, <2>1, <2>2 DEF ToSet
  <2>6. Drawable
    <3>1. ASSUME NEW i \in 1 .. n PROVE pre[i] < pre[i + 1]
      <4>1. /\ i \in 1 .. n + 1 /\ i + 1 \in 1 .. n + 1 /\ (i + 1) - 1 = i
            /\ i \in 0 .. n /\ i - 1 \in 0 .. n
        BY <2>2
      <4>2. pre[i] = Upto(l, w, i - 1) /\ pre[i + 1] = Upto(l, w, i)
        BY <2>4, <4>1
      <4>3. /\ Upto(l, w, i - 1) \in Nat /\ Upto(l, w, i) = Upto(l, w, i - 1) + w[l[i]]
            /\ w[l[i]] \in Nat \ {0}
        BY <2>3, <2>5, <4>1
      <4> QED
        BY <4>2, <4>3
    <3> QED
      BY <2>p, <2>2, <2>4, <3>1 DEF Drawable
  <2>7. ASSUME NEW r \in 0 .. Upto(l, w, n) - 1 PROVE Drawn(r) = Holding(l, w, r)
    <3>0. r \in Nat /\ r < Upto(l, w, n)
      BY <2>2, <2>3
    <3>1. PICK j \in 1 .. n : Upto(l, w, j - 1) <= r /\ r < Upto(l, w, j)
      BY <2>2, <3>0, ShareOf
    <3>2. Holding(l, w, r) = l[j]
      BY <2>2, <3>0, <3>1, ShareOf
    <3>3. PICK T : T = {i \in 1 .. Len(pre) : pre[i] > r}
      OBVIOUS
    <3>4. T \subseteq Nat /\ j + 1 \in T
      <4>1. j + 1 \in 1 .. n + 1 /\ (j + 1) - 1 = j
        BY <2>2
      <4>2. pre[j + 1] = Upto(l, w, j)
        BY <2>4, <4>1
      <4> QED
        BY <2>3, <2>4, <3>1, <3>3, <4>1, <4>2
    <3>5. ASSUME NEW i \in T PROVE j + 1 <= i
      <4>1. i \in 1 .. n + 1 /\ Upto(l, w, i - 1) > r
        BY <2>4, <3>3
      <4>2. /\ i - 1 \in 0 .. n /\ j - 1 \in 0 .. n
            /\ Upto(l, w, i - 1) \in Nat /\ Upto(l, w, j - 1) \in Nat
        BY <2>2, <2>3, <4>1
      <4>3. i - 1 <= j - 1 => Upto(l, w, i - 1) <= Upto(l, w, j - 1)
        BY <2>2, <4>2, PrefixSums
      <4> QED
        BY <2>2, <3>1, <4>1, <4>2, <4>3
    <3>6. Min(T) = j + 1
      BY <3>4, <3>5, LeastIsMin
    <3>7. Drawn(r) = l[Min(T) - 1]
      BY <2>p, <3>3 DEF Drawn
    <3> QED
      BY <3>2, <3>6, <3>7
  <2>8. ASSUME NEW b \in Members
        PROVE  Cardinality({r \in 0 .. Last(preSum) - 1 : Drawn(r) = b}) = weight[b]
    <3>1. PICK j \in 1 .. n : b = l[j]
      BY <2>0, <2>2 DEF ToSet
    <3>2. {r \in 0 .. Last(preSum) - 1 : Drawn(r) = b} = Part(l, w, b)
      BY <2>p, <2>2, <2>4, <2>7 DEF Part
    <3>3. Cardinality(Part(l, w, l[j])) = w[l[j]]
      BY <2>2, ShareSize
    <3> QED
      BY <2>p, <3>1, <3>2, <3>3
  <2> QED
    BY <2>6, <2>8
<1> QED
  BY <1>1, FairAlways, PTL

-----------------------------------------------------------------------------
(* Executor                                                                *)

\* The type invariant of Executor: whatever the interleaving of submitters,
\* workers, cancels and Stop, every variable keeps its type and a worker that
\* left its select holds a job.
THEOREM ExecutorTypeCorrect == Spec => []TypeOK
<1>1. Init => TypeOK
  <2> SUFFICES ASSUME Init PROVE TypeOK
    OBVIOUS
  <2>1. stopped \in BOOLEAN
    BY DEF Init
  <2>2. /\ spc \in [Jobs -> {"none", "offer", "sent", "cancel", "returned"}]
        /\ wpc \in [Workers -> {"select", "do", "run", "exited"}]
        /\ wcur \in [Workers -> Jobs \cup {NoJob}]
        /\ \A w \in Workers : wpc[w] \in {"do", "run"} => wcur[w] \in Jobs
    BY DEF Init
  <2>3. /\ cpc \in [Futures -> {"none", "run", "done"}]
        /\ outcome \in [Futures -> {"none", "result"} \cup Causes]
        /\ runs \in [Jobs -> Nat]
    BY DEF Init
  <2>4. /\ dropped \subseteq Jobs /\ running \subseteq Futures
        /\ ctxDone \subseteq Futures /\ cancelling \subseteq Futures \X Causes
    BY DEF Init
  <2> QED
    BY <2>1, <2>2, <2>3, <2>4 DEF TypeOK
<1>2. TypeOK /\ [Next]_vars => TypeOK'
  <2> SUFFICES ASSUME TypeOK, [Next]_vars PROVE TypeOK'
    OBVIOUS
  <2> USE JobsAssumption DEF TypeOK, Jobs, Causes
  <2>1. ASSUME NEW j \in Jobs, Offer(j) PROVE TypeOK'
    BY <2>1 DEF Offer, workerVars, futureVars
  <2>2. ASSUME NEW j \in Jobs, NEW w \in Workers, HandOver(j, w) PROVE TypeOK'
    BY <2>2 DEF HandOver, futureVars
  <2>3. ASSUME NEW j \in Jobs, OfferStopped(j) PROVE TypeOK'
    BY <2>3 DEF OfferStopped, Drops, BeginCancel, workerVars
  <2>4. ASSUME NEW j \in Jobs, OfferReturns(j) PROVE TypeOK'
    BY <2>4 DEF OfferReturns, workerVars, futureVars
  <2>5. ASSUME NEW w \in Workers, WorkerDo(w) PROVE TypeOK'
    BY <2>5 DEF WorkerDo, AlreadyRunning, submitVars
  <2>6. ASSUME NEW w \in Workers, ActionEnds(w) PROVE TypeOK'
    BY <2>6 DEF ActionEnds, FirstOutcome, submitVars
  <2>7. ASSUME NEW w \in Workers, WorkerExits(w) PROVE TypeOK'
    BY <2>7 DEF WorkerExits, submitVars, futureVars
  <2>8. ASSUME NEW f \in Futures, CallerDo(f) PROVE TypeOK'
    BY <2>8 DEF CallerDo, AlreadyRunning, submitVars, workerVars
  <2>9. ASSUME NEW f \in Futures, CallerActionEnds(f) PROVE TypeOK'
    BY <2>9 DEF CallerActionEnds, FirstOutcome, submitVars, workerVars
  <2>10. ASSUME NEW f \in Futures, NEW cause \in Causes, Cancel(f, cause)
         PROVE TypeOK'
    BY <2>10 DEF Cancel, BeginCancel, submitVars, workerVars
  <2>11. ASSUME NEW f \in Futures, NEW cause \in Causes, CancelResolves(f, cause)
         PROVE TypeOK'
    BY <2>11 DEF CancelResolves, FirstOutcome, submitVars, workerVars
  <2>12. CASE Stop
    BY <2>12 DEF Stop, submitVars, workerVars, futureVars
  <2>13. CASE UNCHANGED vars
    BY <2>13 DEF vars, submitVars, workerVars, futureVars
  <2>14. QED
    BY <2>1, <2>2, <2>3, <2>4, <2>5, <2>6, <2>7, <2>8, <2>9, <2>10, <2>11,
       <2>12, <2>13 DEF Next, SubmitterStep, WorkerStep
<1>3. QED
  BY <1>1, <1>2, PTL DEF Spec

\* RunsInv is inductive: the two places that start an action set running in the
\* same step, and only for a future that is not in it.
LEMMA RunsStep == TypeOK /\ RunsInv /\ [Next]_vars => RunsInv'
<1> SUFFICES ASSUME TypeOK, RunsInv, [Next]_vars PROVE RunsInv'
  OBVIOUS
<1> USE JobsAssumption DEF TypeOK, RunsInv, Jobs
<1>1. ASSUME NEW w \in Workers, WorkerDo(w) PROVE RunsInv'
  <2>1. CASE wcur[w] \in Futures /\ AlreadyRunning(wcur[w])
    BY <1>1, <2>1 DEF WorkerDo
  <2>2. CASE ~(wcur[w] \in Futures /\ AlreadyRunning(wcur[w]))
    <3>1. /\ wcur[w] \in Jobs
          /\ running' = running \cup ({wcur[w]} \cap Futures)
          /\ runs' = [runs EXCEPT ![wcur[w]] = @ + 1]
      BY <1>1, <2>2 DEF WorkerDo
    <3>2. QED
      BY <2>2, <3>1 DEF AlreadyRunning
  <2>3. QED
    BY <2>1, <2>2
<1>2. ASSUME NEW f \in Futures, CallerDo(f) PROVE RunsInv'
  BY <1>2 DEF CallerDo, AlreadyRunning
<1>3. ASSUME UNCHANGED <<running, runs>> PROVE RunsInv'
  BY <1>3
<1>4. QED
  BY <1>1, <1>2, <1>3 DEF Next, SubmitterStep, WorkerStep, Offer, HandOver,
     OfferStopped, OfferReturns, ActionEnds, WorkerExits, CallerActionEnds,
     Cancel, CancelResolves, Stop, vars, futureVars

\* A future's action runs at most once (AsyncFuture.Do and its running flag),
\* for any number of workers and futures.
THEOREM RunsOnce == Spec => []RunsAtMostOnce
<1>1. Init => RunsInv
  BY DEF Init, RunsInv, Jobs
<1>2. RunsInv => RunsAtMostOnce
  BY DEF RunsInv, RunsAtMostOnce
<1>3. QED
  BY <1>1, <1>2, RunsStep, ExecutorTypeCorrect, PTL DEF Spec

\* A resolved future keeps its outcome (the check of doneCh under rwMutex in Do
\* and in cancelWithErr), for any number of racing cancels and runs.
THEOREM OutcomesStable == Spec => OutcomeStable
<1> DEFINE Stable == \A f \in Futures : outcome[f] # "none" => outcome'[f] = outcome[f]
<1>1. TypeOK /\ [Next]_vars => [Stable]_vars
  <2> SUFFICES ASSUME TypeOK, Next PROVE Stable
    OBVIOUS
  <2>1. ASSUME NEW f \in Futures, NEW result, outcome' = FirstOutcome(f, result)
        PROVE Stable
    BY <2>1 DEF TypeOK, FirstOutcome
  <2>2. ASSUME UNCHANGED outcome PROVE Stable
    BY <2>2
  <2>3. ASSUME NEW w \in Workers, ActionEnds(w) PROVE Stable
    BY <2>1, <2>2, <2>3 DEF ActionEnds
  <2>4. ASSUME NEW f \in Futures, CallerActionEnds(f) PROVE Stable
    BY <2>1, <2>4 DEF CallerActionEnds
  <2>5. ASSUME NEW f \in Futures, NEW cause \in Causes, CancelResolves(f, cause)
        PROVE Stable
    BY <2>1, <2>5 DEF CancelResolves
  <2>6. QED
    BY <2>2, <2>3, <2>4, <2>5 DEF Next, SubmitterStep, WorkerStep, Offer, HandOver,
       OfferStopped, OfferReturns, WorkerDo, WorkerExits, CallerDo, Cancel, Stop,
       futureVars
<1>2. QED
  BY <1>1, ExecutorTypeCorrect, PTL DEF Spec, OutcomeStable
=============================================================================
