------------------------ MODULE EntryLifecycleProofs ------------------------
(***************************************************************************)
(* Theorems about EntryLifecycle, for any number of devices, entries and   *)
(* coordinators and whatever the user types.                               *)
(***************************************************************************)
EXTENDS EntryLifecycle, FiniteSetTheorems, SequenceTheorems, TLAPS

-----------------------------------------------------------------------------
(* Sequences without repetition: the table and the list of agents. *)

(* A set of indices that is not empty has a least element. *)
LEMMA MinExists ==
  ASSUME NEW n \in Nat, NEW T, T \subseteq 1..n, T # {}
  PROVE  Min(T) \in T
  <1> DEFINE Below(t) == 1..t
             U == {Below(t) : t \in T}
  <1>1. IsWellFoundedOn(StrictSubsetOrdering(1..n), FiniteSubsetsOf(1..n))
    BY FS_StrictSubsetOrderingWellFounded
  <1>2. U \subseteq FiniteSubsetsOf(1..n)
    BY FS_Interval, FS_Subset DEF FiniteSubsetsOf
  <1>3. PICK u \in U : \A v \in U : ~(<<v, u>> \in StrictSubsetOrdering(1..n))
    <2>1. U # {}
      OBVIOUS
    <2> QED BY <1>1, <1>2, <2>1, WFMin
  <1>4. PICK x \in T : u = Below(x)
    BY <1>3
  <1>5. ASSUME NEW y \in T PROVE x <= y
    <2>1. ~(<<Below(y), Below(x)>> \in StrictSubsetOrdering(1..n))
      BY <1>3, <1>4
    <2>2. CASE y < x
      <3>1. Below(y) \subseteq Below(x) /\ Below(x) \subseteq 1..n /\ x \in Below(x) /\ x \notin Below(y)
        BY <2>2
      <3> QED BY <2>1, <3>1 DEF StrictSubsetOrdering
    <2> QED BY <2>2
  <1> QED BY <1>5 DEF Min

Once(s, x) == \A i, j \in 1..Len(s) : s[i] = x /\ s[j] = x => i = j

(* Removing k, which is there once at most, takes out k and nothing else. *)
LEMMA RemovedOnce ==
  ASSUME NEW S, NEW s \in Seq(S), NEW k, Once(s, k)
  PROVE  /\ RemoveFirst(s, k) \in Seq(S)
         /\ IsInjective(s) => IsInjective(RemoveFirst(s, k))
         /\ ~Contains(RemoveFirst(s, k), k)
         /\ \A x : x # k => (Contains(RemoveFirst(s, k), x) <=> Contains(s, x))
         /\ \A x : Once(s, x) => Once(RemoveFirst(s, k), x)
  <1> DEFINE I == {i \in 1..Len(s) : s[i] = k}
             first == Min(I)
             r == SubSeq(s, 1, first - 1) \o SubSeq(s, first + 1, Len(s))
  <1>1. SelectInSeq(s, LAMBDA v : v = k) = IF I # {} THEN Min(I) ELSE 0
    BY Zenon DEF SelectInSeq
  <1>2. CASE I = {}
    <2>1. RemoveFirst(s, k) = s
      BY <1>2 DEF RemoveFirst
    <2> QED BY <1>2, <2>1 DEF Contains
  <1>3. CASE I # {}
    <2>1. first \in 1..Len(s) /\ s[first] = k
      <3>1. Len(s) \in Nat /\ I \subseteq 1..Len(s)
        OBVIOUS
      <3> QED BY <1>3, <3>1, MinExists
    <2>2. RemoveFirst(s, k) = r
      <3>1. \E i \in 1..Len(s) : s[i] = k
        BY <2>1
      <3>2. RemoveFirst(s, k) = RemoveAt(s, SelectInSeq(s, LAMBDA v : v = k))
        BY Zenon, <3>1 DEF RemoveFirst
      <3>3. RemoveFirst(s, k) = RemoveAt(s, first)
        BY <3>2, <1>1, <1>3, Zenon
      <3> QED BY <3>3 DEF RemoveAt
    <2> HIDE DEF first
    <2>3. /\ r \in Seq(S)
          /\ Len(r) = Len(s) - 1
          /\ \A i \in 1..Len(r) : r[i] = IF i < first THEN s[i] ELSE s[i + 1]
      <3> DEFINE before == SubSeq(s, 1, first - 1)
                 after == SubSeq(s, first + 1, Len(s))
      <3>1. /\ before \in Seq(S) /\ Len(before) = first - 1
            /\ \A i \in 1..(first - 1) : before[i] = s[i]
        BY <2>1
      <3>2. /\ after \in Seq(S) /\ Len(after) = Len(s) - first
            /\ \A i \in 1..(Len(s) - first) : after[i] = s[first + i]
        BY <2>1
      <3>0. r = before \o after
        OBVIOUS
      <3> HIDE DEF before, after, r
      <3>3. /\ r \in Seq(S) /\ Len(r) = Len(before) + Len(after)
            /\ \A i \in 1..Len(r) :
                 r[i] = IF i <= Len(before) THEN before[i] ELSE after[i - Len(before)]
        <4> DEFINE both == before \o after
        <4>1. /\ both \in Seq(S) /\ Len(both) = Len(before) + Len(after)
              /\ \A i \in 1..(Len(before) + Len(after)) :
                   both[i] = IF i <= Len(before) THEN before[i] ELSE after[i - Len(before)]
          BY <3>1, <3>2, ConcatProperties
        <4>2. r = both
          BY <3>0
        <4> HIDE DEF both
        <4> QED BY <4>1, <4>2
      <3> Len(s) \in Nat
        OBVIOUS
      <3>4. Len(r) = Len(s) - 1
        BY <2>1, <3>1, <3>2, <3>3
      <3>5. ASSUME NEW i \in 1..Len(r) PROVE r[i] = IF i < first THEN s[i] ELSE s[i + 1]
        <4>1. CASE i < first
          BY <4>1, <2>1, <3>1, <3>3
        <4>2. CASE i >= first
          <5>1. i - Len(before) \in 1..(Len(s) - first)
                /\ first + (i - Len(before)) = i + 1
            BY <4>2, <2>1, <3>1, <3>4
          <5>2. r[i] = after[i - Len(before)]
            BY <4>2, <2>1, <3>1, <3>3
          <5>3. after[i - Len(before)] = s[first + (i - Len(before))]
            BY <5>1, <3>2
          <5> QED BY <4>2, <5>1, <5>2, <5>3, <2>1
        <4> QED BY <4>1, <4>2, <2>1
      <3> QED BY <3>3, <3>4, <3>5
    <2> HIDE DEF r
    <2>4. \A i \in 1..Len(s) : s[i] = k => i = first
      BY <2>1 DEF Once
    <2>5. ASSUME IsInjective(s) PROVE IsInjective(r)
      <3>1. \A i, j \in 1..Len(s) : s[i] = s[j] => i = j
        BY <2>5 DEF IsInjective
      <3>2. \A i, j \in 1..Len(r) : r[i] = r[j] => i = j
        BY <2>1, <2>3, <3>1
      <3> QED BY <2>3, <3>2 DEF IsInjective
    <2>6. ASSUME NEW x, Once(s, x) PROVE Once(r, x)
      <3>1. \A i, j \in 1..Len(s) : s[i] = x /\ s[j] = x => i = j
        BY <2>6 DEF Once
      <3> QED BY <2>1, <2>3, <3>1 DEF Once
    <2>7. \A i \in 1..Len(r) : r[i] # k
      BY <2>1, <2>3, <2>4
    <2>8. ASSUME NEW x, x # k PROVE Contains(r, x) <=> Contains(s, x)
      <3>1. ASSUME NEW i \in 1..Len(r), r[i] = x PROVE \E j \in 1..Len(s) : s[j] = x
        BY <3>1, <2>1, <2>3
      <3>2. ASSUME NEW j \in 1..Len(s), s[j] = x PROVE \E i \in 1..Len(r) : r[i] = x
        <4>1. CASE j < first
          <5>1. j \in 1..Len(r) /\ r[j] = x
            BY <4>1, <3>2, <2>1, <2>3
          <5> QED BY <5>1
        <4>2. CASE j > first
          <5>1. j - 1 \in 1..Len(r) /\ r[j - 1] = x
            BY <4>2, <3>2, <2>1, <2>3
          <5> QED BY <5>1
        <4> QED BY <4>1, <4>2, <3>2, <2>1, <2>8
      <3> QED BY <3>1, <3>2 DEF Contains
    <2> QED BY <2>2, <2>3, <2>5, <2>6, <2>7, <2>8 DEF Contains
  <1> QED BY <1>2, <1>3

(* The same of a sequence without repetition. *)
LEMMA RemovedFrom ==
  ASSUME NEW S, NEW s \in Seq(S), IsInjective(s), NEW k
  PROVE  /\ RemoveFirst(s, k) \in Seq(S)
         /\ IsInjective(RemoveFirst(s, k))
         /\ ~Contains(RemoveFirst(s, k), k)
         /\ \A x : x # k => (Contains(RemoveFirst(s, k), x) <=> Contains(s, x))
  <1>1. Once(s, k)
    BY DEF Once, IsInjective
  <1> QED BY <1>1, RemovedOnce

(* What is appended is new. *)
LEMMA AppendedTo ==
  ASSUME NEW S, NEW s \in Seq(S), NEW k \in S, IsInjective(s), ~Contains(s, k)
  PROVE  /\ Append(s, k) \in Seq(S)
         /\ IsInjective(Append(s, k))
         /\ \A x : Contains(Append(s, k), x) <=> Contains(s, x) \/ x = k
  <1> DEFINE r == Append(s, k)
  <1>1. r \in Seq(S) /\ Len(r) = Len(s) + 1 /\ r[Len(s) + 1] = k
        /\ \A i \in 1..Len(s) : r[i] = s[i]
    OBVIOUS
  <1>2. \A i, j \in 1..Len(r) : r[i] = r[j] => i = j
    BY <1>1 DEF IsInjective, Contains
  <1>3. ASSUME NEW x PROVE Contains(r, x) <=> Contains(s, x) \/ x = k
    BY <1>1 DEF Contains
  <1> HIDE DEF r
  <1>4. IsInjective(r)
    BY <1>1, <1>2 DEF IsInjective
  <1> QED BY <1>1, <1>3, <1>4 DEF r

(* One element replaced by one that is not there, or by itself. *)
LEMMA ReplacedIn ==
  ASSUME NEW S, NEW s \in Seq(S), NEW k \in S, IsInjective(s), NEW old \in 1..Len(s),
         Contains(s, k) => s[old] = k
  PROVE  LET r == [s EXCEPT ![old] = k]
         IN  /\ r \in Seq(S)
             /\ IsInjective(r)
             /\ \A x : Contains(r, x) <=> (Contains(s, x) /\ x # s[old]) \/ x = k
  <1> DEFINE r == [s EXCEPT ![old] = k]
  <1>1. r \in Seq(S) /\ Len(r) = Len(s)
    BY ExceptSeq
  <1>2. \A i \in 1..Len(s) : r[i] = IF i = old THEN k ELSE s[i]
    OBVIOUS
  <1> HIDE DEF r
  <1>3. \A i, j \in 1..Len(r) : r[i] = r[j] => i = j
    BY <1>1, <1>2 DEF IsInjective, Contains
  <1>4. ASSUME NEW x PROVE Contains(r, x) <=> (Contains(s, x) /\ x # s[old]) \/ x = k
    BY <1>1, <1>2 DEF IsInjective, Contains
  <1>5. IsInjective(r)
    BY <1>1, <1>3 DEF IsInjective
  <1> QED BY <1>1, <1>4, <1>5 DEF r

-----------------------------------------------------------------------------
(* The inductive invariant. *)

(* Entries and coordinators are numbered in the order they are made, and the
   coordinator of an entry was made for it. *)
EntryInv ==
  /\ \A e \in Entries : state[e] # None => e <= added /\ address[e] \in Addresses
  /\ \A e \in Entries : state[e] \in Live => current[e] # None
  /\ \A e \in Entries : current[e] # None => current[e] <= made /\ entry[current[e]] = e
  /\ \A k \in Coordinators : entry[k] # None => k <= made

(* A device that is configured has no discovery flow to confirm. *)
FlowInv ==
  /\ \A a \in confirming : ~Configured(a)
  /\ OneEntryPerDevice

Owned(k, states) == Serves(k, states) \/ k \in abandoned
Served == {"forwarding", "loaded", "unloading_platforms"}

(* TableIsAccounted, with what its updates need. *)
TableInv ==
  /\ \A e \in Entries : state[e] \in Served => Contains(hass_data, current[e])
  /\ \A k \in Coordinators :
       Contains(hass_data, k) => entry[k] # None /\ Owned(k, Served)
  /\ IsInjective(hass_data)
  /\ \A k, l \in Coordinators :
       Contains(hass_data, k) /\ Contains(hass_data, l) /\ k # l => entry[k] # entry[l]

(* Entities come after the data and go before the coordinator does. *)
EntityInv ==
  /\ entities \subseteq _data
  /\ \A e \in Entries : state[e] \in Live \ {"refreshing"} => current[e] \in _data
  /\ \A e \in Entries : state[e] = "loaded" => services /\ current[e] \in listeners
  /\ \A k \in entities : Owned(k, {"loaded", "unloading_platforms"})
  /\ \A k \in listeners : k \in entities \/ Owned(k, {"shutting_down"})

HasKept(k) == Contains(agents, Kept(k))
HasLost(k) == Contains(agents, Lost(k))

(* A call is for an entry that is live.  Between the registration and the pairing
   its coordinator has an agent, and while it registers one there is none, unless
   another call registers one too. *)
CallInv(t) ==
  /\ on[t] # None => Owned(on[t], Live)
  /\ pc[t] # "calling" => on[t] # None
  /\ pc[t] \in {"checking", "pairing"} => HasKept(on[t]) \/ on[t] \in abandoned
  /\ pc[t] = "registering" /\ HasKept(on[t]) => on[t] \in leaky

(* So is what a coordinator has of BlueZ: one agent, besides those that leaked. *)
ConnectionInv(k) ==
  /\ k \in up \/ HasKept(k) => Owned(k, Live)
  /\ HasLost(k) => k \in leaky
  /\ Once(agents, Kept(k))

LinkInv ==
  /\ \A t \in Tasks : CallInv(t)
  /\ \A t, u \in Tasks :
       t # u /\ on[t] = on[u] /\ pc[t] = "registering" /\ pc[u] = "registering"
         => on[t] \in leaky
  /\ \A k \in Coordinators : ConnectionInv(k)

Inv == TypeOK /\ EntryInv /\ FlowInv /\ TableInv /\ EntityInv /\ LinkInv

(* No entry, no flow and no coordinator at the start. *)
LEMMA InvInit == Init => Inv
  <1> SUFFICES ASSUME Init PROVE Inv
    OBVIOUS
  <1> USE NoneAssumption, BoundsAssumption DEF Init
  <1>1. TypeOK
    <2>1. agents \in Seq(Agents) /\ hass_data \in Seq(Coordinators)
      OBVIOUS
    <2>2. added \in 0..MaxEntries /\ made \in 0..MaxCoordinators
      OBVIOUS
    <2> QED BY <2>1, <2>2 DEF TypeOK, Stages
  <1>2. EntryInv
    BY DEF EntryInv, Live, EntryStates
  <1>3. FlowInv
    BY DEF FlowInv, OneEntryPerDevice
  <1>4. ~\E k : Contains(<<>>, k)
    BY DEF Contains
  <1>5. IsInjective(<<>>)
    BY DEF IsInjective
  <1>6. TableInv
    BY <1>4, <1>5 DEF TableInv, Served, EntryStates, Live
  <1>7. EntityInv
    BY DEF EntityInv, EntryStates, Live
  <1>8. LinkInv
    BY <1>4 DEF LinkInv, CallInv, ConnectionInv, HasKept, HasLost, Once
  <1> QED BY <1>1, <1>2, <1>3, <1>6, <1>7, <1>8 DEF Inv

-----------------------------------------------------------------------------
(* What the searches of the table find. *)

(* Found: a row of the table for the address, or none when there is none. *)
LEMMA FoundIsRow ==
  ASSUME TypeOK, NEW a
  PROVE  \/ /\ Found(a) = None
            /\ \A k : Contains(hass_data, k) => address[entry[k]] # a
         \/ /\ Found(a) \in Coordinators /\ Contains(hass_data, Found(a))
            /\ address[entry[Found(a)]] = a
  <1> DEFINE I == {i \in 1..Len(hass_data) : address[entry[hass_data[i]]] = a}
             row == SelectInSeq(hass_data, LAMBDA k : address[entry[k]] = a)
  <1>1. row = IF I # {} THEN Min(I) ELSE 0
    BY Zenon DEF SelectInSeq
  <1>2. Found(a) = IF row = 0 THEN None ELSE hass_data[row]
    BY Zenon DEF Found
  <1> HIDE DEF row
  <1>3. hass_data \in Seq(Coordinators) /\ Len(hass_data) \in Nat
    BY DEF TypeOK
  <1>4. CASE I = {}
    BY <1>1, <1>2, <1>4 DEF Contains
  <1>5. CASE I # {}
    <2>1. row \in I
      <3>1. I \subseteq 1..Len(hass_data)
        OBVIOUS
      <3> QED BY <1>1, <1>3, <1>5, <3>1, MinExists
    <2> QED BY <1>2, <1>3, <2>1 DEF Contains
  <1> QED BY <1>4, <1>5

(* The row of an entry, which setting it up again replaces. *)
LEMMA RowOfEntry ==
  ASSUME TypeOK, NEW e
  PROVE  \/ RowOf(e) = 0 /\ \A k : Contains(hass_data, k) => entry[k] # e
         \/ RowOf(e) \in 1..Len(hass_data) /\ entry[hass_data[RowOf(e)]] = e
  <1> DEFINE I == {i \in 1..Len(hass_data) : entry[hass_data[i]] = e}
  <1>1. RowOf(e) = IF I # {} THEN Min(I) ELSE 0
    BY Zenon DEF SelectInSeq, RowOf
  <1>2. hass_data \in Seq(Coordinators) /\ Len(hass_data) \in Nat
    BY DEF TypeOK
  <1>3. CASE I = {}
    BY <1>1, <1>3 DEF Contains
  <1>4. CASE I # {}
    <2>1. I \subseteq 1..Len(hass_data)
      OBVIOUS
    <2>2. RowOf(e) \in I
      BY <1>1, <1>2, <1>4, <2>1, MinExists
    <2> QED BY <2>2
  <1> QED BY <1>3, <1>4

(* The coordinator of a live entry is one, made for that entry. *)
LEMMA CurrentIsOwn ==
  ASSUME TypeOK, EntryInv, NEW e \in Entries, state[e] \in Live
  PROVE  /\ current[e] \in Coordinators /\ current[e] <= made
         /\ entry[current[e]] = e
         /\ \A f \in Entries : f # e => current[f] # current[e]
  BY NoneAssumption DEF TypeOK, EntryInv

(* RefreshOk takes the rows of the entry out and its new coordinator in. *)
LEMMA TableAfterRefresh ==
  ASSUME TypeOK, EntryInv, TableInv, NEW e \in Entries, RefreshOk(e)
  PROVE  /\ hass_data' \in Seq(Coordinators)
         /\ IsInjective(hass_data')
         /\ \A k \in Coordinators :
              Contains(hass_data', k) <=> k = current[e] \/ (Contains(hass_data, k) /\ entry[k] # e)
  <1>1. /\ hass_data \in Seq(Coordinators) /\ IsInjective(hass_data)
        /\ current[e] \in Coordinators /\ entry[current[e]] = e
    BY CurrentIsOwn DEF TypeOK, TableInv, RefreshOk, Live
  <1>2. CASE RowOf(e) = 0
    <2>1. \A k : Contains(hass_data, k) => entry[k] # e
      BY <1>2, RowOfEntry
    <2>2. hass_data' = Append(hass_data, current[e])
      BY <1>2 DEF RefreshOk
    <2> QED BY <1>1, <2>1, <2>2, AppendedTo
  <1>3. CASE RowOf(e) # 0
    <2>1. RowOf(e) \in 1..Len(hass_data) /\ entry[hass_data[RowOf(e)]] = e
      BY <1>3, RowOfEntry
    <2>2. hass_data' = [hass_data EXCEPT ![RowOf(e)] = current[e]]
      BY <1>3 DEF RefreshOk
    <2>3. Contains(hass_data, hass_data[RowOf(e)]) /\ hass_data[RowOf(e)] \in Coordinators
      BY <1>1, <2>1 DEF Contains
    <2>4. \A k \in Coordinators :
            Contains(hass_data, k) /\ entry[k] = e => k = hass_data[RowOf(e)]
      BY <2>1, <2>3 DEF TableInv
    <2>5. Contains(hass_data, current[e]) => hass_data[RowOf(e)] = current[e]
      BY <1>1, <2>4
    <2>6. /\ hass_data' \in Seq(Coordinators)
          /\ IsInjective(hass_data')
          /\ \A x : Contains(hass_data', x)
                     <=> (Contains(hass_data, x) /\ x # hass_data[RowOf(e)]) \/ x = current[e]
      BY <1>1, <2>1, <2>2, <2>5, ReplacedIn
    <2> QED BY <2>1, <2>4, <2>6
  <1> QED BY <1>2, <1>3

(* The agents are told apart by whose they are and by whether they are held. *)
LEMMA AgentsDiffer ==
  /\ \A k, l : Kept(k) # Lost(l)
  /\ \A k, l : Kept(k) = Kept(l) => k = l
  /\ \A k, l : Lost(k) = Lost(l) => k = l
  BY DEF Kept, Lost

(* Unregistering takes one agent out. *)
LEMMA AgentsAfterTeardown ==
  ASSUME agents \in Seq(Agents), NEW k \in Coordinators, Once(agents, Kept(k)),
         agents' = RemoveFirst(agents, Kept(k))
  PROVE  /\ agents' \in Seq(Agents)
         /\ ~HasKept(k)'
         /\ \A l : l # k => (HasKept(l)' <=> HasKept(l))
         /\ \A l : HasLost(l)' <=> HasLost(l)
         /\ \A x : Once(agents, x) => Once(agents', x)
  <1> DEFINE r == RemoveFirst(agents, Kept(k))
  <1>1. /\ r \in Seq(Agents) /\ ~Contains(r, Kept(k))
        /\ \A x : x # Kept(k) => (Contains(r, x) <=> Contains(agents, x))
        /\ \A x : Once(agents, x) => Once(r, x)
    BY RemovedOnce
  <1>2. agents' = r
    OBVIOUS
  <1> HIDE DEF r
  <1> QED BY <1>1, <1>2, AgentsDiffer DEF HasKept, HasLost

(* Registering adds one, and the one before it is lost. *)
LEMMA AgentsAfterRegistered ==
  ASSUME agents \in Seq(Agents), NEW k \in Coordinators,
         agents' = Append(Forget(k), Kept(k))
  PROVE  /\ agents' \in Seq(Agents)
         /\ HasKept(k)'
         /\ \A l : l # k => (HasKept(l)' <=> HasKept(l))
         /\ \A l : HasLost(l)' => HasLost(l) \/ (l = k /\ HasKept(k))
         /\ \A l : Once(agents, Kept(l)) => Once(agents', Kept(l))
  <1> DEFINE n == Len(agents)
             f == Forget(k)
             r == Append(f, Kept(k))
  <1>1. Kept(k) \in Agents /\ Lost(k) \in Agents
    BY DEF Kept, Lost, Agents
  <1>2. f \in Seq(Agents) /\ Len(f) = n
        /\ \A i \in 1..n : f[i] = IF agents[i] = Kept(k) THEN Lost(k) ELSE agents[i]
    BY <1>1 DEF Forget
  <1> HIDE DEF f
  <1>3. /\ r \in Seq(Agents) /\ Len(r) = n + 1 /\ r[n + 1] = Kept(k) /\ n \in Nat
        /\ \A i \in 1..n : r[i] = f[i]
    BY <1>1, <1>2
  <1>4. agents' = r
    BY DEF f
  <1> HIDE DEF r
  <1>5. \A x : Contains(r, x) <=> x = Kept(k) \/ \E i \in 1..n : f[i] = x
    BY <1>3 DEF Contains
  <1>6. \A x : Contains(agents, x) <=> \E i \in 1..n : agents[i] = x
    BY DEF Contains
  <1>7. ASSUME NEW l, l # k PROVE Contains(r, Kept(l)) <=> Contains(agents, Kept(l))
    <2>1. Kept(l) # Kept(k) /\ Kept(l) # Lost(k)
      BY <1>7, AgentsDiffer
    <2> HIDE DEF n
    <2> QED BY <2>1, <1>2, <1>5, <1>6
  <1>8. ASSUME NEW l, Contains(r, Lost(l))
        PROVE  Contains(agents, Lost(l)) \/ (l = k /\ Contains(agents, Kept(k)))
    <2>1. PICK i \in 1..n : f[i] = Lost(l)
      BY <1>5, <1>8, AgentsDiffer
    <2>2. CASE agents[i] = Kept(k)
      BY <2>1, <2>2, <1>2, <1>6, AgentsDiffer
    <2>3. CASE agents[i] # Kept(k)
      BY <2>1, <2>3, <1>2, <1>6
    <2> QED BY <2>2, <2>3
  <1>9. ASSUME NEW l, Once(agents, Kept(l)) PROVE Once(r, Kept(l))
    <2>1. \A i \in 1..n : f[i] = Kept(l) => agents[i] = Kept(l) /\ l # k
      BY <1>2, AgentsDiffer
    <2>2. \A i \in 1..(n + 1) : r[i] = Kept(l) => (i = n + 1 /\ l = k) \/ (i \in 1..n /\ agents[i] = Kept(l) /\ l # k)
      BY <1>3, <2>1, AgentsDiffer
    <2>3. \A i, j \in 1..n : agents[i] = Kept(l) /\ agents[j] = Kept(l) => i = j
      BY <1>9 DEF Once
    <2> QED BY <1>3, <2>2, <2>3 DEF Once
  <1>10. Contains(r, Kept(k))
    BY <1>5
  <1> QED BY <1>3, <1>4, <1>7, <1>8, <1>9, <1>10 DEF HasKept, HasLost

WithLost(k) == <<Lost(k)>> \o agents

(* A registration that is refused half-way leaves one behind. *)
LEMMA AgentsAfterRefusal ==
  ASSUME agents \in Seq(Agents), NEW k \in Coordinators,
         agents' = WithLost(k)
  PROVE  /\ agents' \in Seq(Agents)
         /\ \A l : HasKept(l)' <=> HasKept(l)
         /\ \A l : HasLost(l)' => HasLost(l) \/ l = k
         /\ \A l : Once(agents, Kept(l)) => Once(agents', Kept(l))
  <1> DEFINE n == Len(agents)
             r == WithLost(k)
  <1>1. Lost(k) \in Agents
    BY DEF Lost, Agents
  <1>2. /\ r \in Seq(Agents) /\ Len(r) = n + 1 /\ r[1] = Lost(k) /\ n \in Nat
        /\ \A i \in 2..(n + 1) : r[i] = agents[i - 1]
    <2>1. <<Lost(k)>> \in Seq(Agents) /\ Len(<<Lost(k)>>) = 1
      BY <1>1
    <2> QED BY <2>1, ConcatProperties DEF WithLost
  <1>3. agents' = r
    OBVIOUS
  <1> HIDE DEF r
  <1>4. \A x : Contains(r, x) <=> \E i \in 1..(n + 1) : r[i] = x
    BY <1>2 DEF Contains
  <1>5. \A x : Contains(agents, x) <=> \E i \in 1..n : agents[i] = x
    BY DEF Contains
  <1>6. ASSUME NEW x PROVE Contains(r, x) <=> x = Lost(k) \/ Contains(agents, x)
    <2>1. ASSUME NEW i \in 1..n, agents[i] = x PROVE \E j \in 1..(n + 1) : r[j] = x
      <3>1. i + 1 \in 2..(n + 1) /\ i + 1 \in 1..(n + 1) /\ (i + 1) - 1 = i
        BY <1>2
      <3> QED BY <2>1, <3>1, <1>2
    <2>2. ASSUME NEW i \in 1..(n + 1), r[i] = x, i # 1 PROVE \E j \in 1..n : agents[j] = x
      <3>1. i \in 2..(n + 1) /\ i - 1 \in 1..n
        BY <1>2, <2>2
      <3> QED BY <2>2, <3>1, <1>2
    <2>3. 1 \in 1..(n + 1)
      BY <1>2
    <2> HIDE DEF n
    <2> QED BY <2>1, <2>2, <2>3, <1>2, <1>4, <1>5
  <1>7. ASSUME NEW l, Once(agents, Kept(l)) PROVE Once(r, Kept(l))
    <2>1. \A i \in 1..(n + 1) : r[i] = Kept(l) => i - 1 \in 1..n /\ agents[i - 1] = Kept(l)
      BY <1>2, AgentsDiffer
    <2>2. \A i, j \in 1..n : agents[i] = Kept(l) /\ agents[j] = Kept(l) => i = j
      BY <1>7 DEF Once
    <2> QED BY <1>2, <2>1, <2>2 DEF Once
  <1>8. \A l : Contains(r, Kept(l)) <=> Contains(agents, Kept(l))
    BY <1>6, AgentsDiffer
  <1>9. \A l : Contains(r, Lost(l)) => Contains(agents, Lost(l)) \/ l = k
    BY <1>6, AgentsDiffer
  <1>10. \A x : Contains(agents', x) <=> Contains(r, x)
    BY <1>3
  <1>11. r \in Seq(Agents) /\ \A l : Once(agents, Kept(l)) => Once(r, Kept(l))
    BY <1>2, <1>7
  <1>12. agents' \in Seq(Agents) /\ \A l : Once(agents, Kept(l)) => Once(agents', Kept(l))
    BY <1>3, <1>11, Zenon
  <1>13. \A l : HasKept(l)' <=> HasKept(l)
    BY <1>10, <1>8 DEF HasKept
  <1>14. \A l : HasLost(l)' => HasLost(l) \/ l = k
    BY <1>10, <1>9 DEF HasLost
  <1> QED BY <1>12, <1>13, <1>14

(* A call, a connection and its agents are no concern of the entries. *)
LEMMA ConnectionStepMoves ==
  ASSUME ConnectionStep
  PROVE  UNCHANGED <<flows, entries, coordinators, shared, abandoned>>
  BY DEF ConnectionStep, Call, LoadDump, Return, Connect, EnterChecking, EnterRegistering, Enter,
         Registered, DefaultRefused, Pair, Connected, SetUpFails, LinkLost

(* The types. *)
LEMMA TypeStep ==
  ASSUME TypeOK, EntryInv, TableInv, LinkInv, [Next]_vars
  PROVE  TypeOK'
  <1> USE BoundsAssumption, NoneAssumption
  <1>1. ASSUME NEW a \in Addresses, Discovered(a) PROVE TypeOK'
    BY <1>1 DEF TypeOK, Discovered, entries, coordinators, calls, connections, shared
  <1>2. ASSUME NEW a \in Addresses, NEW input \in Inputs, CreateEntry(a, input),
               offered' \in SUBSET offered
        PROVE  TypeOK'
    BY <1>2 DEF TypeOK, CreateEntry, Created, Pins, Entries, EntryStates, coordinators, calls,
                connections, shared
  <1>3. ASSUME NEW a \in Addresses, NEW input \in Inputs,
               Confirm(a, input) \/ SubmitUserForm(a, input)
        PROVE  TypeOK'
    <2>1. CASE UNCHANGED <<confirming, entries, coordinators, calls, connections, shared, abandoned>> /\ offered' = {}
      BY <2>1 DEF TypeOK, entries, coordinators, calls, connections, shared
    <2> QED BY <1>2, <1>3, <2>1 DEF Confirm, SubmitUserForm
  <1>4. ASSUME NEW found \in SUBSET Addresses, ShowUserForm(found) PROVE TypeOK'
    BY <1>4 DEF TypeOK, ShowUserForm, entries, coordinators, calls, connections, shared
  <1>5. ASSUME ConnectionStep,
               /\ on' \in [Tasks -> Coordinators \union {None}] /\ pc' \in [Tasks -> Stages]
               /\ up' \subseteq Coordinators /\ leaky' \subseteq Coordinators
               /\ agents' \in Seq(Agents)
        PROVE  TypeOK'
    <2>1. UNCHANGED <<flows, entries, coordinators, shared, abandoned>>
      BY <1>5, ConnectionStepMoves
    <2> QED BY <1>5, <2>1 DEF TypeOK, flows, entries, coordinators, shared
  <1>6. ASSUME ConnectionStep PROVE TypeOK'
    <2>0. \A t \in Tasks : on[t] \in Coordinators \union {None} /\ (pc[t] # "calling" => on[t] \in Coordinators)
      BY DEF TypeOK, LinkInv, CallInv
    <2>1. ASSUME NEW t \in Tasks, NEW k \in Coordinators, Call(t, k) PROVE TypeOK'
      BY <1>5, <1>6, <2>1 DEF TypeOK, Call, Take, connections
    <2>2. ASSUME NEW t \in Tasks, NEW a \in Addresses, LoadDump(t, a) PROVE TypeOK'
      <3>1. Found(a) \in Coordinators
        BY <2>2, FoundIsRow DEF LoadDump
      <3> QED BY <1>5, <1>6, <2>2, <3>1 DEF TypeOK, LoadDump, Take, connections
    <2>3. ASSUME NEW t \in Tasks, Return(t) \/ SetUpFails(t) \/ Pair(t) PROVE TypeOK'
      BY <1>5, <1>6, <2>3 DEF TypeOK, Return, SetUpFails, Pair, Idle, Go, Stages, Connecting, connections
    <2>4. ASSUME NEW t \in Tasks, Connect(t) PROVE TypeOK'
      <3>1. /\ on[t] \in Coordinators /\ leaky' \in {leaky, leaky \union {on[t]}}
            /\ UNCHANGED <<on, up, agents>>
            /\ Go(t, "checking") \/ Go(t, "registering")
        <4>1. CASE EnterChecking(t)
          BY <2>0, <4>1 DEF EnterChecking, Enter
        <4>2. CASE EnterRegistering(t)
          BY <2>0, <4>2 DEF EnterRegistering, Enter
        <4> QED BY <2>4, <4>1, <4>2 DEF Connect
      <3> QED BY <1>5, <1>6, <3>1 DEF TypeOK, Go, Stages, Connecting
    <2>5. ASSUME NEW t \in Tasks, Registered(t) PROVE TypeOK'
      <3>1. agents' \in Seq(Agents)
        BY <2>0, <2>5, AgentsAfterRegistered DEF TypeOK, Registered
      <3> QED BY <1>5, <1>6, <2>5, <3>1 DEF TypeOK, Registered, Go, Stages, Connecting
    <2>6. ASSUME NEW t \in Tasks, DefaultRefused(t) PROVE TypeOK'
      <3>1. on[t] \in Coordinators
        BY <2>0, <2>6 DEF DefaultRefused
      <3>2. agents' \in Seq(Agents)
        BY <2>6, <3>1, AgentsAfterRefusal DEF TypeOK, DefaultRefused, WithLost
      <3> QED BY <1>5, <1>6, <2>6, <3>1, <3>2 DEF TypeOK, DefaultRefused, Idle, Go, Stages
    <2>7. ASSUME NEW t \in Tasks, Connected(t) PROVE TypeOK'
      <3>1. on[t] \in Coordinators
        BY <2>0, <2>7 DEF Connected
      <3> QED BY <1>5, <1>6, <2>7, <3>1 DEF TypeOK, Connected, Go, Stages
    <2>8. ASSUME NEW k \in Coordinators, LinkLost(k) PROVE TypeOK'
      BY <1>5, <1>6, <2>8 DEF TypeOK, LinkLost, calls
    <2> QED BY <1>6, <2>1, <2>2, <2>3, <2>4, <2>5, <2>6, <2>7, <2>8 DEF ConnectionStep
  <1>8. ASSUME NEW e \in Entries, BeginSetup(e) PROVE TypeOK'
    BY <1>8 DEF TypeOK, BeginSetup, Take, GoEntry, Coordinators, EntryStates, Live, flows, connections, shared
  <1>9. ASSUME NEW e \in Entries, RefreshOk(e) PROVE TypeOK'
    <2>1. current[e] \in Coordinators /\ hass_data' \in Seq(Coordinators)
      BY <1>9, CurrentIsOwn, TableAfterRefresh DEF RefreshOk, Live
    <2> QED BY <1>9, <2>1 DEF TypeOK, RefreshOk, EndRefresh, Stages, GoEntry, EntryStates, Live, flows, connections
  <1>10. ASSUME NEW e \in Entries, NEW where \in EntryStates, state[e] \in Live, GiveUp(e, where),
                entities' \in {entities, entities \union {current[e]}},
                on' \in [Tasks -> Coordinators \union {None}], pc' \in [Tasks -> Stages],
                UNCHANGED <<_data, hass_data, services, listeners>>
         PROVE  TypeOK'
    <2>1. current[e] \in Coordinators
      BY <1>10, CurrentIsOwn
    <2>2. agents' \in Seq(Agents)
      BY <1>10, <2>1, AgentsAfterTeardown DEF TypeOK, LinkInv, ConnectionInv, GiveUp
    <2> QED BY <1>10, <2>1, <2>2 DEF TypeOK, GiveUp, GoEntry, flows
  <1>11. ASSUME NEW e \in Entries, RefreshFails(e) \/ ForwardFails(e) PROVE TypeOK'
    <2>1. on' \in [Tasks -> Coordinators \union {None}] /\ pc' \in [Tasks -> Stages]
      BY <1>11 DEF TypeOK, RefreshFails, ForwardFails, EndRefresh, Stages, calls
    <2> QED BY <1>10, <1>11, <2>1 DEF RefreshFails, ForwardFails, EntryStates, Live
  <1>12. ASSUME NEW e \in Entries, ForwardOk(e) PROVE TypeOK'
    <2>1. current[e] \in Coordinators
      BY <1>12, CurrentIsOwn DEF ForwardOk, Live
    <2> QED BY <1>12, <2>1 DEF TypeOK, ForwardOk, GoEntry, EntryStates, Live, flows, coordinators, calls, connections
  <1>13. ASSUME NEW e \in Entries,
                BeginUnload(e) \/ UnloadPlatformsFails(e) \/ ShutDownFails(e) \/ RemoveEntry(e)
         PROVE  TypeOK'
    <2>1. RemoveEntry(e) \/ current[e] \in Coordinators
      BY <1>13, CurrentIsOwn DEF BeginUnload, UnloadPlatformsFails, ShutDownFails, Live
    <2> QED BY <1>13, <2>1 DEF TypeOK, BeginUnload, UnloadPlatformsFails, ShutDownFails, RemoveEntry,
                     GoEntry, EntryStates, Live, flows, coordinators, calls, connections, shared
  <1>14. ASSUME NEW e \in Entries, UnloadPlatforms(e) PROVE TypeOK'
    <2>1. hass_data' \in Seq(Coordinators)
      BY <1>14, RemovedFrom DEF TypeOK, TableInv, UnloadPlatforms
    <2> QED BY <1>14, <2>1 DEF TypeOK, UnloadPlatforms, GoEntry, EntryStates, Live, flows, coordinators, calls,
                     connections
  <1>15. ASSUME NEW e \in Entries, ShutDown(e) PROVE TypeOK'
    <2>1. current[e] \in Coordinators
      BY <1>15, CurrentIsOwn DEF ShutDown, EndUnload, Live
    <2>2. agents' \in Seq(Agents)
      BY <1>15, <2>1, AgentsAfterTeardown DEF TypeOK, LinkInv, ConnectionInv, ShutDown, TeardownAgent
    <2> QED BY <1>15, <2>1, <2>2 DEF TypeOK, ShutDown, EndUnload, Disconnect, Unlisten, GoEntry,
                     EntryStates, Live, flows, coordinators, calls
  <1>16. ASSUME Restart PROVE TypeOK'
    <2>1. agents' \in Seq(Agents) /\ hass_data' \in Seq(Coordinators)
      BY <1>16 DEF Restart
    <2> QED BY <1>16, <2>1 DEF TypeOK, Restart, EntryStates, Stages
  <1>17. ASSUME UNCHANGED vars PROVE TypeOK'
    BY <1>17 DEF TypeOK, vars, flows, entries, coordinators, calls, connections, shared
  <1> QED BY <1>1, <1>3, <1>4, <1>6, <1>8, <1>9, <1>11, <1>12, <1>13, <1>14, <1>15, <1>16, <1>17
       DEF Next, FlowStep, EntryStep

(* Entries and coordinators keep their numbers. *)
LEMMA EntryInvStep ==
  ASSUME TypeOK, EntryInv, [Next]_vars
  PROVE  EntryInv'
  <1> USE BoundsAssumption, NoneAssumption
  <1>1. ASSUME UNCHANGED <<address, added, current, entry, made>>,
               \A e \in Entries : state'[e] # None => state[e] # None,
               \A e \in Entries : state'[e] \in Live => state[e] \in Live
        PROVE  EntryInv'
    BY <1>1 DEF EntryInv
  <1>2. ASSUME NEW e \in Entries, NEW where, state[e] # None, GoEntry(e, where),
               where \in Live => state[e] \in Live,
               UNCHANGED <<address, added, current, entry, made>>
        PROVE  EntryInv'
    BY <1>1, <1>2 DEF TypeOK, GoEntry
  <1>3. ASSUME NEW a \in Addresses, NEW input \in Inputs, CreateEntry(a, input) PROVE EntryInv'
    <2>1. /\ added + 1 \in Entries /\ added' = added + 1
          /\ address' = [address EXCEPT ![added + 1] = a]
          /\ state' = [state EXCEPT ![added + 1] = "not_loaded"]
          /\ UNCHANGED <<current, entry, made>>
      BY <1>3 DEF TypeOK, CreateEntry, Created, Entries, coordinators
    <2>2. \A e \in Entries : state'[e] # None => e <= added' /\ address'[e] \in Addresses
      BY <2>1 DEF TypeOK, EntryInv, Entries
    <2>3. \A e \in Entries : state'[e] \in Live => state[e] \in Live
      BY <2>1 DEF TypeOK, Live
    <2> QED BY <2>1, <2>2, <2>3 DEF EntryInv
  <1>4. ASSUME FlowStep PROVE EntryInv'
    <2>1. \/ UNCHANGED <<entries, coordinators>>
          \/ \E a \in Addresses : \E input \in Inputs : CreateEntry(a, input)
      BY <1>4 DEF FlowStep, Discovered, Confirm, ShowUserForm, SubmitUserForm
    <2>2. CASE UNCHANGED <<entries, coordinators>>
      BY <1>1, <2>2 DEF entries, coordinators
    <2> QED BY <1>3, <2>1, <2>2
  <1>5. ASSUME ConnectionStep PROVE EntryInv'
    BY <1>1, <1>5, ConnectionStepMoves DEF flows, entries, coordinators, shared
  <1>6. ASSUME NEW e \in Entries, BeginSetup(e) PROVE EntryInv'
    <2>1. /\ made + 1 \in Coordinators /\ made' = made + 1 /\ made \in Nat
          /\ state[e] # None /\ state' = [state EXCEPT ![e] = "refreshing"]
          /\ current' = [current EXCEPT ![e] = made + 1]
          /\ entry' = [entry EXCEPT ![made + 1] = e]
          /\ UNCHANGED <<address, added>>
      BY <1>6 DEF TypeOK, BeginSetup, GoEntry, Coordinators, EntryStates
    <2>2. entry[made + 1] = None
      BY <2>1 DEF EntryInv, Coordinators
    <2>3. \A f \in Entries : state'[f] # None => f <= added' /\ address'[f] \in Addresses
      BY <2>1 DEF TypeOK, EntryInv
    <2>4. \A f \in Entries : state'[f] \in Live => current'[f] # None
      BY <2>1 DEF TypeOK, EntryInv
    <2>5. ASSUME NEW f \in Entries, current'[f] # None
          PROVE  current'[f] <= made' /\ entry'[current'[f]] = f
      <3>1. CASE f = e
        BY <3>1, <2>1 DEF TypeOK
      <3>2. CASE f # e
        <4>1. current'[f] = current[f] /\ current[f] \in Coordinators
          BY <3>2, <2>1, <2>5 DEF TypeOK
        <4>2. current[f] <= made /\ entry[current[f]] = f /\ current[f] # made + 1
          BY <4>1, <2>1, <2>2 DEF EntryInv
        <4> QED BY <4>1, <4>2, <2>1 DEF TypeOK, Coordinators
      <3> QED BY <3>1, <3>2
    <2>6. \A k \in Coordinators : entry'[k] # None => k <= made'
      BY <2>1 DEF TypeOK, EntryInv, Coordinators
    <2> QED BY <2>3, <2>4, <2>5, <2>6 DEF EntryInv
  <1>7. ASSUME NEW e \in Entries,
               \/ RefreshOk(e) \/ RefreshFails(e) \/ ForwardOk(e) \/ ForwardFails(e)
               \/ BeginUnload(e) \/ UnloadPlatforms(e) \/ UnloadPlatformsFails(e)
               \/ ShutDown(e) \/ ShutDownFails(e) \/ RemoveEntry(e)
        PROVE  EntryInv'
    <2>1. /\ state[e] # None
          /\ UNCHANGED <<address, added, current, entry, made>>
          /\ \E where : GoEntry(e, where) /\ (where \in Live => state[e] \in Live)
      BY <1>7 DEF RefreshOk, RefreshFails, ForwardOk, ForwardFails, GiveUp, BeginUnload,
               UnloadPlatforms, UnloadPlatformsFails, ShutDown, EndUnload, ShutDownFails,
               RemoveEntry, Live, EntryStates, coordinators
    <2> QED BY <1>2, <2>1
  <1>8. ASSUME Restart PROVE EntryInv'
    BY <1>8 DEF TypeOK, EntryInv, Restart, EntryStates, Live
  <1>9. ASSUME UNCHANGED vars PROVE EntryInv'
    BY <1>1, <1>9 DEF vars, entries, coordinators
  <1> QED BY <1>4, <1>5, <1>6, <1>7, <1>8, <1>9 DEF Next, EntryStep

(* A device is configured by the confirmation of its flow, which the entry
   aborts, or by the user's form, which looks again. *)
LEMMA FlowInvStep ==
  ASSUME TypeOK, EntryInv, FlowInv, [Next]_vars
  PROVE  FlowInv'
  <1> USE BoundsAssumption, NoneAssumption
  <1>1. ASSUME UNCHANGED address, confirming' \subseteq confirming,
               \A e \in Entries : state'[e] # None => state[e] # None
        PROVE  FlowInv'
    BY <1>1 DEF FlowInv, OneEntryPerDevice, Configured
  <1>2. ASSUME NEW a \in Addresses, NEW input \in Inputs, CreateEntry(a, input), ~Configured(a)
        PROVE  FlowInv'
    <2>1. /\ added + 1 \in Entries /\ confirming' = confirming \ {a}
          /\ address' = [address EXCEPT ![added + 1] = a]
          /\ \A e \in Entries : e # added + 1 => state'[e] = state[e]
          /\ state[added + 1] = None
      BY <1>2 DEF TypeOK, EntryInv, CreateEntry, Created, Entries
    <2> QED BY <1>2, <2>1 DEF TypeOK, FlowInv, OneEntryPerDevice, Configured
  <1>3. ASSUME NEW a \in Addresses, Discovered(a) PROVE FlowInv'
    BY <1>3 DEF FlowInv, OneEntryPerDevice, Configured, Discovered, entries
  <1>4. ASSUME FlowStep PROVE FlowInv'
    <2>1. CASE \E a \in Addresses : \E input \in Inputs : Confirm(a, input) \/ SubmitUserForm(a, input)
      BY <1>1, <1>2, <2>1 DEF FlowInv, Confirm, SubmitUserForm, entries
    <2>2. CASE \E found \in SUBSET Addresses : ShowUserForm(found)
      BY <1>1, <2>2 DEF ShowUserForm, entries
    <2> QED BY <1>3, <1>4, <2>1, <2>2 DEF FlowStep
  <1>5. ASSUME ConnectionStep PROVE FlowInv'
    BY <1>1, <1>5, ConnectionStepMoves DEF flows, entries, coordinators, shared
  <1>6. ASSUME EntryStep PROVE FlowInv'
    <2>1. PICK e \in Entries :
            /\ state[e] # None /\ UNCHANGED <<address, confirming>>
            /\ \E where : GoEntry(e, where)
      BY <1>6 DEF EntryStep, BeginSetup, RefreshOk, RefreshFails, ForwardOk, ForwardFails, GiveUp,
               BeginUnload, UnloadPlatforms, UnloadPlatformsFails, ShutDown, EndUnload, ShutDownFails,
               RemoveEntry, flows, EntryStates, Live
    <2> QED BY <1>1, <2>1 DEF TypeOK, GoEntry
  <1>7. ASSUME Restart PROVE FlowInv'
    BY <1>1, <1>7 DEF TypeOK, Restart
  <1>8. ASSUME UNCHANGED vars PROVE FlowInv'
    BY <1>1, <1>8 DEF vars, entries, flows
  <1> QED BY <1>4, <1>5, <1>6, <1>7, <1>8 DEF Next

(* An entry that changes its state keeps what its coordinator is in the table,
   the entities, the calls and so on for, if the new state is one of those. *)
LEMMA OwnedAfterMove ==
  ASSUME TypeOK, EntryInv, NEW e \in Entries, NEW where, GoEntry(e, where),
         UNCHANGED <<current, entry>>, abandoned \subseteq abandoned',
         NEW S, NEW k \in Coordinators, Owned(k, S),
         k = current[e] /\ state[e] \in S => where \in S \/ k \in abandoned'
  PROVE  Owned(k, S)'
  <1>1. CASE k \in abandoned
    BY <1>1 DEF Owned
  <1>2. CASE Serves(k, S)
    BY <1>2, NoneAssumption DEF TypeOK, GoEntry, Owned, Serves
  <1> QED BY <1>1, <1>2 DEF Owned

(* So do the coordinators of other entries, when an entry is set up. *)
LEMMA OwnedAfterSetup ==
  ASSUME TypeOK, EntryInv, NEW e \in Entries, BeginSetup(e),
         NEW S, S \subseteq Live, NEW k \in Coordinators, Owned(k, S)
  PROVE  Owned(k, S)'
  <1>1. /\ state[e] \notin S
        /\ \A f \in Entries : f # e => state'[f] = state[f] /\ current'[f] = current[f]
        /\ abandoned' = abandoned
        /\ \A l \in Coordinators : l <= made => entry'[l] = entry[l]
    BY BoundsAssumption DEF TypeOK, BeginSetup, GoEntry, Live, Coordinators
  <1>2. CASE Serves(k, S)
    <2>1. k <= made /\ entry[k] \in Entries /\ entry[k] # e
      BY <1>1, <1>2 DEF TypeOK, EntryInv, Serves
    <2> QED BY <1>1, <1>2, <2>1 DEF Owned, Serves
  <1> QED BY <1>1, <1>2 DEF Owned

(* A step of the config flow touches nothing of a coordinator's, and no entry but
   the new one. *)
LEMMA FlowStepMoves ==
  ASSUME TypeOK, EntryInv, FlowStep
  PROVE  /\ UNCHANGED <<current, coordinators, calls, connections, shared, abandoned>>
         /\ \/ UNCHANGED state
            \/ \E e \in Entries : state[e] = None /\ GoEntry(e, "not_loaded")
  <1>1. ASSUME NEW a \in Addresses, NEW input \in Inputs, CreateEntry(a, input)
        PROVE  /\ UNCHANGED <<current, coordinators, calls, connections, shared, abandoned>>
               /\ \E e \in Entries : state[e] = None /\ GoEntry(e, "not_loaded")
    <2>1. added + 1 \in Entries
      BY <1>1, BoundsAssumption DEF TypeOK, CreateEntry, Created, Entries
    <2>2. state[added + 1] = None
      BY <2>1 DEF TypeOK, EntryInv
    <2> QED BY <1>1, <2>1, <2>2 DEF CreateEntry, Created, GoEntry
  <1>2. \/ UNCHANGED <<entries, coordinators, calls, connections, shared, abandoned>>
        \/ \E a \in Addresses : \E input \in Inputs : CreateEntry(a, input)
    BY DEF FlowStep, Discovered, Confirm, ShowUserForm, SubmitUserForm
  <1> QED BY <1>1, <1>2 DEF entries

(* The table. *)
LEMMA TableStep ==
  ASSUME TypeOK, EntryInv, TableInv, [Next]_vars
  PROVE  TableInv'
  <1> USE NoneAssumption
  <1>1. ASSUME UNCHANGED <<state, current, entry, hass_data, abandoned>> PROVE TableInv'
    BY <1>1 DEF TableInv, Owned, Serves
  <1>2. ASSUME NEW e \in Entries, NEW where, GoEntry(e, where),
               where \in Served => state[e] \in Served,
               state[e] \in Served => where \in Served \/ current[e] \in abandoned',
               UNCHANGED <<current, entry, hass_data>>, abandoned \subseteq abandoned'
        PROVE  TableInv'
    <2>1. \A f \in Entries : state'[f] \in Served => Contains(hass_data', current'[f])
      BY <1>2 DEF TypeOK, TableInv, GoEntry
    <2>2. \A k \in Coordinators :
            Contains(hass_data', k) => entry'[k] # None /\ Owned(k, Served)'
      BY <1>2, OwnedAfterMove DEF TableInv
    <2> QED BY <1>2, <2>1, <2>2 DEF TableInv
  <1>3. ASSUME FlowStep PROVE TableInv'
    BY <1>1, <1>2, <1>3, FlowStepMoves DEF coordinators, shared, Served, EntryStates, Live
  <1>4. ASSUME ConnectionStep PROVE TableInv'
    BY <1>1, <1>4, ConnectionStepMoves DEF flows, entries, coordinators, shared
  <1>5. ASSUME NEW e \in Entries,
               \/ RefreshFails(e) \/ ForwardOk(e) \/ ForwardFails(e)
               \/ BeginUnload(e) \/ UnloadPlatformsFails(e)
               \/ ShutDown(e) \/ ShutDownFails(e) \/ RemoveEntry(e)
        PROVE  TableInv'
    <2>1. CASE RefreshFails(e)
      BY <1>2, <2>1 DEF RefreshFails, GiveUp, Served
    <2>2. CASE ForwardOk(e)
      BY <1>2, <2>2 DEF ForwardOk, Served, coordinators
    <2>3. CASE ForwardFails(e)
      BY <1>2, <2>3 DEF ForwardFails, GiveUp, Served
    <2>4. CASE BeginUnload(e)
      BY <1>2, <2>4 DEF BeginUnload, Served, coordinators, shared
    <2>5. CASE UnloadPlatformsFails(e)
      BY <1>2, <2>5 DEF UnloadPlatformsFails, Served, coordinators, shared
    <2>6. CASE ShutDown(e)
      BY <1>2, <2>6 DEF ShutDown, EndUnload, Served, coordinators
    <2>7. CASE ShutDownFails(e)
      BY <1>2, <2>7 DEF ShutDownFails, Served, coordinators, shared
    <2>8. CASE RemoveEntry(e)
      BY <1>2, <2>8 DEF RemoveEntry, Served, EntryStates, Live, coordinators
    <2> QED BY <1>5, <2>1, <2>2, <2>3, <2>4, <2>5, <2>6, <2>7, <2>8
  <1>6. ASSUME NEW e \in Entries, BeginSetup(e) PROVE TableInv'
    <2>1. /\ hass_data' = hass_data /\ made + 1 \in Coordinators
          /\ entry[made + 1] = None /\ entry' = [entry EXCEPT ![made + 1] = e]
          /\ \A f \in Entries : f # e => state'[f] = state[f] /\ current'[f] = current[f]
          /\ state'[e] = "refreshing"
      BY <1>6, BoundsAssumption DEF TypeOK, EntryInv, BeginSetup, GoEntry, Coordinators, shared
    <2>2. \A f \in Entries : state'[f] \in Served => Contains(hass_data', current'[f])
      BY <2>1 DEF TableInv, Served
    <2>3. \A k \in Coordinators : Contains(hass_data', k) => entry'[k] = entry[k] /\ entry[k] # None
      BY <2>1 DEF TypeOK, TableInv
    <2>4. \A k \in Coordinators : Contains(hass_data', k) => Owned(k, Served)'
      <3>1. Served \subseteq Live
        BY DEF Served, Live
      <3> QED BY <1>6, <2>1, <3>1, OwnedAfterSetup DEF TableInv
    <2> QED BY <2>1, <2>2, <2>3, <2>4 DEF TableInv
  <1>7. ASSUME NEW e \in Entries, RefreshOk(e) PROVE TableInv'
    <2>1. /\ state[e] = "refreshing" /\ GoEntry(e, "forwarding")
          /\ UNCHANGED <<current, entry, abandoned>>
      BY <1>7 DEF RefreshOk
    <2>2. /\ current[e] \in Coordinators /\ entry[current[e]] = e
          /\ \A f \in Entries : f # e => current[f] # current[e]
      BY <2>1, CurrentIsOwn DEF Live
    <2>3. /\ IsInjective(hass_data')
          /\ \A k \in Coordinators :
               Contains(hass_data', k) <=> k = current[e] \/ (Contains(hass_data, k) /\ entry[k] # e)
      BY <1>7, TableAfterRefresh
    <2>4. ASSUME NEW f \in Entries, state'[f] \in Served PROVE Contains(hass_data', current'[f])
      <3>1. CASE f = e
        BY <3>1, <2>1, <2>2, <2>3
      <3>2. CASE f # e
        <4>1. state[f] \in Served /\ state[f] \in Live
          BY <3>2, <2>1, <2>4 DEF TypeOK, GoEntry, Served, Live
        <4>2. current[f] \in Coordinators /\ entry[current[f]] = f
          BY <4>1, CurrentIsOwn
        <4> QED BY <3>2, <4>1, <4>2, <2>1, <2>3 DEF TableInv
      <3> QED BY <3>1, <3>2
    <2>5. ASSUME NEW k \in Coordinators, Contains(hass_data', k)
          PROVE  entry'[k] # None /\ Owned(k, Served)'
      <3>1. CASE k = current[e]
        BY <3>1, <2>1, <2>2 DEF TypeOK, GoEntry, Owned, Serves, Served
      <3>2. CASE k # current[e]
        <4>1. Contains(hass_data, k)
          BY <3>2, <2>3, <2>5
        <4> QED BY <3>2, <4>1, <2>1, OwnedAfterMove DEF TableInv
      <3> QED BY <3>1, <3>2
    <2>6. \A k, l \in Coordinators :
            Contains(hass_data', k) /\ Contains(hass_data', l) /\ k # l => entry'[k] # entry'[l]
      BY <2>1, <2>2, <2>3 DEF TableInv
    <2> QED BY <2>3, <2>4, <2>5, <2>6 DEF TableInv
  <1>8. ASSUME NEW e \in Entries, UnloadPlatforms(e) PROVE TableInv'
    <2>1. /\ state[e] = "unloading_platforms" /\ GoEntry(e, "shutting_down")
          /\ UNCHANGED <<current, entry, abandoned>>
          /\ hass_data' = RemoveFirst(hass_data, current[e])
      BY <1>8 DEF UnloadPlatforms, coordinators
    <2>2. \A f \in Entries : f # e => current[f] # current[e]
      BY <2>1, CurrentIsOwn DEF Live
    <2>3. /\ IsInjective(hass_data') /\ ~Contains(hass_data', current[e])
          /\ \A k : k # current[e] => (Contains(hass_data', k) <=> Contains(hass_data, k))
      BY <2>1, RemovedFrom DEF TypeOK, TableInv
    <2>4. \A f \in Entries : state'[f] \in Served => Contains(hass_data', current'[f])
      BY <2>1, <2>2, <2>3 DEF TypeOK, GoEntry, TableInv, Served
    <2>5. \A k \in Coordinators :
            Contains(hass_data', k) => entry'[k] # None /\ Owned(k, Served)'
      BY <2>1, <2>3, OwnedAfterMove DEF TableInv
    <2> QED BY <2>1, <2>3, <2>4, <2>5 DEF TableInv
  <1>9. ASSUME Restart PROVE TableInv'
    <2>1. ~\E k : Contains(<<>>, k)
      BY DEF Contains
    <2>2. IsInjective(<<>>)
      BY DEF IsInjective
    <2>3. \A e \in Entries : state'[e] \notin Served
      BY <1>9 DEF Restart, Served, EntryStates, Live
    <2> QED BY <1>9, <2>1, <2>2, <2>3 DEF Restart, TableInv
  <1>10. ASSUME UNCHANGED vars PROVE TableInv'
    BY <1>1, <1>10 DEF vars, entries, coordinators, shared
  <1> QED BY <1>3, <1>4, <1>5, <1>6, <1>7, <1>8, <1>9, <1>10 DEF Next, EntryStep

(* The entities and the listeners. *)
LEMMA EntityStep ==
  ASSUME TypeOK, EntryInv, EntityInv, [Next]_vars
  PROVE  EntityInv'
  <1> USE NoneAssumption
  <1> DEFINE views == <<_data, services, entities, listeners>>
             Shown == {"loaded", "unloading_platforms"}
             Closing == {"shutting_down"}
  <1>1. ASSUME UNCHANGED <<state, current, entry, abandoned, views>> PROVE EntityInv'
    BY <1>1 DEF EntityInv, Owned, Serves
  <1>2. ASSUME NEW e \in Entries, NEW where, GoEntry(e, where),
               where \in Live \ {"refreshing"} => state[e] \in Live \ {"refreshing"},
               where # "loaded",
               state[e] \in Shown => where \in Shown \/ current[e] \in abandoned',
               state[e] \in Closing => where \in Closing \/ current[e] \in abandoned',
               UNCHANGED <<current, entry, views>>, abandoned \subseteq abandoned'
        PROVE  EntityInv'
    <2>1. \A f \in Entries : state'[f] \in Live \ {"refreshing"} => current'[f] \in _data'
      BY <1>2 DEF TypeOK, EntityInv, GoEntry
    <2>2. \A f \in Entries : state'[f] = "loaded" => services' /\ current'[f] \in listeners'
      BY <1>2 DEF TypeOK, EntityInv, GoEntry
    <2>3. entities \subseteq Coordinators /\ listeners \subseteq Coordinators
      BY DEF TypeOK
    <2>4. \A k \in entities' : Owned(k, Shown)'
      BY <1>2, <2>3, OwnedAfterMove DEF EntityInv
    <2>5. \A k \in listeners' : k \in entities' \/ Owned(k, Closing)'
      BY <1>2, <2>3, OwnedAfterMove DEF EntityInv
    <2> QED BY <1>2, <2>1, <2>2, <2>4, <2>5 DEF EntityInv
  <1>3. ASSUME FlowStep PROVE EntityInv'
    BY <1>1, <1>2, <1>3, FlowStepMoves DEF coordinators, shared, EntryStates, Live
  <1>4. ASSUME ConnectionStep PROVE EntityInv'
    BY <1>1, <1>4, ConnectionStepMoves DEF flows, entries, coordinators, shared
  <1>5. ASSUME NEW e \in Entries, BeginSetup(e) PROVE EntityInv'
    <2>1. /\ UNCHANGED <<abandoned, views>> /\ state'[e] = "refreshing"
          /\ \A f \in Entries : f # e => state'[f] = state[f] /\ current'[f] = current[f]
          /\ entities \subseteq Coordinators /\ listeners \subseteq Coordinators
      BY <1>5 DEF TypeOK, BeginSetup, GoEntry, shared
    <2>2. Shown \subseteq Live /\ Closing \subseteq Live
      BY DEF Live
    <2>3. \A k \in entities' : Owned(k, Shown)'
      BY <1>5, <2>1, <2>2, OwnedAfterSetup DEF EntityInv
    <2>4. \A k \in listeners' : k \in entities' \/ Owned(k, Closing)'
      BY <1>5, <2>1, <2>2, OwnedAfterSetup DEF EntityInv
    <2> QED BY <2>1, <2>3, <2>4 DEF EntityInv
  <1>6. ASSUME NEW e \in Entries, RefreshFails(e) PROVE EntityInv'
    BY <1>2, <1>6 DEF RefreshFails, GiveUp, Live
  <1>7. ASSUME NEW e \in Entries, RefreshOk(e) PROVE EntityInv'
    <2>1. /\ state[e] = "refreshing" /\ GoEntry(e, "forwarding")
          /\ UNCHANGED <<current, entry, abandoned, services, entities, listeners>>
          /\ _data' = _data \union {current[e]}
      BY <1>7 DEF RefreshOk
    <2>2. \A f \in Entries : state'[f] \in Live \ {"refreshing"} => current'[f] \in _data'
      BY <2>1 DEF TypeOK, EntityInv, GoEntry
    <2>3. \A f \in Entries : state'[f] = "loaded" => state[f] = "loaded"
      BY <2>1 DEF TypeOK, GoEntry
    <2>4. entities \subseteq Coordinators /\ listeners \subseteq Coordinators
      BY DEF TypeOK
    <2>5. \A k \in entities' : Owned(k, Shown)'
      BY <2>1, <2>4, OwnedAfterMove DEF EntityInv
    <2>6. \A k \in listeners' : k \in entities' \/ Owned(k, Closing)'
      BY <2>1, <2>4, OwnedAfterMove DEF EntityInv
    <2> QED BY <2>1, <2>2, <2>3, <2>5, <2>6 DEF EntityInv
  <1>8. ASSUME NEW e \in Entries, ForwardOk(e) PROVE EntityInv'
    <2>1. /\ state[e] = "forwarding" /\ GoEntry(e, "loaded")
          /\ UNCHANGED <<current, entry, abandoned, _data>> /\ services'
          /\ entities' = entities \union {current[e]}
          /\ listeners' = listeners \union {current[e]}
      BY <1>8 DEF ForwardOk, coordinators
    <2>2. /\ current[e] \in _data /\ current[e] \in Coordinators /\ entry[current[e]] = e
      BY <2>1, CurrentIsOwn DEF EntityInv, Live
    <2>3. \A f \in Entries : state'[f] \in Live \ {"refreshing"} => current'[f] \in _data'
      BY <2>1, <2>2 DEF TypeOK, EntityInv, GoEntry
    <2>4. \A f \in Entries : state'[f] = "loaded" => current'[f] \in listeners'
      BY <2>1 DEF TypeOK, EntityInv, GoEntry
    <2>5. entities \subseteq Coordinators /\ listeners \subseteq Coordinators
      BY DEF TypeOK
    <2>6. Owned(current[e], Shown)'
      BY <2>1, <2>2 DEF TypeOK, GoEntry, Owned, Serves
    <2>7. \A k \in entities : Owned(k, Shown)'
      BY <2>1, <2>5, OwnedAfterMove DEF EntityInv
    <2>8. \A k \in listeners : k \in entities \/ Owned(k, Closing)'
      BY <2>1, <2>5, OwnedAfterMove DEF EntityInv
    <2> QED BY <2>1, <2>2, <2>3, <2>4, <2>6, <2>7, <2>8 DEF EntityInv
  <1>9. ASSUME NEW e \in Entries, ForwardFails(e) PROVE EntityInv'
    <2>1. /\ state[e] = "forwarding" /\ GoEntry(e, "setup_error")
          /\ UNCHANGED <<current, entry, _data, services, listeners>>
          /\ abandoned' = abandoned \union {current[e]}
          /\ entities' \in {entities, entities \union {current[e]}}
      BY <1>9 DEF ForwardFails, GiveUp
    <2>2. current[e] \in _data
      BY <2>1 DEF EntityInv, Live
    <2>3. \A f \in Entries : state'[f] \in Live => state'[f] = state[f]
      BY <2>1 DEF TypeOK, GoEntry, Live
    <2>4. entities \subseteq Coordinators /\ listeners \subseteq Coordinators
      BY DEF TypeOK
    <2>5. \A k \in entities : Owned(k, Shown)'
      BY <2>1, <2>4, OwnedAfterMove DEF EntityInv
    <2>6. \A k \in listeners : k \in entities \/ Owned(k, Closing)'
      BY <2>1, <2>4, OwnedAfterMove DEF EntityInv
    <2>7. Owned(current[e], Shown)'
      BY <2>1 DEF Owned
    <2> QED BY <2>1, <2>2, <2>3, <2>5, <2>6, <2>7 DEF EntityInv, Live
  <1>10. ASSUME NEW e \in Entries, BeginUnload(e) \/ UnloadPlatformsFails(e) \/ ShutDownFails(e)
         PROVE  EntityInv'
    <2>1. CASE BeginUnload(e)
      BY <1>2, <2>1 DEF BeginUnload, Live, coordinators, shared
    <2>2. CASE UnloadPlatformsFails(e)
      BY <1>2, <2>2 DEF UnloadPlatformsFails, Live, coordinators, shared
    <2>3. CASE ShutDownFails(e)
      BY <1>2, <2>3 DEF ShutDownFails, Live, coordinators, shared
    <2> QED BY <1>10, <2>1, <2>2, <2>3
  <1>11. ASSUME NEW e \in Entries, UnloadPlatforms(e) PROVE EntityInv'
    <2>1. /\ state[e] = "unloading_platforms" /\ GoEntry(e, "shutting_down")
          /\ UNCHANGED <<current, entry, abandoned, _data, services, listeners>>
          /\ entities' = entities \ {current[e]}
      BY <1>11 DEF UnloadPlatforms, coordinators
    <2>2. /\ current[e] \in Coordinators /\ entry[current[e]] = e
      BY <2>1, CurrentIsOwn DEF Live
    <2>3. \A f \in Entries : state'[f] \in Live \ {"refreshing"} => current'[f] \in _data'
      BY <2>1 DEF TypeOK, EntityInv, GoEntry, Live
    <2>4. \A f \in Entries : state'[f] = "loaded" => services' /\ current'[f] \in listeners'
      BY <2>1 DEF TypeOK, EntityInv, GoEntry
    <2>5. entities \subseteq Coordinators /\ listeners \subseteq Coordinators
      BY DEF TypeOK
    <2>6. \A k \in entities' : Owned(k, Shown)'
      BY <2>1, <2>5, OwnedAfterMove DEF EntityInv
    <2>7. Owned(current[e], Closing)'
      BY <2>1, <2>2 DEF TypeOK, GoEntry, Owned, Serves
    <2>8. \A k \in listeners' : k # current[e] => k \in entities' \/ Owned(k, Closing)'
      BY <2>1, <2>5, OwnedAfterMove DEF EntityInv
    <2> QED BY <2>1, <2>3, <2>4, <2>6, <2>7, <2>8 DEF EntityInv
  <1>12. ASSUME NEW e \in Entries, ShutDown(e) PROVE EntityInv'
    <2>1. /\ state[e] = "shutting_down" /\ GoEntry(e, "not_loaded")
          /\ UNCHANGED <<current, entry, _data, services, entities>>
          /\ abandoned \subseteq abandoned' /\ listeners' = listeners \ {current[e]}
      BY <1>12 DEF ShutDown, EndUnload, Unlisten, coordinators
    <2>2. \A f \in Entries : f # e => current[f] # current[e]
      BY <2>1, CurrentIsOwn DEF Live
    <2>3. \A f \in Entries : state'[f] \in Live => f # e /\ state'[f] = state[f]
      BY <2>1 DEF TypeOK, GoEntry, Live
    <2>4. entities \subseteq Coordinators /\ listeners \subseteq Coordinators
      BY DEF TypeOK
    <2>5. \A k \in entities' : Owned(k, Shown)'
      BY <2>1, <2>4, OwnedAfterMove DEF EntityInv
    <2>6. \A k \in listeners' : k \in entities' \/ Owned(k, Closing)'
      BY <2>1, <2>4, OwnedAfterMove DEF EntityInv
    <2> QED BY <2>1, <2>2, <2>3, <2>5, <2>6 DEF EntityInv, Live
  <1>13. ASSUME NEW e \in Entries, RemoveEntry(e) PROVE EntityInv'
    <2>1. /\ state[e] \notin Live /\ GoEntry(e, None)
          /\ UNCHANGED <<current, entry, abandoned, _data, services, listeners>>
          /\ entities' = {k \in entities : entry[k] # e}
      BY <1>13 DEF RemoveEntry, Live, coordinators
    <2>2. \A f \in Entries : state'[f] \in Live => state'[f] = state[f]
      BY <2>1 DEF TypeOK, GoEntry, EntryStates
    <2>3. entities \subseteq Coordinators /\ listeners \subseteq Coordinators
      BY DEF TypeOK
    <2>4. Shown \subseteq Live /\ Closing \subseteq Live
      BY DEF Live
    <2>5. \A k \in entities : Owned(k, Shown)'
      BY <2>1, <2>3, <2>4, OwnedAfterMove DEF EntityInv
    <2>6. \A k \in listeners : k \in entities \/ Owned(k, Closing)'
      BY <2>1, <2>3, <2>4, OwnedAfterMove DEF EntityInv
    <2>7. ASSUME NEW k \in entities, entry[k] = e PROVE Owned(k, Closing)'
      BY <2>1, <2>4, <2>7 DEF EntityInv, Owned, Serves
    <2> QED BY <2>1, <2>2, <2>5, <2>6, <2>7 DEF EntityInv, Live
  <1>14. ASSUME Restart PROVE EntityInv'
    <2>1. \A e \in Entries : state'[e] \notin Live
      BY <1>14 DEF Restart, EntryStates, Live
    <2> QED BY <1>14, <2>1 DEF Restart, EntityInv, Live
  <1>15. ASSUME UNCHANGED vars PROVE EntityInv'
    BY <1>1, <1>15 DEF vars, entries, coordinators, shared
  <1> QED BY <1>3, <1>4, <1>5, <1>6, <1>7, <1>8, <1>9, <1>10, <1>11, <1>12, <1>13, <1>14, <1>15
       DEF Next, EntryStep

(* Calls, connections and agents, when a call or a connection takes a step. *)
LEMMA ConnectionLinkStep ==
  ASSUME TypeOK, TableInv, EntityInv, LinkInv, ConnectionStep
  PROVE  LinkInv'
  <1> USE NoneAssumption DEF Connecting
  <1> DEFINE Both(t, u) == t # u /\ on[t] = on[u] /\ pc[t] = "registering" /\ pc[u] = "registering"
  <1>1. /\ on \in [Tasks -> Coordinators \union {None}] /\ pc \in [Tasks -> Stages]
        /\ agents \in Seq(Agents)
    BY DEF TypeOK
  <1>2. /\ \A k : Owned(k, Live)' <=> Owned(k, Live)
        /\ abandoned' = abandoned
        /\ \A k : Refreshing(k)' <=> Refreshing(k)
    BY ConnectionStepMoves DEF Owned, Serves, Refreshing, entries, coordinators
  <1>3. /\ \A t \in Tasks : CallInv(t)
        /\ \A t, u \in Tasks : Both(t, u) => on[t] \in leaky
        /\ \A k \in Coordinators : ConnectionInv(k)
    BY DEF LinkInv
  <1>4. \A t \in Tasks : pc[t] # "calling" => on[t] \in Coordinators
    BY <1>1, <1>3 DEF CallInv
  <1>5. ASSUME \A t \in Tasks : CallInv(t)',
               \A t, u \in Tasks : Both(t, u)' => on'[t] \in leaky',
               \A k \in Coordinators : ConnectionInv(k)'
        PROVE  LinkInv'
    BY <1>5 DEF LinkInv
  <1>6. ASSUME UNCHANGED agents
        PROVE  \A k : (HasKept(k)' <=> HasKept(k)) /\ (HasLost(k)' <=> HasLost(k))
    BY <1>6 DEF HasKept, HasLost
  <1>7. ASSUME UNCHANGED connections PROVE \A k \in Coordinators : ConnectionInv(k)'
    BY <1>2, <1>3, <1>6, <1>7 DEF ConnectionInv, connections
  <1>8. ASSUME NEW t \in Tasks, NEW k \in Coordinators, Owned(k, Live), Take(t, k), UNCHANGED connections
        PROVE  LinkInv'
    <2>1. /\ on[t] = None /\ on' = [on EXCEPT ![t] = k] /\ pc' = pc /\ pc[t] = "calling"
          /\ UNCHANGED <<agents, leaky>>
      BY <1>3, <1>8 DEF Take, CallInv, connections
    <2>2. \A u \in Tasks : CallInv(u)'
      BY <1>1, <1>2, <1>3, <1>6, <1>8, <2>1 DEF CallInv
    <2>3. \A u, v \in Tasks : Both(u, v)' => on'[u] \in leaky'
      BY <1>1, <1>3, <2>1
    <2> QED BY <1>5, <1>7, <1>8, <2>2, <2>3
  <1>9. ASSUME NEW t \in Tasks, NEW k \in Coordinators, Call(t, k) PROVE LinkInv'
    <2>1. Owned(k, Live)
      BY <1>9 DEF Call, EntityInv, Owned, Serves, Live
    <2> QED BY <1>8, <1>9, <2>1 DEF Call
  <1>10. ASSUME NEW t \in Tasks, NEW a \in Addresses, LoadDump(t, a) PROVE LinkInv'
    <2>1. Found(a) \in Coordinators /\ Contains(hass_data, Found(a))
      BY <1>10, FoundIsRow DEF LoadDump
    <2>2. Owned(Found(a), Live)
      BY <2>1 DEF TableInv, Owned, Serves, Served, Live
    <2> QED BY <1>8, <1>10, <2>1, <2>2 DEF LoadDump
  <1>11. ASSUME NEW t \in Tasks, Return(t) \/ SetUpFails(t) PROVE LinkInv'
    <2>1. /\ on' = [on EXCEPT ![t] = None] /\ pc' = [pc EXCEPT ![t] = "calling"]
          /\ UNCHANGED connections
      BY <1>11 DEF Return, SetUpFails, Idle, Go
    <2>2. \A u \in Tasks : CallInv(u)'
      BY <1>1, <1>2, <1>3, <1>6, <2>1 DEF CallInv, connections
    <2>3. \A u, v \in Tasks : Both(u, v)' => on'[u] \in leaky'
      BY <1>1, <1>3, <2>1 DEF connections
    <2> QED BY <1>5, <1>7, <2>1, <2>2, <2>3
  <1>12. ASSUME NEW t \in Tasks, Connect(t) PROVE LinkInv'
    <2>1. /\ on[t] # None /\ pc[t] = "calling" /\ on' = on /\ agents' = agents /\ up' = up
          /\ leaky \subseteq leaky'
      BY <1>12 DEF Connect, EnterChecking, EnterRegistering, Enter
    <2>2. \/ pc' = [pc EXCEPT ![t] = "checking"] /\ HasKept(on[t])
          \/ /\ pc' = [pc EXCEPT ![t] = "registering"] /\ ~HasKept(on[t])
             /\ \A u \in Tasks : u # t /\ on[u] = on[t] /\ pc[u] = "registering" => on[t] \in leaky'
      <3>1. CASE Contains(agents, Kept(on[t])) /\ EnterChecking(t)
        BY <3>1 DEF EnterChecking, Enter, Go, HasKept
      <3>2. CASE ~Contains(agents, Kept(on[t])) /\ EnterRegistering(t)
        BY <3>2 DEF EnterRegistering, Enter, Go, HasKept
      <3> QED BY <1>12, <3>1, <3>2 DEF Connect
    <2>3. \A u \in Tasks : CallInv(u)'
      BY <1>1, <1>2, <1>3, <1>6, <2>1, <2>2 DEF CallInv
    <2>4. \A u, v \in Tasks : Both(u, v)' => on'[u] \in leaky'
      BY <1>1, <1>3, <2>1, <2>2
    <2>5. \A k \in Coordinators : ConnectionInv(k)'
      BY <1>2, <1>3, <1>6, <2>1 DEF ConnectionInv
    <2> QED BY <1>5, <2>3, <2>4, <2>5
  <1>13. ASSUME NEW t \in Tasks, Registered(t) PROVE LinkInv'
    <2>1. /\ pc[t] = "registering" /\ on[t] \in Coordinators
          /\ pc' = [pc EXCEPT ![t] = "checking"]
          /\ agents' = Append(Forget(on[t]), Kept(on[t]))
          /\ on' = on /\ up' = up /\ leaky' = leaky
      BY <1>4, <1>13 DEF Registered, Go
    <2>2. /\ HasKept(on[t])'
          /\ \A l : l # on[t] => (HasKept(l)' <=> HasKept(l))
          /\ \A l : HasLost(l)' => HasLost(l) \/ (l = on[t] /\ HasKept(on[t]))
          /\ \A l : Once(agents, Kept(l)) => Once(agents', Kept(l))
      BY <1>1, <2>1, AgentsAfterRegistered
    <2>3. HasKept(on[t]) => on[t] \in leaky
      BY <1>3, <2>1 DEF CallInv
    <2>4. Owned(on[t], Live)
      BY <1>3, <2>1 DEF CallInv
    <2>5. ASSUME NEW u \in Tasks PROVE CallInv(u)'
      <3>1. CASE u = t
        BY <3>1, <1>1, <1>2, <2>1, <2>2, <2>4 DEF CallInv
      <3>2. CASE u # t
        <4>1. pc'[u] = pc[u] /\ on'[u] = on[u] /\ CallInv(u)
          BY <3>2, <1>1, <1>3, <2>1
        <4>2. pc[u] = "registering" /\ on[u] = on[t] => on[u] \in leaky
          BY <3>2, <1>3, <2>1
        <4> QED BY <4>1, <4>2, <1>2, <2>1, <2>2 DEF CallInv
      <3> QED BY <3>1, <3>2
    <2>6. \A u, v \in Tasks : Both(u, v)' => on'[u] \in leaky'
      BY <1>1, <1>3, <2>1
    <2>7. \A k \in Coordinators : ConnectionInv(k)'
      BY <1>2, <1>3, <2>1, <2>2, <2>3, <2>4 DEF ConnectionInv
    <2> QED BY <1>5, <2>5, <2>6, <2>7
  <1>14. ASSUME NEW t \in Tasks, DefaultRefused(t) PROVE LinkInv'
    <2>1. /\ on[t] \in Coordinators
          /\ on' = [on EXCEPT ![t] = None] /\ pc' = [pc EXCEPT ![t] = "calling"]
          /\ agents' = WithLost(on[t])
          /\ up' = up /\ leaky' = leaky \union {on[t]}
      BY <1>4, <1>14 DEF DefaultRefused, Idle, Go, WithLost
    <2>2. /\ \A l : HasKept(l)' <=> HasKept(l)
          /\ \A l : HasLost(l)' => HasLost(l) \/ l = on[t]
          /\ \A l : Once(agents, Kept(l)) => Once(agents', Kept(l))
      BY <1>1, <2>1, AgentsAfterRefusal
    <2>3. \A u \in Tasks : CallInv(u)'
      BY <1>1, <1>2, <1>3, <2>1, <2>2 DEF CallInv
    <2>4. \A u, v \in Tasks : Both(u, v)' => on'[u] \in leaky'
      BY <1>1, <1>3, <2>1
    <2>5. \A k \in Coordinators : ConnectionInv(k)'
      BY <1>2, <1>3, <2>1, <2>2 DEF ConnectionInv
    <2> QED BY <1>5, <2>3, <2>4, <2>5
  <1>15. ASSUME NEW t \in Tasks, Pair(t) PROVE LinkInv'
    <2>1. /\ pc[t] = "checking" /\ pc' = [pc EXCEPT ![t] = "pairing"]
          /\ on' = on /\ UNCHANGED connections
      BY <1>15 DEF Pair, Go
    <2>2. \A u \in Tasks : CallInv(u)'
      BY <1>1, <1>2, <1>3, <1>6, <2>1 DEF CallInv, connections
    <2>3. \A u, v \in Tasks : Both(u, v)' => on'[u] \in leaky'
      BY <1>1, <1>3, <2>1 DEF connections
    <2> QED BY <1>5, <1>7, <2>1, <2>2, <2>3
  <1>16. ASSUME NEW t \in Tasks, Connected(t) PROVE LinkInv'
    <2>1. /\ on[t] \in Coordinators /\ on' = on /\ up' = up \union {on[t]}
          /\ agents' = agents /\ leaky' = leaky
          /\ pc' = [pc EXCEPT ![t] = pc'[t]] /\ pc'[t] \in {"polling", "calling"}
      BY <1>1, <1>4, <1>16 DEF Connected, Go
    <2>2. Owned(on[t], Live)
      BY <1>3, <2>1 DEF CallInv
    <2>3. \A u \in Tasks : u # t => pc'[u] = pc[u]
      BY <1>1, <2>1
    <2>4. \A u \in Tasks : CallInv(u)'
      BY <1>2, <1>3, <1>6, <2>1, <2>2, <2>3 DEF CallInv
    <2>5. \A u, v \in Tasks : Both(u, v)' => on'[u] \in leaky'
      BY <1>3, <2>1, <2>3
    <2>6. \A k \in Coordinators : ConnectionInv(k)'
      BY <1>2, <1>3, <1>6, <2>1, <2>2 DEF ConnectionInv
    <2> QED BY <1>5, <2>4, <2>5, <2>6
  <1>17. ASSUME NEW k \in Coordinators, LinkLost(k) PROVE LinkInv'
    <2>1. up' \subseteq up /\ on' = on /\ pc' = pc /\ agents' = agents /\ leaky' = leaky
      BY <1>17 DEF LinkLost, calls
    <2>2. \A u \in Tasks : CallInv(u)'
      BY <1>2, <1>3, <1>6, <2>1 DEF CallInv
    <2>3. \A l \in Coordinators : ConnectionInv(l)'
      BY <1>2, <1>3, <1>6, <2>1 DEF ConnectionInv
    <2> QED BY <1>3, <1>5, <2>1, <2>2, <2>3
  <1> QED BY <1>9, <1>10, <1>11, <1>12, <1>13, <1>14, <1>15, <1>16, <1>17 DEF ConnectionStep

(* And when anything else does. *)
LEMMA LinkStep ==
  ASSUME TypeOK, EntryInv, TableInv, EntityInv, LinkInv, [Next]_vars
  PROVE  LinkInv'
  <1> USE NoneAssumption
  <1>1. ASSUME UNCHANGED <<calls, connections>>, abandoned \subseteq abandoned',
               \A k \in Coordinators : Owned(k, Live) => Owned(k, Live)'
        PROVE  LinkInv'
    <2>1. UNCHANGED <<on, pc, up, agents, leaky>>
      BY <1>1 DEF calls, connections
    <2>2. \A k : (HasKept(k)' <=> HasKept(k)) /\ (HasLost(k)' <=> HasLost(k))
      BY <2>1 DEF HasKept, HasLost
    <2>3. \A t \in Tasks : on[t] \in Coordinators \union {None}
      BY DEF TypeOK
    <2>4. \A t \in Tasks : CallInv(t)'
      BY <1>1, <2>1, <2>2, <2>3 DEF LinkInv, CallInv
    <2>5. \A k \in Coordinators : ConnectionInv(k)'
      BY <1>1, <2>1, <2>2 DEF LinkInv, ConnectionInv
    <2> QED BY <2>1, <2>4, <2>5 DEF LinkInv
  <1>2. ASSUME NEW e \in Entries, NEW where, GoEntry(e, where),
               state[e] \in Live => where \in Live \/ current[e] \in abandoned',
               UNCHANGED <<current, entry, calls, connections>>, abandoned \subseteq abandoned'
        PROVE  LinkInv'
    <2>1. \A k \in Coordinators : Owned(k, Live) => Owned(k, Live)'
      BY <1>2, OwnedAfterMove
    <2> QED BY <1>1, <1>2, <2>1
  <1>3. ASSUME UNCHANGED <<state, current, entry, abandoned, calls, connections>> PROVE LinkInv'
    <2>1. \A k \in Coordinators : Owned(k, Live) => Owned(k, Live)'
      BY <1>3 DEF Owned, Serves
    <2> QED BY <1>1, <1>3, <2>1
  <1>4. ASSUME FlowStep PROVE LinkInv'
    <2>1. /\ UNCHANGED <<current, entry, abandoned, calls, connections>>
          /\ UNCHANGED state \/ \E e \in Entries : state[e] = None /\ GoEntry(e, "not_loaded")
      BY <1>4, FlowStepMoves DEF coordinators
    <2>2. CASE UNCHANGED state
      BY <1>3, <2>1, <2>2
    <2>3. ASSUME NEW e \in Entries, state[e] = None, GoEntry(e, "not_loaded") PROVE LinkInv'
      BY <1>2, <2>1, <2>3 DEF EntryStates, Live
    <2> QED BY <2>1, <2>2, <2>3
  <1>5. ASSUME NEW e \in Entries, BeginSetup(e) PROVE LinkInv'
    <2>1. /\ UNCHANGED <<connections, abandoned>> /\ made + 1 \in Coordinators
          /\ \E t \in Tasks : Take(t, made + 1)
      BY <1>5, BoundsAssumption DEF TypeOK, BeginSetup, Coordinators
    <2>2. PICK new \in Coordinators : new = made + 1
      BY <2>1
    <2>3. PICK t \in Tasks : Take(t, new)
      BY <2>1, <2>2
    <2>4. ASSUME NEW k \in Coordinators, Owned(k, Live) PROVE Owned(k, Live)'
      BY <1>5, <2>4, OwnedAfterSetup
    <2>5. Owned(new, Live)'
      <3>1. entry'[new] = e /\ current'[e] = new /\ state'[e] = "refreshing"
        BY <1>5, <2>2 DEF TypeOK, BeginSetup, GoEntry
      <3>2. Serves(new, Live)'
        BY <3>1 DEF Serves, Live
      <3> QED BY <3>2 DEF Owned
    <2>6. /\ on[t] = None /\ pc[t] = "calling" /\ on' = [on EXCEPT ![t] = new] /\ pc' = pc
          /\ UNCHANGED <<up, agents, leaky>> /\ abandoned' = abandoned
      BY <2>1, <2>3 DEF LinkInv, CallInv, Take, connections
    <2>7. \A k : (HasKept(k)' <=> HasKept(k)) /\ (HasLost(k)' <=> HasLost(k))
      BY <2>6 DEF HasKept, HasLost
    <2>8. on \in [Tasks -> Coordinators \union {None}]
      BY DEF TypeOK
    <2>9. \A u \in Tasks : CallInv(u)'
      BY <2>4, <2>5, <2>6, <2>7, <2>8 DEF LinkInv, CallInv
    <2>10. \A k \in Coordinators : ConnectionInv(k)'
      BY <2>4, <2>6, <2>7 DEF LinkInv, ConnectionInv
    <2> QED BY <2>6, <2>8, <2>9, <2>10 DEF LinkInv
  <1>6. ASSUME NEW k \in Coordinators, EndRefresh(k),
               abandoned \subseteq abandoned',
               \A l \in Coordinators : Owned(l, Live) => Owned(l, Live)',
               \A l \in Coordinators : l # k => (HasKept(l)' <=> HasKept(l)),
               leaky' = leaky, \A l \in Coordinators : ConnectionInv(l)'
        PROVE  LinkInv'
    <2>1. \A t \in Tasks : on[t] \in Coordinators \union {None} /\ CallInv(t)
      BY DEF TypeOK, LinkInv
    <2>2. \A t \in Tasks : /\ on[t] = k => on'[t] = None /\ pc'[t] = "calling"
                           /\ on[t] # k => on'[t] = on[t] /\ pc'[t] = pc[t]
      BY <1>6 DEF EndRefresh
    <2>3. \A t \in Tasks : CallInv(t)'
      BY <1>6, <2>1, <2>2 DEF CallInv
    <2>4. \A t, u \in Tasks :
            t # u /\ on'[t] = on'[u] /\ pc'[t] = "registering" /\ pc'[u] = "registering"
              => on'[t] \in leaky'
      BY <1>6, <2>2 DEF LinkInv
    <2> QED BY <1>6, <2>3, <2>4 DEF LinkInv
  <1>7. ASSUME NEW e \in Entries, RefreshOk(e) PROVE LinkInv'
    <2>1. /\ state[e] = "refreshing" /\ GoEntry(e, "forwarding")
          /\ UNCHANGED <<current, entry, connections, abandoned>>
          /\ EndRefresh(current[e])
      BY <1>7 DEF RefreshOk
    <2>2. current[e] \in Coordinators
      BY <2>1, CurrentIsOwn DEF Live
    <2>3. \A k \in Coordinators : Owned(k, Live) => Owned(k, Live)'
      BY <2>1, OwnedAfterMove DEF Live
    <2>4. UNCHANGED <<up, agents, leaky>>
      BY <2>1 DEF connections
    <2>5. \A k : (HasKept(k)' <=> HasKept(k)) /\ (HasLost(k)' <=> HasLost(k))
      BY <2>4 DEF HasKept, HasLost
    <2>6. \A k \in Coordinators : ConnectionInv(k)'
      BY <2>3, <2>4, <2>5 DEF LinkInv, ConnectionInv
    <2> QED BY <1>6, <2>1, <2>2, <2>3, <2>4, <2>5, <2>6
  <1>8. ASSUME NEW e \in Entries, NEW where, state[e] \in Live, GiveUp(e, where)
        PROVE  /\ current[e] \in Coordinators
               /\ abandoned' = abandoned \union {current[e]} /\ leaky' = leaky
               /\ \A k \in Coordinators : Owned(k, Live) => Owned(k, Live)'
               /\ \A k \in Coordinators : k # current[e] => (HasKept(k)' <=> HasKept(k))
               /\ \A k \in Coordinators : HasKept(k)' => HasKept(k)
               /\ \A k \in Coordinators : ConnectionInv(k)'
    <2>1. /\ current[e] \in Coordinators /\ agents \in Seq(Agents)
          /\ Once(agents, Kept(current[e]))
      BY <1>8, CurrentIsOwn DEF TypeOK, LinkInv, ConnectionInv
    <2>2. /\ GoEntry(e, where) /\ UNCHANGED <<current, entry>> /\ leaky' = leaky
          /\ abandoned' = abandoned \union {current[e]} /\ up' \subseteq up
          /\ agents' = agents \/ agents' = RemoveFirst(agents, Kept(current[e]))
      BY <1>8 DEF GiveUp
    <2>3. /\ \A k : k # current[e] => (HasKept(k)' <=> HasKept(k))
          /\ \A k : HasKept(k)' => HasKept(k)
          /\ \A k : HasLost(k)' <=> HasLost(k)
          /\ \A k : Once(agents, Kept(k)) => Once(agents', Kept(k))
      <3>1. CASE agents' = agents
        BY <3>1 DEF HasKept, HasLost
      <3>2. CASE agents' = RemoveFirst(agents, Kept(current[e]))
        BY <3>2, <2>1, AgentsAfterTeardown
      <3> QED BY <2>2, <3>1, <3>2
    <2>4. \A k \in Coordinators : Owned(k, Live) => Owned(k, Live)'
      BY <2>2, OwnedAfterMove
    <2>5. \A k \in Coordinators : ConnectionInv(k)'
      BY <2>2, <2>3, <2>4 DEF LinkInv, ConnectionInv
    <2> QED BY <2>1, <2>2, <2>3, <2>4, <2>5
  <1>9. ASSUME NEW e \in Entries, RefreshFails(e) PROVE LinkInv'
    <2>1. /\ state[e] \in Live /\ GiveUp(e, "setup_retry") /\ EndRefresh(current[e])
      BY <1>9 DEF RefreshFails, Live
    <2> QED BY <1>6, <1>8, <2>1
  <1>10. ASSUME NEW e \in Entries, ForwardFails(e) PROVE LinkInv'
    <2>1. /\ state[e] \in Live /\ GiveUp(e, "setup_error") /\ on' = on /\ pc' = pc
      BY <1>10 DEF ForwardFails, Live, calls
    <2>2. \A t \in Tasks : on[t] \in Coordinators \union {None} /\ CallInv(t)
      BY DEF TypeOK, LinkInv
    <2>3. \A t \in Tasks : CallInv(t)'
      BY <1>8, <2>1, <2>2 DEF CallInv
    <2> QED BY <1>8, <2>1, <2>3 DEF LinkInv
  <1>11. ASSUME NEW e \in Entries, ShutDown(e) PROVE LinkInv'
    <2>1. /\ state[e] = "shutting_down" /\ GoEntry(e, "not_loaded") /\ UNCHANGED <<current, entry>>
          /\ on' = on /\ pc' = pc /\ leaky' = leaky
          /\ abandoned \subseteq abandoned'
          /\ (\E t \in Tasks : on[t] = current[e]) => current[e] \in abandoned'
          /\ up' = up \ {current[e]}
          /\ agents' = RemoveFirst(agents, Kept(current[e]))
      BY <1>11 DEF ShutDown, EndUnload, Disconnect, TeardownAgent, calls, coordinators
    <2>2. /\ current[e] \in Coordinators /\ agents \in Seq(Agents)
          /\ Once(agents, Kept(current[e]))
      BY <2>1, CurrentIsOwn DEF TypeOK, LinkInv, ConnectionInv, Live
    <2>3. /\ ~HasKept(current[e])'
          /\ \A k : k # current[e] => (HasKept(k)' <=> HasKept(k))
          /\ \A k : HasLost(k)' <=> HasLost(k)
          /\ \A k : Once(agents, Kept(k)) => Once(agents', Kept(k))
      BY <2>1, <2>2, AgentsAfterTeardown
    <2>4. ASSUME NEW k \in Coordinators, Owned(k, Live), k # current[e] PROVE Owned(k, Live)'
      BY <2>1, <2>4, OwnedAfterMove
    <2>5. current[e] \in abandoned' => Owned(current[e], Live)'
      BY <2>1 DEF Owned
    <2>6. \A t \in Tasks : on[t] \in Coordinators \union {None} /\ CallInv(t)
      BY DEF TypeOK, LinkInv
    <2>7. ASSUME NEW t \in Tasks PROVE CallInv(t)'
      <3>1. CASE on[t] = current[e]
        BY <3>1, <2>1, <2>3, <2>5, <2>6 DEF CallInv
      <3>2. CASE on[t] # current[e]
        BY <3>2, <2>1, <2>3, <2>4, <2>6 DEF CallInv
      <3> QED BY <3>1, <3>2
    <2>8. \A k \in Coordinators : ConnectionInv(k)'
      BY <2>1, <2>3, <2>4 DEF LinkInv, ConnectionInv
    <2> QED BY <2>1, <2>7, <2>8 DEF LinkInv
  <1>12. ASSUME NEW e \in Entries,
                \/ ForwardOk(e) \/ BeginUnload(e) \/ UnloadPlatforms(e)
                \/ UnloadPlatformsFails(e) \/ ShutDownFails(e) \/ RemoveEntry(e)
         PROVE  LinkInv'
    <2>1. CASE ForwardOk(e)
      BY <1>2, <2>1 DEF ForwardOk, Live, coordinators
    <2>2. CASE BeginUnload(e)
      BY <1>2, <2>2 DEF BeginUnload, Live, coordinators
    <2>3. CASE UnloadPlatforms(e)
      BY <1>2, <2>3 DEF UnloadPlatforms, Live, coordinators
    <2>4. CASE UnloadPlatformsFails(e)
      BY <1>2, <2>4 DEF UnloadPlatformsFails, coordinators
    <2>5. CASE ShutDownFails(e)
      BY <1>2, <2>5 DEF ShutDownFails, coordinators
    <2>6. CASE RemoveEntry(e)
      BY <1>2, <2>6 DEF RemoveEntry, Live, coordinators
    <2> QED BY <1>12, <2>1, <2>2, <2>3, <2>4, <2>5, <2>6
  <1>13. ASSUME Restart PROVE LinkInv'
    <2>1. ~\E k : Contains(<<>>, k)
      BY DEF Contains
    <2> QED BY <1>13, <2>1 DEF Restart, LinkInv, CallInv, ConnectionInv, HasKept, HasLost, Once
  <1>14. ASSUME UNCHANGED vars PROVE LinkInv'
    BY <1>3, <1>14 DEF vars, entries, coordinators
  <1> QED BY <1>4, <1>5, <1>7, <1>9, <1>10, <1>11, <1>12, <1>13, <1>14, ConnectionLinkStep
       DEF Next, EntryStep

(* Every step keeps the invariant. *)
LEMMA InvStep == Inv /\ [Next]_vars => Inv'
  <1> SUFFICES ASSUME Inv, [Next]_vars PROVE Inv'
    OBVIOUS
  <1>1. TypeOK'
    BY TypeStep DEF Inv
  <1>2. EntryInv' /\ FlowInv'
    BY EntryInvStep, FlowInvStep DEF Inv
  <1>3. TableInv'
    BY TableStep DEF Inv
  <1>4. EntityInv'
    BY EntityStep DEF Inv
  <1>5. LinkInv'
    BY LinkStep DEF Inv
  <1> QED BY <1>1, <1>2, <1>3, <1>4, <1>5 DEF Inv

(* The strengthened invariant holds in every state of the entries. *)
THEOREM Invariance == Spec => []Inv
  BY InvInit, InvStep, PTL DEF Spec

-----------------------------------------------------------------------------
(* The properties of the module. *)

(* Every variable of the entries keeps its type. *)
THEOREM TypeCorrect == Spec => []TypeOK
  <1>1. Inv => TypeOK
    BY DEF Inv
  <1> QED BY Invariance, <1>1, PTL

(* The config flow configures no device twice: _abort_if_unique_id_configured in
   its steps is enough, although the confirmation does not look again. *)
THEOREM EntriesAreDistinct == Spec => []OneEntryPerDevice
  <1>1. Inv => OneEntryPerDevice
    BY DEF Inv, FlowInv
  <1> QED BY Invariance, <1>1, PTL

(* hass.data holds the coordinator of every loaded entry, and besides those only
   what broken set-ups and unloads left in it. *)
THEOREM TableAccounted == Spec => []TableIsAccounted
  <1>1. Inv => TableIsAccounted
    <2> SUFFICES ASSUME Inv PROVE TableIsAccounted
      OBVIOUS
    <2>1. hass_data \in Seq(Coordinators)
      BY DEF Inv, TypeOK
    <2>2. \A k \in ToSet(hass_data) : k \in Coordinators /\ Contains(hass_data, k)
      BY <2>1 DEF ToSet, Contains
    <2>3. \A k \in ToSet(hass_data) : Owned(k, Served)
      BY <2>2 DEF Inv, TableInv
    <2>4. \A i, j \in 1..Len(hass_data) : i # j => entry[hass_data[i]] # entry[hass_data[j]]
      <3> SUFFICES ASSUME NEW i \in 1..Len(hass_data), NEW j \in 1..Len(hass_data), i # j
                   PROVE  entry[hass_data[i]] # entry[hass_data[j]]
        OBVIOUS
      <3>1. /\ hass_data[i] \in Coordinators /\ Contains(hass_data, hass_data[i])
            /\ hass_data[j] \in Coordinators /\ Contains(hass_data, hass_data[j])
        BY <2>1 DEF Contains
      <3>2. hass_data[i] # hass_data[j]
        BY <2>1 DEF Inv, TableInv, IsInjective
      <3> QED BY <3>1, <3>2 DEF Inv, TableInv
    <2> QED BY <2>3, <2>4 DEF TableIsAccounted, Inv, TableInv, Owned, Served
  <1> QED BY Invariance, <1>1, PTL

(* handle_load_dump, registered once and for all entries, finds the coordinator
   of a loaded entry's device in the table, or one a broken unload left there. *)
THEOREM ServiceFinds == Spec => []ServiceFindsItsEntry
  <1>1. Inv => ServiceFindsItsEntry
    <2> SUFFICES ASSUME Inv, NEW e \in Entries, state[e] = "loaded"
                 PROVE  /\ services
                        /\ Found(address[e]) = current[e] \/ Found(address[e]) \in abandoned
      BY DEF ServiceFindsItsEntry
    <2>1. /\ Contains(hass_data, current[e]) /\ entry[current[e]] = e /\ services
      BY CurrentIsOwn DEF Inv, TableInv, EntityInv, Served, Live
    <2>2. PICK k \in Coordinators :
            k = Found(address[e]) /\ Contains(hass_data, k) /\ address[entry[k]] = address[e]
      BY <2>1, FoundIsRow DEF Inv
    <2>3. CASE k \in abandoned
      BY <2>1, <2>2, <2>3
    <2>4. CASE Serves(k, Served)
      <3>1. /\ entry[k] \in Entries /\ current[entry[k]] = k
            /\ state[entry[k]] # None /\ state[e] # None
        BY <2>4, NoneAssumption DEF Inv, TypeOK, Serves, Served, EntryStates, Live
      <3>2. entry[k] = e
        BY <2>2, <3>1 DEF Inv, FlowInv, OneEntryPerDevice
      <3> QED BY <2>1, <2>2, <3>1, <3>2
    <2> QED BY <2>2, <2>3, <2>4 DEF Inv, TableInv, Owned
  <1> QED BY Invariance, <1>1, PTL

(* An entity's coordinator has data, since the first refresh comes before the
   platforms. *)
THEOREM EntitiesFindData == Spec => []EntitiesHaveData
  <1>1. Inv => EntitiesHaveData
    BY DEF Inv, EntityInv, EntitiesHaveData
  <1> QED BY Invariance, <1>1, PTL

(* The agent a coordinator holds is one and goes with it, however many tasks set
   its connection up at once; any other was lost by two that registered at once or
   by a registration that was refused half-way. *)
THEOREM AgentsAccounted == Spec => []AgentsAreAccounted
  <1>1. Inv => AgentsAreAccounted
    <2> SUFFICES ASSUME Inv, NEW i \in 1..Len(agents)
                 PROVE  IF agents[i].kept
                        THEN /\ Serves(agents[i].of, Live) \/ agents[i].of \in abandoned
                             /\ \A j \in 1..Len(agents) : agents[j] = agents[i] => j = i
                        ELSE agents[i].of \in leaky
      BY DEF AgentsAreAccounted
    <2>1. agents[i] \in Agents
      BY DEF Inv, TypeOK
    <2>2. PICK k \in Coordinators : k = agents[i].of
      BY <2>1 DEF Agents
    <2>3. ConnectionInv(k)
      BY DEF Inv, LinkInv
    <2>4. CASE agents[i].kept
      <3>1. agents[i] = Kept(k)
        BY <2>1, <2>2, <2>4 DEF Agents, Kept
      <3>2. HasKept(k)
        BY <3>1 DEF HasKept, Contains
      <3> QED BY <2>2, <2>3, <2>4, <3>1, <3>2 DEF ConnectionInv, Owned, Once
    <2>5. CASE ~agents[i].kept
      <3>1. agents[i] = Lost(k)
        BY <2>1, <2>2, <2>5 DEF Agents, Lost
      <3>2. HasLost(k)
        BY <3>1 DEF HasLost, Contains
      <3> QED BY <2>2, <2>3, <2>5, <3>2 DEF ConnectionInv
    <2> QED BY <2>4, <2>5
  <1> QED BY Invariance, <1>1, PTL

(* Reloads leave no second connection to a device. *)
THEOREM LinksAreDistinct == Spec => []OneLinkPerDevice
  <1>1. Inv => OneLinkPerDevice
    <2> SUFFICES ASSUME Inv, NEW k \in up, NEW l \in up, k # l,
                        address[entry[k]] = address[entry[l]],
                        k \notin abandoned, l \notin abandoned
                 PROVE  FALSE
      BY DEF OneLinkPerDevice
    <2>1. k \in Coordinators /\ l \in Coordinators
      BY DEF Inv, TypeOK
    <2>2. Serves(k, Live) /\ Serves(l, Live)
      BY <2>1 DEF Inv, LinkInv, ConnectionInv, Owned
    <2>3. /\ entry[k] \in Entries /\ state[entry[k]] # None
          /\ entry[l] \in Entries /\ state[entry[l]] # None
          /\ entry[k] # entry[l]
      BY <2>1, <2>2, NoneAssumption DEF Inv, TypeOK, Serves, EntryStates
    <2> QED BY <2>3 DEF Inv, FlowInv, OneEntryPerDevice
  <1> QED BY Invariance, <1>1, PTL

(* While a coordinator pairs, its own agent is registered. *)
THEOREM OwnAgentWhenPairing == Spec => []PairingHasOwnAgent
  <1>1. Inv => PairingHasOwnAgent
    BY DEF Inv, LinkInv, CallInv, HasKept, PairingHasOwnAgent
  <1> QED BY Invariance, <1>1, PTL

(* Loaded entries hear events, and no listener is left behind. *)
THEOREM ListenersLive == Spec => []ListenersAreLive
  <1>1. Inv => ListenersAreLive
    BY DEF Inv, EntityInv, ListenersAreLive, Owned
  <1> QED BY Invariance, <1>1, PTL
=============================================================================
