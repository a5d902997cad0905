------------------------- MODULE VFSInstancesProofs -------------------------
(***************************************************************************)
(* Theorems about VFSInstances, for any number of threads, configurations  *)
(* and bounds: its type invariant, that the counts of the infos are what   *)
(* the references to them add up to, that no promise loses its info, that  *)
(* nothing is remembered in vain, that a host has one info, and that an    *)
(* info stands for the configurations of its host.                         *)
(***************************************************************************)
EXTENDS VFSInstances, SequenceFacts, FiniteSetTheorems

\* What threads and infos refer to has not been destroyed; ids grow from parents down.
HostsInv ==
    /\ \A t \in Threads : Range(taming[t]) \subseteq DOMAIN hosts
    /\ \A t \in Threads : parent_host[t] \in DOMAIN hosts \cup {0}
    /\ \A id \in DOMAIN m_Memory : /\ m_Memory[id].host \in m_OnDesctruct \cup {0}
                                   /\ m_Memory[id].parent < id

\* A thread that spawns hosts has the lock, and an info without a host for each of them.
Restoring(t) ==
    /\ m_MemoryLock = t <=> pc[t] \in {"restore", "stuck"}
    /\ pc[t] = "restore" <=> restoring[t] # <<>>
    /\ IsInjective(restoring[t])
    /\ \A id \in ToSet(restoring[t]) : id \in DOMAIN m_Memory /\ Expired(m_Memory[id])

RestoringInv == \A t \in Threads : Restoring(t)

\* The host in which this one is has an info, if there is one.
ParentKnown(h) == hosts[h].parent # 0 => InfosOf(hosts[h].parent) # {}

\* The calls of TameVFS() go from hosts to their parents, which they make known.
Taming(t) ==
    /\ pc[t] \in {"tame", "drop", "build"} <=> taming[t] # <<>>
    /\ pc[t] = "drop" <=> result[t] # 0
    /\ \A j \in 1..Len(taming[t]) - 1 : hosts[taming[t][j]].parent = taming[t][j + 1]
    /\ pc[t] \in {"drop", "build"} => ParentKnown(Last(taming[t]))

TamingInv == \A t \in Threads : Taming(t)

\* All that is counted, also for infos that are not remembered.
References(id) == Handles(id) + Links(id) + decs[id] + leaked[id]

CountInv ==
    \A id \in Ids :
        References(id) = IF id \in DOMAIN m_Memory THEN m_Memory[id].count ELSE 0

\* Only what is promised is remembered without a host.
WantedInv == \A id \in DOMAIN m_Memory : m_Memory[id].host = 0 => m_Memory[id].count > 0

IInv ==
    /\ TypeOK
    /\ HostsInv
    /\ RestoringInv
    /\ TamingInv
    /\ CountInv
    /\ WantedInv

-----------------------------------------------------------------------------
(* Constants and records.                                                  *)

LEMMA ConstantFacts ==
  /\ MaxHosts \in Nat /\ MaxInfos \in Nat
  /\ Hosts = 1..MaxHosts /\ Ids = 1..MaxInfos
  /\ 0 \notin Hosts /\ 0 \notin Ids /\ Ids \subseteq Nat /\ Hosts \subseteq Nat
  BY BoundsAssumption DEF Hosts, Ids

LEMMA InfoFacts ==
  ASSUME NEW r \in Infos
  PROVE  /\ r.config \in Configs /\ r.parent \in Ids \cup {0}
         /\ r.host \in Hosts \cup {0} /\ r.count \in Nat
         /\ \A h \in Hosts \cup {0} :
                /\ [r EXCEPT !.host = h] \in Infos
                /\ [r EXCEPT !.host = h].config = r.config
                /\ [r EXCEPT !.host = h].parent = r.parent
                /\ [r EXCEPT !.host = h].host = h
                /\ [r EXCEPT !.host = h].count = r.count
         /\ \A n \in Nat :
                /\ [r EXCEPT !.count = n] \in Infos
                /\ [r EXCEPT !.count = n].config = r.config
                /\ [r EXCEPT !.count = n].parent = r.parent
                /\ [r EXCEPT !.count = n].host = r.host
                /\ [r EXCEPT !.count = n].count = n
  BY DEF Infos

LEMMA HostFacts ==
  ASSUME TypeOK, NEW h \in DOMAIN hosts
  PROVE  h \in Hosts /\ hosts[h].config \in Configs /\ hosts[h].parent \in DOMAIN hosts \cup {0}
  BY DEF TypeOK

\* A set of numbers that is not empty has a least element, which is Min().
LEMMA MinFacts ==
  ASSUME NEW S, S \subseteq Nat, S # {}
  PROVE  Min(S) \in S /\ \A n \in S : Min(S) <= n
  <1>1. \E m \in S : \A n \in S : m <= n
    BY LeastNumber
  <1> QED
    BY <1>1 DEF Min

-----------------------------------------------------------------------------
(* Recursion from children to parents, whose ranks or numbers are less.    *)

\* The values of a recursive function on P, which are in V.
Solution(f, P, par, V, v0, G) ==
    /\ f = [i \in P |-> IF i = 0 THEN v0 ELSE G[<<i, f[par[i]]>>]]
    /\ \A i \in P : f[i] \in V

LEMMA RankedRecursion ==
  ASSUME NEW N \in Nat, NEW P, NEW rank \in [P -> 0..N],
         NEW par \in [P -> P], \A i \in P : i # 0 => rank[par[i]] < rank[i],
         NEW V, NEW v0 \in V, NEW G \in [P \X V -> V]
  PROVE  \E f : Solution(f, P, par, V, v0, G)
  <1> DEFINE Below(n) == {j \in P : rank[j] < n}
             Solves(f, i) == f[i] = IF i = 0 THEN v0 ELSE G[<<i, f[par[i]]>>]
             Solved(n) == \E f \in [Below(n) -> V] : \A i \in Below(n) : Solves(f, i)
             T == {n \in Nat : ~Solved(n)}
  <1>0. \A i \in P : rank[i] \in Nat /\ rank[i] < N + 1
    <2>1. \A n \in 0..N : n \in Nat /\ n < N + 1
      OBVIOUS
    <2> QED
      BY <2>1
  <1>1. \A n \in Nat : Solved(n)
    <2>1. SUFFICES ASSUME T # {} PROVE FALSE
      OBVIOUS
    <2>2. PICK n \in T : \A k \in T : n <= k
      BY <2>1, LeastNumber
    <2>3. n \in Nat /\ ~Solved(n)
      OBVIOUS
    <2>4. CASE n = 0
      <3>1. Below(0) = {}
        <4>1. \A i \in P : ~(rank[i] < 0)
          BY <1>0
        <4> QED
          BY <4>1
      <3>2. [i \in Below(0) |-> v0] \in [Below(0) -> V]
        OBVIOUS
      <3> QED
        BY <2>3, <2>4, <3>1, <3>2
    <2>5. CASE n # 0
      <3> DEFINE m == n - 1
      <3>1. m \in Nat /\ m < n /\ m + 1 = n
        BY <2>3, <2>5
      <3>2. Solved(m)
        <4>1. m \notin T
          <5>1. ~(n <= m)
            BY <2>3, <3>1
          <5> HIDE DEF T, m
          <5> QED
            BY <2>2, <5>1
        <4> QED
          BY <3>1, <4>1
      <3>3. PICK f \in [Below(m) -> V] : \A i \in Below(m) : Solves(f, i)
        BY <3>2
      <3>4. \A i \in P : /\ i \in Below(n) <=> i \in Below(m) \/ rank[i] = m
                         /\ i \in Below(n) /\ i # 0 => par[i] \in Below(m)
                         /\ rank[i] = m => i \notin Below(m)
        <4>1. ASSUME NEW i \in P
              PROVE  /\ rank[i] < n <=> rank[i] < m \/ rank[i] = m
                     /\ rank[i] < n /\ i # 0 => par[i] \in P /\ rank[par[i]] < m
                     /\ rank[i] = m => ~(rank[i] < m)
          <5>1. /\ rank[i] \in Nat
                /\ i # 0 => par[i] \in P /\ rank[par[i]] \in Nat /\ rank[par[i]] < rank[i]
            BY <1>0
          <5> QED
            BY <2>3, <3>1, <5>1
        <4> QED
          BY <4>1
      <3> DEFINE g == [i \in Below(n) |->
                          IF rank[i] = m THEN IF i = 0 THEN v0 ELSE G[<<i, f[par[i]]>>] ELSE f[i]]
      <3>5. g \in [Below(n) -> V]
        <4>1. ASSUME NEW i \in Below(n)
              PROVE  g[i] \in V
          <5>1. CASE rank[i] = m /\ i # 0
            <6>1. f[par[i]] \in V
              BY <3>3, <3>4, <5>1
            <6>2. <<i, f[par[i]]>> \in P \X V
              BY <6>1
            <6> QED
              BY <5>1, <6>2
          <5>2. CASE rank[i] = m /\ i = 0
            BY <5>2
          <5>3. CASE rank[i] # m
            BY <3>3, <3>4, <5>3
          <5> QED
            BY <5>1, <5>2, <5>3
        <4> QED
          BY <4>1
      <3>6. \A i \in Below(m) : g[i] = f[i]
        BY <3>4
      <3>7. ASSUME NEW i \in Below(n)
            PROVE  Solves(g, i)
        <4>1. i # 0 => g[par[i]] = f[par[i]]
          BY <3>4, <3>6
        <4>2. CASE rank[i] = m
          BY <4>1, <4>2
        <4>3. CASE rank[i] # m
          <5>1. i \in Below(m)
            BY <3>4, <4>3
          <5>2. g[i] = f[i] /\ Solves(f, i)
            BY <3>3, <3>6, <5>1
          <5> QED
            BY <4>1, <5>2
        <4> QED
          BY <4>2, <4>3
      <3>8. Solved(n)
        BY <3>5, <3>7
      <3> QED
        BY <2>3, <3>8
    <2> QED
      BY <2>4, <2>5
  <1>2. Below(N + 1) = P
    BY <1>0
  <1>3. Solved(N + 1)
    <2>1. N + 1 \in Nat
      OBVIOUS
    <2> HIDE DEF Solved
    <2> QED
      BY <1>1, <2>1
  <1>4. PICK f \in [P -> V] : \A i \in P : Solves(f, i)
    BY <1>2, <1>3
  <1>5. f = [i \in P |-> f[i]]
    BY <1>4
  <1>6. f = [i \in P |-> IF i = 0 THEN v0 ELSE G[<<i, f[par[i]]>>]]
    BY <1>4, <1>5
  <1> QED
    BY <1>4, <1>6 DEF Solution

LEMMA ParentRecursion ==
  ASSUME NEW N \in Nat, NEW P \in SUBSET (0..N),
         NEW par \in [P -> P], \A i \in P : i # 0 => par[i] < i,
         NEW V, NEW v0 \in V, NEW G \in [P \X V -> V]
  PROVE  \E f : Solution(f, P, par, V, v0, G)
  <1> DEFINE rank == [i \in P |-> i]
  <1>1. rank \in [P -> 0..N] /\ \A i \in P : i # 0 => rank[par[i]] < rank[i]
    OBVIOUS
  <1> HIDE DEF rank
  <1> QED
    BY <1>1, RankedRecursion

-----------------------------------------------------------------------------
(* What the references to an info are.                                     *)

LEMMA CountTypes ==
  ASSUME TypeOK
  PROVE  /\ IsFiniteSet(DOMAIN m_Memory) /\ DOMAIN m_Memory \subseteq Ids
         /\ \A S \in SUBSET DOMAIN m_Memory : IsFiniteSet(S) /\ Cardinality(S) \in Nat
         /\ \A S \in SUBSET Threads : IsFiniteSet(S) /\ Cardinality(S) \in Nat
         /\ \A id \in Ids : /\ promises[id] \in Nat /\ decs[id] \in Nat /\ leaked[id] \in Nat
                            /\ Handles(id) \in Nat /\ Links(id) \in Nat
         /\ \A id : Links(id) \in Nat
                    /\ (Links(id) = 0 <=> \A c \in DOMAIN m_Memory : m_Memory[c].parent # id)
  <1>1. /\ m_MemoryNextID \in 1..MaxInfos + 1
        /\ DOMAIN m_Memory \subseteq 1..m_MemoryNextID - 1
        /\ promises \in [Ids -> Nat] /\ decs \in [Ids -> Nat] /\ leaked \in [Ids -> Nat]
    BY DEF TypeOK
  <1>2. /\ IsFiniteSet(1..m_MemoryNextID - 1)
        /\ 1..m_MemoryNextID - 1 \subseteq Ids
    <2>1. m_MemoryNextID - 1 \in Int /\ 1 \in Int
      BY <1>1, ConstantFacts
    <2>2. IsFiniteSet(1..m_MemoryNextID - 1)
      BY <2>1, FS_Interval
    <2> QED
      BY <1>1, <2>2, ConstantFacts
  <1>3. IsFiniteSet(DOMAIN m_Memory) /\ DOMAIN m_Memory \subseteq Ids
    BY <1>1, <1>2, FS_Subset
  <1>4. \A S \in SUBSET DOMAIN m_Memory : IsFiniteSet(S) /\ Cardinality(S) \in Nat
    BY <1>3, FS_Subset, FS_CardinalityType
  <1>5. \A S \in SUBSET Threads : IsFiniteSet(S) /\ Cardinality(S) \in Nat
    BY ThreadsAssumption, FS_Subset, FS_CardinalityType
  <1>6. ASSUME NEW id
        PROVE  /\ Links(id) \in Nat
               /\ (Links(id) = 0 <=> \A c \in DOMAIN m_Memory : m_Memory[c].parent # id)
    <2> DEFINE S == {c \in DOMAIN m_Memory : m_Memory[c].parent = id}
    <2>1. IsFiniteSet(S) /\ Cardinality(S) \in Nat
      BY <1>4
    <2>2. Cardinality(S) = 0 <=> S = {}
      BY <2>1, FS_EmptySet
    <2>3. S = {} <=> \A c \in DOMAIN m_Memory : m_Memory[c].parent # id
      OBVIOUS
    <2> QED
      BY <2>1, <2>2, <2>3 DEF Links
  <1>7. ASSUME NEW id \in Ids
        PROVE  Handles(id) \in Nat
    <2>1. Cardinality({t \in Threads : result[t] = id}) \in Nat
      BY <1>5
    <2> QED
      BY <1>1, <2>1 DEF Handles
  <1> QED
    BY <1>1, <1>3, <1>4, <1>5, <1>6, <1>7

\* An info is remembered as long as something refers to it.
LEMMA ReferredTo ==
  ASSUME TypeOK, CountInv
  PROVE  /\ \A id \in Ids : /\ promises[id] > 0 => id \in DOMAIN m_Memory
                            /\ decs[id] > 0 => id \in DOMAIN m_Memory
         /\ \A t \in Threads : result[t] # 0 => result[t] \in DOMAIN m_Memory
         /\ \A id \in DOMAIN m_Memory : m_Memory[id].parent \in DOMAIN m_Memory \cup {0}
  <1>1. ASSUME NEW id \in Ids, Handles(id) > 0 \/ Links(id) > 0 \/ decs[id] > 0
        PROVE  id \in DOMAIN m_Memory
    <2>1. References(id) # 0
      BY <1>1, CountTypes DEF References
    <2> QED
      BY <2>1 DEF CountInv
  <1>2. ASSUME NEW id \in Ids, promises[id] > 0
        PROVE  Handles(id) > 0
    <2>1. promises[id] \in Nat /\ Cardinality({t \in Threads : result[t] = id}) \in Nat
      BY CountTypes
    <2> QED
      BY <1>2, <2>1 DEF Handles
  <1>3. ASSUME NEW t \in Threads, result[t] # 0
        PROVE  result[t] \in Ids /\ Handles(result[t]) > 0
    <2> DEFINE S == {u \in Threads : result[u] = result[t]}
    <2>1. result[t] \in Ids
      BY <1>3 DEF TypeOK
    <2>2. IsFiniteSet(S) /\ Cardinality(S) \in Nat /\ t \in S
      BY CountTypes
    <2>3. Cardinality(S) # 0
      BY <2>2, FS_EmptySet
    <2>4. promises[result[t]] \in Nat
      BY <2>1, CountTypes
    <2> QED
      BY <2>1, <2>2, <2>3, <2>4 DEF Handles
  <1>4. ASSUME NEW id \in DOMAIN m_Memory, m_Memory[id].parent # 0
        PROVE  m_Memory[id].parent \in Ids /\ Links(m_Memory[id].parent) > 0
    <2>1. m_Memory[id].parent \in Ids
      BY <1>4, InfoFacts DEF TypeOK
    <2>2. Links(m_Memory[id].parent) \in Nat /\ Links(m_Memory[id].parent) # 0
      BY CountTypes
    <2> QED
      BY <2>1, <2>2
  <1> QED
    BY <1>1, <1>2, <1>3, <1>4

\* Uplinks lead to older infos, which are remembered.
UplinksKept ==
    /\ DOMAIN m_Memory \subseteq 1..MaxInfos
    /\ \A id \in DOMAIN m_Memory : /\ m_Memory[id].parent \in DOMAIN m_Memory \cup {0}
                                   /\ m_Memory[id].parent < id

LEMMA UplinkFacts ==
  ASSUME TypeOK, HostsInv, CountInv
  PROVE  UplinksKept
  BY ReferredTo, CountTypes, ConstantFacts DEF UplinksKept, HostsInv

\* The recursive function of Chain() exists.
LEMMA ChainExists ==
  ASSUME TypeOK, UplinksKept
  PROVE  LET up[i \in DOMAIN m_Memory \cup {0}] ==
                 [k \in DOMAIN hosts \cup {0} |->
                     IF i = 0 \/ k = 0 THEN {}
                     ELSE {<<i, k>>} \cup IF Alike(i, k) THEN up[m_Memory[i].parent][hosts[k].parent]
                                         ELSE {}]
         IN  up = [i \in DOMAIN m_Memory \cup {0} |->
                      [k \in DOMAIN hosts \cup {0} |->
                          IF i = 0 \/ k = 0 THEN {}
                          ELSE {<<i, k>>} \cup IF Alike(i, k)
                                                THEN up[m_Memory[i].parent][hosts[k].parent]
                                                ELSE {}]]
  <1> DEFINE M == DOMAIN m_Memory
             D == DOMAIN hosts
             P == M \cup {0}
             K == D \cup {0}
             V == [K -> SUBSET (M \X D)]
             Row(i, v) == [k \in K |->
                              IF i = 0 \/ k = 0 THEN {}
                              ELSE {<<i, k>>} \cup IF Alike(i, k) THEN v[hosts[k].parent] ELSE {}]
             par == [i \in P |-> IF i = 0 THEN 0 ELSE m_Memory[i].parent]
             v0 == [k \in K |-> {}]
             G == [p \in P \X V |-> Row(p[1], p[2])]
  <1>1. \A k \in D : hosts[k].parent \in K
    BY HostFacts
  <1>2. ASSUME NEW i \in P, NEW v \in V
        PROVE  Row(i, v) \in V
    <2>1. ASSUME NEW k \in K
          PROVE  Row(i, v)[k] \in SUBSET (M \X D)
      <3>1. CASE i = 0 \/ k = 0
        BY <3>1
      <3>2. CASE i # 0 /\ k # 0
        <4>1. i \in M /\ k \in D /\ hosts[k].parent \in K
          BY <1>1, <3>2
        <4>2. <<i, k>> \in M \X D /\ v[hosts[k].parent] \in SUBSET (M \X D)
          BY <4>1
        <4> QED
          BY <4>2
      <3> QED
        BY <3>1, <3>2
    <2> QED
      BY <2>1
  <1>3. par \in [P -> P] /\ \A i \in P : i # 0 => par[i] < i
    BY DEF UplinksKept
  <1>4. P \in SUBSET (0..MaxInfos) /\ MaxInfos \in Nat
    BY ConstantFacts DEF UplinksKept
  <1>5. v0 \in V /\ G \in [P \X V -> V]
    <2>1. v0 \in V
      OBVIOUS
    <2>2. \A p \in P \X V : p[1] \in P /\ p[2] \in V
      OBVIOUS
    <2> HIDE DEF V, P, Row
    <2> QED
      BY <1>2, <2>1, <2>2
  <1>6. PICK f : Solution(f, P, par, V, v0, G)
    <2> HIDE DEF P, V, par, v0, G
    <2> QED
      BY <1>3, <1>4, <1>5, ParentRecursion
  <1>7. /\ f = [i \in P |-> f[i]]
        /\ \A i \in P : f[i] \in V /\ f[i] = IF i = 0 THEN v0 ELSE G[<<i, f[par[i]]>>]
    <2> HIDE DEF P, V, par, v0, G
    <2> QED
      BY <1>6 DEF Solution
  <1>8. ASSUME NEW i \in P
        PROVE  f[i] = [k \in K |->
                          IF i = 0 \/ k = 0 THEN {}
                          ELSE {<<i, k>>} \cup IF Alike(i, k)
                                                THEN f[m_Memory[i].parent][hosts[k].parent]
                                                ELSE {}]
    <2>1. CASE i = 0
      BY <1>7, <2>1
    <2>2. CASE i # 0
      <3>1. par[i] = m_Memory[i].parent /\ par[i] \in P /\ f[par[i]] \in V
        BY <1>3, <1>7, <2>2
      <3>2. <<i, f[par[i]]>> \in P \X V
        BY <3>1
      <3>3. G[<<i, f[par[i]]>>] = Row(i, f[par[i]])
        BY <3>2
      <3>4. f[i] = Row(i, f[m_Memory[i].parent])
        BY <1>7, <2>2, <3>1, <3>3
      <3> QED
        BY <3>4
    <2> QED
      BY <2>1, <2>2
  <1>9. f = [i \in P |->
                [k \in K |->
                    IF i = 0 \/ k = 0 THEN {}
                    ELSE {<<i, k>>} \cup IF Alike(i, k)
                                          THEN f[m_Memory[i].parent][hosts[k].parent]
                                          ELSE {}]]
    BY <1>7, <1>8
  <1> QED
    BY <1>9

\* What a chain is made of: infos that are remembered, each with one host.
LEMMA ChainFacts ==
  ASSUME TypeOK, UplinksKept, NEW id \in DOMAIN m_Memory, NEW h \in DOMAIN hosts
  PROVE  /\ Chain(id, h) \subseteq (DOMAIN m_Memory) \X (DOMAIN hosts)
         /\ <<id, h>> \in Chain(id, h)
         /\ \A a, b \in Chain(id, h) : a[1] = b[1] => a = b
  <1> DEFINE M == DOMAIN m_Memory
             D == DOMAIN hosts
             up[i \in DOMAIN m_Memory \cup {0}] ==
                 [k \in DOMAIN hosts \cup {0} |->
                     IF i = 0 \/ k = 0 THEN {}
                     ELSE {<<i, k>>} \cup IF Alike(i, k) THEN up[m_Memory[i].parent][hosts[k].parent]
                                         ELSE {}]
             Good(i) == \A k \in D \cup {0} :
                            /\ up[i][k] \subseteq M \X D
                            /\ \A a \in up[i][k] : a[1] <= i
                            /\ \A a, b \in up[i][k] : a[1] = b[1] => a = b
             T == {i \in M \cup {0} : ~Good(i)}
  <1>1. up = [i \in DOMAIN m_Memory \cup {0} |->
                 [k \in DOMAIN hosts \cup {0} |->
                     IF i = 0 \/ k = 0 THEN {}
                     ELSE {<<i, k>>} \cup IF Alike(i, k)
                                           THEN up[m_Memory[i].parent][hosts[k].parent]
                                           ELSE {}]]
    BY ChainExists, Zenon
  <1> HIDE DEF up
  <1>2. \A i \in M \cup {0} : \A k \in D \cup {0} :
            up[i][k] = IF i = 0 \/ k = 0 THEN {}
                       ELSE {<<i, k>>} \cup IF Alike(i, k)
                                             THEN up[m_Memory[i].parent][hosts[k].parent]
                                             ELSE {}
    <2>1. \A i \in M \cup {0} :
              up[i] = [k \in D \cup {0} |->
                          IF i = 0 \/ k = 0 THEN {}
                          ELSE {<<i, k>>} \cup IF Alike(i, k)
                                                THEN up[m_Memory[i].parent][hosts[k].parent]
                                                ELSE {}]
      BY <1>1
    <2> QED
      BY <2>1
  <1>3. M \cup {0} \subseteq Nat
    BY ConstantFacts DEF UplinksKept
  <1>4. T = {}
    <2>1. SUFFICES ASSUME T # {} PROVE FALSE
      OBVIOUS
    <2>2. T \subseteq Nat
      BY <1>3
    <2>3. PICK i \in T : \A j \in T : i <= j
      <3> HIDE DEF T
      <3> QED
        BY <2>1, <2>2, LeastNumber
    <2>4. i \in M \cup {0} /\ ~Good(i) /\ i \in Nat
      BY <1>3
    <2>5. ASSUME NEW k \in D \cup {0}
          PROVE  /\ up[i][k] \subseteq M \X D
                 /\ \A a \in up[i][k] : a[1] <= i
                 /\ \A a, b \in up[i][k] : a[1] = b[1] => a = b
      <3> DEFINE p == m_Memory[i].parent
                 above == up[p][hosts[k].parent]
      <3>1. CASE i = 0 \/ k = 0
        <4>1. up[i][k] = {}
          BY <1>2, <2>4, <3>1
        <4> QED
          BY <4>1
      <3>2. CASE i # 0 /\ k # 0
        <4>1. i \in M /\ k \in D /\ hosts[k].parent \in D \cup {0}
          BY <2>4, <3>2, HostFacts
        <4>2. p \in M \cup {0} /\ p < i /\ p \in Nat
          BY <1>3, <4>1 DEF UplinksKept
        <4>3. Good(p)
          <5>1. ~(i <= p)
            BY <2>4, <4>2
          <5>2. p \notin T
            <6> HIDE DEF T
            <6> QED
              BY <2>3, <5>1
          <5> QED
            BY <4>2, <5>2
        <4>4. /\ above \subseteq M \X D
              /\ \A a \in above : a[1] <= p
              /\ \A a, b \in above : a[1] = b[1] => a = b
          <5> HIDE DEF p
          <5> QED
            BY <4>1, <4>3
        <4>5. up[i][k] \subseteq {<<i, k>>} \cup above
          BY <1>2, <2>4, <3>2
        <4>6. \A a \in above : a[1] \in Nat /\ a[1] <= i /\ a[1] # i
          <5>1. ASSUME NEW a \in above
                PROVE  a[1] \in Nat /\ a[1] <= i /\ a[1] # i
            <6>1. a[1] \in M /\ a[1] <= p
              BY <4>4
            <6>2. a[1] \in Nat
              BY <1>3, <6>1
            <6> HIDE DEF p
            <6> QED
              BY <2>4, <4>2, <6>1, <6>2
          <5> QED
            BY <5>1
        <4>7. <<i, k>>[1] = i /\ i <= i /\ <<i, k>> \in M \X D
          BY <2>4, <4>1
        <4> HIDE DEF above
        <4> QED
          BY <4>4, <4>5, <4>6, <4>7
      <3> QED
        BY <3>1, <3>2
    <2> QED
      BY <2>4, <2>5
  <1>5. Chain(id, h) = up[id][h]
    BY DEF Chain, up
  <1>6. Good(id)
    BY <1>4
  <1>7. <<id, h>> \in up[id][h]
    <2>1. id # 0 /\ h # 0
      BY HostFacts, ConstantFacts DEF UplinksKept
    <2>2. \E S : up[id][h] = {<<id, h>>} \cup S
      BY <1>2, <2>1
    <2> QED
      BY <2>2
  <1>8. /\ up[id][h] \subseteq M \X D
        /\ \A a, b \in up[id][h] : a[1] = b[1] => a = b
    BY <1>6
  <1>9. /\ Chain(id, h) \subseteq M \X D
        /\ \A a, b \in Chain(id, h) : a[1] = b[1] => a = b
    BY <1>5, <1>8, Zenon
  <1>10. <<id, h>> \in Chain(id, h)
    BY <1>5, <1>7
  <1> QED
    BY <1>9, <1>10

\* The recursive function of Unrestored() exists.
LEMMA UnrestoredExists ==
  ASSUME TypeOK, UplinksKept
  PROVE  LET up[i \in DOMAIN m_Memory \cup {0}] ==
                 IF i = 0 \/ ~Expired(m_Memory[i]) THEN <<i>> ELSE <<i>> \o up[m_Memory[i].parent]
         IN  up = [i \in DOMAIN m_Memory \cup {0} |->
                      IF i = 0 \/ ~Expired(m_Memory[i]) THEN <<i>>
                      ELSE <<i>> \o up[m_Memory[i].parent]]
  <1> DEFINE P == DOMAIN m_Memory \cup {0}
             V == Seq(P)
             Whole(i, v) == IF i = 0 \/ ~Expired(m_Memory[i]) THEN <<i>> ELSE <<i>> \o v
             par == [i \in P |-> IF i = 0 THEN 0 ELSE m_Memory[i].parent]
             v0 == <<0>>
             G == [p \in P \X V |-> Whole(p[1], p[2])]
  <1>1. ASSUME NEW i \in P, NEW v \in V
        PROVE  Whole(i, v) \in V
    <2>1. <<i>> \in Seq(P)
      BY ToSetOne
    <2>2. <<i>> \o v \in Seq(P)
      BY <2>1, ToSetConcat
    <2> QED
      BY <2>1, <2>2
  <1>2. par \in [P -> P] /\ \A i \in P : i # 0 => par[i] < i
    BY DEF UplinksKept
  <1>3. P \in SUBSET (0..MaxInfos) /\ MaxInfos \in Nat
    BY ConstantFacts DEF UplinksKept
  <1>4. v0 \in V /\ G \in [P \X V -> V]
    <2>1. v0 \in V
      <3>1. 0 \in P
        OBVIOUS
      <3> QED
        BY <3>1, ToSetOne
    <2>2. \A p \in P \X V : p[1] \in P /\ p[2] \in V
      OBVIOUS
    <2> HIDE DEF V, P, Whole
    <2> QED
      BY <1>1, <2>1, <2>2
  <1>5. PICK f : Solution(f, P, par, V, v0, G)
    <2> HIDE DEF P, V, par, v0, G
    <2> QED
      BY <1>2, <1>3, <1>4, ParentRecursion
  <1>6. /\ f = [i \in P |-> f[i]]
        /\ \A i \in P : f[i] \in V /\ f[i] = IF i = 0 THEN v0 ELSE G[<<i, f[par[i]]>>]
    <2> HIDE DEF P, V, par, v0, G
    <2> QED
      BY <1>5 DEF Solution
  <1>7. ASSUME NEW i \in P
        PROVE  f[i] = IF i = 0 \/ ~Expired(m_Memory[i]) THEN <<i>>
                      ELSE <<i>> \o f[m_Memory[i].parent]
    <2>1. CASE i = 0
      BY <1>6, <2>1
    <2>2. CASE i # 0
      <3>1. par[i] = m_Memory[i].parent /\ par[i] \in P
        BY <1>2, <2>2
      <3>2. <<i, f[par[i]]>> \in P \X V
        <4> HIDE DEF par, V, P
        <4> QED
          BY <1>6, <3>1
      <3>3. G[<<i, f[par[i]]>>] = Whole(i, f[par[i]])
        <4> HIDE DEF par, V, P, Whole
        <4> QED
          BY <3>2
      <3>4. f[i] = Whole(i, f[m_Memory[i].parent])
        <4> HIDE DEF par, V, P, Whole, G
        <4> QED
          BY <1>6, <2>2, <3>1, <3>3
      <3> QED
        BY <3>4
    <2> QED
      BY <2>1, <2>2
  <1>8. f = [i \in P |-> IF i = 0 \/ ~Expired(m_Memory[i]) THEN <<i>>
                         ELSE <<i>> \o f[m_Memory[i].parent]]
    BY <1>6, <1>7
  <1> QED
    BY <1>8

\* Which infos RetrieveVFS() goes through: expired ones, each once, and then none or a live one.
LEMMA UnrestoredFacts ==
  ASSUME TypeOK, UplinksKept, NEW id \in DOMAIN m_Memory
  PROVE  LET chain == Unrestored(id)
         IN  /\ chain \in Seq(DOMAIN m_Memory \cup {0}) /\ chain # <<>> /\ IsInjective(chain)
             /\ \/ Last(chain) = 0
                \/ Last(chain) \in DOMAIN m_Memory /\ ~Expired(m_Memory[Last(chain)])
             /\ \A i \in ToSet(Front(chain)) : i \in DOMAIN m_Memory /\ Expired(m_Memory[i])
             /\ Len(chain) = 1 => Last(chain) = id
             /\ \A j \in 1..Len(chain) - 1 : m_Memory[chain[j]].parent = chain[j + 1]
  <1> DEFINE P == DOMAIN m_Memory \cup {0}
             up[i \in DOMAIN m_Memory \cup {0}] ==
                 IF i = 0 \/ ~Expired(m_Memory[i]) THEN <<i>> ELSE <<i>> \o up[m_Memory[i].parent]
             Good(i) ==
                 /\ up[i] \in Seq(P) /\ up[i] # <<>> /\ IsInjective(up[i])
                 /\ \/ Last(up[i]) = 0
                    \/ Last(up[i]) \in DOMAIN m_Memory /\ ~Expired(m_Memory[Last(up[i])])
                 /\ \A e \in ToSet(up[i]) : e <= i
                 /\ \A e \in ToSet(Front(up[i])) : e \in DOMAIN m_Memory /\ Expired(m_Memory[e])
                 /\ Len(up[i]) = 1 => Last(up[i]) = i
                 /\ up[i][1] = i
                 /\ \A j \in 1..Len(up[i]) - 1 : m_Memory[up[i][j]].parent = up[i][j + 1]
             T == {i \in P : ~Good(i)}
  <1>1. up = [i \in DOMAIN m_Memory \cup {0} |->
                 IF i = 0 \/ ~Expired(m_Memory[i]) THEN <<i>>
                 ELSE <<i>> \o up[m_Memory[i].parent]]
    BY UnrestoredExists, Zenon
  <1> HIDE DEF up
  <1>2. \A i \in P : up[i] = IF i = 0 \/ ~Expired(m_Memory[i]) THEN <<i>>
                             ELSE <<i>> \o up[m_Memory[i].parent]
    BY <1>1
  <1>3. P \subseteq Nat /\ \A i \in DOMAIN m_Memory : i \in P /\ i # 0
    BY ConstantFacts DEF UplinksKept
  <1>4. ASSUME NEW i \in P, \A j \in P : j < i => Good(j)
        PROVE  Good(i)
    <2>1. CASE i = 0 \/ ~Expired(m_Memory[i])
      <3>1. up[i] = <<i>>
        BY <1>2, <2>1
      <3>2. <<i>> \in Seq(P) /\ Len(<<i>>) = 1 /\ ToSet(<<i>>) = {i} /\ IsInjective(<<i>>)
            /\ <<i>>[1] = i
        BY ToSetOne
      <3>3. <<i>> # <<>> /\ Last(<<i>>) = i
        BY <3>2 DEF Last
      <3>4. ToSet(Front(<<i>>)) = {}
        <4>1. Front(<<i>>) \in Seq(P) /\ Len(Front(<<i>>)) = 0
          <5> HIDE DEF P
          <5>1. /\ Front(<<i>>) \in Seq(P)
                /\ Len(Front(<<i>>)) = Len(<<i>>) - 1
            BY <3>2, <3>3, ToSetLast
          <5> QED
            BY <3>2, <5>1
        <4> QED
          BY <4>1, ToSetEmpty
      <3>5. i <= i
        BY <1>3
      <3>6. 1..Len(<<i>>) - 1 = {}
        BY <3>2
      <3> QED
        BY <2>1, <3>1, <3>2, <3>3, <3>4, <3>5, <3>6
    <2>2. CASE i # 0 /\ Expired(m_Memory[i])
      <3> DEFINE p == m_Memory[i].parent
                 s == up[p]
                 c == <<i>> \o s
      <3>1. p \in P /\ p < i /\ i \in DOMAIN m_Memory /\ i \in Nat /\ p \in Nat
        BY <1>3, <2>2 DEF UplinksKept
      <3>2. Good(p)
        <4> HIDE DEF p, Good
        <4> QED
          BY <1>4, <3>1
      <3>3. up[i] = c
        BY <1>2, <2>2
      <3>4. i \notin ToSet(s) /\ \A e \in ToSet(s) : e <= i
        <4>1. ASSUME NEW e \in ToSet(s)
              PROVE  e <= i /\ e # i
          <5>1. e \in P /\ e <= p
            BY <3>2, ToSetEmpty
          <5>2. e \in Nat
            BY <1>3, <5>1
          <5> HIDE DEF p, s
          <5> QED
            BY <3>1, <5>1, <5>2
        <4> QED
          BY <4>1
      <3>5. /\ c \in Seq(P) /\ c # <<>> /\ ToSet(c) = {i} \cup ToSet(s)
            /\ IsInjective(c) /\ Last(c) = Last(s)
            /\ ToSet(Front(c)) = {i} \cup ToSet(Front(s))
        <4>1. s \in Seq(P) /\ s # <<>> /\ IsInjective(s)
          BY <3>2
        <4> HIDE DEF s, P
        <4> QED
          BY <3>4, <4>1, ToSetCons
      <3>6. /\ Len(c) # 1 /\ c[1] = i
            /\ \A j \in 1..Len(c) - 1 : m_Memory[c[j]].parent = c[j + 1]
        <4>1. /\ s \in Seq(P) /\ s # <<>> /\ <<i>> \in Seq(P) /\ Len(<<i>>) = 1
              /\ <<i>>[1] = i
              /\ s[1] = p /\ \A j \in 1..Len(s) - 1 : m_Memory[s[j]].parent = s[j + 1]
          BY <3>2, ToSetOne
        <4>2. Len(s) \in Nat \ {0}
          <5> HIDE DEF s, P
          <5> QED
            BY <4>1, LenProperties, EmptySeq
        <4>3. /\ Len(c) = 1 + Len(s)
              /\ \A j \in 1..1 + Len(s) : c[j] = IF j <= 1 THEN i ELSE s[j - 1]
          <5>1. /\ Len(c) = Len(<<i>>) + Len(s)
                /\ \A j \in 1..Len(<<i>>) + Len(s) :
                       c[j] = IF j <= Len(<<i>>) THEN <<i>>[j] ELSE s[j - Len(<<i>>)]
            <6> HIDE DEF s, P
            <6> QED
              BY <4>1, ConcatProperties
          <5> HIDE DEF s, P, c
          <5> QED
            BY <4>1, <4>2, <5>1
        <4> HIDE DEF c, s, p
        <4>4. c[1] = i
          BY <4>2, <4>3
        <4>5. ASSUME NEW j \in 1..Len(c) - 1
              PROVE  m_Memory[c[j]].parent = c[j + 1]
          <5>1. j \in 1..Len(s) /\ j + 1 \in 1..1 + Len(s) /\ c[j + 1] = s[j]
            BY <4>2, <4>3
          <5>2. CASE j = 1
            BY <4>1, <4>4, <5>1, <5>2 DEF p
          <5>3. CASE j # 1
            <6>1. j - 1 \in 1..Len(s) - 1 /\ j - 1 + 1 = j /\ c[j] = s[j - 1]
              BY <4>2, <4>3, <5>1, <5>3
            <6> QED
              BY <4>1, <5>1, <6>1
          <5> QED
            BY <5>2, <5>3
        <4> QED
          BY <4>2, <4>3, <4>4, <4>5
      <3>7. i <= i
        BY <1>3
      <3> QED
        <4>1. \/ Last(s) = 0
              \/ Last(s) \in DOMAIN m_Memory /\ ~Expired(m_Memory[Last(s)])
          BY <3>2
        <4>2. \A e \in ToSet(Front(s)) : e \in DOMAIN m_Memory /\ Expired(m_Memory[e])
          BY <3>2
        <4> HIDE DEF s, c
        <4> QED
          BY <2>2, <3>1, <3>3, <3>4, <3>5, <3>6, <3>7, <4>1, <4>2
    <2> QED
      BY <2>1, <2>2
  <1>5. T = {}
    <2>1. SUFFICES ASSUME T # {} PROVE FALSE
      OBVIOUS
    <2>2. T \subseteq Nat
      BY <1>3
    <2>3. PICK i \in T : \A j \in T : i <= j
      <3> HIDE DEF T
      <3> QED
        BY <2>1, <2>2, LeastNumber
    <2>4. i \in P /\ ~Good(i) /\ i \in Nat
      BY <1>3
    <2>5. ASSUME NEW j \in P, j < i
          PROVE  Good(j)
      <3>1. ~(i <= j)
        BY <1>3, <2>4, <2>5
      <3>2. j \notin T
        <4> HIDE DEF T
        <4> QED
          BY <2>3, <3>1
      <3> QED
        BY <3>2
    <2> HIDE DEF Good, P
    <2> QED
      BY <1>4, <2>4, <2>5
  <1>6. Good(id)
    <2> HIDE DEF Good
    <2> QED
      BY <1>5
  <1>7. Unrestored(id) = up[id]
    BY DEF Unrestored, up
  <1> QED
    BY <1>6, <1>7

-----------------------------------------------------------------------------
(* Hosts that live, and what is kept of them.                              *)

LEMMA AliveMeans ==
  ASSUME NEW h
  PROVE  /\ Alive(h) <=> \/ h \in held
                         \/ \E c \in DOMAIN hosts : hosts[c].parent = h
                         \/ \E t \in Threads : h \in ToSet(taming[t]) \/ parent_host[t] = h
         /\ Alive(h)' <=> \/ h \in held'
                          \/ \E c \in DOMAIN hosts' : hosts'[c].parent = h
                          \/ \E t \in Threads : h \in ToSet(taming'[t]) \/ parent_host'[t] = h
  BY ConfigsAssumption, Zenon DEF Alive, AliveWithout, Range, ToSet

\* A live host has not been destroyed.
LEMMA AliveExists ==
  ASSUME TypeOK, HostsInv, NEW h \in Hosts, Alive(h)
  PROVE  h \in DOMAIN hosts
  <1>1. h # 0
    BY ConstantFacts
  <1>2. CASE h \in held
    BY <1>2 DEF TypeOK
  <1>3. ASSUME NEW c \in DOMAIN hosts, hosts[c].parent = h
        PROVE  h \in DOMAIN hosts
    BY <1>1, <1>3, HostFacts
  <1>4. ASSUME NEW t \in Threads, h \in ToSet(taming[t]) \/ parent_host[t] = h
        PROVE  h \in DOMAIN hosts
    BY <1>1, <1>4, Zenon DEF HostsInv, Range, ToSet
  <1> QED
    BY <1>2, <1>3, <1>4, AliveMeans

\* The hosts that live are there after a step, as they were.
HostsKept == \A h \in DOMAIN hosts : Alive(h) => h \in DOMAIN hosts' /\ hosts'[h] = hosts[h]

\* A host that nothing refers to stays so.
StaysDead == \A h \in DOMAIN hosts : Alive(h)' => Alive(h)

\* The infos whose hosts live are kept, with these hosts.
InfosKept ==
    \A id \in DOMAIN m_Memory :
        ~Expired(m_Memory[id]) =>
            id \in DOMAIN m_Memory' /\ m_Memory'[id].host = m_Memory[id].host

LEMMA ParentKnownKept ==
  ASSUME TypeOK, HostsKept, InfosKept, NEW h \in DOMAIN hosts, Alive(h), ParentKnown(h)
  PROVE  ParentKnown(h)'
  <1> DEFINE p == hosts[h].parent
  <1>1. h \in DOMAIN hosts' /\ hosts'[h].parent = p
    BY DEF HostsKept
  <1>2. CASE p = 0
    BY <1>1, <1>2 DEF ParentKnown
  <1>3. CASE p # 0
    <2>1. PICK id \in DOMAIN m_Memory : m_Memory[id].host = p
      BY <1>3 DEF ParentKnown, InfosOf
    <2>2. Alive(p)
      BY AliveMeans
    <2>3. ~Expired(m_Memory[id])
      BY <1>3, <2>1, <2>2 DEF Expired
    <2>4. id \in DOMAIN m_Memory' /\ m_Memory'[id].host = p
      BY <2>1, <2>3 DEF InfosKept
    <2> QED
      BY <1>1, <2>4 DEF ParentKnown, InfosOf
  <1> QED
    BY <1>2, <1>3

\* The hosts that a thread is taming live; it knows what it knew about them.
LEMMA TamedHosts ==
  ASSUME TypeOK, HostsInv, NEW t \in Threads
  PROVE  /\ taming[t] \in Seq(Hosts) /\ Len(taming[t]) \in Nat
         /\ \A j \in 1..Len(taming[t]) : taming[t][j] \in DOMAIN hosts /\ Alive(taming[t][j])
         /\ taming[t] # <<>> => Last(taming[t]) \in DOMAIN hosts /\ Alive(Last(taming[t]))
         /\ ToSet(taming[t]) \subseteq DOMAIN hosts
  <1>1. taming[t] \in Seq(Hosts) /\ Len(taming[t]) \in Nat /\ DOMAIN taming[t] = 1..Len(taming[t])
    <2>1. taming[t] \in Seq(Hosts)
      BY DEF TypeOK
    <2> QED
      BY <2>1, LenProperties
  <1>2. ToSet(taming[t]) \subseteq DOMAIN hosts
    BY DEF HostsInv, Range, ToSet
  <1>3. ASSUME NEW h \in ToSet(taming[t])
        PROVE  h \in DOMAIN hosts /\ Alive(h)
    BY <1>2, <1>3, AliveMeans
  <1>4. \A j \in 1..Len(taming[t]) : taming[t][j] \in ToSet(taming[t])
    BY <1>1 DEF ToSet
  <1>5. taming[t] # <<>> => Last(taming[t]) \in ToSet(taming[t])
    BY <1>1, ToSetLast
  <1> QED
    BY <1>1, <1>2, <1>3, <1>4, <1>5

LEMMA TamingKept ==
  ASSUME TypeOK, HostsInv, NEW t \in Threads, Taming(t), HostsKept, InfosKept,
         pc'[t] = pc[t], taming'[t] = taming[t], result'[t] = result[t]
  PROVE  Taming(t)'
  <1>1. /\ pc'[t] \in {"tame", "drop", "build"} <=> taming'[t] # <<>>
        /\ pc'[t] = "drop" <=> result'[t] # 0
    BY DEF Taming
  <1>2. ASSUME NEW j \in 1..Len(taming'[t]) - 1
        PROVE  hosts'[taming'[t][j]].parent = taming'[t][j + 1]
    <2>1. Len(taming[t]) \in Nat
      BY TamedHosts
    <2>2. j \in 1..Len(taming[t]) - 1 /\ j \in 1..Len(taming[t])
      BY <1>2, <2>1
    <2>3. hosts'[taming[t][j]] = hosts[taming[t][j]]
      BY <2>2, TamedHosts DEF HostsKept
    <2> QED
      BY <2>2, <2>3 DEF Taming
  <1>3. ASSUME pc'[t] \in {"drop", "build"}
        PROVE  ParentKnown(Last(taming[t]))'
    <2>1. taming[t] # <<>> /\ ParentKnown(Last(taming[t]))
      BY <1>3 DEF Taming
    <2> QED
      BY <2>1, TamedHosts, ParentKnownKept
  <1> QED
    BY <1>1, <1>2, <1>3 DEF Taming

\* A thread that spawns hosts finds their infos as they were.
LEMMA RestoringKept ==
  ASSUME TypeOK, HostsInv, NEW t \in Threads, Restoring(t), StaysDead,
         m_Memory' = m_Memory, pc'[t] = pc[t], restoring'[t] = restoring[t],
         m_MemoryLock' = t <=> m_MemoryLock = t
  PROVE  Restoring(t)'
  <1>1. ASSUME NEW id \in ToSet(restoring[t])
        PROVE  id \in DOMAIN m_Memory' /\ Expired(m_Memory[id])'
    <2>1. id \in DOMAIN m_Memory /\ Expired(m_Memory[id])
      BY <1>1 DEF Restoring
    <2>2. CASE m_Memory[id].host = 0
      BY <2>1, <2>2 DEF Expired
    <2>3. CASE m_Memory[id].host # 0
      <3>1. m_Memory[id].host \in DOMAIN hosts
        BY <2>1, <2>3 DEF HostsInv, TypeOK
      <3>2. ~Alive(m_Memory[id].host)
        BY <2>1, <2>3 DEF Expired
      <3>3. ~Alive(m_Memory[id].host)'
        BY <3>1, <3>2 DEF StaysDead
      <3> QED
        BY <2>1, <3>3 DEF Expired
    <2> QED
      BY <2>2, <2>3
  <1>2. \A id \in ToSet(restoring'[t]) : id \in DOMAIN m_Memory' /\ Expired(m_Memory[id])'
    BY <1>1
  <1>3. /\ m_MemoryLock' = t <=> pc'[t] \in {"restore", "stuck"}
        /\ pc'[t] = "restore" <=> restoring'[t] # <<>>
        /\ IsInjective(restoring'[t])
    BY DEF Restoring
  <1> QED
    BY <1>2, <1>3 DEF Restoring

\* Nobody spawns hosts while the lock is free, and nobody starts to in these steps.
LEMMA UnlockedKept ==
  ASSUME RestoringInv, Unlocked, m_MemoryLock' = m_MemoryLock, restoring' = restoring,
         NEW t \in Threads, pc'[t] \notin {"restore", "stuck"}
  PROVE  Restoring(t)'
  <1>1. m_MemoryLock # t
    BY ConfigsAssumption DEF Unlocked
  <1>2. restoring[t] = <<>> /\ IsInjective(restoring[t])
    BY <1>1 DEF RestoringInv, Restoring
  <1>3. ToSet(restoring'[t]) = {}
    BY <1>2 DEF ToSet
  <1> QED
    BY <1>1, <1>2, <1>3 DEF Restoring

LEMMA UnlockedMeans ==
  ASSUME RestoringInv, Unlocked, NEW t \in Threads
  PROVE  pc[t] \notin {"restore", "stuck"} /\ restoring[t] = <<>>
  BY ConfigsAssumption DEF Unlocked, RestoringInv, Restoring

-----------------------------------------------------------------------------
(* How steps change the counts.                                            *)

LEMMA LinksSame ==
  ASSUME DOMAIN m_Memory' = DOMAIN m_Memory,
         \A id \in DOMAIN m_Memory : m_Memory'[id].parent = m_Memory[id].parent
  PROVE  \A id : Links(id)' = Links(id)
  <1>1. ASSUME NEW id
        PROVE  Links(id)' = Links(id)
    <2>1. {c \in DOMAIN m_Memory' : m_Memory'[c].parent = id} =
          {c \in DOMAIN m_Memory : m_Memory[c].parent = id}
      OBVIOUS
    <2> QED
      BY <2>1 DEF Links
  <1> QED
    BY <1>1

\* The result of a thread is another one.
LEMMA ResultCounted ==
  ASSUME TypeOK, NEW t \in Threads, NEW new, new # result[t],
         result' = [result EXCEPT ![t] = new], promises' = promises
  PROVE  \A q \in Ids : Handles(q)' = Handles(q) + (IF q = new THEN 1 ELSE 0)
                                                 - (IF q = result[t] THEN 1 ELSE 0)
  <1>1. ASSUME NEW q \in Ids
        PROVE  Handles(q)' = Handles(q) + (IF q = new THEN 1 ELSE 0)
                                        - (IF q = result[t] THEN 1 ELSE 0)
    <2> DEFINE S == {u \in Threads : result[u] = q}
               R == {u \in Threads : result'[u] = q}
    <2>1. IsFiniteSet(S) /\ Cardinality(S) \in Nat /\ promises[q] \in Nat
      BY CountTypes
    <2>2. \A u \in Threads : result'[u] = IF u = t THEN new ELSE result[u]
      BY DEF TypeOK
    <2>3. CASE q = new
      <3>1. R = S \cup {t} /\ t \notin S
        BY <2>2, <2>3
      <3>2. Handles(q) = promises[q] + Cardinality(S) /\ Handles(q)' = promises[q] + Cardinality(R)
        BY DEF Handles
      <3> HIDE DEF R, S
      <3>3. Cardinality(R) = Cardinality(S) + 1
        BY <2>1, <3>1, FS_AddElement
      <3> QED
        BY <2>1, <2>3, <3>2, <3>3
    <2>4. CASE q # new /\ q = result[t]
      <3>1. R = S \ {t} /\ t \in S
        BY <2>2, <2>4
      <3>2. Handles(q) = promises[q] + Cardinality(S) /\ Handles(q)' = promises[q] + Cardinality(R)
        BY DEF Handles
      <3> HIDE DEF R, S
      <3>3. Cardinality(R) = Cardinality(S) - 1
        BY <2>1, <3>1, FS_RemoveElement
      <3> QED
        BY <2>1, <2>4, <3>2, <3>3
    <2>5. CASE q # new /\ q # result[t]
      <3>1. R = S
        BY <2>2, <2>5
      <3>2. Handles(q) = promises[q] + Cardinality(S) /\ Handles(q)' = promises[q] + Cardinality(R)
        BY DEF Handles
      <3> HIDE DEF R, S
      <3> QED
        BY <2>1, <2>5, <3>1, <3>2
    <2> QED
      BY <2>3, <2>4, <2>5
  <1> QED
    BY <1>1

\* The program has another number of promises.
LEMMA PromisesCounted ==
  ASSUME TypeOK, NEW id \in Ids, NEW d \in Int,
         \A q \in Ids : promises'[q] = promises[q] + IF q = id THEN d ELSE 0,
         result' = result
  PROVE  \A q \in Ids : Handles(q)' = Handles(q) + (IF q = id THEN d ELSE 0)
  <1>1. ASSUME NEW q \in Ids
        PROVE  Handles(q)' = Handles(q) + (IF q = id THEN d ELSE 0)
    <2>1. promises[q] \in Nat /\ Cardinality({t \in Threads : result[t] = q}) \in Nat
      BY CountTypes
    <2>2. promises'[q] = promises[q] + IF q = id THEN d ELSE 0
      OBVIOUS
    <2> QED
      BY <2>1, <2>2 DEF Handles
  <1> QED
    BY <1>1

-----------------------------------------------------------------------------
(* Steps of the program that make hosts and drop them.                     *)

LEMMA MadeFacts ==
  ASSUME TypeOK, Unused # {}, NEW config \in Configs, NEW parent \in DOMAIN hosts \cup {0},
         hosts' = Made(config, parent)
  PROVE  /\ Min(Unused) \in Hosts /\ Min(Unused) \notin DOMAIN hosts
         /\ DOMAIN hosts' = DOMAIN hosts \cup {Min(Unused)}
         /\ hosts'[Min(Unused)].parent = parent
         /\ \A h \in DOMAIN hosts : hosts'[h] = hosts[h]
         /\ DOMAIN hosts' \subseteq Hosts
         /\ \A h \in DOMAIN hosts' : hosts'[h] \in [config: Configs, parent: DOMAIN hosts' \cup {0}]
         /\ HostsKept
  <1>1. Unused \subseteq Nat /\ Unused \subseteq Hosts \ DOMAIN hosts
    BY ConstantFacts DEF Unused
  <1>2. Min(Unused) \in Unused
    BY <1>1, MinFacts
  <1> DEFINE new == Min(Unused)
  <1> HIDE DEF new
  <1>3. new \in Hosts /\ new \notin DOMAIN hosts
    BY <1>1, <1>2 DEF new
  <1>4. hosts' = [h \in DOMAIN hosts \cup {new} |->
                     IF h = new THEN [config |-> config, parent |-> parent] ELSE hosts[h]]
    BY DEF Made, new
  <1>5. /\ DOMAIN hosts' = DOMAIN hosts \cup {new}
        /\ hosts'[new] = [config |-> config, parent |-> parent]
        /\ \A h \in DOMAIN hosts : hosts'[h] = hosts[h]
    BY <1>3, <1>4
  <1>6. DOMAIN hosts' \subseteq Hosts
    BY <1>3, <1>5 DEF TypeOK
  <1>7. ASSUME NEW h \in DOMAIN hosts'
        PROVE  hosts'[h] \in [config: Configs, parent: DOMAIN hosts' \cup {0}]
    <2>1. CASE h = new
      BY <1>5, <2>1
    <2>2. CASE h # new
      <3>1. h \in DOMAIN hosts
        BY <1>5, <2>2
      <3>2. hosts[h] \in [config: Configs, parent: DOMAIN hosts \cup {0}]
        BY <3>1 DEF TypeOK
      <3>3. hosts[h] \in [config: Configs, parent: DOMAIN hosts' \cup {0}]
        BY <1>5, <3>2
      <3> QED
        BY <1>5, <3>1, <3>3
    <2> QED
      BY <2>1, <2>2
  <1> QED
    BY <1>3, <1>5, <1>6, <1>7 DEF new, HostsKept

\* What is counted and wanted, when neither infos nor references change.
LEMMA CountSame ==
  ASSUME CountInv, WantedInv, UNCHANGED <<m_Memory, promises, decs, leaked, result>>
  PROVE  CountInv' /\ WantedInv'
  BY DEF CountInv, WantedInv, References, Handles, Links

\* Nothing about the memory and the threads changes.
LEMMA HostsOnly ==
  ASSUME IInv, HostsKept, StaysDead,
         UNCHANGED <<m_OnDesctruct, memory, m_MemoryLock, promises, decs, threads, leaked>>
  PROVE  /\ RestoringInv' /\ TamingInv' /\ CountInv' /\ WantedInv'
         /\ \A id \in DOMAIN m_Memory' : /\ m_Memory'[id].host \in m_OnDesctruct' \cup {0}
                                         /\ m_Memory'[id].parent < id
  <1>1. /\ m_OnDesctruct' = m_OnDesctruct /\ m_Memory' = m_Memory /\ m_MemoryLock' = m_MemoryLock
        /\ promises' = promises /\ decs' = decs /\ pc' = pc /\ taming' = taming
        /\ result' = result /\ restoring' = restoring /\ parent_host' = parent_host
        /\ leaked' = leaked
    BY DEF memory, threads
  <1>2. TypeOK /\ HostsInv /\ RestoringInv /\ TamingInv /\ CountInv /\ WantedInv
    BY DEF IInv
  <1>3. RestoringInv'
    BY <1>1, <1>2, RestoringKept DEF RestoringInv
  <1>4. InfosKept
    BY <1>1 DEF InfosKept
  <1>5. TamingInv'
    BY <1>1, <1>2, <1>4, TamingKept DEF TamingInv
  <1>6. CountInv' /\ WantedInv'
    BY <1>1, <1>2, CountSame
  <1> QED
    BY <1>1, <1>2, <1>3, <1>5, <1>6 DEF HostsInv

LEMMA OpenStep ==
  ASSUME IInv, NEW config \in Configs, NEW parent \in held \cup {0}, Open(config, parent)
  PROVE  IInv'
  <1> DEFINE new == Min(Unused)
  <1>1. TypeOK /\ HostsInv
    BY DEF IInv
  <1>2. /\ Unused # {} /\ hosts' = Made(config, parent) /\ held' = held \cup {new}
        /\ UNCHANGED <<m_OnDesctruct, memory, m_MemoryLock, promises, decs, threads, leaked, twins>>
    BY DEF Open
  <1>3. parent \in DOMAIN hosts \cup {0} /\ (parent = 0 \/ parent \in held)
    BY <1>1 DEF TypeOK
  <1>4. /\ new \in Hosts /\ new \notin DOMAIN hosts
        /\ DOMAIN hosts' = DOMAIN hosts \cup {new}
        /\ hosts'[new].parent = parent
        /\ \A h \in DOMAIN hosts : hosts'[h] = hosts[h]
        /\ DOMAIN hosts' \subseteq Hosts
        /\ \A h \in DOMAIN hosts' : hosts'[h] \in [config: Configs, parent: DOMAIN hosts' \cup {0}]
        /\ HostsKept
    BY <1>1, <1>2, <1>3, MadeFacts
  <1> HIDE DEF new
  <1>5. StaysDead
    <2>1. ASSUME NEW h \in DOMAIN hosts, Alive(h)'
          PROVE  Alive(h)
      <3>1. h # 0
        BY <1>1, HostFacts, ConstantFacts
      <3>2. taming' = taming /\ parent_host' = parent_host
        BY <1>2 DEF threads
      <3>3. \/ h \in held'
            \/ \E c \in DOMAIN hosts' : hosts'[c].parent = h
            \/ \E t \in Threads : h \in ToSet(taming'[t]) \/ parent_host'[t] = h
        BY <2>1, AliveMeans
      <3>4. CASE h \in held'
        BY <1>2, <1>4, <3>4, AliveMeans
      <3>5. ASSUME NEW c \in DOMAIN hosts', hosts'[c].parent = h
            PROVE  Alive(h)
        BY <1>3, <1>4, <3>1, <3>5, AliveMeans
      <3>6. CASE \E t \in Threads : h \in ToSet(taming'[t]) \/ parent_host'[t] = h
        BY <3>2, <3>6, AliveMeans
      <3> QED
        BY <3>3, <3>4, <3>5, <3>6
    <2> QED
      BY <2>1 DEF StaysDead
  <1>6. /\ RestoringInv' /\ TamingInv' /\ CountInv' /\ WantedInv'
        /\ \A id \in DOMAIN m_Memory' : /\ m_Memory'[id].host \in m_OnDesctruct' \cup {0}
                                         /\ m_Memory'[id].parent < id
    BY <1>2, <1>4, <1>5, HostsOnly
  <1>7. TypeOK'
    <2>1. held' \subseteq DOMAIN hosts' /\ m_OnDesctruct' \subseteq DOMAIN hosts'
      BY <1>1, <1>2, <1>4 DEF TypeOK
    <2>2. /\ DOMAIN hosts' \subseteq Hosts
          /\ \A h \in DOMAIN hosts' : hosts'[h] \in [config: Configs, parent: DOMAIN hosts' \cup {0}]
      BY <1>4
    <2> QED
      BY <1>1, <1>2, <2>1, <2>2 DEF TypeOK, memory, threads, Infos
  <1>8. HostsInv'
    BY <1>1, <1>2, <1>4, <1>6 DEF HostsInv, threads
  <1> QED
    BY <1>6, <1>7, <1>8 DEF IInv

LEMMA CloseStep ==
  ASSUME IInv, NEW h \in held, Close(h)
  PROVE  IInv'
  <1>1. TypeOK /\ HostsInv
    BY DEF IInv
  <1>2. /\ hosts' = hosts /\ held' \subseteq held
        /\ UNCHANGED <<m_OnDesctruct, memory, m_MemoryLock, promises, decs, threads, leaked, twins>>
    BY DEF Close
  <1>3. HostsKept
    BY <1>2 DEF HostsKept
  <1>4. StaysDead
    <2>1. taming' = taming /\ parent_host' = parent_host
      BY <1>2 DEF threads
    <2> QED
      BY <1>2, <2>1, AliveMeans DEF StaysDead
  <1>5. /\ RestoringInv' /\ TamingInv' /\ CountInv' /\ WantedInv'
        /\ \A id \in DOMAIN m_Memory' : /\ m_Memory'[id].host \in m_OnDesctruct' \cup {0}
                                         /\ m_Memory'[id].parent < id
    BY <1>2, <1>3, <1>4, HostsOnly
  <1>6. TypeOK'
    BY <1>1, <1>2 DEF TypeOK, memory, threads, Infos
  <1>7. HostsInv'
    BY <1>1, <1>2, <1>5 DEF HostsInv, threads
  <1> QED
    BY <1>5, <1>6, <1>7 DEF IInv

-----------------------------------------------------------------------------
(* Hosts are destroyed.                                                    *)

LEMMA SweptInfos ==
  ASSUME TypeOK, SweepDeadMemory
  PROVE  /\ DOMAIN m_Memory' = DOMAIN m_Memory \ Dead /\ Dead \subseteq DOMAIN m_Memory
         /\ \A id \in DOMAIN m_Memory' :
                /\ m_Memory'[id] \in Infos
                /\ m_Memory'[id].parent = m_Memory[id].parent
                /\ m_Memory'[id].count = m_Memory[id].count
                /\ m_Memory'[id].host = IF Expired(m_Memory[id]) THEN 0 ELSE m_Memory[id].host
                /\ Expired(m_Memory[id]) => m_Memory[id].count > 0
         /\ InfosKept
  <1>1. m_Memory' = [id \in DOMAIN m_Memory \ Dead |->
                        [m_Memory[id] EXCEPT !.host = IF Expired(m_Memory[id]) THEN 0 ELSE @]]
    BY DEF SweepDeadMemory
  <1>2. DOMAIN m_Memory' = DOMAIN m_Memory \ Dead /\ Dead \subseteq DOMAIN m_Memory
    BY <1>1 DEF Dead
  <1>3. ASSUME NEW id \in DOMAIN m_Memory'
        PROVE  /\ m_Memory'[id] \in Infos
               /\ m_Memory'[id].parent = m_Memory[id].parent
               /\ m_Memory'[id].count = m_Memory[id].count
               /\ m_Memory'[id].host = IF Expired(m_Memory[id]) THEN 0 ELSE m_Memory[id].host
               /\ Expired(m_Memory[id]) => m_Memory[id].count > 0
    <2> DEFINE r == m_Memory[id]
               x == IF Expired(r) THEN 0 ELSE r.host
    <2>1. id \in DOMAIN m_Memory /\ id \notin Dead /\ r \in Infos
      BY <1>2 DEF TypeOK
    <2>2. m_Memory'[id] = [r EXCEPT !.host = x]
      BY <1>1, <1>2
    <2>3. x \in Hosts \cup {0}
      BY <2>1, InfoFacts
    <2>4. r.count \in Nat /\ (Expired(r) => r.count # 0)
      BY <2>1, InfoFacts DEF Dead
    <2>5. /\ [r EXCEPT !.host = x] \in Infos
          /\ [r EXCEPT !.host = x].parent = r.parent
          /\ [r EXCEPT !.host = x].host = x
          /\ [r EXCEPT !.host = x].count = r.count
      <3> HIDE DEF r, x
      <3> QED
        BY <2>1, <2>3, InfoFacts
    <2> QED
      BY <2>2, <2>4, <2>5
  <1>4. InfosKept
    <2>1. ASSUME NEW id \in DOMAIN m_Memory, ~Expired(m_Memory[id])
          PROVE  id \in DOMAIN m_Memory'
      BY <1>2, <2>1 DEF Dead
    <2> QED
      BY <1>3, <2>1 DEF InfosKept
  <1> QED
    BY <1>2, <1>3, <1>4

LEMMA SweptCounts ==
  ASSUME TypeOK, CountInv, SweepDeadMemory, UNCHANGED <<promises, decs, result>>
  PROVE  CountInv' /\ leaked' \in [Ids -> Nat]
  <1>1. /\ DOMAIN m_Memory' = DOMAIN m_Memory \ Dead /\ Dead \subseteq DOMAIN m_Memory
        /\ \A id \in DOMAIN m_Memory' : /\ m_Memory'[id].parent = m_Memory[id].parent
                                        /\ m_Memory'[id].count = m_Memory[id].count
    BY SweptInfos
  <1>2. leaked' = [id \in Ids |->
                      IF id \notin DOMAIN m_Memory \ Dead THEN 0
                      ELSE leaked[id] + Cardinality({c \in Dead : m_Memory[c].parent = id})]
    BY DEF SweepDeadMemory
  <1>3. ASSUME NEW id \in Ids
        PROVE  /\ leaked'[id] \in Nat
               /\ References(id)' = IF id \in DOMAIN m_Memory' THEN m_Memory'[id].count ELSE 0
    <2> DEFINE C == {c \in DOMAIN m_Memory : m_Memory[c].parent = id}
               CD == {c \in Dead : m_Memory[c].parent = id}
               R == {c \in DOMAIN m_Memory' : m_Memory'[c].parent = id}
    <2>1. R = C \ CD /\ CD \subseteq C /\ C \cap CD = CD
      BY <1>1
    <2>2. /\ IsFiniteSet(C) /\ Cardinality(C) \in Nat
          /\ IsFiniteSet(CD) /\ Cardinality(CD) \in Nat
          /\ Handles(id) \in Nat /\ decs[id] \in Nat /\ leaked[id] \in Nat
      BY <2>1, CountTypes
    <2>3. Links(id) = Cardinality(C) /\ Links(id)' = Cardinality(R)
      BY DEF Links
    <2>4. Handles(id)' = Handles(id) /\ decs'[id] = decs[id]
      BY DEF Handles
    <2>5. References(id) = IF id \in DOMAIN m_Memory THEN m_Memory[id].count ELSE 0
      BY DEF CountInv
    <2> HIDE DEF C, CD, R
    <2>6. Cardinality(R) = Cardinality(C) - Cardinality(CD)
      <3>1. Cardinality(C \ CD) = Cardinality(C) - Cardinality(C \cap CD)
        BY <2>2, FS_Difference
      <3> QED
        BY <2>1, <3>1
    <2>7. CASE id \in DOMAIN m_Memory \ Dead
      <3>1. leaked'[id] = leaked[id] + Cardinality(CD)
        BY <1>2, <2>7 DEF CD
      <3>2. id \in DOMAIN m_Memory' /\ m_Memory'[id].count = m_Memory[id].count
        BY <1>1, <2>7
      <3> QED
        BY <2>2, <2>3, <2>4, <2>5, <2>6, <2>7, <3>1, <3>2 DEF References
    <2>8. CASE id \notin DOMAIN m_Memory \ Dead
      <3>1. leaked'[id] = 0
        BY <1>2, <2>8
      <3>2. References(id) = 0
        BY <2>5, <2>8 DEF Dead
      <3>3. Handles(id) = 0 /\ decs[id] = 0 /\ Cardinality(C) = 0
        BY <2>2, <2>3, <3>2 DEF References
      <3>4. Cardinality(R) = 0
        <4>1. C = {}
          BY <2>2, <3>3, FS_EmptySet
        <4>2. R = C
          BY <2>1, <4>1
        <4> QED
          BY <3>3, <4>2
      <3> QED
        BY <1>1, <2>3, <2>4, <2>8, <3>1, <3>3, <3>4 DEF References
    <2> QED
      BY <2>7, <2>8
  <1>4. leaked' \in [Ids -> Nat]
    BY <1>2, <1>3
  <1> QED
    BY <1>3, <1>4 DEF CountInv

LEMMA DestroyedHosts ==
  ASSUME IInv, NEW h \in DOMAIN hosts, Destroy(h)
  PROVE  /\ DOMAIN hosts' = DOMAIN hosts \ {h}
         /\ \A k \in DOMAIN hosts' : /\ hosts'[k] = hosts[k]
                                     /\ hosts'[k] \in [config: Configs, parent: DOMAIN hosts' \cup {0}]
         /\ held' \subseteq DOMAIN hosts' /\ m_OnDesctruct' \subseteq DOMAIN hosts'
         /\ twins' \subseteq Hosts
         /\ HostsKept /\ StaysDead
         /\ \A t \in Threads : /\ Range(taming'[t]) \subseteq DOMAIN hosts'
                               /\ parent_host'[t] \in DOMAIN hosts' \cup {0}
  <1>1. TypeOK /\ HostsInv
    BY DEF IInv
  <1>2. /\ ~Alive(h)
        /\ hosts' = [k \in DOMAIN hosts \ {h} |-> hosts[k]]
        /\ m_OnDesctruct' = m_OnDesctruct \ {h} /\ twins' = twins \ {h}
        /\ held' = held /\ taming' = taming /\ parent_host' = parent_host
    BY DEF Destroy, threads
  <1>3. DOMAIN hosts' = DOMAIN hosts \ {h} /\ \A k \in DOMAIN hosts' : hosts'[k] = hosts[k]
    BY <1>2
  <1>4. /\ h \notin held /\ \A c \in DOMAIN hosts : hosts[c].parent # h
        /\ \A t \in Threads : h \notin ToSet(taming[t]) /\ parent_host[t] # h
    BY <1>2, AliveMeans
  <1>5. ASSUME NEW k \in DOMAIN hosts'
        PROVE  hosts'[k] \in [config: Configs, parent: DOMAIN hosts' \cup {0}]
    <2>1. k \in DOMAIN hosts /\ hosts[k] \in [config: Configs, parent: DOMAIN hosts \cup {0}]
          /\ hosts[k].parent # h
      BY <1>1, <1>3, <1>4 DEF TypeOK
    <2> QED
      BY <1>3, <2>1
  <1>6. held' \subseteq DOMAIN hosts' /\ m_OnDesctruct' \subseteq DOMAIN hosts' /\ twins' \subseteq Hosts
    BY <1>1, <1>2, <1>3, <1>4 DEF TypeOK
  <1>7. HostsKept
    BY <1>2, <1>3 DEF HostsKept
  <1>8. StaysDead
    <2>1. \A c \in DOMAIN hosts' : c \in DOMAIN hosts /\ hosts'[c].parent = hosts[c].parent
      BY <1>3
    <2> QED
      BY <1>2, <2>1, AliveMeans DEF StaysDead
  <1>9. ASSUME NEW t \in Threads
        PROVE  /\ Range(taming'[t]) \subseteq DOMAIN hosts'
               /\ parent_host'[t] \in DOMAIN hosts' \cup {0}
    <2>1. Range(taming[t]) \subseteq DOMAIN hosts /\ parent_host[t] \in DOMAIN hosts \cup {0}
      BY <1>1 DEF HostsInv
    <2>2. h \notin Range(taming[t]) /\ parent_host[t] # h
      BY <1>4 DEF Range, ToSet
    <2> QED
      BY <1>2, <1>3, <2>1, <2>2
  <1> QED
    BY <1>3, <1>5, <1>6, <1>7, <1>8, <1>9

LEMMA DestroyStep ==
  ASSUME IInv, NEW h \in DOMAIN hosts, Destroy(h)
  PROVE  IInv'
  <1>1. TypeOK /\ HostsInv /\ RestoringInv /\ TamingInv /\ CountInv /\ WantedInv
    BY DEF IInv
  <1>2. /\ DOMAIN hosts' = DOMAIN hosts \ {h}
        /\ \A k \in DOMAIN hosts' : /\ hosts'[k] = hosts[k]
                                    /\ hosts'[k] \in [config: Configs, parent: DOMAIN hosts' \cup {0}]
        /\ held' \subseteq DOMAIN hosts' /\ m_OnDesctruct' \subseteq DOMAIN hosts'
        /\ twins' \subseteq Hosts
        /\ HostsKept /\ StaysDead
        /\ \A t \in Threads : /\ Range(taming'[t]) \subseteq DOMAIN hosts'
                              /\ parent_host'[t] \in DOMAIN hosts' \cup {0}
    BY DestroyedHosts
  <1>3. /\ ~Alive(h) /\ m_OnDesctruct' = m_OnDesctruct \ {h}
        /\ UNCHANGED <<held, m_MemoryNextID, m_MemoryLock, promises, decs, threads>>
        /\ pc' = pc /\ taming' = taming /\ result' = result /\ restoring' = restoring
        /\ parent_host' = parent_host
    BY DEF Destroy, threads
  <1>4. DOMAIN hosts' \subseteq Hosts
    BY <1>1, <1>2 DEF TypeOK
  <1>5. ASSUME /\ DOMAIN m_Memory' \subseteq 1..m_MemoryNextID' - 1
               /\ \A id \in DOMAIN m_Memory' : m_Memory'[id] \in Infos
               /\ leaked' \in [Ids -> Nat]
        PROVE  TypeOK'
    BY <1>1, <1>2, <1>3, <1>4, <1>5 DEF TypeOK, Infos
  <1>6. CASE h \notin m_OnDesctruct
    <2>1. m_Memory' = m_Memory /\ leaked' = leaked /\ m_OnDesctruct' = m_OnDesctruct
      BY <1>3, <1>6 DEF Destroy
    <2>2. UNCHANGED <<m_OnDesctruct, memory, m_MemoryLock, promises, decs, threads, leaked>>
      BY <1>3, <2>1 DEF memory
    <2>3. /\ RestoringInv' /\ TamingInv' /\ CountInv' /\ WantedInv'
          /\ \A id \in DOMAIN m_Memory' : /\ m_Memory'[id].host \in m_OnDesctruct' \cup {0}
                                           /\ m_Memory'[id].parent < id
      BY <1>2, <2>2, HostsOnly
    <2>4. TypeOK'
      <3>1. /\ DOMAIN m_Memory \subseteq 1..m_MemoryNextID - 1
            /\ \A id \in DOMAIN m_Memory : m_Memory[id] \in Infos
            /\ leaked \in [Ids -> Nat]
        BY <1>1 DEF TypeOK
      <3> QED
        BY <1>3, <1>5, <2>1, <3>1
    <2>5. HostsInv'
      BY <1>2, <2>3 DEF HostsInv
    <2> QED
      BY <2>3, <2>4, <2>5 DEF IInv
  <1>7. CASE h \in m_OnDesctruct
    <2>1. Unlocked /\ SweepDeadMemory
      BY <1>7 DEF Destroy
    <2>2. /\ DOMAIN m_Memory' = DOMAIN m_Memory \ Dead /\ Dead \subseteq DOMAIN m_Memory
          /\ \A id \in DOMAIN m_Memory' :
                /\ m_Memory'[id] \in Infos
                /\ m_Memory'[id].parent = m_Memory[id].parent
                /\ m_Memory'[id].count = m_Memory[id].count
                /\ m_Memory'[id].host = IF Expired(m_Memory[id]) THEN 0 ELSE m_Memory[id].host
                /\ Expired(m_Memory[id]) => m_Memory[id].count > 0
          /\ InfosKept
      BY <1>1, <2>1, SweptInfos
    <2>3. CountInv' /\ leaked' \in [Ids -> Nat]
      BY <1>1, <1>3, <2>1, SweptCounts
    <2>4. TypeOK'
      <3>1. DOMAIN m_Memory' \subseteq 1..m_MemoryNextID' - 1
        BY <1>1, <1>3, <2>2 DEF TypeOK
      <3> QED
        BY <1>5, <2>2, <2>3, <3>1
    <2>5. ASSUME NEW id \in DOMAIN m_Memory'
          PROVE  m_Memory'[id].host \in m_OnDesctruct' \cup {0} /\ m_Memory'[id].parent < id
      <3>1. /\ id \in DOMAIN m_Memory /\ m_Memory[id].host \in m_OnDesctruct \cup {0}
            /\ m_Memory[id].parent < id
        BY <1>1, <2>2 DEF HostsInv
      <3>2. m_Memory'[id].host # h \/ m_Memory'[id].host = 0
        BY <1>3, <2>2 DEF Expired
      <3> QED
        BY <1>3, <2>2, <3>1, <3>2
    <2>6. HostsInv'
      BY <1>2, <2>5 DEF HostsInv
    <2>7. RestoringInv'
      <3>1. \A t \in Threads : pc'[t] \notin {"restore", "stuck"}
        BY <1>1, <1>3, <2>1, UnlockedMeans
      <3> QED
        BY <1>1, <1>3, <2>1, <3>1, UnlockedKept DEF RestoringInv
    <2>8. TamingInv'
      BY <1>1, <1>2, <1>3, <2>2, TamingKept DEF TamingInv
    <2>9. WantedInv'
      <3>1. ASSUME NEW id \in DOMAIN m_Memory', m_Memory'[id].host = 0
            PROVE  m_Memory'[id].count > 0
        <4>1. Expired(m_Memory[id])
          BY <2>2, <3>1 DEF Expired
        <4> QED
          BY <2>2, <4>1
      <3> QED
        BY <3>1 DEF WantedInv
    <2> QED
      BY <2>3, <2>4, <2>6, <2>7, <2>8, <2>9 DEF IInv
  <1> QED
    BY <1>6, <1>7

-----------------------------------------------------------------------------
(* Promises are given and dropped.                                         *)

\* One more reference to an info, and one more in its count.
LEMMA CountedOnce ==
  ASSUME TypeOK, CountInv, NEW id \in DOMAIN m_Memory,
         DOMAIN m_Memory' = DOMAIN m_Memory,
         \A i \in DOMAIN m_Memory :
             /\ m_Memory'[i].parent = m_Memory[i].parent
             /\ m_Memory'[i].count = m_Memory[i].count + IF i = id THEN 1 ELSE 0,
         leaked' = leaked, decs' = decs,
         \A q \in Ids : Handles(q)' = Handles(q) + IF q = id THEN 1 ELSE 0
  PROVE  CountInv'
  <1>1. ASSUME NEW q \in Ids
        PROVE  References(q)' = IF q \in DOMAIN m_Memory' THEN m_Memory'[q].count ELSE 0
    <2>1. Links(q)' = Links(q)
      BY LinksSame
    <2>2. References(q) = IF q \in DOMAIN m_Memory THEN m_Memory[q].count ELSE 0
      BY DEF CountInv
    <2>3. /\ Handles(q) \in Nat /\ Links(q) \in Nat /\ decs[q] \in Nat /\ leaked[q] \in Nat
      BY CountTypes
    <2>4. References(q)' = References(q) + IF q = id THEN 1 ELSE 0
      BY <2>1, <2>3 DEF References
    <2> QED
      BY <2>2, <2>4
  <1> QED
    BY <1>1 DEF CountInv

LEMMA CountedInfos ==
  ASSUME TypeOK, NEW id \in DOMAIN m_Memory, m_Memory' = Counted(m_Memory, id)
  PROVE  /\ DOMAIN m_Memory' = DOMAIN m_Memory
         /\ \A i \in DOMAIN m_Memory :
                /\ m_Memory'[i] \in Infos
                /\ m_Memory'[i].parent = m_Memory[i].parent
                /\ m_Memory'[i].host = m_Memory[i].host
                /\ m_Memory'[i].count = m_Memory[i].count + IF i = id THEN 1 ELSE 0
         /\ InfosKept
  <1>1. m_Memory' = [m_Memory EXCEPT ![id].count = m_Memory[id].count + 1]
    BY DEF Counted
  <1>2. DOMAIN m_Memory' = DOMAIN m_Memory
    BY <1>1
  <1>3. ASSUME NEW i \in DOMAIN m_Memory
        PROVE  /\ m_Memory'[i] \in Infos
               /\ m_Memory'[i].parent = m_Memory[i].parent
               /\ m_Memory'[i].host = m_Memory[i].host
               /\ m_Memory'[i].count = m_Memory[i].count + IF i = id THEN 1 ELSE 0
    <2> DEFINE r == m_Memory[i]
    <2>1. r \in Infos /\ r.count \in Nat
      BY InfoFacts DEF TypeOK
    <2>2. CASE i = id
      <3> DEFINE n == r.count + 1
      <3>1. m_Memory'[i] = [r EXCEPT !.count = n]
        BY <1>1, <2>2
      <3>2. n \in Nat
        BY <2>1
      <3>3. /\ [r EXCEPT !.count = n] \in Infos
            /\ [r EXCEPT !.count = n].parent = r.parent
            /\ [r EXCEPT !.count = n].host = r.host
            /\ [r EXCEPT !.count = n].count = n
        <4> HIDE DEF r, n
        <4> QED
          BY <2>1, <3>2, InfoFacts
      <3> QED
        BY <2>2, <3>1, <3>3
    <2>3. CASE i # id
      <3>1. m_Memory'[i] = r
        BY <1>1, <2>3
      <3>2. r.count + 0 = r.count
        BY <2>1
      <3> QED
        BY <2>1, <2>3, <3>1, <3>2
    <2> QED
      BY <2>2, <2>3
  <1>4. InfosKept
    BY <1>2, <1>3 DEF InfosKept
  <1> QED
    BY <1>2, <1>3, <1>4

\* One reference less; DecPromiseCount() is called for it.
LEMMA DecCounts ==
  ASSUME TypeOK, HostsInv, CountInv, NEW id \in DOMAIN m_Memory,
         NEW dispatched \in [Ids -> Nat], DecPromiseCount(id, dispatched),
         \A q \in Ids :
             /\ Handles(q)' \in Nat
             /\ Handles(q)' + dispatched[q] = Handles(q) + decs[q] - IF q = id THEN 1 ELSE 0
  PROVE  /\ CountInv' /\ decs' \in [Ids -> Nat] /\ leaked' \in [Ids -> Nat]
         /\ m_Memory[id].count > 0
  <1> DEFINE p == m_Memory[id].parent
             forgets == Forgets(id)
  <1>1. /\ id \in Ids /\ m_Memory[id] \in Infos /\ p \in Ids \cup {0} /\ p < id /\ p # id
        /\ m_Memory[id].count \in Nat
    <2>1. id \in Ids /\ m_Memory[id] \in Infos
      BY CountTypes DEF TypeOK
    <2>2. p \in Ids \cup {0} /\ p < id /\ m_Memory[id].count \in Nat
      BY <2>1, InfoFacts DEF HostsInv
    <2>3. p \in Nat /\ id \in Nat
      BY <2>1, <2>2, ConstantFacts
    <2> QED
      BY <2>1, <2>2, <2>3
  <1>2. \A q \in Ids : /\ Handles(q) \in Nat /\ Links(q) \in Nat
                       /\ decs[q] \in Nat /\ leaked[q] \in Nat /\ dispatched[q] \in Nat
    BY CountTypes
  <1>3. References(id) = m_Memory[id].count
    BY <1>1 DEF CountInv
  <1>4. m_Memory[id].count > 0
    <2>1. Handles(id) + decs[id] = Handles(id)' + dispatched[id] + 1
      <3>1. Handles(id)' + dispatched[id] = Handles(id) + decs[id] - 1
        BY <1>1
      <3>2. Handles(id)' \in Nat
        BY <1>1
      <3> QED
        BY <1>1, <1>2, <3>1, <3>2
    <2>2. Handles(id)' \in Nat
      BY <1>1
    <2> QED
      BY <1>1, <1>2, <1>3, <2>1, <2>2 DEF References
  <1>5. CASE forgets
    <2>1. /\ m_Memory' = [i \in DOMAIN m_Memory \ {id} |-> m_Memory[i]]
          /\ leaked' = [leaked EXCEPT ![id] = 0]
          /\ decs' = [q \in Ids |-> dispatched[q] + IF q = p THEN 1 ELSE 0]
      BY <1>5 DEF DecPromiseCount, UplinkGivenBack
    <2>2. m_Memory[id].count = 1
      BY <1>5 DEF Forgets
    <2>3. /\ DOMAIN m_Memory' = DOMAIN m_Memory \ {id}
          /\ \A i \in DOMAIN m_Memory' : m_Memory'[i] = m_Memory[i]
      BY <2>1
    <2>4. ASSUME NEW q \in Ids
          PROVE  Links(q)' = Links(q) - IF q = p THEN 1 ELSE 0
      <3> DEFINE C == {c \in DOMAIN m_Memory : m_Memory[c].parent = q}
                 R == {c \in DOMAIN m_Memory' : m_Memory'[c].parent = q}
      <3>1. R = C \ {id} /\ (id \in C <=> q = p)
        BY <2>3
      <3>2. IsFiniteSet(C) /\ Cardinality(C) \in Nat
        BY CountTypes
      <3>3. Links(q) = Cardinality(C) /\ Links(q)' = Cardinality(R)
        BY DEF Links
      <3> HIDE DEF C, R, p
      <3>4. CASE q = p
        <4>1. Cardinality(C \ {id}) = Cardinality(C) - 1
          BY <3>1, <3>2, <3>4, FS_RemoveElement
        <4> QED
          BY <3>1, <3>3, <3>4, <4>1
      <3>5. CASE q # p
        <4>1. R = C
          BY <3>1, <3>5
        <4> QED
          BY <3>2, <3>3, <3>5, <4>1
      <3> QED
        BY <3>4, <3>5
    <2>5. decs' \in [Ids -> Nat] /\ leaked' \in [Ids -> Nat]
      <3>1. \A q \in Ids : dispatched[q] + (IF q = p THEN 1 ELSE 0) \in Nat
        BY <1>2
      <3> QED
        BY <2>1, <3>1 DEF TypeOK
    <2>6. ASSUME NEW q \in Ids
          PROVE  References(q)' = IF q \in DOMAIN m_Memory' THEN m_Memory'[q].count ELSE 0
      <3>1. /\ decs'[q] = dispatched[q] + IF q = p THEN 1 ELSE 0
            /\ leaked'[q] = IF q = id THEN 0 ELSE leaked[q]
        BY <2>1 DEF TypeOK
      <3>2. CASE q = id
        <4>1. References(id) = 1
          BY <1>3, <2>2
        <4>2. /\ Handles(q)' \in Nat
              /\ Handles(q)' + dispatched[q] = Handles(q) + decs[q] - 1
          BY <3>2
        <4>3. Links(q) = 0 /\ Handles(q)' + dispatched[q] = 0
          BY <1>2, <3>2, <4>1, <4>2 DEF References
        <4>4. Links(q)' = 0 /\ decs'[q] = dispatched[q] /\ leaked'[q] = 0
          <5> HIDE DEF p
          <5> QED
            BY <1>1, <1>2, <2>4, <3>1, <3>2, <4>3
        <4> QED
          BY <1>2, <2>3, <3>2, <4>2, <4>3, <4>4 DEF References
      <3>3. CASE q # id
        <4>1. Handles(q)' \in Nat /\ Handles(q)' + dispatched[q] = Handles(q) + decs[q]
          BY <1>2, <3>3
        <4>2. References(q)' = References(q)
          <5>1. Links(q)' + decs'[q] = Links(q) + dispatched[q]
            <6> HIDE DEF p
            <6> QED
              BY <1>2, <2>4, <3>1
          <5>2. leaked'[q] = leaked[q]
            BY <3>1, <3>3
          <5>3. Links(q)' \in Int /\ decs'[q] \in Nat
            <6> HIDE DEF p
            <6> QED
              BY <1>2, <2>4, <2>5
          <5>4. Handles(q)' + Links(q)' + decs'[q] = Handles(q) + Links(q) + decs[q]
            <6>1. /\ Handles(q) \in Int /\ Links(q) \in Int /\ decs[q] \in Int /\ dispatched[q] \in Int
                  /\ Handles(q)' \in Int /\ Links(q)' \in Int /\ decs'[q] \in Int
              BY <1>2, <4>1, <5>3
            <6>2. \A a, b, c, d, x, y, z \in Int :
                      x + d = a + c /\ y + z = b + d => x + y + z = a + b + c
              OBVIOUS
            <6> QED
              BY <4>1, <5>1, <6>1, <6>2
          <5> QED
            BY <5>2, <5>4 DEF References
        <4>3. References(q) = IF q \in DOMAIN m_Memory THEN m_Memory[q].count ELSE 0
          BY DEF CountInv
        <4> QED
          BY <2>3, <3>3, <4>2, <4>3
      <3> QED
        BY <3>2, <3>3
    <2> QED
      BY <1>4, <2>5, <2>6 DEF CountInv
  <1>6. CASE ~forgets
    <2>1. /\ m_Memory' = [i \in DOMAIN m_Memory |->
                             [m_Memory[i] EXCEPT !.count = IF i = id THEN @ - 1 ELSE @]]
          /\ leaked' = leaked /\ decs' = dispatched
      BY <1>6 DEF DecPromiseCount
    <2>2. DOMAIN m_Memory' = DOMAIN m_Memory
      BY <2>1
    <2>3. ASSUME NEW i \in DOMAIN m_Memory
          PROVE  /\ m_Memory'[i].parent = m_Memory[i].parent
                 /\ m_Memory'[i].count = m_Memory[i].count - IF i = id THEN 1 ELSE 0
      <3> DEFINE r == m_Memory[i]
                 n == IF i = id THEN r.count - 1 ELSE r.count
      <3>1. r \in Infos /\ r.count \in Nat
        BY InfoFacts DEF TypeOK
      <3>2. m_Memory'[i] = [r EXCEPT !.count = n]
        BY <2>1
      <3>3. n \in Nat /\ n = r.count - IF i = id THEN 1 ELSE 0
        BY <1>4, <3>1
      <3>4. /\ [r EXCEPT !.count = n].parent = r.parent
            /\ [r EXCEPT !.count = n].count = n
        <4> HIDE DEF r, n
        <4> QED
          BY <3>1, <3>3, InfoFacts
      <3> HIDE DEF n
      <3> QED
        BY <3>2, <3>3, <3>4
    <2>4. ASSUME NEW q \in Ids
          PROVE  References(q)' = IF q \in DOMAIN m_Memory' THEN m_Memory'[q].count ELSE 0
      <3>1. Links(q)' = Links(q)
        BY <2>2, <2>3, LinksSame
      <3>2. References(q) = IF q \in DOMAIN m_Memory THEN m_Memory[q].count ELSE 0
        BY DEF CountInv
      <3>3. /\ Handles(q)' \in Nat
            /\ Handles(q)' + dispatched[q] = Handles(q) + decs[q] - IF q = id THEN 1 ELSE 0
        OBVIOUS
      <3>4. References(q)' = References(q) - IF q = id THEN 1 ELSE 0
        BY <1>2, <2>1, <3>1, <3>3 DEF References
      <3> QED
        BY <2>2, <2>3, <3>2, <3>4
    <2> QED
      BY <1>4, <2>1, <2>4 DEF CountInv, TypeOK
  <1> QED
    BY <1>5, <1>6

LEMMA DecInfos ==
  ASSUME TypeOK, WantedInv, NEW id \in DOMAIN m_Memory, m_Memory[id].count > 0,
         NEW dispatched, DecPromiseCount(id, dispatched)
  PROVE  /\ DOMAIN m_Memory' \subseteq DOMAIN m_Memory
         /\ \A i \in DOMAIN m_Memory' : /\ m_Memory'[i] \in Infos
                                        /\ m_Memory'[i].host = m_Memory[i].host
                                        /\ m_Memory'[i].parent = m_Memory[i].parent
         /\ InfosKept /\ WantedInv'
  <1>1. \A i \in DOMAIN m_Memory : m_Memory[i] \in Infos /\ m_Memory[i].count \in Nat
    BY InfoFacts DEF TypeOK
  <1>2. CASE Forgets(id)
    <2>1. m_Memory' = [i \in DOMAIN m_Memory \ {id} |-> m_Memory[i]]
      BY <1>2 DEF DecPromiseCount
    <2>2. /\ DOMAIN m_Memory' = DOMAIN m_Memory \ {id}
          /\ \A i \in DOMAIN m_Memory' : m_Memory'[i] = m_Memory[i]
      BY <2>1
    <2>3. Expired(m_Memory[id])
      BY <1>2 DEF Forgets
    <2>4. InfosKept
      BY <2>2, <2>3 DEF InfosKept
    <2>5. WantedInv'
      BY <2>2 DEF WantedInv
    <2> QED
      BY <1>1, <2>2, <2>4, <2>5
  <1>3. CASE ~Forgets(id)
    <2>1. m_Memory' = [i \in DOMAIN m_Memory |->
                          [m_Memory[i] EXCEPT !.count = IF i = id THEN @ - 1 ELSE @]]
      BY <1>3 DEF DecPromiseCount
    <2>2. DOMAIN m_Memory' = DOMAIN m_Memory
      BY <2>1
    <2>3. ASSUME NEW i \in DOMAIN m_Memory
          PROVE  /\ m_Memory'[i] \in Infos
                 /\ m_Memory'[i].host = m_Memory[i].host
                 /\ m_Memory'[i].parent = m_Memory[i].parent
                 /\ m_Memory'[i].count = m_Memory[i].count - IF i = id THEN 1 ELSE 0
      <3> DEFINE r == m_Memory[i]
                 n == IF i = id THEN r.count - 1 ELSE r.count
      <3>1. r \in Infos /\ r.count \in Nat
        BY <1>1
      <3>2. m_Memory'[i] = [r EXCEPT !.count = n]
        BY <2>1
      <3>3. n \in Nat /\ n = r.count - IF i = id THEN 1 ELSE 0
        BY <3>1
      <3>4. /\ [r EXCEPT !.count = n] \in Infos
            /\ [r EXCEPT !.count = n].parent = r.parent
            /\ [r EXCEPT !.count = n].host = r.host
            /\ [r EXCEPT !.count = n].count = n
        <4> HIDE DEF r, n
        <4> QED
          BY <3>1, <3>3, InfoFacts
      <3> HIDE DEF n
      <3> QED
        BY <3>2, <3>3, <3>4
    <2>4. InfosKept
      BY <2>2, <2>3 DEF InfosKept
    <2>5. ASSUME NEW i \in DOMAIN m_Memory', m_Memory'[i].host = 0
          PROVE  m_Memory'[i].count > 0
      <3>1. i \in DOMAIN m_Memory /\ m_Memory[i].host = 0 /\ m_Memory[i].count > 0
        BY <2>2, <2>3, <2>5 DEF WantedInv
      <3>2. i = id => m_Memory[i].count # 1
        BY <1>3, <3>1 DEF Forgets, Expired
      <3> QED
        BY <1>1, <2>3, <3>1, <3>2
    <2>6. WantedInv'
      BY <2>5 DEF WantedInv
    <2> QED
      BY <2>2, <2>3, <2>4, <2>6
  <1> QED
    BY <1>2, <1>3

\* A step that changes infos and references to them, while the lock is free.
LEMMA MemoryOnly ==
  ASSUME IInv, Unlocked, InfosKept,
         UNCHANGED <<hosts, held, m_OnDesctruct, m_MemoryNextID, m_MemoryLock, taming, restoring,
                     parent_host, twins>>,
         DOMAIN m_Memory' \subseteq DOMAIN m_Memory,
         \A i \in DOMAIN m_Memory' : /\ m_Memory'[i] \in Infos
                                     /\ m_Memory'[i].host = m_Memory[i].host
                                     /\ m_Memory'[i].parent = m_Memory[i].parent,
         promises' \in [Ids -> Nat], decs' \in [Ids -> Nat], leaked' \in [Ids -> Nat],
         result' \in [Threads -> Ids \cup {0}],
         pc' \in [Threads -> {"idle", "tame", "drop", "build", "restore", "stuck"}],
         \A t \in Threads : \/ pc'[t] = pc[t] /\ result'[t] = result[t]
                            \/ pc'[t] \notin {"restore", "stuck"} /\ Taming(t)',
         CountInv', WantedInv'
  PROVE  IInv'
  <1>1. TypeOK /\ HostsInv /\ RestoringInv /\ TamingInv
    BY DEF IInv
  <1>2. TypeOK'
    <2>1. DOMAIN m_Memory' \subseteq 1..m_MemoryNextID' - 1
      BY <1>1 DEF TypeOK
    <2> QED
      BY <1>1, <2>1 DEF TypeOK, Infos
  <1>3. HostsInv'
    BY <1>1 DEF HostsInv
  <1>4. RestoringInv'
    <2>1. \A t \in Threads : pc'[t] \notin {"restore", "stuck"}
      BY <1>1, UnlockedMeans
    <2> QED
      BY <1>1, <2>1, UnlockedKept DEF RestoringInv
  <1>5. TamingInv'
    <2>1. HostsKept
      BY DEF HostsKept
    <2> QED
      BY <1>1, <2>1, TamingKept DEF TamingInv
  <1> QED
    BY <1>2, <1>3, <1>4, <1>5 DEF IInv

LEMMA GivePromiseStep ==
  ASSUME IInv, NEW id \in Ids, GivePromise(id)
  PROVE  IInv'
  <1>1. TypeOK /\ CountInv /\ WantedInv
    BY DEF IInv
  <1>2. /\ Unlocked /\ Found(id)
        /\ m_Memory' = IF id \in DOMAIN m_Memory THEN Counted(m_Memory, id) ELSE m_Memory
        /\ promises' = [promises EXCEPT ![id] = @ + 1]
        /\ UNCHANGED <<hosts, held, m_OnDesctruct, m_MemoryNextID, m_MemoryLock, decs, threads,
                       leaked, twins>>
    BY DEF GivePromise
  <1>3. id \in DOMAIN m_Memory
    BY <1>1, <1>2, ReferredTo DEF Found
  <1>4. /\ DOMAIN m_Memory' = DOMAIN m_Memory
        /\ \A i \in DOMAIN m_Memory :
                /\ m_Memory'[i] \in Infos
                /\ m_Memory'[i].parent = m_Memory[i].parent
                /\ m_Memory'[i].host = m_Memory[i].host
                /\ m_Memory'[i].count = m_Memory[i].count + IF i = id THEN 1 ELSE 0
        /\ InfosKept
    BY <1>1, <1>2, <1>3, CountedInfos
  <1>5. UNCHANGED <<pc, taming, result, restoring, parent_host>>
    BY <1>2 DEF threads
  <1>6. \A q \in Ids : Handles(q)' = Handles(q) + IF q = id THEN 1 ELSE 0
    <2>1. \A q \in Ids : promises'[q] = promises[q] + IF q = id THEN 1 ELSE 0
      BY <1>1, <1>2 DEF TypeOK
    <2>2. 1 \in Int
      OBVIOUS
    <2> QED
      BY <1>1, <1>5, <2>1, <2>2, PromisesCounted
  <1>7. CountInv'
    BY <1>1, <1>2, <1>3, <1>4, <1>6, CountedOnce
  <1>8. WantedInv'
    <2>1. \A i \in DOMAIN m_Memory : m_Memory[i].count \in Nat
      BY <1>1, InfoFacts DEF TypeOK
    <2> QED
      BY <1>1, <1>4, <2>1 DEF WantedInv
  <1>9. promises' \in [Ids -> Nat] /\ decs' \in [Ids -> Nat] /\ leaked' \in [Ids -> Nat]
        /\ result' \in [Threads -> Ids \cup {0}]
        /\ pc' \in [Threads -> {"idle", "tame", "drop", "build", "restore", "stuck"}]
    BY <1>1, <1>2, <1>5 DEF TypeOK
  <1> QED
    BY <1>2, <1>4, <1>5, <1>7, <1>8, <1>9, MemoryOnly

LEMMA DropPromiseStep ==
  ASSUME IInv, NEW id \in Ids, DropPromise(id)
  PROVE  IInv'
  <1>1. TypeOK /\ HostsInv /\ CountInv /\ WantedInv
    BY DEF IInv
  <1>2. /\ promises[id] > 0 /\ promises' = [promises EXCEPT ![id] = @ - 1]
        /\ DecPromiseCount(id, decs)
        /\ UNCHANGED <<hosts, held, m_OnDesctruct, m_MemoryNextID, m_MemoryLock, threads, twins>>
    BY DEF DropPromise
  <1>3. id \in DOMAIN m_Memory
    BY <1>1, <1>2, ReferredTo
  <1>4. UNCHANGED <<pc, taming, result, restoring, parent_host>>
    BY <1>2 DEF threads
  <1>5. \A q \in Ids : Handles(q)' = Handles(q) + IF q = id THEN -1 ELSE 0
    <2>1. \A q \in Ids : promises'[q] = promises[q] + IF q = id THEN -1 ELSE 0
      BY <1>1, <1>2 DEF TypeOK
    <2>2. -1 \in Int
      OBVIOUS
    <2> QED
      BY <1>1, <1>4, <2>1, <2>2, PromisesCounted
  <1>6. promises' \in [Ids -> Nat]
    <2>1. promises[id] - 1 \in Nat
      BY <1>1, <1>2 DEF TypeOK
    <2> QED
      BY <1>1, <1>2, <2>1 DEF TypeOK
  <1>7. \A q \in Ids :
            /\ Handles(q)' \in Nat
            /\ Handles(q)' + decs[q] = Handles(q) + decs[q] - IF q = id THEN 1 ELSE 0
    <2>1. ASSUME NEW q \in Ids
          PROVE  Handles(q)' \in Nat
      <3>1. Cardinality({t \in Threads : result'[t] = q}) \in Nat
        BY <1>1, CountTypes
      <3> QED
        BY <1>6, <3>1 DEF Handles
    <2> QED
      BY <1>1, <1>5, <2>1, CountTypes
  <1>8. decs \in [Ids -> Nat]
    BY <1>1 DEF TypeOK
  <1>9. /\ CountInv' /\ decs' \in [Ids -> Nat] /\ leaked' \in [Ids -> Nat]
        /\ m_Memory[id].count > 0
    BY <1>1, <1>2, <1>3, <1>7, <1>8, DecCounts
  <1>10. /\ DOMAIN m_Memory' \subseteq DOMAIN m_Memory
         /\ \A i \in DOMAIN m_Memory' : /\ m_Memory'[i] \in Infos
                                        /\ m_Memory'[i].host = m_Memory[i].host
                                        /\ m_Memory'[i].parent = m_Memory[i].parent
         /\ InfosKept /\ WantedInv'
    BY <1>1, <1>2, <1>3, <1>9, DecInfos
  <1>11. Unlocked
    BY <1>2 DEF DecPromiseCount
  <1>12. result' \in [Threads -> Ids \cup {0}]
         /\ pc' \in [Threads -> {"idle", "tame", "drop", "build", "restore", "stuck"}]
    BY <1>1, <1>4 DEF TypeOK
  <1> QED
    BY <1>2, <1>4, <1>6, <1>9, <1>10, <1>11, <1>12, MemoryOnly

LEMMA DecInBackgroundStep ==
  ASSUME IInv, NEW id \in Ids, DecInBackground(id)
  PROVE  IInv'
  <1> DEFINE dispatched == [decs EXCEPT ![id] = @ - 1]
  <1>1. TypeOK /\ HostsInv /\ CountInv /\ WantedInv
    BY DEF IInv
  <1>2. /\ decs[id] > 0 /\ DecPromiseCount(id, dispatched)
        /\ UNCHANGED <<hosts, held, m_OnDesctruct, m_MemoryNextID, m_MemoryLock, promises,
                       threads, twins>>
    BY DEF DecInBackground
  <1>3. id \in DOMAIN m_Memory
    BY <1>1, <1>2, ReferredTo
  <1>4. UNCHANGED <<pc, taming, result, restoring, parent_host>>
    BY <1>2 DEF threads
  <1>5. /\ dispatched \in [Ids -> Nat]
        /\ \A q \in Ids : dispatched[q] = decs[q] - IF q = id THEN 1 ELSE 0
    <2>1. decs[id] - 1 \in Nat /\ decs \in [Ids -> Nat]
      BY <1>1, <1>2 DEF TypeOK
    <2>2. dispatched \in [Ids -> Nat]
      BY <2>1
    <2>3. \A q \in Ids : decs[q] \in Nat
      BY <2>1
    <2> QED
      BY <2>1, <2>2, <2>3
  <1>6. \A q \in Ids :
            /\ Handles(q)' \in Nat
            /\ Handles(q)' + dispatched[q] = Handles(q) + decs[q] - IF q = id THEN 1 ELSE 0
    <2>1. ASSUME NEW q \in Ids
          PROVE  Handles(q)' = Handles(q)
      BY <1>2, <1>4 DEF Handles
    <2>2. \A q \in Ids : Handles(q) \in Nat /\ decs[q] \in Nat
      BY <1>1, CountTypes
    <2> HIDE DEF dispatched
    <2> QED
      BY <1>5, <2>1, <2>2
  <1> HIDE DEF dispatched
  <1>7. /\ CountInv' /\ decs' \in [Ids -> Nat] /\ leaked' \in [Ids -> Nat]
        /\ m_Memory[id].count > 0
    BY <1>1, <1>2, <1>3, <1>5, <1>6, DecCounts
  <1>8. /\ DOMAIN m_Memory' \subseteq DOMAIN m_Memory
        /\ \A i \in DOMAIN m_Memory' : /\ m_Memory'[i] \in Infos
                                       /\ m_Memory'[i].host = m_Memory[i].host
                                       /\ m_Memory'[i].parent = m_Memory[i].parent
        /\ InfosKept /\ WantedInv'
    BY <1>1, <1>2, <1>3, <1>7, DecInfos
  <1>9. Unlocked
    BY <1>2 DEF DecPromiseCount
  <1>10. promises' \in [Ids -> Nat] /\ result' \in [Threads -> Ids \cup {0}]
         /\ pc' \in [Threads -> {"idle", "tame", "drop", "build", "restore", "stuck"}]
    BY <1>1, <1>2, <1>4 DEF TypeOK
  <1> QED
    BY <1>2, <1>4, <1>7, <1>8, <1>9, <1>10, MemoryOnly

LEMMA DropResultStep ==
  ASSUME IInv, NEW t \in Threads, DropResult(t)
  PROVE  IInv'
  <1> DEFINE id == result[t]
  <1>1. TypeOK /\ HostsInv /\ TamingInv /\ CountInv /\ WantedInv
    BY DEF IInv
  <1>2. /\ pc[t] = "drop" /\ DecPromiseCount(id, decs)
        /\ result' = [result EXCEPT ![t] = 0] /\ pc' = [pc EXCEPT ![t] = "build"]
        /\ UNCHANGED <<hosts, held, m_OnDesctruct, m_MemoryNextID, m_MemoryLock, promises,
                       taming, restoring, parent_host, twins>>
    BY DEF DropResult, Goto
  <1>3. id # 0 /\ id \in DOMAIN m_Memory
    <2>1. id # 0
      BY <1>1, <1>2 DEF TamingInv, Taming
    <2> QED
      BY <1>1, <2>1, ReferredTo
  <1>4. /\ result' \in [Threads -> Ids \cup {0}]
        /\ pc' \in [Threads -> {"idle", "tame", "drop", "build", "restore", "stuck"}]
        /\ promises' \in [Ids -> Nat] /\ decs \in [Ids -> Nat]
        /\ pc'[t] = "build" /\ result'[t] = 0
        /\ \A u \in Threads \ {t} : pc'[u] = pc[u] /\ result'[u] = result[u]
    BY <1>1, <1>2 DEF TypeOK
  <1>5. \A q \in Ids :
            /\ Handles(q)' \in Nat
            /\ Handles(q)' + decs[q] = Handles(q) + decs[q] - IF q = id THEN 1 ELSE 0
    <2>1. \A q \in Ids : Handles(q)' = Handles(q) + (IF q = 0 THEN 1 ELSE 0)
                                                  - (IF q = result[t] THEN 1 ELSE 0)
      BY <1>1, <1>2, <1>3, ResultCounted
    <2>2. ASSUME NEW q \in Ids
          PROVE  Handles(q)' \in Nat
      <3>1. Cardinality({u \in Threads : result'[u] = q}) \in Nat
        BY <1>1, CountTypes
      <3> QED
        BY <1>4, <3>1 DEF Handles
    <2>3. \A q \in Ids : q # 0 /\ Handles(q) \in Nat /\ decs[q] \in Nat
      BY <1>1, CountTypes, ConstantFacts
    <2> QED
      BY <2>1, <2>2, <2>3
  <1>6. /\ CountInv' /\ decs' \in [Ids -> Nat] /\ leaked' \in [Ids -> Nat]
        /\ m_Memory[id].count > 0
    <2> HIDE DEF id
    <2> QED
      BY <1>1, <1>2, <1>3, <1>4, <1>5, DecCounts
  <1>7. /\ DOMAIN m_Memory' \subseteq DOMAIN m_Memory
        /\ \A i \in DOMAIN m_Memory' : /\ m_Memory'[i] \in Infos
                                       /\ m_Memory'[i].host = m_Memory[i].host
                                       /\ m_Memory'[i].parent = m_Memory[i].parent
        /\ InfosKept /\ WantedInv'
    <2> HIDE DEF id
    <2> QED
      BY <1>1, <1>2, <1>3, <1>6, DecInfos
  <1>8. Unlocked
    BY <1>2 DEF DecPromiseCount
  <1>9. Taming(t)'
    <2>1. taming[t] # <<>> /\ ParentKnown(Last(taming[t]))
          /\ \A j \in 1..Len(taming[t]) - 1 : hosts[taming[t][j]].parent = taming[t][j + 1]
      BY <1>1, <1>2 DEF TamingInv, Taming
    <2>2. Last(taming[t]) \in DOMAIN hosts /\ Alive(Last(taming[t]))
      BY <1>1, <2>1, TamedHosts
    <2>3. HostsKept
      BY <1>2 DEF HostsKept
    <2>4. taming' = taming /\ hosts' = hosts
      BY <1>2
    <2>5. ParentKnown(Last(taming[t]))'
      BY <1>1, <1>7, <2>1, <2>2, <2>3, <2>4, ParentKnownKept
    <2> QED
      BY <1>4, <2>1, <2>4, <2>5 DEF Taming
  <1>10. \A u \in Threads : \/ pc'[u] = pc[u] /\ result'[u] = result[u]
                            \/ pc'[u] \notin {"restore", "stuck"} /\ Taming(u)'
    BY <1>4, <1>9
  <1> QED
    BY <1>2, <1>4, <1>6, <1>7, <1>8, <1>10, MemoryOnly

-----------------------------------------------------------------------------
(* Hosts are tamed.                                                        *)

\* What a call of TameVFS() has on its stack.
Stack(s) ==
    /\ s \in Seq(Hosts) /\ s # <<>> /\ ToSet(s) \subseteq DOMAIN hosts
    /\ \A j \in 1..Len(s) - 1 : hosts[s[j]].parent = s[j + 1]

\* The promise goes to the program or to the call that tames a host in this one.
LEMMA Returned ==
  ASSUME TypeOK, NEW t \in Threads, result[t] = 0, NEW s, Stack(s), NEW id \in Ids,
         NEW known \in SUBSET Hosts, ReturnPromise(t, s, id, known), hosts' = hosts,
         InfosOf(Last(s))' # {}
  PROVE  /\ twins' \subseteq Hosts /\ promises' \in [Ids -> Nat]
         /\ result' \in [Threads -> Ids \cup {0}]
         /\ pc' \in [Threads -> {"idle", "tame", "drop", "build", "restore", "stuck"}]
         /\ taming' \in [Threads -> Seq(Hosts)]
         /\ \A q \in Ids : Handles(q)' = Handles(q) + IF q = id THEN 1 ELSE 0
         /\ \A u \in Threads \ {t} : /\ pc'[u] = pc[u] /\ result'[u] = result[u]
                                     /\ taming'[u] = taming[u]
         /\ pc'[t] \notin {"restore", "stuck"} /\ ToSet(taming'[t]) \subseteq DOMAIN hosts
         /\ Taming(t)'
  <1> DEFINE f == Front(s)
             n == Len(s)
  <1>1. /\ n \in Nat \ {0} /\ f \in Seq(Hosts) /\ Len(f) = n - 1
        /\ ToSet(f) \subseteq DOMAIN hosts /\ Last(s) \in Hosts
    <2>1. s \in Seq(Hosts) /\ s # <<>> /\ n \in Nat /\ n # 0
      BY LenProperties, EmptySeq DEF Stack
    <2>2. /\ f \in Seq(Hosts) /\ Len(f) = n - 1 /\ Last(s) \in Hosts
          /\ ToSet(s) = ToSet(f) \cup {Last(s)}
      BY <2>1, ToSetLast
    <2> QED
      BY <2>1, <2>2 DEF Stack
  <1>2. \A j \in 1..n - 1 : f[j] = s[j]
    <2>1. 1 \in Int /\ n - 1 \in Int /\ \A j \in 1..n - 1 : s[j] \in Hosts
      BY <1>1, ElementOfSeq DEF Stack
    <2>2. \A j \in 1..n - 1 - 1 + 1 : SubSeq(s, 1, n - 1)[j] = s[1 + j - 1]
      BY <2>1, SubSeqProperties
    <2> QED
      BY <1>1, <2>2 DEF Front
  <1>3. /\ twins' = twins \cup {h \in known : \/ \E u \in Threads \ {t} : h \in Range(taming[u])
                                              \/ (InfosOf(h) # {} /\ h # Last(s))}
        /\ taming' = [taming EXCEPT ![t] = f]
        /\ IF n = 1
             THEN /\ pc' = [pc EXCEPT ![t] = "idle"]
                  /\ promises' = [promises EXCEPT ![id] = @ + 1] /\ result' = result
             ELSE /\ pc' = [pc EXCEPT ![t] = "drop"]
                  /\ result' = [result EXCEPT ![t] = id] /\ promises' = promises
    BY Zenon DEF ReturnPromise, Goto
  <1>4. twins' \subseteq Hosts
    BY <1>3 DEF TypeOK
  <1>5. taming' \in [Threads -> Seq(Hosts)] /\ taming'[t] = f
        /\ \A u \in Threads \ {t} : taming'[u] = taming[u]
    BY <1>1, <1>3 DEF TypeOK
  <1>6. id # 0 /\ id \in Nat
    BY ConstantFacts
  <1>7. CASE n = 1
    <2>1. /\ pc' = [pc EXCEPT ![t] = "idle"]
          /\ promises' = [promises EXCEPT ![id] = @ + 1] /\ result' = result
      BY <1>3, <1>7
    <2>2. promises' \in [Ids -> Nat] /\ \A q \in Ids : promises'[q] = promises[q] + IF q = id THEN 1 ELSE 0
      BY <2>1 DEF TypeOK
    <2>3. \A q \in Ids : Handles(q)' = Handles(q) + IF q = id THEN 1 ELSE 0
      <3>1. 1 \in Int
        OBVIOUS
      <3> QED
        BY <2>1, <2>2, <3>1, PromisesCounted
    <2>4. /\ pc' \in [Threads -> {"idle", "tame", "drop", "build", "restore", "stuck"}]
          /\ pc'[t] = "idle" /\ \A u \in Threads \ {t} : pc'[u] = pc[u]
      BY <2>1 DEF TypeOK
    <2>5. taming'[t] = <<>> /\ Len(taming'[t]) = 0
      BY <1>1, <1>5, <1>7, EmptySeq
    <2>6. Taming(t)'
      BY <2>1, <2>4, <2>5 DEF Taming
    <2>7. result' \in [Threads -> Ids \cup {0}]
      BY <2>1 DEF TypeOK
    <2> QED
      BY <1>1, <1>4, <1>5, <2>1, <2>2, <2>3, <2>4, <2>6, <2>7
  <1>8. CASE n # 1
    <2>1. /\ pc' = [pc EXCEPT ![t] = "drop"]
          /\ result' = [result EXCEPT ![t] = id] /\ promises' = promises
      BY <1>3, <1>8
    <2>2. /\ promises' \in [Ids -> Nat] /\ result' \in [Threads -> Ids \cup {0}]
          /\ result'[t] = id /\ \A u \in Threads \ {t} : result'[u] = result[u]
          /\ pc' \in [Threads -> {"idle", "tame", "drop", "build", "restore", "stuck"}]
          /\ pc'[t] = "drop" /\ \A u \in Threads \ {t} : pc'[u] = pc[u]
      BY <2>1 DEF TypeOK
    <2>3. \A q \in Ids : Handles(q)' = Handles(q) + IF q = id THEN 1 ELSE 0
      <3>1. \A q \in Ids : Handles(q)' = Handles(q) + (IF q = id THEN 1 ELSE 0)
                                                    - (IF q = result[t] THEN 1 ELSE 0)
        BY <1>6, <2>1, ResultCounted
      <3>2. \A q \in Ids : q # 0 /\ Handles(q) \in Nat
        BY CountTypes, ConstantFacts
      <3> QED
        BY <3>1, <3>2
    <2>4. f # <<>> /\ Last(f) = s[n - 1] /\ hosts[Last(f)].parent = Last(s)
      <3>1. n - 1 \in 1..n - 1 /\ n - 1 + 1 = n
        BY <1>1, <1>8
      <3>2. f # <<>>
        BY <1>1, <3>1, EmptySeq
      <3>3. Last(f) = f[n - 1] /\ Last(s) = s[n]
        BY <1>1 DEF Last
      <3> QED
        BY <1>2, <3>1, <3>2, <3>3 DEF Stack
    <2>5. \A j \in 1..Len(f) - 1 : hosts[f[j]].parent = f[j + 1]
      <3>1. ASSUME NEW j \in 1..Len(f) - 1
            PROVE  hosts[f[j]].parent = f[j + 1]
        <4>1. j \in 1..n - 1 /\ j + 1 \in 1..n - 1
          BY <1>1
        <4> QED
          BY <1>2, <4>1 DEF Stack
      <3> QED
        BY <3>1
    <2>6. ParentKnown(Last(f))'
      <3>1. (hosts'[Last(f)].parent # 0 => InfosOf(hosts[Last(f)].parent)' # {})
        BY <2>4
      <3> QED
        BY <1>5, <3>1 DEF ParentKnown, InfosOf
    <2>7. Taming(t)'
      <3>1. ParentKnown(Last(taming[t]))'
        BY <1>5, <2>6 DEF ParentKnown
      <3> QED
        BY <1>5, <1>6, <2>2, <2>4, <2>5, <3>1 DEF Taming
    <2> QED
      BY <1>1, <1>4, <1>5, <2>2, <2>3, <2>7
  <1> QED
    BY <1>7, <1>8

\* The infos of a chain get the hosts of the chain, those that have none that lives.
LEMMA Rehosted ==
  ASSUME TypeOK, HostsInv, UplinksKept, WantedInv, NEW h \in DOMAIN hosts, Matches(h),
         m_Memory' = Counted(
             [id \in DOMAIN m_Memory |->
                 [m_Memory[id] EXCEPT !.host =
                     IF \E link \in Refreshed(h) : link[1] = id
                       THEN (CHOOSE link \in Refreshed(h) : link[1] = id)[2] ELSE @]],
             Min(Candidates(h)))
  PROVE  /\ Min(Candidates(h)) \in DOMAIN m_Memory
         /\ DOMAIN m_Memory' = DOMAIN m_Memory
         /\ \A i \in DOMAIN m_Memory :
                /\ m_Memory'[i] \in Infos
                /\ m_Memory'[i].config = m_Memory[i].config
                /\ m_Memory'[i].parent = m_Memory[i].parent
                /\ m_Memory'[i].count = m_Memory[i].count + IF i = Min(Candidates(h)) THEN 1 ELSE 0
                /\ \/ m_Memory'[i].host = m_Memory[i].host
                   \/ /\ m_Memory'[i].host \in {link[2] : link \in Refreshed(h)}
                      /\ <<i, m_Memory'[i].host>> \in Chain(Min(Candidates(h)), h)
         /\ {link[2] : link \in Refreshed(h)} \subseteq DOMAIN hosts
         /\ InfosOf(h)' # {} /\ InfosKept /\ WantedInv'
  <1> DEFINE front == Min(Candidates(h))
             set == Refreshed(h)
             New(i) == IF \E link \in set : link[1] = i
                         THEN (CHOOSE link \in set : link[1] = i)[2] ELSE m_Memory[i].host
             m == [id \in DOMAIN m_Memory |-> [m_Memory[id] EXCEPT !.host = New(id)]]
  <1>1. front \in Candidates(h)
    <2>1. Candidates(h) # {} /\ Candidates(h) \subseteq DOMAIN m_Memory
      BY DEF Matches, Candidates
    <2>2. DOMAIN m_Memory \subseteq Nat
      BY CountTypes, ConstantFacts
    <2>3. Candidates(h) \subseteq Nat
      BY <2>1, <2>2
    <2> QED
      BY <2>1, <2>3, MinFacts
  <1>2. front \in DOMAIN m_Memory /\ Expired(m_Memory[front])
    BY <1>1 DEF Candidates
  <1>3. /\ Chain(front, h) \subseteq (DOMAIN m_Memory) \X (DOMAIN hosts)
        /\ <<front, h>> \in Chain(front, h)
        /\ \A a, b \in Chain(front, h) : a[1] = b[1] => a = b
    <2> HIDE DEF front
    <2> QED
      BY <1>2, ChainFacts
  <1>4. set = {link \in Chain(front, h) : Expired(m_Memory[link[1]])}
    BY DEF Refreshed
  <1> HIDE DEF set, front
  <1>5. \A link \in set : /\ link[1] \in DOMAIN m_Memory /\ link[2] \in DOMAIN hosts
                          /\ Expired(m_Memory[link[1]])
    BY <1>3, <1>4
  <1>6. \E link \in set : link[1] = front /\ link[2] = h
    <2>1. <<front, h>>[1] = front /\ <<front, h>>[2] = h
      OBVIOUS
    <2>2. <<front, h>> \in set
      BY <1>2, <1>3, <1>4, <2>1
    <2> QED
      BY <2>1, <2>2
  <1>7. \A a, b \in set : a[1] = b[1] => a = b
    BY <1>3, <1>4
  <1>8. {link[2] : link \in set} \subseteq DOMAIN hosts /\ DOMAIN hosts \subseteq Hosts
    BY <1>5 DEF TypeOK
  <1>9. ASSUME NEW i \in DOMAIN m_Memory
        PROVE  /\ \/ New(i) = m_Memory[i].host
                  \/ /\ New(i) \in {link[2] : link \in set} /\ Expired(m_Memory[i])
                     /\ <<i, New(i)>> \in Chain(front, h)
               /\ i = front => New(i) = h
               /\ New(i) \in Hosts \cup {0}
    <2>1. m_Memory[i].host \in Hosts \cup {0}
      BY InfoFacts DEF TypeOK
    <2>2. CASE \E link \in set : link[1] = i
      <3> DEFINE link == CHOOSE x \in set : x[1] = i
      <3>1. link \in set /\ link[1] = i
        BY <2>2
      <3>2. New(i) = link[2]
        BY <2>2
      <3> HIDE DEF link, New
      <3>3. i = front => link[2] = h
        BY <1>6, <1>7, <3>1
      <3>4. link \in Chain(front, h) /\ link = <<link[1], link[2]>>
        BY <1>3, <1>4, <3>1
      <3>5. <<i, New(i)>> \in Chain(front, h)
        BY <3>1, <3>2, <3>4
      <3> QED
        BY <1>5, <1>8, <3>1, <3>2, <3>3, <3>5
    <2>3. CASE ~\E link \in set : link[1] = i
      <3>1. New(i) = m_Memory[i].host /\ i # front
        BY <1>6, <2>3
      <3> HIDE DEF New
      <3> QED
        BY <2>1, <3>1
    <2> QED
      BY <2>2, <2>3
  <1>10. m_Memory' = [m EXCEPT ![front].count = m[front].count + 1]
    BY DEF Counted, front, set
  <1> HIDE DEF New
  <1>11. DOMAIN m_Memory' = DOMAIN m_Memory
    BY <1>10
  <1>12. ASSUME NEW i \in DOMAIN m_Memory
         PROVE  /\ m_Memory'[i] \in Infos
                /\ m_Memory'[i].config = m_Memory[i].config
                /\ m_Memory'[i].parent = m_Memory[i].parent
                /\ m_Memory'[i].count = m_Memory[i].count + IF i = front THEN 1 ELSE 0
                /\ m_Memory'[i].host = New(i)
    <2> DEFINE r == m_Memory[i]
               x == New(i)
               n == r.count + 1
    <2>1. r \in Infos /\ r.count \in Nat /\ x \in Hosts \cup {0} /\ n \in Nat
      <3>1. x \in Hosts \cup {0}
        BY <1>9
      <3>2. r \in Infos /\ r.count \in Nat
        BY InfoFacts DEF TypeOK
      <3> QED
        BY <3>1, <3>2
    <2>2. m[i] = [r EXCEPT !.host = x]
      OBVIOUS
    <2> DEFINE s == [r EXCEPT !.host = x]
    <2>3. s \in Infos /\ s.config = r.config /\ s.parent = r.parent /\ s.count = r.count /\ s.host = x
      <3> HIDE DEF r, x
      <3> QED
        BY <2>1, InfoFacts
    <2>4. CASE i = front
      <3>1. m_Memory'[i] = [m[i] EXCEPT !.count = m[i].count + 1]
        <4> HIDE DEF m
        <4>1. DOMAIN m = DOMAIN m_Memory
          BY DEF m
        <4> QED
          BY <1>10, <2>4, <4>1
      <3>2. m[i] = s
        BY <2>2
      <3> HIDE DEF m, s
      <3>3. m_Memory'[i] = [s EXCEPT !.count = s.count + 1]
        BY <3>1, <3>2
      <3>4. m_Memory'[i] = [s EXCEPT !.count = n]
        BY <2>3, <3>3
      <3>5. /\ [s EXCEPT !.count = n] \in Infos
            /\ [s EXCEPT !.count = n].config = s.config
            /\ [s EXCEPT !.count = n].parent = s.parent
            /\ [s EXCEPT !.count = n].host = s.host
            /\ [s EXCEPT !.count = n].count = n
        <4> HIDE DEF n
        <4> QED
          BY <2>1, <2>3, InfoFacts
      <3> QED
        BY <2>3, <2>4, <3>4, <3>5
    <2>5. CASE i # front
      <3>1. m_Memory'[i] = s
        BY <1>10, <2>2, <2>5
      <3>2. r.count + 0 = r.count
        BY <2>1
      <3> HIDE DEF s
      <3> QED
        BY <2>3, <2>5, <3>1, <3>2
    <2> QED
      BY <2>4, <2>5
  <1>13. InfosOf(h)' # {}
    BY <1>2, <1>9, <1>11, <1>12 DEF InfosOf
  <1>14. InfosKept
    BY <1>9, <1>11, <1>12 DEF InfosKept
  <1>15. WantedInv'
    <2>1. ASSUME NEW i \in DOMAIN m_Memory, m_Memory'[i].host = 0
          PROVE  m_Memory'[i].count > 0
      <3>1. 0 \notin {link[2] : link \in set}
        BY <1>8, ConstantFacts
      <3>2. m_Memory[i].host = 0 /\ m_Memory[i].count > 0 /\ m_Memory[i].count \in Nat
        <4>1. New(i) = 0
          BY <1>12, <2>1
        <4>2. m_Memory[i].host = 0
          BY <1>9, <3>1, <4>1
        <4>3. m_Memory[i].count \in Nat
          BY InfoFacts DEF TypeOK
        <4> QED
          BY <4>2, <4>3 DEF WantedInv
      <3> QED
        BY <1>12, <3>2
    <2> QED
      BY <1>11, <2>1 DEF WantedInv
  <1>16. \A i \in DOMAIN m_Memory : \/ m_Memory'[i].host = m_Memory[i].host
                                    \/ /\ m_Memory'[i].host \in {link[2] : link \in set}
                                       /\ <<i, m_Memory'[i].host>> \in Chain(front, h)
    BY <1>9, <1>12
  <1> QED
    BY <1>2, <1>8, <1>11, <1>12, <1>13, <1>14, <1>15, <1>16 DEF set, front

LEMMA TameVFSStep ==
  ASSUME IInv, NEW t \in Threads, NEW s, Stack(s), TameVFS(t, s),
         \/ pc[t] = "idle"
         \/ pc[t] = "tame" /\ s = taming[t]
  PROVE  IInv'
  <1> DEFINE h == Last(s)
  <1>1. TypeOK /\ HostsInv /\ RestoringInv /\ TamingInv /\ CountInv /\ WantedInv
    BY DEF IInv
  <1>2. /\ Unlocked
        /\ UNCHANGED <<hosts, held, m_MemoryNextID, m_MemoryLock, decs, restoring,
                       parent_host, leaked>>
    BY DEF TameVFS
  <1>3. UplinksKept
    BY <1>1, UplinkFacts
  <1>4. h \in DOMAIN hosts /\ s \in Seq(Hosts) /\ s # <<>> /\ ToSet(s) \subseteq DOMAIN hosts
    <2>1. s \in Seq(Hosts) /\ s # <<>> /\ ToSet(s) \subseteq DOMAIN hosts
      BY DEF Stack
    <2> QED
      BY <2>1, ToSetLast
  <1>5. result[t] = 0
    BY <1>1 DEF TamingInv, Taming
  <1>6. \A u \in Threads : pc[u] \notin {"restore", "stuck"}
    BY <1>1, <1>2, UnlockedMeans
  <1>7. HostsKept
    BY <1>2 DEF HostsKept
  <1>8. SUFFICES
          /\ DOMAIN m_Memory' = DOMAIN m_Memory
          /\ \A i \in DOMAIN m_Memory : /\ m_Memory'[i] \in Infos
                                        /\ m_Memory'[i].parent = m_Memory[i].parent
                                        /\ m_Memory'[i].host \in m_OnDesctruct' \cup {0}
          /\ m_OnDesctruct' \subseteq DOMAIN hosts
          /\ InfosKept /\ CountInv' /\ WantedInv'
          /\ twins' \subseteq Hosts /\ promises' \in [Ids -> Nat]
          /\ result' \in [Threads -> Ids \cup {0}]
          /\ pc' \in [Threads -> {"idle", "tame", "drop", "build", "restore", "stuck"}]
          /\ taming' \in [Threads -> Seq(Hosts)]
          /\ \A u \in Threads \ {t} : /\ pc'[u] = pc[u] /\ result'[u] = result[u]
                                      /\ taming'[u] = taming[u]
          /\ pc'[t] \notin {"restore", "stuck"} /\ ToSet(taming'[t]) \subseteq DOMAIN hosts
          /\ Taming(t)'
    <2>1. TypeOK'
      <3>1. DOMAIN m_Memory' \subseteq 1..m_MemoryNextID' - 1
        BY <1>1, <1>2, <1>8 DEF TypeOK
      <3> QED
        BY <1>1, <1>2, <1>8, <3>1 DEF TypeOK, Infos
    <2>2. HostsInv'
      <3>1. \A u \in Threads : ToSet(taming'[u]) \subseteq DOMAIN hosts
        BY <1>1, <1>8 DEF HostsInv, Range, ToSet
      <3> QED
        BY <1>1, <1>2, <1>8, <3>1 DEF HostsInv, Range, ToSet
    <2>3. RestoringInv'
      <3>1. \A u \in Threads : pc'[u] \notin {"restore", "stuck"}
        BY <1>6, <1>8
      <3> QED
        BY <1>1, <1>2, <3>1, UnlockedKept DEF RestoringInv
    <2>4. TamingInv'
      <3>1. \A u \in Threads \ {t} : Taming(u)'
        BY <1>1, <1>7, <1>8, TamingKept DEF TamingInv
      <3> QED
        BY <1>8, <3>1 DEF TamingInv
    <2> QED
      BY <1>8, <2>1, <2>2, <2>3, <2>4 DEF IInv
  <1>9. CASE InfosOf(h) # {}
    <2> DEFINE id == Min(InfosOf(h))
    <2>1. m_Memory' = Counted(m_Memory, id) /\ ReturnPromise(t, s, id, {}) /\ m_OnDesctruct' = m_OnDesctruct
      BY <1>9 DEF TameVFS
    <2>2. id \in DOMAIN m_Memory /\ id \in Ids /\ m_Memory[id].host = h
      <3>1. InfosOf(h) \subseteq DOMAIN m_Memory /\ DOMAIN m_Memory \subseteq Ids /\ Ids \subseteq Nat
        BY <1>1, CountTypes, ConstantFacts DEF InfosOf
      <3>2. InfosOf(h) \subseteq Nat
        BY <3>1
      <3>3. id \in InfosOf(h)
        BY <1>9, <3>2, MinFacts
      <3> QED
        BY <3>1, <3>3 DEF InfosOf
    <2> HIDE DEF id
    <2>3. /\ DOMAIN m_Memory' = DOMAIN m_Memory
          /\ \A i \in DOMAIN m_Memory :
                /\ m_Memory'[i] \in Infos
                /\ m_Memory'[i].parent = m_Memory[i].parent
                /\ m_Memory'[i].host = m_Memory[i].host
                /\ m_Memory'[i].count = m_Memory[i].count + IF i = id THEN 1 ELSE 0
          /\ InfosKept
      BY <1>1, <2>1, <2>2, CountedInfos
    <2>4. InfosOf(h)' # {}
      BY <2>2, <2>3 DEF InfosOf
    <2>5. {} \in SUBSET Hosts
      OBVIOUS
    <2>6. /\ twins' \subseteq Hosts /\ promises' \in [Ids -> Nat]
          /\ result' \in [Threads -> Ids \cup {0}]
          /\ pc' \in [Threads -> {"idle", "tame", "drop", "build", "restore", "stuck"}]
          /\ taming' \in [Threads -> Seq(Hosts)]
          /\ \A q \in Ids : Handles(q)' = Handles(q) + IF q = id THEN 1 ELSE 0
          /\ \A u \in Threads \ {t} : /\ pc'[u] = pc[u] /\ result'[u] = result[u]
                                      /\ taming'[u] = taming[u]
          /\ pc'[t] \notin {"restore", "stuck"} /\ ToSet(taming'[t]) \subseteq DOMAIN hosts
          /\ Taming(t)'
      BY <1>1, <1>2, <1>5, <2>1, <2>2, <2>4, <2>5, Returned
    <2>7. CountInv'
      BY <1>1, <1>2, <2>2, <2>3, <2>6, CountedOnce
    <2>8. WantedInv'
      <3>1. \A i \in DOMAIN m_Memory : m_Memory[i].count \in Nat
        BY <1>1, InfoFacts DEF TypeOK
      <3> QED
        BY <1>1, <2>3, <3>1 DEF WantedInv
    <2>9. /\ m_OnDesctruct' \subseteq DOMAIN hosts
          /\ \A i \in DOMAIN m_Memory : m_Memory'[i].host \in m_OnDesctruct' \cup {0}
      BY <1>1, <2>1, <2>3 DEF TypeOK, HostsInv
    <2> QED
      BY <2>3, <2>6, <2>7, <2>8, <2>9
  <1>10. CASE InfosOf(h) = {} /\ Matches(h)
    <2> DEFINE front == Min(Candidates(h))
               refreshed == {link[2] : link \in Refreshed(h)}
    <2>1. /\ m_Memory' = Counted(
                 [id \in DOMAIN m_Memory |->
                     [m_Memory[id] EXCEPT !.host =
                         IF \E link \in Refreshed(h) : link[1] = id
                           THEN (CHOOSE link \in Refreshed(h) : link[1] = id)[2] ELSE @]],
                 front)
          /\ m_OnDesctruct' = m_OnDesctruct \cup refreshed
          /\ ReturnPromise(t, s, front, refreshed)
      BY <1>10, Zenon DEF TameVFS
    <2>2. /\ front \in DOMAIN m_Memory
          /\ DOMAIN m_Memory' = DOMAIN m_Memory
          /\ \A i \in DOMAIN m_Memory :
                 /\ m_Memory'[i] \in Infos
                 /\ m_Memory'[i].parent = m_Memory[i].parent
                 /\ m_Memory'[i].count = m_Memory[i].count + IF i = front THEN 1 ELSE 0
                 /\ \/ m_Memory'[i].host = m_Memory[i].host
                    \/ m_Memory'[i].host \in refreshed
          /\ refreshed \subseteq DOMAIN hosts
          /\ InfosOf(h)' # {} /\ InfosKept /\ WantedInv'
      <3> HIDE DEF h
      <3> QED
        BY <1>1, <1>3, <1>4, <1>10, <2>1, Rehosted
    <2> HIDE DEF front, refreshed
    <2>3. front \in Ids /\ refreshed \in SUBSET Hosts
      BY <1>1, <2>2, CountTypes DEF TypeOK
    <2>4. /\ twins' \subseteq Hosts /\ promises' \in [Ids -> Nat]
          /\ result' \in [Threads -> Ids \cup {0}]
          /\ pc' \in [Threads -> {"idle", "tame", "drop", "build", "restore", "stuck"}]
          /\ taming' \in [Threads -> Seq(Hosts)]
          /\ \A q \in Ids : Handles(q)' = Handles(q) + IF q = front THEN 1 ELSE 0
          /\ \A u \in Threads \ {t} : /\ pc'[u] = pc[u] /\ result'[u] = result[u]
                                      /\ taming'[u] = taming[u]
          /\ pc'[t] \notin {"restore", "stuck"} /\ ToSet(taming'[t]) \subseteq DOMAIN hosts
          /\ Taming(t)'
      BY <1>1, <1>2, <1>5, <2>1, <2>2, <2>3, Returned
    <2>5. CountInv'
      BY <1>1, <1>2, <2>2, <2>4, CountedOnce
    <2>6. /\ m_OnDesctruct' \subseteq DOMAIN hosts
          /\ \A i \in DOMAIN m_Memory : m_Memory'[i].host \in m_OnDesctruct' \cup {0}
      BY <1>1, <2>1, <2>2 DEF TypeOK, HostsInv
    <2> QED
      BY <2>2, <2>4, <2>5, <2>6
  <1>11. CASE InfosOf(h) = {} /\ ~Matches(h)
    <2> DEFINE p == hosts[h].parent
               stack == IF p = 0 THEN s ELSE Append(s, p)
               label == IF p = 0 THEN "build" ELSE "tame"
    <2>1. /\ taming' = [taming EXCEPT ![t] = stack] /\ pc' = [pc EXCEPT ![t] = label]
          /\ UNCHANGED <<m_Memory, m_OnDesctruct, promises, result, twins>>
      <3>1. /\ IF p = 0 THEN Goto(t, "build") /\ taming' = [taming EXCEPT ![t] = s]
               ELSE taming' = [taming EXCEPT ![t] = Append(s, p)] /\ Goto(t, "tame")
            /\ UNCHANGED <<m_Memory, m_OnDesctruct, promises, result, twins>>
        BY <1>11 DEF TameVFS
      <3> QED
        BY <3>1 DEF Goto
    <2>2. Stack(stack) /\ (p = 0 => Last(stack) = h)
      <3>1. CASE p = 0
        BY <3>1
      <3>2. CASE p # 0
        <4>1. p \in DOMAIN hosts /\ p \in Hosts
          BY <1>1, <1>4, <3>2, HostFacts
        <4>2. /\ stack \in Seq(Hosts) /\ stack # <<>>
              /\ ToSet(stack) \subseteq DOMAIN hosts
          <5>1. /\ Append(s, p) \in Seq(Hosts) /\ Append(s, p) # <<>>
                /\ ToSet(Append(s, p)) = ToSet(s) \cup {p}
            BY <1>4, <4>1, ToSetAppend
          <5> QED
            BY <1>4, <3>2, <4>1, <5>1
        <4>3. /\ Len(s) \in Nat \ {0} /\ Len(stack) = Len(s) + 1
              /\ stack[Len(s) + 1] = p /\ \A j \in 1..Len(s) : stack[j] = s[j]
          <5>1. Len(s) \in Nat \ {0}
            BY <1>4, LenProperties, EmptySeq
          <5>2. /\ Len(Append(s, p)) = Len(s) + 1
                /\ Append(s, p)[Len(s) + 1] = p /\ \A j \in 1..Len(s) : Append(s, p)[j] = s[j]
            <6> HIDE DEF p
            <6> QED
              BY <1>4, <4>1, AppendProperties
          <5> QED
            BY <3>2, <5>1, <5>2
        <4>4. ASSUME NEW j \in 1..Len(stack) - 1
              PROVE  hosts[stack[j]].parent = stack[j + 1]
          <5> HIDE DEF stack, p
          <5>1. j \in 1..Len(s)
            BY <4>3
          <5>2. CASE j = Len(s)
            <6>1. stack[j] = h /\ stack[j + 1] = p
              BY <4>3, <5>1, <5>2 DEF Last
            <6> QED
              BY <6>1 DEF p
          <5>3. CASE j # Len(s)
            <6>1. j \in 1..Len(s) - 1 /\ j + 1 \in 1..Len(s)
              BY <4>3, <5>1, <5>3
            <6> QED
              BY <4>3, <5>1, <6>1 DEF Stack
          <5> QED
            BY <5>2, <5>3
        <4> QED
          BY <3>2, <4>2, <4>4 DEF Stack
      <3> QED
        BY <3>1, <3>2
    <2>3. /\ taming' \in [Threads -> Seq(Hosts)] /\ taming'[t] = stack
          /\ pc' \in [Threads -> {"idle", "tame", "drop", "build", "restore", "stuck"}]
          /\ pc'[t] = label /\ result'[t] = 0
          /\ \A u \in Threads \ {t} : pc'[u] = pc[u] /\ taming'[u] = taming[u]
      <3>1. stack \in Seq(Hosts)
        BY <2>2 DEF Stack
      <3> HIDE DEF stack
      <3> QED
        BY <1>1, <1>5, <2>1, <3>1 DEF TypeOK
    <2>4. Taming(t)'
      <3>1. label = "build" => ParentKnown(Last(stack))
        BY <2>2 DEF ParentKnown
      <3>2. ParentKnown(Last(taming[t]))' <=> ParentKnown(Last(stack))
        <4> HIDE DEF stack
        <4> QED
          BY <1>2, <2>1, <2>3 DEF ParentKnown, InfosOf
      <3>3. label \in {"build", "tame"}
        OBVIOUS
      <3> HIDE DEF stack, label
      <3> QED
        BY <1>2, <2>2, <2>3, <3>1, <3>2, <3>3 DEF Taming, Stack
    <2>5. /\ CountInv' /\ WantedInv'
      BY <1>1, <1>2, <2>1, CountSame
    <2>6. InfosKept
      BY <2>1 DEF InfosKept
    <2>7. ToSet(taming'[t]) \subseteq DOMAIN hosts /\ pc'[t] \notin {"restore", "stuck"}
      <3>1. ToSet(stack) \subseteq DOMAIN hosts
        BY <2>2 DEF Stack
      <3> HIDE DEF stack
      <3> QED
        BY <2>3, <3>1
    <2> QED
      BY <1>1, <2>1, <2>3, <2>4, <2>5, <2>6, <2>7 DEF TypeOK, HostsInv
  <1> QED
    BY <1>9, <1>10, <1>11

\* The new info, and the count of its parent.
LEMMA BuiltInfos ==
  ASSUME TypeOK, NEW h \in DOMAIN hosts, m_MemoryNextID <= MaxInfos,
         m_Memory' = [id \in DOMAIN m_Memory \cup {m_MemoryNextID} |->
                         IF id = m_MemoryNextID
                           THEN [config |-> hosts[h].config, parent |-> Uplink(h),
                                 host |-> h, count |-> 1]
                           ELSE Linked(m_Memory, Uplink(h))[id]]
  PROVE  /\ m_MemoryNextID \in Ids /\ m_MemoryNextID \notin DOMAIN m_Memory
         /\ Uplink(h) \in DOMAIN m_Memory \cup {0}
         /\ Uplink(h) = 0 \/ m_Memory[Uplink(h)].host = hosts[h].parent
         /\ Uplink(h) = 0 <=> hosts[h].parent = 0 \/ InfosOf(hosts[h].parent) = {}
         /\ DOMAIN m_Memory' = DOMAIN m_Memory \cup {m_MemoryNextID}
         /\ m_Memory'[m_MemoryNextID] \in Infos
         /\ m_Memory'[m_MemoryNextID].config = hosts[h].config
         /\ m_Memory'[m_MemoryNextID].parent = Uplink(h)
         /\ m_Memory'[m_MemoryNextID].host = h
         /\ m_Memory'[m_MemoryNextID].count = 1
         /\ \A i \in DOMAIN m_Memory :
                /\ m_Memory'[i] \in Infos
                /\ m_Memory'[i].config = m_Memory[i].config
                /\ m_Memory'[i].parent = m_Memory[i].parent
                /\ m_Memory'[i].host = m_Memory[i].host
                /\ m_Memory'[i].count = m_Memory[i].count + IF i = Uplink(h) THEN 1 ELSE 0
         /\ \A i \in DOMAIN m_Memory : i < m_MemoryNextID
  <1> DEFINE n == m_MemoryNextID
             u == Uplink(h)
             new == [config |-> hosts[h].config, parent |-> u, host |-> h, count |-> 1]
             linked == Linked(m_Memory, u)
  <1>1. n \in Ids /\ n \in Nat /\ n \notin DOMAIN m_Memory /\ \A i \in DOMAIN m_Memory : i < n
    <2>1. n \in 1..MaxInfos + 1 /\ DOMAIN m_Memory \subseteq 1..n - 1
      BY DEF TypeOK
    <2>2. n \in 1..MaxInfos /\ n \in Nat /\ \A i \in 1..n - 1 : i < n /\ i # n
      BY <2>1, ConstantFacts
    <2> QED
      BY <2>1, <2>2, ConstantFacts
  <1>2. /\ u \in DOMAIN m_Memory \cup {0}
        /\ u = 0 \/ m_Memory[u].host = hosts[h].parent
        /\ u = 0 <=> hosts[h].parent = 0 \/ InfosOf(hosts[h].parent) = {}
    <2>1. CASE InfosOf(hosts[h].parent) = {} \/ hosts[h].parent = 0
      BY <2>1 DEF Uplink
    <2>2. CASE ~(InfosOf(hosts[h].parent) = {} \/ hosts[h].parent = 0)
      <3>1. /\ InfosOf(hosts[h].parent) \subseteq DOMAIN m_Memory
            /\ \A i \in InfosOf(hosts[h].parent) : m_Memory[i].host = hosts[h].parent
        BY DEF InfosOf
      <3>2. DOMAIN m_Memory \subseteq Ids /\ Ids \subseteq Nat
        BY CountTypes, ConstantFacts
      <3>3. Min(InfosOf(hosts[h].parent)) \in InfosOf(hosts[h].parent)
        BY <2>2, <3>1, <3>2, MinFacts
      <3> QED
        BY <2>2, <3>1, <3>2, <3>3, ConstantFacts DEF Uplink
    <2> QED
      BY <2>1, <2>2
  <1> HIDE DEF n, u
  <1>3. m_Memory' = [id \in DOMAIN m_Memory \cup {n} |-> IF id = n THEN new ELSE linked[id]]
    BY DEF n, u
  <1>4. new \in Infos /\ new.config = hosts[h].config /\ new.parent = u /\ new.host = h /\ new.count = 1
    <2>1. hosts[h].config \in Configs /\ h \in Hosts
      BY HostFacts
    <2>2. u \in Ids \cup {0}
      BY <1>2, CountTypes
    <2> QED
      BY <2>1, <2>2 DEF Infos
  <1> HIDE DEF new
  <1>5. ASSUME NEW i \in DOMAIN m_Memory
        PROVE  /\ linked[i] \in Infos
               /\ linked[i].config = m_Memory[i].config
               /\ linked[i].parent = m_Memory[i].parent
               /\ linked[i].host = m_Memory[i].host
               /\ linked[i].count = m_Memory[i].count + IF i = u THEN 1 ELSE 0
    <2> DEFINE r == m_Memory[i]
               k == r.count + 1
    <2>1. r \in Infos /\ r.count \in Nat /\ k \in Nat /\ i # 0
      <3>1. r \in Infos /\ i \in Ids
        BY CountTypes DEF TypeOK
      <3> QED
        BY <3>1, InfoFacts, ConstantFacts
    <2>2. CASE i = u
      <3>1. linked[i] = [r EXCEPT !.count = k]
        BY <2>1, <2>2 DEF Linked, Counted
      <3>2. /\ [r EXCEPT !.count = k] \in Infos
            /\ [r EXCEPT !.count = k].config = r.config
            /\ [r EXCEPT !.count = k].parent = r.parent
            /\ [r EXCEPT !.count = k].host = r.host
            /\ [r EXCEPT !.count = k].count = k
        <4> HIDE DEF r, k
        <4> QED
          BY <2>1, InfoFacts
      <3> QED
        BY <2>2, <3>1, <3>2
    <2>3. CASE i # u
      <3>1. linked[i] = r
        BY <2>3 DEF Linked, Counted
      <3> QED
        BY <2>1, <2>3, <3>1
    <2> QED
      BY <2>2, <2>3
  <1> HIDE DEF linked
  <1>6. /\ DOMAIN m_Memory' = DOMAIN m_Memory \cup {n} /\ m_Memory'[n] = new
        /\ \A i \in DOMAIN m_Memory : m_Memory'[i] = linked[i]
    BY <1>1, <1>3
  <1> QED
    BY <1>1, <1>2, <1>4, <1>5, <1>6 DEF n, u

LEMMA BuiltCounts ==
  ASSUME TypeOK, CountInv, NEW n \in Ids, n \notin DOMAIN m_Memory,
         NEW u \in DOMAIN m_Memory \cup {0},
         DOMAIN m_Memory' = DOMAIN m_Memory \cup {n},
         m_Memory'[n].parent = u, m_Memory'[n].count = 1,
         \A i \in DOMAIN m_Memory :
             /\ m_Memory'[i].parent = m_Memory[i].parent
             /\ m_Memory'[i].count = m_Memory[i].count + IF i = u THEN 1 ELSE 0,
         leaked' = leaked, decs' = decs,
         \A q \in Ids : Handles(q)' = Handles(q) + IF q = n THEN 1 ELSE 0
  PROVE  CountInv'
  <1>1. ASSUME NEW q \in Ids
        PROVE  References(q)' = IF q \in DOMAIN m_Memory' THEN m_Memory'[q].count ELSE 0
    <2> DEFINE C == {c \in DOMAIN m_Memory : m_Memory[c].parent = q}
               R == {c \in DOMAIN m_Memory' : m_Memory'[c].parent = q}
    <2>1. /\ Handles(q) \in Nat /\ Links(q) \in Nat /\ decs[q] \in Nat /\ leaked[q] \in Nat
          /\ IsFiniteSet(C) /\ Cardinality(C) \in Nat
      BY CountTypes
    <2>2. Links(q) = Cardinality(C) /\ Links(q)' = Cardinality(R)
      BY DEF Links
    <2>3. n \notin C /\ (q = u => R = C \cup {n}) /\ (q # u => R = C)
      OBVIOUS
    <2> HIDE DEF C, R
    <2>4. Links(q)' = Links(q) + IF q = u THEN 1 ELSE 0
      <3>1. Cardinality(C \cup {n}) = Cardinality(C) + 1
        BY <2>1, <2>3, FS_AddElement
      <3>2. CASE q = u
        <4>1. Cardinality(R) = Cardinality(C) + 1
          BY <2>3, <3>1, <3>2
        <4> QED
          BY <2>2, <3>2, <4>1
      <3>3. CASE q # u
        <4>1. Cardinality(R) = Cardinality(C)
          BY <2>3, <3>3
        <4> QED
          BY <2>1, <2>2, <3>3, <4>1
      <3> QED
        BY <3>2, <3>3
    <2>5. References(q)' = References(q) + (IF q = n THEN 1 ELSE 0) + (IF q = u THEN 1 ELSE 0)
      BY <2>1, <2>4 DEF References
    <2>6. References(q) = IF q \in DOMAIN m_Memory THEN m_Memory[q].count ELSE 0
      BY DEF CountInv
    <2>7. n # u /\ q # 0 /\ References(q) \in Nat
      <3>1. n # u /\ q # 0
        BY ConstantFacts
      <3> QED
        BY <2>1, <3>1 DEF References
    <2>8. CASE q = n
      BY <2>5, <2>6, <2>7, <2>8
    <2>9. CASE q # n /\ q \in DOMAIN m_Memory
      BY <2>5, <2>6, <2>7, <2>9
    <2>10. CASE q # n /\ q \notin DOMAIN m_Memory
      BY <2>5, <2>6, <2>7, <2>10
    <2> QED
      BY <2>8, <2>9, <2>10
  <1> QED
    BY <1>1 DEF CountInv

LEMMA BuildInfoStep ==
  ASSUME IInv, NEW t \in Threads, BuildInfo(t)
  PROVE  IInv'
  <1>0. PICK s : s = taming[t]
    OBVIOUS
  <1> DEFINE h == Last(s)
             n == m_MemoryNextID
             u == Uplink(h)
  <1>1. TypeOK /\ HostsInv /\ RestoringInv /\ TamingInv /\ CountInv /\ WantedInv
    BY DEF IInv
  <1>2. /\ pc[t] = "build" /\ Unlocked /\ n <= MaxInfos
        /\ m_Memory' = [id \in DOMAIN m_Memory \cup {n} |->
                           IF id = n
                             THEN [config |-> hosts[h].config, parent |-> u, host |-> h, count |-> 1]
                             ELSE Linked(m_Memory, u)[id]]
        /\ m_MemoryNextID' = n + 1
        /\ m_OnDesctruct' = m_OnDesctruct \cup {h}
        /\ ReturnPromise(t, s, n, {h})
        /\ UNCHANGED <<hosts, held, m_MemoryLock, decs, restoring, parent_host, leaked>>
    BY <1>0, Zenon DEF BuildInfo
  <1>3. s # <<>> /\ h \in DOMAIN hosts /\ h \in Hosts /\ h # 0 /\ result[t] = 0
    <2>1. s # <<>> /\ result[t] = 0
      BY <1>0, <1>1, <1>2 DEF TamingInv, Taming
    <2>2. h \in DOMAIN hosts
      BY <1>0, <1>1, <2>1, TamedHosts
    <2> QED
      BY <1>1, <2>1, <2>2, HostFacts, ConstantFacts
  <1>4. /\ n \in Ids /\ n \notin DOMAIN m_Memory
        /\ u \in DOMAIN m_Memory \cup {0}
        /\ DOMAIN m_Memory' = DOMAIN m_Memory \cup {n}
        /\ m_Memory'[n] \in Infos /\ m_Memory'[n].parent = u
        /\ m_Memory'[n].host = h /\ m_Memory'[n].count = 1
        /\ \A i \in DOMAIN m_Memory :
                /\ m_Memory'[i] \in Infos
                /\ m_Memory'[i].parent = m_Memory[i].parent
                /\ m_Memory'[i].host = m_Memory[i].host
                /\ m_Memory'[i].count = m_Memory[i].count + IF i = u THEN 1 ELSE 0
        /\ \A i \in DOMAIN m_Memory : i < n
    <2> HIDE DEF h
    <2> QED
      BY <1>1, <1>2, <1>3, BuiltInfos
  <1> HIDE DEF n, u
  <1>5. Stack(s)
    <2>1. s \in Seq(Hosts) /\ ToSet(s) \subseteq DOMAIN hosts
      BY <1>0, <1>1, TamedHosts
    <2> QED
      BY <1>0, <1>1, <1>3, <2>1 DEF Stack, TamingInv, Taming
  <1>6. InfosOf(h)' # {} /\ InfosKept
    <2>1. n \in DOMAIN m_Memory' /\ m_Memory'[n].host = h
      BY <1>4
    <2>2. InfosOf(h)' # {}
      BY <2>1 DEF InfosOf
    <2> QED
      BY <1>4, <2>2 DEF InfosKept
  <1>7. /\ twins' \subseteq Hosts /\ promises' \in [Ids -> Nat]
        /\ result' \in [Threads -> Ids \cup {0}]
        /\ pc' \in [Threads -> {"idle", "tame", "drop", "build", "restore", "stuck"}]
        /\ taming' \in [Threads -> Seq(Hosts)]
        /\ \A q \in Ids : Handles(q)' = Handles(q) + IF q = n THEN 1 ELSE 0
        /\ \A v \in Threads \ {t} : /\ pc'[v] = pc[v] /\ result'[v] = result[v]
                                    /\ taming'[v] = taming[v]
        /\ pc'[t] \notin {"restore", "stuck"} /\ ToSet(taming'[t]) \subseteq DOMAIN hosts
        /\ Taming(t)'
    <2>1. {h} \in SUBSET Hosts
      BY <1>3
    <2> QED
      BY <1>1, <1>2, <1>3, <1>4, <1>5, <1>6, <2>1, Returned
  <1>8. CountInv'
    <2>1. leaked' = leaked /\ decs' = decs
      BY <1>2
    <2>2. \A i \in DOMAIN m_Memory :
             /\ m_Memory'[i].parent = m_Memory[i].parent
             /\ m_Memory'[i].count = m_Memory[i].count + IF i = u THEN 1 ELSE 0
      BY <1>4
    <2> HIDE DEF h
    <2> QED
      BY <1>1, <1>4, <1>7, <2>1, <2>2, BuiltCounts
  <1>9. WantedInv'
    <2>1. \A i \in DOMAIN m_Memory : m_Memory[i].count \in Nat
      BY <1>1, InfoFacts DEF TypeOK
    <2> QED
      BY <1>1, <1>3, <1>4, <2>1 DEF WantedInv
  <1>10. TypeOK'
    <2>1. /\ m_MemoryNextID' \in 1..MaxInfos + 1
          /\ DOMAIN m_Memory' \subseteq 1..m_MemoryNextID' - 1
      <3>1. n \in 1..MaxInfos /\ MaxInfos \in Nat /\ DOMAIN m_Memory \subseteq 1..n - 1
        BY <1>1, <1>4, ConstantFacts DEF TypeOK, n
      <3>2. n + 1 \in 1..MaxInfos + 1 /\ 1..n - 1 \subseteq 1..n /\ n \in 1..n /\ n + 1 - 1 = n
        BY <3>1
      <3>3. DOMAIN m_Memory' \subseteq 1..n
        BY <1>4, <3>1, <3>2
      <3> QED
        BY <1>2, <3>2, <3>3
    <2>2. m_OnDesctruct' \subseteq DOMAIN hosts
      BY <1>1, <1>2, <1>3 DEF TypeOK
    <2>3. \A id \in DOMAIN m_Memory' : m_Memory'[id] \in Infos
      BY <1>4
    <2> QED
      BY <1>1, <1>2, <1>7, <2>1, <2>2, <2>3 DEF TypeOK, Infos
  <1>11. HostsInv'
    <2>1. \A v \in Threads : ToSet(taming'[v]) \subseteq DOMAIN hosts
      BY <1>1, <1>7 DEF HostsInv, Range, ToSet
    <2>2. ASSUME NEW i \in DOMAIN m_Memory'
          PROVE  m_Memory'[i].host \in m_OnDesctruct' \cup {0} /\ m_Memory'[i].parent < i
      <3>1. CASE i = n
        <4>1. u < n
          <5>1. n \in Nat \ {0}
            BY <1>4, ConstantFacts
          <5>2. 0 < n
            BY <5>1
          <5> QED
            BY <1>4, <5>2
        <4> QED
          BY <1>2, <1>4, <3>1, <4>1
      <3>2. CASE i # n
        BY <1>1, <1>2, <1>4, <3>2 DEF HostsInv
      <3> QED
        BY <3>1, <3>2
    <2> QED
      BY <1>1, <1>2, <2>1, <2>2 DEF HostsInv, Range, ToSet
  <1>12. RestoringInv'
    <2>1. \A v \in Threads : pc'[v] \notin {"restore", "stuck"}
      BY <1>1, <1>2, <1>7, UnlockedMeans
    <2> QED
      BY <1>1, <1>2, <2>1, UnlockedKept DEF RestoringInv
  <1>13. TamingInv'
    <2>1. HostsKept
      BY <1>2 DEF HostsKept
    <2>2. \A v \in Threads \ {t} : Taming(v)'
      BY <1>1, <1>6, <1>7, <2>1, TamingKept DEF TamingInv
    <2> QED
      BY <1>7, <2>2 DEF TamingInv
  <1> QED
    BY <1>8, <1>9, <1>10, <1>11, <1>12, <1>13 DEF IInv

-----------------------------------------------------------------------------
(* Hosts are spawned for infos.                                            *)

\* A step that leaves the infos and what is tamed alone.
LEMMA MemorySame ==
  ASSUME IInv, UNCHANGED <<m_OnDesctruct, memory, promises, decs, taming, result, leaked>>,
         HostsKept, \A t \in Threads : pc'[t] = pc[t] \/ {pc[t], pc'[t]} \subseteq {"idle", "restore", "stuck"}
  PROVE  TamingInv' /\ CountInv' /\ WantedInv'
  <1>1. TypeOK /\ HostsInv /\ TamingInv /\ CountInv /\ WantedInv /\ m_Memory' = m_Memory
    BY DEF IInv, memory
  <1>2. InfosKept
    BY <1>1 DEF InfosKept
  <1>3. ASSUME NEW t \in Threads
        PROVE  Taming(t)'
    <2>1. CASE pc'[t] = pc[t]
      BY <1>1, <1>2, <2>1, TamingKept DEF TamingInv
    <2>2. CASE {pc[t], pc'[t]} \subseteq {"idle", "restore", "stuck"}
      <3>1. taming[t] = <<>> /\ result[t] = 0
        BY <1>1, <2>2 DEF TamingInv, Taming
      <3>2. Len(taming'[t]) = 0
        BY <3>1
      <3> QED
        BY <2>2, <3>1, <3>2 DEF Taming
    <2> QED
      BY <2>1, <2>2
  <1>4. CountInv' /\ WantedInv'
    BY <1>1, CountSame
  <1> QED
    BY <1>3, <1>4 DEF TamingInv

LEMMA RetrieveVFSStep ==
  ASSUME IInv, NEW t \in Threads, NEW id \in Ids, RetrieveVFS(t, id)
  PROVE  IInv'
  <1>1. TypeOK /\ HostsInv /\ RestoringInv /\ TamingInv /\ CountInv /\ WantedInv
    BY DEF IInv
  <1>2. PICK chain : chain = Unrestored(id)
    OBVIOUS
  <1>3. PICK live : live = IF Last(chain) = 0 THEN 0 ELSE m_Memory[Last(chain)].host
    OBVIOUS
  <1>4. /\ pc[t] = "idle" /\ Unlocked
        /\ id \in DOMAIN m_Memory
        /\ IF Len(chain) = 1
             THEN held' = held \cup {live} /\ UNCHANGED <<m_MemoryLock, pc, restoring, parent_host>>
             ELSE /\ m_MemoryLock' = t
                  /\ restoring' = [restoring EXCEPT ![t] = Front(chain)]
                  /\ parent_host' = [parent_host EXCEPT ![t] = live]
                  /\ pc' = [pc EXCEPT ![t] = "restore"]
                  /\ UNCHANGED held
        /\ UNCHANGED <<hosts, m_OnDesctruct, memory, promises, decs, taming, result, leaked, twins>>
    BY <1>2, <1>3, Zenon DEF RetrieveVFS, Goto
  <1>5. /\ chain \in Seq(DOMAIN m_Memory \cup {0}) /\ chain # <<>> /\ IsInjective(chain)
        /\ \/ Last(chain) = 0
           \/ Last(chain) \in DOMAIN m_Memory /\ ~Expired(m_Memory[Last(chain)])
        /\ \A i \in ToSet(Front(chain)) : i \in DOMAIN m_Memory /\ Expired(m_Memory[i])
        /\ Len(chain) = 1 => Last(chain) = id
    BY <1>1, <1>2, <1>4, UplinkFacts, UnrestoredFacts
  <1>6. /\ live \in DOMAIN hosts \cup {0} /\ live \in Hosts \cup {0}
        /\ live # 0 => Alive(live)
        /\ Last(chain) # 0 => live # 0
    <2>1. CASE Last(chain) = 0
      BY <1>3, <2>1
    <2>2. CASE Last(chain) # 0
      <3>1. Last(chain) \in DOMAIN m_Memory /\ live = m_Memory[Last(chain)].host /\ live # 0 /\ Alive(live)
        BY <1>3, <1>5, <2>2 DEF Expired
      <3>2. live \in DOMAIN hosts /\ live \in Hosts
        BY <1>1, <3>1 DEF HostsInv, TypeOK
      <3> QED
        BY <3>1, <3>2
    <2> QED
      BY <2>1, <2>2
  <1>7. HostsKept /\ hosts' = hosts /\ taming' = taming /\ m_Memory' = m_Memory
    BY <1>4 DEF HostsKept, memory
  <1>8. CASE Len(chain) = 1
    <2>1. held' = held \cup {live} /\ UNCHANGED <<m_MemoryLock, pc, restoring, parent_host>>
      BY <1>4, <1>8
    <2>2. live \in DOMAIN hosts /\ Alive(live)
      <3>1. Last(chain) # 0
        BY <1>1, <1>4, <1>5, <1>8, CountTypes, ConstantFacts
      <3> QED
        BY <1>6, <3>1, ConstantFacts
    <2>3. StaysDead
      BY <1>7, <2>1, <2>2, AliveMeans DEF StaysDead
    <2>4. UNCHANGED <<m_OnDesctruct, memory, m_MemoryLock, promises, decs, threads, leaked>>
      BY <1>4, <2>1 DEF threads
    <2>5. /\ RestoringInv' /\ TamingInv' /\ CountInv' /\ WantedInv'
          /\ \A i \in DOMAIN m_Memory' : /\ m_Memory'[i].host \in m_OnDesctruct' \cup {0}
                                          /\ m_Memory'[i].parent < i
      BY <1>7, <2>3, <2>4, HostsOnly
    <2>6. TypeOK'
      BY <1>1, <1>4, <2>1, <2>2 DEF TypeOK, memory, Infos
    <2>7. HostsInv'
      BY <1>1, <1>7, <2>1, <2>5 DEF HostsInv
    <2> QED
      BY <2>5, <2>6, <2>7 DEF IInv
  <1>9. CASE Len(chain) # 1
    <2> DEFINE r == Front(chain)
    <2>1. /\ m_MemoryLock' = t
          /\ restoring' = [restoring EXCEPT ![t] = r]
          /\ parent_host' = [parent_host EXCEPT ![t] = live]
          /\ pc' = [pc EXCEPT ![t] = "restore"]
          /\ UNCHANGED held
      BY <1>4, <1>9
    <2>2. /\ r \in Seq(Ids) /\ r # <<>> /\ IsInjective(r)
          /\ \A i \in ToSet(r) : i \in DOMAIN m_Memory /\ Expired(m_Memory[i])
      <3> DEFINE P == DOMAIN m_Memory \cup {0}
      <3>1. Len(chain) \in Nat \ {0} /\ Len(chain) - 1 \in 0..Len(chain)
        <4>1. chain \in Seq(P) /\ chain # <<>>
          BY <1>5
        <4>2. Len(chain) \in Nat \ {0}
          <5> HIDE DEF P
          <5> QED
            BY <4>1, LenProperties, EmptySeq
        <4> QED
          BY <4>2
      <3>2. /\ r \in Seq(P) /\ Len(r) = Len(chain) - 1 /\ IsInjective(r)
        <4>1. r = SubSeq(chain, 1, Len(chain) - 1)
          BY DEF Front
        <4>2. chain \in Seq(P) /\ IsInjective(chain)
          BY <1>5
        <4>3. \A k \in 0..Len(chain) :
                  /\ SubSeq(chain, 1, k) \in Seq(P) /\ Len(SubSeq(chain, 1, k)) = k
                  /\ IsInjective(SubSeq(chain, 1, k))
          <5> HIDE DEF P, r
          <5> QED
            BY <4>2, ToSetSplit
        <4> HIDE DEF P, r
        <4> QED
          BY <3>1, <4>1, <4>3
      <3>3. r # <<>>
        BY <1>9, <3>1, <3>2, EmptySeq
      <3>4. \A i \in ToSet(r) : i \in DOMAIN m_Memory /\ Expired(m_Memory[i])
        BY <1>5
      <3>5. r \in Seq(Ids)
        <4>1. \A j \in 1..Len(r) : r[j] \in ToSet(r)
          <5> HIDE DEF r
          <5> QED
            BY <3>2 DEF ToSet
        <4>2. \A j \in 1..Len(r) : r[j] \in Ids
          BY <1>1, <3>4, <4>1, CountTypes
        <4>3. r = [j \in 1..Len(r) |-> r[j]] /\ Len(r) \in Nat
          <5> HIDE DEF r
          <5> QED
            BY <3>2
        <4> HIDE DEF r
        <4> QED
          BY <4>2, <4>3
      <3> QED
        BY <3>2, <3>3, <3>4, <3>5
    <2> HIDE DEF r
    <2>3. /\ pc' \in [Threads -> {"idle", "tame", "drop", "build", "restore", "stuck"}]
          /\ pc'[t] = "restore" /\ \A u \in Threads \ {t} : pc'[u] = pc[u]
          /\ restoring' \in [Threads -> Seq(Ids)] /\ restoring'[t] = r
          /\ \A u \in Threads \ {t} : restoring'[u] = restoring[u]
          /\ parent_host' \in [Threads -> Hosts \cup {0}] /\ parent_host'[t] = live
          /\ \A u \in Threads \ {t} : parent_host'[u] = parent_host[u]
      BY <1>1, <1>6, <2>1, <2>2 DEF TypeOK
    <2>4. StaysDead
      <3>1. ASSUME NEW h \in DOMAIN hosts, Alive(h)'
            PROVE  Alive(h)
        <4>1. h # 0
          BY <1>1, HostFacts, ConstantFacts
        <4>2. \A u \in Threads : parent_host'[u] = h => parent_host[u] = h \/ h = live
          BY <2>3
        <4>3. h = live => Alive(h)
          BY <1>6, <4>1
        <4> QED
          BY <1>7, <2>1, <3>1, <4>2, <4>3, AliveMeans
      <3> QED
        BY <3>1 DEF StaysDead
    <2>5. TypeOK'
      BY <1>1, <1>4, <2>1, <2>3 DEF TypeOK, memory, Infos
    <2>6. HostsInv'
      BY <1>1, <1>4, <1>6, <1>7, <2>3 DEF HostsInv
    <2>7. RestoringInv'
      <3>1. Restoring(t)'
        <4>1. ASSUME NEW i \in ToSet(r)
              PROVE  i \in DOMAIN m_Memory' /\ Expired(m_Memory[i])'
          <5>1. i \in DOMAIN m_Memory /\ Expired(m_Memory[i])
            BY <2>2
          <5>2. m_Memory[i].host # 0 => m_Memory[i].host \in DOMAIN hosts
            BY <1>1, <5>1 DEF HostsInv, TypeOK
          <5> QED
            BY <1>7, <2>4, <5>1, <5>2 DEF Expired, StaysDead
        <4> QED
          BY <2>1, <2>2, <2>3, <4>1 DEF Restoring
      <3>2. ASSUME NEW u \in Threads \ {t}
            PROVE  Restoring(u)'
        <4>1. pc[u] \notin {"restore", "stuck"} /\ restoring[u] = <<>>
          BY <1>1, <1>4, UnlockedMeans
        <4>2. pc'[u] = pc[u] /\ restoring'[u] = restoring[u] /\ m_MemoryLock' # u /\ m_MemoryLock # u
          BY <1>4, <2>1, <2>3, ConfigsAssumption DEF Unlocked
        <4> QED
          BY <1>1, <1>7, <2>4, <4>2, RestoringKept DEF RestoringInv
      <3> QED
        BY <3>1, <3>2 DEF RestoringInv
    <2>8. TamingInv' /\ CountInv' /\ WantedInv'
      <3>1. \A u \in Threads : pc'[u] = pc[u] \/ {pc[u], pc'[u]} \subseteq {"idle", "restore", "stuck"}
        BY <1>4, <2>3
      <3> QED
        BY <1>4, <1>7, <3>1, MemorySame
    <2> QED
      BY <2>5, <2>6, <2>7, <2>8 DEF IInv
  <1> QED
    BY <1>8, <1>9

LEMMA SpawnStep ==
  ASSUME IInv, NEW t \in Threads, Spawn(t)
  PROVE  IInv'
  <1>1. TypeOK /\ HostsInv /\ RestoringInv /\ TamingInv /\ CountInv /\ WantedInv
    BY DEF IInv
  <1>2. PICK s : s = restoring[t]
    OBVIOUS
  <1>3. PICK id : id = Last(s)
    OBVIOUS
  <1>4. PICK new : new = Min(Unused)
    OBVIOUS
  <1>5. /\ pc[t] = "restore" /\ Unused # {}
        /\ hosts' = Made(m_Memory[id].config, parent_host[t])
        /\ m_Memory' = [m_Memory EXCEPT ![id].host = new]
        /\ m_OnDesctruct' = m_OnDesctruct \cup {new}
        /\ restoring' = [restoring EXCEPT ![t] = Front(s)]
        /\ parent_host' = [parent_host EXCEPT ![t] = IF Len(s) = 1 THEN 0 ELSE new]
        /\ held' = IF Len(s) = 1 THEN held \cup {new} ELSE held
        /\ m_MemoryLock' = IF Len(s) = 1 THEN None ELSE t
        /\ pc' = [pc EXCEPT ![t] = IF Len(s) = 1 THEN "idle" ELSE "restore"]
        /\ UNCHANGED <<m_MemoryNextID, promises, decs, taming, result, leaked, twins>>
    <2>1. restoring' = [restoring EXCEPT ![t] = Front(restoring[t])]
      BY DEF Spawn
    <2> QED
      BY <1>2, <1>3, <1>4, <2>1, Zenon DEF Spawn, Goto
  <1>6. /\ s \in Seq(Ids) /\ s # <<>> /\ IsInjective(s) /\ m_MemoryLock = t
        /\ \A i \in ToSet(s) : i \in DOMAIN m_Memory /\ Expired(m_Memory[i])
    BY <1>1, <1>2, <1>5 DEF TypeOK, RestoringInv, Restoring
  <1>7. /\ Front(s) \in Seq(Ids) /\ Len(Front(s)) = Len(s) - 1 /\ IsInjective(Front(s))
        /\ ToSet(Front(s)) \subseteq ToSet(s) /\ id \in ToSet(s) /\ id \notin ToSet(Front(s))
        /\ Front(s) = <<>> <=> Len(s) = 1
    <2>1. Len(s) \in Nat \ {0}
      BY <1>6, LenProperties, EmptySeq
    <2>2. Len(s) - 1 \in 0..Len(s) /\ Len(s) - 1 + 1 = Len(s) /\ Len(s) \in 1..Len(s)
      BY <2>1
    <2>3. /\ IsInjective(Front(s))
          /\ ToSet(Front(s)) \cap ToSet(SubSeq(s, Len(s), Len(s))) = {}
      BY <1>6, <2>2, ToSetSplit DEF Front
    <2>4. SubSeq(s, Len(s), Len(s)) = <<id>> /\ id \in Ids
      BY <1>3, <1>6, <2>2, SubSeqOne, ToSetLast DEF Last
    <2>5. ToSet(<<id>>) = {id}
      BY <2>4, ToSetOne
    <2>6. /\ id \in ToSet(s) /\ Front(s) \in Seq(Ids)
          /\ Len(Front(s)) = Len(s) - 1 /\ ToSet(s) = ToSet(Front(s)) \cup {id}
      BY <1>3, <1>6, ToSetLast
    <2>7. Front(s) = <<>> <=> Len(Front(s)) = 0
      BY <2>6, EmptySeq
    <2> QED
      BY <2>1, <2>3, <2>4, <2>5, <2>6, <2>7
  <1>8. id \in DOMAIN m_Memory /\ Expired(m_Memory[id]) /\ m_Memory[id] \in Infos
    BY <1>1, <1>6, <1>7 DEF TypeOK
  <1>9. parent_host[t] \in DOMAIN hosts \cup {0}
    BY <1>1 DEF HostsInv
  <1>10. /\ new \in Hosts /\ new \notin DOMAIN hosts /\ new # 0
         /\ DOMAIN hosts' = DOMAIN hosts \cup {new}
         /\ hosts'[new].parent = parent_host[t]
         /\ \A h \in DOMAIN hosts : hosts'[h] = hosts[h]
         /\ DOMAIN hosts' \subseteq Hosts
         /\ \A h \in DOMAIN hosts' : hosts'[h] \in [config: Configs, parent: DOMAIN hosts' \cup {0}]
         /\ HostsKept
    <2>1. m_Memory[id].config \in Configs
      BY <1>8, InfoFacts
    <2> QED
      BY <1>1, <1>4, <1>5, <1>9, <2>1, MadeFacts, ConstantFacts
  <1>11. /\ DOMAIN m_Memory' = DOMAIN m_Memory
         /\ m_Memory'[id] \in Infos /\ m_Memory'[id].host = new
         /\ m_Memory'[id].parent = m_Memory[id].parent
         /\ m_Memory'[id].count = m_Memory[id].count
         /\ \A i \in DOMAIN m_Memory \ {id} : m_Memory'[i] = m_Memory[i]
    <2>1. m_Memory'[id] = [m_Memory[id] EXCEPT !.host = new]
      BY <1>5, <1>8
    <2>2. \A i \in DOMAIN m_Memory \ {id} : m_Memory'[i] = m_Memory[i]
      BY <1>5
    <2>3. DOMAIN m_Memory' = DOMAIN m_Memory
      BY <1>5
    <2> QED
      BY <1>8, <1>10, <2>1, <2>2, <2>3, InfoFacts
  <1>12. /\ pc' \in [Threads -> {"idle", "tame", "drop", "build", "restore", "stuck"}]
         /\ pc'[t] = IF Len(s) = 1 THEN "idle" ELSE "restore"
         /\ \A u \in Threads \ {t} : pc'[u] = pc[u]
         /\ restoring' \in [Threads -> Seq(Ids)] /\ restoring'[t] = Front(s)
         /\ \A u \in Threads \ {t} : restoring'[u] = restoring[u]
         /\ parent_host' \in [Threads -> Hosts \cup {0}]
         /\ parent_host'[t] \in {0, new}
         /\ \A u \in Threads \ {t} : parent_host'[u] = parent_host[u]
    BY <1>1, <1>5, <1>7, <1>10 DEF TypeOK
  <1>13. StaysDead
    <2>1. ASSUME NEW h \in DOMAIN hosts, Alive(h)'
          PROVE  Alive(h)
      <3>1. h # 0 /\ h # new
        BY <1>1, <1>10, HostFacts, ConstantFacts
      <3>2. \/ h \in held'
            \/ \E c \in DOMAIN hosts' : hosts'[c].parent = h
            \/ \E u \in Threads : h \in ToSet(taming'[u]) \/ parent_host'[u] = h
        BY <2>1, AliveMeans
      <3>3. CASE h \in held'
        <4>1. h \in held
          BY <1>5, <3>1, <3>3
        <4> QED
          BY <4>1, AliveMeans
      <3>4. ASSUME NEW c \in DOMAIN hosts', hosts'[c].parent = h
            PROVE  Alive(h)
        <4>1. CASE c = new
          <5>1. parent_host[t] = h
            BY <1>10, <3>4, <4>1
          <5> QED
            BY <5>1, AliveMeans
        <4>2. CASE c # new
          <5>1. c \in DOMAIN hosts /\ hosts[c].parent = h
            BY <1>10, <3>4, <4>2
          <5> QED
            BY <5>1, AliveMeans
        <4> QED
          BY <4>1, <4>2
      <3>5. ASSUME NEW u \in Threads, h \in ToSet(taming'[u]) \/ parent_host'[u] = h
            PROVE  Alive(h)
        <4>1. h \in ToSet(taming[u]) \/ parent_host[u] = h
          BY <1>5, <1>12, <3>1, <3>5
        <4> QED
          BY <4>1, AliveMeans
      <3> QED
        BY <3>2, <3>3, <3>4, <3>5
    <2> QED
      BY <2>1 DEF StaysDead
  <1>14. InfosKept
    BY <1>8, <1>11 DEF InfosKept
  <1>15. TypeOK'
    <2>1. held' \subseteq DOMAIN hosts' /\ m_OnDesctruct' \subseteq DOMAIN hosts'
      BY <1>1, <1>5, <1>10 DEF TypeOK
    <2>2. \A i \in DOMAIN m_Memory' : m_Memory'[i] \in Infos
      BY <1>1, <1>11 DEF TypeOK
    <2>3. DOMAIN m_Memory' \subseteq 1..m_MemoryNextID' - 1
      BY <1>1, <1>5, <1>11 DEF TypeOK
    <2>4. m_MemoryLock' \in Threads \cup {None}
      BY <1>5
    <2> QED
      BY <1>1, <1>5, <1>10, <1>12, <2>1, <2>2, <2>3, <2>4 DEF TypeOK, Infos
  <1>16. HostsInv'
    <2>1. \A u \in Threads : Range(taming'[u]) \subseteq DOMAIN hosts'
      BY <1>1, <1>5, <1>10 DEF HostsInv
    <2>2. \A u \in Threads : parent_host'[u] \in DOMAIN hosts' \cup {0}
      BY <1>1, <1>10, <1>12 DEF HostsInv
    <2>3. \A i \in DOMAIN m_Memory' : /\ m_Memory'[i].host \in m_OnDesctruct' \cup {0}
                                      /\ m_Memory'[i].parent < i
      BY <1>1, <1>5, <1>11 DEF HostsInv
    <2> QED
      BY <2>1, <2>2, <2>3 DEF HostsInv
  <1>17. RestoringInv'
    <2>1. Restoring(t)'
      <3>1. ASSUME NEW i \in ToSet(Front(s))
            PROVE  i \in DOMAIN m_Memory' /\ Expired(m_Memory[i])'
        <4>1. i \in DOMAIN m_Memory /\ Expired(m_Memory[i]) /\ i # id
          BY <1>6, <1>7
        <4>2. m_Memory'[i] = m_Memory[i] /\ i \in DOMAIN m_Memory'
          BY <1>11, <4>1
        <4>3. m_Memory[i].host # 0 => m_Memory[i].host \in DOMAIN hosts
          BY <1>1, <4>1 DEF HostsInv, TypeOK
        <4> QED
          BY <1>13, <4>1, <4>2, <4>3 DEF Expired, StaysDead
      <3>2. m_MemoryLock' = t <=> pc'[t] \in {"restore", "stuck"}
        BY <1>5, <1>12, ConfigsAssumption
      <3>3. pc'[t] = "restore" <=> restoring'[t] # <<>>
        BY <1>7, <1>12
      <3> QED
        BY <1>7, <1>12, <3>1, <3>2, <3>3 DEF Restoring
    <2>2. ASSUME NEW u \in Threads \ {t}
          PROVE  Restoring(u)'
      <3>1. m_MemoryLock # u /\ m_MemoryLock' # u
        BY <1>5, <1>6, ConfigsAssumption
      <3>2. pc[u] \notin {"restore", "stuck"} /\ restoring[u] = <<>> /\ IsInjective(restoring[u])
        BY <1>1, <3>1 DEF RestoringInv, Restoring
      <3>3. restoring'[u] = <<>> /\ pc'[u] = pc[u]
        BY <1>12, <3>2
      <3>4. ToSet(restoring'[u]) = {}
        BY <3>3 DEF ToSet
      <3> QED
        BY <3>1, <3>2, <3>3, <3>4 DEF Restoring
    <2> QED
      BY <2>1, <2>2 DEF RestoringInv
  <1>18. TamingInv'
    <2>1. ASSUME NEW u \in Threads \ {t}
          PROVE  Taming(u)'
      BY <1>1, <1>5, <1>10, <1>12, <1>14, TamingKept DEF TamingInv
    <2>2. Taming(t)'
      <3>1. taming[t] = <<>> /\ result[t] = 0
        BY <1>1, <1>5 DEF TamingInv, Taming
      <3>2. taming'[t] = <<>> /\ result'[t] = 0 /\ Len(taming'[t]) = 0
        BY <1>5, <3>1
      <3>3. pc'[t] \in {"idle", "restore"}
        BY <1>12
      <3> QED
        BY <3>2, <3>3 DEF Taming
    <2> QED
      BY <2>1, <2>2 DEF TamingInv
  <1>19. CountInv' /\ WantedInv'
    <2>1. \A i : Links(i)' = Links(i)
      BY <1>11, LinksSame
    <2>2. \A i \in Ids : Handles(i)' = Handles(i) /\ decs'[i] = decs[i] /\ leaked'[i] = leaked[i]
      BY <1>5 DEF Handles
    <2>3. \A i \in Ids : References(i)' = References(i)
      BY <2>1, <2>2 DEF References
    <2>4. \A i \in DOMAIN m_Memory : m_Memory'[i].count = m_Memory[i].count
      BY <1>11
    <2>5. CountInv'
      BY <1>1, <1>11, <2>3, <2>4 DEF CountInv
    <2>6. WantedInv'
      BY <1>1, <1>10, <1>11 DEF WantedInv
    <2> QED
      BY <2>5, <2>6
  <1> QED
    BY <1>15, <1>16, <1>17, <1>18, <1>19 DEF IInv

LEMMA SpawnFailsStep ==
  ASSUME IInv, NEW t \in Threads, SpawnFails(t)
  PROVE  IInv'
  <1>1. TypeOK /\ HostsInv /\ RestoringInv /\ TamingInv /\ CountInv /\ WantedInv
    BY DEF IInv
  <1>2. PICK last \in BOOLEAN : last = (parent_host[t] # 0 /\ ~AliveWithout(parent_host[t], t))
    OBVIOUS
  <1>3. /\ pc[t] = "restore"
        /\ restoring' = [restoring EXCEPT ![t] = <<>>]
        /\ parent_host' = [parent_host EXCEPT ![t] = 0]
        /\ m_MemoryLock' = IF last THEN t ELSE None
        /\ pc' = [pc EXCEPT ![t] = IF last THEN "stuck" ELSE "idle"]
        /\ UNCHANGED <<hosts, held, m_OnDesctruct, memory, promises, decs, taming, result,
                       leaked, twins>>
    BY <1>2, Zenon DEF SpawnFails, Goto
  <1>4. m_MemoryLock = t
    BY <1>1, <1>3 DEF RestoringInv, Restoring
  <1>5. /\ pc' \in [Threads -> {"idle", "tame", "drop", "build", "restore", "stuck"}]
        /\ pc'[t] = IF last THEN "stuck" ELSE "idle"
        /\ \A u \in Threads \ {t} : pc'[u] = pc[u]
        /\ restoring' \in [Threads -> Seq(Ids)] /\ restoring'[t] = <<>>
        /\ \A u \in Threads \ {t} : restoring'[u] = restoring[u]
        /\ parent_host' \in [Threads -> Hosts \cup {0}] /\ parent_host'[t] = 0
        /\ \A u \in Threads \ {t} : parent_host'[u] = parent_host[u]
    BY <1>1, <1>3 DEF TypeOK
  <1>6. HostsKept
    BY <1>3 DEF HostsKept
  <1>7. TypeOK'
    <2>1. m_MemoryLock' \in Threads \cup {None}
      BY <1>3
    <2> QED
      BY <1>1, <1>3, <1>5, <2>1 DEF TypeOK, memory, Infos
  <1>8. HostsInv'
    BY <1>1, <1>3, <1>5 DEF HostsInv, memory
  <1>9. RestoringInv'
    <2>1. ASSUME NEW u \in Threads
          PROVE  Restoring(u)'
      <3>1. m_MemoryLock' = u <=> pc'[u] \in {"restore", "stuck"}
        <4>1. CASE u = t
          BY <1>3, <1>5, <4>1, ConfigsAssumption
        <4>2. CASE u # t
          <5>1. m_MemoryLock # u /\ m_MemoryLock' # u
            BY <1>3, <1>4, <4>2, ConfigsAssumption
          <5>2. pc[u] \notin {"restore", "stuck"}
            BY <1>1, <5>1 DEF RestoringInv, Restoring
          <5> QED
            BY <1>5, <4>2, <5>1, <5>2
        <4> QED
          BY <4>1, <4>2
      <3>2. restoring'[u] = <<>> /\ pc'[u] # "restore"
        <4>1. CASE u = t
          BY <1>5, <4>1
        <4>2. CASE u # t
          <5>1. m_MemoryLock # u
            BY <1>4, <4>2
          <5>2. pc[u] # "restore" /\ restoring[u] = <<>>
            BY <1>1, <5>1 DEF RestoringInv, Restoring
          <5> QED
            BY <1>5, <4>2, <5>2
        <4> QED
          BY <4>1, <4>2
      <3>3. ToSet(restoring'[u]) = {} /\ IsInjective(restoring'[u])
        BY <3>2 DEF ToSet, IsInjective
      <3> QED
        BY <3>1, <3>2, <3>3 DEF Restoring
    <2> QED
      BY <2>1 DEF RestoringInv
  <1>10. TamingInv' /\ CountInv' /\ WantedInv'
    <2>1. \A u \in Threads : pc'[u] = pc[u] \/ {pc[u], pc'[u]} \subseteq {"idle", "restore", "stuck"}
      BY <1>3, <1>5
    <2> QED
      BY <1>3, <1>6, <2>1, MemorySame
  <1> QED
    BY <1>7, <1>8, <1>9, <1>10 DEF IInv

LEMMA CallTameVFSStep ==
  ASSUME IInv, NEW t \in Threads, NEW h \in held, CallTameVFS(t, h)
  PROVE  IInv'
  <1>1. pc[t] = "idle" /\ TameVFS(t, <<h>>)
    BY DEF CallTameVFS
  <1>2. h \in DOMAIN hosts /\ h \in Hosts
    BY DEF IInv, TypeOK
  <1>3. <<h>> \in Seq(Hosts) /\ Len(<<h>>) = 1 /\ ToSet(<<h>>) = {h}
    BY <1>2, ToSetOne
  <1>4. Stack(<<h>>)
    BY <1>2, <1>3 DEF Stack
  <1> QED
    BY <1>1, <1>4, TameVFSStep

LEMMA TameParentStep ==
  ASSUME IInv, NEW t \in Threads, TameParent(t)
  PROVE  IInv'
  <1>1. PICK s : s = taming[t]
    OBVIOUS
  <1>2. pc[t] = "tame" /\ TameVFS(t, s)
    BY <1>1 DEF TameParent
  <1>3. TypeOK /\ HostsInv /\ Taming(t)
    BY DEF IInv, TamingInv
  <1>4. s \in Seq(Hosts) /\ ToSet(s) \subseteq DOMAIN hosts
    BY <1>1, <1>3, TamedHosts
  <1>5. s # <<>> /\ \A j \in 1..Len(s) - 1 : hosts[s[j]].parent = s[j + 1]
    BY <1>1, <1>2, <1>3 DEF Taming
  <1>6. Stack(s)
    BY <1>4, <1>5 DEF Stack
  <1> QED
    BY <1>1, <1>2, <1>6, TameVFSStep

-----------------------------------------------------------------------------
(* The inductive invariant.                                                *)

LEMMA InitIInv == Init => IInv
  <1> SUFFICES ASSUME Init PROVE IInv
    OBVIOUS
  <1>1. DOMAIN hosts = {} /\ DOMAIN m_Memory = {}
    BY DEF Init
  <1>2. TypeOK
    BY <1>1, ConstantFacts DEF Init, TypeOK
  <1>3. HostsInv
    BY <1>1 DEF Init, HostsInv, Range
  <1>4. RestoringInv
    BY ConfigsAssumption DEF Init, RestoringInv, Restoring, ToSet, IsInjective
  <1>5. TamingInv
    BY DEF Init, TamingInv, Taming
  <1>6. CountInv
    <2>1. ASSUME NEW id \in Ids
          PROVE  References(id) = 0
      <3>1. {t \in Threads : result[t] = id} = {} /\ {c \in DOMAIN m_Memory : m_Memory[c].parent = id} = {}
        BY <1>1, ConstantFacts DEF Init
      <3>2. Cardinality({}) = 0
        BY FS_EmptySet
      <3>3. promises[id] = 0 /\ decs[id] = 0 /\ leaked[id] = 0
        BY DEF Init
      <3>4. Handles(id) = 0 /\ Links(id) = 0
        BY <3>1, <3>2, <3>3 DEF Handles, Links
      <3> QED
        BY <3>3, <3>4 DEF References
    <2> QED
      BY <1>1, <2>1 DEF CountInv
  <1>7. WantedInv
    BY <1>1 DEF WantedInv
  <1> QED
    BY <1>2, <1>3, <1>4, <1>5, <1>6, <1>7 DEF IInv

LEMMA StutteringStep ==
  ASSUME IInv, UNCHANGED vars
  PROVE  IInv'
  <1>1. TypeOK /\ HostsInv
    BY DEF IInv
  <1>2. /\ hosts' = hosts /\ held' = held /\ twins' = twins
        /\ UNCHANGED <<m_OnDesctruct, memory, m_MemoryLock, promises, decs, threads, leaked>>
    BY DEF vars
  <1>3. HostsKept
    BY <1>2 DEF HostsKept
  <1>4. StaysDead
    BY <1>2, AliveMeans DEF StaysDead, threads
  <1>5. /\ RestoringInv' /\ TamingInv' /\ CountInv' /\ WantedInv'
        /\ \A id \in DOMAIN m_Memory' : /\ m_Memory'[id].host \in m_OnDesctruct' \cup {0}
                                         /\ m_Memory'[id].parent < id
    BY <1>2, <1>3, <1>4, HostsOnly
  <1>6. TypeOK'
    BY <1>1, <1>2 DEF TypeOK, memory, threads, Infos
  <1>7. HostsInv'
    BY <1>1, <1>2, <1>5 DEF HostsInv, threads
  <1> QED
    BY <1>5, <1>6, <1>7 DEF IInv

LEMMA NextStep == IInv /\ [Next]_vars => IInv'
  <1> SUFFICES ASSUME IInv, [Next]_vars PROVE IInv'
    OBVIOUS
  <1>1. ASSUME NEW t \in Threads, Step(t)
        PROVE  IInv'
    BY <1>1, TameParentStep, DropResultStep, BuildInfoStep, SpawnStep, SpawnFailsStep DEF Step
  <1>2. CASE Call
    <2>1. ASSUME NEW t \in Threads, NEW h \in held, CallTameVFS(t, h)
          PROVE  IInv'
      BY <2>1, CallTameVFSStep
    <2>2. ASSUME NEW t \in Threads, NEW id \in Ids, RetrieveVFS(t, id)
          PROVE  IInv'
      BY <2>2, RetrieveVFSStep
    <2>3. ASSUME NEW config \in Configs, NEW parent \in held \cup {0}, Open(config, parent)
          PROVE  IInv'
      BY <2>3, OpenStep
    <2>4. ASSUME NEW h \in held, Close(h)
          PROVE  IInv'
      BY <2>4, CloseStep
    <2>5. ASSUME NEW id \in Ids, GivePromise(id) \/ DropPromise(id)
          PROVE  IInv'
      BY <2>5, GivePromiseStep, DropPromiseStep
    <2> QED
      BY <1>2, <2>1, <2>2, <2>3, <2>4, <2>5 DEF Call
  <1>3. ASSUME NEW h \in DOMAIN hosts, Destroy(h)
        PROVE  IInv'
    BY <1>3, DestroyStep
  <1>4. ASSUME NEW id \in Ids, DecInBackground(id)
        PROVE  IInv'
    BY <1>4, DecInBackgroundStep
  <1>5. CASE UNCHANGED vars
    BY <1>5, StutteringStep
  <1> QED
    BY <1>1, <1>2, <1>3, <1>4, <1>5 DEF Next

\* The invariant: what is referred to exists and is counted, whoever holds the lock is the
\* one that spawns, and the calls of TameVFS() know the parents they have tamed.
THEOREM Invariant == Spec => []IInv
  <1>1. Init => IInv
    BY InitIInv
  <1>2. IInv /\ [Next]_vars => IInv'
    BY NextStep
  <1> QED
    BY <1>1, <1>2, PTL DEF Spec

-----------------------------------------------------------------------------
(* The properties.                                                         *)

\* Types: infos refer to infos and hosts within their bounds, and hosts to hosts that have
\* not been destroyed.
THEOREM TypeCorrect == Spec => []TypeOK
  <1>1. IInv => TypeOK
    BY DEF IInv
  <1> QED
    BY <1>1, Invariant, PTL

\* No promise, copied or just asked for, loses its info to SweepDeadMemory() or to
\* DecPromiseCount(), neither does an uplink, and TameVFS() finds the info of the parent
\* after the first lock was released: the "logic error" of line 112 does not happen.
THEOREM PromisesKeptHolds == Spec => []PromisesKept
  <1>1. IInv => PromisesKept
    <2> SUFFICES ASSUME IInv PROVE PromisesKept
      OBVIOUS
    <2>1. TypeOK /\ CountInv /\ TamingInv
      BY DEF IInv
    <2>2. /\ \A id \in Ids : promises[id] > 0 => id \in DOMAIN m_Memory
          /\ \A t \in Threads : result[t] # 0 => result[t] \in DOMAIN m_Memory
          /\ \A id \in DOMAIN m_Memory : m_Memory[id].parent \in DOMAIN m_Memory \cup {0}
      BY <2>1, ReferredTo
    <2>3. ASSUME NEW t \in Threads, pc[t] = "build"
          PROVE  LET p == hosts[Last(taming[t])].parent IN p # 0 => InfosOf(p) # {}
      <3>1. ParentKnown(Last(taming[t]))
        BY <2>1, <2>3 DEF TamingInv, Taming
      <3> QED
        BY <3>1 DEF ParentKnown
    <2> QED
      BY <2>2, <2>3 DEF PromisesKept
  <1> QED
    BY <1>1, Invariant, PTL

\* m_PromisesCount is the number of promises, links from children, and calls of
\* DecPromiseCount() under way, but for the links that SweepDeadMemory() does not give back.
THEOREM CountsExplainedHolds == Spec => []CountsExplained
  <1>1. IInv => CountsExplained
    <2> SUFFICES ASSUME IInv, NEW id \in DOMAIN m_Memory
                 PROVE  m_Memory[id].count = Handles(id) + Links(id) + decs[id] + leaked[id]
      BY DEF CountsExplained
    <2>1. TypeOK /\ CountInv
      BY DEF IInv
    <2>2. id \in Ids
      BY <2>1, CountTypes
    <2> QED
      BY <2>1, <2>2 DEF CountInv, References
  <1> QED
    BY <1>1, Invariant, PTL

\* SweepDeadMemory() and DecPromiseCount() between them erase every info that nobody can
\* come back for, whichever of the host and the last promise goes first.
THEOREM NothingKeptInVainHolds == Spec => []NothingKeptInVain
  <1>1. IInv => NothingKeptInVain
    <2> SUFFICES ASSUME IInv,
                        \A i \in Ids : decs[i] = 0,
                        \A h \in DOMAIN hosts : Alive(h),
                        NEW id \in DOMAIN m_Memory, Expired(m_Memory[id])
                 PROVE  Handles(id) + Links(id) + leaked[id] > 0
      BY DEF NothingKeptInVain
    <2>1. TypeOK /\ HostsInv /\ CountInv /\ WantedInv
      BY DEF IInv
    <2>2. id \in Ids /\ m_Memory[id] \in Infos
      BY <2>1, CountTypes DEF TypeOK
    <2>3. m_Memory[id].host = 0
      <3>1. m_Memory[id].host # 0 => m_Memory[id].host \in DOMAIN hosts
        BY <2>1 DEF HostsInv, TypeOK
      <3> QED
        BY <3>1 DEF Expired
    <2>4. m_Memory[id].count > 0 /\ m_Memory[id].count \in Nat
      BY <2>1, <2>2, <2>3, InfoFacts DEF WantedInv
    <2>5. m_Memory[id].count = Handles(id) + Links(id) + decs[id] + leaked[id]
      BY <2>1, <2>2 DEF CountInv, References
    <2>6. Handles(id) \in Nat /\ Links(id) \in Nat /\ leaked[id] \in Nat /\ decs[id] = 0
      BY <2>1, <2>2, CountTypes
    <2> QED
      BY <2>4, <2>5, <2>6
  <1> QED
    BY <1>1, Invariant, PTL

-----------------------------------------------------------------------------
(* What promises mean.  Numbers of hosts are used again, so a rank takes   *)
(* the place of the numbers where hosts are compared with their parents.   *)

\* A host has a higher rank than its parent.
Ranked(rank, bound) ==
    /\ rank \in [DOMAIN hosts \cup {0} -> 0..bound]
    /\ \A h \in DOMAIN hosts : rank[hosts[h].parent] < rank[h]

\* No host is in itself.
AncestryInv == \E bound \in Nat : \E rank : Ranked(rank, bound)

\* Pairs of infos and hosts with the same configurations, together with their parents.
Matched(links) ==
    /\ links \subseteq (DOMAIN m_Memory) \X (DOMAIN hosts)
    /\ \A link \in links :
           /\ m_Memory[link[1]].config = hosts[link[2]].config
           /\ \/ m_Memory[link[1]].parent = 0 /\ hosts[link[2]].parent = 0
              \/ <<m_Memory[link[1]].parent, hosts[link[2]].parent>> \in links

\* The info describes the host and those it is in.
Describes(id, h) == \E links : Matched(links) /\ <<id, h>> \in links

\* An info describes its host.
MeaningInv == \A id \in DOMAIN m_Memory : m_Memory[id].host # 0 => Describes(id, m_Memory[id].host)

\* A thread that spawns hosts goes down a chain of infos; the info above the next one
\* describes the host that the next one is spawned in.
Descending(t) ==
    LET s == restoring[t]
    IN  pc[t] = "restore" =>
            /\ \A j \in 1..Len(s) - 1 : m_Memory[s[j]].parent = s[j + 1]
            /\ \/ m_Memory[Last(s)].parent = 0 /\ parent_host[t] = 0
               \/ /\ m_Memory[Last(s)].parent # 0 /\ parent_host[t] # 0
                  /\ Describes(m_Memory[Last(s)].parent, parent_host[t])

DescendingInv == \A t \in Threads : Descending(t)

\* Thread t has found that the host in this place of its stack has no info.
Missed(t, j) == j < Len(taming[t]) \/ pc[t] \in {"drop", "build"}

\* A host that a thread has found to have no info got one since: it may get two.
Overtaken(t) ==
    \A j \in 1..Len(taming[t]) :
        Missed(t, j) /\ InfosOf(taming[t][j]) # {} => taming[t][j] \in twins

OvertakenInv == \A t \in Threads : Overtaken(t)

PromiseInv ==
    /\ IInv
    /\ AncestryInv
    /\ MeaningInv
    /\ DescendingInv
    /\ OvertakenInv
    /\ OneInfoPerHost

\* The hosts that stay are as they were.
HostsAsBefore == \A h \in DOMAIN hosts \cap DOMAIN hosts' : hosts'[h] = hosts[h]

\* The infos that stay have the configurations and parents they had.
InfosAsBefore ==
    \A id \in DOMAIN m_Memory \cap DOMAIN m_Memory' :
        /\ m_Memory'[id].config = m_Memory[id].config
        /\ m_Memory'[id].parent = m_Memory[id].parent

\* What follows from the inductive invariant, before and after a step.
Sound ==
    /\ TypeOK /\ HostsInv /\ RestoringInv /\ TamingInv /\ UplinksKept
    /\ \A h \in DOMAIN hosts : h \in Hosts /\ h # 0 /\ hosts[h].parent \in DOMAIN hosts \cup {0}
    /\ \A id \in DOMAIN m_Memory : /\ id \in Nat /\ id # 0
                                   /\ m_Memory[id].host \in DOMAIN hosts \cup {0}
                                   /\ m_Memory[id].parent \in DOMAIN m_Memory \cup {0}
                                   /\ m_Memory[id].parent < id

LEMMA IInvFacts == IInv => Sound
  <1> SUFFICES ASSUME IInv PROVE Sound
    OBVIOUS
  <1>1. TypeOK /\ HostsInv /\ RestoringInv /\ TamingInv /\ CountInv
    BY DEF IInv
  <1>2. UplinksKept
    BY <1>1, UplinkFacts
  <1>3. \A h \in DOMAIN hosts : h \in Hosts /\ h # 0 /\ hosts[h].parent \in DOMAIN hosts \cup {0}
    BY <1>1, HostFacts, ConstantFacts
  <1>4. ASSUME NEW id \in DOMAIN m_Memory
        PROVE  /\ id \in Nat /\ id # 0
               /\ m_Memory[id].host \in DOMAIN hosts \cup {0}
    <2>1. id \in Nat /\ id # 0
      BY <1>2, ConstantFacts DEF UplinksKept
    <2>2. m_OnDesctruct \subseteq DOMAIN hosts
      BY <1>1 DEF TypeOK
    <2>3. m_Memory[id].host \in m_OnDesctruct \cup {0}
      BY <1>1 DEF HostsInv
    <2> QED
      BY <2>1, <2>2, <2>3
  <1>5. \A id \in DOMAIN m_Memory : /\ m_Memory[id].parent \in DOMAIN m_Memory \cup {0}
                                    /\ m_Memory[id].parent < id
    BY <1>2 DEF UplinksKept
  <1> QED
    BY <1>1, <1>2, <1>3, <1>4, <1>5 DEF Sound

LEMMA IInvFactsAfter == IInv' => Sound'
  BY IInvFacts, PTL

\* What an info describes does not change.
LEMMA DescribesKept ==
  ASSUME IInv, IInv', HostsAsBefore, InfosAsBefore,
         NEW i, NEW k, Describes(i, k), i \in DOMAIN m_Memory', k \in DOMAIN hosts'
  PROVE  Describes(i, k)'
  <1>1. PICK links : Matched(links) /\ <<i, k>> \in links
    BY DEF Describes
  <1> DEFINE kept == {link \in links : link[1] \in DOMAIN m_Memory' /\ link[2] \in DOMAIN hosts'}
  <1>2. links \subseteq (DOMAIN m_Memory) \X (DOMAIN hosts)
    BY <1>1 DEF Matched
  <1>3. <<i, k>> \in kept
    BY <1>1
  <1>4. kept \subseteq (DOMAIN m_Memory') \X (DOMAIN hosts')
    BY <1>2
  <1>5. ASSUME NEW link \in kept
        PROVE  /\ m_Memory'[link[1]].config = hosts'[link[2]].config
               /\ \/ m_Memory'[link[1]].parent = 0 /\ hosts'[link[2]].parent = 0
                  \/ <<m_Memory'[link[1]].parent, hosts'[link[2]].parent>> \in kept
    <2>1. /\ link[1] \in DOMAIN m_Memory \cap DOMAIN m_Memory'
          /\ link[2] \in DOMAIN hosts \cap DOMAIN hosts'
          /\ link \in links
      BY <1>2
    <2>2. /\ m_Memory'[link[1]].config = m_Memory[link[1]].config
          /\ m_Memory'[link[1]].parent = m_Memory[link[1]].parent
          /\ hosts'[link[2]] = hosts[link[2]]
      BY <2>1 DEF HostsAsBefore, InfosAsBefore
    <2>3. /\ m_Memory[link[1]].config = hosts[link[2]].config
          /\ \/ m_Memory[link[1]].parent = 0 /\ hosts[link[2]].parent = 0
             \/ <<m_Memory[link[1]].parent, hosts[link[2]].parent>> \in links
      BY <1>1, <2>1 DEF Matched
    <2>4. CASE m_Memory[link[1]].parent = 0 /\ hosts[link[2]].parent = 0
      BY <2>2, <2>3, <2>4
    <2>5. CASE <<m_Memory[link[1]].parent, hosts[link[2]].parent>> \in links
      <3>1. m_Memory[link[1]].parent \in DOMAIN m_Memory /\ hosts[link[2]].parent \in DOMAIN hosts
        BY <1>2, <2>5
      <3>2. m_Memory[link[1]].parent # 0 /\ hosts[link[2]].parent # 0
        BY <3>1, IInvFacts, IInvFactsAfter DEF Sound
      <3>3. m_Memory'[link[1]].parent \in DOMAIN m_Memory' \cup {0}
        BY <2>1, IInvFacts, IInvFactsAfter DEF Sound
      <3>4. hosts'[link[2]].parent \in DOMAIN hosts' \cup {0}
        BY <2>1, IInvFacts, IInvFactsAfter DEF Sound
      <3> QED
        BY <2>2, <2>3, <2>5, <3>2, <3>3, <3>4
    <2> QED
      BY <2>3, <2>4, <2>5
  <1>6. PICK c : c = kept
    OBVIOUS
  <1> HIDE DEF kept
  <1>7. Matched(c)'
    BY <1>4, <1>5, <1>6 DEF Matched
  <1> QED
    BY <1>3, <1>6, <1>7 DEF Describes

\* An info describes a host with its configuration, if its parent describes the host's.
LEMMA DescribesOne ==
  \A i \in DOMAIN m_Memory : \A h \in DOMAIN hosts :
      /\ m_Memory[i].config = hosts[h].config
      /\ \/ m_Memory[i].parent = 0 /\ hosts[h].parent = 0
         \/ Describes(m_Memory[i].parent, hosts[h].parent)
      => Describes(i, h)
  <1> SUFFICES ASSUME NEW i \in DOMAIN m_Memory, NEW h \in DOMAIN hosts,
                      m_Memory[i].config = hosts[h].config,
                      \/ m_Memory[i].parent = 0 /\ hosts[h].parent = 0
                      \/ Describes(m_Memory[i].parent, hosts[h].parent)
               PROVE  Describes(i, h)
    OBVIOUS
  <1> DEFINE up == m_Memory[i].parent
             p == hosts[h].parent
  <1>1. \E links : Matched(links) /\ ((up = 0 /\ p = 0) \/ <<up, p>> \in links)
    <2>1. CASE up = 0 /\ p = 0
      <3>1. Matched({})
        BY DEF Matched
      <3> QED
        BY <2>1, <3>1
    <2>2. CASE Describes(up, p)
      BY <2>2 DEF Describes
    <2> QED
      BY <2>1, <2>2
  <1>2. PICK links : Matched(links) /\ ((up = 0 /\ p = 0) \/ <<up, p>> \in links)
    BY <1>1
  <1> DEFINE all == links \cup {<<i, h>>}
  <1>3. all \subseteq (DOMAIN m_Memory) \X (DOMAIN hosts)
    BY <1>2 DEF Matched
  <1>4. ASSUME NEW link \in all
        PROVE  /\ m_Memory[link[1]].config = hosts[link[2]].config
               /\ \/ m_Memory[link[1]].parent = 0 /\ hosts[link[2]].parent = 0
                  \/ <<m_Memory[link[1]].parent, hosts[link[2]].parent>> \in all
    <2>1. CASE link \in links
      BY <1>2, <2>1 DEF Matched
    <2>2. CASE link = <<i, h>>
      <3>1. link[1] = i /\ link[2] = h
        BY <2>2
      <3> QED
        BY <1>2, <3>1
    <2> QED
      BY <2>1, <2>2
  <1>5. Matched(all) /\ <<i, h>> \in all
    BY <1>3, <1>4 DEF Matched
  <1> QED
    BY <1>5 DEF Describes

LEMMA DescribesOneAfter ==
  (\A i \in DOMAIN m_Memory : \A h \in DOMAIN hosts :
      /\ m_Memory[i].config = hosts[h].config
      /\ \/ m_Memory[i].parent = 0 /\ hosts[h].parent = 0
         \/ Describes(m_Memory[i].parent, hosts[h].parent)
      => Describes(i, h))'
  BY DescribesOne, PTL

\* A step that makes no info and gives no info another host.
LEMMA PromisesAsBefore ==
  ASSUME PromiseInv, IInv', HostsAsBefore, InfosAsBefore,
         \A id \in DOMAIN m_Memory' :
             /\ id \in DOMAIN m_Memory
             /\ m_Memory'[id].host \in {m_Memory[id].host, 0},
         \A t \in Threads :
             /\ pc'[t] = "restore" => /\ pc[t] = "restore" /\ restoring'[t] = restoring[t]
                                      /\ parent_host'[t] = parent_host[t]
             /\ taming'[t] = taming[t]
             /\ pc'[t] \in {"drop", "build"} => pc[t] \in {"drop", "build"},
         \A h \in twins : h \in twins' \/ h \notin DOMAIN hosts'
  PROVE  MeaningInv' /\ DescendingInv' /\ OvertakenInv' /\ OneInfoPerHost'
  <1>1. IInv /\ MeaningInv /\ DescendingInv /\ OvertakenInv /\ OneInfoPerHost
    BY DEF PromiseInv
  <1>2. MeaningInv'
    <2>1. ASSUME NEW id, id \in DOMAIN m_Memory', m_Memory'[id].host # 0
          PROVE  Describes(id, m_Memory[id].host)'
      <3>1. id \in DOMAIN m_Memory /\ m_Memory'[id].host = m_Memory[id].host
        BY <2>1
      <3>2. m_Memory'[id].host \in DOMAIN hosts'
        BY <2>1, IInvFacts, IInvFactsAfter DEF Sound
      <3>3. Describes(id, m_Memory[id].host)
        BY <1>1, <2>1, <3>1 DEF MeaningInv
      <3> DEFINE k == m_Memory[id].host
      <3>4. k \in DOMAIN hosts' /\ Describes(id, k)
        BY <3>1, <3>2, <3>3
      <3>5. PICK c : c = k
        OBVIOUS
      <3>6. Describes(id, c)'
        BY <1>1, <2>1, <3>4, <3>5, DescribesKept
      <3> QED
        BY <3>1, <3>5, <3>6 DEF Describes
    <2> QED
      BY <2>1 DEF MeaningInv
  <1>3. DescendingInv'
    <2> SUFFICES ASSUME NEW t \in Threads, pc'[t] = "restore" PROVE Descending(t)'
      BY DEF DescendingInv, Descending
    <2>1. PICK s : s = restoring[t]
      OBVIOUS
    <2>2. PICK p : p = parent_host[t]
      OBVIOUS
    <2>3. /\ pc[t] = "restore" /\ restoring'[t] = s /\ parent_host'[t] = p
          /\ s # <<>> /\ s \in Seq(Ids)
      BY <1>1, <2>1, <2>2, IInvFacts, IInvFactsAfter DEF Sound, RestoringInv, Restoring, TypeOK
    <2>4. /\ \A j \in 1..Len(s) - 1 : m_Memory[s[j]].parent = s[j + 1]
          /\ \/ m_Memory[Last(s)].parent = 0 /\ p = 0
             \/ /\ m_Memory[Last(s)].parent # 0 /\ p # 0
                /\ Describes(m_Memory[Last(s)].parent, p)
      BY <1>1, <2>1, <2>2, <2>3 DEF DescendingInv, Descending
    <2>5. \A i \in ToSet(s) : i \in DOMAIN m_Memory /\ i \in DOMAIN m_Memory'
      BY <1>1, <2>1, <2>3, IInvFacts, IInvFactsAfter DEF Sound, RestoringInv, Restoring
    <2>6. \A i \in ToSet(s) : m_Memory'[i].parent = m_Memory[i].parent
      BY <2>5 DEF InfosAsBefore
    <2>7. Last(s) \in ToSet(s) /\ \A j \in 1..Len(s) - 1 : s[j] \in ToSet(s)
      <3>1. Last(s) \in ToSet(s) /\ Len(s) \in Nat /\ DOMAIN s = 1..Len(s)
        BY <2>3, ToSetLast, LenProperties
      <3> QED
        BY <3>1 DEF ToSet
    <2>8. PICK up : up = m_Memory[Last(s)].parent
      OBVIOUS
    <2>9. up = m_Memory'[Last(s)].parent
      BY <2>6, <2>7, <2>8
    <2>10. ASSUME up # 0, p # 0
           PROVE  Describes(up, p)'
      <3>1. up \in DOMAIN m_Memory'
        BY <2>5, <2>7, <2>9, <2>10, IInvFacts, IInvFactsAfter DEF Sound
      <3>2. p \in DOMAIN hosts' \cup {0}
        BY <2>3, IInvFacts, IInvFactsAfter DEF Sound, HostsInv
      <3>3. Describes(up, p)
        BY <2>4, <2>8, <2>10
      <3> QED
        BY <1>1, <2>10, <3>1, <3>2, <3>3, DescribesKept
    <2>11. \A j \in 1..Len(s) - 1 : m_Memory'[s[j]].parent = s[j + 1]
      BY <2>4, <2>6, <2>7
    <2>12. \/ m_Memory'[Last(s)].parent = 0 /\ p = 0
           \/ m_Memory'[Last(s)].parent # 0 /\ p # 0 /\ Describes(up, p)'
      BY <2>4, <2>8, <2>9, <2>10
    <2>13. Describes(m_Memory[Last(s)].parent, p)' <=> Describes(up, p)'
      BY <2>9 DEF Describes
    <2> QED
      BY <2>3, <2>11, <2>12, <2>9 DEF Descending, Describes
  <1>4. ASSUME NEW h, h # 0, InfosOf(h)' # {}
        PROVE  InfosOf(h) # {} /\ h \in DOMAIN hosts'
    <2>1. PICK id \in DOMAIN m_Memory' : m_Memory'[id].host = h
      BY <1>4 DEF InfosOf
    <2>2. id \in DOMAIN m_Memory /\ m_Memory[id].host = h
      BY <1>4, <2>1
    <2>3. h \in DOMAIN hosts'
      BY <1>4, <2>1, IInvFacts, IInvFactsAfter DEF Sound
    <2> QED
      BY <2>2, <2>3 DEF InfosOf
  <1>5. OvertakenInv'
    <2> SUFFICES ASSUME NEW t \in Threads, NEW j, j \in 1..Len(taming'[t]),
                        Missed(t, j)', InfosOf(taming[t][j])' # {}
                 PROVE  taming'[t][j] \in twins'
      BY DEF OvertakenInv, Overtaken
    <2>1. taming'[t] = taming[t] /\ j \in 1..Len(taming[t])
      OBVIOUS
    <2>2. Missed(t, j)
      BY <2>1 DEF Missed
    <2>3. taming[t][j] \in DOMAIN hosts /\ taming[t][j] # 0
      BY <1>1, <2>1, IInvFacts, TamedHosts DEF Sound
    <2>4. PICK h : h = taming[t][j]
      OBVIOUS
    <2>5. InfosOf(h)' # {}
      BY <2>1, <2>4 DEF InfosOf
    <2>6. InfosOf(h) # {} /\ h \in DOMAIN hosts'
      BY <1>4, <2>3, <2>4, <2>5
    <2>7. h \in twins
      BY <1>1, <2>1, <2>2, <2>4, <2>6 DEF OvertakenInv, Overtaken
    <2> QED
      BY <2>1, <2>4, <2>6, <2>7
  <1>6. OneInfoPerHost'
    <2> SUFFICES ASSUME NEW i, i \in DOMAIN m_Memory', NEW j, j \in DOMAIN m_Memory', i # j,
                        m_Memory'[i].host = m_Memory'[j].host, m_Memory'[i].host # 0
                 PROVE  m_Memory'[i].host \in twins'
      BY DEF OneInfoPerHost
    <2>1. /\ i \in DOMAIN m_Memory /\ j \in DOMAIN m_Memory
          /\ m_Memory'[i].host = m_Memory[i].host /\ m_Memory'[j].host = m_Memory[j].host
      OBVIOUS
    <2>2. m_Memory[i].host \in twins
      BY <1>1, <2>1 DEF OneInfoPerHost
    <2>3. m_Memory'[i].host \in DOMAIN hosts'
      BY IInvFacts, IInvFactsAfter DEF Sound
    <2> QED
      BY <2>1, <2>2, <2>3
  <1> QED
    BY <1>2, <1>3, <1>5, <1>6

-----------------------------------------------------------------------------
(* Ranks.                                                                  *)

LEMMA AncestryKept ==
  ASSUME IInv, IInv', AncestryInv, HostsAsBefore, DOMAIN hosts' \subseteq DOMAIN hosts
  PROVE  AncestryInv'
  <1>0. PICK bound \in Nat : \E rank : Ranked(rank, bound)
    BY DEF AncestryInv
  <1>1. PICK rank : Ranked(rank, bound)
    BY <1>0
  <1>2. PICK r : r = [h \in DOMAIN hosts' \cup {0} |-> rank[h]]
    OBVIOUS
  <1>3. r \in [DOMAIN hosts' \cup {0} -> 0..bound]
    BY <1>1, <1>2 DEF Ranked
  <1>4. ASSUME NEW h, h \in DOMAIN hosts'
        PROVE  r[hosts'[h].parent] < r[h]
    <2>1. h \in DOMAIN hosts /\ hosts'[h] = hosts[h] /\ hosts'[h].parent \in DOMAIN hosts' \cup {0}
      BY <1>4, IInvFactsAfter DEF HostsAsBefore, Sound
    <2>2. rank[hosts[h].parent] < rank[h]
      BY <1>1, <2>1 DEF Ranked
    <2> QED
      BY <1>2, <1>4, <2>1, <2>2
  <1>5. Ranked(r, bound)'
    BY <1>3, <1>4 DEF Ranked
  <1> QED
    BY <1>5 DEF AncestryInv

LEMMA AncestryMade ==
  ASSUME IInv, IInv', AncestryInv, HostsAsBefore,
         NEW new, new \notin DOMAIN hosts, new # 0, DOMAIN hosts' = DOMAIN hosts \cup {new},
         hosts'[new].parent \in DOMAIN hosts \cup {0}
  PROVE  AncestryInv'
  <1>0. PICK bound \in Nat : \E rank : Ranked(rank, bound)
    BY DEF AncestryInv
  <1>1. PICK rank : Ranked(rank, bound)
    BY <1>0
  <1>2. PICK r : r = [h \in DOMAIN hosts' \cup {0} |-> IF h = new THEN bound + 1 ELSE rank[h]]
    OBVIOUS
  <1>3. r \in [DOMAIN hosts' \cup {0} -> 0..bound + 1]
    <2>1. \A h \in DOMAIN hosts \cup {0} : rank[h] \in 0..bound /\ rank[h] \in 0..bound + 1
      BY <1>1 DEF Ranked
    <2>2. bound + 1 \in 0..bound + 1
      OBVIOUS
    <2> QED
      BY <1>2, <2>1, <2>2
  <1>4. ASSUME NEW h, h \in DOMAIN hosts'
        PROVE  r[hosts'[h].parent] < r[h]
    <2>1. \A k \in DOMAIN hosts \cup {0} : /\ k \in DOMAIN hosts' \cup {0} /\ k # new
                                           /\ r[k] = rank[k] /\ rank[k] \in 0..bound
      BY <1>1, <1>2, IInvFacts DEF Ranked, Sound
    <2>2. CASE h = new
      <3>1. r[h] = bound + 1
        BY <1>2, <1>4, <2>2
      <3>2. r[hosts'[h].parent] \in 0..bound
        BY <2>1, <2>2
      <3> QED
        BY <3>1, <3>2
    <2>3. CASE h # new
      <3>1. h \in DOMAIN hosts /\ hosts'[h] = hosts[h] /\ hosts[h].parent \in DOMAIN hosts \cup {0}
        BY <1>4, <2>3, IInvFacts DEF HostsAsBefore, Sound
      <3>2. rank[hosts[h].parent] < rank[h]
        BY <1>1, <3>1 DEF Ranked
      <3> QED
        BY <2>1, <3>1, <3>2
    <2> QED
      BY <2>2, <2>3
  <1>5. Ranked(r, bound + 1)'
    BY <1>3, <1>4 DEF Ranked
  <1>6. bound + 1 \in Nat
    OBVIOUS
  <1> QED
    BY <1>5, <1>6 DEF AncestryInv

-----------------------------------------------------------------------------
(* Steps that make no info and give none another host.                     *)

\* Nothing but the references to hosts and the counts change.
LEMMA QuietStep ==
  ASSUME PromiseInv, IInv', hosts' = hosts, InfosAsBefore,
         \A id \in DOMAIN m_Memory' :
             /\ id \in DOMAIN m_Memory
             /\ m_Memory'[id].host \in {m_Memory[id].host, 0},
         \A t \in Threads :
             /\ pc'[t] = "restore" => /\ pc[t] = "restore" /\ restoring'[t] = restoring[t]
                                      /\ parent_host'[t] = parent_host[t]
             /\ taming'[t] = taming[t]
             /\ pc'[t] \in {"drop", "build"} => pc[t] \in {"drop", "build"},
         twins' = twins
  PROVE  PromiseInv'
  <1>1. HostsAsBefore
    BY DEF HostsAsBefore
  <1>2. AncestryInv'
    BY <1>1, AncestryKept DEF PromiseInv
  <1>3. MeaningInv' /\ DescendingInv' /\ OvertakenInv' /\ OneInfoPerHost'
    BY <1>1, PromisesAsBefore
  <1> QED
    BY <1>2, <1>3 DEF PromiseInv

LEMMA CountedAsBefore ==
  ASSUME IInv, NEW id, m_Memory' = Counted(m_Memory, id)
  PROVE  /\ InfosAsBefore
         /\ \A i \in DOMAIN m_Memory' : i \in DOMAIN m_Memory /\ m_Memory'[i].host = m_Memory[i].host
  <1>1. DOMAIN m_Memory' = DOMAIN m_Memory
    BY DEF Counted
  <1>2. ASSUME NEW i \in DOMAIN m_Memory
        PROVE  /\ m_Memory'[i].config = m_Memory[i].config
               /\ m_Memory'[i].parent = m_Memory[i].parent
               /\ m_Memory'[i].host = m_Memory[i].host
    <2>1. m_Memory[i] \in Infos
      BY IInvFacts DEF Sound, TypeOK
    <2>2. CASE i = id
      <3>1. m_Memory'[i] = [m_Memory[i] EXCEPT !.count = m_Memory[i].count + 1]
        BY <2>2 DEF Counted
      <3>2. m_Memory[i].count + 1 \in Nat
        BY <2>1, InfoFacts
      <3> QED
        BY <2>1, <3>1, <3>2, InfoFacts
    <2>3. CASE i # id
      BY <2>3 DEF Counted
    <2> QED
      BY <2>2, <2>3
  <1> QED
    BY <1>1, <1>2 DEF InfosAsBefore

LEMMA DecAsBefore ==
  ASSUME IInv, NEW id, NEW dispatched, DecPromiseCount(id, dispatched)
  PROVE  /\ InfosAsBefore
         /\ \A i \in DOMAIN m_Memory' : i \in DOMAIN m_Memory /\ m_Memory'[i].host = m_Memory[i].host
  <1>1. CASE id \in DOMAIN m_Memory /\ Forgets(id)
    <2>1. m_Memory' = [i \in DOMAIN m_Memory \ {id} |-> m_Memory[i]]
      BY <1>1 DEF DecPromiseCount
    <2>2. \A i \in DOMAIN m_Memory' : i \in DOMAIN m_Memory /\ m_Memory'[i] = m_Memory[i]
      BY <2>1
    <2> QED
      BY <2>2 DEF InfosAsBefore
  <1>2. CASE ~(id \in DOMAIN m_Memory /\ Forgets(id))
    <2>1. m_Memory' = [i \in DOMAIN m_Memory |->
                          [m_Memory[i] EXCEPT !.count = IF i = id THEN @ - 1 ELSE @]]
      BY <1>2 DEF DecPromiseCount
    <2>2. DOMAIN m_Memory' = DOMAIN m_Memory
      BY <2>1
    <2>3. ASSUME NEW i \in DOMAIN m_Memory
          PROVE  /\ m_Memory'[i].config = m_Memory[i].config
                 /\ m_Memory'[i].parent = m_Memory[i].parent
                 /\ m_Memory'[i].host = m_Memory[i].host
      <3>1. m_Memory[i] \in [config: Configs, parent: Ids \cup {0}, host: Hosts \cup {0}, count: Nat]
        BY IInvFacts DEF Sound, TypeOK, Infos
      <3>2. PICK n : m_Memory'[i] = [m_Memory[i] EXCEPT !.count = n]
        BY <2>1
      <3> QED
        BY <3>1, <3>2
    <2> QED
      BY <2>2, <2>3 DEF InfosAsBefore
  <1> QED
    BY <1>1, <1>2

LEMMA SweptAsBefore ==
  ASSUME IInv, SweepDeadMemory
  PROVE  /\ InfosAsBefore
         /\ \A i \in DOMAIN m_Memory' : /\ i \in DOMAIN m_Memory
                                        /\ m_Memory'[i].host \in {m_Memory[i].host, 0}
  <1>1. m_Memory' = [id \in DOMAIN m_Memory \ Dead |->
                        [m_Memory[id] EXCEPT !.host = IF Expired(m_Memory[id]) THEN 0 ELSE @]]
    BY DEF SweepDeadMemory
  <1>2. \A i \in DOMAIN m_Memory' : i \in DOMAIN m_Memory
    BY <1>1
  <1>3. ASSUME NEW i, i \in DOMAIN m_Memory'
        PROVE  /\ m_Memory'[i].config = m_Memory[i].config
               /\ m_Memory'[i].parent = m_Memory[i].parent
               /\ m_Memory'[i].host \in {m_Memory[i].host, 0}
    <2>1. m_Memory[i] \in [config: Configs, parent: Ids \cup {0}, host: Hosts \cup {0}, count: Nat]
      BY <1>2, <1>3, IInvFacts DEF Sound, TypeOK, Infos
    <2>2. PICK n \in {m_Memory[i].host, 0} : m_Memory'[i] = [m_Memory[i] EXCEPT !.host = n]
      BY <1>1, <1>3
    <2> QED
      BY <2>1, <2>2
  <1> QED
    BY <1>2, <1>3 DEF InfosAsBefore

LEMMA UnchangedInfos == m_Memory' = m_Memory => InfosAsBefore
  BY DEF InfosAsBefore

LEMMA OpenKeepsPromises ==
  ASSUME PromiseInv, IInv', NEW config \in Configs, NEW parent \in held \cup {0},
         Open(config, parent)
  PROVE  PromiseInv'
  <1>1. IInv /\ AncestryInv
    BY DEF PromiseInv
  <1>2. /\ Unused # {} /\ hosts' = Made(config, parent)
        /\ UNCHANGED <<m_OnDesctruct, memory, m_MemoryLock, promises, decs, threads, leaked, twins>>
    BY DEF Open
  <1>3. TypeOK /\ parent \in DOMAIN hosts \cup {0}
    BY <1>1, IInvFacts DEF Sound, TypeOK
  <1> DEFINE new == Min(Unused)
  <1>4. /\ new \in Hosts /\ new \notin DOMAIN hosts
        /\ DOMAIN hosts' = DOMAIN hosts \cup {new}
        /\ hosts'[new].parent = parent
        /\ \A h \in DOMAIN hosts : hosts'[h] = hosts[h]
    BY <1>2, <1>3, MadeFacts
  <1> HIDE DEF new
  <1>5. HostsAsBefore /\ new # 0
    BY <1>4, ConstantFacts DEF HostsAsBefore
  <1>6. AncestryInv'
    BY <1>1, <1>3, <1>4, <1>5, AncestryMade
  <1>7. /\ m_Memory' = m_Memory /\ pc' = pc /\ taming' = taming /\ restoring' = restoring
        /\ parent_host' = parent_host /\ twins' = twins
    BY <1>2 DEF memory, threads
  <1>8. MeaningInv' /\ DescendingInv' /\ OvertakenInv' /\ OneInfoPerHost'
    BY <1>5, <1>7, UnchangedInfos, PromisesAsBefore
  <1> QED
    BY <1>6, <1>8 DEF PromiseInv

LEMMA DestroyKeepsPromises ==
  ASSUME PromiseInv, IInv', NEW h \in DOMAIN hosts, Destroy(h)
  PROVE  PromiseInv'
  <1>1. IInv /\ AncestryInv
    BY DEF PromiseInv
  <1>2. /\ hosts' = [k \in DOMAIN hosts \ {h} |-> hosts[k]]
        /\ twins' = twins \ {h}
        /\ SweepDeadMemory \/ m_Memory' = m_Memory
        /\ pc' = pc /\ taming' = taming /\ restoring' = restoring /\ parent_host' = parent_host
    BY DEF Destroy, threads
  <1>3. HostsAsBefore /\ DOMAIN hosts' = DOMAIN hosts \ {h}
    BY <1>2 DEF HostsAsBefore
  <1>4. AncestryInv'
    BY <1>1, <1>3, AncestryKept
  <1>5. /\ InfosAsBefore
        /\ \A i \in DOMAIN m_Memory' : /\ i \in DOMAIN m_Memory
                                       /\ m_Memory'[i].host \in {m_Memory[i].host, 0}
    BY <1>1, <1>2, SweptAsBefore, UnchangedInfos
  <1>6. MeaningInv' /\ DescendingInv' /\ OvertakenInv' /\ OneInfoPerHost'
    BY <1>2, <1>3, <1>5, PromisesAsBefore
  <1> QED
    BY <1>4, <1>6 DEF PromiseInv

LEMMA CloseKeepsPromises ==
  ASSUME PromiseInv, IInv', NEW h \in held, Close(h)
  PROVE  PromiseInv'
  <1>1. /\ hosts' = hosts /\ m_Memory' = m_Memory /\ pc' = pc /\ taming' = taming
        /\ restoring' = restoring /\ parent_host' = parent_host /\ twins' = twins
    BY DEF Close, memory, threads
  <1> QED
    BY <1>1, UnchangedInfos, QuietStep

LEMMA GivePromiseKeepsPromises ==
  ASSUME PromiseInv, IInv', NEW id \in Ids, GivePromise(id)
  PROVE  PromiseInv'
  <1>1. /\ hosts' = hosts /\ pc' = pc /\ taming' = taming
        /\ restoring' = restoring /\ parent_host' = parent_host /\ twins' = twins
        /\ m_Memory' = Counted(m_Memory, id) \/ m_Memory' = m_Memory
    BY DEF GivePromise, threads
  <1>2. /\ InfosAsBefore
        /\ \A i \in DOMAIN m_Memory' : i \in DOMAIN m_Memory /\ m_Memory'[i].host = m_Memory[i].host
    BY <1>1, UnchangedInfos, CountedAsBefore DEF PromiseInv
  <1> QED
    BY <1>1, <1>2, QuietStep

LEMMA DropPromiseKeepsPromises ==
  ASSUME PromiseInv, IInv', NEW id \in Ids, DropPromise(id) \/ DecInBackground(id)
  PROVE  PromiseInv'
  <1>1. /\ hosts' = hosts /\ pc' = pc /\ taming' = taming
        /\ restoring' = restoring /\ parent_host' = parent_host /\ twins' = twins
    BY DEF DropPromise, DecInBackground, threads
  <1>2. \E dispatched : DecPromiseCount(id, dispatched)
    BY DEF DropPromise, DecInBackground
  <1>3. /\ InfosAsBefore
        /\ \A i \in DOMAIN m_Memory' : i \in DOMAIN m_Memory /\ m_Memory'[i].host = m_Memory[i].host
    BY <1>2, DecAsBefore DEF PromiseInv
  <1> QED
    BY <1>1, <1>3, QuietStep

LEMMA DropResultKeepsPromises ==
  ASSUME PromiseInv, IInv', NEW t \in Threads, DropResult(t)
  PROVE  PromiseInv'
  <1>1. /\ hosts' = hosts /\ taming' = taming /\ pc[t] = "drop"
        /\ restoring' = restoring /\ parent_host' = parent_host /\ twins' = twins
        /\ pc' = [pc EXCEPT ![t] = "build"]
        /\ DecPromiseCount(result[t], decs)
    BY DEF DropResult, Goto
  <1>2. /\ InfosAsBefore
        /\ \A i \in DOMAIN m_Memory' : i \in DOMAIN m_Memory /\ m_Memory'[i].host = m_Memory[i].host
    BY <1>1, DecAsBefore DEF PromiseInv
  <1>3. pc \in [Threads -> {"idle", "tame", "drop", "build", "restore", "stuck"}]
    BY IInvFacts DEF PromiseInv, Sound, TypeOK
  <1>4. \A u \in Threads : pc'[u] = IF u = t THEN "build" ELSE pc[u]
    BY <1>1, <1>3
  <1> QED
    BY <1>1, <1>2, <1>4, QuietStep

LEMMA SpawnFailsKeepsPromises ==
  ASSUME PromiseInv, IInv', NEW t \in Threads, SpawnFails(t)
  PROVE  PromiseInv'
  <1>1. /\ hosts' = hosts /\ m_Memory' = m_Memory /\ taming' = taming /\ twins' = twins
        /\ restoring' = [restoring EXCEPT ![t] = <<>>]
        /\ parent_host' = [parent_host EXCEPT ![t] = 0]
        /\ pc' = [pc EXCEPT ![t] = "stuck"] \/ pc' = [pc EXCEPT ![t] = "idle"]
    BY DEF SpawnFails, Goto, memory
  <1>2. /\ pc \in [Threads -> {"idle", "tame", "drop", "build", "restore", "stuck"}]
        /\ DOMAIN restoring = Threads /\ DOMAIN parent_host = Threads
    BY IInvFacts DEF PromiseInv, Sound, TypeOK
  <1>3. \A u \in Threads \ {t} : /\ pc'[u] = pc[u] /\ restoring'[u] = restoring[u]
                                 /\ parent_host'[u] = parent_host[u]
    BY <1>1, <1>2
  <1>4. pc'[t] \in {"stuck", "idle"}
    BY <1>1, <1>2
  <1> QED
    BY <1>1, <1>3, <1>4, UnchangedInfos, QuietStep

LEMMA StutteringKeepsPromises ==
  ASSUME PromiseInv, IInv', UNCHANGED vars
  PROVE  PromiseInv'
  <1>1. /\ hosts' = hosts /\ m_Memory' = m_Memory /\ pc' = pc /\ taming' = taming
        /\ restoring' = restoring /\ parent_host' = parent_host /\ twins' = twins
    BY DEF vars, memory, threads
  <1> QED
    BY <1>1, UnchangedInfos, QuietStep

\* The prefix of a sequence that is not empty.
LEMMA FrontFacts ==
  ASSUME NEW S, NEW s \in Seq(S), s # <<>>
  PROVE  /\ Len(s) \in Nat \ {0} /\ Front(s) \in Seq(S) /\ Len(Front(s)) = Len(s) - 1
         /\ \A j \in 1..Len(s) - 1 : Front(s)[j] = s[j]
         /\ Last(s) = s[Len(s)]
  <1>1. Len(s) \in Nat \ {0}
    BY LenProperties, EmptySeq
  <1>2. Front(s) \in Seq(S) /\ Len(Front(s)) = Len(s) - 1
    BY ToSetLast
  <1>3. \A j \in 1..Len(s) - 1 : Front(s)[j] = s[j]
    <2>1. 1 \in Int /\ Len(s) - 1 \in Int /\ \A j \in 1..Len(s) - 1 : s[j] \in S
      BY <1>1, ElementOfSeq
    <2>2. \A j \in 1..Len(s) - 1 - 1 + 1 : SubSeq(s, 1, Len(s) - 1)[j] = s[1 + j - 1]
      BY <2>1, SubSeqProperties
    <2> QED
      BY <1>1, <2>2 DEF Front
  <1> QED
    BY <1>1, <1>2, <1>3 DEF Last

LEMMA RetrieveVFSKeepsPromises ==
  ASSUME PromiseInv, IInv', NEW t \in Threads, NEW id \in Ids, RetrieveVFS(t, id)
  PROVE  PromiseInv'
  <1>1. /\ IInv /\ AncestryInv /\ MeaningInv /\ DescendingInv /\ OvertakenInv /\ OneInfoPerHost
        /\ Sound /\ TypeOK /\ UplinksKept
    BY IInvFacts DEF PromiseInv, Sound
  <1>2. PICK chain : chain = Unrestored(id)
    OBVIOUS
  <1>3. PICK live : live = IF Last(chain) = 0 THEN 0 ELSE m_Memory[Last(chain)].host
    OBVIOUS
  <1>4. /\ pc[t] = "idle" /\ id \in DOMAIN m_Memory
        /\ IF Len(chain) = 1
             THEN UNCHANGED <<pc, restoring, parent_host>>
             ELSE /\ restoring' = [restoring EXCEPT ![t] = Front(chain)]
                  /\ parent_host' = [parent_host EXCEPT ![t] = live]
                  /\ pc' = [pc EXCEPT ![t] = "restore"]
        /\ hosts' = hosts /\ m_Memory' = m_Memory /\ taming' = taming /\ twins' = twins
    BY <1>2, <1>3, Zenon DEF RetrieveVFS, Goto, memory
  <1>5. CASE Len(chain) = 1
    BY <1>4, <1>5, UnchangedInfos, QuietStep
  <1>6. CASE Len(chain) # 1
    <2>1. /\ chain \in Seq(DOMAIN m_Memory \cup {0}) /\ chain # <<>>
          /\ \/ Last(chain) = 0
             \/ Last(chain) \in DOMAIN m_Memory /\ ~Expired(m_Memory[Last(chain)])
          /\ \A j \in 1..Len(chain) - 1 : m_Memory[chain[j]].parent = chain[j + 1]
      BY <1>1, <1>2, <1>4, UnrestoredFacts
    <2>2. PICK r : r = Front(chain)
      OBVIOUS
    <2>3. /\ Len(chain) \in Nat \ {0} /\ Len(r) = Len(chain) - 1
          /\ \A j \in 1..Len(chain) - 1 : r[j] = chain[j]
          /\ Last(chain) = chain[Len(chain)]
      BY <2>1, <2>2, FrontFacts
    <2>4. \A j \in 1..Len(r) - 1 : m_Memory[r[j]].parent = r[j + 1]
      <3>1. ASSUME NEW j \in 1..Len(r) - 1
            PROVE  m_Memory[r[j]].parent = r[j + 1]
        <4>1. j \in 1..Len(chain) - 1 /\ j + 1 \in 1..Len(chain) - 1
          BY <2>3
        <4> QED
          BY <2>1, <2>3, <4>1
      <3> QED
        BY <3>1
    <2>5. m_Memory[Last(r)].parent = Last(chain)
      <3>1. Len(chain) - 1 \in 1..Len(chain) - 1 /\ Len(chain) - 1 + 1 = Len(chain)
        BY <1>6, <2>3
      <3>2. Last(r) = chain[Len(chain) - 1]
        BY <2>3, <3>1 DEF Last
      <3> QED
        BY <2>1, <2>3, <3>1, <3>2
    <2>6. \/ Last(chain) = 0 /\ live = 0
          \/ Last(chain) # 0 /\ live # 0 /\ Describes(Last(chain), live)
      BY <1>1, <1>3, <2>1 DEF Expired, MeaningInv
    <2>7. \A i, k : Describes(i, k)' <=> Describes(i, k)
      BY <1>4 DEF Describes, Matched
    <2>8. /\ pc'[t] = "restore" /\ restoring'[t] = r /\ parent_host'[t] = live
          /\ \A u \in Threads \ {t} : /\ pc'[u] = pc[u] /\ restoring'[u] = restoring[u]
                                      /\ parent_host'[u] = parent_host[u]
      BY <1>1, <1>4, <1>6, <2>2 DEF TypeOK
    <2>9. Descending(t)'
      <3>1. PICK up : up = m_Memory[Last(r)].parent
        OBVIOUS
      <3>2. \/ up = 0 /\ live = 0
            \/ up # 0 /\ live # 0 /\ Describes(up, live)'
        BY <2>5, <2>6, <2>7, <3>1
      <3> QED
        BY <1>4, <2>4, <2>8, <3>1, <3>2 DEF Descending, Describes
    <2>10. DescendingInv'
      <3>1. ASSUME NEW u \in Threads, u # t, pc'[u] = "restore"
            PROVE  FALSE
        <4>1. m_MemoryLock = u /\ m_MemoryLock = None
          BY <1>1, <2>8, <3>1 DEF RetrieveVFS, Unlocked, Sound, RestoringInv, Restoring
        <4> QED
          BY <4>1, ConfigsAssumption
      <3>2. ASSUME NEW u \in Threads
            PROVE  Descending(u)'
        <4>1. CASE u = t
          BY <2>9, <4>1
        <4>2. CASE u # t
          BY <3>1, <4>2 DEF Descending
        <4> QED
          BY <4>1, <4>2
      <3> QED
        BY <3>2 DEF DescendingInv
    <2>11. MeaningInv' /\ OneInfoPerHost' /\ AncestryInv'
      <3>1. OneInfoPerHost' /\ AncestryInv'
        BY <1>1, <1>4 DEF OneInfoPerHost, AncestryInv, Ranked
      <3>2. MeaningInv'
        <4>1. ASSUME NEW i \in DOMAIN m_Memory, m_Memory[i].host # 0
              PROVE  Describes(i, m_Memory[i].host)'
          <5>1. Describes(i, m_Memory[i].host)
            BY <1>1, <4>1 DEF MeaningInv
          <5> QED
            BY <1>4, <5>1 DEF Describes, Matched
        <4> QED
          BY <1>4, <4>1 DEF MeaningInv
      <3> QED
        BY <3>1, <3>2
    <2>12. OvertakenInv'
      <3>1. \A u \in Threads : pc'[u] \in {"drop", "build"} => pc[u] \in {"drop", "build"}
        BY <2>8
      <3> QED
        BY <1>1, <1>4, <3>1 DEF OvertakenInv, Overtaken, Missed, InfosOf
    <2> QED
      BY <2>10, <2>11, <2>12 DEF PromiseInv
  <1> QED
    BY <1>5, <1>6

LEMMA SpawnKeepsPromises ==
  ASSUME PromiseInv, IInv', NEW t \in Threads, Spawn(t)
  PROVE  PromiseInv'
  <1>1. /\ IInv /\ AncestryInv /\ MeaningInv /\ DescendingInv /\ OvertakenInv /\ OneInfoPerHost
        /\ Sound /\ TypeOK /\ UplinksKept /\ HostsInv /\ RestoringInv /\ TamingInv
    BY IInvFacts DEF PromiseInv, Sound
  <1>2. PICK s : s = restoring[t]
    OBVIOUS
  <1>3. PICK id : id = Last(s)
    OBVIOUS
  <1>4. PICK new : new = Min(Unused)
    OBVIOUS
  <1>5. PICK p : p = parent_host[t]
    OBVIOUS
  <1>6. /\ pc[t] = "restore" /\ Unused # {}
        /\ hosts' = Made(m_Memory[id].config, p)
        /\ m_Memory' = [m_Memory EXCEPT ![id].host = new]
        /\ restoring' = [restoring EXCEPT ![t] = Front(s)]
        /\ parent_host' = [parent_host EXCEPT ![t] = IF Len(s) = 1 THEN 0 ELSE new]
        /\ pc' = [pc EXCEPT ![t] = IF Len(s) = 1 THEN "idle" ELSE "restore"]
        /\ taming' = taming /\ twins' = twins
    <2>1. restoring' = [restoring EXCEPT ![t] = Front(restoring[t])]
      BY DEF Spawn
    <2> QED
      BY <1>2, <1>3, <1>4, <1>5, <2>1, Zenon DEF Spawn, Goto
  <1>7. /\ s \in Seq(Ids) /\ s # <<>> /\ m_MemoryLock = t
        /\ \A i \in ToSet(s) : i \in DOMAIN m_Memory /\ Expired(m_Memory[i])
    BY <1>1, <1>2, <1>6 DEF TypeOK, RestoringInv, Restoring
  <1>8. /\ Len(s) \in Nat \ {0} /\ Len(Front(s)) = Len(s) - 1
        /\ \A j \in 1..Len(s) - 1 : Front(s)[j] = s[j]
        /\ id = s[Len(s)] /\ id \in ToSet(s)
    BY <1>3, <1>7, FrontFacts, ToSetLast
  <1>9. id \in DOMAIN m_Memory /\ m_Memory[id] \in Infos /\ p \in DOMAIN hosts \cup {0}
    BY <1>1, <1>5, <1>7, <1>8 DEF TypeOK, HostsInv
  <1>10. /\ new \in Hosts /\ new \notin DOMAIN hosts /\ new # 0
         /\ DOMAIN hosts' = DOMAIN hosts \cup {new}
         /\ hosts'[new].parent = p /\ hosts'[new].config = m_Memory[id].config
         /\ \A h \in DOMAIN hosts : hosts'[h] = hosts[h]
    <2>1. m_Memory[id].config \in Configs
      BY <1>9, InfoFacts
    <2>2. /\ new \in Hosts /\ new \notin DOMAIN hosts
          /\ DOMAIN hosts' = DOMAIN hosts \cup {new}
          /\ hosts'[new].parent = p
          /\ \A h \in DOMAIN hosts : hosts'[h] = hosts[h]
      BY <1>1, <1>4, <1>6, <1>9, <2>1, MadeFacts
    <2>3. hosts'[new].config = m_Memory[id].config
      BY <1>4, <1>6, <2>2 DEF Made
    <2> QED
      BY <2>2, <2>3, ConstantFacts
  <1>11. /\ DOMAIN m_Memory' = DOMAIN m_Memory
         /\ m_Memory'[id].host = new
         /\ m_Memory'[id].parent = m_Memory[id].parent
         /\ m_Memory'[id].config = m_Memory[id].config
         /\ \A i \in DOMAIN m_Memory \ {id} : m_Memory'[i] = m_Memory[i]
    <2>1. m_Memory'[id] = [m_Memory[id] EXCEPT !.host = new]
      BY <1>6, <1>9
    <2>2. /\ \A i \in DOMAIN m_Memory \ {id} : m_Memory'[i] = m_Memory[i]
          /\ DOMAIN m_Memory' = DOMAIN m_Memory
      BY <1>6
    <2> QED
      BY <1>9, <1>10, <2>1, <2>2, InfoFacts
  <1>12. HostsAsBefore /\ InfosAsBefore
    BY <1>10, <1>11 DEF HostsAsBefore, InfosAsBefore
  <1>13. AncestryInv'
    BY <1>1, <1>9, <1>10, <1>12, AncestryMade
  <1>14. Describes(id, new)'
    <2>1. PICK up : up = m_Memory[id].parent
      OBVIOUS
    <2>2. \/ up = 0 /\ p = 0
          \/ up # 0 /\ p # 0 /\ Describes(up, p)
      BY <1>1, <1>2, <1>3, <1>5, <1>6, <2>1 DEF DescendingInv, Descending
    <2>3. ASSUME up # 0, p # 0, Describes(up, p)
          PROVE  Describes(up, p)'
      <3>1. up \in DOMAIN m_Memory' /\ p \in DOMAIN hosts'
        BY <1>1, <1>9, <1>10, <1>11, <2>1, <2>3 DEF UplinksKept
      <3> QED
        BY <1>1, <1>12, <2>3, <3>1, DescribesKept
    <2>4. /\ m_Memory'[id].config = hosts'[new].config
          /\ m_Memory'[id].parent = up /\ hosts'[new].parent = p
          /\ id \in DOMAIN m_Memory' /\ new \in DOMAIN hosts'
      BY <1>9, <1>10, <1>11, <2>1
    <2>5. \/ m_Memory'[id].parent = 0 /\ hosts'[new].parent = 0
          \/ Describes(m_Memory[id].parent, hosts[new].parent)'
      BY <2>2, <2>3, <2>4 DEF Describes
    <2> QED
      BY <2>4, <2>5, DescribesOneAfter
  <1>15. MeaningInv'
    <2>1. ASSUME NEW i, i \in DOMAIN m_Memory', m_Memory'[i].host # 0
          PROVE  Describes(i, m_Memory[i].host)'
      <3>1. CASE i = id
        BY <1>11, <1>14, <3>1 DEF Describes
      <3>2. CASE i # id
        <4>1. i \in DOMAIN m_Memory /\ m_Memory'[i] = m_Memory[i]
          BY <1>11, <2>1, <3>2
        <4>2. PICK k : k = m_Memory[i].host
          OBVIOUS
        <4>3. Describes(i, k) /\ k \in DOMAIN hosts /\ k \in DOMAIN hosts'
          BY <1>1, <1>10, <2>1, <4>1, <4>2 DEF MeaningInv, Sound
        <4>4. Describes(i, k)'
          BY <1>1, <1>12, <2>1, <4>3, DescribesKept
        <4> QED
          BY <4>1, <4>2, <4>4 DEF Describes
      <3> QED
        BY <3>1, <3>2
    <2> QED
      BY <2>1 DEF MeaningInv
  <1>16. /\ pc'[t] = IF Len(s) = 1 THEN "idle" ELSE "restore"
         /\ restoring'[t] = Front(s)
         /\ parent_host'[t] = IF Len(s) = 1 THEN 0 ELSE new
         /\ \A u \in Threads \ {t} : pc'[u] = pc[u] /\ pc[u] # "restore"
    <2>1. \A u \in Threads \ {t} : pc[u] # "restore"
      BY <1>1, <1>7 DEF RestoringInv, Restoring
    <2> QED
      BY <1>1, <1>6, <2>1 DEF TypeOK
  <1>17. DescendingInv'
    <2>1. ASSUME Len(s) # 1
          PROVE  Descending(t)'
      <3>1. PICK f : f = Front(s)
        OBVIOUS
      <3>2. \A j \in 1..Len(s) - 1 : m_Memory[s[j]].parent = s[j + 1]
        BY <1>1, <1>2, <1>6 DEF DescendingInv, Descending
      <3>3. \A j \in 1..Len(s) - 1 : m_Memory'[s[j]].parent = s[j + 1]
        <4>1. ASSUME NEW j \in 1..Len(s) - 1
              PROVE  s[j] \in DOMAIN m_Memory
          <5>1. j \in DOMAIN s
            BY <1>7, <1>8, LenProperties
          <5> QED
            BY <1>7, <5>1 DEF ToSet
        <4> QED
          BY <1>11, <3>2, <4>1
      <3>4. \A j \in 1..Len(f) - 1 : m_Memory'[f[j]].parent = f[j + 1]
        <4>1. ASSUME NEW j \in 1..Len(f) - 1
              PROVE  m_Memory'[f[j]].parent = f[j + 1]
          <5>1. j \in 1..Len(s) - 1 /\ j + 1 \in 1..Len(s) - 1
            BY <1>8, <3>1
          <5> QED
            BY <1>8, <3>1, <3>3, <5>1
        <4> QED
          BY <4>1
      <3>5. m_Memory'[Last(f)].parent = id
        <4>1. Len(s) - 1 \in 1..Len(s) - 1 /\ Len(s) - 1 + 1 = Len(s)
          BY <1>8, <2>1
        <4>2. Last(f) = s[Len(s) - 1]
          BY <1>8, <3>1, <4>1 DEF Last
        <4> QED
          BY <1>8, <3>3, <4>1, <4>2
      <3>6. id # 0 /\ new # 0
        BY <1>1, <1>9, <1>10 DEF Sound
      <3>7. restoring'[t] = f /\ parent_host'[t] = new
        BY <1>16, <2>1, <3>1
      <3> QED
        BY <1>14, <3>4, <3>5, <3>6, <3>7 DEF Descending, Describes
    <2>2. ASSUME NEW u \in Threads
          PROVE  Descending(u)'
      <3>1. CASE u = t /\ Len(s) # 1
        BY <2>1, <3>1
      <3>2. CASE u # t \/ Len(s) = 1
        <4>1. pc'[u] # "restore"
          BY <1>16, <3>2
        <4> QED
          BY <4>1 DEF Descending
      <3> QED
        BY <3>1, <3>2
    <2> QED
      BY <2>2 DEF DescendingInv
  <1>18. OvertakenInv'
    <2> SUFFICES ASSUME NEW u \in Threads, NEW j, j \in 1..Len(taming'[u]),
                        Missed(u, j)', InfosOf(taming[u][j])' # {}
                 PROVE  taming'[u][j] \in twins'
      BY DEF OvertakenInv, Overtaken
    <2>1. PICK h : h = taming[u][j]
      OBVIOUS
    <2>2. j \in 1..Len(taming[u]) /\ taming'[u] = taming[u] /\ h \in DOMAIN hosts
      BY <1>1, <1>6, <2>1, TamedHosts
    <2>3. Missed(u, j)
      BY <1>6, <1>16 DEF Missed
    <2>4. PICK i \in DOMAIN m_Memory' : m_Memory'[i].host = h
      BY <2>1, <2>2 DEF InfosOf
    <2>5. i \in DOMAIN m_Memory /\ m_Memory[i].host = h
      BY <1>10, <1>11, <2>2, <2>4
    <2>6. h \in twins
      BY <1>1, <2>1, <2>2, <2>3, <2>5 DEF OvertakenInv, Overtaken, InfosOf
    <2>7. taming'[u][j] = h /\ twins' = twins
      BY <1>6, <2>1
    <2> QED
      BY <2>6, <2>7
  <1>19. OneInfoPerHost'
    <2> SUFFICES ASSUME NEW i, i \in DOMAIN m_Memory', NEW j, j \in DOMAIN m_Memory', i # j,
                        m_Memory'[i].host = m_Memory'[j].host, m_Memory'[i].host # 0
                 PROVE  m_Memory'[i].host \in twins'
      BY DEF OneInfoPerHost
    <2>1. \A k \in DOMAIN m_Memory : m_Memory[k].host # new
      BY <1>1, <1>10 DEF Sound
    <2>2. i # id /\ j # id
      BY <1>11, <2>1
    <2>3. /\ i \in DOMAIN m_Memory /\ j \in DOMAIN m_Memory
          /\ m_Memory'[i] = m_Memory[i] /\ m_Memory'[j] = m_Memory[j]
      BY <1>11, <2>2
    <2>4. m_Memory[i].host \in twins
      BY <1>1, <2>3 DEF OneInfoPerHost
    <2>5. twins' = twins
      BY <1>6
    <2> QED
      BY <2>3, <2>4, <2>5
  <1> QED
    BY <1>13, <1>15, <1>17, <1>18, <1>19 DEF PromiseInv

-----------------------------------------------------------------------------
(* Hosts are tamed.                                                        *)

\* The hosts in which the last one of a stack is tamed are within it.
LEMMA StackRanks ==
  ASSUME NEW bound \in Nat, NEW rank, Ranked(rank, bound), NEW s, Stack(s),
         NEW j \in 1..Len(s) - 1
  PROVE  rank[Last(s)] < rank[s[j]]
  <1> DEFINE n == Len(s)
             T == {m \in Nat : /\ 1 <= m /\ m < n
                               /\ ~(rank[s[n]] < rank[s[n - m]])}
  <1>1. n \in Nat /\ Last(s) = s[n] /\ \A i \in 1..n : s[i] \in DOMAIN hosts
    <2>1. s \in Seq(Hosts) /\ ToSet(s) \subseteq DOMAIN hosts
      BY DEF Stack
    <2>2. n \in Nat /\ DOMAIN s = 1..n
      BY <2>1, LenProperties
    <2> QED
      BY <2>1, <2>2 DEF ToSet, Last
  <1>2. \A i \in 1..n : rank[s[i]] \in Int
    <2>1. \A h \in DOMAIN hosts : rank[h] \in Int
      BY DEF Ranked
    <2> QED
      BY <1>1, <2>1
  <1>3. \A i \in 1..n - 1 : rank[s[i + 1]] < rank[s[i]]
    <2>1. ASSUME NEW i \in 1..n - 1
          PROVE  rank[s[i + 1]] < rank[s[i]]
      <3>1. i \in 1..n /\ s[i] \in DOMAIN hosts /\ hosts[s[i]].parent = s[i + 1]
        BY <1>1 DEF Stack
      <3> QED
        BY <3>1 DEF Ranked
    <2> QED
      BY <2>1
  <1>4. T = {}
    <2>1. SUFFICES ASSUME T # {} PROVE FALSE
      OBVIOUS
    <2>2. PICK m \in T : \A k \in T : m <= k
      <3>1. T \subseteq Nat
        OBVIOUS
      <3> HIDE DEF T
      <3> QED
        BY <2>1, <3>1, LeastNumber
    <2>3. m \in Nat /\ 1 <= m /\ m < n /\ ~(rank[s[n]] < rank[s[n - m]])
      OBVIOUS
    <2>4. /\ n - m \in 1..n - 1 /\ n - m + 1 \in 1..n /\ n - m \in 1..n /\ n \in 1..n
          /\ rank[s[n - m + 1]] < rank[s[n - m]]
      BY <1>1, <1>3, <2>3
    <2>5. CASE m = 1
      <3>1. n - m + 1 = n
        BY <1>1, <2>5
      <3> QED
        BY <2>3, <2>4, <3>1
    <2>6. CASE m # 1
      <3>1. m - 1 \in Nat /\ 1 <= m - 1 /\ m - 1 < n /\ n - (m - 1) = n - m + 1 /\ ~(m <= m - 1)
        BY <1>1, <2>3, <2>6
      <3>2. m - 1 \notin T
        <4> HIDE DEF T
        <4> QED
          BY <2>2, <3>1
      <3>3. rank[s[n]] < rank[s[n - m + 1]]
        BY <3>1, <3>2
      <3>4. rank[s[n]] \in Int /\ rank[s[n - m + 1]] \in Int /\ rank[s[n - m]] \in Int
        BY <1>2, <2>4
      <3> QED
        BY <2>3, <2>4, <3>3, <3>4
    <2> QED
      BY <2>5, <2>6
  <1>5. n - j \in Nat /\ 1 <= n - j /\ n - j < n /\ n - (n - j) = j
    BY <1>1
  <1> QED
    BY <1>1, <1>4, <1>5

\* A chain goes from a host to those it is in, once through each.
LEMMA ChainLinks ==
  ASSUME TypeOK, UplinksKept, NEW bound \in Nat, NEW rank, Ranked(rank, bound),
         NEW id \in DOMAIN m_Memory, NEW h \in DOMAIN hosts
  PROVE  /\ \A a \in Chain(id, h) : rank[a[2]] <= rank[h]
         /\ \A a, b \in Chain(id, h) : a[2] = b[2] => a = b
         /\ \A a \in Chain(id, h) :
                Alike(a[1], a[2]) =>
                    \/ m_Memory[a[1]].parent = 0 /\ hosts[a[2]].parent = 0
                    \/ <<m_Memory[a[1]].parent, hosts[a[2]].parent>> \in Chain(id, h)
  <1> DEFINE M == DOMAIN m_Memory
             D == DOMAIN hosts
             up[i \in DOMAIN m_Memory \cup {0}] ==
                 [k \in DOMAIN hosts \cup {0} |->
                     IF i = 0 \/ k = 0 THEN {}
                     ELSE {<<i, k>>} \cup IF Alike(i, k) THEN up[m_Memory[i].parent][hosts[k].parent]
                                         ELSE {}]
             Next1(a, S) == Alike(a[1], a[2]) =>
                                \/ m_Memory[a[1]].parent = 0 /\ hosts[a[2]].parent = 0
                                \/ <<m_Memory[a[1]].parent, hosts[a[2]].parent>> \in S
             Good(i) == \A k \in D \cup {0} :
                            /\ up[i][k] \subseteq M \X D
                            /\ \A a \in up[i][k] : rank[a[2]] <= rank[k]
                            /\ \A a, b \in up[i][k] : a[2] = b[2] => a = b
                            /\ \A a \in up[i][k] : Next1(a, up[i][k])
             T == {i \in M \cup {0} : ~Good(i)}
  <1>1. up = [i \in DOMAIN m_Memory \cup {0} |->
                 [k \in DOMAIN hosts \cup {0} |->
                     IF i = 0 \/ k = 0 THEN {}
                     ELSE {<<i, k>>} \cup IF Alike(i, k)
                                           THEN up[m_Memory[i].parent][hosts[k].parent]
                                           ELSE {}]]
    BY ChainExists, Zenon
  <1> HIDE DEF up
  <1>2. \A i \in M \cup {0} : \A k \in D \cup {0} :
            up[i][k] = IF i = 0 \/ k = 0 THEN {}
                       ELSE {<<i, k>>} \cup IF Alike(i, k)
                                             THEN up[m_Memory[i].parent][hosts[k].parent]
                                             ELSE {}
    <2>1. \A i \in M \cup {0} :
              up[i] = [k \in D \cup {0} |->
                          IF i = 0 \/ k = 0 THEN {}
                          ELSE {<<i, k>>} \cup IF Alike(i, k)
                                                THEN up[m_Memory[i].parent][hosts[k].parent]
                                                ELSE {}]
      BY <1>1
    <2> QED
      BY <2>1
  <1>3. M \cup {0} \subseteq Nat
    BY ConstantFacts DEF UplinksKept
  <1>4. /\ \A k \in D \cup {0} : rank[k] \in Int
        /\ \A k \in D : hosts[k].parent \in D \cup {0} /\ rank[hosts[k].parent] < rank[k]
    BY HostFacts DEF Ranked
  <1>5. T = {}
    <2>1. SUFFICES ASSUME T # {} PROVE FALSE
      OBVIOUS
    <2>2. T \subseteq Nat
      BY <1>3
    <2>3. PICK i \in T : \A j \in T : i <= j
      <3> HIDE DEF T
      <3> QED
        BY <2>1, <2>2, LeastNumber
    <2>4. i \in M \cup {0} /\ ~Good(i) /\ i \in Nat
      BY <1>3
    <2>5. ASSUME NEW k \in D \cup {0}
          PROVE  /\ up[i][k] \subseteq M \X D
                 /\ \A a \in up[i][k] : rank[a[2]] <= rank[k]
                 /\ \A a, b \in up[i][k] : a[2] = b[2] => a = b
                 /\ \A a \in up[i][k] : Next1(a, up[i][k])
      <3> DEFINE p == m_Memory[i].parent
                 q == hosts[k].parent
                 above == up[p][q]
      <3>1. CASE i = 0 \/ k = 0
        <4>1. up[i][k] = {}
          BY <1>2, <2>4, <3>1
        <4> QED
          BY <4>1
      <3>2. CASE i # 0 /\ k # 0
        <4>1. i \in M /\ k \in D /\ q \in D \cup {0} /\ rank[q] < rank[k]
              /\ rank[q] \in Int /\ rank[k] \in Int
          BY <1>4, <2>4, <3>2
        <4>2. p \in M \cup {0} /\ p < i /\ p \in Nat
          BY <1>3, <4>1 DEF UplinksKept
        <4>3. Good(p)
          <5>1. ~(i <= p)
            BY <2>4, <4>2
          <5>2. p \notin T
            <6> HIDE DEF T
            <6> QED
              BY <2>3, <5>1
          <5> QED
            BY <4>2, <5>2
        <4>4. /\ above \subseteq M \X D
              /\ \A a \in above : rank[a[2]] <= rank[q]
              /\ \A a, b \in above : a[2] = b[2] => a = b
              /\ \A a \in above : Next1(a, above)
          <5> HIDE DEF p, q, Next1
          <5> QED
            BY <4>1, <4>3
        <4>5. up[i][k] = {<<i, k>>} \cup IF Alike(i, k) THEN above ELSE {}
          BY <1>2, <2>4, <3>2
        <4>6. \A a \in above : rank[a[2]] <= rank[k] /\ a[2] # k
          <5>1. ASSUME NEW a \in above
                PROVE  rank[a[2]] <= rank[k] /\ a[2] # k
            <6>1. rank[a[2]] \in Int /\ rank[a[2]] <= rank[q]
              BY <1>4, <4>4
            <6> HIDE DEF q, above
            <6>2. rank[a[2]] < rank[k]
              BY <4>1, <6>1
            <6> QED
              BY <4>1, <6>1, <6>2
          <5> QED
            BY <5>1
        <4>7. <<i, k>>[1] = i /\ <<i, k>>[2] = k /\ rank[k] <= rank[k] /\ <<i, k>> \in M \X D
          BY <4>1
        <4>8. Alike(i, k) => \/ p = 0 /\ q = 0
                             \/ <<p, q>> \in above
          <5>1. ASSUME Alike(i, k), p # 0, q # 0
                PROVE  <<p, q>> \in above
            <6>1. \E S : above = {<<p, q>>} \cup S
              <7> HIDE DEF p, q
              <7> QED
                BY <1>2, <4>1, <4>2, <5>1
            <6> QED
              BY <6>1
          <5>2. Alike(i, k) => (p = 0 <=> q = 0)
            BY DEF Alike
          <5> QED
            BY <5>1, <5>2
        <4>9. up[i][k] \subseteq M \X D
          <5> HIDE DEF above
          <5> QED
            BY <4>4, <4>5, <4>7
        <4>10. \A a \in up[i][k] : rank[a[2]] <= rank[k]
          <5> HIDE DEF above
          <5> QED
            BY <4>5, <4>6, <4>7
        <4>11. \A a, b \in up[i][k] : a[2] = b[2] => a = b
          <5> HIDE DEF above
          <5> QED
            BY <4>4, <4>5, <4>6, <4>7
        <4>12. ASSUME NEW a \in up[i][k]
               PROVE  Next1(a, up[i][k])
          <5>1. CASE a = <<i, k>>
            <6>1. a[1] = i /\ a[2] = k
              BY <5>1
            <6>2. Alike(i, k) => above \subseteq up[i][k]
              <7> HIDE DEF above
              <7> QED
                BY <4>5
            <6> QED
              BY <4>8, <6>1, <6>2
          <5>2. CASE a # <<i, k>>
            <6>1. a \in above /\ above \subseteq up[i][k]
              <7> HIDE DEF above
              <7> QED
                BY <4>5, <5>2
            <6>2. Next1(a, above)
              <7> HIDE DEF above, Next1
              <7> QED
                BY <4>4, <6>1
            <6> HIDE DEF above
            <6> QED
              BY <6>1, <6>2
          <5> QED
            BY <5>1, <5>2
        <4> HIDE DEF Next1
        <4> QED
          BY <4>9, <4>10, <4>11, <4>12
      <3> QED
        BY <3>1, <3>2
    <2> HIDE DEF Next1
    <2> QED
      BY <2>4, <2>5
  <1>6. Chain(id, h) = up[id][h]
    BY DEF Chain, up
  <1>7. Good(id)
    BY <1>5
  <1>8. /\ \A a \in up[id][h] : rank[a[2]] <= rank[h]
        /\ \A a, b \in up[id][h] : a[2] = b[2] => a = b
        /\ \A a \in up[id][h] : Next1(a, up[id][h])
    <2> HIDE DEF Next1
    <2> QED
      BY <1>7
  <1>9. PICK c : c = up[id][h]
    OBVIOUS
  <1>10. /\ \A a \in c : rank[a[2]] <= rank[h]
         /\ \A a, b \in c : a[2] = b[2] => a = b
         /\ \A a \in c : Next1(a, c)
    <2> HIDE DEF Next1
    <2> QED
      BY <1>8, <1>9
  <1>11. c = Chain(id, h)
    BY <1>6, <1>9
  <1> QED
    BY <1>10, <1>11

\* What is found to be a successor is described by the infos it succeeds.
LEMMA SuccessorMatched ==
  ASSUME TypeOK, UplinksKept, NEW bound \in Nat, NEW rank, Ranked(rank, bound),
         NEW h \in DOMAIN hosts, Matches(h), Min(Candidates(h)) \in DOMAIN m_Memory
  PROVE  Matched(Chain(Min(Candidates(h)), h))
  <1> DEFINE links == Chain(Min(Candidates(h)), h)
  <1>1. links \subseteq (DOMAIN m_Memory) \X (DOMAIN hosts)
    BY ChainFacts
  <1>2. ASSUME NEW link \in links
        PROVE  /\ m_Memory[link[1]].config = hosts[link[2]].config
               /\ \/ m_Memory[link[1]].parent = 0 /\ hosts[link[2]].parent = 0
                  \/ <<m_Memory[link[1]].parent, hosts[link[2]].parent>> \in links
    <2>1. Alike(link[1], link[2])
      BY DEF Matches
    <2> QED
      BY <2>1, ChainLinks DEF Alike
  <1> QED
    BY <1>1, <1>2 DEF Matched

\* A thread that tames a host works on the top of its stack.
OnStack(t, s) ==
    \/ pc[t] = "idle" /\ Len(s) = 1
    \/ pc[t] \in {"tame", "build"} /\ s = taming[t]

\* A host may get an info: it has none, or it is one that may have two.
Unclaimed(h) == InfosOf(h) = {} \/ h \in twins

\* These infos get known hosts, which they describe, one each; the others keep theirs.
Introduces(changed, known) ==
    /\ \A i \in DOMAIN m_Memory' :
           /\ i \in changed => /\ m_Memory'[i].host \in known
                               /\ Describes(i, m_Memory[i].host)'
           /\ i \notin changed => /\ i \in DOMAIN m_Memory
                                  /\ m_Memory'[i].host = m_Memory[i].host
    /\ \A i, j \in changed \cap DOMAIN m_Memory' :
           m_Memory'[i].host = m_Memory'[j].host => i = j

\* A promise is returned, and the infos that changed have hosts that were not known.
LEMMA TamedKeepsPromises ==
  ASSUME PromiseInv, IInv', Unlocked, hosts' = hosts, restoring' = restoring,
         InfosAsBefore,
         NEW t \in Threads, NEW s, Stack(s), OnStack(t, s),
         NEW id, NEW known, ReturnPromise(t, s, id, known),
         NEW changed, Introduces(changed, known),
         \A j \in 1..Len(s) - 1 : s[j] \notin known,
         known = {} \/ Unclaimed(Last(s))
  PROVE  PromiseInv'
  <1>1. /\ IInv /\ AncestryInv /\ MeaningInv /\ DescendingInv /\ OvertakenInv /\ OneInfoPerHost
        /\ Sound /\ TypeOK /\ HostsInv /\ RestoringInv /\ Sound'
    BY IInvFacts, IInvFactsAfter DEF PromiseInv, Sound
  <1>2. HostsAsBefore
    BY DEF HostsAsBefore
  <1>3. AncestryInv'
    BY <1>1, <1>2, AncestryKept
  <1>4. /\ twins' = twins \cup {h \in known : \/ \E u \in Threads \ {t} : h \in Range(taming[u])
                                              \/ (InfosOf(h) # {} /\ h # Last(s))}
        /\ taming'[t] = Front(s) /\ pc'[t] \in {"idle", "drop"}
        /\ \A u \in Threads \ {t} : taming'[u] = taming[u] /\ pc'[u] = pc[u]
    <2>1. /\ twins' = twins \cup {h \in known : \/ \E u \in Threads \ {t} : h \in Range(taming[u])
                                                \/ (InfosOf(h) # {} /\ h # Last(s))}
          /\ taming' = [taming EXCEPT ![t] = Front(s)]
          /\ pc' = [pc EXCEPT ![t] = "idle"] \/ pc' = [pc EXCEPT ![t] = "drop"]
      BY Zenon DEF ReturnPromise, Goto
    <2>2. DOMAIN taming = Threads /\ DOMAIN pc = Threads
      BY <1>1 DEF TypeOK
    <2> QED
      BY <2>1, <2>2
  <1>5. \A u \in Threads : pc'[u] # "restore"
    BY <1>1, <1>4, UnlockedMeans
  <1>6. DescendingInv'
    BY <1>5 DEF DescendingInv, Descending
  <1>7. MeaningInv'
    <2>1. ASSUME NEW i, i \in DOMAIN m_Memory', m_Memory'[i].host # 0
          PROVE  Describes(i, m_Memory[i].host)'
      <3>1. CASE i \in changed
        BY <2>1, <3>1 DEF Introduces
      <3>2. CASE i \notin changed
        <4>1. PICK k : k = m_Memory[i].host
          OBVIOUS
        <4>2. i \in DOMAIN m_Memory /\ m_Memory'[i].host = k
          BY <2>1, <3>2, <4>1 DEF Introduces
        <4>3. Describes(i, k) /\ k \in DOMAIN hosts'
          BY <1>1, <2>1, <4>1, <4>2 DEF MeaningInv, Sound
        <4>4. Describes(i, k)'
          BY <1>1, <1>2, <2>1, <4>3, DescribesKept
        <4> QED
          BY <4>2, <4>4 DEF Describes
      <3> QED
        BY <3>1, <3>2
    <2> QED
      BY <2>1 DEF MeaningInv
  <1>8. OvertakenInv'
    <2> SUFFICES ASSUME NEW u \in Threads, NEW j, j \in 1..Len(taming'[u]),
                        Missed(u, j)', InfosOf(taming[u][j])' # {}
                 PROVE  taming'[u][j] \in twins'
      BY DEF OvertakenInv, Overtaken
    <2>1. PICK h : h = taming'[u][j]
      OBVIOUS
    <2>2. PICK i \in DOMAIN m_Memory' : m_Memory'[i].host = h
      BY <2>1 DEF InfosOf
    <2>3. i \notin changed => InfosOf(h) # {}
      BY <2>2 DEF InfosOf, Introduces
    <2>4. CASE u # t
      <3>1. taming[u][j] = h /\ j \in 1..Len(taming[u]) /\ Missed(u, j)
        BY <1>4, <2>1, <2>4 DEF Missed
      <3>2. CASE i \in changed
        <4>1. h \in known
          BY <2>2, <3>2 DEF Introduces
        <4>2. h \in Range(taming[u])
          <5>1. taming[u] \in Seq(Hosts)
            BY <1>1 DEF TypeOK
          <5>2. j \in DOMAIN taming[u]
            BY <3>1, <5>1, LenProperties
          <5> QED
            BY <3>1, <5>2 DEF Range
        <4> QED
          BY <1>4, <2>1, <2>4, <4>1, <4>2
      <3>3. CASE i \notin changed
        <4>1. h \in twins
          BY <1>1, <2>3, <3>1, <3>3 DEF OvertakenInv, Overtaken
        <4> QED
          BY <1>4, <2>1, <4>1
      <3> QED
        BY <3>2, <3>3
    <2>5. CASE u = t
      <3>1. j \in 1..Len(s) - 1 /\ j < Len(s) /\ j \in 1..Len(s) /\ s[j] = h
        <4>1. s \in Seq(Hosts) /\ s # <<>>
          BY DEF Stack
        <4>2. /\ Len(s) \in Nat \ {0} /\ Len(Front(s)) = Len(s) - 1
              /\ \A k \in 1..Len(s) - 1 : Front(s)[k] = s[k]
          BY <4>1, FrontFacts
        <4> QED
          BY <1>4, <2>1, <2>5, <4>2
      <3>2. i \notin changed
        BY <2>2, <3>1 DEF Introduces
      <3>3. Len(s) # 1
        BY <3>1
      <3>4. s = taming[t]
        BY <3>3 DEF OnStack
      <3>5. Missed(t, j)
        BY <3>1, <3>4 DEF Missed
      <3>6. h \in twins
        BY <1>1, <2>3, <3>1, <3>2, <3>4, <3>5 DEF OvertakenInv, Overtaken
      <3> QED
        BY <1>4, <2>1, <3>6
    <2> QED
      BY <2>4, <2>5
  <1>9. OneInfoPerHost'
    <2> SUFFICES ASSUME NEW i, i \in DOMAIN m_Memory', NEW j, j \in DOMAIN m_Memory', i # j,
                        m_Memory'[i].host = m_Memory'[j].host, m_Memory'[i].host # 0
                 PROVE  m_Memory'[i].host \in twins'
      BY DEF OneInfoPerHost
    <2>1. PICK h : h = m_Memory'[i].host
      OBVIOUS
    <2>2. ~(i \in changed /\ j \in changed)
      BY DEF Introduces
    <2>3. CASE i \notin changed /\ j \notin changed
      <3>1. /\ i \in DOMAIN m_Memory /\ j \in DOMAIN m_Memory
            /\ m_Memory[i].host = h /\ m_Memory[j].host = h
        BY <2>1, <2>3 DEF Introduces
      <3>2. h \in twins
        BY <1>1, <2>1, <3>1 DEF OneInfoPerHost
      <3> QED
        BY <1>4, <2>1, <3>2
    <2>4. CASE i \in changed \/ j \in changed
      <3>1. h \in known /\ InfosOf(h) # {}
        BY <2>1, <2>2, <2>4 DEF InfosOf, Introduces
      <3>2. CASE h = Last(s)
        <4>1. h \in twins
          BY <3>1, <3>2 DEF Unclaimed
        <4> QED
          BY <1>4, <2>1, <4>1
      <3>3. CASE h # Last(s)
        BY <1>4, <2>1, <3>1, <3>3
      <3> QED
        BY <3>2, <3>3
    <2> QED
      BY <2>3, <2>4
  <1> QED
    BY <1>3, <1>6, <1>7, <1>8, <1>9 DEF PromiseInv

LEMMA TameVFSKeepsPromises ==
  ASSUME PromiseInv, IInv', NEW t \in Threads, NEW s, Stack(s), TameVFS(t, s), OnStack(t, s),
         pc[t] # "build"
  PROVE  PromiseInv'
  <1>1. /\ IInv /\ AncestryInv /\ MeaningInv /\ OvertakenInv /\ OneInfoPerHost
        /\ Sound /\ TypeOK /\ HostsInv /\ RestoringInv /\ UplinksKept /\ WantedInv
    BY IInvFacts DEF PromiseInv, Sound, IInv
  <1>2. PICK h : h = Last(s)
    OBVIOUS
  <1>3. /\ Unlocked /\ hosts' = hosts /\ restoring' = restoring /\ parent_host' = parent_host
    BY DEF TameVFS
  <1>4. h \in DOMAIN hosts /\ s \in Seq(Hosts) /\ s # <<>>
    <2>1. s \in Seq(Hosts) /\ s # <<>> /\ ToSet(s) \subseteq DOMAIN hosts
      BY DEF Stack
    <2> QED
      BY <1>2, <2>1, ToSetLast
  <1>5. CASE InfosOf(h) # {}
    <2>1. PICK id : id = Min(InfosOf(h))
      OBVIOUS
    <2>2. m_Memory' = Counted(m_Memory, id) /\ ReturnPromise(t, s, id, {})
      BY <1>2, <1>5, <2>1 DEF TameVFS
    <2>3. /\ InfosAsBefore
          /\ \A i \in DOMAIN m_Memory' : i \in DOMAIN m_Memory /\ m_Memory'[i].host = m_Memory[i].host
      BY <1>1, <2>2, CountedAsBefore
    <2>4. PICK none : none = {}
      OBVIOUS
    <2>5. /\ ReturnPromise(t, s, id, none) /\ none = {}
          /\ Introduces(none, none)
          /\ \A j \in 1..Len(s) - 1 : s[j] \notin none
      BY <2>2, <2>3, <2>4 DEF Introduces
    <2> QED
      BY <1>3, <2>3, <2>5, TamedKeepsPromises
  <1>6. CASE InfosOf(h) = {} /\ Matches(h)
    <2>1. PICK front : front = Min(Candidates(h))
      OBVIOUS
    <2>2. PICK known : known = {link[2] : link \in Refreshed(h)}
      OBVIOUS
    <2>3. PICK links : links = Chain(front, h)
      OBVIOUS
    <2>4. /\ m_Memory' = Counted(
                 [id \in DOMAIN m_Memory |->
                     [m_Memory[id] EXCEPT !.host =
                         IF \E link \in Refreshed(h) : link[1] = id
                           THEN (CHOOSE link \in Refreshed(h) : link[1] = id)[2] ELSE @]],
                 Min(Candidates(h)))
          /\ ReturnPromise(t, s, front, known)
      BY <1>2, <1>6, <2>1, <2>2, Zenon DEF TameVFS
    <2>5. /\ front \in DOMAIN m_Memory
          /\ DOMAIN m_Memory' = DOMAIN m_Memory
          /\ \A i \in DOMAIN m_Memory :
                 /\ m_Memory'[i].config = m_Memory[i].config
                 /\ m_Memory'[i].parent = m_Memory[i].parent
                 /\ \/ m_Memory'[i].host = m_Memory[i].host
                    \/ m_Memory'[i].host \in known /\ <<i, m_Memory'[i].host>> \in links
          /\ known \subseteq DOMAIN hosts
      <3>1. /\ Min(Candidates(h)) \in DOMAIN m_Memory
            /\ DOMAIN m_Memory' = DOMAIN m_Memory
            /\ \A i \in DOMAIN m_Memory :
                   /\ m_Memory'[i].config = m_Memory[i].config
                   /\ m_Memory'[i].parent = m_Memory[i].parent
                   /\ \/ m_Memory'[i].host = m_Memory[i].host
                      \/ /\ m_Memory'[i].host \in {link[2] : link \in Refreshed(h)}
                         /\ <<i, m_Memory'[i].host>> \in Chain(Min(Candidates(h)), h)
            /\ {link[2] : link \in Refreshed(h)} \subseteq DOMAIN hosts
        BY <1>1, <1>4, <1>6, <2>4, Rehosted
      <3> QED
        BY <2>1, <2>2, <2>3, <3>1
    <2>6. InfosAsBefore
      BY <2>5 DEF InfosAsBefore
    <2>7. PICK bound \in Nat : \E rank : Ranked(rank, bound)
      BY <1>1 DEF AncestryInv
    <2>8. PICK rank : Ranked(rank, bound)
      BY <2>7
    <2>9. /\ \A a \in links : rank[a[2]] <= rank[h]
          /\ \A a, b \in links : a[2] = b[2] => a = b
      BY <1>1, <1>4, <2>3, <2>5, <2>8, ChainLinks
    <2>10. Matched(links)
      BY <1>1, <1>4, <1>6, <2>1, <2>3, <2>5, <2>8, SuccessorMatched
    <2>11. Matched(links)'
      <3>1. links \subseteq (DOMAIN m_Memory') \X (DOMAIN hosts')
        BY <1>3, <2>5, <2>10 DEF Matched
      <3>2. ASSUME NEW link \in links
            PROVE  /\ m_Memory'[link[1]].config = hosts'[link[2]].config
                   /\ \/ m_Memory'[link[1]].parent = 0 /\ hosts'[link[2]].parent = 0
                      \/ <<m_Memory'[link[1]].parent, hosts'[link[2]].parent>> \in links
        <4>1. link[1] \in DOMAIN m_Memory
          BY <2>10 DEF Matched
        <4>2. /\ m_Memory'[link[1]].config = m_Memory[link[1]].config
              /\ m_Memory'[link[1]].parent = m_Memory[link[1]].parent
          BY <2>5, <4>1
        <4> QED
          BY <1>3, <2>10, <4>2 DEF Matched
      <3> QED
        BY <3>1, <3>2 DEF Matched
    <2>12. PICK changed : changed = {i \in DOMAIN m_Memory : m_Memory'[i].host # m_Memory[i].host}
      OBVIOUS
    <2>13. \A i \in changed : m_Memory'[i].host \in known /\ <<i, m_Memory'[i].host>> \in links
      BY <2>5, <2>12
    <2>14. \A i \in changed : Describes(i, m_Memory[i].host)'
      BY <2>11, <2>13 DEF Describes
    <2>15. \A i, j \in changed \cap DOMAIN m_Memory' :
               m_Memory'[i].host = m_Memory'[j].host => i = j
      <3>1. ASSUME NEW i \in changed, NEW j \in changed, m_Memory'[i].host = m_Memory'[j].host
            PROVE  i = j
        <4>1. PICK k : k = m_Memory'[i].host
          OBVIOUS
        <4>2. <<i, k>> \in links /\ <<j, k>> \in links
          BY <2>13, <3>1, <4>1
        <4>3. <<i, k>> = <<j, k>>
          BY <2>9, <4>2
        <4> QED
          BY <4>3
      <3> QED
        BY <3>1
    <2>16. Introduces(changed, known)
      BY <2>5, <2>12, <2>13, <2>14, <2>15 DEF Introduces
    <2>17. \A j \in 1..Len(s) - 1 : s[j] \notin known
      <3>1. ASSUME NEW j \in 1..Len(s) - 1, s[j] \in known
            PROVE  FALSE
        <4>1. rank[h] < rank[s[j]]
          BY <1>2, <2>8, StackRanks
        <4>2. PICK link \in links : link[2] = s[j]
          BY <2>1, <2>2, <2>3, <3>1 DEF Refreshed
        <4>3. rank[s[j]] <= rank[h]
          BY <2>9, <4>2
        <4>4. rank[s[j]] \in Int /\ rank[h] \in Int
          BY <1>4, <2>5, <2>8, <3>1 DEF Ranked
        <4> QED
          BY <4>1, <4>3, <4>4
      <3> QED
        BY <3>1
    <2>18. Unclaimed(Last(s))
      BY <1>2, <1>6 DEF Unclaimed
    <2>19. ReturnPromise(t, s, front, known)
      BY <2>4
    <2>20. Unlocked /\ hosts' = hosts /\ restoring' = restoring
      BY <1>3
    <2> QED
      BY <2>6, <2>17, <2>16, <2>18, <2>19, <2>20, TamedKeepsPromises
  <1>7. CASE InfosOf(h) = {} /\ ~Matches(h)
    <2>1. PICK p : p = hosts[h].parent
      OBVIOUS
    <2>2. PICK stack : stack = IF p = 0 THEN s ELSE Append(s, p)
      OBVIOUS
    <2>3. /\ taming' = [taming EXCEPT ![t] = stack]
          /\ pc' = [pc EXCEPT ![t] = IF p = 0 THEN "build" ELSE "tame"]
          /\ m_Memory' = m_Memory /\ twins' = twins
      BY <1>2, <1>7, <2>1, <2>2 DEF TameVFS, Goto
    <2>4. /\ taming'[t] = stack /\ pc'[t] = IF p = 0 THEN "build" ELSE "tame"
          /\ \A u \in Threads \ {t} : pc'[u] = pc[u] /\ taming'[u] = taming[u]
      BY <1>1, <2>3 DEF TypeOK
    <2>5. /\ Len(s) \in Nat \ {0} /\ s[Len(s)] = h
          /\ IF p = 0 THEN Len(stack) = Len(s) ELSE Len(stack) = Len(s) + 1
          /\ \A j \in 1..Len(s) : stack[j] = s[j]
      <3>1. Len(s) \in Nat \ {0} /\ s[Len(s)] = h
        BY <1>2, <1>4, FrontFacts
      <3>2. CASE p = 0
        BY <2>2, <3>1, <3>2
      <3>3. CASE p # 0
        <4>1. p \in Hosts
          BY <1>1, <1>4, <2>1, <3>3 DEF Sound
        <4> QED
          BY <1>4, <2>2, <3>1, <3>3, <4>1, AppendProperties
      <3> QED
        BY <3>2, <3>3
    <2>6. MeaningInv' /\ OneInfoPerHost' /\ AncestryInv'
      <3>1. OneInfoPerHost' /\ AncestryInv'
        BY <1>1, <1>3, <2>3 DEF OneInfoPerHost, AncestryInv, Ranked
      <3>2. MeaningInv'
        <4>1. ASSUME NEW i \in DOMAIN m_Memory, m_Memory[i].host # 0
              PROVE  Describes(i, m_Memory[i].host)'
          <5>1. Describes(i, m_Memory[i].host)
            BY <1>1, <4>1 DEF MeaningInv
          <5> QED
            BY <1>3, <2>3, <5>1 DEF Describes, Matched
        <4> QED
          BY <2>3, <4>1 DEF MeaningInv
      <3> QED
        BY <3>1, <3>2
    <2>7. DescendingInv'
      <3>1. \A u \in Threads : pc'[u] # "restore"
        BY <1>1, <1>3, <2>4, UnlockedMeans
      <3> QED
        BY <3>1 DEF DescendingInv, Descending
    <2>8. OvertakenInv'
      <3> SUFFICES ASSUME NEW u \in Threads, NEW j, j \in 1..Len(taming'[u]),
                          Missed(u, j)', InfosOf(taming[u][j])' # {}
                   PROVE  taming'[u][j] \in twins'
        BY DEF OvertakenInv, Overtaken
      <3>1. PICK k : k = taming'[u][j]
        OBVIOUS
      <3>2. InfosOf(k) # {}
        BY <2>3, <3>1 DEF InfosOf
      <3>3. CASE u # t
        <4>1. j \in 1..Len(taming[u]) /\ Missed(u, j) /\ taming[u][j] = k
          BY <2>4, <3>1, <3>3 DEF Missed
        <4>2. k \in twins
          BY <1>1, <3>2, <4>1 DEF OvertakenInv, Overtaken
        <4> QED
          BY <2>3, <3>1, <4>2
      <3>4. CASE u = t
        <4>1. j \in 1..Len(s)
          <5>1. CASE p = 0
            BY <2>4, <2>5, <3>4, <5>1
          <5>2. CASE p # 0
            <6>1. j < Len(stack)
              BY <2>4, <3>4, <5>2 DEF Missed
            <6>2. j \in 1..Len(stack)
              BY <2>4, <3>4
            <6> QED
              BY <2>5, <5>2, <6>1, <6>2
          <5> QED
            BY <5>1, <5>2
        <4>2. k = s[j]
          BY <2>4, <2>5, <3>1, <3>4, <4>1
        <4>3. j # Len(s)
          BY <1>7, <2>5, <3>2, <4>2
        <4>4. Len(s) # 1 /\ j < Len(s)
          BY <2>5, <4>1, <4>3
        <4>5. s = taming[t]
          BY <4>4 DEF OnStack
        <4>6. Missed(t, j)
          BY <4>4, <4>5 DEF Missed
        <4>7. k \in twins
          BY <1>1, <3>2, <4>1, <4>2, <4>5, <4>6 DEF OvertakenInv, Overtaken
        <4> QED
          BY <2>3, <3>1, <4>7
      <3> QED
        BY <3>3, <3>4
    <2> QED
      BY <2>6, <2>7, <2>8 DEF PromiseInv
  <1> QED
    BY <1>5, <1>6, <1>7

LEMMA BuildInfoKeepsPromises ==
  ASSUME PromiseInv, IInv', NEW t \in Threads, BuildInfo(t)
  PROVE  PromiseInv'
  <1>1. /\ IInv /\ AncestryInv /\ MeaningInv /\ OvertakenInv /\ OneInfoPerHost
        /\ Sound /\ TypeOK /\ HostsInv /\ RestoringInv /\ UplinksKept /\ TamingInv
    BY IInvFacts DEF PromiseInv, Sound
  <1>2. PICK s : s = taming[t]
    OBVIOUS
  <1>3. PICK h : h = Last(s)
    OBVIOUS
  <1>4. PICK n : n = m_MemoryNextID
    OBVIOUS
  <1>5. PICK up : up = Uplink(h)
    OBVIOUS
  <1>6. /\ pc[t] = "build" /\ Unlocked /\ n <= MaxInfos
        /\ m_Memory' = [id \in DOMAIN m_Memory \cup {n} |->
                           IF id = n
                             THEN [config |-> hosts[h].config, parent |-> up, host |-> h, count |-> 1]
                             ELSE Linked(m_Memory, up)[id]]
        /\ ReturnPromise(t, s, n, {h})
        /\ hosts' = hosts /\ restoring' = restoring
    BY <1>2, <1>3, <1>4, <1>5, Zenon DEF BuildInfo
  <1>7. Stack(s) /\ OnStack(t, s) /\ h \in DOMAIN hosts /\ ParentKnown(h)
    <2>1. s # <<>>
      BY <1>1, <1>2, <1>6 DEF TamingInv, Taming
    <2>2. s \in Seq(Hosts) /\ ToSet(s) \subseteq DOMAIN hosts /\ h \in DOMAIN hosts
      BY <1>1, <1>2, <1>3, <2>1, TamedHosts
    <2>3. Stack(s) /\ ParentKnown(h)
      BY <1>1, <1>2, <1>3, <1>6, <2>1, <2>2 DEF Stack, TamingInv, Taming
    <2> QED
      BY <1>2, <1>6, <2>2, <2>3 DEF OnStack
  <1>8. /\ n \notin DOMAIN m_Memory
        /\ up \in DOMAIN m_Memory \cup {0}
        /\ up = 0 \/ m_Memory[up].host = hosts[h].parent
        /\ up = 0 <=> hosts[h].parent = 0 \/ InfosOf(hosts[h].parent) = {}
        /\ DOMAIN m_Memory' = DOMAIN m_Memory \cup {n}
        /\ m_Memory'[n].config = hosts[h].config /\ m_Memory'[n].parent = up
        /\ m_Memory'[n].host = h
        /\ \A i \in DOMAIN m_Memory : /\ m_Memory'[i].config = m_Memory[i].config
                                      /\ m_Memory'[i].parent = m_Memory[i].parent
                                      /\ m_Memory'[i].host = m_Memory[i].host
    BY <1>1, <1>4, <1>5, <1>6, <1>7, BuiltInfos
  <1>9. InfosAsBefore /\ HostsAsBefore
    BY <1>6, <1>8 DEF InfosAsBefore, HostsAsBefore
  <1>10. Describes(n, h)'
    <2>1. PICK p : p = hosts[h].parent
      OBVIOUS
    <2>2. up = 0 <=> p = 0
      BY <1>7, <1>8, <2>1 DEF ParentKnown
    <2>3. ASSUME up # 0
          PROVE  Describes(up, p)'
      <3>1. p # 0 /\ p \in DOMAIN hosts /\ up \in DOMAIN m_Memory /\ m_Memory[up].host = p
        BY <1>1, <1>7, <1>8, <2>1, <2>2, <2>3 DEF Sound
      <3>2. Describes(up, p)
        BY <1>1, <3>1 DEF MeaningInv
      <3> QED
        BY <1>1, <1>6, <1>8, <1>9, <3>1, <3>2, DescribesKept
    <2>4. /\ m_Memory'[n].config = hosts'[h].config
          /\ m_Memory'[n].parent = up /\ hosts'[h].parent = p
          /\ n \in DOMAIN m_Memory' /\ h \in DOMAIN hosts'
      BY <1>6, <1>7, <1>8, <2>1
    <2>5. \/ m_Memory'[n].parent = 0 /\ hosts'[h].parent = 0
          \/ Describes(m_Memory[n].parent, hosts[h].parent)'
      BY <2>2, <2>3, <2>4 DEF Describes
    <2> QED
      BY <2>4, <2>5, DescribesOneAfter
  <1>11. PICK known : known = {h}
    OBVIOUS
  <1>12. PICK changed : changed = {n}
    OBVIOUS
  <1>13. Describes(n, m_Memory[n].host)'
    BY <1>8, <1>10 DEF Describes
  <1>14. Introduces(changed, known)
    BY <1>8, <1>11, <1>12, <1>13 DEF Introduces
  <1>16. \A j \in 1..Len(s) - 1 : s[j] \notin known
    <2>1. ASSUME NEW j \in 1..Len(s) - 1, s[j] = h
          PROVE  FALSE
      <3>1. PICK bound \in Nat : \E rank : Ranked(rank, bound)
        BY <1>1 DEF AncestryInv
      <3>2. PICK rank : Ranked(rank, bound)
        BY <3>1
      <3>3. rank[h] < rank[h]
        BY <1>3, <1>7, <2>1, <3>2, StackRanks
      <3>4. rank[h] \in Int
        BY <1>7, <3>2 DEF Ranked
      <3> QED
        BY <3>3, <3>4
    <2> QED
      BY <1>11, <2>1
  <1>17. InfosOf(h) = {} \/ h \in twins
    <2>1. Len(s) \in Nat \ {0} /\ s[Len(s)] = h
      BY <1>3, <1>7, FrontFacts DEF Stack
    <2>2. Missed(t, Len(s)) /\ Len(s) \in 1..Len(s)
      BY <1>6, <2>1 DEF Missed
    <2> QED
      BY <1>1, <1>2, <2>1, <2>2 DEF OvertakenInv, Overtaken
  <1>18. ReturnPromise(t, s, n, known)
    BY <1>6, <1>11
  <1>19. Unclaimed(Last(s))
    BY <1>3, <1>17 DEF Unclaimed
  <1>20. Unlocked /\ hosts' = hosts /\ restoring' = restoring
    BY <1>6
  <1> QED
    BY <1>7, <1>9, <1>14, <1>16, <1>18, <1>19, <1>20, TamedKeepsPromises

LEMMA CallTameVFSKeepsPromises ==
  ASSUME PromiseInv, IInv', NEW t \in Threads, NEW h \in held, CallTameVFS(t, h)
  PROVE  PromiseInv'
  <1>1. pc[t] = "idle" /\ TameVFS(t, <<h>>)
    BY DEF CallTameVFS
  <1>2. h \in DOMAIN hosts /\ h \in Hosts
    BY DEF PromiseInv, IInv, TypeOK
  <1>3. <<h>> \in Seq(Hosts) /\ Len(<<h>>) = 1 /\ ToSet(<<h>>) = {h}
    BY <1>2, ToSetOne
  <1>4. Stack(<<h>>) /\ OnStack(t, <<h>>)
    BY <1>1, <1>2, <1>3 DEF Stack, OnStack
  <1> QED
    BY <1>1, <1>4, TameVFSKeepsPromises

LEMMA TameParentKeepsPromises ==
  ASSUME PromiseInv, IInv', NEW t \in Threads, TameParent(t)
  PROVE  PromiseInv'
  <1>1. PICK s : s = taming[t]
    OBVIOUS
  <1>2. pc[t] = "tame" /\ TameVFS(t, s) /\ OnStack(t, s)
    BY <1>1 DEF TameParent, OnStack
  <1>3. TypeOK /\ HostsInv /\ Taming(t)
    BY DEF PromiseInv, IInv, TamingInv
  <1>4. s \in Seq(Hosts) /\ ToSet(s) \subseteq DOMAIN hosts
    BY <1>1, <1>3, TamedHosts
  <1>5. s # <<>> /\ \A j \in 1..Len(s) - 1 : hosts[s[j]].parent = s[j + 1]
    BY <1>1, <1>2, <1>3 DEF Taming
  <1>6. Stack(s)
    BY <1>4, <1>5 DEF Stack
  <1> QED
    BY <1>2, <1>6, TameVFSKeepsPromises

LEMMA InitPromiseInv == Init => PromiseInv
  <1> SUFFICES ASSUME Init PROVE PromiseInv
    OBVIOUS
  <1>1. DOMAIN hosts = {} /\ DOMAIN m_Memory = {}
    BY DEF Init
  <1>2. IInv
    BY InitIInv
  <1>3. AncestryInv
    <2> DEFINE rank == [h \in {0} |-> 0]
    <2>1. rank \in [DOMAIN hosts \cup {0} -> 0..0]
      BY <1>1
    <2>2. Ranked(rank, 0)
      BY <1>1, <2>1 DEF Ranked
    <2> QED
      BY <2>2 DEF AncestryInv
  <1>4. MeaningInv /\ OneInfoPerHost
    BY <1>1 DEF MeaningInv, OneInfoPerHost
  <1>5. DescendingInv
    BY DEF Init, DescendingInv, Descending
  <1>6. OvertakenInv
    BY <1>1 DEF OvertakenInv, Overtaken, InfosOf
  <1> QED
    BY <1>2, <1>3, <1>4, <1>5, <1>6 DEF PromiseInv

LEMMA NextPromiseInv == PromiseInv /\ [Next]_vars => PromiseInv'
  <1> SUFFICES ASSUME PromiseInv, [Next]_vars PROVE PromiseInv'
    OBVIOUS
  <1>0. IInv'
    BY NextStep DEF PromiseInv
  <1>1. ASSUME NEW t \in Threads, Step(t)
        PROVE  PromiseInv'
    BY <1>0, <1>1, TameParentKeepsPromises, DropResultKeepsPromises, BuildInfoKeepsPromises,
       SpawnKeepsPromises, SpawnFailsKeepsPromises DEF Step
  <1>2. CASE Call
    <2>1. ASSUME NEW t \in Threads, NEW h \in held, CallTameVFS(t, h)
          PROVE  PromiseInv'
      BY <1>0, <2>1, CallTameVFSKeepsPromises
    <2>2. ASSUME NEW t \in Threads, NEW id \in Ids, RetrieveVFS(t, id)
          PROVE  PromiseInv'
      BY <1>0, <2>2, RetrieveVFSKeepsPromises
    <2>3. ASSUME NEW config \in Configs, NEW parent \in held \cup {0}, Open(config, parent)
          PROVE  PromiseInv'
      BY <1>0, <2>3, OpenKeepsPromises
    <2>4. ASSUME NEW h \in held, Close(h)
          PROVE  PromiseInv'
      BY <1>0, <2>4, CloseKeepsPromises
    <2>5. ASSUME NEW id \in Ids, GivePromise(id) \/ DropPromise(id)
          PROVE  PromiseInv'
      BY <1>0, <2>5, GivePromiseKeepsPromises, DropPromiseKeepsPromises
    <2> QED
      BY <1>2, <2>1, <2>2, <2>3, <2>4, <2>5 DEF Call
  <1>3. ASSUME NEW h \in DOMAIN hosts, Destroy(h)
        PROVE  PromiseInv'
    BY <1>0, <1>3, DestroyKeepsPromises
  <1>4. ASSUME NEW id \in Ids, DecInBackground(id)
        PROVE  PromiseInv'
    BY <1>0, <1>4, DropPromiseKeepsPromises
  <1>5. CASE UNCHANGED vars
    BY <1>0, <1>5, StutteringKeepsPromises
  <1> QED
    BY <1>1, <1>2, <1>3, <1>4, <1>5 DEF Next

\* The invariant behind the next two theorems: hosts are not within themselves, infos
\* describe their hosts, a thread that spawns hosts goes down the chain that described the
\* last one, and a host that got an info behind a thread's back is among the excused ones.
THEOREM PromiseInvariant == Spec => []PromiseInv
  <1>1. Init => PromiseInv
    BY InitPromiseInv
  <1>2. PromiseInv /\ [Next]_vars => PromiseInv'
    BY NextPromiseInv
  <1> QED
    BY <1>1, <1>2, PTL DEF Spec

\* Promises for one host are equal: EnrollAliveHost(), the chains that TameVFS() matches and
\* RetrieveVFS() give no host to two infos, unless a thread made the host known behind the
\* back of another one, or an older chain took the parent of the host that was tamed.
THEOREM OneInfoPerHostHolds == Spec => []OneInfoPerHost
  <1>1. PromiseInv => OneInfoPerHost
    BY DEF PromiseInv
  <1> QED
    BY <1>1, PromiseInvariant, PTL

\* The recursive functions of PromiseMeansItsHost exist.
LEMMA RememberedExists ==
  ASSUME Sound
  PROVE  LET remembered[id \in DOMAIN m_Memory \cup {0}] ==
                 IF id = 0 THEN <<>> ELSE <<m_Memory[id].config>> \o remembered[m_Memory[id].parent]
         IN  remembered = [id \in DOMAIN m_Memory \cup {0} |->
                              IF id = 0 THEN <<>>
                              ELSE <<m_Memory[id].config>> \o remembered[m_Memory[id].parent]]
  <1> DEFINE P == DOMAIN m_Memory \cup {0}
             V == Seq(Configs)
             par == [i \in P |-> IF i = 0 THEN 0 ELSE m_Memory[i].parent]
             v0 == <<>>
             G == [p \in P \X V |-> IF p[1] = 0 THEN <<>> ELSE <<m_Memory[p[1]].config>> \o p[2]]
  <1>1. P \in SUBSET (0..MaxInfos) /\ MaxInfos \in Nat
    BY ConstantFacts DEF Sound, UplinksKept
  <1>2. par \in [P -> P] /\ \A i \in P : i # 0 => par[i] < i
    BY DEF Sound
  <1>3. v0 \in V /\ G \in [P \X V -> V]
    <2>1. v0 \in V
      OBVIOUS
    <2>2. ASSUME NEW p \in P \X V, p[1] # 0
          PROVE  <<m_Memory[p[1]].config>> \o p[2] \in V
      <3>1. p[1] \in DOMAIN m_Memory /\ p[2] \in V
        BY <2>2
      <3>2. m_Memory[p[1]].config \in Configs
        BY <3>1, InfoFacts DEF Sound, TypeOK
      <3>3. <<m_Memory[p[1]].config>> \in Seq(Configs)
        BY <3>2, ToSetOne
      <3> QED
        BY <3>1, <3>3, ToSetConcat
    <2> HIDE DEF V, P
    <2> QED
      BY <2>1, <2>2
  <1>4. PICK f : Solution(f, P, par, V, v0, G)
    <2> HIDE DEF P, V, par, v0, G
    <2> QED
      BY <1>1, <1>2, <1>3, ParentRecursion
  <1>5. /\ f = [i \in P |-> f[i]]
        /\ \A i \in P : f[i] \in V /\ f[i] = IF i = 0 THEN v0 ELSE G[<<i, f[par[i]]>>]
    <2> HIDE DEF P, V, par, v0, G
    <2> QED
      BY <1>4 DEF Solution
  <1>6. ASSUME NEW i \in P
        PROVE  f[i] = IF i = 0 THEN <<>> ELSE <<m_Memory[i].config>> \o f[m_Memory[i].parent]
    <2>1. CASE i = 0
      BY <1>5, <2>1
    <2>2. CASE i # 0
      <3>1. par[i] = m_Memory[i].parent /\ par[i] \in P
        BY <1>2, <2>2
      <3>2. <<i, f[par[i]]>> \in P \X V
        <4> HIDE DEF par, V, P
        <4> QED
          BY <1>5, <3>1
      <3>3. G[<<i, f[par[i]]>>] = <<m_Memory[i].config>> \o f[par[i]]
        <4> HIDE DEF par, V, P
        <4> QED
          BY <2>2, <3>2
      <3> HIDE DEF par, V, P, G
      <3> QED
        BY <1>5, <2>2, <3>1, <3>3
    <2> QED
      BY <2>1, <2>2
  <1>7. f = [i \in P |-> IF i = 0 THEN <<>> ELSE <<m_Memory[i].config>> \o f[m_Memory[i].parent]]
    BY <1>5, <1>6
  <1> QED
    BY <1>7

LEMMA ActualExists ==
  ASSUME Sound, AncestryInv
  PROVE  LET actual[h \in DOMAIN hosts \cup {0}] ==
                 IF h = 0 THEN <<>> ELSE <<hosts[h].config>> \o actual[hosts[h].parent]
         IN  actual = [h \in DOMAIN hosts \cup {0} |->
                          IF h = 0 THEN <<>> ELSE <<hosts[h].config>> \o actual[hosts[h].parent]]
  <1>0. PICK bound \in Nat : \E rank : Ranked(rank, bound)
    BY DEF AncestryInv
  <1>1. PICK rank : Ranked(rank, bound)
    BY <1>0
  <1> DEFINE P == DOMAIN hosts \cup {0}
             V == Seq(Configs)
             par == [h \in P |-> IF h = 0 THEN 0 ELSE hosts[h].parent]
             v0 == <<>>
             G == [p \in P \X V |-> IF p[1] = 0 THEN <<>> ELSE <<hosts[p[1]].config>> \o p[2]]
  <1>2. /\ rank \in [P -> 0..bound]
        /\ par \in [P -> P] /\ \A h \in P : h # 0 => rank[par[h]] < rank[h]
    BY <1>1 DEF Sound, Ranked
  <1>3. v0 \in V /\ G \in [P \X V -> V]
    <2>1. v0 \in V
      OBVIOUS
    <2>2. ASSUME NEW p \in P \X V, p[1] # 0
          PROVE  <<hosts[p[1]].config>> \o p[2] \in V
      <3>1. p[1] \in DOMAIN hosts /\ p[2] \in V
        BY <2>2
      <3>2. hosts[p[1]].config \in Configs
        BY <3>1, HostFacts DEF Sound
      <3>3. <<hosts[p[1]].config>> \in Seq(Configs)
        BY <3>2, ToSetOne
      <3> QED
        BY <3>1, <3>3, ToSetConcat
    <2> HIDE DEF V, P
    <2> QED
      BY <2>1, <2>2
  <1>4. PICK f : Solution(f, P, par, V, v0, G)
    <2> HIDE DEF P, V, par, v0, G
    <2> QED
      BY <1>2, <1>3, RankedRecursion
  <1>5. /\ f = [h \in P |-> f[h]]
        /\ \A h \in P : f[h] \in V /\ f[h] = IF h = 0 THEN v0 ELSE G[<<h, f[par[h]]>>]
    <2> HIDE DEF P, V, par, v0, G
    <2> QED
      BY <1>4 DEF Solution
  <1>6. ASSUME NEW h \in P
        PROVE  f[h] = IF h = 0 THEN <<>> ELSE <<hosts[h].config>> \o f[hosts[h].parent]
    <2>1. CASE h = 0
      BY <1>5, <2>1
    <2>2. CASE h # 0
      <3>1. par[h] = hosts[h].parent /\ par[h] \in P
        BY <1>2, <2>2
      <3>2. <<h, f[par[h]]>> \in P \X V
        <4> HIDE DEF par, V, P
        <4> QED
          BY <1>5, <3>1
      <3>3. G[<<h, f[par[h]]>>] = <<hosts[h].config>> \o f[par[h]]
        <4> HIDE DEF par, V, P
        <4> QED
          BY <2>2, <3>2
      <3> HIDE DEF par, V, P, G
      <3> QED
        BY <1>5, <2>2, <3>1, <3>3
    <2> QED
      BY <2>1, <2>2
  <1>7. f = [h \in P |-> IF h = 0 THEN <<>> ELSE <<hosts[h].config>> \o f[hosts[h].parent]]
    BY <1>5, <1>6
  <1> QED
    BY <1>7

\* A promise leads to the file system it was given for: whatever host an info has been given
\* by TameVFS() or RetrieveVFS(), it and those it is in have the remembered configurations.
THEOREM PromiseMeansItsHostHolds == Spec => []PromiseMeansItsHost
  <1>1. PromiseInv => PromiseMeansItsHost
    <2> SUFFICES ASSUME PromiseInv PROVE PromiseMeansItsHost
      OBVIOUS
    <2>1. Sound /\ AncestryInv /\ MeaningInv
      BY IInvFacts DEF PromiseInv
    <2> DEFINE remembered[id \in DOMAIN m_Memory \cup {0}] ==
                   IF id = 0 THEN <<>> ELSE <<m_Memory[id].config>> \o remembered[m_Memory[id].parent]
               actual[h \in DOMAIN hosts \cup {0}] ==
                   IF h = 0 THEN <<>> ELSE <<hosts[h].config>> \o actual[hosts[h].parent]
    <2>2. remembered = [id \in DOMAIN m_Memory \cup {0} |->
                           IF id = 0 THEN <<>>
                           ELSE <<m_Memory[id].config>> \o remembered[m_Memory[id].parent]]
      BY <2>1, RememberedExists, Zenon
    <2>3. actual = [h \in DOMAIN hosts \cup {0} |->
                       IF h = 0 THEN <<>> ELSE <<hosts[h].config>> \o actual[hosts[h].parent]]
      BY <2>1, ActualExists, Zenon
    <2> SUFFICES ASSUME NEW id \in DOMAIN m_Memory, ~Expired(m_Memory[id])
                 PROVE  remembered[id] = actual[m_Memory[id].host]
      BY Zenon DEF PromiseMeansItsHost
    <2> HIDE DEF remembered, actual
    <2>4. Describes(id, m_Memory[id].host)
      BY <2>1 DEF MeaningInv, Expired
    <2>5. PICK links : Matched(links) /\ <<id, m_Memory[id].host>> \in links
      BY <2>4 DEF Describes
    <2> DEFINE T == {link[1] : link \in {l \in links : remembered[l[1]] # actual[l[2]]}}
    <2>6. T = {}
      <3>1. SUFFICES ASSUME T # {} PROVE FALSE
        OBVIOUS
      <3>2. T \subseteq Nat
        BY <2>1, <2>5 DEF Matched, Sound
      <3>3. PICK i \in T : \A j \in T : i <= j
        <4> HIDE DEF T
        <4> QED
          BY <3>1, <3>2, LeastNumber
      <3>4. PICK link \in links : link[1] = i /\ remembered[i] # actual[link[2]]
        BY <3>3
      <3>5. PICK k : k = link[2]
        OBVIOUS
      <3>6. i \in DOMAIN m_Memory /\ k \in DOMAIN hosts /\ i # 0 /\ k # 0
        BY <2>1, <2>5, <3>4, <3>5 DEF Matched, Sound
      <3>7. PICK p : p = m_Memory[i].parent
        OBVIOUS
      <3>8. PICK q : q = hosts[k].parent
        OBVIOUS
      <3>9. /\ m_Memory[i].config = hosts[k].config
            /\ (p = 0 /\ q = 0) \/ <<p, q>> \in links
        BY <2>5, <3>4, <3>5, <3>7, <3>8 DEF Matched
      <3>10. p \in DOMAIN m_Memory \cup {0} /\ q \in DOMAIN hosts \cup {0} /\ p < i /\ i \in Nat
        BY <2>1, <3>6, <3>7, <3>8 DEF Sound
      <3>11. remembered[p] = actual[q]
        <4>1. CASE p = 0 /\ q = 0
          BY <2>2, <2>3, <4>1
        <4>2. CASE <<p, q>> \in links
          <5>1. p \in Nat
            BY <2>1, <2>5, <4>2 DEF Matched, Sound
          <5>2. ~(i <= p)
            BY <3>10, <5>1
          <5>3. p \notin T
            <6> HIDE DEF T
            <6> QED
              BY <3>3, <5>2
          <5> QED
            BY <4>2, <5>3
        <4> QED
          BY <3>9, <4>1, <4>2
      <3>12. remembered[i] = <<m_Memory[i].config>> \o remembered[p]
        BY <2>2, <3>6, <3>7
      <3>13. actual[k] = <<hosts[k].config>> \o actual[q]
        BY <2>3, <3>6, <3>8
      <3> QED
        BY <3>4, <3>5, <3>9, <3>11, <3>12, <3>13
    <2> QED
      BY <2>5, <2>6
  <1> QED
    BY <1>1, PromiseInvariant, PTL

=============================================================================
