---------------------------- MODULE VFSInstances ----------------------------
(***************************************************************************)
(* core::VFSInstanceManagerImpl and VFSInstancePromise                     *)
(* (NimbleCommander/Core): which virtual file systems are known, and the   *)
(* promises to bring them back after the last reference to a host is gone. *)
(*                                                                         *)
(* A host is an object with a configuration and a reference to its parent; *)
(* it lives while the program, a child host or a running call refers to    *)
(* it.  Infos and hosts are numbered from 1, 0 is none of them; the number *)
(* of a host is used again when it is destroyed.                           *)
(* m_Memory is a vector with ids in increasing order: a function of ids.   *)
(*                                                                         *)
(* Every section under the spin lock m_MemoryLock is one step, except for  *)
(* RetrieveVFS(), which holds it while hosts are spawned.                  *)
(***************************************************************************)
EXTENDS Integers, Sequences, FiniteSets, FiniteSetsExt, SequencesExt, Functions

CONSTANTS
    Threads,
    Roots,        \* configurations of hosts without a parent
    Nested,       \* configurations of hosts within another one
    None,
    MaxHosts,     \* bound: how many hosts there are at a time
    MaxInfos,     \* bound: the greatest id
    MaxPromises   \* bound: how many promises the program has or is about to be given

Configs == Roots \cup Nested
Hosts == 1..MaxHosts
Ids == 1..MaxInfos

ASSUME ThreadsAssumption == IsFiniteSet(Threads)
ASSUME ConfigsAssumption == Roots \cap Nested = {} /\ None \notin Threads
ASSUME BoundsAssumption == {MaxHosts, MaxInfos, MaxPromises} \subseteq Nat

VARIABLES
    hosts,         \* the hosts that are not destroyed: number -> [config, parent]
    held,          \* the hosts the program refers to
    m_OnDesctruct, \* the hosts with a callback for their destruction
    m_Memory,      \* id -> [config, parent, host, count]; parent is an id
    m_MemoryNextID,
    m_MemoryLock,  \* the thread that holds it across steps
    promises,      \* id -> how many promises the program has
    decs,          \* id -> how many DecPromiseCount() are dispatched to the background
    pc,
    taming,        \* per thread: the hosts TameVFS() was called with, innermost last
    result,        \* per thread: the id of the promise an inner TameVFS() returned
    restoring,     \* per thread: the ids RetrieveVFS() has yet to spawn, outermost host last
    parent_host,   \* per thread: the host the next one is spawned in
    leaked,        \* history: id -> children that were swept without DecPromiseCount()
    twins          \* history: the hosts that became known in a way OneInfoPerHost excuses

memory == <<m_Memory, m_MemoryNextID>>
threads == <<pc, taming, result, restoring, parent_host>>
vars == <<hosts, held, m_OnDesctruct, memory, m_MemoryLock, promises, decs, threads,
          leaked, twins>>

Infos == [config: Configs, parent: Ids \cup {0}, host: Hosts \cup {0}, count: Nat]

TypeOK ==
    /\ DOMAIN hosts \subseteq Hosts
    /\ \A h \in DOMAIN hosts : hosts[h] \in [config: Configs, parent: DOMAIN hosts \cup {0}]
    /\ held \subseteq DOMAIN hosts
    /\ m_OnDesctruct \subseteq DOMAIN hosts
    /\ m_MemoryNextID \in 1..MaxInfos + 1
    /\ DOMAIN m_Memory \subseteq 1..m_MemoryNextID - 1
    /\ \A id \in DOMAIN m_Memory : m_Memory[id] \in Infos
    /\ m_MemoryLock \in Threads \cup {None}
    /\ promises \in [Ids -> Nat]
    /\ decs \in [Ids -> Nat] /\ leaked \in [Ids -> Nat]
    /\ pc \in [Threads -> {"idle", "tame", "drop", "build", "restore", "stuck"}]
    /\ taming \in [Threads -> Seq(Hosts)]
    /\ result \in [Threads -> Ids \cup {0}]
    /\ restoring \in [Threads -> Seq(Ids)]
    /\ parent_host \in [Threads -> Hosts \cup {0}]
    /\ twins \subseteq Hosts

Init ==
    /\ hosts = <<>> /\ held = {} /\ m_OnDesctruct = {}
    /\ m_Memory = <<>> /\ m_MemoryNextID = 1
    /\ m_MemoryLock = None
    /\ promises = [id \in Ids |-> 0] /\ decs = [id \in Ids |-> 0]
    /\ pc = [t \in Threads |-> "idle"]
    /\ taming = [t \in Threads |-> <<>>] /\ result = [t \in Threads |-> 0]
    /\ restoring = [t \in Threads |-> <<>>] /\ parent_host = [t \in Threads |-> 0]
    /\ leaked = [id \in Ids |-> 0] /\ twins = {}

Goto(t, label) == pc' = [pc EXCEPT ![t] = label]
Unlocked == m_MemoryLock = None

-----------------------------------------------------------------------------
(* Hosts.                                                                  *)

\* The hosts with a strong reference other than parent_host of a thread.  A host that is
\* being destroyed still refers to its parent.
AliveWithout(h, thread) ==
    \/ h \in held
    \/ \E c \in DOMAIN hosts : hosts[c].parent = h
    \/ \E t \in Threads : h \in Range(taming[t]) \/ (t # thread /\ parent_host[t] = h)

Alive(h) == AliveWithout(h, None)

\* m_WeakHost.expired().
Expired(info) == info.host = 0 \/ ~Alive(info.host)

\* A host is made with the first number that is not in use.
Unused == Hosts \ DOMAIN hosts
Made(config, parent) ==
    [h \in DOMAIN hosts \cup {Min(Unused)} |->
        IF h = Min(Unused) THEN [config |-> config, parent |-> parent] ELSE hosts[h]]

\* The program makes a host, in one it has or in none.
Open(config, parent) ==
    /\ Unused # {}
    /\ IF config \in Roots THEN parent = 0 ELSE parent \in held
    /\ hosts' = Made(config, parent)
    /\ held' = held \cup {Min(Unused)}
    /\ UNCHANGED <<m_OnDesctruct, memory, m_MemoryLock, promises, decs, threads, leaked, twins>>

\* The program drops its last reference to a host.
Close(h) ==
    /\ held' = held \ {h}
    /\ UNCHANGED <<hosts, m_OnDesctruct, memory, m_MemoryLock, promises, decs, threads, leaked, twins>>

\* Mutant: the promises are not asked for.
DeadHosts == {id \in DOMAIN m_Memory : Expired(m_Memory[id])}

\* What SweepDeadMemory() erases.
Dead == {id \in DOMAIN m_Memory : Expired(m_Memory[id]) /\ m_Memory[id].count = 0}

\* SweepDeadMemory(): the uplinks of what is erased are not given back.
SweepDeadMemory ==
    /\ m_Memory' = [id \in DOMAIN m_Memory \ Dead |->
                        [m_Memory[id] EXCEPT !.host = IF Expired(m_Memory[id]) THEN 0 ELSE @]]
    /\ leaked' = [id \in Ids |-> IF id \notin DOMAIN m_Memory \ Dead THEN 0
                                 ELSE leaked[id] + Cardinality({c \in Dead : m_Memory[c].parent = id})]

\* ~Host(): the callback, if it was set, and then m_Parent is released.
Destroy(h) ==
    /\ ~Alive(h)
    /\ hosts' = [k \in DOMAIN hosts \ {h} |-> hosts[k]]
    /\ m_OnDesctruct' = m_OnDesctruct \ {h}
    /\ twins' = twins \ {h}
    /\ IF h \in m_OnDesctruct
         THEN Unlocked /\ SweepDeadMemory
         ELSE UNCHANGED <<m_Memory, leaked>>
    /\ UNCHANGED <<held, m_MemoryNextID, m_MemoryLock, promises, decs, threads>>

-----------------------------------------------------------------------------
(* Promises.                                                               *)

\* SpawnPromiseFromInfo_Unlocked(), IncPromiseCount(): one more for an info that is known.
Counted(m, id) == [m EXCEPT ![id].count = @ + 1]

Room == FoldFunction(+, 0, promises) + Cardinality({t \in Threads : taming[t] # <<>>}) < MaxPromises

\* A promise is copied, or asked for by GetVFSPromiseByPosition(), GetParentPromise()
\* or PreserveVFS(): each of them counts one more for an info that it found.
Found(id) ==
    \/ promises[id] > 0
    \/ id \in DOMAIN m_Memory

GivePromise(id) ==
    /\ Unlocked
    /\ Found(id) /\ Room
    /\ m_Memory' = IF id \in DOMAIN m_Memory THEN Counted(m_Memory, id) ELSE m_Memory
    /\ promises' = [promises EXCEPT ![id] = @ + 1]
    /\ UNCHANGED <<hosts, held, m_OnDesctruct, m_MemoryNextID, m_MemoryLock, decs, threads, leaked, twins>>

\* Mutant: the parent keeps its count.
UplinkKept(id, dispatched) == dispatched

\* ... and its uplink is given back in the background.
UplinkGivenBack(id, dispatched) ==
    [p \in Ids |-> dispatched[p] + IF p = m_Memory[id].parent THEN 1 ELSE 0]

\* Mutant: only SweepDeadMemory() forgets.
ForgetsNever(id) == FALSE

\* DecPromiseCount() erases an info nobody wants any longer.
Forgets(id) == m_Memory[id].count = 1 /\ Expired(m_Memory[id])

\* DecPromiseCount(); what was dispatched to the background is in the second parameter.
DecPromiseCount(id, dispatched) ==
    /\ Unlocked
    /\ IF id \in DOMAIN m_Memory /\ Forgets(id)
         THEN /\ m_Memory' = [i \in DOMAIN m_Memory \ {id} |-> m_Memory[i]]
              /\ leaked' = [leaked EXCEPT ![id] = 0]
              /\ decs' = UplinkGivenBack(id, dispatched)
         ELSE /\ m_Memory' = [i \in DOMAIN m_Memory |->
                                 [m_Memory[i] EXCEPT !.count = IF i = id THEN @ - 1 ELSE @]]
              /\ UNCHANGED leaked
              /\ decs' = dispatched

DropPromise(id) ==
    /\ promises[id] > 0
    /\ promises' = [promises EXCEPT ![id] = @ - 1]
    /\ DecPromiseCount(id, decs)
    /\ UNCHANGED <<hosts, held, m_OnDesctruct, m_MemoryNextID, m_MemoryLock, threads, twins>>

\* A block of the background queue.
DecInBackground(id) ==
    /\ decs[id] > 0
    /\ DecPromiseCount(id, [decs EXCEPT ![id] = @ - 1])
    /\ UNCHANGED <<hosts, held, m_OnDesctruct, m_MemoryNextID, m_MemoryLock, promises, threads, twins>>

-----------------------------------------------------------------------------
(* TameVFS().                                                              *)

\* Mutant: an info without a promise does not count as known.
InfosPromised(h) == {id \in DOMAIN m_Memory : m_Memory[id].host = h /\ m_Memory[id].count > 0}

\* InfoFromVFSPtr_Unlocked(): the infos with this very host.
InfosOf(h) == {id \in DOMAIN m_Memory : m_Memory[id].host = h}

\* An info and a host are alike: the configuration, and whether there is a parent.
Alike(id, h) ==
    /\ id \in DOMAIN m_Memory
    /\ m_Memory[id].config = hosts[h].config
    /\ m_Memory[id].parent = 0 <=> hosts[h].parent = 0

\* Mutant: the parents are not compared.
ChainOfOne(id, h) == {<<id, h>>}

\* The infos from one upwards, each with the host in the same place of the chain.
Chain(id, h) ==
    LET up[i \in DOMAIN m_Memory \cup {0}] ==
            [k \in DOMAIN hosts \cup {0} |->
                IF i = 0 \/ k = 0 THEN {}
                ELSE {<<i, k>>} \cup IF Alike(i, k) THEN up[m_Memory[i].parent][hosts[k].parent]
                                    ELSE {}]
    IN  up[id][h]

\* The first info the instance may be the successor of; its parents are not tried here.
Candidates(h) == {id \in DOMAIN m_Memory : Alike(id, h) /\ Expired(m_Memory[id])}

\* "we have found a matching existing information chain".
Matches(h) ==
    /\ Candidates(h) # {}
    /\ \A link \in Chain(Min(Candidates(h)), h) : Alike(link[1], link[2])

\* The infos of the chain whose hosts are to be refreshed, with their new hosts.
Refreshed(h) == {link \in Chain(Min(Candidates(h)), h) : Expired(m_Memory[link[1]])}

\* TameVFS() returns the promise with this id, to the program or to TameVFS() of a child,
\* and has made these hosts known.
ReturnPromise(t, stack, id, known) ==
    /\ twins' = twins \cup {h \in known : \/ \E u \in Threads \ {t} : h \in Range(taming[u])
                                         \/ (InfosOf(h) # {} /\ h # Last(stack))}
    /\ taming' = [taming EXCEPT ![t] = Front(stack)]
    /\ IF Len(stack) = 1
         THEN Goto(t, "idle") /\ promises' = [promises EXCEPT ![id] = @ + 1] /\ UNCHANGED result
         ELSE Goto(t, "drop") /\ result' = [result EXCEPT ![t] = id] /\ UNCHANGED promises

\* The section under the first lock; if it finds nothing, the parent is tamed first.
\* The stack has the hosts this thread is taming, this one included.
TameVFS(t, stack) ==
    LET h == Last(stack)
        set == Refreshed(h)
        front == Min(Candidates(h))
    IN  /\ Unlocked
        /\ IF InfosOf(h) # {}
             THEN /\ m_Memory' = Counted(m_Memory, Min(InfosOf(h)))
                  /\ ReturnPromise(t, stack, Min(InfosOf(h)), {})
                  /\ UNCHANGED m_OnDesctruct
             ELSE IF Matches(h)
               THEN /\ m_Memory' = Counted(
                         [id \in DOMAIN m_Memory |->
                            [m_Memory[id] EXCEPT !.host =
                               IF \E link \in set : link[1] = id
                                 THEN (CHOOSE link \in set : link[1] = id)[2] ELSE @]], front)
                    /\ m_OnDesctruct' = m_OnDesctruct \cup {link[2] : link \in set}
                    /\ ReturnPromise(t, stack, front, {link[2] : link \in set})
               ELSE /\ IF hosts[h].parent = 0
                         THEN Goto(t, "build") /\ taming' = [taming EXCEPT ![t] = stack]
                         ELSE /\ taming' = [taming EXCEPT ![t] = Append(stack, hosts[h].parent)]
                              /\ Goto(t, "tame")
                    /\ UNCHANGED <<m_Memory, m_OnDesctruct, promises, result, twins>>
        /\ UNCHANGED <<hosts, held, m_MemoryNextID, m_MemoryLock, decs, restoring,
                       parent_host, leaked>>

CallTameVFS(t, h) == pc[t] = "idle" /\ h \in held /\ Room /\ TameVFS(t, <<h>>)

TameParent(t) == pc[t] = "tame" /\ TameVFS(t, taming[t])

\* The promise of the parent is dropped at once.
DropResult(t) ==
    /\ pc[t] = "drop"
    /\ DecPromiseCount(result[t], decs)
    /\ result' = [result EXCEPT ![t] = 0]
    /\ Goto(t, "build")
    /\ UNCHANGED <<hosts, held, m_OnDesctruct, m_MemoryNextID, m_MemoryLock, promises,
                   taming, restoring, parent_host, twins>>

\* The uplink of a new info.
Uplink(h) == IF InfosOf(hosts[h].parent) = {} \/ hosts[h].parent = 0 THEN 0
             ELSE Min(InfosOf(hosts[h].parent))

\* Mutant: the uplink is not counted.
Uncounted(m, id) == m

\* The parent's info has one more count for the link.
Linked(m, id) == IF id = 0 THEN m ELSE Counted(m, id)

\* EnrollAliveHost(), and the new info under the second lock; it is not looked up again.
BuildInfo(t) ==
    LET h == Last(taming[t])
        new == [config |-> hosts[h].config, parent |-> Uplink(h), host |-> h, count |-> 1]
        linked == Linked(m_Memory, Uplink(h))
    IN  /\ pc[t] = "build" /\ Unlocked
        /\ m_MemoryNextID <= MaxInfos
        /\ m_Memory' = [id \in DOMAIN m_Memory \cup {m_MemoryNextID} |->
                            IF id = m_MemoryNextID THEN new ELSE linked[id]]
        /\ m_MemoryNextID' = m_MemoryNextID + 1
        /\ m_OnDesctruct' = m_OnDesctruct \cup {h}
        /\ ReturnPromise(t, taming[t], m_MemoryNextID, {h})
        /\ UNCHANGED <<hosts, held, m_MemoryLock, decs, restoring, parent_host, leaked>>

-----------------------------------------------------------------------------
(* RetrieveVFS(), GetOrRestoreVFS_Unlocked().                              *)

\* The ids to spawn hosts for, up to the first with a live host, which is the last one.
Unrestored(id) ==
    LET up[i \in DOMAIN m_Memory \cup {0}] ==
            IF i = 0 \/ ~Expired(m_Memory[i]) THEN <<i>> ELSE <<i>> \o up[m_Memory[i].parent]
    IN  up[id]

RetrieveVFS(t, id) ==
    LET chain == Unrestored(id)
        live == IF Last(chain) = 0 THEN 0 ELSE m_Memory[Last(chain)].host
    IN  /\ pc[t] = "idle" /\ Unlocked
        /\ promises[id] > 0 /\ id \in DOMAIN m_Memory
        /\ IF Len(chain) = 1
             THEN held' = held \cup {live} /\ UNCHANGED <<m_MemoryLock, pc, restoring, parent_host>>
             ELSE /\ m_MemoryLock' = t
                  /\ restoring' = [restoring EXCEPT ![t] = Front(chain)]
                  /\ parent_host' = [parent_host EXCEPT ![t] = live]
                  /\ Goto(t, "restore")
                  /\ UNCHANGED held
        /\ UNCHANGED <<hosts, m_OnDesctruct, memory, promises, decs, taming, result, leaked, twins>>

\* SpawnWithConfig() in parent_host, which the new host keeps alive from here.
Spawn(t) ==
    LET id == Last(restoring[t])
        new == Min(Unused)
        last == Len(restoring[t]) = 1
    IN  /\ pc[t] = "restore" /\ Unused # {}
        /\ hosts' = Made(m_Memory[id].config, parent_host[t])
        /\ m_Memory' = [m_Memory EXCEPT ![id].host = new]
        /\ m_OnDesctruct' = m_OnDesctruct \cup {new}
        /\ restoring' = [restoring EXCEPT ![t] = Front(@)]
        /\ parent_host' = [parent_host EXCEPT ![t] = IF last THEN 0 ELSE new]
        /\ held' = IF last THEN held \cup {new} ELSE held
        /\ m_MemoryLock' = IF last THEN None ELSE t
        /\ Goto(t, IF last THEN "idle" ELSE "restore")
        /\ UNCHANGED <<m_MemoryNextID, promises, decs, taming, result, leaked, twins>>

\* It throws, as no file system that is registered spawns a null: parent_host is released
\* before the lock is.  If that was the last reference, ~Host() runs here, and
\* SweepDeadMemory() waits for the lock of its caller.
SpawnFails(t) ==
    LET last == parent_host[t] # 0 /\ ~AliveWithout(parent_host[t], t)
    IN  /\ pc[t] = "restore"
        /\ restoring' = [restoring EXCEPT ![t] = <<>>]
        /\ parent_host' = [parent_host EXCEPT ![t] = 0]
        /\ m_MemoryLock' = IF last THEN t ELSE None
        /\ Goto(t, IF last THEN "stuck" ELSE "idle")
        /\ UNCHANGED <<hosts, held, m_OnDesctruct, memory, promises, decs, taming, result,
                       leaked, twins>>

-----------------------------------------------------------------------------
Step(t) == TameParent(t) \/ DropResult(t) \/ BuildInfo(t) \/ Spawn(t) \/ SpawnFails(t)

Call ==
    \/ \E t \in Threads : \/ \E h \in held : CallTameVFS(t, h)
                          \/ \E id \in Ids : RetrieveVFS(t, id)
    \/ \E config \in Configs : \E parent \in held \cup {0} : Open(config, parent)
    \/ \E h \in held : Close(h)
    \/ \E id \in Ids : GivePromise(id) \/ DropPromise(id)

Next ==
    \/ \E t \in Threads : Step(t)
    \/ Call
    \/ \E h \in DOMAIN hosts : Destroy(h)
    \/ \E id \in Ids : DecInBackground(id)

\* A running call goes on; spawning a host ends one way or the other.
Spec == Init /\ [][Next]_vars /\ \A t \in Threads : WF_vars(Step(t))

-----------------------------------------------------------------------------
(* Properties.                                                             *)

\* A promise leads somewhere: its info is remembered as long as it exists ("this should
\* never happen!" where it is not), however hosts die and others are promised meanwhile.
\* So do the uplinks of infos, and TameVFS() finds the info of the parent that it tamed
\* before it took the lock again (line 112, "logic error - should never happen").
PromisesKept ==
    /\ \A id \in Ids : promises[id] > 0 => id \in DOMAIN m_Memory
    /\ \A t \in Threads : result[t] # 0 => result[t] \in DOMAIN m_Memory
    /\ \A id \in DOMAIN m_Memory : m_Memory[id].parent \in DOMAIN m_Memory \cup {0}
    /\ \A t \in Threads :
          pc[t] = "build" =>
              LET p == hosts[Last(taming[t])].parent IN p # 0 => InfosOf(p) # {}

Handles(id) == promises[id] + Cardinality({t \in Threads : result[t] = id})
Links(id) == Cardinality({c \in DOMAIN m_Memory : m_Memory[c].parent = id})

\* m_PromisesCount is "combined from Promise instances and links via .m_ParentVFSID", and
\* from what is to be given back in the background or was lost when a child was swept.
CountsExplained ==
    \A id \in DOMAIN m_Memory :
        m_Memory[id].count = Handles(id) + Links(id) + decs[id] + leaked[id]

\* Nothing is remembered in vain: when the background queue is empty and no host is being
\* destroyed, an info has a live host, a promise, an info within it, or lost a child.
NothingKeptInVain ==
    (\A id \in Ids : decs[id] = 0) /\ (\A h \in DOMAIN hosts : Alive(h)) =>
        \A id \in DOMAIN m_Memory :
            ~Expired(m_Memory[id]) \/ Handles(id) + Links(id) + leaked[id] > 0

\* A promise leads to the file system it was given for: the host of an info and the hosts
\* it is in have the configurations of the info and of its uplinks.
PromiseMeansItsHost ==
    LET remembered[id \in DOMAIN m_Memory \cup {0}] ==
            IF id = 0 THEN <<>> ELSE <<m_Memory[id].config>> \o remembered[m_Memory[id].parent]
        actual[h \in DOMAIN hosts \cup {0}] ==
            IF h = 0 THEN <<>> ELSE <<hosts[h].config>> \o actual[hosts[h].parent]
    IN  \A id \in DOMAIN m_Memory :
            ~Expired(m_Memory[id]) => remembered[id] = actual[m_Memory[id].host]

\* Two promises for one host are equal: it has one info, unless a thread made it known
\* while another one was taming it or a host in it, or while the info of a host in it was
\* matched to an older chain, whose dead parent then takes the host as well.
OneInfoPerHost ==
    \A i, j \in DOMAIN m_Memory :
        i # j /\ m_Memory[i].host = m_Memory[j].host =>
            m_Memory[i].host \in twins \cup {0}

\* "May throw vfs exceptions on vfs rebuilding": RetrieveVFS() returns.
RetrieveReturns == \A t \in Threads : pc[t] = "restore" ~> pc[t] = "idle"

=============================================================================
