------------------------------- MODULE Config -------------------------------
(***************************************************************************)
(* config::ConfigImpl (Config/source/ConfigImpl.cpp): one path of the      *)
(* configuration, its observers, and the file of overwrites.  Any thread   *)
(* sets the value, which calls the observers on that thread and schedules  *)
(* a write, and any thread registers observers and drops their tokens,     *)
(* also from inside a callback.                                            *)
(*                                                                         *)
(* The list of observers is copied on write and fired from a snapshot.     *)
(* m_ObserversLock is a spin lock held across steps by DropToken() alone,  *)
(* which waits with it for the recursive mutex of the observer; that one   *)
(* is held by the thread that is inside the observer's callback.           *)
(* WriteOverwrites() runs on the executor, later, or in Commit().          *)
(***************************************************************************)
EXTENDS Integers, Sequences, SequencesExt

CONSTANTS
    Program,     \* the threads of the program
    Executor,    \* the thread that m_OverwritesDumpExecutor runs blocks on
    Tokens,      \* the observers that may be registered, one per token
    Values,      \* the values of the path
    Default,     \* its value in m_Defaults
    Initial,     \* its value after Load(): the default or the one in the file
    None,        \* no thread, or no token
    MaxSets,     \* bound: how often the value is set
    MaxCommits   \* bound: how often Commit() and ResetToDefaults() are called

Threads == Program \cup {Executor}

ASSUME NamesAssumption == Executor \notin Program /\ None \notin Threads \cup Tokens \cup Values
ASSUME ValuesAssumption == {Default, Initial} \subseteq Values
ASSUME BoundsAssumption == MaxSets \in Nat /\ MaxCommits \in Nat

VARIABLES
    m_Document,       \* the value of the path
    m_Observers,      \* the tokens of the observers, in the order they are fired
    m_ObserversLock,  \* the thread that holds it across steps
    was_removed,      \* the observers marked as removed
    m_WriteScheduled,
    dumps,            \* how many blocks the executor has yet to run
    file,             \* the value in the file of overwrites
    pc,
    task,             \* per thread: what it was called for
    document,         \* per thread: the overwrites WriteOverwrites() is to write
    snapshot,         \* per thread: the observers FireObservers() has yet to call
    calling,          \* per thread: the observer whose callback it is inside
    token,            \* per thread: the token it is dropping
    alive,            \* the tokens that have not been destroyed
    sets, commits,
    droppedBy,        \* history: the thread whose DropToken() returned, per token
    seen,             \* history: the value an observer has seen last
    stores,           \* history: per thread, whether another one stored since it took its overwrites
    stranded          \* history: the latest change is in no write to come, see below

observers == <<m_Observers, m_ObserversLock, was_removed>>
overwrites == <<m_WriteScheduled, dumps, file, document, stores, stranded>>
bounds == <<sets, commits>>
vars == <<m_Document, observers, overwrites, pc, task, snapshot, calling, token, alive, bounds,
          droppedBy, seen>>

DataOK ==
    /\ m_Document \in Values
    /\ m_Observers \in Seq(Tokens)
    /\ m_ObserversLock \in Threads \cup {None}
    /\ was_removed \subseteq Tokens
    /\ m_WriteScheduled \in BOOLEAN
    /\ dumps \in Nat
    /\ file \in Values
    /\ pc \in [Threads -> {"idle", "find", "fire", "callback", "observe", "drop", "dropLocked",
                         "markDirty", "overwrites", "store", "clear"}]
    /\ task \in [Threads -> {"none", "set", "reset"}]
    /\ document \in [Threads -> Values]
    /\ snapshot \in [Threads -> Seq(Tokens)]
    /\ calling \in [Threads -> Tokens \cup {None}]
    /\ token \in [Threads -> Tokens \cup {None}]
    /\ alive \subseteq Tokens
    /\ sets \in 0..MaxSets /\ commits \in 0..MaxCommits
    /\ droppedBy \in [Tokens -> Threads \cup {None}]
    /\ seen \in [Tokens -> Values \cup {None}]
    /\ stores \in [Threads -> BOOLEAN] /\ stranded \in BOOLEAN

\* The list that is fired has every observer once, and none that is marked as removed.
ListOK == IsInjective(m_Observers) /\ \A i \in DOMAIN m_Observers : m_Observers[i] \notin was_removed

TypeOK == DataOK /\ ListOK

Init ==
    /\ m_Document = Initial
    /\ m_Observers = <<>>
    /\ m_ObserversLock = None
    /\ was_removed = {}
    /\ m_WriteScheduled = FALSE /\ dumps = 0
    /\ file = Initial
    /\ pc = [t \in Threads |-> "idle"]
    /\ task = [t \in Threads |-> "none"]
    /\ document = [t \in Threads |-> Default]
    /\ snapshot = [t \in Threads |-> <<>>]
    /\ calling = [t \in Threads |-> None]
    /\ token = [t \in Threads |-> None]
    /\ alive = {}
    /\ sets = 0 /\ commits = 0
    /\ droppedBy = [k \in Tokens |-> None]
    /\ seen = [k \in Tokens |-> None]
    /\ stores = [t \in Threads |-> FALSE] /\ stranded = FALSE

Goto(t, label) == pc' = [pc EXCEPT ![t] = label]

\* Some other thread is inside the callback of observer k and holds its mutex.
HeldByOther(t, k) == \E u \in Threads \ {t} : calling[u] = k

\* The tokens not handed out yet: m_ObservationToken++ never repeats one.
Offered == {k \in Tokens : seen[k] = None /\ \A t \in Threads : token[t] # k}

-----------------------------------------------------------------------------
(* SetInternal(): ReplaceOrInsert(), FireObservers(), MarkDirty().         *)

ReplaceOrInsert(t, value) ==
    /\ pc[t] = "idle" /\ t \in Program
    /\ sets < MaxSets
    /\ value # m_Document
    /\ m_Document' = value
    /\ sets' = sets + 1
    /\ task' = [task EXCEPT ![t] = "set"]
    /\ Goto(t, "find")
    /\ UNCHANGED <<observers, overwrites, snapshot, calling, token, alive, commits, droppedBy,
                   seen>>

FindObservers(t) ==
    /\ pc[t] = "find"
    /\ m_ObserversLock = None
    /\ snapshot' = [snapshot EXCEPT ![t] = m_Observers]
    /\ Goto(t, "fire")
    /\ UNCHANGED <<m_Document, observers, overwrites, task, calling, token, alive, bounds, droppedBy, seen>>

\* Mutant: what the snapshot has is fired, whatever became of it since.
FireNextFromSnapshot(t) ==
    LET k == Head(snapshot[t])
    IN  /\ pc[t] = "fire" /\ snapshot[t] # <<>>
        /\ ~HeldByOther(t, k)
        /\ calling' = [calling EXCEPT ![t] = k]
        /\ seen' = [seen EXCEPT ![k] = m_Document]
        /\ snapshot' = [snapshot EXCEPT ![t] = Tail(@)]
        /\ Goto(t, "callback")
        /\ UNCHANGED <<m_Document, observers, overwrites, task, token, alive, bounds, droppedBy>>

\* The loop of FireObservers(), with the observer's mutex; a callback reads the value.
FireNext(t) ==
    LET k == Head(snapshot[t])
    IN  /\ pc[t] = "fire" /\ snapshot[t] # <<>>
        /\ ~HeldByOther(t, k)
        /\ snapshot' = [snapshot EXCEPT ![t] = Tail(@)]
        /\ IF k \in was_removed
             THEN UNCHANGED <<pc, calling, seen>>
             ELSE /\ calling' = [calling EXCEPT ![t] = k]
                  /\ seen' = [seen EXCEPT ![k] = m_Document]
                  /\ Goto(t, "callback")
        /\ UNCHANGED <<m_Document, observers, overwrites, task, token, alive, bounds, droppedBy>>

FireEnd(t) ==
    /\ pc[t] = "fire" /\ snapshot[t] = <<>>
    /\ Goto(t, IF task[t] = "set" THEN "markDirty" ELSE "idle")
    /\ task' = [task EXCEPT ![t] = "none"]
    /\ UNCHANGED <<m_Document, observers, overwrites, snapshot, calling, token, alive, bounds,
                   droppedBy, seen>>

CallbackReturns(t) ==
    /\ pc[t] = "callback"
    /\ calling' = [calling EXCEPT ![t] = None]
    /\ Goto(t, "fire")
    /\ UNCHANGED <<m_Document, observers, overwrites, task, snapshot, token, alive, bounds, droppedBy, seen>>

-----------------------------------------------------------------------------
(* Observe() and DropToken(), called from a callback or outside of one.    *)

Free(t) == pc[t] \in {"idle", "callback"}

\* Mutant: the list is replaced by one with the new observer alone.
InsertAlone(k) == <<k>>

Insert(k) == Append(m_Observers, k)

\* Observe() with a token of its own ...
BeginObserve(t, k) ==
    /\ Free(t)
    /\ k \in Offered
    /\ token' = [token EXCEPT ![t] = k]
    /\ Goto(t, "observe")
    /\ UNCHANGED <<m_Document, observers, overwrites, task, snapshot, calling, alive, bounds, droppedBy, seen>>

\* Where Observe() and DropToken() return to.
Return(t) ==
    /\ token' = [token EXCEPT ![t] = None]
    /\ Goto(t, IF calling[t] = None THEN "idle" ELSE "callback")

\* ... and InsertObserver(); the caller then reads the value.
InsertObserver(t) ==
    /\ pc[t] = "observe"
    /\ m_ObserversLock = None
    /\ m_Observers' = Insert(token[t])
    /\ alive' = alive \cup {token[t]}
    /\ seen' = [seen EXCEPT ![token[t]] = m_Document]
    /\ Return(t)
    /\ UNCHANGED <<m_Document, m_ObserversLock, was_removed, overwrites, task, snapshot, calling, bounds, droppedBy>>

\* Token::~Token().
BeginDrop(t, k) ==
    /\ Free(t)
    /\ k \in alive
    /\ alive' = alive \ {k}
    /\ token' = [token EXCEPT ![t] = k]
    /\ Goto(t, "drop")
    /\ UNCHANGED <<m_Document, observers, overwrites, task, snapshot, calling, bounds, droppedBy, seen>>

DropLock(t) ==
    /\ pc[t] = "drop"
    /\ m_ObserversLock = None
    /\ m_ObserversLock' = t
    /\ Goto(t, "dropLocked")
    /\ UNCHANGED <<m_Document, m_Observers, was_removed, overwrites, task, snapshot, calling, token, alive, bounds,
                   droppedBy, seen>>

\* DropToken() releases its lock and returns.
Dropped(t) ==
    /\ m_ObserversLock' = None
    /\ droppedBy' = [droppedBy EXCEPT ![token[t]] = t]
    /\ Return(t)

Listed(k) == \E i \in DOMAIN m_Observers : m_Observers[i] = k
Position(k) == CHOOSE i \in DOMAIN m_Observers : m_Observers[i] = k

\* Mutant: the entry of the path is not erased with its last observer.
UnlistButLast(k) ==
    /\ was_removed' = was_removed \cup {k}
    /\ m_Observers' = IF Len(m_Observers) > 1 THEN RemoveAt(m_Observers, Position(k)) ELSE m_Observers

\* The observer is marked, and the list replaced by one without it.
Unlist(k) ==
    /\ was_removed' = was_removed \cup {k}
    /\ m_Observers' = RemoveAt(m_Observers, Position(k))

\* Mutant: the mutex of the observer is not recursive.
DropRemoveNonRecursive(t) ==
    /\ pc[t] = "dropLocked"
    /\ IF Listed(token[t])
         THEN (\A u \in Threads : calling[u] # token[t]) /\ Unlist(token[t])
         ELSE UNCHANGED <<was_removed, m_Observers>>
    /\ Dropped(t)
    /\ UNCHANGED <<m_Document, overwrites, task, snapshot, calling, alive, bounds, seen>>

\* The observer's mutex is taken with m_ObserversLock held; both are released.
DropRemove(t) ==
    /\ pc[t] = "dropLocked"
    /\ IF Listed(token[t])
         THEN ~HeldByOther(t, token[t]) /\ Unlist(token[t])
         ELSE UNCHANGED <<was_removed, m_Observers>>
    /\ Dropped(t)
    /\ UNCHANGED <<m_Document, overwrites, task, snapshot, calling, alive, bounds, seen>>

-----------------------------------------------------------------------------
(* MarkDirty(), WriteOverwrites(), Commit(), ResetToDefaults().            *)

client == <<m_Document, observers, snapshot, calling, token, alive, sets, droppedBy, seen>>

\* A block of the executor, or a thread, is about to take the overwrites from the document.
WriteToCome == dumps > 0 \/ \E t \in Threads : pc[t] = "overwrites"

\* Some write has built its overwrites and not cleared the flag, or Commit() was called.
Excused == commits > 0 \/ \E t \in Threads : pc[t] \in {"store", "clear"}

\* MarkDirty() trusts m_WriteScheduled: that is in vain when a write has built its
\* overwrites already, or when Commit() has set the flag without writing.
MarkDirty(t) ==
    /\ pc[t] = "markDirty"
    /\ m_WriteScheduled' = TRUE
    /\ dumps' = IF m_WriteScheduled THEN dumps ELSE dumps + 1
    /\ stranded' = (stranded \/ (m_WriteScheduled /\ ~WriteToCome /\ Excused))
    /\ Goto(t, "idle")
    /\ UNCHANGED <<client, file, task, document, commits, stores>>

\* The executor runs a block.
BeginDump ==
    /\ pc[Executor] = "idle" /\ dumps > 0
    /\ dumps' = dumps - 1
    /\ Goto(Executor, "overwrites")
    /\ UNCHANGED <<client, m_WriteScheduled, file, task, document, commits, stores, stranded>>

\* BuildOverwrites(), under m_DocumentLock.
Overwrites(t) ==
    /\ pc[t] = "overwrites"
    /\ document' = [document EXCEPT ![t] = m_Document]
    /\ stranded' = FALSE
    /\ Goto(t, "store")
    /\ UNCHANGED <<client, m_WriteScheduled, dumps, file, task, commits, stores>>

\* OverwritesStorage::Write(); what another thread stored meanwhile may be newer.
Store(t) ==
    /\ pc[t] = "store"
    /\ file' = document[t]
    /\ document' = [document EXCEPT ![t] = Default]
    /\ stores' = [u \in Threads |-> u # t /\ pc[u] = "store"]
    /\ stranded' = (stranded \/ (stores[t] /\ document[t] # m_Document))
    /\ Goto(t, "clear")
    /\ UNCHANGED <<client, m_WriteScheduled, dumps, task, commits>>

\* Mutant: the flag is left as it is.
ClearNothing(t) ==
    /\ pc[t] = "clear"
    /\ Goto(t, IF task[t] = "reset" THEN "find" ELSE "idle")
    /\ UNCHANGED <<client, m_WriteScheduled, dumps, file, task, document, commits, stores,
                   stranded>>

\* The end of the scope of WriteOverwrites().
Clear(t) ==
    /\ pc[t] = "clear"
    /\ m_WriteScheduled' = FALSE
    /\ Goto(t, IF task[t] = "reset" THEN "find" ELSE "idle")
    /\ UNCHANGED <<client, dumps, file, task, document, commits, stores, stranded>>

\* Commit() writes if a write is scheduled; if not, it leaves the flag set.
Commit(t) ==
    /\ pc[t] = "idle" /\ t \in Program
    /\ commits < MaxCommits
    /\ commits' = commits + 1
    /\ m_WriteScheduled' = TRUE
    /\ Goto(t, IF m_WriteScheduled THEN "overwrites" ELSE "idle")
    /\ UNCHANGED <<client, dumps, file, task, document, stores, stranded>>

\* ResetToDefaults(): writes at once, then fires the observers.
ResetToDefaults(t) ==
    /\ pc[t] = "idle" /\ t \in Program
    /\ commits < MaxCommits
    /\ commits' = commits + 1
    /\ m_Document # Default
    /\ m_Document' = Default
    /\ task' = [task EXCEPT ![t] = "reset"]
    /\ Goto(t, "overwrites")
    /\ UNCHANGED <<observers, overwrites, snapshot, calling, token, alive, sets, droppedBy, seen>>

-----------------------------------------------------------------------------
\* What a thread does once it called, and callbacks return.
Step(t) ==
    \/ FindObservers(t) \/ FireNext(t) \/ FireEnd(t) \/ CallbackReturns(t)
    \/ InsertObserver(t) \/ DropLock(t) \/ DropRemove(t)
    \/ MarkDirty(t) \/ Overwrites(t) \/ Store(t) \/ Clear(t)

Call(t) ==
    \/ \E value \in Values : ReplaceOrInsert(t, value)
    \/ \E k \in Tokens : BeginObserve(t, k) \/ BeginDrop(t, k)
    \/ Commit(t) \/ ResetToDefaults(t)

Next == (\E t \in Threads : Step(t)) \/ (\E t \in Program : Call(t)) \/ BeginDump

\* A thread that called goes on; what it calls, and when, is up to the program.  The
\* executor runs every block it was given, after its delay.
Spec == Init /\ [][Next]_vars /\ (\A t \in Threads : WF_vars(Step(t))) /\ WF_vars(BeginDump)

-----------------------------------------------------------------------------
(* Properties.                                                             *)

\* "it's guaranteed that _on_change will not be called after the returned token was
\* destroyed": once DropToken() has returned, no thread is inside the callback but the one
\* that dropped the token, which may have done so from that callback.
SilentAfterDrop ==
    \A t \in Threads : \A k \in Tokens :
        calling[t] = k /\ droppedBy[k] # None => droppedBy[k] = t

\* No change is missed: once nobody is on the way from setting the value to the
\* observers, every observer has seen the value that is in the document, whether it
\* was registered before, after or in the middle of a change.
LastChangeSeen ==
    (\A t \in Threads : pc[t] = "idle") => \A k \in alive : seen[k] = m_Document

\* A thread drops a token and waits, with m_ObserversLock, for a callback that waits for
\* m_ObserversLock in turn, because it drops or registers an observer as well.
Entangled ==
    \E t, u \in Threads :
        /\ pc[t] = "dropLocked" /\ calling[u] = token[t]
        /\ u # t /\ pc[u] \in {"drop", "observe"}

\* Every call returns, a drop of the callback's own token included ("It is safe to
\* destroy the token (i.e. unregister) from the callback itself"), unless a callback
\* drops or registers an observer while another thread drops the callback's own.
EveryCallReturns ==
    \A t \in Program : pc[t] # "idle" ~> (pc[t] = "idle" \/ Entangled)

\* A change reaches the file: when nothing is under way, the file has the value of the
\* document, except that no write was scheduled for the change, or that a write of
\* older overwrites, begun before, ended after it ("stranded").
ChangesReachTheFile ==
    (\A t \in Threads : pc[t] = "idle") /\ dumps = 0 => file = m_Document \/ stranded

=============================================================================
