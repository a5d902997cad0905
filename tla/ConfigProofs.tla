---------------------------- MODULE ConfigProofs ----------------------------
(***************************************************************************)
(* Theorems about Config, for any number of threads, observers and calls:  *)
(* its type invariant, that DropToken() finds what it is to drop, that no  *)
(* callback runs after the token of its observer was dropped, and that a   *)
(* change of the value is missed neither by an observer nor by the file.   *)
(***************************************************************************)
EXTENDS Config, SequenceFacts

\* The thread is in DropToken().
Dropping(t) == pc[t] \in {"drop", "dropLocked"}

\* A token is in one hand: the program's, or that of the one thread that registers or
\* drops it.  It was handed out if it is alive, so it is not handed out again.
TokenInv ==
    /\ \A t \in Threads : Dropping(t) \/ pc[t] = "observe" => token[t] \in Tokens
    /\ \A t \in Threads : token[t] \notin alive
    /\ \A t, u \in Threads : token[t] \in Tokens /\ token[t] = token[u] => t = u
    /\ \A k \in alive : seen[k] # None

\* Observers stay in the list until their own tokens are dropped, whatever else is.
ListInv ==
    /\ \A k \in alive : Listed(k)
    /\ \A t \in Threads : Dropping(t) => Listed(token[t])

\* What was dropped is marked, for the snapshots that still have it.
RemovedInv == \A k \in Tokens : droppedBy[k] # None => k \in was_removed

IInv ==
    /\ DataOK
    /\ TokenInv
    /\ ListInv
    /\ RemovedInv
    /\ SilentAfterDrop

\* What a thread is at: inside a callback, in front of the observers, past a change.
ThreadInv ==
    \A t \in Threads :
        /\ calling[t] # None => pc[t] \in {"callback", "observe", "drop", "dropLocked"}
        /\ snapshot[t] # <<>> => pc[t] = "fire" \/ calling[t] # None
        /\ task[t] = "set" => pc[t] \in {"find", "fire"} \/ calling[t] # None

\* An observer that was ever registered has seen a value, and no token is used twice.
SeenInv ==
    /\ \A k \in Tokens : Listed(k) \/ k \in was_removed => seen[k] # None
    /\ \A t \in Threads : \A k \in ToSet(snapshot[t]) : seen[k] # None
    /\ \A t \in Threads : pc[t] = "observe" => seen[token[t]] = None
    /\ alive \cap was_removed = {}

\* The thread has yet to come to the observer.
WillFire(t, k) ==
    \/ pc[t] = "find"
    \/ task[t] = "reset" /\ pc[t] \in {"overwrites", "store", "clear"}
    \/ k \in ToSet(snapshot[t])

\* An observer has seen the latest value, or some thread has yet to come to it.
FreshInv == \A k \in alive : seen[k] = m_Document \/ \E t \in Threads : WillFire(t, k)

\* The latest change will be in a write, or MarkDirty() has yet to be called for it, or it
\* is known not to be in any.
ToBeWritten == stranded \/ WriteToCome \/ \E t \in Threads : task[t] = "set" \/ pc[t] = "markDirty"

\* The thread is about to store the latest value.
Current(t) == pc[t] = "store" /\ document[t] = m_Document

\* The flag is set while there is a write to come, or for one of the reasons a change may
\* be stranded for; what is stored over the latest value is known to be older.
FileInv ==
    /\ m_WriteScheduled => WriteToCome \/ Excused
    /\ \/ ToBeWritten
       \/ \E t \in Threads : Current(t)
       \/ file = m_Document /\ \A t \in Threads : pc[t] = "store" => stores[t]

ChangesInv ==
    /\ IInv
    /\ ThreadInv
    /\ SeenInv
    /\ FreshInv
    /\ FileInv

-----------------------------------------------------------------------------
(* Sequences.                                                              *)

\* RemoveAt() returns a sequence with everything but the element it removes, and nothing else.
LEMMA RemoveAtKeeps ==
  ASSUME NEW S, NEW s \in Seq(S), NEW i \in DOMAIN s
  PROVE  /\ RemoveAt(s, i) \in Seq(S)
         /\ \A j \in DOMAIN s \ {i} : \E m \in DOMAIN RemoveAt(s, i) : RemoveAt(s, i)[m] = s[j]
         /\ \A m \in DOMAIN RemoveAt(s, i) :
               LET j == IF m < i THEN m ELSE m + 1
               IN  j \in DOMAIN s /\ RemoveAt(s, i)[m] = s[j]
  <1> DEFINE front == SubSeq(s, 1, i - 1)
             back == SubSeq(s, i + 1, Len(s))
  <1>1. Len(s) \in Nat /\ DOMAIN s = 1..Len(s) /\ \A j \in 1..Len(s) : s[j] \in S
    BY LenProperties, ElementOfSeq
  <1>2. /\ front \in Seq(S) /\ Len(front) = i - 1
        /\ \A j \in 1..i - 1 : front[j] = s[j]
    <2>1. 1 \in Int /\ i - 1 \in Int /\ \A j \in 1..i - 1 : s[j] \in S
      BY <1>1
    <2> HIDE DEF front
    <2>2. /\ front \in Seq(S) /\ Len(front) = IF 1 <= i - 1 THEN i - 1 - 1 + 1 ELSE 0
          /\ \A j \in 1..i - 1 - 1 + 1 : front[j] = s[1 + j - 1]
      BY <2>1, SubSeqProperties DEF front
    <2>3. i \in Int /\ 1 <= i
      BY <1>1
    <2>4. Len(front) = i - 1
      BY <2>2, <2>3
    <2>5. ASSUME NEW j \in 1..i - 1
          PROVE  front[j] = s[j]
      <3>1. j \in 1..i - 1 - 1 + 1 /\ 1 + j - 1 = j
        BY <2>3
      <3>2. front[j] = s[1 + j - 1]
        BY <2>2, <3>1
      <3> QED
        BY <3>1, <3>2
    <2> QED
      BY <2>2, <2>4, <2>5
  <1>3. /\ back \in Seq(S) /\ Len(back) = Len(s) - i
        /\ \A j \in 1..Len(s) - i : back[j] = s[i + j]
    <2>1. i + 1 \in Int /\ Len(s) \in Int /\ \A j \in i + 1..Len(s) : s[j] \in S
      BY <1>1
    <2> HIDE DEF back
    <2>2. /\ back \in Seq(S) /\ Len(back) = IF i + 1 <= Len(s) THEN Len(s) - (i + 1) + 1 ELSE 0
          /\ \A j \in 1..Len(s) - (i + 1) + 1 : back[j] = s[i + 1 + j - 1]
      BY <2>1, SubSeqProperties DEF back
    <2>3. i \in Int /\ 1 <= i /\ i <= Len(s) /\ Len(s) \in Int
      BY <1>1
    <2>4. Len(back) = Len(s) - i
      BY <2>2, <2>3
    <2>5. ASSUME NEW j \in 1..Len(s) - i
          PROVE  back[j] = s[i + j]
      <3>1. j \in 1..Len(s) - (i + 1) + 1 /\ i + 1 + j - 1 = i + j
        BY <2>3
      <3>2. back[j] = s[i + 1 + j - 1]
        BY <2>2, <3>1
      <3> QED
        BY <3>1, <3>2
    <2> QED
      BY <2>2, <2>4, <2>5
  <1> HIDE DEF front, back
  <1>4. RemoveAt(s, i) = front \o back
    BY DEF RemoveAt, front, back
  <1>5. /\ RemoveAt(s, i) \in Seq(S)
        /\ Len(RemoveAt(s, i)) = Len(s) - 1
        /\ \A j \in 1..Len(s) - 1 :
              RemoveAt(s, i)[j] = IF j <= i - 1 THEN front[j] ELSE back[j - (i - 1)]
    <2>1. /\ front \o back \in Seq(S)
          /\ Len(front \o back) = Len(front) + Len(back)
          /\ \A j \in 1..Len(front) + Len(back) :
                (front \o back)[j] = IF j <= Len(front) THEN front[j] ELSE back[j - Len(front)]
      BY <1>2, <1>3, ConcatProperties
    <2>2. Len(front) + Len(back) = Len(s) - 1
      BY <1>1, <1>2, <1>3
    <2> QED
      BY <2>1, <2>2, <1>2, <1>4
  <1>6. ASSUME NEW j \in DOMAIN s \ {i}
        PROVE  \E m \in 1..Len(s) - 1 : RemoveAt(s, i)[m] = s[j]
    <2>1. CASE j < i
      <3>1. j \in 1..Len(s) - 1 /\ j \in 1..i - 1 /\ j <= i - 1
        BY <2>1, <1>1
      <3>2. RemoveAt(s, i)[j] = front[j] /\ front[j] = s[j]
        BY <3>1, <1>2, <1>5
      <3> QED
        BY <3>1, <3>2
    <2>2. CASE j > i
      <3>1. j - 1 \in 1..Len(s) - 1 /\ j - i \in 1..Len(s) - i /\ ~(j - 1 <= i - 1)
        BY <2>2, <1>1
      <3>2. RemoveAt(s, i)[j - 1] = back[j - 1 - (i - 1)]
        BY <3>1, <1>5
      <3>3. j - 1 - (i - 1) = j - i /\ i + (j - i) = j
        BY <1>1
      <3> QED
        BY <3>1, <3>2, <3>3, <1>3
    <2> QED
      BY <2>1, <2>2, <1>1
  <1>7. DOMAIN RemoveAt(s, i) = 1..Len(s) - 1
    BY <1>5, LenProperties
  <1>8. ASSUME NEW m \in 1..Len(s) - 1
        PROVE  LET j == IF m < i THEN m ELSE m + 1
               IN  j \in DOMAIN s /\ RemoveAt(s, i)[m] = s[j]
    <2>1. CASE m <= i - 1
      <3>1. m \in 1..i - 1 /\ m \in 1..Len(s)
        BY <2>1, <1>1
      <3> QED
        BY <2>1, <3>1, <1>1, <1>2, <1>5
    <2>2. CASE ~(m <= i - 1)
      <3>1. m - (i - 1) \in 1..Len(s) - i /\ m + 1 \in 1..Len(s) /\ i + (m - (i - 1)) = m + 1
        BY <2>2, <1>1
      <3>2. RemoveAt(s, i)[m] = back[m - (i - 1)]
        BY <2>2, <1>5
      <3> QED
        BY <3>1, <3>2, <1>1, <1>3
    <2> QED
      BY <2>1, <2>2
  <1> QED
    BY <1>5, <1>6, <1>7, <1>8

-----------------------------------------------------------------------------
(* IInv is inductive.                                                      *)

USE DEF Goto

\* A configuration without observers satisfies the inductive invariant.
LEMMA InitIInv == Init => IInv
  <1> SUFFICES ASSUME Init PROVE IInv
    OBVIOUS
  <1> USE NamesAssumption, ValuesAssumption, BoundsAssumption DEF Init, Threads
  <1>1. DataOK
    <2>1. <<>> \in Seq(Tokens)
      BY EmptySeq
    <2>2. snapshot \in [Threads -> Seq(Tokens)] /\ m_Observers \in Seq(Tokens)
      BY <2>1
    <2>3. sets \in 0..MaxSets /\ commits \in 0..MaxCommits
      OBVIOUS
    <2> QED
      BY <2>2, <2>3 DEF DataOK
  <1>2. TokenInv
    BY DEF TokenInv, Dropping
  <1>3. ListInv
    BY DEF ListInv, Dropping
  <1>4. RemovedInv /\ SilentAfterDrop
    BY DEF RemovedInv, SilentAfterDrop
  <1> QED
    BY <1>1, <1>2, <1>3, <1>4 DEF IInv

\* Where a token that is in the list is found.
LEMMA PositionOfListed ==
  ASSUME NEW k, Listed(k)
  PROVE  Position(k) \in DOMAIN m_Observers /\ m_Observers[Position(k)] = k
  BY DEF Listed, Position

\* Every step keeps the variables in their types; the tokens a thread works on come from
\* TokenInv and ListInv.
LEMMA StepDataOK == ASSUME IInv, [Next]_vars PROVE DataOK'
  <1> USE NamesAssumption, ValuesAssumption, BoundsAssumption
      DEF IInv, DataOK, observers, overwrites, bounds, client
  <1>1. ASSUME NEW t \in Threads, Step(t)
        PROVE  DataOK'
    <2>1. CASE FindObservers(t)
      BY <2>1 DEF FindObservers
    <2>2. CASE FireNext(t)
      <3>1. snapshot[t] \in Seq(Tokens) /\ snapshot[t] # <<>>
        BY <2>2 DEF FireNext
      <3>2. Head(snapshot[t]) \in Tokens /\ Tail(snapshot[t]) \in Seq(Tokens)
        BY <3>1, HeadTailProperties
      <3>3. CASE Head(snapshot[t]) \in was_removed
        BY <2>2, <3>2, <3>3 DEF FireNext
      <3>4. CASE Head(snapshot[t]) \notin was_removed
        <4>1. calling' = [calling EXCEPT ![t] = Head(snapshot[t])]
              /\ seen' = [seen EXCEPT ![Head(snapshot[t])] = m_Document]
              /\ pc' = [pc EXCEPT ![t] = "callback"]
              /\ snapshot' = [snapshot EXCEPT ![t] = Tail(snapshot[t])]
          BY <2>2, <3>4 DEF FireNext
        <4>2. calling' \in [Threads -> Tokens \cup {None}]
              /\ seen' \in [Tokens -> Values \cup {None}]
          BY <3>2, <4>1
        <4>3. snapshot' \in [Threads -> Seq(Tokens)]
          BY <3>2, <4>1
        <4> QED
          BY <2>2, <4>1, <4>2, <4>3 DEF FireNext
      <3> QED
        BY <3>3, <3>4
    <2>3. CASE FireEnd(t) \/ CallbackReturns(t)
      BY <2>3 DEF FireEnd, CallbackReturns
    <2>4. CASE InsertObserver(t)
      <3>1. token[t] \in Tokens
        BY <2>4 DEF InsertObserver, TokenInv
      <3>2. Append(m_Observers, token[t]) \in Seq(Tokens)
        BY <3>1, AppendProperties
      <3> QED
        BY <2>4, <3>1, <3>2 DEF InsertObserver, Insert, Return
    <2>5. CASE DropLock(t)
      BY <2>5 DEF DropLock
    <2>6. CASE DropRemove(t)
      <3>1. token[t] \in Tokens /\ Listed(token[t])
        BY <2>6 DEF DropRemove, TokenInv, ListInv, Dropping
      <3>2. RemoveAt(m_Observers, Position(token[t])) \in Seq(Tokens)
        BY <3>1, PositionOfListed, RemoveAtKeeps
      <3> QED
        BY <2>6, <3>1, <3>2 DEF DropRemove, Unlist, Dropped, Return
    <2>7. CASE MarkDirty(t)
      BY <2>7 DEF MarkDirty
    <2>8. CASE Overwrites(t)
      BY <2>8 DEF Overwrites
    <2>9. CASE Store(t)
      BY <2>9 DEF Store
    <2>10. CASE Clear(t)
      BY <2>10 DEF Clear
    <2> QED
      BY <1>1, <2>1, <2>2, <2>3, <2>4, <2>5, <2>6, <2>7, <2>8, <2>9, <2>10 DEF Step
  <1>2. ASSUME NEW t \in Program, Call(t)
        PROVE  DataOK'
    <2>1. t \in Threads
      BY DEF Threads
    <2>2. ASSUME NEW value \in Values, ReplaceOrInsert(t, value)
          PROVE  DataOK'
      BY <2>1, <2>2 DEF ReplaceOrInsert
    <2>3. ASSUME NEW k \in Tokens, BeginObserve(t, k)
          PROVE  DataOK'
      BY <2>1, <2>3 DEF BeginObserve
    <2>4. ASSUME NEW k \in Tokens, BeginDrop(t, k)
          PROVE  DataOK'
      BY <2>1, <2>4 DEF BeginDrop
    <2>5. CASE Commit(t)
      BY <2>1, <2>5 DEF Commit
    <2>6. CASE ResetToDefaults(t)
      BY <2>1, <2>6 DEF ResetToDefaults
    <2> QED
      BY <1>2, <2>2, <2>3, <2>4, <2>5, <2>6 DEF Call
  <1>3. CASE BeginDump
    BY <1>3 DEF BeginDump, Threads
  <1>4. CASE UNCHANGED vars
    BY <1>4 DEF vars
  <1> QED
    BY <1>1, <1>2, <1>3, <1>4 DEF Next

\* A step that neither registers nor drops an observer.
Quiet ==
    /\ UNCHANGED <<m_Observers, was_removed, token, alive, droppedBy>>
    /\ \A t \in Threads : pc'[t] \in {"observe", "drop", "dropLocked"} => pc'[t] = pc[t]
    /\ \A k \in Tokens : seen[k] # None => seen'[k] # None

\* The others are the steps of Observe() and DropToken().
Registers(t) == (\E k \in Tokens : BeginObserve(t, k)) \/ InsertObserver(t)
Drops(t) == (\E k \in Tokens : BeginDrop(t, k)) \/ DropLock(t) \/ DropRemove(t)

\* Every step is quiet, or one of Observe() or DropToken() on some thread.
LEMMA StepCases ==
  ASSUME IInv, [Next]_vars
  PROVE  Quiet \/ \E t \in Threads : Registers(t) \/ Drops(t)
  <1> USE NamesAssumption DEF IInv, DataOK, observers, overwrites, bounds, client, Quiet
  <1>1. ASSUME NEW t \in Threads, Step(t)
        PROVE  Quiet \/ Registers(t) \/ Drops(t)
    <2>1. CASE FindObservers(t)
      BY <2>1 DEF FindObservers
    <2>2. CASE FireNext(t)
      <3>1. snapshot[t] \in Seq(Tokens) /\ snapshot[t] # <<>>
        BY <2>2 DEF FireNext
      <3>2. Head(snapshot[t]) \in Tokens /\ m_Document # None
        BY <3>1, HeadTailProperties
      <3>3. \/ UNCHANGED <<pc, seen>>
            \/ /\ seen' = [seen EXCEPT ![Head(snapshot[t])] = m_Document]
               /\ pc' = [pc EXCEPT ![t] = "callback"]
        BY <2>2 DEF FireNext
      <3> QED
        BY <2>2, <3>2, <3>3 DEF FireNext
    <2>3. CASE FireEnd(t)
      BY <2>3 DEF FireEnd
    <2>4. CASE CallbackReturns(t)
      BY <2>4 DEF CallbackReturns
    <2>5. CASE MarkDirty(t)
      BY <2>5 DEF MarkDirty
    <2>6. CASE Overwrites(t) \/ Store(t)
      BY <2>6 DEF Overwrites, Store
    <2>7. CASE Clear(t)
      BY <2>7 DEF Clear
    <2> QED
      BY <1>1, <2>1, <2>2, <2>3, <2>4, <2>5, <2>6, <2>7 DEF Step, Registers, Drops
  <1>2. ASSUME NEW t \in Program, Call(t)
        PROVE  t \in Threads /\ (Quiet \/ Registers(t) \/ Drops(t))
    <2>1. t \in Threads
      BY DEF Threads
    <2>2. ASSUME NEW value \in Values, ReplaceOrInsert(t, value)
          PROVE  Quiet
      BY <2>1, <2>2 DEF ReplaceOrInsert
    <2>3. CASE Commit(t)
      BY <2>1, <2>3 DEF Commit
    <2>4. CASE ResetToDefaults(t)
      BY <2>1, <2>4 DEF ResetToDefaults
    <2> QED
      BY <1>2, <2>1, <2>2, <2>3, <2>4 DEF Call, Registers, Drops
  <1>3. CASE BeginDump
    BY <1>3 DEF BeginDump, Threads
  <1>4. CASE UNCHANGED vars
    BY <1>4 DEF vars
  <1> QED
    BY <1>1, <1>2, <1>3, <1>4 DEF Next

\* No token gets into two hands, and none is handed out again.
LEMMA StepTokenInv == ASSUME IInv, [Next]_vars PROVE TokenInv'
  <1> USE NamesAssumption DEF IInv, DataOK, TokenInv, Dropping
  <1>1. CASE Quiet
    BY <1>1 DEF Quiet
  <1>2. ASSUME NEW t \in Threads, NEW k \in Tokens, BeginObserve(t, k)
        PROVE  TokenInv'
    <2>1. k \notin alive /\ \A u \in Threads : token[u] # k
      BY <1>2 DEF BeginObserve, Offered
    <2> QED
      BY <1>2, <2>1 DEF BeginObserve
  <1>3. ASSUME NEW t \in Threads, InsertObserver(t)
        PROVE  TokenInv'
    <2>1. token[t] \in Tokens /\ m_Document # None
      BY <1>3 DEF InsertObserver
    <2>2. /\ alive' = alive \cup {token[t]} /\ token' = [token EXCEPT ![t] = None]
          /\ seen' = [seen EXCEPT ![token[t]] = m_Document]
          /\ \A u \in Threads \ {t} : pc'[u] = pc[u] /\ token'[u] = token[u]
          /\ pc'[t] \in {"idle", "callback"}
      BY <1>3 DEF InsertObserver, Return
    <2>3. None \notin alive'
      BY <2>1, <2>2
    <2> QED
      BY <2>1, <2>2, <2>3
  <1>4. ASSUME NEW t \in Threads, NEW k \in Tokens, BeginDrop(t, k)
        PROVE  TokenInv'
    BY <1>4 DEF BeginDrop
  <1>5. ASSUME NEW t \in Threads, DropLock(t)
        PROVE  TokenInv'
    BY <1>5 DEF DropLock
  <1>6. ASSUME NEW t \in Threads, DropRemove(t)
        PROVE  TokenInv'
    <2>1. /\ token' = [token EXCEPT ![t] = None] /\ UNCHANGED <<alive, seen>>
          /\ \A u \in Threads \ {t} : pc'[u] = pc[u] /\ token'[u] = token[u]
          /\ pc'[t] \in {"idle", "callback"}
      BY <1>6 DEF DropRemove, Dropped, Return
    <2>2. None \notin alive
      OBVIOUS
    <2> QED
      BY <2>1, <2>2
  <1> QED
    BY <1>1, <1>2, <1>3, <1>4, <1>5, <1>6, StepCases DEF Registers, Drops

\* No observer leaves the list but the one whose token is dropped.
LEMMA StepListInv == ASSUME IInv, [Next]_vars PROVE ListInv'
  <1> USE DEF IInv, DataOK, ListInv, Dropping
  <1>1. CASE Quiet
    BY <1>1 DEF Quiet, Listed
  <1>2. ASSUME NEW t \in Threads, NEW k \in Tokens, BeginObserve(t, k)
        PROVE  ListInv'
    BY <1>2 DEF BeginObserve, observers, Listed
  <1>3. ASSUME NEW t \in Threads, InsertObserver(t)
        PROVE  ListInv'
    <2>1. token[t] \in Tokens
      BY <1>3 DEF InsertObserver, TokenInv
    <2>2. /\ m_Observers' = Append(m_Observers, token[t])
          /\ alive' = alive \cup {token[t]}
          /\ \A u \in Threads \ {t} : pc'[u] = pc[u] /\ token'[u] = token[u]
          /\ pc'[t] \in {"idle", "callback"}
      BY <1>3 DEF InsertObserver, Insert, Return
    <2>3. ASSUME NEW k, Listed(k) \/ k = token[t]
          PROVE  Listed(k)'
      <3>1. m_Observers' \in Seq(Tokens) /\ Len(m_Observers') = Len(m_Observers) + 1
            /\ (\A i \in 1..Len(m_Observers) : m_Observers'[i] = m_Observers[i])
            /\ m_Observers'[Len(m_Observers) + 1] = token[t]
        BY <2>1, <2>2, AppendProperties
      <3>2. /\ DOMAIN m_Observers = 1..Len(m_Observers) /\ Len(m_Observers) \in Nat
            /\ DOMAIN m_Observers' = 1..Len(m_Observers) + 1
        BY <3>1, LenProperties
      <3>3. DOMAIN m_Observers \subseteq DOMAIN m_Observers'
            /\ Len(m_Observers) + 1 \in DOMAIN m_Observers'
        BY <3>2
      <3> QED
        BY <2>3, <3>1, <3>2, <3>3 DEF Listed
    <2> QED
      BY <2>2, <2>3
  <1>4. ASSUME NEW t \in Threads, NEW k \in Tokens, BeginDrop(t, k)
        PROVE  ListInv'
    BY <1>4 DEF BeginDrop, observers, Listed
  <1>5. ASSUME NEW t \in Threads, DropLock(t)
        PROVE  ListInv'
    BY <1>5 DEF DropLock, Listed
  <1>6. ASSUME NEW t \in Threads, DropRemove(t)
        PROVE  ListInv'
    <2>1. Dropping(t) /\ token[t] \in Tokens /\ Listed(token[t])
      BY <1>6 DEF DropRemove, TokenInv
    <2>2. /\ m_Observers' = RemoveAt(m_Observers, Position(token[t]))
          /\ UNCHANGED alive
          /\ \A u \in Threads \ {t} : pc'[u] = pc[u] /\ token'[u] = token[u]
          /\ pc'[t] \in {"idle", "callback"}
      BY <1>6, <2>1 DEF DropRemove, Unlist, Dropped, Return
    <2>3. ASSUME NEW k, Listed(k), k # token[t]
          PROVE  Listed(k)'
      <3>1. PICK i \in DOMAIN m_Observers : m_Observers[i] = k
        BY <2>3 DEF Listed
      <3>2. Position(token[t]) \in DOMAIN m_Observers /\ i # Position(token[t])
        BY <2>1, <2>3, <3>1, PositionOfListed
      <3>3. \E m \in DOMAIN m_Observers' : m_Observers'[m] = m_Observers[i]
        BY <2>2, <3>2, RemoveAtKeeps
      <3> QED
        BY <3>1, <3>3 DEF Listed
    <2>4. token[t] \notin alive /\ \A u \in Threads \ {t} : token[u] # token[t]
      BY <2>1 DEF TokenInv
    <2> QED
      BY <2>2, <2>3, <2>4
  <1> QED
    BY <1>1, <1>2, <1>3, <1>4, <1>5, <1>6, StepCases DEF Registers, Drops

\* DropToken() marks what it drops, since it finds it.
LEMMA StepRemovedInv == ASSUME IInv, [Next]_vars PROVE RemovedInv'
  <1> USE DEF IInv, DataOK, RemovedInv
  <1>1. CASE Quiet
    BY <1>1 DEF Quiet
  <1>2. ASSUME NEW t \in Threads, Registers(t)
        PROVE  RemovedInv'
    BY <1>2 DEF Registers, BeginObserve, InsertObserver, observers
  <1>3. ASSUME NEW t \in Threads, NEW k \in Tokens, BeginDrop(t, k)
        PROVE  RemovedInv'
    BY <1>3 DEF BeginDrop, observers
  <1>4. ASSUME NEW t \in Threads, DropLock(t)
        PROVE  RemovedInv'
    BY <1>4 DEF DropLock
  <1>5. ASSUME NEW t \in Threads, DropRemove(t)
        PROVE  RemovedInv'
    <2>1. Listed(token[t])
      BY <1>5 DEF DropRemove, ListInv, Dropping
    <2>2. /\ was_removed' = was_removed \cup {token[t]}
          /\ droppedBy' = [droppedBy EXCEPT ![token[t]] = t]
      BY <1>5, <2>1 DEF DropRemove, Unlist, Dropped
    <2> QED
      BY <2>2
  <1> QED
    BY <1>1, <1>2, <1>3, <1>4, <1>5, StepCases DEF Drops

\* FireObservers() looks at the mark with the observer's mutex, and DropToken() sets it
\* with the same mutex, so the callback of no other thread is under way then.
LEMMA StepSilentAfterDrop == ASSUME IInv, [Next]_vars PROVE SilentAfterDrop'
  <1> USE NamesAssumption DEF IInv, DataOK, SilentAfterDrop
  <1>1. CASE UNCHANGED <<calling, droppedBy>>
    BY <1>1
  <1>2. ASSUME NEW t \in Threads, FireNext(t)
        PROVE  SilentAfterDrop'
    <2>1. UNCHANGED droppedBy
      BY <1>2 DEF FireNext
    <2>2. \/ UNCHANGED calling
          \/ /\ calling' = [calling EXCEPT ![t] = Head(snapshot[t])]
             /\ Head(snapshot[t]) \notin was_removed
      BY <1>2 DEF FireNext
    <2>3. ASSUME NEW u \in Threads, NEW k \in Tokens, calling'[u] = k, droppedBy[k] # None
          PROVE  calling[u] = k
      <3>1. k \in was_removed
        BY <2>3 DEF RemovedInv
      <3>2. CASE u = t
        BY <2>2, <2>3, <3>1, <3>2
      <3>3. CASE u # t
        BY <2>2, <2>3, <3>3
      <3> QED
        BY <3>2, <3>3
    <2> QED
      BY <2>1, <2>3
  <1>3. ASSUME NEW t \in Threads, CallbackReturns(t)
        PROVE  SilentAfterDrop'
    BY <1>3 DEF CallbackReturns
  <1>4. ASSUME NEW t \in Threads, DropRemove(t)
        PROVE  SilentAfterDrop'
    <2>1. Listed(token[t])
      BY <1>4 DEF DropRemove, ListInv, Dropping
    <2>2. /\ \A u \in Threads \ {t} : calling[u] # token[t]
          /\ droppedBy' = [droppedBy EXCEPT ![token[t]] = t]
          /\ UNCHANGED calling
      BY <1>4, <2>1 DEF DropRemove, HeldByOther, Dropped
    <2> QED
      BY <2>2
  <1>5. \/ UNCHANGED <<calling, droppedBy>>
        \/ \E t \in Threads : FireNext(t) \/ CallbackReturns(t) \/ DropRemove(t)
    <2>1. ASSUME NEW t \in Threads, Step(t)
          PROVE  UNCHANGED <<calling, droppedBy>> \/ FireNext(t) \/ CallbackReturns(t) \/ DropRemove(t)
      <3>1. FindObservers(t) \/ FireEnd(t) => UNCHANGED <<calling, droppedBy>>
        BY DEF FindObservers, FireEnd
      <3>2. InsertObserver(t) \/ DropLock(t) => UNCHANGED <<calling, droppedBy>>
        BY DEF InsertObserver, DropLock
      <3>3. MarkDirty(t) \/ Overwrites(t) \/ Store(t) \/ Clear(t) => UNCHANGED <<calling, droppedBy>>
        BY DEF MarkDirty, Overwrites, Store, Clear, client
      <3> QED
        BY <2>1, <3>1, <3>2, <3>3 DEF Step
    <2>2. ASSUME NEW t \in Program, Call(t)
          PROVE  UNCHANGED <<calling, droppedBy>>
      BY <2>2 DEF Call, ReplaceOrInsert, BeginObserve, BeginDrop, Commit, ResetToDefaults, client
    <2>3. CASE BeginDump \/ UNCHANGED vars
      BY <2>3 DEF BeginDump, client, vars
    <2> QED
      BY <2>1, <2>2, <2>3 DEF Next
  <1> QED
    BY <1>1, <1>2, <1>3, <1>4, <1>5

-----------------------------------------------------------------------------
(* Changes: ChangesInv is inductive.                                       *)

LEMMA InitChangesInv == Init => ChangesInv
  <1> SUFFICES ASSUME Init PROVE ChangesInv
    OBVIOUS
  <1> USE NamesAssumption DEF Init, Threads
  <1>1. ThreadInv
    BY DEF ThreadInv
  <1>2. SeenInv
    BY DEF SeenInv, Listed, ToSet
  <1>3. FreshInv /\ FileInv
    BY DEF FreshInv, FileInv
  <1> QED
    BY <1>1, <1>2, <1>3, InitIInv DEF ChangesInv

\* A thread does one step at a time; the executor's first one is BeginDump.
LEMMA StepThreadInv == ASSUME ChangesInv, [Next]_vars PROVE ThreadInv'
  <1> USE NamesAssumption
      DEF ChangesInv, IInv, DataOK, ThreadInv, observers, overwrites, bounds, client
  <1>1. ASSUME NEW t \in Threads, Step(t)
        PROVE  ThreadInv'
    <2>1. CASE FindObservers(t)
      BY <2>1 DEF FindObservers
    <2>2. CASE FireNext(t)
      <3>1. snapshot[t] \in Seq(Tokens) /\ snapshot[t] # <<>>
        BY <2>2 DEF FireNext
      <3>2. Head(snapshot[t]) \in Tokens
        BY <3>1, HeadTailProperties
      <3>3. pc[t] = "fire" /\ task' = task /\ snapshot' = [snapshot EXCEPT ![t] = Tail(@)]
        BY <2>2 DEF FireNext
      <3>4. \/ UNCHANGED <<pc, calling>>
            \/ /\ calling' = [calling EXCEPT ![t] = Head(snapshot[t])]
               /\ pc' = [pc EXCEPT ![t] = "callback"]
        BY <2>2 DEF FireNext
      <3> QED
        BY <3>2, <3>3, <3>4
    <2>3. CASE FireEnd(t)
      BY <2>3 DEF FireEnd
    <2>4. CASE CallbackReturns(t)
      BY <2>4 DEF CallbackReturns
    <2>5. CASE InsertObserver(t)
      BY <2>5 DEF InsertObserver, Return
    <2>6. CASE DropLock(t)
      BY <2>6 DEF DropLock
    <2>7. CASE DropRemove(t)
      BY <2>7 DEF DropRemove, Dropped, Return
    <2>8. CASE MarkDirty(t)
      BY <2>8 DEF MarkDirty
    <2>9. CASE Overwrites(t)
      BY <2>9 DEF Overwrites
    <2>10. CASE Store(t)
      BY <2>10 DEF Store
    <2>11. CASE Clear(t)
      BY <2>11 DEF Clear
    <2> QED
      BY <1>1, <2>1, <2>2, <2>3, <2>4, <2>5, <2>6, <2>7, <2>8, <2>9, <2>10, <2>11 DEF Step
  <1>2. ASSUME NEW t \in Program, Call(t)
        PROVE  ThreadInv'
    <2>1. t \in Threads
      BY DEF Threads
    <2>2. ASSUME NEW value \in Values, ReplaceOrInsert(t, value)
          PROVE  ThreadInv'
      BY <2>1, <2>2 DEF ReplaceOrInsert
    <2>3. ASSUME NEW k \in Tokens, BeginObserve(t, k)
          PROVE  ThreadInv'
      BY <2>1, <2>3 DEF BeginObserve, Free
    <2>4. ASSUME NEW k \in Tokens, BeginDrop(t, k)
          PROVE  ThreadInv'
      BY <2>1, <2>4 DEF BeginDrop, Free
    <2>5. CASE Commit(t)
      BY <2>1, <2>5 DEF Commit
    <2>6. CASE ResetToDefaults(t)
      BY <2>1, <2>6 DEF ResetToDefaults
    <2> QED
      BY <1>2, <2>2, <2>3, <2>4, <2>5, <2>6 DEF Call
  <1>3. CASE BeginDump
    BY <1>3 DEF BeginDump, Threads
  <1>4. CASE UNCHANGED vars
    BY <1>4 DEF vars
  <1> QED
    BY <1>1, <1>2, <1>3, <1>4 DEF Next

\* The steps that show observers the document, or that change it.
Fires(t) ==
    \/ FindObservers(t) \/ FireNext(t) \/ InsertObserver(t)
    \/ ResetToDefaults(t)
    \/ \E value \in Values : ReplaceOrInsert(t, value)

LEMMA FiringCases ==
  ASSUME ChangesInv, [Next]_vars
  PROVE  \/ UNCHANGED <<m_Document, snapshot, seen>>
         \/ \E t \in Threads : Fires(t)
  <1>1. ASSUME NEW t \in Threads, Step(t)
        PROVE  UNCHANGED <<m_Document, snapshot, seen>> \/ Fires(t)
    <2>1. FireEnd(t) \/ CallbackReturns(t) \/ DropLock(t) \/ DropRemove(t) =>
              UNCHANGED <<m_Document, snapshot, seen>>
      BY DEF FireEnd, CallbackReturns, DropLock, DropRemove
    <2>2. MarkDirty(t) \/ Overwrites(t) \/ Store(t) \/ Clear(t) =>
              UNCHANGED <<m_Document, snapshot, seen>>
      BY DEF MarkDirty, Overwrites, Store, Clear, client
    <2> QED
      BY <1>1, <2>1, <2>2 DEF Step, Fires
  <1>2. ASSUME NEW t \in Program, Call(t)
        PROVE  t \in Threads /\ (UNCHANGED <<m_Document, snapshot, seen>> \/ Fires(t))
    <2>1. \A k : BeginObserve(t, k) \/ BeginDrop(t, k) => UNCHANGED <<m_Document, snapshot, seen>>
      BY DEF BeginObserve, BeginDrop
    <2>2. Commit(t) => UNCHANGED <<m_Document, snapshot, seen>>
      BY DEF Commit, client
    <2> QED
      BY <1>2, <2>1, <2>2 DEF Call, Fires, Threads
  <1>3. CASE BeginDump \/ UNCHANGED vars
    BY <1>3 DEF BeginDump, client, vars
  <1> QED
    BY <1>1, <1>2, <1>3 DEF Next

\* FireNext() on a thread: the head of the snapshot is shown the document unless removed.
LEMMA FireNextFacts ==
  ASSUME ChangesInv, NEW t \in Threads, FireNext(t)
  PROVE  LET k == Head(snapshot[t])
         IN  /\ pc[t] = "fire" /\ k \in Tokens /\ seen[k] # None
             /\ ToSet(snapshot[t]) = {k} \cup ToSet(snapshot'[t])
             /\ \A u \in Threads \ {t} : snapshot'[u] = snapshot[u] /\ pc'[u] = pc[u]
             /\ pc'[t] \in {"fire", "callback"}
             /\ IF k \in was_removed THEN seen' = seen
                                     ELSE seen' = [seen EXCEPT ![k] = m_Document]
             /\ UNCHANGED <<m_Document, m_Observers, was_removed, token, alive, task>>
  <1> DEFINE k == Head(snapshot[t])
  <1>1. /\ pc[t] = "fire" /\ snapshot[t] # <<>>
        /\ snapshot' = [snapshot EXCEPT ![t] = Tail(snapshot[t])]
        /\ \/ k \in was_removed /\ UNCHANGED <<pc, seen>>
           \/ /\ k \notin was_removed /\ seen' = [seen EXCEPT ![k] = m_Document]
              /\ pc' = [pc EXCEPT ![t] = "callback"]
        /\ UNCHANGED <<m_Document, m_Observers, was_removed, token, alive, task>>
    BY DEF FireNext, observers
  <1>2. snapshot \in [Threads -> Seq(Tokens)] /\ DOMAIN pc = Threads
    BY DEF ChangesInv, IInv, DataOK
  <1>3. /\ k \in Tokens /\ k \in ToSet(snapshot[t])
        /\ ToSet(snapshot[t]) = {k} \cup ToSet(Tail(snapshot[t]))
    BY <1>1, <1>2, ToSetHead
  <1>4. snapshot'[t] = Tail(snapshot[t])
    BY <1>1, <1>2
  <1>5. seen[k] # None
    BY <1>3 DEF ChangesInv, SeenInv
  <1>6. /\ \A u \in Threads \ {t} : snapshot'[u] = snapshot[u] /\ pc'[u] = pc[u]
        /\ pc'[t] \in {"fire", "callback"}
    BY <1>1, <1>2
  <1> HIDE DEF k
  <1>7. IF k \in was_removed THEN seen' = seen ELSE seen' = [seen EXCEPT ![k] = m_Document]
    BY <1>1
  <1> QED
    BY <1>1, <1>3, <1>4, <1>5, <1>6, <1>7 DEF k

\* InsertObserver() on a thread.
LEMMA InsertFacts ==
  ASSUME ChangesInv, NEW t \in Threads, InsertObserver(t)
  PROVE  /\ token[t] \in Tokens /\ seen[token[t]] = None
         /\ \A k : Listed(k)' => Listed(k) \/ k = token[t]
         /\ alive' = alive \cup {token[t]}
         /\ seen' = [seen EXCEPT ![token[t]] = m_Document]
         /\ \A u \in Threads \ {t} : pc'[u] = pc[u] /\ token'[u] = token[u]
         /\ pc[t] = "observe" /\ pc'[t] \in {"idle", "callback"}
         /\ UNCHANGED <<m_Document, was_removed, snapshot, task>>
  <1>1. pc[t] = "observe" /\ token[t] \in Tokens /\ seen[token[t]] = None
    BY DEF InsertObserver, ChangesInv, IInv, TokenInv, SeenInv
  <1>2. /\ m_Observers' = Append(m_Observers, token[t])
        /\ alive' = alive \cup {token[t]}
        /\ seen' = [seen EXCEPT ![token[t]] = m_Document]
        /\ token' = [token EXCEPT ![t] = None]
        /\ pc' = [pc EXCEPT ![t] = IF calling[t] = None THEN "idle" ELSE "callback"]
        /\ UNCHANGED <<m_Document, was_removed, snapshot, task>>
    BY DEF InsertObserver, Insert, Return
  <1>3. m_Observers \in Seq(Tokens) /\ DOMAIN pc = Threads /\ DOMAIN token = Threads
    BY DEF ChangesInv, IInv, DataOK
  <1>4. ToSet(m_Observers') = ToSet(m_Observers) \cup {token[t]}
    BY <1>1, <1>2, <1>3, ToSetAppend
  <1>5. \A k : Listed(k)' => Listed(k) \/ k = token[t]
    BY <1>4 DEF Listed, ToSet
  <1>6. /\ \A u \in Threads \ {t} : pc'[u] = pc[u] /\ token'[u] = token[u]
        /\ pc'[t] \in {"idle", "callback"}
    BY <1>2, <1>3
  <1> QED
    BY <1>1, <1>2, <1>5, <1>6

\* DropRemove() on a thread.
LEMMA RemoveFacts ==
  ASSUME ChangesInv, NEW t \in Threads, DropRemove(t)
  PROVE  /\ token[t] \in Tokens /\ seen[token[t]] # None /\ token[t] \notin alive
         /\ \A k : Listed(k)' => Listed(k)
         /\ was_removed' = was_removed \cup {token[t]}
         /\ \A u \in Threads \ {t} : pc'[u] = pc[u] /\ token'[u] = token[u]
         /\ pc[t] = "dropLocked" /\ pc'[t] \in {"idle", "callback"}
         /\ UNCHANGED <<m_Document, alive, seen, snapshot, task>>
  <1>1. pc[t] = "dropLocked" /\ token[t] \in Tokens /\ Listed(token[t]) /\ token[t] \notin alive
    BY DEF DropRemove, ChangesInv, IInv, TokenInv, ListInv, Dropping
  <1>2. /\ m_Observers' = RemoveAt(m_Observers, Position(token[t]))
        /\ was_removed' = was_removed \cup {token[t]}
        /\ token' = [token EXCEPT ![t] = None]
        /\ pc' = [pc EXCEPT ![t] = IF calling[t] = None THEN "idle" ELSE "callback"]
        /\ UNCHANGED <<m_Document, alive, seen, snapshot, task>>
    BY <1>1 DEF DropRemove, Unlist, Dropped, Return
  <1>3. m_Observers \in Seq(Tokens) /\ DOMAIN pc = Threads /\ DOMAIN token = Threads
    BY DEF ChangesInv, IInv, DataOK
  <1>4. \A m \in DOMAIN m_Observers' : \E j \in DOMAIN m_Observers : m_Observers'[m] = m_Observers[j]
    BY <1>1, <1>2, <1>3, PositionOfListed, RemoveAtKeeps
  <1>5. \A k : Listed(k)' => Listed(k)
    BY <1>4 DEF Listed
  <1>6. seen[token[t]] # None
    BY <1>1 DEF ChangesInv, SeenInv
  <1>7. /\ \A u \in Threads \ {t} : pc'[u] = pc[u] /\ token'[u] = token[u]
        /\ pc'[t] \in {"idle", "callback"}
    BY <1>2, <1>3
  <1> QED
    BY <1>1, <1>2, <1>5, <1>6, <1>7

LEMMA StepSeenInv == ASSUME ChangesInv, [Next]_vars PROVE SeenInv'
  <1> USE NamesAssumption DEF ChangesInv, SeenInv
  <1>0. m_Document # None /\ token \in [Threads -> Tokens \cup {None}] /\ DOMAIN seen = Tokens
        /\ \A k \in Tokens : seen[k] \in Values \cup {None}
    BY DEF IInv, DataOK
  <1>1. CASE Quiet /\ UNCHANGED <<m_Document, snapshot, seen>>
    <2>1. UNCHANGED <<m_Observers, was_removed, token, alive, seen, snapshot>>
      BY <1>1 DEF Quiet
    <2>2. \A t \in Threads : pc'[t] = "observe" => pc[t] = "observe"
      BY <1>1 DEF Quiet
    <2> QED
      BY <2>1, <2>2 DEF Listed
  <1>2. ASSUME NEW t \in Threads, FindObservers(t)
        PROVE  SeenInv'
    <2>1. /\ snapshot' = [snapshot EXCEPT ![t] = m_Observers] /\ pc' = [pc EXCEPT ![t] = "fire"]
          /\ UNCHANGED <<m_Observers, was_removed, token, alive, seen>>
      BY <1>2 DEF FindObservers, observers
    <2>2. \A k \in ToSet(m_Observers) : k \in Tokens /\ Listed(k)
      <3>1. m_Observers \in Seq(Tokens)
        BY DEF IInv, DataOK
      <3> QED
        BY <3>1, ToSetEmpty DEF Listed, ToSet
    <2>3. \A u \in Threads : snapshot'[u] = IF u = t THEN m_Observers ELSE snapshot[u]
      BY <2>1 DEF IInv, DataOK
    <2>4. \A u \in Threads : pc'[u] = "observe" => pc[u] = "observe"
      BY <2>1 DEF IInv, DataOK
    <2> QED
      BY <2>1, <2>2, <2>3, <2>4 DEF Listed
  <1>3. ASSUME NEW t \in Threads, FireNext(t)
        PROVE  SeenInv'
    <2>1. PICK k \in Tokens :
              /\ pc[t] = "fire" /\ seen[k] # None
              /\ ToSet(snapshot[t]) = {k} \cup ToSet(snapshot'[t])
              /\ \A u \in Threads \ {t} : snapshot'[u] = snapshot[u] /\ pc'[u] = pc[u]
              /\ pc'[t] \in {"fire", "callback"}
              /\ IF k \in was_removed THEN seen' = seen
                                      ELSE seen' = [seen EXCEPT ![k] = m_Document]
              /\ UNCHANGED <<m_Document, m_Observers, was_removed, token, alive, task>>
      BY <1>3, FireNextFacts
    <2>2. \A j \in Tokens : /\ seen[j] # None => seen'[j] # None
                            /\ j # k => seen'[j] = seen[j]
      BY <1>0, <2>1
    <2>3. \A u \in Threads : \A j \in ToSet(snapshot'[u]) : j \in ToSet(snapshot[u])
      BY <2>1
    <2>4. \A u \in Threads : \A j \in ToSet(snapshot[u]) : j \in Tokens
      <3>1. snapshot \in [Threads -> Seq(Tokens)]
        BY DEF IInv, DataOK
      <3> QED
        BY <3>1, ToSetEmpty
    <2>5. \A u \in Threads : pc'[u] = "observe" => pc[u] = "observe" /\ token[u] \in Tokens
      BY <2>1 DEF IInv, TokenInv
    <2>6. ASSUME NEW j \in Tokens, Listed(j)' \/ j \in was_removed'
          PROVE  seen'[j] # None
      <3>1. Listed(j) \/ j \in was_removed
        BY <2>1, <2>6 DEF Listed
      <3>2. seen[j] # None
        BY <3>1
      <3> QED
        BY <2>2, <3>2
    <2>7. ASSUME NEW u \in Threads, NEW j \in ToSet(snapshot'[u])
          PROVE  seen'[j] # None
      <3>1. j \in ToSet(snapshot[u])
        BY <2>3
      <3>2. j \in Tokens
        BY <2>4, <3>1
      <3>3. seen[j] # None
        BY <3>1
      <3> QED
        BY <2>2, <3>2, <3>3
    <2>8. \A u \in Threads : pc'[u] = "observe" => seen'[token'[u]] = None
      <3>1. ASSUME NEW u \in Threads, pc'[u] = "observe"
            PROVE  seen'[token[u]] = None
        <4>1. token[u] \in Tokens /\ seen[token[u]] = None
          BY <2>5, <3>1
        <4> QED
          BY <2>1, <2>2, <4>1
      <3> QED
        BY <2>1, <3>1
    <2> QED
      BY <2>1, <2>6, <2>7, <2>8
  <1>4. ASSUME NEW t \in Threads, NEW k \in Tokens, BeginObserve(t, k)
        PROVE  SeenInv'
    <2>1. seen[k] = None
      BY <1>4 DEF BeginObserve, Offered
    <2>2. /\ token' = [token EXCEPT ![t] = k] /\ pc' = [pc EXCEPT ![t] = "observe"]
          /\ UNCHANGED <<m_Observers, was_removed, alive, seen, snapshot>>
      BY <1>4 DEF BeginObserve, observers
    <2>3. \A u \in Threads : /\ token'[u] = IF u = t THEN k ELSE token[u]
                             /\ u # t => pc'[u] = pc[u]
      BY <2>2 DEF IInv, DataOK
    <2> QED
      BY <2>1, <2>2, <2>3 DEF Listed
  <1>5. ASSUME NEW t \in Threads, InsertObserver(t)
        PROVE  SeenInv'
    <2>1. /\ token[t] \in Tokens /\ seen[token[t]] = None
          /\ \A k : Listed(k)' => Listed(k) \/ k = token[t]
          /\ alive' = alive \cup {token[t]}
          /\ seen' = [seen EXCEPT ![token[t]] = m_Document]
          /\ \A u \in Threads \ {t} : pc'[u] = pc[u] /\ token'[u] = token[u]
          /\ pc'[t] \in {"idle", "callback"}
          /\ UNCHANGED <<was_removed, snapshot>>
      BY <1>5, InsertFacts
    <2>2. \A j \in Tokens : seen[j] # None \/ j = token[t] => seen'[j] # None
      BY <1>0, <2>1
    <2>3. \A j \in Tokens : j # token[t] => seen'[j] = seen[j]
      BY <1>0, <2>1
    <2>6. \A u \in Threads : \A j \in ToSet(snapshot[u]) : j \in Tokens
      <3>1. snapshot \in [Threads -> Seq(Tokens)]
        BY DEF IInv, DataOK
      <3> QED
        BY <3>1, ToSetEmpty
    <2>4. \A u \in Threads \ {t} : token[u] # token[t]
      BY <2>1 DEF IInv, TokenInv
    <2>5. \A u \in Threads : pc'[u] = "observe" =>
                               u # t /\ pc[u] = "observe" /\ token[u] \in Tokens
      BY <2>1 DEF IInv, TokenInv
    <2> QED
      BY <2>1, <2>2, <2>3, <2>4, <2>5, <2>6
  <1>6. ASSUME NEW t \in Threads, NEW k \in Tokens, BeginDrop(t, k)
        PROVE  SeenInv'
    <2>1. /\ alive' \subseteq alive /\ token' = [token EXCEPT ![t] = k]
          /\ pc' = [pc EXCEPT ![t] = "drop"]
          /\ UNCHANGED <<m_Observers, was_removed, seen, snapshot>>
      BY <1>6 DEF BeginDrop, observers
    <2>2. \A u \in Threads : pc'[u] = "observe" => pc[u] = "observe" /\ token'[u] = token[u]
      BY <2>1 DEF IInv, DataOK
    <2> QED
      BY <2>1, <2>2 DEF Listed
  <1>7. ASSUME NEW t \in Threads, DropLock(t)
        PROVE  SeenInv'
    <2>1. pc' = [pc EXCEPT ![t] = "dropLocked"]
          /\ UNCHANGED <<m_Observers, was_removed, alive, token, seen, snapshot>>
      BY <1>7 DEF DropLock
    <2>2. \A u \in Threads : pc'[u] = "observe" => pc[u] = "observe"
      BY <2>1 DEF IInv, DataOK
    <2> QED
      BY <2>1, <2>2 DEF Listed
  <1>8. ASSUME NEW t \in Threads, DropRemove(t)
        PROVE  SeenInv'
    <2>1. /\ token[t] \in Tokens /\ seen[token[t]] # None /\ token[t] \notin alive
          /\ \A k : Listed(k)' => Listed(k)
          /\ was_removed' = was_removed \cup {token[t]}
          /\ \A u \in Threads \ {t} : pc'[u] = pc[u] /\ token'[u] = token[u]
          /\ pc'[t] \in {"idle", "callback"}
          /\ UNCHANGED <<alive, seen, snapshot>>
      BY <1>8, RemoveFacts
    <2>2. \A u \in Threads : pc'[u] = "observe" => u # t /\ pc[u] = "observe"
      BY <2>1
    <2> QED
      BY <2>1, <2>2
  <1>9. ASSUME NEW t \in Threads, Fires(t), Quiet, ~FindObservers(t), ~FireNext(t)
        PROVE  SeenInv'
    <2>1. UNCHANGED <<snapshot, seen>>
      <3>1. ~InsertObserver(t)
        <4>1. SUFFICES ASSUME InsertObserver(t) PROVE FALSE
          OBVIOUS
        <4>2. token[t] \in Tokens /\ token' = [token EXCEPT ![t] = None]
          BY <4>1, InsertFacts DEF InsertObserver, Return
        <4> QED
          BY <1>0, <1>9, <4>2 DEF Quiet
      <3> QED
        BY <1>9, <3>1 DEF Fires, ReplaceOrInsert, ResetToDefaults
    <2>2. UNCHANGED <<m_Observers, was_removed, token, alive, seen, snapshot>>
      BY <1>9, <2>1 DEF Quiet
    <2>3. \A u \in Threads : pc'[u] = "observe" => pc[u] = "observe"
      BY <1>9 DEF Quiet
    <2> QED
      BY <2>2, <2>3 DEF Listed
  <1> QED
    BY <1>1, <1>2, <1>3, <1>4, <1>5, <1>6, <1>7, <1>8, <1>9, StepCases, FiringCases
       DEF Registers, Drops

\* What one thread does.
Acts(t) == Step(t) \/ (t \in Program /\ Call(t)) \/ (t = Executor /\ BeginDump)

\* A step is one of one thread, and leaves the others where they are.
LEMMA OneActs ==
  ASSUME [Next]_vars
  PROVE  UNCHANGED vars \/ \E t \in Threads : Acts(t)
  BY DEF Next, Acts, Threads

LEMMA OthersStay ==
  ASSUME DataOK, NEW t \in Threads, Acts(t)
  PROVE  \A u \in Threads \ {t} :
            pc'[u] = pc[u] /\ task'[u] = task[u] /\ snapshot'[u] = snapshot[u] /\ document'[u] = document[u]
  <1> USE DEF DataOK, overwrites, client
  <1>1. CASE Step(t)
    <2>1. CASE FindObservers(t) \/ FireEnd(t) \/ CallbackReturns(t) \/ DropLock(t)
      BY <2>1 DEF FindObservers, FireEnd, CallbackReturns, DropLock
    <2>2. CASE FireNext(t)
      <3>1. /\ snapshot' = [snapshot EXCEPT ![t] = Tail(@)]
            /\ UNCHANGED pc \/ pc' = [pc EXCEPT ![t] = "callback"]
            /\ UNCHANGED <<task, document>>
        BY <2>2 DEF FireNext
      <3> QED
        BY <3>1
    <2>3. CASE InsertObserver(t) \/ DropRemove(t)
      <3>1. pc' = [pc EXCEPT ![t] = IF calling[t] = None THEN "idle" ELSE "callback"]
            /\ UNCHANGED <<task, snapshot, document>>
        BY <2>3 DEF InsertObserver, DropRemove, Dropped, Return
      <3> QED
        BY <3>1
    <2>4. CASE MarkDirty(t) \/ Overwrites(t) \/ Store(t) \/ Clear(t)
      BY <2>4 DEF MarkDirty, Overwrites, Store, Clear
    <2> QED
      BY <1>1, <2>1, <2>2, <2>3, <2>4 DEF Step
  <1>2. CASE Call(t)
    <2>1. CASE \E k \in Tokens : BeginObserve(t, k) \/ BeginDrop(t, k)
      BY <2>1 DEF BeginObserve, BeginDrop
    <2>2. CASE \E value \in Values : ReplaceOrInsert(t, value)
      BY <2>2 DEF ReplaceOrInsert
    <2>3. CASE Commit(t) \/ ResetToDefaults(t)
      BY <2>3 DEF Commit, ResetToDefaults
    <2> QED
      BY <1>2, <2>1, <2>2, <2>3 DEF Call
  <1>3. CASE t = Executor /\ BeginDump
    BY <1>3 DEF BeginDump
  <1> QED
    BY <1>1, <1>2, <1>3 DEF Acts

\* The document is as it was, and so is what the observer saw, unless that is the document
\* now; the thread is no further from the observer.
StaysFresh(t, k) ==
    /\ UNCHANGED m_Document
    /\ \/ seen'[k] = m_Document
       \/ k \in alive /\ seen'[k] = seen[k] /\ (WillFire(t, k) => WillFire(t, k)')

\* Every step leaves an observer fresh or changes the document; its thread then has yet to
\* fire all the observers.
LEMMA StaysFreshOrFires ==
  ASSUME ChangesInv, NEW t \in Threads, Acts(t), NEW k \in alive'
  PROVE  StaysFresh(t, k) \/ WillFire(t, k)'
  <1> USE DEF StaysFresh, WillFire, observers, overwrites, client
  <1>1. DOMAIN pc = Threads /\ DOMAIN task = Threads /\ DOMAIN seen = Tokens /\ alive \subseteq Tokens
    BY DEF ChangesInv, IInv, DataOK
  <1>2. CASE Step(t)
    <2>1. CASE FindObservers(t)
      <3>1. k \in alive /\ m_Document' = m_Document /\ seen' = seen /\ snapshot'[t] = m_Observers
        BY <2>1 DEF FindObservers, ChangesInv, IInv, DataOK
      <3>2. Listed(k)
        BY <3>1 DEF ChangesInv, IInv, ListInv
      <3>3. k \in ToSet(m_Observers)
        BY <3>2 DEF Listed, ToSet
      <3> QED
        BY <3>1, <3>3
    <2>2. CASE FireNext(t)
      <3>1. PICK j \in Tokens :
                /\ pc[t] = "fire"
                /\ ToSet(snapshot[t]) = {j} \cup ToSet(snapshot'[t])
                /\ IF j \in was_removed THEN seen' = seen
                                        ELSE seen' = [seen EXCEPT ![j] = m_Document]
                /\ UNCHANGED <<m_Document, alive, task>>
        BY <2>2, FireNextFacts
      <3>2. k \in alive /\ k \notin was_removed
        BY <3>1 DEF ChangesInv, SeenInv
      <3>3. CASE j = k
        BY <1>1, <3>1, <3>2, <3>3
      <3>4. CASE j # k
        <4>1. seen'[k] = seen[k]
          BY <1>1, <3>1, <3>4
        <4>2. k \in ToSet(snapshot[t]) => k \in ToSet(snapshot'[t])
          BY <3>1, <3>4
        <4>3. WillFire(t, k) => k \in ToSet(snapshot[t])
          BY <3>1
        <4> QED
          BY <3>1, <3>2, <4>1, <4>2, <4>3
      <3> QED
        BY <3>3, <3>4
    <2>3. CASE FireEnd(t)
      <3>1. /\ k \in alive /\ pc[t] = "fire" /\ snapshot[t] = <<>>
            /\ UNCHANGED <<m_Document, seen, snapshot>>
        BY <2>3 DEF FireEnd
      <3>2. ToSet(snapshot[t]) = {}
        BY <3>1 DEF ToSet
      <3> QED
        BY <3>1, <3>2
    <2>4. CASE CallbackReturns(t) \/ DropLock(t)
      <3>1. /\ k \in alive /\ pc[t] \in {"callback", "drop"}
            /\ UNCHANGED <<m_Document, seen, snapshot>>
        BY <2>4 DEF CallbackReturns, DropLock
      <3> QED
        BY <3>1
    <2>5. CASE InsertObserver(t)
      <3>1. /\ token[t] \in Tokens
            /\ alive' = alive \cup {token[t]}
            /\ seen' = [seen EXCEPT ![token[t]] = m_Document]
            /\ pc[t] = "observe" /\ UNCHANGED <<m_Document, snapshot>>
        BY <2>5, InsertFacts
      <3> QED
        BY <1>1, <3>1
    <2>6. CASE DropRemove(t)
      <3>1. pc[t] = "dropLocked" /\ UNCHANGED <<m_Document, alive, seen, snapshot>>
        BY <2>6, RemoveFacts
      <3> QED
        BY <3>1
    <2>7. CASE MarkDirty(t)
      BY <2>7 DEF MarkDirty
    <2>8. CASE Overwrites(t)
      BY <1>1, <2>8 DEF Overwrites
    <2>9. CASE Store(t)
      BY <1>1, <2>9 DEF Store
    <2>10. CASE Clear(t)
      BY <1>1, <2>10 DEF Clear
    <2> QED
      BY <1>2, <2>1, <2>2, <2>3, <2>4, <2>5, <2>6, <2>7, <2>8, <2>9, <2>10 DEF Step
  <1>3. CASE t \in Program /\ Call(t)
    <2>1. ASSUME NEW j \in Tokens, BeginObserve(t, j) \/ BeginDrop(t, j)
          PROVE  StaysFresh(t, k)
      <3>1. /\ k \in alive /\ pc[t] \in {"idle", "callback"}
            /\ UNCHANGED <<m_Document, seen, snapshot>>
        BY <2>1 DEF BeginObserve, BeginDrop, Free
      <3> QED
        BY <3>1
    <2>2. ASSUME NEW value \in Values, ReplaceOrInsert(t, value)
          PROVE  WillFire(t, k)'
      BY <1>1, <2>2 DEF ReplaceOrInsert
    <2>3. CASE Commit(t)
      BY <2>3 DEF Commit
    <2>4. CASE ResetToDefaults(t)
      BY <1>1, <2>4 DEF ResetToDefaults
    <2> QED
      BY <1>3, <2>1, <2>2, <2>3, <2>4 DEF Call
  <1>4. CASE t = Executor /\ BeginDump
    BY <1>4 DEF BeginDump
  <1> QED
    BY <1>2, <1>3, <1>4 DEF Acts

\* No observer is passed over: the thread that changed the document fires after that, from a
\* snapshot that has every observer alive, or shows it the document when it registers.
LEMMA StepFreshInv == ASSUME ChangesInv, [Next]_vars PROVE FreshInv'
  <1>1. CASE UNCHANGED vars
    BY <1>1 DEF vars, observers, overwrites, bounds, ChangesInv, FreshInv, WillFire
  <1>2. ASSUME NEW t \in Threads, Acts(t), NEW k \in alive'
        PROVE  seen'[k] = m_Document' \/ \E u \in Threads : WillFire(u, k)'
    <2>1. CASE StaysFresh(t, k)
      <3>1. CASE seen'[k] = m_Document
        BY <2>1, <3>1 DEF StaysFresh
      <3>2. CASE seen'[k] # m_Document
        <4>1. k \in alive /\ seen[k] # m_Document /\ (WillFire(t, k) => WillFire(t, k)')
          BY <2>1, <3>2 DEF StaysFresh
        <4>2. PICK u \in Threads : WillFire(u, k)
          BY <4>1 DEF ChangesInv, FreshInv
        <4>3. DataOK
          BY DEF ChangesInv, IInv
        <4>4. u # t => WillFire(u, k)'
          BY <1>2, <4>2, <4>3, OthersStay DEF WillFire
        <4> QED
          BY <4>1, <4>2, <4>4
      <3> QED
        BY <3>1, <3>2
    <2> QED
      BY <1>2, <2>1, StaysFreshOrFires
  <1> QED
    BY <1>1, <1>2, OneActs DEF FreshInv

\* The steps of the writes and of what asks for them.
Writes(t) ==
    \/ MarkDirty(t) \/ Overwrites(t) \/ Store(t) \/ Clear(t)
    \/ Commit(t) \/ ResetToDefaults(t) \/ (t = Executor /\ BeginDump)

\* The steps of the observers change nothing of the file, the flag, the writes under way and the
\* changes they are for.
LEMMA ObserverStepsWriteNothing ==
  ASSUME ChangesInv, NEW t \in Threads, Acts(t), ~Writes(t)
  PROVE  /\ UNCHANGED <<overwrites, commits>>
         /\ \A label \in {"overwrites", "store", "clear"} : pc[t] # label /\ pc'[t] # label
         /\ \/ UNCHANGED m_Document /\ (task[t] = "set" => task'[t] = "set" \/ pc'[t] = "markDirty")
            \/ task'[t] = "set"
         /\ pc[t] # "markDirty"
  <1> USE DEF bounds
  <1>1. DOMAIN pc = Threads /\ DOMAIN task = Threads
    BY DEF ChangesInv, IInv, DataOK
  <1>2. CASE Step(t)
    <2>1. CASE FindObservers(t)
      BY <1>1, <2>1 DEF FindObservers
    <2>2. CASE FireNext(t)
      <3>1. /\ pc[t] = "fire" /\ UNCHANGED <<overwrites, commits, task, m_Document>>
            /\ UNCHANGED pc \/ pc' = [pc EXCEPT ![t] = "callback"]
        BY <2>2 DEF FireNext
      <3> QED
        BY <1>1, <3>1
    <2>3. CASE FireEnd(t)
      BY <1>1, <2>3 DEF FireEnd
    <2>4. CASE CallbackReturns(t) \/ DropLock(t)
      BY <1>1, <2>4 DEF CallbackReturns, DropLock
    <2>5. CASE InsertObserver(t) \/ DropRemove(t)
      <3>1. /\ pc[t] \in {"observe", "dropLocked"}
            /\ UNCHANGED <<overwrites, commits, task, m_Document>>
            /\ pc' = [pc EXCEPT ![t] = IF calling[t] = None THEN "idle" ELSE "callback"]
        BY <2>5 DEF InsertObserver, DropRemove, Dropped, Return
      <3> QED
        BY <1>1, <3>1
    <2> QED
      BY <1>2, <2>1, <2>2, <2>3, <2>4, <2>5 DEF Step, Writes
  <1>3. CASE t \in Program /\ Call(t)
    <2>1. CASE \E k \in Tokens : BeginObserve(t, k) \/ BeginDrop(t, k)
      BY <1>1, <2>1 DEF BeginObserve, BeginDrop, Free
    <2>2. CASE \E value \in Values : ReplaceOrInsert(t, value)
      BY <1>1, <2>2 DEF ReplaceOrInsert
    <2> QED
      BY <1>3, <2>1, <2>2 DEF Call, Writes
  <1> QED
    BY <1>2, <1>3 DEF Acts, Writes

\* What a thread has to do for the latest change does not get lost: setting the value leads
\* to MarkDirty(), that to a block of the executor, that to overwrites with the latest value,
\* and those to the file.
LEMMA StepFileInv == ASSUME ChangesInv, [Next]_vars PROVE FileInv'
  <1> DEFINE Tasked == \E t \in Threads : task[t] = "set" \/ pc[t] = "markDirty"
             InFile == file = m_Document /\ \A t \in Threads : pc[t] = "store" => stores[t]
  <1>0. /\ m_WriteScheduled => WriteToCome \/ Excused
        /\ stranded \/ WriteToCome \/ Tasked \/ (\E t \in Threads : Current(t)) \/ InFile
    BY DEF ChangesInv, FileInv, ToBeWritten
  <1>00. SUFFICES /\ (m_WriteScheduled => WriteToCome \/ Excused)'
                  /\ (stranded \/ WriteToCome \/ Tasked \/ (\E t \in Threads : Current(t)) \/ InFile)'
    BY DEF FileInv, ToBeWritten
  <1>1. CASE UNCHANGED vars
    BY <1>0, <1>1 DEF vars, observers, overwrites, bounds, WriteToCome, Excused, Current
  <1>2. ASSUME NEW t \in Threads, Acts(t), ~Writes(t)
        PROVE  /\ (m_WriteScheduled => WriteToCome \/ Excused)'
               /\ (stranded \/ WriteToCome \/ Tasked \/ (\E u \in Threads : Current(u)) \/ InFile)'
    <2>1. /\ UNCHANGED <<m_WriteScheduled, dumps, file, document, stores, stranded, commits>>
          /\ \A label \in {"overwrites", "store", "clear"} : pc[t] # label /\ pc'[t] # label
          /\ \/ UNCHANGED m_Document /\ (task[t] = "set" => task'[t] = "set" \/ pc'[t] = "markDirty")
             \/ task'[t] = "set"
          /\ pc[t] # "markDirty"
      BY <1>2, ObserverStepsWriteNothing DEF overwrites
    <2>2. \A u \in Threads \ {t} : pc'[u] = pc[u] /\ task'[u] = task[u]
      BY <1>2, OthersStay DEF ChangesInv, IInv
    <2>3. \A u \in Threads : \A label \in {"overwrites", "store", "clear"} :
                                pc'[u] = label <=> pc[u] = label
      BY <2>1, <2>2
    <2>4. (WriteToCome => WriteToCome') /\ (Excused => Excused')
      BY <2>1, <2>3 DEF WriteToCome, Excused
    <2>5. CASE task'[t] = "set"
      BY <1>0, <2>1, <2>4, <2>5
    <2>6. CASE UNCHANGED m_Document /\ (task[t] = "set" => task'[t] = "set" \/ pc'[t] = "markDirty")
      <3>1. Tasked => Tasked'
        BY <2>1, <2>2, <2>6
      <3>2. \A u \in Threads : Current(u) => Current(u)'
        BY <2>1, <2>3, <2>6 DEF Current
      <3>3. InFile => InFile'
        BY <2>1, <2>3, <2>6
      <3> HIDE DEF Tasked, InFile
      <3> QED
        BY <1>0, <2>1, <2>4, <3>1, <3>2, <3>3
    <2> QED
      BY <2>1, <2>5, <2>6
  <1>3. ASSUME NEW t \in Threads, Acts(t), Writes(t)
        PROVE  /\ (m_WriteScheduled => WriteToCome \/ Excused)'
               /\ (stranded \/ WriteToCome \/ Tasked \/ (\E u \in Threads : Current(u)) \/ InFile)'
    <2>0. /\ DOMAIN pc = Threads /\ DOMAIN document = Threads /\ dumps \in Nat /\ commits \in Nat
          /\ \A u \in Threads \ {t} : pc'[u] = pc[u] /\ document'[u] = document[u]
      <3>1. DataOK /\ (commits \in 0..MaxCommits => commits \in Nat)
        BY BoundsAssumption DEF ChangesInv, IInv
      <3> QED
        BY <1>3, <3>1, OthersStay DEF DataOK
    <2>1. CASE MarkDirty(t)
      <3>1. /\ stranded' = (stranded \/ (m_WriteScheduled /\ ~WriteToCome /\ Excused))
            /\ dumps' = IF m_WriteScheduled THEN dumps ELSE dumps + 1
            /\ pc[t] = "markDirty" /\ pc'[t] = "idle" /\ commits' = commits
        BY <2>0, <2>1 DEF MarkDirty
      <3>2. WriteToCome => WriteToCome'
        BY <2>0, <3>1 DEF WriteToCome
      <3>3. Excused => Excused'
        BY <2>0, <3>1 DEF Excused
      <3>4. ~m_WriteScheduled => WriteToCome'
        BY <2>0, <3>1 DEF WriteToCome
      <3> HIDE DEF Tasked, InFile
      <3>5. CASE m_WriteScheduled
        <4>1. WriteToCome \/ (~WriteToCome /\ Excused)
          BY <1>0, <3>5
        <4>2. CASE WriteToCome
          BY <3>2, <4>2
        <4>3. CASE ~WriteToCome /\ Excused
          <5>1. m_WriteScheduled /\ ~WriteToCome /\ Excused
            BY <3>5, <4>3
          <5>2. stranded'
            BY <3>1, <5>1, Zenon
          <5> QED
            BY <3>3, <4>3, <5>2
        <4> QED
          BY <4>1, <4>2, <4>3
      <3>6. CASE ~m_WriteScheduled
        BY <3>4, <3>6
      <3> QED
        BY <3>5, <3>6
    <2>2. CASE t = Executor /\ BeginDump
      <3>1. pc'[t] = "overwrites"
        BY <2>0, <2>2 DEF BeginDump
      <3> QED
        BY <3>1 DEF WriteToCome
    <2>3. CASE ResetToDefaults(t)
      <3>1. pc'[t] = "overwrites"
        BY <2>0, <2>3 DEF ResetToDefaults
      <3> QED
        BY <3>1 DEF WriteToCome
    <2>4. CASE Overwrites(t)
      <3>1. pc'[t] = "store" /\ document'[t] = m_Document /\ m_Document' = m_Document
        BY <2>0, <2>4 DEF Overwrites, client
      <3> QED
        BY <3>1 DEF Current, Excused
    <2>5. CASE Store(t)
      <3>1. /\ pc[t] = "store" /\ pc'[t] = "clear" /\ file' = document[t]
            /\ stranded' = (stranded \/ (stores[t] /\ document[t] # m_Document))
            /\ \A u \in Threads : stores'[u] = (u # t /\ pc[u] = "store")
            /\ UNCHANGED <<m_Document, dumps, task, commits>>
        BY <2>0, <2>5 DEF Store, client
      <3>2. WriteToCome => WriteToCome'
        BY <2>0, <3>1 DEF WriteToCome
      <3>3. Excused'
        BY <3>1 DEF Excused
      <3>4. Tasked => Tasked'
        BY <2>0, <3>1
      <3>5. \A u \in Threads \ {t} : Current(u) => Current(u)'
        BY <2>0, <3>1 DEF Current
      <3>6. document[t] = m_Document => InFile'
        BY <2>0, <3>1
      <3>7. InFile => document[t] = m_Document \/ stranded'
        BY <3>1
      <3>8. Current(t) => document[t] = m_Document
        BY DEF Current
      <3>9. stranded => stranded'
        BY <3>1
      <3> HIDE DEF Tasked, InFile
      <3> QED
        BY <1>0, <3>2, <3>3, <3>4, <3>5, <3>6, <3>7, <3>8, <3>9
    <2>6. CASE Clear(t)
      <3>1. /\ pc[t] = "clear" /\ pc'[t] \in {"find", "idle"} /\ m_WriteScheduled' = FALSE
            /\ UNCHANGED <<m_Document, dumps, file, task, document, commits, stores, stranded>>
        BY <2>0, <2>6 DEF Clear, client
      <3>2. WriteToCome => WriteToCome'
        BY <2>0, <3>1 DEF WriteToCome
      <3>3. Tasked => Tasked'
        BY <2>0, <3>1
      <3>4. \A u \in Threads : Current(u) => Current(u)'
        BY <2>0, <3>1 DEF Current
      <3>5. InFile => InFile'
        BY <2>0, <3>1
      <3> HIDE DEF Tasked, InFile
      <3> QED
        BY <1>0, <3>1, <3>2, <3>3, <3>4, <3>5
    <2>7. CASE Commit(t)
      <3>1. /\ pc[t] = "idle" /\ pc'[t] \in {"overwrites", "idle"} /\ commits' = commits + 1
            /\ UNCHANGED <<m_Document, dumps, file, task, document, stores, stranded>>
        BY <2>0, <2>7 DEF Commit, client
      <3>2. WriteToCome => WriteToCome'
        BY <2>0, <3>1 DEF WriteToCome
      <3>3. Excused'
        BY <2>0, <3>1 DEF Excused
      <3>4. Tasked => Tasked'
        BY <2>0, <3>1
      <3>5. \A u \in Threads : Current(u) => Current(u)'
        BY <2>0, <3>1 DEF Current
      <3>6. InFile => InFile'
        BY <2>0, <3>1
      <3> HIDE DEF Tasked, InFile
      <3> QED
        BY <1>0, <3>1, <3>2, <3>3, <3>4, <3>5, <3>6
    <2> QED
      BY <1>3, <2>1, <2>2, <2>3, <2>4, <2>5, <2>6, <2>7 DEF Writes
  <1> QED
    BY <1>1, <1>2, <1>3, OneActs

\* Observe() appends an observer that was never listed, DropToken() takes out the one it marks.
LEMMA StepListOK == ASSUME ChangesInv, ListOK, [Next]_vars PROVE ListOK'
  <1>0. m_Observers \in Seq(Tokens) /\ DOMAIN m_Observers = 1..Len(m_Observers) /\ Len(m_Observers) \in Nat
    BY LenProperties DEF ChangesInv, IInv, DataOK
  <1>1. CASE UNCHANGED <<m_Observers, was_removed>>
    BY <1>1 DEF ListOK
  <1>2. ASSUME NEW t \in Threads, InsertObserver(t)
        PROVE  ListOK'
    <2>1. /\ m_Observers' = Append(m_Observers, token[t])
          /\ UNCHANGED was_removed
      BY <1>2 DEF InsertObserver, Insert
    <2>2. token[t] \in Tokens /\ ~Listed(token[t]) /\ token[t] \notin was_removed
      BY <1>2, InsertFacts DEF ChangesInv, SeenInv
    <2>3. /\ DOMAIN m_Observers' = 1..Len(m_Observers) + 1
          /\ \A i \in 1..Len(m_Observers) : m_Observers'[i] = m_Observers[i]
          /\ m_Observers'[Len(m_Observers) + 1] = token[t]
      BY <1>0, <2>1, <2>2, AppendProperties
    <2>4. \A i \in DOMAIN m_Observers' :
             i \in DOMAIN m_Observers \/ i = Len(m_Observers) + 1
      BY <1>0, <2>3
    <2>5. \A i \in DOMAIN m_Observers : m_Observers[i] # token[t]
      BY <2>2 DEF Listed
    <2> QED
      BY <1>0, <2>1, <2>2, <2>3, <2>4, <2>5 DEF ListOK, IsInjective
  <1>3. ASSUME NEW t \in Threads, DropRemove(t)
        PROVE  ListOK'
    <2> DEFINE i == Position(token[t])
    <2>1. Listed(token[t]) /\ was_removed' = was_removed \cup {token[t]}
      BY <1>3, RemoveFacts DEF DropRemove, ChangesInv, IInv, ListInv, Dropping
    <2>2. m_Observers' = RemoveAt(m_Observers, i)
      BY <1>3, <2>1 DEF DropRemove, Unlist
    <2>3. i \in DOMAIN m_Observers /\ m_Observers[i] = token[t]
      BY <2>1, PositionOfListed
    <2> HIDE DEF i
    <2>4. \A m \in DOMAIN m_Observers' :
             LET j == IF m < i THEN m ELSE m + 1
             IN  j \in DOMAIN m_Observers /\ m_Observers'[m] = m_Observers[j]
      BY <1>0, <2>2, <2>3, RemoveAtKeeps
    <2>5. DOMAIN m_Observers' \subseteq Nat
      <3>1. m_Observers' \in Seq(Tokens)
        BY <1>0, <2>2, <2>3, RemoveAtKeeps
      <3> QED
        BY <3>1, LenProperties
    <2>6. \A m \in DOMAIN m_Observers' : m_Observers'[m] \notin was_removed /\ m_Observers'[m] # token[t]
      BY <1>0, <2>3, <2>4, <2>5 DEF ListOK, IsInjective
    <2>7. \A l, m \in DOMAIN m_Observers' : m_Observers'[l] = m_Observers'[m] => l = m
      BY <1>0, <2>3, <2>4, <2>5 DEF ListOK, IsInjective
    <2> QED
      BY <2>1, <2>6, <2>7 DEF ListOK, IsInjective
  <1>4. UNCHANGED <<m_Observers, was_removed>> \/ \E t \in Threads : InsertObserver(t) \/ DropRemove(t)
    <2>1. Quiet \/ \E t \in Threads : Registers(t) \/ Drops(t)
      BY StepCases DEF ChangesInv
    <2>2. ASSUME NEW t \in Threads, Registers(t) \/ Drops(t), ~InsertObserver(t), ~DropRemove(t)
          PROVE  UNCHANGED <<m_Observers, was_removed>>
      BY <2>2 DEF Registers, Drops, BeginObserve, BeginDrop, DropLock, observers
    <2> QED
      BY <2>1, <2>2 DEF Quiet
  <1> QED
    BY <1>1, <1>2, <1>3, <1>4

-----------------------------------------------------------------------------
(* The theorems.                                                           *)

\* The inductive invariant holds in every reachable state: tokens, list, marks and
\* callbacks of the observers fit together, whatever the threads do.
THEOREM Invariant == Spec => []IInv
  <1>1. Init => IInv
    BY InitIInv
  <1>2. IInv /\ [Next]_vars => IInv'
    BY StepDataOK, StepTokenInv, StepListInv, StepRemovedInv, StepSilentAfterDrop DEF IInv
  <1> QED
    BY <1>1, <1>2, PTL DEF Spec

\* Once DropToken() has returned, no thread is inside the callback of the observer, except
\* the one that dropped its own.
THEOREM SilentAfterDropHolds == Spec => []SilentAfterDrop
  <1>1. IInv => SilentAfterDrop
    BY DEF IInv
  <1> QED
    BY <1>1, Invariant, PTL

\* DropToken() finds the observer it is to drop, however many others were dropped before.
THEOREM DropFindsObserver == Spec => [](\A t \in Threads : Dropping(t) => Listed(token[t]))
  <1>1. IInv => \A t \in Threads : Dropping(t) => Listed(token[t])
    BY DEF IInv, ListInv
  <1> QED
    BY <1>1, Invariant, PTL

\* What the inductive invariant says of changes holds in every reachable state: each is on
\* its way to every observer and to the file.
THEOREM ChangesInvariant == Spec => []ChangesInv
  <1>1. Init => ChangesInv
    BY InitChangesInv
  <1>2. ChangesInv /\ [Next]_vars => ChangesInv'
    <2>1. ASSUME ChangesInv, [Next]_vars PROVE IInv'
      BY <2>1, StepDataOK, StepTokenInv, StepListInv, StepRemovedInv, StepSilentAfterDrop DEF ChangesInv, IInv
    <2> QED
      BY <2>1, StepThreadInv, StepSeenInv, StepFreshInv, StepFileInv DEF ChangesInv
  <1> QED
    BY <1>1, <1>2, PTL DEF Spec

\* The document, the list, the lock and what each thread is at have their types, and the
\* list has every observer once, and none that DropToken() has marked as removed.
THEOREM TypeCorrect == Spec => []TypeOK
  <1>1. Init => ChangesInv /\ ListOK
    <2>1. Init => ListOK
      BY DEF Init, ListOK, IsInjective
    <2> QED
      BY <2>1, InitChangesInv
  <1>2. ChangesInv /\ ChangesInv' /\ ListOK /\ [Next]_vars => ListOK'
    BY StepListOK
  <1>3. ChangesInv /\ ListOK => TypeOK
    BY DEF ChangesInv, IInv, TypeOK
  <1> QED
    BY <1>1, <1>2, <1>3, ChangesInvariant, PTL DEF Spec

\* Once no thread is on its way to the observers, every observer has seen the value that is
\* in the document, whatever registered, dropped or changed while others were fired.
THEOREM LastChangeSeenHolds == Spec => []LastChangeSeen
  <1>1. ChangesInv => LastChangeSeen
    <2> SUFFICES ASSUME ChangesInv, \A t \in Threads : pc[t] = "idle", NEW k \in alive
                 PROVE  seen[k] = m_Document
      BY DEF LastChangeSeen
    <2>1. ASSUME NEW t \in Threads PROVE ~WillFire(t, k)
      <3>1. pc[t] = "idle" /\ snapshot[t] = <<>>
        BY DEF ChangesInv, ThreadInv
      <3>2. ToSet(snapshot[t]) = {}
        BY <3>1 DEF ToSet
      <3> QED
        BY <3>1, <3>2 DEF WillFire
    <2> QED
      BY <2>1 DEF ChangesInv, FreshInv
  <1> QED
    BY <1>1, ChangesInvariant, PTL

\* When nothing is under way, the file has the value of the document, unless the latest change
\* was stranded: no write was scheduled for it, or an older one ended after its own.
THEOREM ChangesReachTheFileHolds == Spec => []ChangesReachTheFile
  <1>1. ChangesInv => ChangesReachTheFile
    <2> SUFFICES ASSUME ChangesInv, \A t \in Threads : pc[t] = "idle", dumps = 0
                 PROVE  file = m_Document \/ stranded
      BY DEF ChangesReachTheFile
    <2>1. ~WriteToCome /\ \A t \in Threads : pc[t] # "markDirty" /\ ~Current(t)
      BY DEF WriteToCome, Current
    <2>2. \A t \in Threads : task[t] # "set"
      BY DEF ChangesInv, ThreadInv
    <2> QED
      BY <2>1, <2>2 DEF ChangesInv, FileInv, ToBeWritten
  <1> QED
    BY <1>1, ChangesInvariant, PTL

=============================================================================
