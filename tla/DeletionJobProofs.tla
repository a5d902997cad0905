------------------------- MODULE DeletionJobProofs -------------------------
(***************************************************************************)
(* Theorems about DeletionJob, for any tree of items, selection, kind of   *)
(* job and answers of the user: its type invariant, that nothing but the   *)
(* selection is removed, and no item without the consent it needs, that a  *)
(* stop is heeded, and that the job forgets nothing.                       *)
(***************************************************************************)
EXTENDS DeletionJob, SequenceFacts

\* The entries that are in the script, or were just taken from it.
Waiting == ToSet(m_Script) \cup (IF pc = "remove" THEN {entry} ELSE {})

\* Directories are only scanned by the two loops, and a job that ran to its end did all.
ScanInv ==
    /\ frames # <<>> => pc \in {"scan", "delete"}
    /\ pc = "over" /\ ~m_IsStopped => m_Script = <<>>
    /\ \A f \in ToSet(frames) :
           /\ f.dir \in Directories
           /\ \A i \in ToSet(f.left) : f.dir \in Up[i]

\* What is in the script, or is scanned, is in the selection.
SelectionInv ==
    /\ \A e \in Waiting : InSelection(e.item)
    /\ \A f \in ToSet(frames) : InSelection(f.dir)

\* In a job that moves to the trash, the user agreed to a permanent deletion of i.
Consented(i) == setup.m_Type = "Trash" => m_DeleteAllOnTrashError \/ Up[i] \cap agreed # {}

\* What is in the script for good, or is scanned for that, may be deleted for good.
ConsentInv ==
    /\ \A e \in Waiting : e.type = "Permanent" => Consented(e.item)
    /\ \A f \in ToSet(frames) : Consented(f.dir)

\* A removal after the stop was the last one.
StopInv ==
    late # 0 => late = 1 /\ m_IsStopped /\ pc # "remove"

\* Items only lose their lock when the user or the options say so, and none is erased
\* while it has one.
LockInv ==
    /\ locked \subseteq setup.locked /\ locked \cap erased = {}
    /\ \A i \in setup.locked :
           i \in locked \cup unlocking \/ m_LockedItemBehaviour = "UnlockAll"

\* Where there is an item there are the directories it is in.
PresentInv == \A i \in Present : Up[i] \subseteq Present

\* An entry of the script is enough for item i to be removed.
Takes(e, i) ==
    \/ e.item = i
    \/ (e.type = "Trash" \/ setup.recursive) /\ e.item \in Up[i]

\* A call of ScanDirectory() has yet to come to item i, or to a directory it is in.
Finds(f, i) ==
    \/ ~f.listed /\ f.dir \in Up[i] \ {i}
    \/ f.listed /\ ToSet(f.left) \cap Up[i] # {}

GaveUp(i) == \E j \in skipped : i \in Up[j] \/ j \in Up[i]

\* What is still there was given up, or is before the job: in the script, in what is being
\* scanned, or in the rest of the selection.
AccountInv ==
    ~m_IsStopped =>
        \A i \in Present : InSelection(i) =>
            \/ GaveUp(i)
            \/ \E e \in Waiting : Takes(e, i)
            \/ \E f \in ToSet(frames) : Finds(f, i)
            \/ /\ pc = "scan"
               /\ \E n \in next..Len(setup.m_SourceItems) : setup.m_SourceItems[n] \in Up[i]

IInv ==
    /\ TypeOK
    /\ ScanInv
    /\ SelectionInv
    /\ ConsentInv
    /\ OnlySelection
    /\ ErasedByConsent
    /\ StopInv
    /\ LockInv
    /\ PresentInv
    /\ AccountInv

-----------------------------------------------------------------------------
(* The tree.                                                               *)

LEMMA UpFacts ==
  ASSUME NEW i \in Items
  PROVE  /\ i \in Up[i] /\ Up[i] \subseteq Items
         /\ \A d \in Up[i] : Up[d] \subseteq Up[i]
  BY TreeAssumption

LEMMA ListedBelow ==
  ASSUME NEW d \in Directories
  PROVE  /\ d \in Items /\ Listing[d] \in Seq(Items)
         /\ \A i \in ToSet(Listing[d]) : d \in Up[i]
  <1>1. d \in Items /\ Listing[d] \in Seq(Items)
    BY TreeAssumption
  <1>2. \A k \in DOMAIN Listing[d] : d \in Up[Listing[d][k]]
    BY TreeAssumption
  <1> QED
    BY <1>1, <1>2 DEF ToSet

\* The way down to an item goes through the listings.
LEMMA FoundBelow ==
  ASSUME NEW i \in Items, NEW d \in Up[i] \ {i}
  PROVE  d \in Directories /\ \E k \in ToSet(Listing[d]) : k \in Up[i]
  <1>1. d \in Directories /\ \E k \in DOMAIN Listing[d] : Listing[d][k] \in Up[i]
    BY TreeAssumption
  <1> QED
    BY <1>1 DEF ToSet

LEMMA SelectedBelow ==
  ASSUME NEW i \in Items, NEW d \in Up[i], InSelection(d)
  PROVE  InSelection(i)
  BY UpFacts DEF InSelection

LEMMA ConsentedBelow ==
  ASSUME NEW i \in Items, NEW d \in Up[i], Consented(d)
  PROVE  Consented(i)
  BY UpFacts DEF Consented

LEMMA SetupFacts ==
  ASSUME setup \in Setups
  PROVE  /\ setup.m_SourceItems \in Seq(Items) /\ setup.m_Type \in Types
         /\ setup.locked \subseteq Items /\ setup.behaviour \in Behaviours
         /\ setup.m_Type = "Trash" \/ setup.locked # {} => ~setup.recursive
  BY SetupsAssumption

-----------------------------------------------------------------------------
(* The steps of the scan.                                                  *)

\* The call of ScanDirectory() on top goes on, or returns: its frame gives way to others
\* and entries are pushed onto the script, such that nothing gets lost.
LEMMA ScanningKeeps ==
  ASSUME IInv, frames # <<>>,
         frames' \in Seq(Frames), NEW found \in SUBSET Frames,
         ToSet(frames') = ToSet(Front(frames)) \cup found,
         \A f \in found : /\ f.dir \in Directories /\ InSelection(f.dir) /\ Consented(f.dir)
                          /\ \A i \in ToSet(f.left) : f.dir \in Up[i],
         m_Script' \in Seq(Entries), NEW pushed \in SUBSET Entries,
         ToSet(m_Script') = ToSet(m_Script) \cup pushed,
         \A e \in pushed : InSelection(e.item) /\ Consented(e.item),
         UNCHANGED <<setup, pc, next, entry, disk, agreed, unlocking, late,
                     m_DeleteAllOnTrashError, m_LockedItemBehaviour>>,
         m_IsStopped' \in BOOLEAN, m_IsStopped => m_IsStopped', m_SkipAll' \in BOOLEAN,
         skipped \subseteq skipped', skipped' \subseteq Items,
         relisted' \in [Items -> 0..MaxRetries],
         ~m_IsStopped' => \A i \in Present :
             Finds(Top, i) => \/ GaveUp(i)'
                              \/ \E e \in pushed : Takes(e, i)
                              \/ \E f \in found : Finds(f, i)
  PROVE  IInv'
  <1> USE DEF IInv
  <1>1. /\ pc \in {"scan", "delete"} /\ pc' = pc
        /\ Front(frames) \in Seq(Frames) /\ ToSet(frames) = ToSet(Front(frames)) \cup {Top}
    BY ToSetLast DEF ScanInv, TypeOK, Top, Last
  <1>2. Waiting = ToSet(m_Script) /\ Waiting' = ToSet(m_Script) \cup pushed
    BY <1>1 DEF Waiting
  <1>3. /\ \A i : InSelection(i)' <=> InSelection(i)
        /\ \A i : Consented(i)' <=> Consented(i)
        /\ \A e, i : Takes(e, i)' <=> Takes(e, i)
        /\ Present' = Present
    BY DEF InSelection, Selected, Consented, Takes, Present, disk
  <1>4. TypeOK'
    BY DEF TypeOK, disk
  <1>5. ScanInv'
    <2>1. \A f \in ToSet(frames') : f.dir \in Directories /\ \A i \in ToSet(f.left) : f.dir \in Up[i]
      BY <1>1 DEF ScanInv
    <2> QED
      BY <1>1, <2>1 DEF ScanInv
  <1>6. SelectionInv'
    BY <1>1, <1>2, <1>3 DEF SelectionInv
  <1>7. ConsentInv'
    BY <1>1, <1>2, <1>3 DEF ConsentInv
  <1>8. OnlySelection' /\ ErasedByConsent'
    BY <1>3 DEF OnlySelection, ErasedByConsent, disk
  <1>9. StopInv' /\ LockInv'
    BY DEF StopInv, LockInv, disk
  <1>10. PresentInv'
    BY <1>3 DEF PresentInv
  <1>11. AccountInv'
    <2>1. ASSUME ~m_IsStopped', NEW i \in Present, InSelection(i)
          PROVE  \/ GaveUp(i)'
                 \/ \E e \in Waiting' : Takes(e, i)
                 \/ \E f \in ToSet(frames') : Finds(f, i)
                 \/ /\ pc' = "scan"
                    /\ \E n \in next'..Len(setup'.m_SourceItems) : setup'.m_SourceItems[n] \in Up[i]
      <3>1. CASE GaveUp(i)
        BY <3>1 DEF GaveUp
      <3>2. CASE \E e \in Waiting : Takes(e, i)
        BY <1>2, <3>2
      <3>3. CASE \E f \in ToSet(Front(frames)) : Finds(f, i)
        BY <3>3
      <3>4. CASE Finds(Top, i)
        BY <1>2, <2>1, <3>4
      <3>5. CASE /\ pc = "scan"
                 /\ \E n \in next..Len(setup.m_SourceItems) : setup.m_SourceItems[n] \in Up[i]
        BY <3>5
      <3> QED
        BY <1>1, <2>1, <3>1, <3>2, <3>3, <3>4, <3>5 DEF AccountInv
    <2>2. \A f, i : Finds(f, i)' <=> Finds(f, i)
      BY DEF Finds
    <2> QED
      BY <1>3, <2>1, <2>2 DEF AccountInv
  <1> QED
    BY <1>4, <1>5, <1>6, <1>7, <1>8, <1>9, <1>10, <1>11

LEMMA AnswerFacts ==
  ASSUME TypeOK, Skip \/ Abort
  PROVE  /\ m_IsStopped' \in BOOLEAN /\ m_SkipAll' \in BOOLEAN
         /\ m_IsStopped => m_IsStopped'
         /\ UNCHANGED m_DeleteAllOnTrashError
  BY DEF TypeOK, Skip, Abort, Stop, forAll

LEMMA TopFacts ==
  ASSUME IInv, frames # <<>>
  PROVE  /\ Top \in Frames /\ Top \in ToSet(frames)
         /\ Front(frames) \in Seq(Frames) /\ ToSet(Front(frames)) \subseteq ToSet(frames)
         /\ Top.dir \in Directories /\ Top.dir \in Items /\ Top.left \in Seq(Items)
         /\ InSelection(Top.dir) /\ Consented(Top.dir)
         /\ \A i \in ToSet(Top.left) : Top.dir \in Up[i]
  <1>1. /\ Top \in Frames /\ Top \in ToSet(frames)
        /\ Front(frames) \in Seq(Frames) /\ ToSet(Front(frames)) \subseteq ToSet(frames)
    BY ToSetLast DEF IInv, TypeOK, Top, Last
  <1> QED
    BY <1>1 DEF IInv, ScanInv, SelectionInv, ConsentInv, Frames

LEMMA ReadDirKeeps ==
  ASSUME IInv, ReadDir
  PROVE  IInv'
  <1> DEFINE found == Filter(Listing[Top.dir], Present)
             Read(listed, n) == [dir |-> Top.dir, listed |-> listed,
                                 left |-> Top.left \o SubSeq(found, 1, n)]
  <1>1. /\ frames # <<>> /\ ~m_IsStopped /\ ~Top.listed
        /\ UNCHANGED <<setup, pc, next, m_Script, entry, disk, agreed, unlocking, late>>
    BY DEF ReadDir
  <1>2. /\ Top \in Frames /\ Top.left \in Seq(Items) /\ Top.dir \in Items
         /\ \A i \in ToSet(Top.left) : Top.dir \in Up[i]
    BY <1>1, TopFacts
  <1>3. /\ found \in Seq(Items) /\ ToSet(found) = ToSet(Listing[Top.dir]) \cap Present
        /\ Len(found) \in Nat
    BY <1>1, TopFacts, ListedBelow, FilterProperties, LenProperties
  <1> HIDE DEF found
  <1>4. ASSUME NEW listed \in BOOLEAN, NEW n \in 0..Len(found)
        PROVE  /\ Read(listed, n) \in Frames
               /\ ToSet(Read(listed, n).left) \subseteq ToSet(Top.left) \cup ToSet(found)
               /\ ToSet(SubSeq(found, 1, n)) \subseteq ToSet(Read(listed, n).left)
               /\ \A i \in ToSet(Read(listed, n).left) : Read(listed, n).dir \in Up[i]
    <2>1. SubSeq(found, 1, n) \in Seq(Items) /\ ToSet(SubSeq(found, 1, n)) \subseteq ToSet(found)
      BY <1>3, ToSetSplit
    <2>2. /\ Top.left \o SubSeq(found, 1, n) \in Seq(Items)
          /\ ToSet(Top.left \o SubSeq(found, 1, n)) = ToSet(Top.left) \cup ToSet(SubSeq(found, 1, n))
      BY <1>2, <2>1, ToSetConcat
    <2>3. Read(listed, n) \in Frames
      BY <1>2, <2>2 DEF Frames
    <2>4. \A i \in ToSet(Top.left) \cup ToSet(found) : Top.dir \in Up[i]
      BY <1>1, <1>3, TopFacts, ListedBelow
    <2> QED
      BY <2>1, <2>2, <2>3, <2>4
  <1>5. m_Script \in Seq(Entries) /\ relisted \in [Items -> 0..MaxRetries]
        /\ m_IsStopped \in BOOLEAN /\ m_SkipAll \in BOOLEAN /\ skipped \subseteq Items
        /\ frames \in Seq(Frames)
    BY DEF IInv, TypeOK
  <1>6. ASSUME NEW listed \in BOOLEAN, NEW n \in 0..Len(found),
               frames' = [frames EXCEPT ![Len(frames)] = Read(listed, n)],
               listed => n = Len(found),
               UNCHANGED <<m_IsStopped, sticky, skipped>>, relisted' \in [Items -> 0..MaxRetries]
        PROVE  IInv'
    <2> DEFINE f == Read(listed, n)
    <2>1. /\ f \in Frames /\ f.dir = Top.dir /\ f.listed = listed
          /\ \A i \in ToSet(f.left) : f.dir \in Up[i]
          /\ ToSet(SubSeq(found, 1, n)) \subseteq ToSet(f.left)
      BY <1>4
    <2> HIDE DEF f
    <2>2. frames' \in Seq(Frames) /\ ToSet(frames') = ToSet(Front(frames)) \cup {f}
      <3>1. frames' = [frames EXCEPT ![Len(frames)] = f]
        BY <1>6 DEF f
      <3>2. /\ [frames EXCEPT ![Len(frames)] = f] \in Seq(Frames)
            /\ ToSet([frames EXCEPT ![Len(frames)] = f]) = ToSet(Front(frames)) \cup {f}
        BY <1>1, <1>5, <2>1, ToSetReplaceLast
      <3> QED
        BY <3>1, <3>2
    <2>3. ASSUME NEW i \in Present, Finds(Top, i)
          PROVE  Finds(f, i)
      <3>1. i \in Items /\ Top.dir \in Up[i] \ {i}
        BY <1>1, <2>3 DEF Present, Finds
      <3>2. PICK k \in ToSet(Listing[Top.dir]) : k \in Up[i]
        BY <3>1, FoundBelow
      <3>3. k \in ToSet(found)
        BY <1>3, <3>2 DEF IInv, PresentInv
      <3>4. CASE listed
        <4>1. ToSet(SubSeq(found, 1, n)) = ToSet(found)
          BY <1>3, <1>6, <3>4, ToSetWhole
        <4> QED
          BY <2>1, <3>2, <3>3, <3>4, <4>1 DEF Finds
      <3>5. CASE ~listed
        BY <2>1, <3>1, <3>5 DEF Finds
      <3> QED
        BY <3>4, <3>5
    <2>4. /\ InSelection(f.dir) /\ Consented(f.dir) /\ f.dir \in Directories
      BY <1>1, <2>1, TopFacts
    <2>5. /\ {f} \in SUBSET Frames /\ {} \in SUBSET Entries /\ m_Script' = m_Script
          /\ ToSet(m_Script') = ToSet(m_Script) \cup {}
          /\ m_Script' \in Seq(Entries)
          /\ UNCHANGED <<m_DeleteAllOnTrashError, m_LockedItemBehaviour>>
          /\ m_IsStopped' \in BOOLEAN /\ (m_IsStopped => m_IsStopped') /\ m_SkipAll' \in BOOLEAN
          /\ skipped \subseteq skipped' /\ skipped' \subseteq Items
      BY <1>1, <1>5, <1>6, <2>1 DEF sticky, forAll
    <2>6. \A g \in {f} : /\ g.dir \in Directories /\ InSelection(g.dir) /\ Consented(g.dir)
                         /\ \A i \in ToSet(g.left) : g.dir \in Up[i]
      BY <2>1, <2>4
    <2>7. \A i \in Present :
              Finds(Top, i) => \/ GaveUp(i)'
                               \/ \E e \in {} : Takes(e, i)
                               \/ \E g \in {f} : Finds(g, i)
      BY <2>3
    <2> QED
      BY <1>1, <1>6, <2>2, <2>5, <2>6, <2>7, ScanningKeeps
  <1>7. ASSUME Skip \/ Abort, Return, skipped' = skipped \cup {Top.dir},
               UNCHANGED <<m_LockedItemBehaviour, relisted>>
        PROVE  IInv'
    <2>1. frames' \in Seq(Frames) /\ ToSet(frames') = ToSet(Front(frames)) \cup {}
      BY <1>1, <1>7, TopFacts DEF Return
    <2>2. \A i \in Present : Finds(Top, i) => GaveUp(i)'
      BY <1>1, <1>7 DEF Finds, GaveUp
    <2>3. skipped' \subseteq Items
      BY <1>1, <1>5, <1>7, TopFacts
    <2>4. /\ {} \in SUBSET Frames /\ {} \in SUBSET Entries /\ m_Script' = m_Script
          /\ ToSet(m_Script') = ToSet(m_Script) \cup {}
      BY <1>1
    <2>5. TypeOK
      BY DEF IInv
    <2>6. /\ m_IsStopped' \in BOOLEAN /\ m_SkipAll' \in BOOLEAN
          /\ m_IsStopped => m_IsStopped'
          /\ UNCHANGED <<m_DeleteAllOnTrashError, m_LockedItemBehaviour>>
      BY <1>7, <2>5, AnswerFacts
    <2>7. ~m_IsStopped' => \A i \in Present :
              Finds(Top, i) => \/ GaveUp(i)'
                               \/ \E e \in {} : Takes(e, i)
                               \/ \E f \in {} : Finds(f, i)
      BY <2>2
    <2>8. skipped \subseteq skipped' /\ relisted' \in [Items -> 0..MaxRetries]
          /\ m_Script' \in Seq(Entries)
      BY <1>1, <1>5, <1>7
    <2> QED
      BY <1>1, <2>1, <2>3, <2>4, <2>6, <2>7, <2>8, ScanningKeeps
  <1>8. CASE /\ frames' = [frames EXCEPT ![Len(frames)] = Read(TRUE, Len(found))]
             /\ UNCHANGED <<m_IsStopped, sticky, skipped, relisted>>
    <2>1. Len(found) \in 0..Len(found)
      BY <1>3
    <2> QED
      BY <1>5, <1>6, <1>8, <2>1
  <1>9. CASE /\ \E n \in 0..Len(found) : frames' = [frames EXCEPT ![Len(frames)] = Read(FALSE, n)]
              /\ relisted[Top.dir] < MaxRetries
              /\ relisted' = [relisted EXCEPT ![Top.dir] = @ + 1]
              /\ UNCHANGED <<m_IsStopped, sticky, skipped>>
    <2>1. relisted' \in [Items -> 0..MaxRetries]
      BY <1>1, <1>5, <1>9, TopFacts, MaxRetriesAssumption
    <2> QED
      BY <1>6, <1>9, <2>1
  <1> QED
    BY <1>7, <1>8, <1>9 DEF ReadDir, found

LEMMA EntryFacts ==
  ASSUME NEW i \in Items, NEW type \in Types
  PROVE  /\ [item |-> i, type |-> type] \in Entries
         /\ [item |-> i, type |-> type].item = i
         /\ [item |-> i, type |-> type].type = type
  BY DEF Entries

LEMMA FrameFacts ==
  ASSUME NEW i \in Items
  PROVE  /\ Frame(i) \in Frames
         /\ Frame(i).dir = i /\ ~Frame(i).listed /\ ToSet(Frame(i).left) = {}
  <1>1. <<>> \in Seq(Items)
    OBVIOUS
  <1>2. ToSet(<<>>) = {}
    BY <1>1, ToSetEmpty
  <1> QED
    BY <1>1, <1>2 DEF Frame, Frames

LEMMA ScanEntryKeeps ==
  ASSUME IInv, ScanEntry
  PROVE  IInv'
  <1> DEFINE i == Head(Top.left)
             read == [Top EXCEPT !.left = Tail(Top.left)]
             rest == [frames EXCEPT ![Len(frames)] = read]
             pushed == [item |-> i, type |-> "Permanent"]
             found == IF IsDir(i) THEN {read, Frame(i)} ELSE {read}
  <1>1. /\ frames # <<>> /\ ~m_IsStopped /\ Top.listed /\ Top.left # <<>>
        /\ m_Script' = Append(m_Script, pushed)
        /\ frames' = IF IsDir(i) THEN Append(rest, Frame(i)) ELSE rest
        /\ UNCHANGED <<setup, pc, next, entry, m_IsStopped, sticky, disk, history>>
    BY DEF ScanEntry, Push, Top
  <1>2. /\ Top \in Frames /\ Top.left \in Seq(Items) /\ Top.dir \in Items /\ Top.dir \in Directories
        /\ InSelection(Top.dir) /\ Consented(Top.dir)
        /\ \A k \in ToSet(Top.left) : Top.dir \in Up[k]
    BY <1>1, TopFacts
  <1>3. /\ i \in Items /\ i \in ToSet(Top.left) /\ Tail(Top.left) \in Seq(Items)
        /\ ToSet(Top.left) = {i} \cup ToSet(Tail(Top.left))
    BY <1>1, <1>2, ToSetHead
  <1>4. InSelection(i) /\ Consented(i)
    BY <1>2, <1>3, SelectedBelow, ConsentedBelow
  <1> HIDE DEF i
  <1>5. read \in Frames /\ read.dir = Top.dir /\ read.listed /\ read.left = Tail(Top.left)
    BY <1>1, <1>2, <1>3 DEF Frames
  <1> HIDE DEF read
  <1>6. /\ Frame(i) \in Frames /\ Frame(i).dir = i /\ ~Frame(i).listed
        /\ ToSet(Frame(i).left) = {}
    BY <1>3, FrameFacts
  <1>7. pushed \in Entries /\ pushed.item = i
    BY <1>3, EntryFacts DEF Types
  <1> HIDE DEF pushed
  <1>8. m_Script \in Seq(Entries) /\ frames \in Seq(Frames) /\ skipped \subseteq Items
        /\ relisted \in [Items -> 0..MaxRetries] /\ m_IsStopped \in BOOLEAN /\ m_SkipAll \in BOOLEAN
    BY DEF IInv, TypeOK
  <1>9. rest \in Seq(Frames) /\ ToSet(rest) = ToSet(Front(frames)) \cup {read}
    BY <1>1, <1>5, <1>8, ToSetReplaceLast
  <1> HIDE DEF rest
  <1>10. frames' \in Seq(Frames) /\ ToSet(frames') = ToSet(Front(frames)) \cup found
    <2>1. CASE IsDir(i)
      <3>1. Append(rest, Frame(i)) \in Seq(Frames)
            /\ ToSet(Append(rest, Frame(i))) = ToSet(rest) \cup {Frame(i)}
        BY <1>6, <1>9, ToSetAppend
      <3> QED
        BY <1>1, <1>9, <2>1, <3>1
    <2>2. CASE ~IsDir(i)
      BY <1>1, <1>9, <2>2
    <2> QED
      BY <2>1, <2>2
  <1>11. \A f \in found : /\ f.dir \in Directories /\ InSelection(f.dir) /\ Consented(f.dir)
                          /\ \A k \in ToSet(f.left) : f.dir \in Up[k]
    BY <1>2, <1>3, <1>4, <1>5, <1>6 DEF IsDir
  <1>12. m_Script' \in Seq(Entries) /\ ToSet(m_Script') = ToSet(m_Script) \cup {pushed}
    BY <1>1, <1>7, <1>8, ToSetAppend
  <1>13. \A e \in {pushed} : InSelection(e.item) /\ Consented(e.item)
    BY <1>4, <1>7
  <1>14. ASSUME NEW k \in Present, Finds(Top, k)
         PROVE  \/ GaveUp(k)'
                \/ \E e \in {pushed} : Takes(e, k)
                \/ \E f \in found : Finds(f, k)
    <2>1. k \in Items /\ ToSet(Top.left) \cap Up[k] # {}
      BY <1>1, <1>14 DEF Present, Finds
    <2>2. CASE i = k
      BY <1>7, <2>2 DEF Takes
    <2>3. CASE i \in Up[k] /\ i # k
      <3>1. IsDir(i)
        BY <2>1, <2>3, FoundBelow DEF IsDir
      <3>2. Finds(Frame(i), k)
        BY <1>6, <2>3 DEF Finds
      <3> QED
        BY <3>1, <3>2
    <2>4. CASE ToSet(Tail(Top.left)) \cap Up[k] # {}
      BY <1>5, <2>4 DEF Finds
    <2> QED
      BY <1>3, <2>1, <2>2, <2>3, <2>4
  <1>15. found \in SUBSET Frames /\ {pushed} \in SUBSET Entries
    BY <1>5, <1>6, <1>7
  <1> HIDE DEF found
  <1>16. /\ UNCHANGED <<setup, pc, next, entry, disk, agreed, unlocking, late,
                       m_DeleteAllOnTrashError, m_LockedItemBehaviour>>
         /\ m_IsStopped' \in BOOLEAN /\ (m_IsStopped => m_IsStopped') /\ m_SkipAll' \in BOOLEAN
         /\ skipped \subseteq skipped' /\ skipped' \subseteq Items
         /\ relisted' \in [Items -> 0..MaxRetries]
    BY <1>1, <1>8 DEF sticky, forAll, history
  <1>17. ~m_IsStopped' => \A k \in Present :
             Finds(Top, k) => \/ GaveUp(k)'
                              \/ \E e \in {pushed} : Takes(e, k)
                              \/ \E f \in found : Finds(f, k)
    BY <1>14
  <1> QED
    BY <1>1, <1>10, <1>11, <1>12, <1>13, <1>15, <1>16, <1>17, ScanningKeeps

LEMMA ScanReturnKeeps ==
  ASSUME IInv, ScanReturn
  PROVE  IInv'
  <1>1. /\ frames # <<>> /\ (m_IsStopped \/ (Top.listed /\ Top.left = <<>>))
        /\ frames' = Front(frames)
        /\ UNCHANGED <<setup, pc, next, m_Script, entry, m_IsStopped, sticky, disk, history>>
    BY DEF ScanReturn, Return
  <1>2. frames' \in Seq(Frames) /\ ToSet(frames') = ToSet(Front(frames)) \cup {}
    BY <1>1, TopFacts
  <1>3. /\ {} \in SUBSET Frames /\ {} \in SUBSET Entries
        /\ m_Script' \in Seq(Entries) /\ ToSet(m_Script') = ToSet(m_Script) \cup {}
        /\ UNCHANGED <<setup, pc, next, entry, disk, agreed, unlocking, late,
                      m_DeleteAllOnTrashError, m_LockedItemBehaviour>>
        /\ m_IsStopped' \in BOOLEAN /\ (m_IsStopped => m_IsStopped') /\ m_SkipAll' \in BOOLEAN
        /\ skipped \subseteq skipped' /\ skipped' \subseteq Items
        /\ relisted' \in [Items -> 0..MaxRetries]
    BY <1>1 DEF IInv, TypeOK, sticky, forAll, history
  <1>4. ASSUME ~m_IsStopped', NEW k \in Present, Finds(Top, k)
        PROVE  \/ GaveUp(k)'
               \/ \E e \in {} : Takes(e, k)
               \/ \E f \in {} : Finds(f, k)
    <2>1. Top.listed /\ Top.left = <<>> /\ <<>> \in Seq(Items)
      BY <1>1, <1>4
    <2>2. ToSet(Top.left) = {}
      BY <2>1, ToSetEmpty
    <2> QED
      BY <1>4, <2>1, <2>2 DEF Finds
  <1>5. ~m_IsStopped' => \A k \in Present :
             Finds(Top, k) => \/ GaveUp(k)'
                              \/ \E e \in {} : Takes(e, k)
                              \/ \E f \in {} : Finds(f, k)
    BY <1>4
  <1> QED
    BY <1>1, <1>2, <1>3, <1>5, ScanningKeeps

-----------------------------------------------------------------------------
(* The loops of DoScan() and DoDelete().                                   *)

\* Entries are pushed or popped, with the directories among them to be scanned: what is
\* on the disk stays the same.
LEMMA ScriptingKeeps ==
  ASSUME IInv, frames = <<>>,
         pc' \in {"scan", "delete", "remove", "over"},
         pc' = "over" /\ ~m_IsStopped => m_Script' = <<>>,
         next' \in 1..(Len(setup.m_SourceItems) + 1),
         m_Script' \in Seq(Entries), entry' \in Entries,
         frames' \in Seq(Frames), frames' # <<>> => pc' \in {"scan", "delete"},
         \A f \in ToSet(frames') : /\ f.dir \in Directories /\ InSelection(f.dir)
                                   /\ Consented(f.dir)' /\ ToSet(f.left) = {},
         \A e \in Waiting' : InSelection(e.item) /\ (e.type = "Permanent" => Consented(e.item)'),
         late # 0 => pc' # "remove",
         UNCHANGED <<setup, m_IsStopped, m_SkipAll, m_LockedItemBehaviour, disk, unlocking,
                     skipped, relisted, late>>,
         m_DeleteAllOnTrashError' \in BOOLEAN, agreed' \subseteq Items,
         m_DeleteAllOnTrashError => m_DeleteAllOnTrashError', agreed \subseteq agreed',
         \A i \in Present :
             /\ ~m_IsStopped /\ InSelection(i)
             /\ \/ \E e \in Waiting : Takes(e, i)
                \/ /\ pc = "scan"
                   /\ \E n \in next..Len(setup.m_SourceItems) : setup.m_SourceItems[n] \in Up[i]
             => \/ \E e \in Waiting' : Takes(e, i)
                \/ \E f \in ToSet(frames') : Finds(f, i)
                \/ /\ pc' = "scan"
                   /\ \E n \in next'..Len(setup.m_SourceItems) : setup.m_SourceItems[n] \in Up[i]
  PROVE  IInv'
  <1> USE DEF IInv
  <1>1. /\ \A i : InSelection(i)' <=> InSelection(i)
        /\ \A e, i : Takes(e, i)' <=> Takes(e, i)
        /\ \A f, i : Finds(f, i)' <=> Finds(f, i)
        /\ \A i : GaveUp(i)' <=> GaveUp(i)
        /\ Present' = Present
    BY DEF InSelection, Selected, Takes, Finds, GaveUp, Present, disk
  <1>2. ToSet(frames) = {}
    <2>1. frames \in Seq(Frames)
      BY DEF TypeOK
    <2> QED
      BY <2>1, ToSetEmpty
  <1>3. TypeOK'
    BY DEF TypeOK, disk
  <1>4. ScanInv' /\ SelectionInv' /\ ConsentInv'
    BY <1>1 DEF ScanInv, SelectionInv, ConsentInv
  <1>5. OnlySelection' /\ ErasedByConsent'
    BY <1>1 DEF OnlySelection, ErasedByConsent, disk
  <1>6. StopInv' /\ LockInv' /\ PresentInv'
    BY <1>1 DEF StopInv, LockInv, PresentInv, disk
  <1>7. AccountInv'
    <2>1. ASSUME ~m_IsStopped, NEW i \in Present, InSelection(i)
          PROVE  \/ GaveUp(i)
                 \/ \E e \in Waiting' : Takes(e, i)
                 \/ \E f \in ToSet(frames') : Finds(f, i)
                 \/ /\ pc' = "scan"
                    /\ \E n \in next'..Len(setup.m_SourceItems) : setup.m_SourceItems[n] \in Up[i]
      BY <1>2, <2>1 DEF AccountInv
    <2> QED
      BY <1>1, <2>1 DEF AccountInv
  <1> QED
    BY <1>3, <1>4, <1>5, <1>6, <1>7

LEMMA ScanItemKeeps ==
  ASSUME IInv, ScanItem
  PROVE  IInv'
  <1> USE DEF IInv
  <1>1. /\ pc = "scan" /\ frames = <<>> /\ ToSet(frames) = {} /\ Waiting = ToSet(m_Script)
        /\ UNCHANGED <<setup, m_IsStopped, sticky, disk, history>>
    BY ToSetEmpty DEF ScanItem, TypeOK, Waiting
  <1>2. /\ setup.m_SourceItems \in Seq(Items) /\ setup.m_Type \in Types
        /\ Len(setup.m_SourceItems) \in Nat
    BY SetupFacts, LenProperties DEF TypeOK
  <1>3. /\ UNCHANGED <<m_SkipAll, m_LockedItemBehaviour, unlocking, skipped, relisted, late,
                      m_DeleteAllOnTrashError, agreed>>
        /\ m_DeleteAllOnTrashError' \in BOOLEAN /\ agreed' \subseteq Items
    BY <1>1 DEF TypeOK, sticky, forAll, history
  <1>4. \A i : Consented(i)' <=> Consented(i)
    BY <1>1, <1>3 DEF Consented
  <1>5. CASE /\ UNCHANGED script
             /\ \/ pc' = "over" /\ m_IsStopped
                \/ pc' = "delete" /\ next > Len(setup.m_SourceItems)
    <2>1. /\ frames' = frames /\ m_Script' = m_Script /\ next' = next /\ entry' = entry
          /\ ToSet(frames') = {} /\ Waiting' = Waiting
      BY <1>1, <1>5 DEF script, Waiting
    <2>2. /\ m_Script' \in Seq(Entries) /\ entry' \in Entries /\ frames' \in Seq(Frames)
          /\ next' \in 1..(Len(setup.m_SourceItems) + 1)
      BY <2>1 DEF TypeOK
    <2>3. \A e \in Waiting' : InSelection(e.item) /\ (e.type = "Permanent" => Consented(e.item))
      BY <2>1 DEF SelectionInv, ConsentInv
    <2>4. \A k \in Present :
             /\ ~m_IsStopped /\ InSelection(k)
             /\ \/ \E e \in Waiting : Takes(e, k)
                \/ /\ pc = "scan"
                   /\ \E n \in next..Len(setup.m_SourceItems) : setup.m_SourceItems[n] \in Up[k]
             => \/ \E e \in Waiting' : Takes(e, k)
                \/ \E f \in ToSet(frames') : Finds(f, k)
                \/ /\ pc' = "scan"
                   /\ \E n \in next'..Len(setup.m_SourceItems) : setup.m_SourceItems[n] \in Up[k]
      <3>1. ~m_IsStopped => next..Len(setup.m_SourceItems) = {}
        BY <1>2, <1>5 DEF TypeOK
      <3> QED
        BY <2>1, <3>1
    <2>5. /\ pc' \in {"scan", "delete", "remove", "over"} /\ pc' # "remove"
          /\ (pc' = "over" => m_IsStopped) /\ (frames' # <<>> => pc' \in {"scan", "delete"})
      BY <1>1, <1>5, <2>1
    <2> QED
      BY <1>1, <1>3, <1>4, <2>1, <2>2, <2>3, <2>4, <2>5, ScriptingKeeps
  <1>6. CASE /\ ~m_IsStopped
             /\ next <= Len(setup.m_SourceItems)
             /\ Push(setup.m_SourceItems[next], setup.m_Type)
             /\ next' = next + 1
             /\ frames' = IF NeedsScan(setup.m_SourceItems[next])
                            THEN <<Frame(setup.m_SourceItems[next])>> ELSE <<>>
             /\ UNCHANGED <<pc, entry>>
    <2> DEFINE i == setup.m_SourceItems[next]
               pushed == [item |-> i, type |-> setup.m_Type]
    <2>1. /\ i \in Items /\ InSelection(i) /\ next \in Nat
          /\ next' \in 1..(Len(setup.m_SourceItems) + 1)
      <3>1. next \in 1..Len(setup.m_SourceItems)
        BY <1>2, <1>6 DEF TypeOK
      <3>2. i \in Items /\ i \in ToSet(setup.m_SourceItems)
        BY <1>2, <3>1, ElementOfSeq, LenProperties DEF ToSet
      <3> QED
        BY <1>2, <1>6, <3>1, <3>2, UpFacts DEF InSelection, Selected
    <2>2. m_Script' = Append(m_Script, pushed) /\ next' = next + 1 /\ pc' = pc /\ entry' = entry
      BY <1>6 DEF Push
    <2>3. frames' = IF NeedsScan(i) THEN <<Frame(i)>> ELSE <<>>
      BY <1>6
    <2> HIDE DEF i
    <2>4. pushed \in Entries /\ pushed.item = i /\ pushed.type = setup.m_Type
      BY <1>2, <2>1, EntryFacts
    <2> HIDE DEF pushed
    <2>5. /\ m_Script' \in Seq(Entries) /\ ToSet(m_Script') = ToSet(m_Script) \cup {pushed}
      BY <2>2, <2>4, ToSetAppend DEF TypeOK
    <2>6. /\ frames' \in Seq(Frames)
          /\ NeedsScan(i) => ToSet(frames') = {Frame(i)}
          /\ ~NeedsScan(i) => ToSet(frames') = {}
      <3>1. Frame(i) \in Frames /\ <<>> \in Seq(Frames)
        BY <2>1, FrameFacts
      <3>2. /\ <<Frame(i)>> \in Seq(Frames) /\ ToSet(<<Frame(i)>>) = {Frame(i)}
            /\ ToSet(<<>>) = {}
        BY <3>1, ToSetOne, ToSetEmpty
      <3> QED
        BY <2>3, <3>1, <3>2
    <2>7. Frame(i).dir = i /\ ~Frame(i).listed /\ ToSet(Frame(i).left) = {}
      BY <2>1, FrameFacts
    <2>8. setup.m_Type # "Trash" => Consented(i)
      BY DEF Consented
    <2>9. Waiting' = Waiting \cup {pushed}
      BY <1>1, <2>2, <2>5 DEF Waiting
    <2>10. \A e \in Waiting' : InSelection(e.item) /\ (e.type = "Permanent" => Consented(e.item))
      BY <2>1, <2>4, <2>8, <2>9 DEF SelectionInv, ConsentInv
    <2>11. \A f \in ToSet(frames') : /\ f.dir \in Directories /\ InSelection(f.dir)
                                     /\ Consented(f.dir) /\ ToSet(f.left) = {}
      BY <2>1, <2>6, <2>7, <2>8 DEF NeedsScan, IsDir
    <2>12. ASSUME NEW k \in Present, i \in Up[k]
           PROVE  Takes(pushed, k) \/ \E f \in ToSet(frames') : Finds(f, k)
      <3>1. CASE i = k
        BY <2>4, <3>1 DEF Takes
      <3>2. CASE i # k /\ NeedsScan(i)
        BY <2>6, <2>7, <2>12, <3>2 DEF Finds
      <3>3. CASE i # k /\ ~NeedsScan(i)
        <4>1. IsDir(i)
          BY <2>12, <3>3, FoundBelow DEF Present, IsDir
        <4>2. setup.m_Type = "Trash" \/ setup.recursive
          BY <1>2, <3>3, <4>1 DEF NeedsScan, Types
        <4> QED
          BY <2>4, <2>12, <4>2 DEF Takes
      <3> QED
        BY <3>1, <3>2, <3>3
    <2>13. ASSUME NEW k \in Present,
                  \E n \in next..Len(setup.m_SourceItems) : setup.m_SourceItems[n] \in Up[k]
           PROVE  \/ i \in Up[k]
                  \/ \E n \in next'..Len(setup.m_SourceItems) : setup.m_SourceItems[n] \in Up[k]
      <3>1. PICK n \in next..Len(setup.m_SourceItems) : setup.m_SourceItems[n] \in Up[k]
        BY <2>13
      <3>2. CASE n = next
        BY <3>1, <3>2 DEF i
      <3>3. CASE n # next
        BY <1>2, <2>1, <2>2, <3>1, <3>3
      <3> QED
        BY <3>2, <3>3
    <2>14. \A k \in Present :
             /\ ~m_IsStopped /\ InSelection(k)
             /\ \/ \E e \in Waiting : Takes(e, k)
                \/ /\ pc = "scan"
                   /\ \E n \in next..Len(setup.m_SourceItems) : setup.m_SourceItems[n] \in Up[k]
             => \/ \E e \in Waiting' : Takes(e, k)
                \/ \E f \in ToSet(frames') : Finds(f, k)
                \/ /\ pc' = "scan"
                   /\ \E n \in next'..Len(setup.m_SourceItems) : setup.m_SourceItems[n] \in Up[k]
      BY <1>1, <2>2, <2>9, <2>12, <2>13
    <2>15. /\ pc' \in {"scan", "delete", "remove", "over"} /\ pc' = "scan"
           /\ entry' \in Entries
      BY <1>1, <2>2 DEF TypeOK
    <2> QED
      BY <1>1, <1>3, <1>4, <2>1, <2>5, <2>6, <2>10, <2>11, <2>14, <2>15, ScriptingKeeps
  <1>7. next > Len(setup.m_SourceItems) \/ next <= Len(setup.m_SourceItems)
    BY <1>2 DEF TypeOK
  <1> QED
    <2>1. CASE m_IsStopped
      BY <1>5, <2>1 DEF ScanItem
    <2>2. CASE ~m_IsStopped /\ next > Len(setup.m_SourceItems)
      BY <1>5, <2>2 DEF ScanItem
    <2>3. CASE ~m_IsStopped /\ ~(next > Len(setup.m_SourceItems))
      BY <1>6, <1>7, <2>3 DEF ScanItem
    <2> QED
      BY <2>1, <2>2, <2>3

LEMMA NextEntryKeeps ==
  ASSUME IInv, NextEntry
  PROVE  IInv'
  <1> USE DEF IInv
  <1>1. /\ pc = "delete" /\ frames = <<>> /\ ToSet(frames) = {} /\ Waiting = ToSet(m_Script)
        /\ UNCHANGED <<setup, m_IsStopped, sticky, disk, history>>
    BY ToSetEmpty DEF NextEntry, TypeOK, Waiting
  <1>2. /\ UNCHANGED <<m_SkipAll, m_LockedItemBehaviour, unlocking, skipped, relisted, late,
                      m_DeleteAllOnTrashError, agreed>>
        /\ m_DeleteAllOnTrashError' \in BOOLEAN /\ agreed' \subseteq Items
    BY <1>1 DEF TypeOK, sticky, forAll, history
  <1>3. \A i : Consented(i)' <=> Consented(i)
    BY <1>1, <1>2 DEF Consented
  <1>4. /\ next' = next /\ frames' = frames /\ ToSet(frames') = {}
        /\ m_Script' \in Seq(Entries) /\ entry' \in Entries
        /\ \/ pc' = "over" /\ (m_IsStopped \/ m_Script' = <<>>)
           \/ pc' = "remove" /\ ~m_IsStopped
        /\ Waiting' = Waiting
    <2>1. CASE m_Script = <<>> \/ m_IsStopped
      BY <1>1, <2>1 DEF NextEntry, script, TypeOK, Waiting
    <2>2. CASE m_Script # <<>> /\ ~m_IsStopped
      <3>1. /\ pc' = "remove" /\ entry' = Last(m_Script) /\ m_Script' = Front(m_Script)
            /\ UNCHANGED <<next, frames>>
        BY <2>2 DEF NextEntry
      <3>2. /\ Last(m_Script) \in Entries /\ Front(m_Script) \in Seq(Entries)
            /\ ToSet(m_Script) = ToSet(Front(m_Script)) \cup {Last(m_Script)}
        BY <2>2, ToSetLast DEF TypeOK
      <3> QED
        BY <1>1, <2>2, <3>1, <3>2 DEF Waiting
    <2> QED
      BY <2>1, <2>2
  <1>5. /\ pc' \in {"scan", "delete", "remove", "over"} /\ (late # 0 => pc' # "remove")
        /\ (pc' = "over" /\ ~m_IsStopped => m_Script' = <<>>)
        /\ frames' \in Seq(Frames) /\ (frames' # <<>> => pc' \in {"scan", "delete"})
        /\ next' \in 1..(Len(setup.m_SourceItems) + 1)
    BY <1>1, <1>4 DEF TypeOK, StopInv
  <1>6. \A e \in Waiting' : InSelection(e.item) /\ (e.type = "Permanent" => Consented(e.item)')
    BY <1>3, <1>4 DEF SelectionInv, ConsentInv
  <1>7. \A f \in ToSet(frames') : /\ f.dir \in Directories /\ InSelection(f.dir)
                                  /\ Consented(f.dir)' /\ ToSet(f.left) = {}
    BY <1>4
  <1>8. \A i \in Present :
             /\ ~m_IsStopped /\ InSelection(i)
             /\ \/ \E e \in Waiting : Takes(e, i)
                \/ /\ pc = "scan"
                   /\ \E n \in next..Len(setup.m_SourceItems) : setup.m_SourceItems[n] \in Up[i]
             => \/ \E e \in Waiting' : Takes(e, i)
                \/ \E f \in ToSet(frames') : Finds(f, i)
                \/ /\ pc' = "scan"
                   /\ \E n \in next'..Len(setup.m_SourceItems) : setup.m_SourceItems[n] \in Up[i]
    BY <1>1, <1>4
  <1> QED
    BY <1>1, <1>2, <1>4, <1>5, <1>6, <1>7, <1>8, ScriptingKeeps

\* What is known where an entry is being removed.
LEMMA EntryKnown ==
  ASSUME IInv, pc = "remove"
  PROVE  /\ entry \in Entries /\ entry.item \in Items /\ entry.type \in Types
         /\ InSelection(entry.item) /\ (entry.type = "Permanent" => Consented(entry.item))
         /\ frames = <<>> /\ ToSet(frames) = {} /\ late = 0
         /\ Waiting = ToSet(m_Script) \cup {entry}
  <1>1. entry \in Entries /\ frames = <<>> /\ frames \in Seq(Frames)
    BY DEF IInv, TypeOK, ScanInv
  <1>2. entry.item \in Items /\ entry.type \in Types
    BY <1>1 DEF Entries
  <1> QED
    BY <1>1, <1>2, ToSetEmpty DEF IInv, SelectionInv, ConsentInv, StopInv, Waiting

LEMMA DeletePermanentlyKeeps ==
  ASSUME IInv, DeletePermanently
  PROVE  IInv'
  <1> USE DEF IInv
  <1> DEFINE i == entry.item
             pushed == [item |-> i, type |-> "Permanent"]
  <1>1. /\ pc = "remove" /\ entry.type = "Trash"
        /\ m_Script' = Append(m_Script, pushed)
        /\ frames' = IF IsDir(i) THEN <<Frame(i)>> ELSE <<>>
        /\ pc' = "delete" /\ UNCHANGED <<setup, next, entry, relisted>>
        /\ UNCHANGED <<m_IsStopped, disk, unlocking, skipped, late, m_SkipAll, m_LockedItemBehaviour>>
    BY DEF DeletePermanently, Push, Done, sticky, forAll
  <1>2. /\ i \in Items /\ InSelection(i) /\ frames = <<>> /\ ToSet(frames) = {} /\ late = 0
        /\ Waiting = ToSet(m_Script) \cup {entry}
    BY <1>1, EntryKnown
  <1>3. /\ m_DeleteAllOnTrashError' \in BOOLEAN /\ agreed' \subseteq Items
        /\ m_DeleteAllOnTrashError => m_DeleteAllOnTrashError'
        /\ agreed \subseteq agreed'
        /\ m_DeleteAllOnTrashError' \/ i \in agreed'
    <2>1. m_DeleteAllOnTrashError \in BOOLEAN /\ agreed \subseteq Items
      BY DEF TypeOK
    <2>2. CASE m_DeleteAllOnTrashError /\ UNCHANGED <<sticky, agreed>>
      BY <2>1, <2>2 DEF sticky, forAll
    <2>3. CASE /\ ~m_DeleteAllOnTrashError /\ agreed' = agreed \cup {i}
               /\ \/ UNCHANGED m_DeleteAllOnTrashError
                  \/ m_DeleteAllOnTrashError' = TRUE
      BY <1>2, <2>1, <2>3
    <2> QED
      BY <2>2, <2>3 DEF DeletePermanently
  <1>4. \A k : k = i \/ Consented(k) => Consented(k)'
    BY <1>1, <1>2, <1>3, UpFacts DEF Consented
  <1>5. pushed \in Entries /\ pushed.item = i /\ pushed.type = "Permanent"
    BY <1>2, EntryFacts DEF Types
  <1> HIDE DEF pushed, i
  <1>6. m_Script' \in Seq(Entries) /\ ToSet(m_Script') = ToSet(m_Script) \cup {pushed}
    BY <1>1, <1>5, ToSetAppend DEF TypeOK
  <1>7. Waiting' = ToSet(m_Script) \cup {pushed}
    BY <1>1, <1>6 DEF Waiting
  <1>8. Frame(i) \in Frames /\ Frame(i).dir = i /\ ~Frame(i).listed /\ ToSet(Frame(i).left) = {}
    BY <1>2, FrameFacts
  <1>9. /\ frames' \in Seq(Frames)
        /\ ToSet(frames') = IF IsDir(i) THEN {Frame(i)} ELSE {}
    <2>1. <<>> \in Seq(Frames)
      OBVIOUS
    <2>2. /\ <<Frame(i)>> \in Seq(Frames) /\ ToSet(<<Frame(i)>>) = {Frame(i)}
          /\ ToSet(<<>>) = {}
      BY <1>8, <2>1, ToSetOne, ToSetEmpty
    <2> QED
      BY <1>1, <2>1, <2>2
  <1>10. \A f \in ToSet(frames') : /\ f.dir \in Directories /\ InSelection(f.dir)
                                   /\ Consented(f.dir)' /\ ToSet(f.left) = {}
    BY <1>2, <1>4, <1>8, <1>9 DEF IsDir
  <1>11. \A e \in Waiting' : InSelection(e.item) /\ (e.type = "Permanent" => Consented(e.item)')
    BY <1>2, <1>4, <1>5, <1>7 DEF SelectionInv, ConsentInv
  <1>12. ASSUME NEW k \in Present, Takes(entry, k)
         PROVE  Takes(pushed, k) \/ \E f \in ToSet(frames') : Finds(f, k)
    <2>1. k \in Items /\ i \in Up[k]
      BY <1>2, <1>12, UpFacts DEF Takes, Present, i
    <2>2. CASE i = k
      BY <1>5, <2>2 DEF Takes
    <2>3. CASE i # k
      <3>1. IsDir(i)
        BY <2>1, <2>3, FoundBelow DEF IsDir
      <3> QED
        BY <1>8, <1>9, <2>1, <2>3, <3>1 DEF Finds
    <2> QED
      BY <2>2, <2>3
  <1>13. \A k \in Present :
             /\ ~m_IsStopped /\ InSelection(k)
             /\ \/ \E e \in Waiting : Takes(e, k)
                \/ /\ pc = "scan"
                   /\ \E n \in next..Len(setup.m_SourceItems) : setup.m_SourceItems[n] \in Up[k]
             => \/ \E e \in Waiting' : Takes(e, k)
                \/ \E f \in ToSet(frames') : Finds(f, k)
                \/ /\ pc' = "scan"
                   /\ \E n \in next'..Len(setup.m_SourceItems) : setup.m_SourceItems[n] \in Up[k]
    BY <1>1, <1>2, <1>7, <1>12
  <1>14. next' \in 1..(Len(setup.m_SourceItems) + 1) /\ entry' \in Entries
    BY <1>1 DEF TypeOK
  <1> QED
    BY <1>1, <1>2, <1>3, <1>6, <1>9, <1>10, <1>11, <1>13, <1>14, ScriptingKeeps

-----------------------------------------------------------------------------
(* DoUnlink(), DoRmDir() and DoTrash().                                    *)

\* The entry is given up.
LEMMA GivingUpKeeps ==
  ASSUME IInv, pc = "remove", Done, skipped' = skipped \cup {entry.item},
         UNCHANGED <<m_Script, frames, disk, agreed, unlocking, late, m_DeleteAllOnTrashError>>,
         m_IsStopped' \in BOOLEAN, m_IsStopped => m_IsStopped', m_SkipAll' \in BOOLEAN,
         m_LockedItemBehaviour' \in Behaviours,
         m_LockedItemBehaviour = "UnlockAll" => m_LockedItemBehaviour' = "UnlockAll"
  PROVE  IInv'
  <1> USE DEF IInv
  <1>1. pc' = "delete" /\ UNCHANGED <<setup, next, entry, relisted>>
    BY DEF Done
  <1>2. /\ entry.item \in Items /\ frames = <<>> /\ ToSet(frames) = {} /\ late = 0
        /\ Waiting = ToSet(m_Script) \cup {entry} /\ Waiting' = ToSet(m_Script)
    BY <1>1, EntryKnown DEF Waiting
  <1>3. /\ \A i : InSelection(i)' <=> InSelection(i)
        /\ \A i : Consented(i)' <=> Consented(i)
        /\ \A e, i : Takes(e, i)' <=> Takes(e, i)
        /\ \A f, i : Finds(f, i)' <=> Finds(f, i)
        /\ Present' = Present
    BY <1>1 DEF InSelection, Selected, Consented, Takes, Finds, Present, disk
  <1>4. TypeOK'
    BY <1>1, <1>2 DEF TypeOK, disk
  <1>5. ScanInv' /\ SelectionInv' /\ ConsentInv'
    BY <1>1, <1>2, <1>3 DEF ScanInv, SelectionInv, ConsentInv
  <1>6. OnlySelection' /\ ErasedByConsent'
    BY <1>1, <1>3 DEF OnlySelection, ErasedByConsent, disk
  <1>7. StopInv' /\ LockInv' /\ PresentInv'
    BY <1>1, <1>2, <1>3 DEF StopInv, LockInv, PresentInv, disk
  <1>8. AccountInv'
    <2>1. ASSUME ~m_IsStopped, NEW i \in Present, InSelection(i)
          PROVE  GaveUp(i)' \/ \E e \in Waiting' : Takes(e, i)
      <3>1. CASE GaveUp(i)
        BY <3>1 DEF GaveUp
      <3>2. CASE Takes(entry, i)
        BY <1>2, <3>2, UpFacts DEF Takes, GaveUp, Present
      <3>3. CASE \E e \in ToSet(m_Script) : Takes(e, i)
        BY <1>2, <3>3
      <3> QED
        BY <1>2, <2>1, <3>1, <3>2, <3>3 DEF AccountInv
    <2> QED
      BY <1>3, <2>1 DEF AccountInv
  <1> QED
    BY <1>4, <1>5, <1>6, <1>7, <1>8

LEMMA ErrorsKeep ==
  ASSUME IInv, RemoveError \/ TrashError \/ LockedItem \/ UnlockError
  PROVE  IInv'
  <1>1. TypeOK
    BY DEF IInv
  <1>2. /\ pc = "remove" /\ Done /\ skipped' = skipped \cup {entry.item}
        /\ UNCHANGED <<m_Script, frames, disk, agreed, unlocking, late>>
    BY DEF RemoveError, TrashError, LockedItem, UnlockError
  <1>3. CASE RemoveError \/ TrashError \/ UnlockError
    <2>1. Skip \/ Abort
      BY <1>3 DEF RemoveError, TrashError, UnlockError
    <2>2. /\ m_IsStopped' \in BOOLEAN /\ m_SkipAll' \in BOOLEAN
          /\ m_IsStopped => m_IsStopped'
          /\ m_DeleteAllOnTrashError' = m_DeleteAllOnTrashError
      BY <1>1, <2>1, AnswerFacts
    <2>3. /\ m_LockedItemBehaviour' \in Behaviours
          /\ m_LockedItemBehaviour = "UnlockAll" => m_LockedItemBehaviour' = "UnlockAll"
      BY <1>1, <1>3 DEF RemoveError, TrashError, UnlockError, TypeOK, Behaviours
    <2> QED
      BY <1>2, <2>2, <2>3, GivingUpKeeps
  <1>4. CASE LockedItem
    <2>1. /\ m_IsStopped' \in BOOLEAN /\ m_SkipAll' \in BOOLEAN
          /\ m_IsStopped => m_IsStopped'
          /\ m_DeleteAllOnTrashError' = m_DeleteAllOnTrashError
          /\ m_LockedItemBehaviour' \in Behaviours
          /\ m_LockedItemBehaviour = "UnlockAll" => m_LockedItemBehaviour' = "UnlockAll"
      <3>1. /\ m_IsStopped \in BOOLEAN /\ m_SkipAll \in BOOLEAN
            /\ m_LockedItemBehaviour \in Behaviours
        BY <1>1 DEF TypeOK
      <3>2. CASE UNCHANGED <<m_IsStopped, sticky>>
        BY <3>1, <3>2 DEF sticky, forAll
      <3>3. CASE Stop /\ UNCHANGED m_LockedItemBehaviour
        BY <3>1, <3>3 DEF Stop, forAll
      <3>4. CASE /\ m_LockedItemBehaviour = "Ask"
                 /\ UNCHANGED m_LockedItemBehaviour \/ m_LockedItemBehaviour' = "SkipAll"
                 /\ UNCHANGED <<m_IsStopped, forAll>>
        BY <3>1, <3>4 DEF Behaviours, forAll
      <3> QED
        BY <1>4, <3>2, <3>3, <3>4 DEF LockedItem
    <2> QED
      BY <1>2, <2>1, GivingUpKeeps
  <1> QED
    BY <1>3, <1>4

\* A removal succeeds: the item goes, with what the entry takes with it.
LEMMA RemovalKeeps ==
  ASSUME IInv, pc = "remove", Done, Counted,
         UNCHANGED <<m_Script, frames, m_IsStopped, sticky, locked, agreed, unlocking, skipped>>,
         erased' \subseteq Items, trashed' \subseteq Items,
         NEW gone \in SUBSET Items, erased' \cup trashed' = erased \cup trashed \cup gone,
         \A i \in gone : entry.item \in Up[i],
         \A i \in Present : Takes(entry, i) \/ Up[i] \cap gone # {} => i \in gone,
         ErasedByConsent', locked \cap erased' = {}
  PROVE  IInv'
  <1> USE DEF IInv
  <1>1. /\ pc' = "delete" /\ UNCHANGED <<setup, next, entry, relisted>>
        /\ UNCHANGED <<m_SkipAll, m_DeleteAllOnTrashError, m_LockedItemBehaviour>>
    BY DEF Done, sticky, forAll
  <1>2. /\ entry.item \in Items /\ InSelection(entry.item) /\ frames = <<>>
        /\ ToSet(frames) = {} /\ late = 0
        /\ Waiting = ToSet(m_Script) \cup {entry} /\ Waiting' = ToSet(m_Script)
    BY <1>1, EntryKnown DEF Waiting
  <1>3. /\ \A i : InSelection(i)' <=> InSelection(i)
        /\ \A i : Consented(i)' <=> Consented(i)
        /\ \A e, i : Takes(e, i)' <=> Takes(e, i)
        /\ \A i : GaveUp(i)' <=> GaveUp(i)
        /\ Present' = Present \ gone
    BY <1>1 DEF InSelection, Selected, Consented, Takes, GaveUp, Present
  <1>4. late' \in {0, 1} /\ (late' # 0 => m_IsStopped)
    BY <1>2 DEF Counted
  <1>5. TypeOK'
    BY <1>1, <1>4 DEF TypeOK
  <1>6. ScanInv' /\ SelectionInv' /\ ConsentInv'
    BY <1>1, <1>2, <1>3 DEF ScanInv, SelectionInv, ConsentInv
  <1>7. OnlySelection'
    <2>1. \A i \in gone : InSelection(i)
      BY <1>2, SelectedBelow
    <2> QED
      BY <1>3, <2>1 DEF OnlySelection
  <1>8. StopInv' /\ LockInv'
    BY <1>1, <1>4 DEF StopInv, LockInv
  <1>9. PresentInv'
    BY <1>3 DEF PresentInv
  <1>10. AccountInv'
    <2>1. ASSUME ~m_IsStopped, NEW i \in Present \ gone, InSelection(i)
          PROVE  GaveUp(i) \/ \E e \in Waiting' : Takes(e, i)
      BY <1>2, <2>1 DEF AccountInv
    <2> QED
      BY <1>1, <1>3, <2>1 DEF AccountInv
  <1> QED
    BY <1>5, <1>6, <1>7, <1>8, <1>9, <1>10

LEMMA RemoveItemKeeps ==
  ASSUME IInv, RemoveItem
  PROVE  IInv'
  <1> DEFINE gone == Removes \cap Present
  <1>1. /\ pc = "remove" /\ entry.type = "Permanent" /\ Removable
        /\ erased' = erased \cup gone /\ Counted /\ Done
        /\ UNCHANGED <<m_Script, frames, m_IsStopped, sticky, trashed, locked, agreed, unlocking,
                      skipped>>
    BY DEF RemoveItem
  <1>2. /\ entry.item \in Items /\ Consented(entry.item)
    BY <1>1, EntryKnown
  <1>3. /\ setup \in Setups /\ erased \subseteq Items /\ trashed \subseteq Items
        /\ locked \subseteq setup.locked /\ locked \cap erased = {}
        /\ UNCHANGED <<setup, m_DeleteAllOnTrashError>>
    BY <1>1 DEF IInv, TypeOK, LockInv, Done, sticky, forAll
  <1>4. /\ entry.item \in Present \ locked
        /\ Subtree(entry.item) \cap Present \subseteq Removes
    BY <1>1 DEF Removable
  <1>5. /\ gone \in SUBSET Items
        /\ \A i \in gone : entry.item \in Up[i]
        /\ ~setup.recursive => gone = {entry.item}
    BY <1>2, <1>4, UpFacts DEF Removes, Subtree, Present
  <1>6. ASSUME NEW i \in Present, Takes(entry, i) \/ Up[i] \cap gone # {}
        PROVE  i \in gone
    <2>1. i \in Items
      BY DEF Present
    <2>2. CASE Takes(entry, i)
      BY <1>1, <1>2, <2>1, <2>2, UpFacts DEF Takes, Removes, Subtree
    <2>3. CASE Up[i] \cap gone # {}
      <3>1. PICK u \in Up[i] : u \in gone
        BY <2>3
      <3>2. entry.item \in Up[i]
        BY <1>5, <2>1, <3>1, UpFacts
      <3> QED
        BY <1>4, <2>1, <3>2 DEF Subtree
    <2> QED
      BY <1>6, <2>2, <2>3
  <1> HIDE DEF gone
  <1>7. ErasedByConsent'
    <2>1. setup.m_Type = "Trash" => gone = {entry.item}
      BY <1>3, <1>5, SetupFacts
    <2>2. setup.m_Type = "Trash" => m_DeleteAllOnTrashError \/ Up[entry.item] \cap agreed # {}
      BY <1>2 DEF Consented
    <2>3. agreed' = agreed
      BY <1>1
    <2> QED
      BY <1>1, <1>3, <2>1, <2>2, <2>3 DEF IInv, ErasedByConsent
  <1>8. locked \cap erased' = {}
    <2>1. setup.recursive => setup.locked = {}
      BY <1>3, SetupFacts
    <2> QED
      BY <1>1, <1>3, <1>4, <1>5, <2>1
  <1>9. /\ erased' \subseteq Items /\ trashed' \subseteq Items
        /\ erased' \cup trashed' = erased \cup trashed \cup gone
        /\ UNCHANGED <<m_Script, frames, m_IsStopped, sticky, locked, agreed, unlocking, skipped>>
    BY <1>1, <1>3, <1>5
  <1> QED
    BY <1>1, <1>5, <1>6, <1>7, <1>8, <1>9, RemovalKeeps

LEMMA TrashKeeps ==
  ASSUME IInv, Trash
  PROVE  IInv'
  <1> DEFINE gone == Subtree(entry.item) \cap Present
  <1>1. /\ pc = "remove" /\ Counted /\ Done /\ trashed' = trashed \cup gone
        /\ UNCHANGED <<m_Script, frames, m_IsStopped, sticky, erased, locked, agreed, unlocking,
                      skipped>>
    BY DEF Trash
  <1>2. entry.item \in Items
    BY <1>1, EntryKnown
  <1>3. /\ erased \subseteq Items /\ trashed \subseteq Items /\ locked \cap erased = {}
        /\ UNCHANGED <<setup, m_DeleteAllOnTrashError>>
    BY <1>1 DEF IInv, TypeOK, LockInv, Done, sticky, forAll
  <1>4. gone \in SUBSET Items /\ \A i \in gone : entry.item \in Up[i]
    BY DEF Subtree
  <1>5. ASSUME NEW i \in Present, Takes(entry, i) \/ Up[i] \cap gone # {}
        PROVE  i \in gone
    <2>1. i \in Items
      BY DEF Present
    <2>2. entry.item \in Up[i]
      BY <1>2, <1>4, <1>5, <2>1, UpFacts DEF Takes
    <2> QED
      BY <2>1, <2>2 DEF Subtree
  <1> HIDE DEF gone
  <1>6. ErasedByConsent'
    BY <1>1, <1>3 DEF IInv, ErasedByConsent
  <1>7. /\ erased' \subseteq Items /\ trashed' \subseteq Items
        /\ erased' \cup trashed' = erased \cup trashed \cup gone
        /\ locked \cap erased' = {}
        /\ UNCHANGED <<m_Script, frames, m_IsStopped, sticky, locked, agreed, unlocking, skipped>>
    BY <1>1, <1>3, <1>4
  <1> QED
    BY <1>1, <1>4, <1>5, <1>6, <1>7, RemovalKeeps

\* An item loses its lock, and the loop goes on with it; or the user stops the job.
LEMMA UnlockOrStopKeeps ==
  ASSUME IInv, UnlockItem \/ UserStop
  PROVE  IInv'
  <1> USE DEF IInv
  <1>1. /\ UNCHANGED <<setup, pc, script, m_SkipAll, m_DeleteAllOnTrashError, erased, trashed, agreed,
                      skipped, relisted, late>>
        /\ m_IsStopped' \in BOOLEAN /\ (m_IsStopped => m_IsStopped')
        /\ pc = "over" => m_IsStopped' = m_IsStopped
        /\ Waiting' = Waiting
    BY DEF UnlockItem, UserStop, TypeOK, sticky, forAll, disk, history, Waiting, script
  <1>2. /\ m_LockedItemBehaviour' \in Behaviours /\ locked' \subseteq locked
        /\ unlocking \subseteq unlocking' /\ unlocking' \subseteq Items
        /\ m_LockedItemBehaviour = "UnlockAll" => m_LockedItemBehaviour' = "UnlockAll"
        /\ \A i \in locked \ locked' : i \in unlocking' \/ m_LockedItemBehaviour' = "UnlockAll"
    <2>1. m_LockedItemBehaviour \in Behaviours /\ unlocking \subseteq Items
      BY DEF TypeOK
    <2>2. CASE UserStop
      BY <2>1, <2>2 DEF UserStop, sticky, forAll, disk, history
    <2>3. CASE /\ UnlockItem /\ m_LockedItemBehaviour = "UnlockAll"
               /\ UNCHANGED <<m_LockedItemBehaviour, unlocking>>
      BY <2>1, <2>3 DEF UnlockItem
    <2>4. CASE /\ UnlockItem /\ m_LockedItemBehaviour = "Ask"
               /\ unlocking' = unlocking \cup {entry.item}
               /\ UNCHANGED m_LockedItemBehaviour \/ m_LockedItemBehaviour' = "UnlockAll"
      <3>1. locked' = locked \ {entry.item} /\ entry.item \in Items
        BY <2>4, EntryKnown DEF UnlockItem
      <3> QED
        BY <2>1, <2>4, <3>1 DEF Behaviours
    <2> QED
      BY <2>2, <2>3, <2>4 DEF UnlockItem
  <1>3. /\ \A i : InSelection(i)' <=> InSelection(i)
        /\ \A i : Consented(i)' <=> Consented(i)
        /\ \A e, i : Takes(e, i)' <=> Takes(e, i)
        /\ \A f, i : Finds(f, i)' <=> Finds(f, i)
        /\ \A i : GaveUp(i)' <=> GaveUp(i)
        /\ Present' = Present
    BY <1>1 DEF InSelection, Selected, Consented, Takes, Finds, GaveUp, Present
  <1>4. TypeOK'
    BY <1>1, <1>2 DEF TypeOK, script
  <1>5. ScanInv' /\ SelectionInv' /\ ConsentInv'
    BY <1>1, <1>3 DEF ScanInv, SelectionInv, ConsentInv, script
  <1>6. OnlySelection' /\ ErasedByConsent' /\ StopInv' /\ PresentInv'
    BY <1>1, <1>3 DEF OnlySelection, ErasedByConsent, StopInv, PresentInv
  <1>7. LockInv'
    BY <1>1, <1>2 DEF LockInv
  <1>8. AccountInv'
    BY <1>1, <1>3 DEF AccountInv, script
  <1> QED
    BY <1>4, <1>5, <1>6, <1>7, <1>8

-----------------------------------------------------------------------------
(* The theorems.                                                           *)

LEMMA InitIInv == Init => IInv
  <1> SUFFICES ASSUME Init
               PROVE  IInv
    OBVIOUS
  <1>1. /\ m_Script = <<>> /\ frames = <<>> /\ pc = "scan" /\ next = 1
        /\ <<>> \in Seq(Entries) /\ <<>> \in Seq(Frames)
    BY DEF Init
  <1>2. ToSet(m_Script) = {} /\ ToSet(frames) = {} /\ Waiting = {}
    BY <1>1, ToSetEmpty DEF Waiting
  <1>3. /\ setup.m_SourceItems \in Seq(Items) /\ Len(setup.m_SourceItems) \in Nat
        /\ DOMAIN setup.m_SourceItems = 1..Len(setup.m_SourceItems)
        /\ setup.locked \subseteq Items /\ setup.behaviour \in Behaviours
    BY SetupFacts, LenProperties DEF Init
  <1>4. TypeOK
    <2>1. relisted \in [Items -> 0..MaxRetries]
      BY MaxRetriesAssumption DEF Init
    <2>2. 1 \in 1..(Len(setup.m_SourceItems) + 1)
      BY <1>3
    <2> QED
      BY <1>1, <1>3, <2>1, <2>2 DEF Init, TypeOK
  <1>5. ScanInv /\ SelectionInv /\ ConsentInv /\ OnlySelection /\ ErasedByConsent /\ StopInv
    BY <1>1, <1>2
       DEF Init, ScanInv, SelectionInv, ConsentInv, OnlySelection, ErasedByConsent, StopInv
  <1>6. LockInv /\ PresentInv
    BY UpFacts DEF Init, LockInv, PresentInv, Present
  <1>7. AccountInv
    <2>1. ASSUME NEW i \in Present, InSelection(i)
          PROVE  \E n \in next..Len(setup.m_SourceItems) : setup.m_SourceItems[n] \in Up[i]
      BY <1>1, <1>3, <2>1 DEF InSelection, Selected, ToSet
    <2> QED
      BY <1>1, <2>1 DEF AccountInv
  <1> QED
    BY <1>4, <1>5, <1>6, <1>7 DEF IInv

LEMMA NextIInv == IInv /\ [Next]_vars => IInv'
  <1> SUFFICES ASSUME IInv, [Next]_vars
               PROVE  IInv'
    OBVIOUS
  <1>1. CASE UNCHANGED vars
    BY <1>1
       DEF vars, script, sticky, forAll, disk, history, IInv, TypeOK, ScanInv, SelectionInv, ConsentInv,
           OnlySelection, ErasedByConsent, StopInv, LockInv, PresentInv, AccountInv, Waiting,
           InSelection, Selected, Consented, Present, Takes, Finds, GaveUp
  <1>2. CASE Scan
    BY <1>2, ScanItemKeeps, ReadDirKeeps, ScanEntryKeeps, ScanReturnKeeps DEF Scan
  <1>3. CASE Delete
    BY <1>3, NextEntryKeeps, RemoveItemKeeps, TrashKeeps, ErrorsKeep, DeletePermanentlyKeeps,
       UnlockOrStopKeeps DEF Delete
  <1>4. CASE UserStop
    BY <1>4, UnlockOrStopKeeps
  <1> QED
    BY <1>1, <1>2, <1>3, <1>4 DEF Next

\* The inductive invariant: the script and the calls of ScanDirectory() account for every
\* item of the selection that is still there, and for no other item.
THEOREM Invariant == Spec => []IInv
  BY InitIInv, NextIInv, PTL DEF Spec

\* The script and the frames hold items of the tree, and the flags have their types.
THEOREM TypeCorrect == Spec => []TypeOK
  BY Invariant, PTL DEF IInv

\* Nothing but the selection is removed, whatever tree it is in and whatever the user
\* answers: a directory is gone into only if it is one, and never a link to one.
THEOREM OnlySelectionHolds == Spec => []OnlySelection
  BY Invariant, PTL DEF IInv

\* A job that moves to the trash deletes an item for good only after the user agreed.
THEOREM ErasedByConsentHolds == Spec => []ErasedByConsent
  BY Invariant, PTL DEF IInv

\* The items that are left when a job has run to its end were given up.
THEOREM NothingForgottenHolds == Spec => []NothingForgotten
  <1>1. ASSUME IInv, pc = "over", ~m_IsStopped, NEW i \in Present, InSelection(i)
        PROVE  GaveUp(i)
    <2>1. m_Script = <<>> /\ frames = <<>>
      BY <1>1 DEF IInv, ScanInv
    <2>2. ToSet(m_Script) = {} /\ ToSet(frames) = {}
      BY <1>1, <2>1, ToSetEmpty DEF IInv, TypeOK
    <2> QED
      BY <1>1, <2>2 DEF IInv, AccountInv, Waiting
  <1>2. IInv => NothingForgotten
    BY <1>1 DEF NothingForgotten, GaveUp
  <1> QED
    BY <1>2, Invariant, PTL

\* After a stop the job removes the item it is at and no other one.
THEOREM StopsSoonHolds == Spec => []StopsSoon
  <1>1. IInv => StopsSoon
    BY DEF IInv, TypeOK, StopInv, StopsSoon
  <1> QED
    BY <1>1, Invariant, PTL

\* What was locked is deleted for good only if somebody said that it is to be unlocked.
THEOREM UnlockedByConsentHolds == Spec => []UnlockedByConsent
  <1>1. IInv => UnlockedByConsent
    BY DEF IInv, LockInv, UnlockedByConsent
  <1> QED
    BY <1>1, Invariant, PTL

=============================================================================
