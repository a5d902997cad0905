---------------------------- MODULE DeletionJob ----------------------------
(***************************************************************************)
(* ops::DeletionJob (Operations/source/Deletion/DeletionJob.cpp) with the  *)
(* answers of its operation (Deletion.mm): items are scanned into a script *)
(* from whose end they are deleted, or moved to the trash.                 *)
(*                                                                         *)
(* An item is a path.  A directory lists its items; so does a symbolic     *)
(* link to a directory, whose items are elsewhere.  Any system call may    *)
(* fail and each failure is put to the user, unless an earlier answer was  *)
(* to apply to all; "Retry" of a deletion is a stutter.  A step is one     *)
(* system call with the answer to its failure.                             *)
(***************************************************************************)
EXTENDS Integers, Sequences, SequencesExt, FiniteSets, Filtering

CONSTANTS
    Items,         \* all items of the host
    Directories,   \* those that are directories
    Listing,       \* what IterateDirectoryListing() finds in an item
    Up,            \* an item and the directories it is below of
    Setups,        \* the kinds of jobs, see SetupsAssumption
    MaxRetries     \* bound: how often the reading of a directory is retried

ASSUME TreeAssumption ==
    /\ Directories \subseteq Items
    /\ Listing \in [Items -> Seq(Items)]
    /\ Up \in [Items -> SUBSET Items]
    /\ \A i \in Items : i \in Up[i] /\ \A d \in Up[i] : Up[d] \subseteq Up[i]
    /\ \A d \in Directories : \A k \in DOMAIN Listing[d] : d \in Up[Listing[d][k]]
    \* What is in a directory is one of the items it lists, or is in one of them.
    /\ \A i \in Items : \A d \in Up[i] \ {i} :
           d \in Directories /\ \E k \in DOMAIN Listing[d] : Listing[d][k] \in Up[i]

Types == {"Permanent", "Trash"}
Behaviours == {"Ask", "SkipAll", "UnlockAll", "Stop"}

ASSUME SetupsAssumption ==
    \A s \in Setups :
        /\ s.m_SourceItems \in Seq(Items)
        /\ s.m_Type \in Types
        /\ s.recursive \in BOOLEAN       \* the host has the feature NonEmptyRmDir
        /\ s.interactive \in BOOLEAN     \* IsInteractive()
        /\ s.locked \subseteq Items      \* the items that have UF_IMMUTABLE
        /\ s.behaviour \in Behaviours    \* DeletionOptions::locked_items_behaviour
        /\ s.m_Type = "Trash" \/ s.locked # {} => ~s.recursive    \* a native host

ASSUME MaxRetriesAssumption == MaxRetries \in Nat

VARIABLES
    setup,
    pc,
    next,          \* the index of the item of m_SourceItems that DoScan() is at
    m_Script,      \* a stack of items to delete, each with the type of its deletion
    frames,        \* the calls of ScanDirectory() that have not returned
    entry,         \* what DoUnlink(), DoRmDir() or DoTrash() is at
    m_IsStopped, m_SkipAll, m_DeleteAllOnTrashError, m_LockedItemBehaviour,
    erased, trashed,   \* the items deleted for good, and those moved to the trash
    locked,        \* the items that have UF_IMMUTABLE
    agreed,        \* history: those the user told to delete permanently instead
    unlocking,     \* history: those the user told to unlock
    skipped,       \* history: those the job gave up on
    relisted,      \* history: directories whose reading was retried, with how often
    late           \* history: how many removals there were after the job was stopped

script == <<next, m_Script, frames, entry>>
forAll == <<m_SkipAll, m_DeleteAllOnTrashError>>
sticky == <<forAll, m_LockedItemBehaviour>>
disk == <<erased, trashed, locked>>
history == <<agreed, unlocking, skipped, relisted, late>>
vars == <<setup, pc, script, m_IsStopped, sticky, disk, history>>

Entries == [item : Items, type : Types]
Frames == [dir : Items, listed : BOOLEAN, left : Seq(Items)]

TypeOK ==
    /\ setup \in Setups
    /\ pc \in {"scan", "delete", "remove", "over"}
    /\ next \in 1..(Len(setup.m_SourceItems) + 1)
    /\ m_Script \in Seq(Entries)
    /\ frames \in Seq(Frames)
    /\ entry \in Entries
    /\ m_IsStopped \in BOOLEAN /\ m_SkipAll \in BOOLEAN /\ m_DeleteAllOnTrashError \in BOOLEAN
    /\ m_LockedItemBehaviour \in Behaviours
    /\ erased \subseteq Items /\ trashed \subseteq Items /\ locked \subseteq Items
    /\ agreed \subseteq Items /\ unlocking \subseteq Items /\ skipped \subseteq Items
    /\ relisted \in [Items -> 0..MaxRetries]
    /\ late \in Nat

Init ==
    /\ setup \in Setups
    /\ pc = "scan"
    /\ next = 1
    /\ m_Script = <<>> /\ frames = <<>>
    /\ entry \in Entries /\ entry = CHOOSE e \in Entries : TRUE
    /\ m_IsStopped = FALSE /\ m_SkipAll = FALSE /\ m_DeleteAllOnTrashError = FALSE
    /\ m_LockedItemBehaviour = setup.behaviour
    /\ erased = {} /\ trashed = {} /\ locked = setup.locked
    /\ agreed = {} /\ unlocking = {} /\ skipped = {}
    /\ relisted = [i \in Items |-> 0]
    /\ late = 0

Present == Items \ (erased \cup trashed)

\* Mutant: the item a symbolic link points to is looked at.
IsDirFollowing(i) == Listing[i] # <<>>

IsDir(i) == i \in Directories

\* Everything in a directory, itself included.
Subtree(d) == {i \in Items : d \in Up[i]}

-----------------------------------------------------------------------------
(* The answers of Deletion.mm.                                             *)

\* Something is left in the script, so an answer may be meant for all that follows.
MoreToCome == m_Script # <<>>

Stop ==
    /\ m_IsStopped' = TRUE
    /\ UNCHANGED forAll

\* OnReadDirError(), OnUnlinkError(), OnRmdirError(), OnUnlockError(): Skip.  One of the
\* buttons of OnReadDirError() that skip is titled "Abort".
Skip ==
    \/ /\ m_SkipAll \/ setup.interactive
       /\ UNCHANGED <<m_IsStopped, forAll>>
    \/ /\ ~m_SkipAll /\ setup.interactive /\ MoreToCome
       /\ m_SkipAll' = TRUE
       /\ UNCHANGED <<m_IsStopped, m_DeleteAllOnTrashError>>

\* "Abort" is a button of every sheet, and the answer when nobody can be asked.
Abort == ~m_SkipAll /\ Stop

-----------------------------------------------------------------------------
(* DoScan() and ScanDirectory().                                           *)

Push(i, type) == m_Script' = Append(m_Script, [item |-> i, type |-> type])
Frame(d) == [dir |-> d, listed |-> FALSE, left |-> <<>>]
Top == frames[Len(frames)]
Return == frames' = Front(frames)

\* Mutant: directories are scanned whatever is to become of them.
NeedsScanAlways(i) == IsDir(i) /\ ~setup.recursive

\* A directory that is moved to the trash, or removed with its content, is not scanned.
NeedsScan(i) == IsDir(i) /\ setup.m_Type = "Permanent" /\ ~setup.recursive

ScanItem ==
    /\ pc = "scan" /\ frames = <<>>
    /\ IF m_IsStopped
         THEN pc' = "over" /\ UNCHANGED script
       ELSE IF next > Len(setup.m_SourceItems)
         THEN pc' = "delete" /\ UNCHANGED script
       ELSE LET i == setup.m_SourceItems[next]
            IN  /\ Push(i, setup.m_Type)
                /\ next' = next + 1
                /\ frames' = IF NeedsScan(i) THEN <<Frame(i)>> ELSE <<>>
                /\ UNCHANGED <<pc, entry>>
    /\ UNCHANGED <<setup, m_IsStopped, sticky, disk, history>>

\* IterateDirectoryListing() appends to dir_entries, also when it fails half way, as its
\* interface allows, and is called again.
ReadDir ==
    LET found == Filter(Listing[Top.dir], Present)
        read(all, n) == [dir |-> Top.dir, listed |-> all,
                         left |-> Top.left \o SubSeq(found, 1, n)]
    IN  /\ frames # <<>> /\ ~m_IsStopped /\ ~Top.listed
        /\ \/ /\ frames' = [frames EXCEPT ![Len(frames)] = read(TRUE, Len(found))]
              /\ UNCHANGED <<m_IsStopped, sticky, skipped, relisted>>
           \/ /\ Skip \/ Abort
              /\ Return
              /\ skipped' = skipped \cup {Top.dir}
              /\ UNCHANGED <<m_LockedItemBehaviour, relisted>>
           \/ /\ ~m_SkipAll /\ setup.interactive
              /\ relisted[Top.dir] < MaxRetries
              /\ relisted' = [relisted EXCEPT ![Top.dir] = @ + 1]
              /\ \E n \in 0..Len(found) :
                     frames' = [frames EXCEPT ![Len(frames)] = read(FALSE, n)]
              /\ UNCHANGED <<m_IsStopped, sticky, skipped>>
    /\ UNCHANGED <<setup, pc, next, m_Script, entry, disk, agreed, unlocking, late>>

ScanEntry ==
    LET i == Head(Top.left)
        rest == [frames EXCEPT ![Len(frames)] = [Top EXCEPT !.left = Tail(@)]]
    IN  /\ frames # <<>> /\ ~m_IsStopped /\ Top.listed /\ Top.left # <<>>
        /\ Push(i, "Permanent")
        /\ frames' = IF IsDir(i) THEN Append(rest, Frame(i)) ELSE rest
        /\ UNCHANGED <<setup, pc, next, entry, m_IsStopped, sticky, disk, history>>

ScanReturn ==
    /\ frames # <<>>
    /\ m_IsStopped \/ (Top.listed /\ Top.left = <<>>)
    /\ Return
    /\ UNCHANGED <<setup, pc, next, m_Script, entry, m_IsStopped, sticky, disk, history>>

-----------------------------------------------------------------------------
(* DoDelete() and what it calls.                                           *)

\* Mutant: the loop looks at the script only.
NextEntryUnchecked ==
    /\ pc = "delete" /\ frames = <<>>
    /\ IF m_Script = <<>>
         THEN pc' = "over" /\ UNCHANGED script
         ELSE /\ pc' = "remove"
              /\ entry' = Last(m_Script) /\ m_Script' = Front(m_Script)
              /\ UNCHANGED <<next, frames>>
    /\ UNCHANGED <<setup, m_IsStopped, sticky, disk, history>>

NextEntry ==
    /\ pc = "delete" /\ frames = <<>>
    /\ IF m_Script = <<>> \/ m_IsStopped
         THEN pc' = "over" /\ UNCHANGED script
         ELSE /\ pc' = "remove"
              /\ entry' = Last(m_Script) /\ m_Script' = Front(m_Script)
              /\ UNCHANGED <<next, frames>>
    /\ UNCHANGED <<setup, m_IsStopped, sticky, disk, history>>

\* The end of DoUnlink(), DoRmDir() or DoTrash().
Done == pc' = "delete" /\ UNCHANGED <<setup, next, entry, relisted>>

Counted == late' = IF m_IsStopped THEN late + 1 ELSE late

\* What Unlink() or RemoveDirectory() removes.
Removes == IF setup.recursive THEN Subtree(entry.item) ELSE {entry.item}

\* Unlink() fails on an item that is locked or gone, RemoveDirectory() on a
\* directory with something in it unless the host removes that with it.
Removable ==
    /\ entry.item \in Present \ locked
    /\ Subtree(entry.item) \cap Present \subseteq Removes

RemoveItem ==
    /\ pc = "remove" /\ entry.type = "Permanent" /\ Removable
    /\ erased' = erased \cup (Removes \cap Present)
    /\ Counted
    /\ Done
    /\ UNCHANGED <<m_Script, frames, m_IsStopped, sticky, trashed, locked, agreed, unlocking,
                   skipped>>

\* VFSHost::Trash() moves the item with all that is below it.
Trash ==
    /\ pc = "remove" /\ entry.type = "Trash" /\ entry.item \in Present \ locked
    /\ trashed' = trashed \cup (Subtree(entry.item) \cap Present)
    /\ Counted
    /\ Done
    /\ UNCHANGED <<m_Script, frames, m_IsStopped, sticky, erased, locked, agreed, unlocking,
                   skipped>>

\* OnUnlinkError(), OnRmdirError(): any other error than that the item is locked, which
\* a locked item may meet as well.
RemoveError ==
    /\ pc = "remove" /\ entry.type = "Permanent"
    /\ Skip \/ Abort
    /\ skipped' = skipped \cup {entry.item}
    /\ Done
    /\ UNCHANGED <<m_Script, frames, m_LockedItemBehaviour, disk, agreed, unlocking, late>>

\* OnTrashError(): Skip or Stop, unless all are to be deleted.
TrashError ==
    /\ pc = "remove" /\ entry.type = "Trash"
    /\ ~m_DeleteAllOnTrashError
    /\ Skip \/ Abort
    /\ skipped' = skipped \cup {entry.item}
    /\ Done
    /\ UNCHANGED <<m_Script, frames, m_LockedItemBehaviour, disk, agreed, unlocking, late>>

\* Mutant: a directory is scanned without going back into the script itself.
DeletePermanentlyBelow ==
    /\ pc = "remove" /\ entry.type = "Trash"
    /\ \/ m_DeleteAllOnTrashError /\ UNCHANGED <<sticky, agreed>>
       \/ /\ ~m_DeleteAllOnTrashError /\ ~m_SkipAll /\ setup.interactive
          /\ agreed' = agreed \cup {entry.item}
          /\ \/ UNCHANGED m_DeleteAllOnTrashError
             \/ MoreToCome /\ m_DeleteAllOnTrashError' = TRUE
          /\ UNCHANGED <<m_SkipAll, m_LockedItemBehaviour>>
    /\ IF IsDir(entry.item) THEN UNCHANGED m_Script ELSE Push(entry.item, "Permanent")
    /\ frames' = IF IsDir(entry.item) THEN <<Frame(entry.item)>> ELSE <<>>
    /\ Done
    /\ UNCHANGED <<m_IsStopped, disk, unlocking, skipped, late>>

\* OnTrashError(): DeletePermanently.  The item goes back into the script, with what
\* is below it.
DeletePermanently ==
    /\ pc = "remove" /\ entry.type = "Trash"
    /\ \/ m_DeleteAllOnTrashError /\ UNCHANGED <<sticky, agreed>>
       \/ /\ ~m_DeleteAllOnTrashError /\ ~m_SkipAll /\ setup.interactive
          /\ agreed' = agreed \cup {entry.item}
          /\ \/ UNCHANGED m_DeleteAllOnTrashError
             \/ MoreToCome /\ m_DeleteAllOnTrashError' = TRUE
          /\ UNCHANGED <<m_SkipAll, m_LockedItemBehaviour>>
    /\ Push(entry.item, "Permanent")
    /\ frames' = IF IsDir(entry.item) THEN <<Frame(entry.item)>> ELSE <<>>
    /\ Done
    /\ UNCHANGED <<m_IsStopped, disk, unlocking, skipped, late>>

\* OnLockedItem() with the answers Skip and Stop.
LockedItem ==
    /\ pc = "remove" /\ entry.item \in locked \cap Present
    /\ \/ /\ m_LockedItemBehaviour = "SkipAll"
          /\ UNCHANGED <<m_IsStopped, sticky>>
       \/ /\ m_LockedItemBehaviour \in {"Stop", "Ask"}
          /\ Stop
          /\ UNCHANGED m_LockedItemBehaviour
       \/ /\ m_LockedItemBehaviour = "Ask" /\ setup.interactive
          /\ \/ UNCHANGED m_LockedItemBehaviour
             \/ MoreToCome /\ m_LockedItemBehaviour' = "SkipAll"
          /\ UNCHANGED <<m_IsStopped, forAll>>
    /\ skipped' = skipped \cup {entry.item}
    /\ Done
    /\ UNCHANGED <<m_Script, frames, disk, agreed, unlocking, late>>

\* Mutant: the answer to one question is stored as the behaviour.
UnlockItemAsAnswered ==
    /\ pc = "remove" /\ entry.item \in locked \cap Present
    /\ \/ /\ m_LockedItemBehaviour = "UnlockAll"
          /\ UNCHANGED <<m_LockedItemBehaviour, unlocking>>
       \/ /\ m_LockedItemBehaviour = "Ask" /\ setup.interactive
          /\ unlocking' = unlocking \cup {entry.item}
          /\ \/ UNCHANGED m_LockedItemBehaviour
             \/ MoreToCome /\ m_LockedItemBehaviour' = "Unlock"
    /\ locked' = locked \ {entry.item}
    /\ UNCHANGED <<setup, pc, script, m_IsStopped, m_SkipAll, m_DeleteAllOnTrashError, erased,
                   trashed, agreed, skipped, relisted, late>>

\* Mutant: a case of the switch falls through to the next.
UnlockItemFallingThrough ==
    /\ pc = "remove" /\ entry.item \in locked \cap Present
    /\ \/ /\ m_LockedItemBehaviour \in {"SkipAll", "UnlockAll"}
          /\ UNCHANGED <<m_LockedItemBehaviour, unlocking>>
       \/ /\ m_LockedItemBehaviour = "Ask" /\ setup.interactive
          /\ unlocking' = unlocking \cup {entry.item}
          /\ \/ UNCHANGED m_LockedItemBehaviour
             \/ MoreToCome /\ m_LockedItemBehaviour' = "UnlockAll"
    /\ locked' = locked \ {entry.item}
    /\ UNCHANGED <<setup, pc, script, m_IsStopped, m_SkipAll, m_DeleteAllOnTrashError, erased,
                   trashed, agreed, skipped, relisted, late>>

\* OnLockedItem() with the answer Unlock; DoUnlock() succeeds, and the loop goes on.
UnlockItem ==
    /\ pc = "remove" /\ entry.item \in locked \cap Present
    /\ \/ /\ m_LockedItemBehaviour = "UnlockAll"
          /\ UNCHANGED <<m_LockedItemBehaviour, unlocking>>
       \/ /\ m_LockedItemBehaviour = "Ask" /\ setup.interactive
          /\ unlocking' = unlocking \cup {entry.item}
          /\ \/ UNCHANGED m_LockedItemBehaviour
             \/ MoreToCome /\ m_LockedItemBehaviour' = "UnlockAll"
    /\ locked' = locked \ {entry.item}
    /\ UNCHANGED <<setup, pc, script, m_IsStopped, m_SkipAll, m_DeleteAllOnTrashError, erased,
                   trashed, agreed, skipped, relisted, late>>

\* OnLockedItem() with the answer Unlock, for all items or this one; DoUnlock() fails:
\* OnUnlockError().
UnlockError ==
    /\ pc = "remove" /\ entry.item \in locked \cap Present
    /\ \/ m_LockedItemBehaviour = "UnlockAll" /\ UNCHANGED m_LockedItemBehaviour
       \/ /\ m_LockedItemBehaviour = "Ask" /\ setup.interactive
          /\ \/ UNCHANGED m_LockedItemBehaviour
             \/ MoreToCome /\ m_LockedItemBehaviour' = "UnlockAll"
    /\ Skip \/ Abort
    /\ skipped' = skipped \cup {entry.item}
    /\ Done
    /\ UNCHANGED <<m_Script, frames, disk, agreed, unlocking, late>>

\* The user stops the operation.
UserStop ==
    /\ pc # "over" /\ ~m_IsStopped
    /\ m_IsStopped' = TRUE
    /\ UNCHANGED <<setup, pc, script, sticky, disk, history>>

Scan == ScanItem \/ ReadDir \/ ScanEntry \/ ScanReturn
Delete ==
    \/ NextEntry \/ RemoveItem \/ Trash \/ RemoveError \/ TrashError \/ DeletePermanently
    \/ LockedItem \/ UnlockItem \/ UnlockError

Next == Scan \/ Delete \/ UserStop

Spec == Init /\ [][Next]_vars

-----------------------------------------------------------------------------
(* Properties.                                                             *)

Selected == ToSet(setup.m_SourceItems)

\* Whether an item was selected, or is in a directory that was.
InSelection(i) == Up[i] \cap Selected # {}

\* Nothing but the selection is removed: the job never goes through a symbolic link,
\* whatever is deleted instead of being moved to the trash.
OnlySelection == \A i \in erased \cup trashed : InSelection(i)

\* In a job that moves to the trash, an item is deleted for good only after the user
\* agreed to it, for the item, for a directory it is in, or for all.
ErasedByConsent ==
    setup.m_Type = "Trash" =>
        \A i \in erased : m_DeleteAllOnTrashError \/ Up[i] \cap agreed # {}

\* What is missing at the end of a job that ran to its end was given up, by itself, by
\* the directory it is in, or because of something in it: nothing is forgotten.
NothingForgotten ==
    pc = "over" /\ ~m_IsStopped =>
        \A i \in Present : InSelection(i) =>
            \E j \in skipped : i \in Up[j] \/ j \in Up[i]

\* After a stop the job removes the item it is at and no other one.
StopsSoon == late <= 1

\* An item that was locked when the job began is deleted for good only if the user, or
\* the options of the job, told to unlock it; an answer that applies to all included.
UnlockedByConsent ==
    \A i \in setup.locked \cap erased :
        i \in unlocking \/ m_LockedItemBehaviour = "UnlockAll"

=============================================================================
