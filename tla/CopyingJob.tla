----------------------------- MODULE CopyingJob -----------------------------
(***************************************************************************)
(* ops::CopyingJob (Operations/source/Copying/CopyingJob.cpp): copying or  *)
(* moving a selection of files and directories into a directory, by        *)
(* copying, or by renaming when both ends are on one volume or host.       *)
(*                                                                         *)
(* The selection is a tree of items, numbered in the order they are        *)
(* scanned in.  A name is a path at the destination; items of different    *)
(* directories may compose the same name.  A file is known by the contents *)
(* it holds: i, the content of item i, or -n, that of somebody else's file *)
(* first seen at name n.  Any system call may fail; the user's answer is   *)
(* any that is offered, "Retry" being a stutter.  Meanwhile the user may   *)
(* stop the job and another program may create a file.                     *)
(***************************************************************************)
EXTENDS Integers, Sequences, SequencesExt, FiniteSets

CONSTANTS
    N,             \* how many items the selection has
    Parent,        \* the directory an item is in; 0 for the items selected themselves
    Directories,   \* the items that are directories; the others are regular files
    Slot,          \* the number of the name an item composes
    Setups,        \* the kinds of jobs, see SetupsAssumption
    MaxExternals   \* bound: how many files another program creates meanwhile

Items == 1..N
Files == Items \ Directories

ASSUME TreeAssumption ==
    /\ N \in Nat \ {0}
    /\ Directories \subseteq Items
    /\ Parent \in [Items -> 0..N]
    /\ \A i \in Items : Parent[i] < i /\ Parent[i] \in Directories \cup {0}

ASSUME SlotAssumption ==
    /\ Slot \in [Items -> Items]
    /\ \A i, j \in Items : Slot[i] = Slot[j] =>
           \/ Parent[i] = 0 /\ Parent[j] = 0
           \/ Parent[i] # 0 /\ Parent[j] # 0 /\ Slot[Parent[i]] = Slot[Parent[j]]

ASSUME SetupsAssumption ==
    Setups \subseteq [docopy    : BOOLEAN,   \* m_Options.docopy
                      verify    : BOOLEAN,   \* checksums are verified
                      samehost  : BOOLEAN,   \* one native volume, or one VFS host
                      native    : BOOLEAN,   \* m_IsDestinationHostNative
                      recursive : BOOLEAN,   \* the source's RemoveDirectory() is recursive
                      deferred  : BOOLEAN]   \* a VFS that stores a file when it is closed

ASSUME MaxExternalsAssumption == MaxExternals \in Nat

\* The name that FindNonExistingItemPath() finds for an item, e.g. "name 2".
Alternative(i) == N + i

Slots == {Slot[i] : i \in Items}
Names == Slots \cup {Alternative(i) : i \in Files}
Contents == Files \cup {-n : n \in Names}

VARIABLES
    setup,
    pc,
    item,                    \* the item being scanned or processed
    m_SourceItems,           \* the items scanned
    entered,                 \* the directories scanned into
    target,                  \* destination_path
    mode,                    \* how the destination file is opened
    src,                     \* whether an item is at its source
    dst,                     \* what each name is at the destination
    m_SourceItemsToDelete,
    m_Checksums,             \* pairs of an item and a name
    m_IsStopped,
    externals,               \* how many files another program has created
    others,                  \* history: contents at the destination that are not the job's
    sacrificed,              \* history: contents the user agreed to overwrite
    kept,                    \* history: contents for which the user chose KeepBoth
    skipped                  \* history: the items the job gave up on

scanned == <<m_SourceItems, entered>>
marked == <<m_SourceItemsToDelete, m_Checksums>>
answers == <<sacrificed, kept>>
environment == <<setup, externals, others>>
vars == <<setup, pc, item, scanned, target, mode, src, dst, marked, m_IsStopped,
          externals, others, answers, skipped>>

Nothing == [kind |-> "none", holds |-> {}]
Directory == [kind |-> "dir", holds |-> {}]
File(contents) == [kind |-> "file", holds |-> contents]
Torn == [kind |-> "torn", holds |-> {}]                        \* being written
Appending(contents) == [kind |-> "appending", holds |-> contents]  \* being appended to
FileKinds == {"file", "torn", "appending"}

TypeOK ==
    /\ setup \in Setups
    /\ pc \in {"prepare", "scan", "process", "ask", "open", "write", "rename", "next",
               "verify", "clean", "over"}
    /\ item \in 0..N + 1
    /\ m_SourceItems \subseteq Items /\ entered \subseteq m_SourceItems \cap Directories
    /\ target \in Names
    /\ mode \in {"new", "overwrite", "append"}
    /\ src \in [Items -> BOOLEAN]
    /\ dst \in [Names -> [kind : {"none", "dir"} \cup FileKinds, holds : SUBSET Contents]]
    /\ m_SourceItemsToDelete \in Seq(m_SourceItems)
    /\ m_Checksums \subseteq (m_SourceItems \cap Files) \X Names
    /\ m_IsStopped \in BOOLEAN
    /\ externals \in 0..MaxExternals
    /\ others \subseteq {-n : n \in Names}
    /\ sacrificed \subseteq Contents /\ kept \subseteq Contents
    /\ skipped \subseteq Items

\* The name of the directory a name is in; 0 for the destination directory itself.
Above(n) ==
    LET i == CHOOSE j \in Items : n \in {Slot[j], Alternative(j)}
    IN  IF Parent[i] = 0 THEN 0 ELSE Slot[Parent[i]]

ParentThere(n) == Above(n) # 0 => dst[Above(n)].kind = "dir"

\* Item i and what is below it.
Subtree(i) ==
    LET ancestors[j \in 0..N] == IF j = 0 THEN {} ELSE {j} \cup ancestors[Parent[j]]
    IN  {j \in Items : i \in ancestors[j]}

\* Nothing, a directory or somebody's file may be at the names the items compose.
Init ==
    /\ setup \in Setups
    /\ pc = "prepare"
    /\ item = 1
    /\ m_SourceItems = {} /\ entered = {}
    /\ target = Slot[1]
    /\ mode = "new"
    /\ src = [i \in Items |-> TRUE]
    /\ dst \in {d \in [Names -> {Nothing, Directory} \cup {File({-n}) : n \in Slots}] :
                   \A n \in Names :
                       /\ d[n] # Nothing =>
                              n \in Slots /\ (Above(n) = 0 \/ d[Above(n)] = Directory)
                       /\ d[n].kind = "file" => d[n] = File({-n})}
    /\ m_SourceItemsToDelete = <<>> /\ m_Checksums = {}
    /\ m_IsStopped = FALSE
    /\ externals = 0
    /\ others = UNION {dst[n].holds : n \in Names}
    /\ sacrificed = {} /\ kept = {}
    /\ skipped = {}

Renaming == ~setup.docopy /\ setup.samehost

\* Step results.  An error is put to the user, who skips the item or stops the job.
Ok == pc' = "next" /\ UNCHANGED <<m_IsStopped, skipped>>
Skipped == pc' = "next" /\ skipped' = skipped \cup {item} /\ UNCHANGED m_IsStopped
Stopped == pc' = "over" /\ m_IsStopped' = TRUE /\ UNCHANGED skipped
Error == Skipped \/ Stopped

-----------------------------------------------------------------------------
(* Perform(): the destination directory, the scan, the first item.         *)

\* AnalyzeInitialDestination() and BuildDestinationDirectory(), "all or nothing".
Prepare ==
    /\ pc = "prepare"
    /\ \/ pc' = "scan" /\ UNCHANGED <<m_IsStopped, skipped>>
       \/ Stopped
    /\ UNCHANGED <<environment, item, scanned, target, mode, src, dst, marked, answers>>

\* A directory that will be renamed as a whole is not scanned.
GoInside(i) == ~Renaming \/ dst[Slot[i]].kind # "none"

\* An error below the directories selected themselves is swallowed by the recursion,
\* whatever the user answered; one of theirs stops the job, even when it was a Skip.
\* A retry finds dir_ents empty: every host that fails to list a directory does so before
\* it calls back for an entry.
ScanError ==
    IF Parent[item] # 0
      THEN skipped' = skipped \cup {item} /\ UNCHANGED <<pc, m_IsStopped>>
      ELSE Stopped

ScanSourceItem ==
    /\ pc = "scan"
    /\ item <= N
    /\ item' = item + 1
    /\ IF Parent[item] \notin entered \cup {0}
         THEN UNCHANGED <<pc, scanned, m_IsStopped, skipped>>
       ELSE IF m_IsStopped
         THEN /\ IF Parent[item] = 0 \/ Parent[Parent[item]] = 0
                   THEN pc' = "over" ELSE UNCHANGED pc
              /\ UNCHANGED <<scanned, m_IsStopped, skipped>>
       ELSE \/ ScanError /\ UNCHANGED scanned
            \/ /\ m_SourceItems' = m_SourceItems \cup {item}
               /\ \/ /\ item \in Directories /\ GoInside(item)
                     /\ entered' = entered \cup {item}
                     /\ UNCHANGED <<pc, m_IsStopped, skipped>>
                  \/ /\ item \in Directories /\ GoInside(item)
                     /\ ScanError
                     /\ UNCHANGED entered
                  \/ /\ item \in Files \/ ~GoInside(item)
                     /\ UNCHANGED <<pc, entered, m_IsStopped, skipped>>
    /\ UNCHANGED <<environment, target, mode, src, dst, marked, answers>>

\* The loop over the items scanned, after item i.
Proceed(i) ==
    LET rest == {j \in m_SourceItems : j > i}
    IN  IF rest = {}
          THEN pc' = "verify" /\ UNCHANGED <<item, target>>
          ELSE /\ pc' = "process"
               /\ item' = CHOOSE j \in rest : \A k \in rest : j <= k
               /\ target' = Slot[item']

ScanEnd ==
    /\ pc = "scan"
    /\ item > N
    /\ Proceed(0)
    /\ UNCHANGED <<environment, scanned, mode, src, dst, marked, m_IsStopped, answers, skipped>>

NextItem ==
    /\ pc = "next"
    /\ IF m_IsStopped THEN pc' = "over" /\ UNCHANGED <<item, target>> ELSE Proceed(item)
    /\ UNCHANGED <<environment, scanned, mode, src, dst, marked, m_IsStopped, answers, skipped>>

-----------------------------------------------------------------------------
(* Directories.                                                            *)

\* Mutant: directories are not marked for deletion.
MarkFiles ==
    IF item \in Files
      THEN m_SourceItemsToDelete' = Append(m_SourceItemsToDelete, item)
      ELSE UNCHANGED m_SourceItemsToDelete

\* Mark the item for deletion from the source.
Mark == m_SourceItemsToDelete' = Append(m_SourceItemsToDelete, item)

MarkIfMoving == IF setup.docopy THEN UNCHANGED m_SourceItemsToDelete ELSE Mark

\* An existing entry is taken for the directory, even when it is a file.
CopyDirectory ==
    /\ pc = "process"
    /\ item \in Directories /\ ~Renaming
    /\ \/ dst[target].kind # "none" /\ Ok /\ MarkIfMoving /\ UNCHANGED dst
       \/ /\ dst[target].kind = "none" /\ ParentThere(target)
          /\ dst' = [dst EXCEPT ![target] = Directory]
          /\ Ok /\ MarkIfMoving
       \/ /\ dst[target].kind = "none" \/ ~setup.native
          /\ Error
          /\ UNCHANGED <<dst, m_SourceItemsToDelete>>
    /\ UNCHANGED <<environment, item, scanned, target, mode, src, m_Checksums, answers>>

\* The destination exists.  A file is replaced with a directory when the user agrees;
\* the source directory is to be deleted once its items have been moved.  A source or a
\* destination that cannot be opened in the end makes an "Ok" that does not mark the item.
RenameDirectory ==
    /\ pc = "process"
    /\ item \in Directories /\ Renaming
    /\ dst[target].kind # "none"
    /\ \/ Error /\ UNCHANGED <<dst, m_SourceItemsToDelete, sacrificed>>
       \/ /\ sacrificed' = sacrificed \cup dst[target].holds
          /\ dst' = [dst EXCEPT ![target] = Directory]
          /\ Ok /\ Mark
       \/ /\ dst[target].kind # "dir"   \* removed, and a step after that fails
          /\ sacrificed' = sacrificed \cup dst[target].holds
          /\ \E node \in {Nothing, Directory} : dst' = [dst EXCEPT ![target] = node]
          /\ Error
          /\ UNCHANGED m_SourceItemsToDelete
    /\ UNCHANGED <<environment, item, scanned, target, mode, src, m_Checksums, kept>>

-----------------------------------------------------------------------------
(* Files, and the renaming of both.                                        *)

\* stat() of the destination.
StatDestination ==
    /\ pc = "process"
    /\ \/ item \in Files
       \/ item \in Directories /\ Renaming /\ dst[target].kind = "none"
    /\ \/ /\ src[item]
          /\ pc' = IF dst[target].kind # "none" THEN "ask"
                   ELSE IF Renaming THEN "rename" ELSE "open"
          /\ mode' = "new"
          /\ UNCHANGED <<m_IsStopped, skipped>>
       \/ Error /\ UNCHANGED mode
    /\ UNCHANGED <<environment, item, scanned, target, src, dst, marked, answers>>

\* Mutant: the path is assigned even when the search was cancelled.
NonexistentPathOrNone == IF m_IsStopped THEN 0 ELSE Alternative(item)

\* FindNonExistingItemPath() gives up when the job is stopped; the path stays.
NonexistentPath == IF m_IsStopped THEN target ELSE Alternative(item)

\* The destination exists: "OverwriteOld" is either an Overwrite or a Skip.
AnswerExists ==
    /\ pc = "ask"
    /\ \/ Error /\ UNCHANGED <<target, mode, answers>>
       \/ /\ pc' = IF Renaming THEN "rename" ELSE "open"
          /\ \/ /\ mode' = "overwrite"
                /\ sacrificed' = sacrificed \cup dst[target].holds
                /\ UNCHANGED <<target, kept>>
             \/ /\ ~Renaming
                /\ mode' = "append"
                /\ UNCHANGED <<target, answers>>
             \/ /\ mode' = "new"
                /\ kept' = kept \cup dst[target].holds
                /\ target' = NonexistentPath
                /\ UNCHANGED sacrificed
          /\ UNCHANGED <<m_IsStopped, skipped>>
    /\ UNCHANGED <<environment, item, scanned, src, dst, marked>>

\* Mutant: a new file is created without O_EXCL.
CanOpenShared ==
    IF mode = "new"
      THEN dst[target].kind # "dir" /\ ParentThere(target)
      ELSE dst[target].kind \in FileKinds

\* A new file: O_CREAT | O_EXCL on a native file system, OF_Create elsewhere.
CanOpen ==
    IF mode = "new"
      THEN /\ dst[target].kind \in {"none"} \cup (IF setup.native THEN {} ELSE FileKinds)
           /\ ParentThere(target)
      ELSE dst[target].kind \in FileKinds

OpenDestination ==
    /\ pc = "open"
    /\ \/ /\ CanOpen
          /\ dst' = [dst EXCEPT ![target] = IF mode = "append" THEN Appending(@.holds) ELSE Torn]
          /\ pc' = "write"
          /\ UNCHANGED <<m_IsStopped, skipped>>
       \/ Error /\ UNCHANGED dst
    /\ UNCHANGED <<environment, item, scanned, target, mode, src, marked, answers>>

\* Mutant: an unfinished file stays where it is.
CleanedNot(node) == node

\* clean_destination: an unfinished file is unlinked (whether that works is not looked
\* at; here it does); what was appended is cut off again where the destination is native.
Cleaned(node) ==
    IF mode # "append" THEN Nothing
    ELSE IF setup.native THEN File(node.holds)
    ELSE node

\* The checksum is kept once any data was read, whatever becomes of the copy.
AddChecksum == m_Checksums' = m_Checksums \cup (IF setup.verify THEN {<<item, target>>} ELSE {})

\* The reading and writing loop; a corrupt copy is one that verification is for.  What
\* Close() returns is ignored on a VFS, even when it could not store the file.
WriteDestination ==
    /\ pc = "write"
    /\ \/ /\ \/ dst' = [dst EXCEPT ![target] = File(@.holds \cup {item})]
             \/ setup.verify /\ dst' = [dst EXCEPT ![target] = File(@.holds)]
             \/ /\ setup.deferred /\ ~setup.native
                /\ dst' = [dst EXCEPT ![target] =
                            IF mode = "append" THEN File(@.holds) ELSE Nothing]
          /\ AddChecksum
          /\ MarkIfMoving
          /\ Ok
       \/ /\ dst' = [dst EXCEPT ![target] = Cleaned(@)]
          /\ AddChecksum \/ UNCHANGED m_Checksums
          /\ UNCHANGED m_SourceItemsToDelete
          /\ Error
    /\ UNCHANGED <<environment, item, scanned, target, mode, src, answers>>

\* What is at a name after item i was renamed to its target.
Renamed(i, n) ==
    IF n = target THEN IF i \in Files THEN File({i}) ELSE Directory
    ELSE IF \E j \in Subtree(i) \ {i} : src[j] /\ Slot[j] = n
    THEN LET j == CHOOSE k \in Subtree(i) \ {i} : src[k] /\ Slot[k] = n
         IN  IF j \in Files THEN File({j}) ELSE Directory
    ELSE dst[n]

\* rename(): a file replaces whatever file is there, a directory moves as a whole.
Rename ==
    /\ pc = "rename"
    /\ \/ /\ ParentThere(target)
          /\ dst[target].kind \in {"none"} \cup (IF item \in Files THEN FileKinds ELSE {})
          /\ dst' = [n \in Names |-> Renamed(item, n)]
          /\ src' = [i \in Items |-> src[i] /\ i \notin Subtree(item)]
          /\ Ok
       \/ Error /\ UNCHANGED <<src, dst>>
    /\ UNCHANGED <<environment, item, scanned, target, mode, marked, answers>>

-----------------------------------------------------------------------------
(* The end of ProcessItems().                                              *)

AllMatch == \A c \in m_Checksums : dst[c[2]] = File({c[1]})

\* Mutant: the sources are deleted in any case.
VerifyInVain ==
    /\ pc = "verify"
    /\ pc' = IF m_IsStopped THEN "over" ELSE "clean"
    /\ UNCHANGED <<environment, item, scanned, target, mode, src, dst, marked, m_IsStopped,
                   answers, skipped>>

\* VerifyCopiedFile() for every checksum; a file that cannot be read does not match.
Verify ==
    /\ pc = "verify"
    /\ \/ /\ AllMatch
          /\ pc' = IF m_IsStopped THEN "over" ELSE "clean"
          /\ UNCHANGED skipped
       \/ /\ m_Checksums # {}
          /\ pc' = "over"
          /\ skipped' = skipped \cup {c[1] : c \in m_Checksums}
    /\ UNCHANGED <<environment, item, scanned, target, mode, src, dst, marked, m_IsStopped,
                   answers>>

\* What RemoveDirectory() or Unlink() removes.
Removed(i) == IF setup.recursive THEN Subtree(i) ELSE {i}

\* ClearSourceItem(), for the items in the reverse of the order they were marked in.
ClearSourceItem ==
    LET i == Last(m_SourceItemsToDelete)
    IN  /\ pc = "clean"
        /\ m_SourceItemsToDelete # <<>>
        /\ m_SourceItemsToDelete' = Front(m_SourceItemsToDelete)
        /\ \/ /\ \A j \in Subtree(i) : src[j] => j \in Removed(i)
              /\ src' = [j \in Items |-> src[j] /\ j \notin Removed(i)]
              /\ UNCHANGED <<m_IsStopped, skipped>>
           \/ UNCHANGED <<src, m_IsStopped>> /\ skipped' = skipped \cup {i}
           \/ UNCHANGED <<src, skipped>> /\ m_IsStopped' = TRUE
        /\ pc' = IF m_IsStopped' THEN "over" ELSE "clean"
        /\ UNCHANGED <<environment, item, scanned, target, mode, dst, m_Checksums, answers>>

ClearedSourceItems ==
    /\ pc = "clean"
    /\ m_SourceItemsToDelete = <<>>
    /\ pc' = "over"
    /\ UNCHANGED <<environment, item, scanned, target, mode, src, dst, marked, m_IsStopped,
                   answers, skipped>>

-----------------------------------------------------------------------------
(* The environment.                                                        *)

UserStop ==
    /\ pc # "over"
    /\ ~m_IsStopped
    /\ m_IsStopped' = TRUE
    /\ UNCHANGED <<environment, pc, item, scanned, target, mode, src, dst, marked, answers,
                   skipped>>

\* Another program creates a file at a name the job uses or is about to use.
ExternalCreate(n) ==
    /\ pc # "over"
    /\ externals < MaxExternals
    /\ dst[n].kind = "none" /\ ParentThere(n)
    /\ -n \notin others
    /\ dst' = [dst EXCEPT ![n] = File({-n})]
    /\ others' = others \cup {-n}
    /\ externals' = externals + 1
    /\ UNCHANGED <<setup, pc, item, scanned, target, mode, src, marked, m_IsStopped, answers,
                   skipped>>

Job ==
    \/ Prepare \/ ScanSourceItem \/ ScanEnd \/ NextItem
    \/ CopyDirectory \/ RenameDirectory
    \/ StatDestination \/ AnswerExists \/ OpenDestination \/ WriteDestination \/ Rename
    \/ Verify \/ ClearSourceItem \/ ClearedSourceItems

Next ==
    \/ Job
    \/ UserStop
    \/ \E n \in Slots \cup {target} : ExternalCreate(n)

Spec == Init /\ [][Next]_vars

-----------------------------------------------------------------------------
(* Properties.                                                             *)

\* The entries of a directory that may be renamed as a whole compose different names: both
\* ends tell names apart alike.
EntriesApart ==
    (\E s \in Setups : ~s.docopy /\ s.samehost) =>
        \A i, j \in Items : Parent[i] = Parent[j] /\ Parent[i] # 0 /\ Slot[i] = Slot[j] => i = j

\* The jobs from hosts whose RemoveDirectory() fails on a directory that is not empty, to
\* hosts that store what is written to them at once, or whose files are verified.
InScope(s) == ~s.recursive /\ (s.deferred => s.native \/ s.verify)
SetupsInScope == \A s \in Setups : InScope(s)

Held == UNION {dst[n].holds : n \in Names}

\* The content of every file selected is at its source or at the destination, unless
\* the user agreed to have it overwritten there, at every moment of the job: whatever
\* fails, is skipped, stopped or corrupted.  The exception is the content that
\* KeepBoth was to protect in a job that was being stopped while a free name was searched.
\* "be sure to all it only if ALL previous steps wre OK" (ProcessItems, of deleting
\* the sources): jobs on two kinds of hosts break that, those that are not InScope().
SourcesNotLost ==
    \A i \in Files :
        \/ src[i]
        \/ i \in Held \cup sacrificed
        \/ m_IsStopped /\ i \in kept

\* A job that copies to a native file system destroys no content it found there, or
\* that another program put there meanwhile, unless the user agreed to overwrite it.
DestinationsNotLost ==
    setup.native /\ ~Renaming => others \subseteq Held \cup sacrificed

\* No unfinished file is left behind by an item that fails or is stopped.  What was
\* appended to an existing file is cut off again only on a native file system.
NoTornFiles ==
    \A n \in Names :
        \/ pc = "write" /\ n = target
        \/ dst[n].kind # "torn" /\ (setup.native => dst[n].kind # "appending")

\* A job that came to its end, was not stopped and gave up on nothing has brought every
\* content to the destination, and a move has left nothing at the source.
CompleteMove ==
    pc = "over" /\ ~m_IsStopped /\ skipped = {} =>
        /\ Files \subseteq Held \cup sacrificed
        /\ ~setup.docopy => \A i \in Items : ~src[i]

=============================================================================
