-------------------------- MODULE CopyingJobProofs --------------------------
(***************************************************************************)
(* Theorems about CopyingJob, for any tree of items, names they compose,   *)
(* kinds of jobs, failures and answers of the user: its type invariant,    *)
(* that the job leaves no unfinished file behind and destroys no content   *)
(* at the destination without consent; and, for the jobs in scope, that no *)
(* content of the selection is lost, and that a move that gave up on       *)
(* nothing is complete.                                                    *)
(***************************************************************************)
EXTENDS CopyingJob, SequenceFacts

\* The types, and where the job is in its list of items.
PositionInv ==
    /\ pc \in {"prepare", "scan"} =>
           /\ item \in 1..N + 1
           /\ m_SourceItemsToDelete = <<>> /\ m_Checksums = {}
    /\ pc \in {"process", "ask", "open", "write", "rename", "next"} => item \in m_SourceItems
    /\ pc \in {"ask", "open", "write"} => item \in Files
    /\ pc \in {"open", "write"} => ~Renaming
    /\ pc = "rename" => Renaming /\ mode # "append"
    /\ pc \in {"ask", "open", "write", "rename"} => src[item]

\* Only files hold contents.
HoldsInv == \A n \in Names : dst[n].kind \in {"none", "dir", "torn"} => dst[n].holds = {}

\* What is at the target when the destination is about to be opened, and while it is written.
OpenInv ==
    /\ pc = "ask" => dst[target].kind # "none"
    /\ pc \in {"open", "rename"} /\ mode = "overwrite" =>
           dst[target].kind # "none" /\ dst[target].holds \subseteq sacrificed
    /\ pc = "write" => dst[target].kind = IF mode = "append" THEN "appending" ELSE "torn"

\* The name the item is brought to.
TargetInv ==
    /\ pc \in {"process", "ask", "open", "write", "rename"} =>
           \/ target = Slot[item]
           \/ pc \notin {"process", "ask"} /\ item \in Files /\ target = Alternative(item)

\* The other name that was found for a file is used for no other file.
AlternativeInv ==
    \A i \in Files : dst[Alternative(i)].holds \cap Files \subseteq {i}

\* A content of the selection that is safe without its source.
Safe(i) ==
    \/ i \in Held \cup sacrificed
    \/ m_IsStopped /\ i \in kept

\* A new file takes the place of no content but those KeepBoth could not protect.
NewInv ==
    pc \in {"open", "rename"} /\ mode = "new" =>
        \A i \in dst[target].holds \cap Files : i = item \/ (m_IsStopped /\ i \in kept)

\* What is in a directory is there only with the directory, at both ends.
SourceTreeInv == \A i \in Items : src[i] /\ Parent[i] # 0 => src[Parent[i]]
DestinationTreeInv == \A n \in Names : dst[n].kind # "none" => ParentThere(n)

\* The items marked for deletion are behind the one being processed.
MarkedBehind ==
    \A i \in ToSet(m_SourceItemsToDelete) :
        /\ i <= item
        /\ pc \in {"process", "ask", "open", "write", "rename"} => i < item

Summed(i) == \E n \in Names : <<i, n>> \in m_Checksums

\* The files marked for deletion need their sources no more, or will be verified.
MarkedSafe ==
    \A i \in ToSet(m_SourceItemsToDelete) \cap Files :
        IF setup.verify /\ pc # "clean" THEN Summed(i) \/ pc = "over" ELSE Safe(i)

Done(i) ==
    /\ i \in m_SourceItems
    /\ \/ i < item
       \/ i = item /\ pc = "next"
       \/ pc \in {"verify", "clean", "over"}

\* The scan came by item i, and went into it.
Reached(i) ==
    /\ Parent[i] = 0 \/ ~Renaming => i \in m_SourceItems
    /\ ~Renaming /\ i \in Directories => i \in entered

\* Item i was moved, or will be deleted at the source; its copy is there, or is verified.
Accounted(i) ==
    IF setup.docopy
      THEN i \in Files =>
               IF setup.verify /\ pc \notin {"clean", "over"} THEN Summed(i) ELSE Safe(i)
      ELSE ~src[i] \/ i \in ToSet(m_SourceItemsToDelete)

\* A job that has given up on nothing has dealt with all the items before this one.
AccountInv ==
    ~m_IsStopped /\ skipped = {} =>
        /\ \A i \in Items : i < item \/ pc \notin {"prepare", "scan"} => Reached(i)
        /\ pc \notin {"prepare", "scan"} => \A i \in Items : Done(i) => Accounted(i)
        /\ pc = "over" => m_SourceItemsToDelete = <<>>

-----------------------------------------------------------------------------
(* Constants and nodes.                                                    *)

LEMMA ConstantFacts ==
  /\ N \in Nat \ {0} /\ Items = 1..N /\ Files \subseteq Items /\ Directories \subseteq Items
  /\ \A i \in Items : /\ Slot[i] \in Slots /\ Slot[i] \in Items
                      /\ Parent[i] \in 0..N /\ Parent[i] < i
                      /\ Parent[i] # 0 => Parent[i] \in Directories
                      /\ i \in Directories \/ i \in Files
  /\ \A i \in Files : i \notin Directories /\ Alternative(i) \in Names /\ i \in Contents
  /\ Slots \subseteq Names /\ Slots \subseteq Items /\ Names \subseteq Nat \ {0}
  <1>1. N \in Nat \ {0} /\ Items = 1..N /\ Files \subseteq Items /\ Directories \subseteq Items
    BY TreeAssumption DEF Items, Files
  <1>2. ASSUME NEW i \in Items
        PROVE  /\ Slot[i] \in Slots /\ Slot[i] \in Items
               /\ Parent[i] \in 0..N /\ Parent[i] < i
               /\ Parent[i] # 0 => Parent[i] \in Directories
               /\ i \in Directories \/ i \in Files
    BY TreeAssumption, SlotAssumption DEF Files, Slots
  <1>3. Slots \subseteq Names /\ Slots \subseteq Items
    BY <1>2 DEF Slots, Names
  <1>4. ASSUME NEW i \in Files
        PROVE  /\ i \notin Directories /\ Alternative(i) \in Names /\ i \in Contents
               /\ Alternative(i) \in Nat \ {0}
    BY <1>1 DEF Files, Names, Contents, Alternative
  <1>5. Names \subseteq Nat \ {0}
    <2>1. \A n \in Items : n \in Nat \ {0}
      BY <1>1
    <2> QED
      BY <1>3, <1>4, <2>1 DEF Names
  <1> QED
    BY <1>1, <1>2, <1>3, <1>4, <1>5

Nodes == [kind : {"none", "dir"} \cup FileKinds, holds : SUBSET Contents]

LEMMA NodeFacts ==
  /\ Nothing \in Nodes /\ Nothing.kind = "none" /\ Nothing.holds = {}
  /\ Directory \in Nodes /\ Directory.kind = "dir" /\ Directory.holds = {}
  /\ Torn \in Nodes /\ Torn.kind = "torn" /\ Torn.holds = {}
  /\ \A h \in SUBSET Contents :
         /\ File(h) \in Nodes /\ File(h).kind = "file" /\ File(h).holds = h
         /\ Appending(h) \in Nodes /\ Appending(h).kind = "appending" /\ Appending(h).holds = h
  /\ \A d \in Nodes : /\ d.holds \in SUBSET Contents
                      /\ d.kind \in {"none", "dir", "file", "torn", "appending"}
  BY DEF Nodes, Nothing, Directory, Torn, File, Appending, FileKinds

\* One name is given another node.
LEMMA Put ==
  ASSUME NEW n \in Names, NEW node \in Nodes, dst \in [Names -> Nodes],
         dst' = [dst EXCEPT ![n] = node]
  PROVE  /\ dst' \in [Names -> Nodes]
         /\ dst'[n] = node
         /\ \A m \in Names : m # n => dst'[m] = dst[m]
  OBVIOUS

-----------------------------------------------------------------------------
(* Types and positions.                                                    *)

Typed == TypeOK /\ PositionInv

\* What is at the destination after a step.
LEMMA NodesKept ==
  ASSUME Typed, [Next]_vars
  PROVE  dst' \in [Names -> Nodes]
  <1> USE DEF Typed
  <1>1. dst \in [Names -> Nodes] /\ target \in Names
    BY DEF TypeOK, Nodes
  <1>2. CASE UNCHANGED dst
    BY <1>1, <1>2
  <1>3. CASE CopyDirectory
    BY <1>1, <1>3, NodeFacts DEF CopyDirectory
  <1>4. CASE RenameDirectory
    BY <1>1, <1>4, NodeFacts DEF RenameDirectory
  <1>5. CASE OpenDestination
    BY <1>1, <1>5, NodeFacts DEF OpenDestination
  <1>6. CASE WriteDestination
    <2>1. item \in Contents
      BY <1>6, ConstantFacts DEF PositionInv, WriteDestination
    <2>2. /\ dst[target] \in Nodes /\ File(dst[target].holds) \in Nodes
          /\ File(dst[target].holds \cup {item}) \in Nodes
      BY <1>1, <2>1, NodeFacts
    <2>3. Cleaned(dst[target]) \in Nodes /\ Nothing \in Nodes
      BY <2>2, NodeFacts DEF Cleaned
    <2> QED
      BY <1>1, <1>6, <2>2, <2>3 DEF WriteDestination
  <1>7. CASE Rename
    <2>1. ASSUME NEW i \in Items, NEW n \in Names
          PROVE  Renamed(i, n) \in Nodes
      <3>1. \A j \in Files : File({j}) \in Nodes
        BY NodeFacts, ConstantFacts
      <3> QED
        BY <1>1, <3>1, NodeFacts DEF Renamed
    <2>2. item \in Items
      BY <1>7 DEF PositionInv, Rename, TypeOK
    <2> QED
      BY <1>1, <1>7, <2>1, <2>2 DEF Rename
  <1>8. CASE \E n \in Slots \cup {target} : ExternalCreate(n)
    <2>1. PICK n \in Slots \cup {target} : ExternalCreate(n)
      BY <1>8
    <2>2. n \in Names /\ File({-n}) \in Nodes
      <3>1. n \in Names
        BY <1>1, ConstantFacts
      <3>2. {-n} \in SUBSET Contents
        BY <3>1 DEF Contents
      <3> QED
        BY <3>1, <3>2, NodeFacts
    <2> QED
      BY <1>1, <2>1, <2>2 DEF ExternalCreate
  <1> QED
    BY <1>2, <1>3, <1>4, <1>5, <1>6, <1>7, <1>8
    DEF Next, Job, vars, Prepare, ScanSourceItem, ScanEnd, NextItem, StatDestination,
        AnswerExists, Verify, ClearSourceItem, ClearedSourceItems, UserStop

\* The loop over the items goes on with the next one, or ends.
LEMMA ProceedFacts ==
  ASSUME Typed, NEW i \in Nat, Proceed(i)
  PROVE  \/ /\ pc' = "verify" /\ UNCHANGED <<item, target>>
            /\ \A j \in m_SourceItems : j <= i
         \/ /\ pc' = "process" /\ target' = Slot[item']
            /\ item' \in m_SourceItems /\ item' > i
            /\ \A j \in m_SourceItems : j > i => item' <= j
  <1> DEFINE rest == {j \in m_SourceItems : j > i}
  <1>1. m_SourceItems \subseteq Nat
    BY ConstantFacts DEF Typed, TypeOK
  <1>2. CASE rest = {}
    BY <1>1, <1>2 DEF Proceed
  <1>3. CASE rest # {}
    <2>1. \E j \in rest : \A k \in rest : j <= k
      <3>1. rest \subseteq Nat
        BY <1>1
      <3> HIDE DEF rest
      <3> QED
        BY <1>3, <3>1, LeastNumber
    <2>2. pc' = "process" /\ target' = Slot[item']
          /\ item' = CHOOSE j \in rest : \A k \in rest : j <= k
      BY <1>3 DEF Proceed
    <2>3. item' \in rest /\ \A k \in rest : item' <= k
      <3> HIDE DEF rest
      <3> QED
        BY <2>1, <2>2
    <2> QED
      BY <2>2, <2>3
  <1> QED
    BY <1>2, <1>3

\* The list of the items to delete grows at its end, and is taken from its end.
LEMMA MarkFacts ==
  ASSUME Typed, item \in m_SourceItems, Mark
  PROVE  /\ m_SourceItemsToDelete' \in Seq(m_SourceItems)
         /\ ToSet(m_SourceItemsToDelete') = ToSet(m_SourceItemsToDelete) \cup {item}
  <1>1. m_SourceItemsToDelete \in Seq(m_SourceItems)
    BY DEF Typed, TypeOK
  <1> QED
    BY <1>1, ToSetAppend DEF Mark

LEMMA ClearedFacts ==
  ASSUME Typed, m_SourceItemsToDelete # <<>>
  PROVE  /\ Last(m_SourceItemsToDelete) \in m_SourceItems
         /\ Last(m_SourceItemsToDelete) \in ToSet(m_SourceItemsToDelete)
         /\ Front(m_SourceItemsToDelete) \in Seq(m_SourceItems)
         /\ ToSet(m_SourceItemsToDelete) =
                ToSet(Front(m_SourceItemsToDelete)) \cup {Last(m_SourceItemsToDelete)}
  <1>1. m_SourceItemsToDelete \in Seq(m_SourceItems)
    BY DEF Typed, TypeOK
  <1> QED
    BY <1>1, ToSetLast

\* The items marked are items that were scanned.
LEMMA MarkedFacts ==
  ASSUME Typed
  PROVE  /\ ToSet(m_SourceItemsToDelete) \subseteq m_SourceItems
         /\ m_SourceItems \subseteq Items
         /\ m_SourceItemsToDelete = <<>> <=> ToSet(m_SourceItemsToDelete) = {}
         /\ ToSet(<<>>) = {}
  <1>1. m_SourceItemsToDelete \in Seq(m_SourceItems)
    BY DEF Typed, TypeOK
  <1> QED
    BY <1>1, ToSetEmpty DEF Typed, TypeOK

LEMMA TypesKept ==
  ASSUME Typed, [Next]_vars
  PROVE  Typed'
  <1> USE DEF Typed
  <1>1. dst' \in [Names -> [kind : {"none", "dir"} \cup FileKinds, holds : SUBSET Contents]]
    BY NodesKept DEF Nodes
  <1>2. N \in Nat \ {0} /\ Items = 1..N
    BY ConstantFacts
  <1>3. CASE Prepare
    BY <1>1, <1>3 DEF TypeOK, PositionInv, Prepare, Stopped, marked, answers,
       environment, scanned, Renaming
  <1>4. CASE ScanSourceItem
    <2>1. item \in Items /\ item + 1 \in 1..N + 1 /\ item + 1 \in 0..N + 1
      BY <1>2, <1>4 DEF ScanSourceItem, TypeOK, PositionInv
    <2>2. m_SourceItems' \subseteq Items /\ entered' \subseteq m_SourceItems' \cap Directories
      BY <1>4, <2>1 DEF ScanSourceItem, TypeOK, scanned
    <2>3. pc' \in {"scan", "over"} /\ m_IsStopped' \in BOOLEAN /\ skipped' \subseteq Items
      BY <1>4, <2>1 DEF ScanSourceItem, ScanError, Stopped, TypeOK
    <2>4. /\ UNCHANGED <<setup, externals, others, target, mode, src, sacrificed, kept>>
          /\ UNCHANGED <<m_SourceItemsToDelete, m_Checksums>>
          /\ item' = item + 1
          /\ m_SourceItemsToDelete = <<>> /\ m_Checksums = {}
      BY <1>4 DEF ScanSourceItem, environment, marked, answers, PositionInv
    <2>5. <<>> \in Seq(m_SourceItems')
      OBVIOUS
    <2>6. TypeOK'
      BY <1>1, <2>1, <2>2, <2>3, <2>4, <2>5 DEF TypeOK
    <2>7. PositionInv'
      BY <2>1, <2>3, <2>4 DEF PositionInv
    <2> QED
      BY <2>6, <2>7
  <1>5. CASE ScanEnd \/ NextItem
    <2>1. /\ UNCHANGED <<environment, scanned, mode, src, marked, answers, skipped>>
          /\ UNCHANGED m_IsStopped
      BY <1>5 DEF ScanEnd, NextItem
    <2>2. CASE pc' = "over" /\ UNCHANGED <<item, target>>
      BY <1>1, <2>1, <2>2 DEF TypeOK, PositionInv, environment, scanned, marked, answers
    <2>3. CASE \E i \in Nat : Proceed(i)
      <3>1. \/ pc' = "verify" /\ UNCHANGED <<item, target>>
            \/ /\ pc' = "process" /\ target' = Slot[item']
               /\ item' \in m_SourceItems
        BY <2>3, ProceedFacts
      <3>2. \A i \in m_SourceItems : i \in 0..N + 1 /\ Slot[i] \in Names
        BY <1>2, ConstantFacts DEF TypeOK
      <3> QED
        BY <1>1, <2>1, <3>1, <3>2
        DEF TypeOK, PositionInv, environment, scanned, marked, answers
    <2>4. item \in Nat
      BY <1>2 DEF TypeOK
    <2> QED
      BY <1>5, <2>2, <2>3, <2>4 DEF ScanEnd, NextItem
  <1>6. ASSUME pc \in {"process", "write"}, item \in m_SourceItems,
               Ok \/ Error, Mark \/ UNCHANGED m_SourceItemsToDelete,
               m_Checksums' \subseteq (m_SourceItems \cap Files) \X Names,
               UNCHANGED <<setup, externals, others, item, m_SourceItems, entered>>,
               UNCHANGED <<target, mode, src, kept>>, sacrificed' \subseteq Contents
        PROVE  Typed'
    <2>1. m_SourceItemsToDelete' \in Seq(m_SourceItems)
      BY <1>6, MarkFacts DEF TypeOK
    <2> QED
      BY <1>1, <1>6, <2>1 DEF TypeOK, PositionInv, Ok, Error, Skipped, Stopped, Renaming
  <1>7. CASE CopyDirectory
    BY <1>6, <1>7 DEF CopyDirectory, PositionInv, TypeOK, environment, scanned, answers,
       MarkIfMoving
  <1>8. CASE RenameDirectory
    <2>1. dst[target].holds \subseteq Contents
      BY NodeFacts DEF TypeOK, Nodes
    <2>2. sacrificed' \subseteq Contents
      BY <1>8, <2>1 DEF RenameDirectory, TypeOK
    <2>3. /\ Mark \/ UNCHANGED m_SourceItemsToDelete
          /\ pc = "process" /\ item \in m_SourceItems
          /\ UNCHANGED <<setup, externals, others, item, m_SourceItems, entered>>
          /\ UNCHANGED <<target, mode, src, m_Checksums, kept>>
      BY <1>8 DEF RenameDirectory, PositionInv, environment, scanned
    <2>4. Ok \/ Error
      BY <1>8 DEF RenameDirectory
    <2> QED
      BY <1>6, <2>2, <2>3, <2>4 DEF TypeOK
  <1>9. CASE StatDestination
    BY <1>1, <1>9 DEF StatDestination, TypeOK, PositionInv, environment, scanned, marked,
       answers, Error, Skipped, Stopped, Renaming
  <1>10. CASE AnswerExists
    <2>1. dst[target].holds \subseteq Contents
      BY NodeFacts DEF TypeOK, Nodes
    <2>2. NonexistentPath \in Names
      BY <1>10, ConstantFacts DEF NonexistentPath, TypeOK, PositionInv, AnswerExists
    <2> QED
      BY <1>1, <1>10, <2>1, <2>2 DEF AnswerExists, TypeOK, PositionInv, environment, scanned,
         marked, answers, Error, Skipped, Stopped, Renaming
  <1>11. CASE OpenDestination
    BY <1>1, <1>11 DEF OpenDestination, TypeOK, PositionInv, environment, scanned, marked,
       answers, Error, Skipped, Stopped, Renaming
  <1>12. CASE WriteDestination
    <2>1. pc = "write" /\ item \in m_SourceItems /\ item \in Files /\ target \in Names
      BY <1>12 DEF WriteDestination, PositionInv, TypeOK
    <2>2. m_Checksums' \subseteq (m_SourceItems \cap Files) \X Names
      BY <1>12, <2>1 DEF WriteDestination, AddChecksum, TypeOK
    <2> QED
      BY <1>6, <1>12, <2>1, <2>2
      DEF WriteDestination, TypeOK, environment, scanned, answers, MarkIfMoving
  <1>13. CASE Rename
    <2>1. src' \in [Items -> BOOLEAN]
      BY <1>13 DEF Rename, TypeOK
    <2> QED
      BY <1>1, <1>13, <2>1 DEF Rename, TypeOK, PositionInv, environment, scanned, marked,
         answers, Ok, Error, Skipped, Stopped, Renaming
  <1>14. CASE Verify
    <2>1. {c[1] : c \in m_Checksums} \subseteq Items
      <3>1. \A c \in (m_SourceItems \cap Files) \X Names : c[1] \in m_SourceItems
        OBVIOUS
      <3> QED
        BY <3>1 DEF TypeOK
    <2> QED
      BY <1>1, <1>14, <2>1 DEF Verify, TypeOK, PositionInv, environment, scanned, marked, answers
  <1>15. CASE ClearSourceItem
    <2>1. src' \in [Items -> BOOLEAN]
      BY <1>15 DEF ClearSourceItem, TypeOK
    <2>2. /\ Last(m_SourceItemsToDelete) \in Items
          /\ m_SourceItemsToDelete' \in Seq(m_SourceItems)
      BY <1>15, ClearedFacts DEF ClearSourceItem, TypeOK
    <2> QED
      BY <1>1, <1>15, <2>1, <2>2 DEF ClearSourceItem, TypeOK, PositionInv, environment, scanned,
         answers
  <1>16. CASE ClearedSourceItems
    BY <1>1, <1>16 DEF ClearedSourceItems, TypeOK, PositionInv, environment, scanned, marked,
       answers
  <1>17. CASE UserStop
    BY <1>1, <1>17 DEF UserStop, TypeOK, PositionInv, environment, scanned, marked, answers,
       Renaming
  <1>18. CASE \E n \in Slots \cup {target} : ExternalCreate(n)
    <2>1. PICK n \in Slots \cup {target} : ExternalCreate(n)
      BY <1>18
    <2>2. n \in Names /\ externals + 1 \in 0..MaxExternals
      BY <2>1, ConstantFacts, MaxExternalsAssumption DEF ExternalCreate, TypeOK
    <2> QED
      BY <1>1, <2>1, <2>2 DEF ExternalCreate, TypeOK, PositionInv, scanned, marked, answers,
         Renaming
  <1>19. CASE UNCHANGED vars
    BY <1>1, <1>19 DEF vars, TypeOK, PositionInv, scanned, marked, answers, Renaming
  <1> QED
    BY <1>3, <1>4, <1>5, <1>7, <1>8, <1>9, <1>10, <1>11, <1>12, <1>13, <1>14, <1>15, <1>16,
       <1>17, <1>18, <1>19 DEF Next, Job

LEMMA InitTyped == Init => Typed
  <1> SUFFICES ASSUME Init PROVE Typed
    OBVIOUS
  <1>1. target \in Names /\ N \in Nat \ {0}
    BY ConstantFacts DEF Init
  <1>2. dst \in [Names -> Nodes]
    <2>1. ASSUME NEW n \in Slots
          PROVE  File({-n}) \in Nodes
      <3>1. {-n} \in SUBSET Contents
        BY <2>1, ConstantFacts DEF Contents
      <3> QED
        BY <3>1, NodeFacts
    <2>2. \A n \in Names : dst[n] \in {Nothing, Directory} \cup {File({-m}) : m \in Slots}
      BY DEF Init
    <2>3. ASSUME NEW n \in Names
          PROVE  dst[n] \in Nodes
      <3>1. CASE dst[n] \in {Nothing, Directory}
        BY <3>1, NodeFacts
      <3>2. CASE dst[n] \in {File({-m}) : m \in Slots}
        BY <2>1, <3>2
      <3> QED
        BY <2>2, <3>1, <3>2
    <2>4. dst = [n \in Names |-> dst[n]]
      BY DEF Init
    <2> QED
      BY <2>3, <2>4
  <1>3. others \subseteq {-n : n \in Names}
    <2>1. ASSUME NEW n \in Names
          PROVE  dst[n].holds \subseteq {-n}
      BY NodeFacts DEF Init, Nothing, Directory, File
    <2> QED
      BY <2>1 DEF Init
  <1>4. <<>> \in Seq({}) /\ 1 \in 0..N + 1 /\ 1 \in 1..N + 1 /\ 0 \in 0..MaxExternals
    BY <1>1, MaxExternalsAssumption
  <1>5. TypeOK
    BY <1>1, <1>2, <1>3, <1>4 DEF Init, TypeOK, Nodes
  <1>6. PositionInv
    BY <1>1, <1>4 DEF Init, PositionInv
  <1> QED
    BY <1>5, <1>6 DEF Typed
-----------------------------------------------------------------------------
(* What is at the destination.                                             *)

DestinationInv ==
    /\ HoldsInv
    /\ OpenInv
    /\ NoTornFiles
    /\ DestinationsNotLost

LEMMA InitDestination == Init => DestinationInv
  <1> SUFFICES ASSUME Init PROVE DestinationInv
    OBVIOUS
  <1>1. ASSUME NEW n \in Names
        PROVE  dst[n].kind \in {"none", "dir", "file"} /\ (dst[n].kind # "file" => dst[n].holds = {})
    BY DEF Init, Nothing, Directory, File
  <1>2. others \subseteq Held
    BY DEF Init, Held
  <1> QED
    BY <1>1, <1>2 DEF Init, DestinationInv, HoldsInv, OpenInv, NoTornFiles, DestinationsNotLost

\* A step that gives one name another node keeps what that node is to keep.
LEMMA DestinationKeptByPut ==
  ASSUME Typed, Typed', DestinationInv, NEW n \in Names, NEW node \in Nodes,
         dst' = [dst EXCEPT ![n] = node],
         setup' = setup, sacrificed \subseteq sacrificed', others \subseteq others',
         node.kind \in {"none", "dir", "torn"} => node.holds = {},
         \/ pc' = "write" /\ n = target'
         \/ node.kind # "torn" /\ (setup.native => node.kind # "appending"),
         pc = "write" => target = n \/ (pc' = "write" /\ target' = target),
         setup.native /\ ~Renaming =>
             /\ dst[n].holds \subseteq node.holds \cup sacrificed'
             /\ others' \ others \subseteq node.holds,
         OpenInv'
  PROVE  DestinationInv'
  <1>1. /\ dst' \in [Names -> Nodes] /\ dst'[n] = node
        /\ \A m \in Names : m # n => dst'[m] = dst[m]
    BY Put DEF Typed, TypeOK, Nodes
  <1>2. HoldsInv'
    BY <1>1 DEF HoldsInv, DestinationInv
  <1>3. NoTornFiles'
    BY <1>1 DEF NoTornFiles, DestinationInv
  <1>4. DestinationsNotLost'
    <2> SUFFICES ASSUME setup.native, ~Renaming
                 PROVE  others' \subseteq Held' \cup sacrificed'
      BY DEF DestinationsNotLost, Renaming
    <2>1. node.holds \subseteq Held' /\ \A m \in Names : m # n => dst[m].holds \subseteq Held'
      BY <1>1 DEF Held
    <2>2. Held \subseteq Held' \cup sacrificed'
      BY <2>1 DEF Held
    <2> QED
      BY <2>1, <2>2 DEF DestinationsNotLost, DestinationInv
  <1> QED
    BY <1>2, <1>3, <1>4 DEF DestinationInv

\* A step after which the destination is what it was.
LEMMA DestinationKeptUnchanged ==
  ASSUME Typed, Typed', DestinationInv, dst' = dst, others' = others, setup' = setup,
         sacrificed \subseteq sacrificed', pc # "write" \/ (pc' = pc /\ target' = target),
         OpenInv'
  PROVE  DestinationInv'
  BY DEF DestinationInv, HoldsInv, NoTornFiles, DestinationsNotLost, Held, Renaming

LEMMA DestinationKept ==
  ASSUME Typed, Typed', DestinationInv, [Next]_vars
  PROVE  DestinationInv'
  <1>1. target \in Names /\ dst[target] \in Nodes /\ dst \in [Names -> Nodes]
    BY DEF Typed, TypeOK, Nodes
  <1>2. dst[target].kind \in {"none", "dir", "torn"} => dst[target].holds = {}
    BY <1>1 DEF DestinationInv, HoldsInv
  <1>3. CASE \/ Prepare \/ ScanSourceItem \/ ScanEnd \/ NextItem \/ Verify
             \/ ClearSourceItem \/ ClearedSourceItems
    <2>1. /\ dst' = dst /\ others' = others /\ setup' = setup /\ sacrificed' = sacrificed
          /\ pc # "write"
      BY <1>3 DEF Prepare, ScanSourceItem, ScanEnd, NextItem, Verify, ClearSourceItem,
         ClearedSourceItems, environment, answers
    <2>2. pc' \in {"scan", "over", "verify", "process", "clean"}
      BY <1>3 DEF Prepare, ScanSourceItem, ScanError, ScanEnd, NextItem, Proceed, Verify,
         ClearSourceItem, ClearedSourceItems, Stopped
    <2>3. OpenInv'
      BY <2>2 DEF OpenInv
    <2> QED
      BY <2>1, <2>3, DestinationKeptUnchanged
  <1>4. CASE CopyDirectory
    <2>1. /\ setup' = setup /\ sacrificed' = sacrificed /\ others' = others /\ pc = "process"
          /\ target' = target
      BY <1>4 DEF CopyDirectory, environment, answers
    <2>2. pc' \in {"next", "over"}
      BY <1>4 DEF CopyDirectory, Ok, Error, Skipped, Stopped
    <2>3. OpenInv'
      BY <2>2 DEF OpenInv
    <2>4. CASE dst' = dst
      BY <2>1, <2>3, <2>4, DestinationKeptUnchanged
    <2>5. CASE dst[target].kind = "none" /\ dst' = [dst EXCEPT ![target] = Directory]
      BY <1>1, <1>2, <2>1, <2>2, <2>3, <2>5, NodeFacts, DestinationKeptByPut
    <2> QED
      BY <1>4, <2>4, <2>5 DEF CopyDirectory
  <1>5. CASE RenameDirectory
    <2>1. /\ setup' = setup /\ others' = others /\ pc = "process" /\ target' = target
          /\ sacrificed \subseteq sacrificed' /\ Renaming
      BY <1>5 DEF RenameDirectory, environment
    <2>2. pc' \in {"next", "over"}
      BY <1>5 DEF RenameDirectory, Ok, Error, Skipped, Stopped
    <2>3. OpenInv'
      BY <2>2 DEF OpenInv
    <2>4. CASE dst' = dst
      BY <2>1, <2>3, <2>4, DestinationKeptUnchanged
    <2>5. CASE dst' = [dst EXCEPT ![target] = Directory]
      BY <1>1, <2>1, <2>2, <2>3, <2>5, NodeFacts, DestinationKeptByPut
    <2>6. CASE dst' = [dst EXCEPT ![target] = Nothing]
      BY <1>1, <2>1, <2>2, <2>3, <2>6, NodeFacts, DestinationKeptByPut
    <2> QED
      BY <1>5, <2>4, <2>5, <2>6 DEF RenameDirectory
  <1>6. CASE StatDestination
    <2>1. /\ setup' = setup /\ others' = others /\ pc = "process" /\ dst' = dst
          /\ sacrificed' = sacrificed /\ target' = target
      BY <1>6 DEF StatDestination, environment, answers
    <2>2. OpenInv'
      BY <1>6, <2>1 DEF OpenInv, StatDestination, Error, Skipped, Stopped
    <2> QED
      BY <2>1, <2>2, DestinationKeptUnchanged
  <1>7. CASE AnswerExists
    <2>1. /\ setup' = setup /\ others' = others /\ pc = "ask" /\ dst' = dst
          /\ sacrificed \subseteq sacrificed'
      BY <1>7 DEF AnswerExists, environment, answers
    <2>2. dst[target].kind # "none"
      BY <2>1 DEF DestinationInv, OpenInv
    <2>3. OpenInv'
      BY <1>7, <2>1, <2>2 DEF OpenInv, AnswerExists, Error, Skipped, Stopped
    <2> QED
      BY <2>1, <2>3, DestinationKeptUnchanged
  <1>8. CASE OpenDestination
    <2>1. /\ setup' = setup /\ others' = others /\ pc = "open"
          /\ sacrificed' = sacrificed /\ target' = target /\ mode' = mode
      BY <1>8 DEF OpenDestination, environment, answers
    <2>2. CASE dst' = dst /\ Error
      <3>1. OpenInv'
        BY <2>2 DEF OpenInv, Error, Skipped, Stopped
      <3> QED
        BY <2>1, <2>2, <3>1, DestinationKeptUnchanged
    <2>3. CASE /\ CanOpen /\ pc' = "write"
               /\ dst' = [dst EXCEPT ![target] =
                             IF mode = "append" THEN Appending(@.holds) ELSE Torn]
      <3> DEFINE node == IF mode = "append" THEN Appending(dst[target].holds) ELSE Torn
      <3>1. /\ node \in Nodes
            /\ node.kind = IF mode = "append" THEN "appending" ELSE "torn"
            /\ node.holds = IF mode = "append" THEN dst[target].holds ELSE {}
        BY <1>1, NodeFacts
      <3>2. dst' = [dst EXCEPT ![target] = node]
        BY <2>3
      <3> HIDE DEF node
      <3>3. dst'[target] = node
        BY <1>1, <3>1, <3>2
      <3>4. OpenInv'
        BY <2>1, <2>3, <3>1, <3>3 DEF OpenInv
      <3>5. setup.native => dst[target].holds \subseteq node.holds \cup sacrificed'
        <4>1. CASE mode = "append"
          BY <3>1, <4>1
        <4>2. CASE mode = "overwrite"
          BY <2>1, <4>2 DEF DestinationInv, OpenInv
        <4>3. CASE mode = "new"
          BY <1>2, <2>3, <4>3 DEF CanOpen
        <4> QED
          BY <4>1, <4>2, <4>3 DEF Typed, TypeOK
      <3> QED
        BY <1>1, <2>1, <2>3, <3>1, <3>2, <3>4, <3>5, DestinationKeptByPut
    <2> QED
      BY <1>8, <2>2, <2>3 DEF OpenDestination
  <1>9. CASE WriteDestination
    <2>1. /\ setup' = setup /\ others' = others /\ pc = "write"
          /\ sacrificed' = sacrificed /\ target' = target
          /\ pc' \in {"next", "over"}
      BY <1>9 DEF WriteDestination, environment, answers, Ok, Error, Skipped, Stopped
    <2>2. OpenInv'
      BY <2>1 DEF OpenInv
    <2>3. item \in Contents
      BY <2>1, ConstantFacts DEF Typed, PositionInv
    <2>4. dst[target].kind = IF mode = "append" THEN "appending" ELSE "torn"
      BY <2>1 DEF DestinationInv, OpenInv
    <2>5. PICK node \in {File(dst[target].holds \cup {item}), File(dst[target].holds),
                         Cleaned(dst[target]), Nothing} :
              /\ dst' = [dst EXCEPT ![target] = node]
              /\ setup.native /\ mode = "append" => node # Nothing
      BY <1>9, <2>4 DEF WriteDestination, Cleaned, File, Nothing
    <2>6. /\ node \in Nodes
          /\ node.kind \in {"none", "dir", "torn"} => node.holds = {}
          /\ node.kind # "torn" /\ (setup.native => node.kind # "appending")
          /\ setup.native => dst[target].holds \subseteq node.holds
      BY <1>1, <1>2, <2>3, <2>4, <2>5, NodeFacts DEF Cleaned
    <2> QED
      BY <1>1, <2>1, <2>2, <2>5, <2>6, DestinationKeptByPut
  <1>10. CASE Rename
    <2>1. /\ setup' = setup /\ others' = others /\ pc = "rename" /\ Renaming
          /\ sacrificed' = sacrificed /\ target' = target
          /\ pc' \in {"next", "over"}
      BY <1>10 DEF Rename, environment, answers, Ok, Error, Skipped, Stopped, Typed, PositionInv
    <2>2. OpenInv'
      BY <2>1 DEF OpenInv
    <2>3. CASE dst' = dst
      BY <2>1, <2>2, <2>3, DestinationKeptUnchanged
    <2>4. CASE dst' = [n \in Names |-> Renamed(item, n)]
      <3>1. ASSUME NEW n \in Names
            PROVE  dst'[n] \in {dst[n], Directory} \/ \E i \in Files : dst'[n] = File({i})
        BY <1>1, <2>1, <2>4 DEF Renamed
      <3>2. \A i \in Files : File({i}).kind = "file"
        BY NodeFacts, ConstantFacts
      <3>3. ASSUME NEW n \in Names
            PROVE  \/ dst'[n] = dst[n]
                   \/ dst'[n].kind = "dir" /\ dst'[n].holds = {}
                   \/ dst'[n].kind = "file"
        <4>1. CASE dst'[n] = dst[n]
          BY <4>1
        <4>2. CASE dst'[n] = Directory
          BY <4>2, NodeFacts
        <4>3. CASE \E i \in Files : dst'[n] = File({i})
          BY <3>2, <4>3
        <4> QED
          BY <3>1, <4>1, <4>2, <4>3
      <3>5. HoldsInv'
        BY <3>3 DEF HoldsInv, DestinationInv
      <3>6. NoTornFiles'
        BY <2>1, <3>3 DEF NoTornFiles, DestinationInv
      <3>4. DestinationsNotLost'
        BY <2>1 DEF DestinationsNotLost, Renaming
      <3> QED
        BY <2>2, <3>4, <3>5, <3>6 DEF DestinationInv
    <2> QED
      BY <1>10, <2>3, <2>4 DEF Rename
  <1>11. CASE \E n \in Slots \cup {target} : ExternalCreate(n)
    <2>1. PICK n \in Slots \cup {target} : ExternalCreate(n)
      BY <1>11
    <2>2. n \in Names /\ {-n} \in SUBSET Contents
      BY <1>1, <2>1, ConstantFacts DEF Contents
    <2>3. /\ setup' = setup /\ others' = others \cup {-n} /\ pc' = pc /\ mode' = mode
          /\ sacrificed' = sacrificed /\ target' = target
          /\ dst[n].kind = "none" /\ dst' = [dst EXCEPT ![n] = File({-n})]
      BY <2>1 DEF ExternalCreate, answers
    <2>4. File({-n}) \in Nodes /\ File({-n}).kind = "file" /\ File({-n}).holds = {-n}
      BY <2>2, NodeFacts
    <2>5. dst'[n] = File({-n}) /\ \A m \in Names : m # n => dst'[m] = dst[m]
      BY <1>1, <2>2, <2>3
    <2>6. OpenInv'
      BY <1>1, <2>3, <2>4, <2>5 DEF DestinationInv, OpenInv
    <2>7. dst[n].holds = {}
      BY <2>2, <2>3 DEF DestinationInv, HoldsInv
    <2> QED
      BY <2>2, <2>3, <2>4, <2>6, <2>7, DestinationKeptByPut
  <1>12. CASE UserStop \/ UNCHANGED vars
    <2>1. /\ setup' = setup /\ others' = others /\ pc' = pc /\ mode' = mode
          /\ sacrificed' = sacrificed /\ target' = target /\ dst' = dst
      BY <1>12 DEF UserStop, vars, environment, answers
    <2>2. OpenInv'
      BY <2>1 DEF DestinationInv, OpenInv
    <2> QED
      BY <2>1, <2>2, DestinationKeptUnchanged
  <1> QED
    BY <1>3, <1>4, <1>5, <1>6, <1>7, <1>8, <1>9, <1>10, <1>11, <1>12 DEF Next, Job

-----------------------------------------------------------------------------
(* The tree of the items.                                                  *)

\* The recursive function in Subtree() exists, and satisfies its equation.
LEMMA AncestorsExist ==
  LET ancestors[j \in 0..N] == IF j = 0 THEN {} ELSE {j} \cup ancestors[Parent[j]]
  IN  ancestors = [j \in 0..N |-> IF j = 0 THEN {} ELSE {j} \cup ancestors[Parent[j]]]
  <1> DEFINE Step(f, j) == IF j = 0 THEN {} ELSE {j} \cup f[Parent[j]]
             Exists(n) == \E f : f = [j \in 0..n |-> Step(f, j)]
             T == {n \in 0..N : ~Exists(n)}
  <1>1. /\ N \in Nat
        /\ \A j \in 1..N : Parent[j] \in 0..N /\ Parent[j] < j
    BY TreeAssumption DEF Items
  <1>2. Exists(0)
    <2> DEFINE f == [j \in 0..0 |-> {}]
    <2>1. ASSUME NEW j \in 0..0
          PROVE  f[j] = Step(f, j)
      <3>1. j = 0
        OBVIOUS
      <3> QED
        BY <3>1
    <2> HIDE DEF Step
    <2>2. f = [j \in 0..0 |-> Step(f, j)]
      BY <2>1
    <2> QED
      BY <2>2
  <1>3. ASSUME NEW m \in 1..N, Exists(m - 1)
        PROVE  Exists(m)
    <2>1. PICK g : g = [j \in 0..m - 1 |-> Step(g, j)]
      BY <1>3
    <2> DEFINE f == [j \in 0..m |-> IF j = m THEN Step(g, m) ELSE g[j]]
    <2>2. ASSUME NEW j \in 0..m
          PROVE  f[j] = Step(f, j)
      <3>1. CASE j = 0
        <4>1. 0 \in 0..m - 1 /\ 0 # m
          BY <1>1, <1>3
        <4> QED
          BY <2>1, <3>1, <4>1
      <3>2. CASE j # 0
        <4>1. j \in 1..N /\ Parent[j] \in 0..m - 1 /\ Parent[j] \in 0..m /\ Parent[j] # m
          BY <1>1, <3>2
        <4>2. f[Parent[j]] = g[Parent[j]]
          BY <4>1
        <4>3. CASE j = m
          BY <3>2, <4>2, <4>3
        <4>4. CASE j # m
          <5>1. j \in 0..m - 1
            BY <1>1, <4>4
          <5>2. g[j] = Step(g, j)
            BY <2>1, <5>1
          <5> QED
            BY <3>2, <4>2, <4>4, <5>2
        <4> QED
          BY <4>3, <4>4
      <3> QED
        BY <3>1, <3>2
    <2> HIDE DEF Step
    <2>3. f = [j \in 0..m |-> Step(f, j)]
      BY <2>2
    <2> QED
      BY <2>3
  <1> HIDE DEF Exists
  <1>4. T = {}
    <2> SUFFICES ASSUME T # {} PROVE FALSE
      OBVIOUS
    <2>1. PICK m \in T : \A n \in T : m <= n
      <3>1. T \subseteq Nat
        BY <1>1
      <3> HIDE DEF T
      <3> QED
        BY <3>1, LeastNumber
    <2>2. m # 0 /\ m \in 0..N /\ ~Exists(m)
      BY <1>2, <2>1
    <2>3. m \in 1..N /\ m - 1 \in 0..N /\ m - 1 \notin T
      BY <1>1, <2>1, <2>2
    <2> QED
      BY <1>3, <2>2, <2>3
  <1>5. Exists(N)
    BY <1>1, <1>4
  <1> QED
    BY <1>5, Zenon DEF Exists

\* An item is below another one when it is that item, or its directory is below it.
LEMMA SubtreeStep ==
  ASSUME NEW i \in Items, NEW j \in Items
  PROVE  /\ Subtree(i) \subseteq Items
         /\ j \in Subtree(i) <=> j = i \/ (Parent[j] \in Items /\ Parent[j] \in Subtree(i))
  <1> DEFINE ancestors[k \in 0..N] == IF k = 0 THEN {} ELSE {k} \cup ancestors[Parent[k]]
  <1>1. ancestors = [k \in 0..N |-> IF k = 0 THEN {} ELSE {k} \cup ancestors[Parent[k]]]
    BY AncestorsExist, Zenon
  <1>2. Subtree(i) = {k \in Items : i \in ancestors[k]}
    BY DEF Subtree
  <1> HIDE DEF ancestors
  <1>3. N \in Nat /\ Items = 1..N /\ Parent[j] \in 0..N
    BY ConstantFacts
  <1>4. ancestors[j] = {j} \cup ancestors[Parent[j]]
    BY <1>1, <1>3
  <1>5. CASE Parent[j] = 0
    BY <1>1, <1>2, <1>3, <1>4, <1>5
  <1>6. CASE Parent[j] # 0
    BY <1>2, <1>3, <1>4, <1>6
  <1> QED
    BY <1>2, <1>5, <1>6

\* A property of items holds of all if it holds of those whose directories, and the items
\* before them, have it: stated for the set of the items that have it.
LEMMA ByParents ==
  ASSUME NEW S,
         \A j \in Items : (\A k \in Items : k < j => k \in S) => j \in S
  PROVE  Items \subseteq S
  <1> DEFINE T == Items \ S
  <1> SUFFICES ASSUME T # {} PROVE FALSE
    OBVIOUS
  <1>1. T \subseteq Nat
    BY ConstantFacts
  <1>2. PICK m \in T : \A n \in T : m <= n
    <2> HIDE DEF T
    <2> QED
      BY <1>1, LeastNumber
  <1>3. \A k \in Items : k < m => k \in S
    BY <1>2, ConstantFacts
  <1> QED
    BY <1>2, <1>3

LEMMA SubtreeFacts ==
  ASSUME NEW i \in Items
  PROVE  /\ i \in Subtree(i)
         /\ \A j \in Subtree(i) : j >= i
         /\ \A j \in Subtree(i) : Subtree(j) \subseteq Subtree(i)
         /\ i \in Files => Subtree(i) = {i}
  <1> DEFINE S == {j \in Items : j \in Subtree(i) => j >= i}
  <1>1. i \in Subtree(i) /\ Subtree(i) \subseteq Items
    BY SubtreeStep
  <1>2. Items \subseteq S
    <2> SUFFICES ASSUME NEW j \in Items, \A k \in Items : k < j => k \in S
                 PROVE  j \in S
      BY ByParents
    <2>1. j \in Subtree(i) => j = i \/ (Parent[j] \in Items /\ Parent[j] \in Subtree(i))
      BY SubtreeStep
    <2>2. Parent[j] < j /\ Parent[j] \in Nat /\ j \in Nat /\ i \in Nat
      BY ConstantFacts
    <2> QED
      BY <2>1, <2>2
  <1>3. ASSUME NEW j \in Subtree(i)
        PROVE  Subtree(j) \subseteq Subtree(i)
    <2> DEFINE R == {k \in Items : k \in Subtree(j) => k \in Subtree(i)}
    <2>1. j \in Items
      BY <1>1, <1>3
    <2>2. Items \subseteq R
      <3> SUFFICES ASSUME NEW k \in Items, \A l \in Items : l < k => l \in R
                   PROVE  k \in R
        BY ByParents
      <3>1. /\ k \in Subtree(j) <=> k = j \/ (Parent[k] \in Items /\ Parent[k] \in Subtree(j))
            /\ k \in Subtree(i) <=> k = i \/ (Parent[k] \in Items /\ Parent[k] \in Subtree(i))
        BY <2>1, SubtreeStep
      <3>2. Parent[k] < k
        BY ConstantFacts
      <3> QED
        BY <1>3, <3>1, <3>2
    <2>3. Subtree(j) \subseteq Items
      BY <2>1, SubtreeStep
    <2> QED
      BY <2>2, <2>3
  <1>4. ASSUME i \in Files
        PROVE  Subtree(i) = {i}
    <2> DEFINE R == {j \in Items : j \in Subtree(i) => j = i}
    <2>1. Items \subseteq R
      <3> SUFFICES ASSUME NEW j \in Items, \A k \in Items : k < j => k \in R
                   PROVE  j \in R
        BY ByParents
      <3>1. j \in Subtree(i) => j = i \/ (Parent[j] \in Items /\ Parent[j] \in Subtree(i))
        BY SubtreeStep
      <3>2. Parent[j] < j /\ (Parent[j] # 0 => Parent[j] \in Directories)
            /\ i \notin Directories /\ 0 \notin Items
        BY <1>4, ConstantFacts
      <3> QED
        BY <3>1, <3>2
    <2> QED
      BY <1>1, <2>1
  <1> QED
    BY <1>1, <1>2, <1>3, <1>4

-----------------------------------------------------------------------------
(* Names.                                                                  *)

LEMMA AboveFacts ==
  ASSUME NEW i \in Items, NEW n \in {Slot[i], Alternative(i)}
  PROVE  Above(n) = IF Parent[i] = 0 THEN 0 ELSE Slot[Parent[i]]
  <1> DEFINE P(j) == n \in {Slot[j], Alternative(j)}
             c == CHOOSE j \in Items : P(j)
  <1>1. c \in Items /\ P(c)
    <2>1. \E j \in Items : P(j)
      OBVIOUS
    <2> HIDE DEF P
    <2> QED
      BY <2>1
  <1>2. Above(n) = IF Parent[c] = 0 THEN 0 ELSE Slot[Parent[c]]
    BY DEF Above
  <1> HIDE DEF c
  <1>3. N \in Nat /\ c \in 1..N /\ i \in 1..N /\ Slot[c] \in 1..N /\ Slot[i] \in 1..N
    BY <1>1, ConstantFacts
  <1>4. c = i \/ Slot[c] = Slot[i]
    BY <1>1, <1>3 DEF Alternative
  <1>5. CASE c = i
    BY <1>2, <1>5
  <1>6. CASE Slot[c] = Slot[i]
    BY <1>1, <1>2, <1>6, SlotAssumption
  <1> QED
    BY <1>4, <1>5, <1>6

\* Every name is composed for an item; the name above it is one that a directory composes.
LEMMA NameFacts ==
  ASSUME NEW n \in Names
  PROVE  /\ \E i \in Items : n \in {Slot[i], Alternative(i)}
         /\ Above(n) # 0 => Above(n) \in Names
  <1>1. PICK i \in Items : n \in {Slot[i], Alternative(i)}
    BY ConstantFacts DEF Names, Slots
  <1>2. Parent[i] # 0 => Parent[i] \in Items
    BY ConstantFacts
  <1>3. Parent[i] # 0 => Slot[Parent[i]] \in Names
    BY <1>2, ConstantFacts
  <1> QED
    BY <1>1, <1>3, AboveFacts

\* What an item composes is no name of an item it contains.
LEMMA SlotBelow ==
  \A i \in Items : \A k \in Subtree(i) : Slot[k] = Slot[i] => k = i
  <1> DEFINE S == {i \in Items : \A k \in Subtree(i) : Slot[k] = Slot[i] => k = i}
  <1>1. Items \subseteq S
    <2> SUFFICES ASSUME NEW i \in Items, \A p \in Items : p < i => p \in S
                 PROVE  i \in S
      BY ByParents
    <2> SUFFICES ASSUME NEW k \in Subtree(i), Slot[k] = Slot[i], k # i
                 PROVE  FALSE
      OBVIOUS
    <2>1. k \in Items /\ Parent[k] \in Items /\ Parent[k] \in Subtree(i)
      BY SubtreeStep
    <2>2. Parent[i] # 0 /\ Parent[k] # 0 /\ Slot[Parent[i]] = Slot[Parent[k]]
      BY <2>1, SlotAssumption, ConstantFacts
    <2>3. Parent[i] \in Items /\ Parent[i] < i
      BY <2>2, ConstantFacts
    <2>4. i \in Subtree(Parent[i])
      BY <2>3, SubtreeStep, SubtreeFacts
    <2>5. Parent[k] \in Subtree(Parent[i]) /\ Parent[k] >= i
      BY <2>1, <2>3, <2>4, SubtreeFacts
    <2>6. Parent[k] = Parent[i]
      BY <2>2, <2>3, <2>5
    <2> QED
      BY <2>1, <2>3, <2>5, <2>6, ConstantFacts
  <1> QED
    BY <1>1

\* The items below one of them compose different names.
LEMMA SlotsApart ==
  ASSUME EntriesApart, Typed, Renaming,
         NEW i \in Items, NEW j \in Subtree(i), NEW k \in Subtree(i), Slot[j] = Slot[k]
  PROVE  j = k
  <1> DEFINE S == {m \in Items : m \in Subtree(i) =>
                       \A l \in Subtree(i) : Slot[l] = Slot[m] => l = m}
  <1>1. Items \subseteq S
    <2> SUFFICES ASSUME NEW m \in Items, \A p \in Items : p < m => p \in S
                 PROVE  m \in S
      BY ByParents
    <2> SUFFICES ASSUME m \in Subtree(i), NEW l \in Subtree(i), Slot[l] = Slot[m]
                 PROVE  l = m
      OBVIOUS
    <2>1. l \in Items
      BY SubtreeStep
    <2>2. CASE l = i \/ m = i
      BY <2>2, SlotBelow
    <2>3. CASE l # i /\ m # i
      <3>1. /\ Parent[l] \in Items /\ Parent[l] \in Subtree(i)
            /\ Parent[m] \in Items /\ Parent[m] \in Subtree(i)
        BY <2>1, <2>3, SubtreeStep
      <3>2. Parent[m] < m /\ Parent[m] # 0
        BY <3>1, ConstantFacts
      <3>3. Slot[Parent[l]] = Slot[Parent[m]]
        BY <2>1, <3>2, SlotAssumption
      <3>4. Parent[l] = Parent[m]
        BY <3>1, <3>2, <3>3
      <3> QED
        BY <2>1, <3>2, <3>4 DEF EntriesApart, Typed, TypeOK, Renaming
    <2> QED
      BY <2>2, <2>3
  <1>2. Subtree(i) \subseteq Items
    BY SubtreeStep
  <1> QED
    BY <1>1, <1>2

\* Below a name where there is nothing there is nothing.
LEMMA NothingBelow ==
  ASSUME DestinationTreeInv, NEW i \in Items, dst[Slot[i]].kind = "none",
         NEW j \in Subtree(i)
  PROVE  dst[Slot[j]].kind = "none"
  <1> DEFINE S == {m \in Items : m \in Subtree(i) => dst[Slot[m]].kind = "none"}
  <1>1. Items \subseteq S
    <2> SUFFICES ASSUME NEW m \in Items, \A p \in Items : p < m => p \in S,
                        m \in Subtree(i), m # i
                 PROVE  dst[Slot[m]].kind = "none"
      BY ByParents
    <2>1. Parent[m] \in Items /\ Parent[m] \in Subtree(i) /\ Parent[m] < m /\ Parent[m] # 0
      BY SubtreeStep, ConstantFacts
    <2>2. dst[Slot[Parent[m]]].kind = "none"
      BY <2>1
    <2>3. Above(Slot[m]) = Slot[Parent[m]] /\ Slot[Parent[m]] # 0 /\ Slot[m] \in Names
      BY <2>1, AboveFacts, ConstantFacts
    <2>4. ~ParentThere(Slot[m])
      BY <2>2, <2>3 DEF ParentThere
    <2> QED
      BY <2>3, <2>4 DEF DestinationTreeInv
  <1>2. Subtree(i) \subseteq Items
    BY SubtreeStep
  <1> QED
    BY <1>1, <1>2

-----------------------------------------------------------------------------
(* The item being processed, and the trees at both ends.                   *)

LEMMA TargetKept ==
  ASSUME Typed, TargetInv, [Next]_vars
  PROVE  TargetInv'
  <1>1. CASE pc' \in {"prepare", "scan", "next", "verify", "clean", "over"}
    BY <1>1 DEF TargetInv
  <1>2. CASE ScanEnd \/ NextItem
    <2>1. item \in Nat /\ 0 \in Nat
      BY ConstantFacts DEF Typed, TypeOK
    <2>2. pc' = "over" \/ \E i \in Nat : Proceed(i)
      BY <1>2, <2>1 DEF ScanEnd, NextItem
    <2>3. pc' \in {"over", "verify"} \/ (pc' = "process" /\ target' = Slot[item'])
      BY <2>2, ProceedFacts
    <2> QED
      BY <2>3 DEF TargetInv
  <1>3. CASE StatDestination
    BY <1>3 DEF StatDestination, TargetInv, Error, Skipped, Stopped
  <1>4. CASE AnswerExists
    BY <1>4 DEF AnswerExists, TargetInv, Error, Skipped, Stopped, NonexistentPath, Typed,
       PositionInv
  <1>5. CASE OpenDestination
    BY <1>5 DEF OpenDestination, TargetInv, Error, Skipped, Stopped
  <1>6. CASE UserStop \/ UNCHANGED vars \/ \E n \in Slots \cup {target} : ExternalCreate(n)
    BY <1>6 DEF UserStop, vars, ExternalCreate, TargetInv
  <1>7. CASE Prepare \/ ScanSourceItem \/ Verify \/ ClearSourceItem \/ ClearedSourceItems
    BY <1>1, <1>7 DEF Prepare, ScanSourceItem, ScanError, Stopped, Verify, ClearSourceItem,
       ClearedSourceItems
  <1>8. CASE CopyDirectory \/ RenameDirectory \/ WriteDestination \/ Rename
    BY <1>1, <1>8 DEF CopyDirectory, RenameDirectory, WriteDestination, Rename, Ok, Error,
       Skipped, Stopped
  <1> QED
    BY <1>2, <1>3, <1>4, <1>5, <1>6, <1>7, <1>8 DEF Next, Job

\* The step that takes items away from the source takes what is below them.
LEMMA SourceTreeKept ==
  ASSUME Typed, SourceTreeInv, [Next]_vars
  PROVE  SourceTreeInv'
  <1>1. CASE src' = src
    BY <1>1 DEF SourceTreeInv
  <1>2. ASSUME NEW i \in Items, src' = [j \in Items |-> src[j] /\ j \notin Subtree(i)]
        PROVE  SourceTreeInv'
    <2>1. ASSUME NEW j \in Items, src[j], j \notin Subtree(i), Parent[j] # 0
          PROVE  Parent[j] \in Items /\ src[Parent[j]] /\ Parent[j] \notin Subtree(i)
      BY <2>1, SubtreeStep, ConstantFacts DEF SourceTreeInv
    <2> QED
      BY <1>2, <2>1 DEF SourceTreeInv
  <1>3. CASE Rename
    BY <1>1, <1>2, <1>3 DEF Rename, Typed, PositionInv, TypeOK
  <1>4. CASE ClearSourceItem
    <2> DEFINE i == Last(m_SourceItemsToDelete)
    <2>1. i \in Items
      BY <1>4, ClearedFacts DEF ClearSourceItem, Typed, TypeOK
    <2>2. \/ src' = src
          \/ /\ \A j \in Subtree(i) : src[j] => j \in Removed(i)
             /\ src' = [j \in Items |-> src[j] /\ j \notin Removed(i)]
      BY <1>4 DEF ClearSourceItem
    <2> HIDE DEF i
    <2>3. Removed(i) \subseteq Subtree(i)
      BY <2>1, SubtreeFacts DEF Removed
    <2>4. CASE \A j \in Subtree(i) : src[j] => j \in Removed(i)
      <3>1. \A j \in Items : (src[j] /\ j \notin Removed(i)) <=> (src[j] /\ j \notin Subtree(i))
        BY <2>3, <2>4
      <3> QED
        BY <1>1, <1>2, <2>1, <2>2, <3>1
    <2> QED
      BY <1>1, <2>2, <2>4
  <1> QED
    BY <1>1, <1>3, <1>4 DEF Next, Job, vars, Prepare, ScanSourceItem, ScanEnd, NextItem,
       CopyDirectory, RenameDirectory, StatDestination, AnswerExists, OpenDestination,
       WriteDestination, Verify, ClearedSourceItems, UserStop, ExternalCreate

\* What came with the item that was renamed.
Moved == {j \in Subtree(item) \ {item} : src[j]}

\* What rename() leaves at the names of the destination.
LEMMA RenamedFacts ==
  ASSUME Typed, EntriesApart, DestinationTreeInv, TargetInv,
         pc = "rename", dst[target].kind \in {"none"} \cup (IF item \in Files THEN FileKinds ELSE {})
  PROVE  /\ Renamed(item, target) = IF item \in Files THEN File({item}) ELSE Directory
         /\ \A j \in Moved :
                /\ j \in Items /\ Slot[j] \in Names /\ Slot[j] # target
                /\ dst[Slot[j]].kind = "none"
                /\ Renamed(item, Slot[j]) = IF j \in Files THEN File({j}) ELSE Directory
         /\ \A n \in Names : n # target /\ (\A j \in Moved : Slot[j] # n) => Renamed(item, n) = dst[n]
         /\ item \in Files => Moved = {}
  <1>1. item \in Items
    BY DEF Typed, TypeOK, PositionInv
  <1>2. item \in Files => Moved = {}
    BY <1>1, SubtreeFacts DEF Moved
  <1>3. ASSUME NEW j \in Moved
        PROVE  /\ j \in Items /\ Slot[j] \in Names /\ Slot[j] # target
               /\ dst[Slot[j]].kind = "none"
               /\ Renamed(item, Slot[j]) = IF j \in Files THEN File({j}) ELSE Directory
    <2>1. j \in Items /\ j \in Subtree(item) /\ j # item /\ src[j] /\ Slot[j] \in Names
      BY <1>1, SubtreeStep, ConstantFacts DEF Moved
    <2>2. item \notin Files /\ target = Slot[item] /\ dst[target].kind = "none"
      BY <1>2 DEF TargetInv
    <2>3. dst[Slot[j]].kind = "none" /\ Slot[j] # target
      BY <1>1, <2>1, <2>2, NothingBelow, SlotBelow
    <2> DEFINE P(k) == src[k] /\ Slot[k] = Slot[j]
               c == CHOOSE k \in Subtree(item) \ {item} : P(k)
    <2>4. c \in Subtree(item) \ {item} /\ P(c)
      <3>1. \E k \in Subtree(item) \ {item} : P(k)
        BY <2>1
      <3> HIDE DEF P
      <3> QED
        BY <3>1
    <2>5. Renamed(item, Slot[j]) = IF c \in Files THEN File({c}) ELSE Directory
      BY <2>1, <2>3 DEF Renamed
    <2> HIDE DEF c
    <2>6. c = j
      BY <1>1, <2>1, <2>4, SlotsApart DEF Typed, PositionInv
    <2> QED
      BY <2>1, <2>3, <2>5, <2>6
  <1>4. Renamed(item, target) = IF item \in Files THEN File({item}) ELSE Directory
    BY DEF Renamed
  <1>5. ASSUME NEW n \in Names, n # target, \A j \in Moved : Slot[j] # n
        PROVE  Renamed(item, n) = dst[n]
    BY <1>5 DEF Renamed, Moved
  <1> QED
    BY <1>2, <1>3, <1>4, <1>5

\* Directories stay, and what is new at the destination is in one of them.
LEMMA DestinationTreeKeptBy ==
  ASSUME DestinationTreeInv,
         \A n \in Names : dst[n].kind = "dir" => dst'[n].kind = "dir",
         \A n \in Names : dst'[n].kind # "none" =>
             dst[n].kind # "none" \/ ParentThere(n) \/ ParentThere(n)'
  PROVE  DestinationTreeInv'
  <1> SUFFICES ASSUME NEW n \in Names, dst'[n].kind # "none", Above(n) # 0
               PROVE  dst'[Above(n)].kind = "dir"
    BY DEF DestinationTreeInv, ParentThere
  <1>1. ParentThere(n) \/ ParentThere(n)'
    BY DEF DestinationTreeInv
  <1> QED
    BY <1>1, NameFacts DEF ParentThere

\* One name is given another node: a directory stays one, what is new has a directory to
\* be in, no content of the selection comes but the item's, and none goes without consent.
Replaces(n, node) ==
    /\ dst' = [dst EXCEPT ![n] = node]
    /\ dst[n].kind = "dir" => node.kind = "dir"
    /\ dst[n].kind = "none" /\ node.kind # "none" => ParentThere(n)
    /\ \A i \in node.holds \cap Files :
           i \in dst[n].holds \/ (pc = "write" /\ n = target /\ i = item)
    /\ \A i \in dst[n].holds \cap Files :
           \/ i \in node.holds \cup sacrificed'
           \/ m_IsStopped /\ i \in kept
           \/ pc = "open" /\ i = item

LEMMA ReplacedFacts ==
  ASSUME Typed, NEW n \in Names, NEW node \in Nodes, Replaces(n, node)
  PROVE  /\ dst'[n] = node
         /\ \A m \in Names : m # n => dst'[m] = dst[m]
  BY Put DEF Replaces, Typed, TypeOK, Nodes

\* Every step that changes the destination, but rename(), is such a replacement.
LEMMA DestinationStep ==
  ASSUME Typed, DestinationInv, NewInv, [Next]_vars, dst' # dst
  PROVE  Rename \/ \E n \in Names : \E node \in Nodes : Replaces(n, node)
  <1>1. target \in Names /\ dst[target] \in Nodes /\ dst \in [Names -> Nodes]
    BY DEF Typed, TypeOK, Nodes
  <1>2. \A n \in Names : dst[n].kind \in {"none", "dir", "torn"} => dst[n].holds = {}
    BY DEF DestinationInv, HoldsInv
  <1>3. CASE CopyDirectory
    <2>1. dst[target].kind = "none" /\ ParentThere(target)
          /\ dst' = [dst EXCEPT ![target] = Directory]
      BY <1>3 DEF CopyDirectory
    <2>2. Replaces(target, Directory)
      BY <1>1, <1>2, <2>1, NodeFacts DEF Replaces
    <2> QED
      BY <1>1, <2>2, NodeFacts
  <1>4. CASE RenameDirectory
    <2>1. /\ dst[target].kind # "none" /\ dst[target].holds \subseteq sacrificed'
          /\ \/ dst' = [dst EXCEPT ![target] = Directory]
             \/ dst[target].kind # "dir" /\ dst' = [dst EXCEPT ![target] = Nothing]
      BY <1>4 DEF RenameDirectory
    <2>2. Replaces(target, Directory) \/ Replaces(target, Nothing)
      BY <1>1, <2>1, NodeFacts DEF Replaces
    <2> QED
      BY <1>1, <2>2, NodeFacts
  <1>5. CASE OpenDestination
    <2> DEFINE node == IF mode = "append" THEN Appending(dst[target].holds) ELSE Torn
    <2>1. /\ node \in Nodes /\ node.kind \in {"torn", "appending"}
          /\ node.holds = IF mode = "append" THEN dst[target].holds ELSE {}
      BY <1>1, NodeFacts
    <2>2. /\ dst' = [dst EXCEPT ![target] = node]
          /\ CanOpen /\ pc = "open" /\ sacrificed' = sacrificed
      BY <1>5 DEF OpenDestination, answers
    <2> HIDE DEF node
    <2>3. /\ dst[target].kind # "dir"
          /\ dst[target].kind = "none" => ParentThere(target)
      BY <2>2 DEF CanOpen, FileKinds
    <2>4. ASSUME NEW i \in dst[target].holds \cap Files
          PROVE  \/ i \in node.holds \cup sacrificed'
                 \/ m_IsStopped /\ i \in kept
                 \/ pc = "open" /\ i = item
      <3>1. CASE mode = "append"
        BY <2>1, <3>1
      <3>2. CASE mode = "overwrite"
        BY <2>2, <3>2 DEF DestinationInv, OpenInv
      <3>3. CASE mode = "new"
        BY <2>2, <3>3 DEF NewInv
      <3> QED
        BY <3>1, <3>2, <3>3 DEF Typed, TypeOK
    <2>5. Replaces(target, node)
      BY <2>1, <2>2, <2>3, <2>4 DEF Replaces
    <2> QED
      BY <1>1, <2>1, <2>5
  <1>6. CASE WriteDestination
    <2>1. pc = "write" /\ item \in Contents
      BY <1>6, ConstantFacts DEF WriteDestination, Typed, PositionInv
    <2>2. dst[target].kind = IF mode = "append" THEN "appending" ELSE "torn"
      BY <2>1 DEF DestinationInv, OpenInv
    <2>3. PICK node \in {File(dst[target].holds \cup {item}), File(dst[target].holds),
                         Cleaned(dst[target]), Nothing} :
              /\ dst' = [dst EXCEPT ![target] = node]
              /\ mode = "append" => node # Nothing
      BY <1>6, <2>2 DEF WriteDestination, Cleaned, File, Nothing
    <2>4. /\ node \in Nodes
          /\ node.holds \subseteq dst[target].holds \cup {item}
          /\ dst[target].holds \subseteq node.holds
      BY <1>1, <1>2, <2>1, <2>2, <2>3, NodeFacts DEF Cleaned
    <2>5. Replaces(target, node)
      BY <2>1, <2>2, <2>3, <2>4 DEF Replaces
    <2> QED
      BY <1>1, <2>4, <2>5
  <1>7. CASE \E n \in Slots \cup {target} : ExternalCreate(n)
    <2>1. PICK n \in Slots \cup {target} : ExternalCreate(n)
      BY <1>7
    <2>2. n \in Names /\ {-n} \in SUBSET Contents /\ -n \notin Files
      BY <1>1, <2>1, ConstantFacts DEF Contents
    <2>3. dst[n].kind = "none" /\ ParentThere(n) /\ dst' = [dst EXCEPT ![n] = File({-n})]
      BY <2>1 DEF ExternalCreate
    <2>4. Replaces(n, File({-n}))
      BY <1>2, <2>2, <2>3, NodeFacts DEF Replaces
    <2> QED
      BY <2>2, <2>4, NodeFacts
  <1> QED
    BY <1>3, <1>4, <1>5, <1>6, <1>7 DEF Next, Job, vars, Prepare, ScanSourceItem, ScanEnd,
       NextItem, StatDestination, AnswerExists, Verify, ClearSourceItem, ClearedSourceItems,
       UserStop

\* rename() moved the item, or the destination and the source are what they were.
LEMMA RenameStep ==
  ASSUME Rename
  PROVE  /\ pc = "rename"
         /\ \/ dst' = dst /\ src' = src
            \/ /\ ParentThere(target) /\ src' = [i \in Items |-> src[i] /\ i \notin Subtree(item)]
               /\ dst[target].kind \in {"none"} \cup (IF item \in Files THEN FileKinds ELSE {})
               /\ \A n \in Names : dst'[n] = Renamed(item, n)
  BY DEF Rename

LEMMA DestinationTreeKept ==
  ASSUME Typed, DestinationInv, NewInv, EntriesApart, TargetInv,
         SourceTreeInv, DestinationTreeInv, [Next]_vars
  PROVE  DestinationTreeInv'
  <1>1. CASE dst' = dst
    BY <1>1 DEF DestinationTreeInv, ParentThere
  <1>2. CASE \E n \in Names : \E node \in Nodes : Replaces(n, node)
    <2>1. PICK n \in Names, node \in Nodes : Replaces(n, node)
      BY <1>2
    <2>2. dst'[n] = node /\ \A m \in Names : m # n => dst'[m] = dst[m]
      BY <2>1, ReplacedFacts
    <2> QED
      BY <2>1, <2>2, DestinationTreeKeptBy DEF Replaces
  <1>3. CASE Rename /\ dst' # dst
    <2>1. /\ pc = "rename" /\ ParentThere(target)
          /\ dst[target].kind \in {"none"} \cup (IF item \in Files THEN FileKinds ELSE {})
          /\ \A n \in Names : dst'[n] = Renamed(item, n)
          /\ item \in Items
      BY <1>3, RenameStep DEF Typed, TypeOK, PositionInv
    <2>2. /\ dst'[target] = IF item \in Files THEN File({item}) ELSE Directory
          /\ \A j \in Moved :
                /\ j \in Items /\ Slot[j] \in Names /\ Slot[j] # target
                /\ dst[Slot[j]].kind = "none"
                /\ dst'[Slot[j]] = IF j \in Files THEN File({j}) ELSE Directory
          /\ \A n \in Names : n # target /\ (\A j \in Moved : Slot[j] # n) => dst'[n] = dst[n]
          /\ item \in Files => Moved = {}
          /\ target \in Names
      BY <2>1, RenamedFacts DEF Typed, TypeOK
    <2>3. dst[target].kind # "dir"
      BY <2>1 DEF FileKinds
    <2>4. \A n \in Names : dst[n].kind = "dir" => dst'[n].kind = "dir"
      BY <2>2, <2>3
    <2>5. ASSUME NEW j \in Moved
          PROVE  ParentThere(Slot[j])'
      <3>1. j \in Items /\ j \in Subtree(item) /\ j # item /\ src[j] /\ item \in Directories
        BY <2>1, <2>2, ConstantFacts DEF Moved
      <3>2. /\ Parent[j] \in Items /\ Parent[j] \in Subtree(item) /\ Parent[j] \in Directories
            /\ Parent[j] # 0
        BY <2>1, <3>1, SubtreeStep, ConstantFacts
      <3>3. src[Parent[j]] /\ Parent[j] \notin Files
        BY <3>1, <3>2, ConstantFacts DEF SourceTreeInv
      <3>4. Above(Slot[j]) = Slot[Parent[j]]
        BY <3>1, <3>2, AboveFacts
      <3>5. dst'[Slot[Parent[j]]] = Directory
        <4>1. CASE Parent[j] = item
          BY <2>1, <2>2, <3>3, <4>1 DEF TargetInv
        <4>2. CASE Parent[j] # item
          BY <2>2, <3>2, <3>3, <4>2 DEF Moved
        <4> QED
          BY <4>1, <4>2
      <3> QED
        BY <3>4, <3>5, NodeFacts DEF ParentThere
    <2>6. ASSUME NEW n \in Names, dst'[n].kind # "none"
          PROVE  dst[n].kind # "none" \/ ParentThere(n) \/ ParentThere(n)'
      <3>1. CASE n = target
        BY <2>1, <3>1
      <3>2. CASE \E j \in Moved : Slot[j] = n
        BY <2>5, <3>2
      <3> QED
        BY <2>2, <2>6, <3>1, <3>2
    <2> QED
      BY <2>4, <2>6, DestinationTreeKeptBy
  <1> QED
    BY <1>1, <1>2, <1>3, DestinationStep

-----------------------------------------------------------------------------
(* The contents of the selection.                                          *)

LEMMA AlternativeKept ==
  ASSUME Typed, DestinationInv, NewInv, EntriesApart, TargetInv, DestinationTreeInv,
         AlternativeInv, [Next]_vars
  PROVE  AlternativeInv'
  <1> SUFFICES ASSUME NEW i \in Files, NEW j \in dst'[Alternative(i)].holds \cap Files
               PROVE  j = i
    BY DEF AlternativeInv
  <1>1. /\ i \in 1..N /\ Alternative(i) \in Names /\ item \in Nat /\ N \in Nat
        /\ \A k \in Items : Slot[k] # Alternative(i)
        /\ \A k \in Nat : Alternative(k) = Alternative(i) => k = i
    <2>1. /\ i \in 1..N /\ Alternative(i) \in Names /\ N \in Nat
          /\ \A k \in Items : Slot[k] \in 1..N
      BY ConstantFacts
    <2>2. item \in Nat
      BY <2>1 DEF Typed, TypeOK
    <2> QED
      BY <2>1, <2>2 DEF Alternative
  <1>2. dst[Alternative(i)].holds \cap Files \subseteq {i}
    BY DEF AlternativeInv
  <1>3. CASE dst' = dst
    BY <1>2, <1>3
  <1>4. ASSUME pc \in {"write", "rename"}, target = Alternative(i)
        PROVE  i = item
    <2>1. item \in Items
      BY <1>4 DEF Typed, TypeOK, PositionInv
    <2> QED
      BY <1>1, <1>4, <2>1 DEF TargetInv
  <1>5. CASE \E n \in Names : \E node \in Nodes : Replaces(n, node)
    <2>1. PICK n \in Names, node \in Nodes : Replaces(n, node)
      BY <1>5
    <2>2. dst'[n] = node /\ \A m \in Names : m # n => dst'[m] = dst[m]
      BY <2>1, ReplacedFacts
    <2> QED
      BY <1>1, <1>2, <1>4, <2>1, <2>2 DEF Replaces
  <1>6. CASE Rename /\ dst' # dst
    <2>1. /\ pc = "rename"
          /\ dst[target].kind \in {"none"} \cup (IF item \in Files THEN FileKinds ELSE {})
          /\ \A n \in Names : dst'[n] = Renamed(item, n)
          /\ target \in Names
      BY <1>6, RenameStep DEF Typed, TypeOK
    <2>2. /\ Renamed(item, target) = IF item \in Files THEN File({item}) ELSE Directory
          /\ \A k \in Moved : k \in Items
          /\ \A n \in Names : n # target /\ (\A k \in Moved : Slot[k] # n) => Renamed(item, n) = dst[n]
      BY <2>1, RenamedFacts
    <2>3. CASE Alternative(i) = target
      <3>1. dst'[target].holds \subseteq {item}
        BY <2>1, <2>2, NodeFacts, ConstantFacts
      <3> QED
        BY <1>4, <2>1, <2>3, <3>1
    <2>4. CASE Alternative(i) # target
      <3>1. dst'[Alternative(i)] = dst[Alternative(i)]
        BY <1>1, <2>1, <2>2, <2>4
      <3> QED
        BY <1>2, <3>1
    <2> QED
      BY <2>3, <2>4
  <1> QED
    BY <1>3, <1>5, <1>6, DestinationStep

\* What the user has said, and a stop, stay.
LEMMA AnswersStay ==
  ASSUME Typed, [Next]_vars
  PROVE  /\ setup' = setup /\ sacrificed \subseteq sacrificed' /\ kept \subseteq kept'
         /\ m_Checksums \subseteq m_Checksums' /\ skipped \subseteq skipped'
         /\ m_IsStopped => m_IsStopped'
  BY DEF Typed, TypeOK, Next, Job, vars, Prepare, ScanSourceItem, ScanError, ScanEnd, NextItem,
     CopyDirectory, RenameDirectory, StatDestination, AnswerExists, OpenDestination,
     WriteDestination, AddChecksum, Rename, Verify, ClearSourceItem, ClearedSourceItems,
     UserStop, ExternalCreate, Ok, Error, Skipped, Stopped, environment, marked, answers

LEMMA NewKept ==
  ASSUME Typed, DestinationInv, TargetInv, AlternativeInv, NewInv, [Next]_vars
  PROVE  NewInv'
  <1> SUFFICES ASSUME pc' \in {"open", "rename"}, mode' = "new"
               PROVE  \A i \in dst'[target'].holds \cap Files :
                          i = item' \/ (m_IsStopped' /\ i \in kept')
    BY DEF NewInv
  <1>1. target \in Names
    BY DEF Typed, TypeOK
  <1>2. CASE StatDestination
    <2>1. dst[target].kind = "none" /\ dst' = dst /\ target' = target
      BY <1>2 DEF StatDestination, Error, Skipped, Stopped
    <2>2. dst[target].holds = {}
      BY <1>1, <2>1 DEF DestinationInv, HoldsInv
    <2> QED
      BY <2>1, <2>2
  <1>3. CASE AnswerExists
    <2>1. /\ dst' = dst /\ kept' = kept \cup dst[target].holds /\ target' = NonexistentPath
          /\ m_IsStopped' = m_IsStopped /\ item' = item /\ item \in Files
      BY <1>3 DEF AnswerExists, Error, Skipped, Stopped, Typed, PositionInv
    <2>2. CASE m_IsStopped
      BY <2>1, <2>2 DEF NonexistentPath
    <2>3. CASE ~m_IsStopped
      <3>1. target' = Alternative(item) /\ dst[Alternative(item)].holds \cap Files \subseteq {item}
        BY <2>1, <2>3 DEF NonexistentPath, AlternativeInv
      <3> QED
        BY <2>1, <3>1
    <2> QED
      BY <2>2, <2>3
  <1>4. CASE UserStop \/ UNCHANGED vars
    <2>1. /\ dst' = dst /\ target' = target /\ pc' = pc /\ mode' = mode /\ item' = item
          /\ kept' = kept
          /\ m_IsStopped => m_IsStopped'
      BY <1>4 DEF UserStop, vars, answers
    <2> QED
      BY <2>1 DEF NewInv
  <1>5. CASE \E n \in Slots \cup {target} : ExternalCreate(n)
    <2>1. PICK n \in Slots \cup {target} : ExternalCreate(n)
      BY <1>5
    <2>2. /\ dst' = [dst EXCEPT ![n] = File({-n})] /\ target' = target /\ pc' = pc /\ mode' = mode
          /\ item' = item /\ kept' = kept /\ m_IsStopped' = m_IsStopped
      BY <2>1 DEF ExternalCreate, answers
    <2>3. n \in Names /\ {-n} \in SUBSET Contents /\ -n \notin Files
      BY <1>1, <2>1, ConstantFacts DEF Contents
    <2>4. dst'[n].holds = {-n} /\ \A m \in Names : m # n => dst'[m] = dst[m]
      BY <2>2, <2>3, NodeFacts DEF Typed, TypeOK
    <2>5. dst'[target].holds \cap Files \subseteq dst[target].holds
      BY <1>1, <2>3, <2>4
    <2> QED
      BY <2>2, <2>5 DEF NewInv
  <1> QED
    BY <1>2, <1>3, <1>4, <1>5
    DEF Next, Job, Prepare, ScanSourceItem, ScanError, ScanEnd, NextItem, Proceed, CopyDirectory,
        RenameDirectory, OpenDestination, WriteDestination, Rename, Verify, ClearSourceItem,
        ClearedSourceItems, Ok, Error, Skipped, Stopped

\* A content that is safe stays so, but for an older copy of the file being copied.
LEMMA SafeKept ==
  ASSUME Typed, DestinationInv, TargetInv, NewInv, EntriesApart, DestinationTreeInv,
         [Next]_vars, NEW i \in Files, Safe(i)
  PROVE  Safe(i)' \/ (pc = "open" /\ i = item)
  <1>1. /\ sacrificed \subseteq sacrificed' /\ kept \subseteq kept'
        /\ m_IsStopped => m_IsStopped'
    BY AnswersStay
  <1>2. CASE i \in sacrificed \/ (m_IsStopped /\ i \in kept)
    BY <1>1, <1>2 DEF Safe
  <1>3. CASE i \in Held
    <2>1. PICK n \in Names : i \in dst[n].holds
      BY <1>3 DEF Held
    <2>2. \A m \in Names : i \in dst'[m].holds => Safe(i)'
      BY DEF Safe, Held
    <2>3. CASE dst' = dst
      BY <2>1, <2>2, <2>3
    <2>4. CASE \E m \in Names : \E node \in Nodes : Replaces(m, node)
      <3>1. PICK m \in Names, node \in Nodes : Replaces(m, node)
        BY <2>4
      <3>2. dst'[m] = node /\ \A k \in Names : k # m => dst'[k] = dst[k]
        BY <3>1, ReplacedFacts
      <3>3. CASE n = m
        BY <1>1, <2>1, <2>2, <3>1, <3>2, <3>3 DEF Replaces, Safe
      <3> QED
        BY <2>1, <2>2, <3>2, <3>3
    <2>5. CASE Rename /\ dst' # dst
      <3>1. /\ pc = "rename"
            /\ dst[target].kind \in {"none"} \cup (IF item \in Files THEN FileKinds ELSE {})
            /\ \A m \in Names : dst'[m] = Renamed(item, m)
            /\ target \in Names
        BY <2>5, RenameStep DEF Typed, TypeOK
      <3>2. /\ dst'[target] = IF item \in Files THEN File({item}) ELSE Directory
            /\ \A k \in Moved : Slot[k] \in Names /\ dst[Slot[k]].kind = "none"
            /\ \A m \in Names : m # target /\ (\A k \in Moved : Slot[k] # m) => dst'[m] = dst[m]
        BY <3>1, RenamedFacts
      <3>3. \A k \in Moved : dst[Slot[k]].holds = {}
        BY <3>2 DEF DestinationInv, HoldsInv
      <3>4. CASE n = target
        <4>1. CASE mode = "overwrite"
          <5>1. i \in sacrificed
            BY <2>1, <3>1, <3>4, <4>1 DEF DestinationInv, OpenInv
          <5> QED
            BY <1>1, <5>1 DEF Safe
        <4>2. CASE mode = "new"
          <5>1. i = item \/ (m_IsStopped /\ i \in kept)
            BY <2>1, <3>1, <3>4, <4>2 DEF NewInv
          <5>2. i = item => i \in dst'[target].holds
            BY <3>2, NodeFacts, ConstantFacts
          <5> QED
            BY <1>1, <2>2, <3>1, <5>1, <5>2 DEF Safe
        <4>3. mode \in {"new", "overwrite"}
          BY <3>1 DEF Typed, TypeOK, PositionInv
        <4> QED
          BY <4>1, <4>2, <4>3
      <3> QED
        BY <2>1, <2>2, <3>2, <3>3, <3>4
    <2> QED
      BY <2>3, <2>4, <2>5, DestinationStep
  <1> QED
    BY <1>2, <1>3 DEF Safe

\* What a step does to the marks: it leaves them, or unmarks the last item, or marks the one
\* it is done with.
LEMMA MarkingStep ==
  ASSUME Typed, [Next]_vars
  PROVE  \/ UNCHANGED m_SourceItemsToDelete
         \/ /\ ClearSourceItem
            /\ ToSet(m_SourceItemsToDelete') \subseteq ToSet(m_SourceItemsToDelete)
         \/ /\ CopyDirectory \/ RenameDirectory \/ WriteDestination
            /\ ToSet(m_SourceItemsToDelete') = ToSet(m_SourceItemsToDelete) \cup {item}
            /\ pc' \in {"next", "over"} /\ item' = item
  <1>1. CASE ClearSourceItem
    BY <1>1, ClearedFacts DEF ClearSourceItem
  <1>2. CASE CopyDirectory \/ RenameDirectory \/ WriteDestination
    <2>1. /\ UNCHANGED m_SourceItemsToDelete \/ Mark
          /\ pc' \in {"next", "over"} /\ item' = item /\ item \in m_SourceItems
      BY <1>2 DEF CopyDirectory, RenameDirectory, WriteDestination, MarkIfMoving, Ok, Error,
         Skipped, Stopped, Typed, PositionInv
    <2>2. Mark => ToSet(m_SourceItemsToDelete') = ToSet(m_SourceItemsToDelete) \cup {item}
      BY <2>1, MarkFacts
    <2> QED
      BY <1>2, <2>1, <2>2
  <1> QED
    BY <1>1, <1>2 DEF Next, Job, vars, marked, Prepare, ScanSourceItem, ScanEnd, NextItem,
       StatDestination, AnswerExists, OpenDestination, Rename, Verify, ClearedSourceItems,
       UserStop, ExternalCreate

\* The loop over the items goes forward.
LEMMA ItemStep ==
  ASSUME Typed, [Next]_vars
  PROVE  \/ item' = item /\ (pc' \in {"process", "ask", "open", "write", "rename"} =>
                                 pc \in {"process", "ask", "open", "write", "rename"})
         \/ m_SourceItemsToDelete = <<>> /\ UNCHANGED m_SourceItemsToDelete
         \/ NextItem /\ UNCHANGED m_SourceItemsToDelete /\ item' > item
  <1>1. CASE NextItem
    <2>1. item \in Nat /\ UNCHANGED m_SourceItemsToDelete
      BY <1>1, ConstantFacts DEF Typed, TypeOK, NextItem, marked
    <2>2. (pc' = "over" /\ item' = item) \/ Proceed(item)
      BY <1>1 DEF NextItem
    <2> QED
      BY <1>1, <2>1, <2>2, ProceedFacts
  <1>2. CASE ScanSourceItem \/ ScanEnd
    BY <1>2 DEF ScanSourceItem, ScanEnd, Typed, PositionInv, marked
  <1> QED
    BY <1>1, <1>2 DEF Next, Job, vars, Prepare, CopyDirectory, RenameDirectory, StatDestination,
       AnswerExists, OpenDestination, WriteDestination, Rename, Verify, ClearSourceItem,
       ClearedSourceItems, UserStop, ExternalCreate, Ok, Error, Skipped, Stopped

LEMMA MarkedBehindKept ==
  ASSUME Typed, MarkedBehind, [Next]_vars
  PROVE  MarkedBehind'
  <1> DEFINE Busy == {"process", "ask", "open", "write", "rename"}
             Set == ToSet(m_SourceItemsToDelete)
  <1>1. item \in Nat /\ Set \subseteq Nat
    <2>1. Items \subseteq Nat /\ N \in Nat
      BY ConstantFacts
    <2>2. Set \subseteq Items
      BY MarkedFacts
    <2>3. item \in 0..N + 1
      BY DEF Typed, TypeOK
    <2>4. item \in Nat
      BY <2>1, <2>3
    <2> HIDE DEF Set
    <2> QED
      BY <2>1, <2>2, <2>4
  <1>2. \A i \in Set : i <= item /\ (pc \in Busy => i < item)
    BY DEF MarkedBehind
  <1>3. m_SourceItemsToDelete = <<>> <=> Set = {}
    BY MarkedFacts
  <1>4. item' \in Nat
    BY TypesKept, ConstantFacts DEF Typed, TypeOK
  <1>5. SUFFICES \A i \in Set' : i <= item' /\ (pc' \in Busy => i < item')
    BY DEF MarkedBehind
  <1> HIDE DEF Set
  <1>6. CASE UNCHANGED m_SourceItemsToDelete
    <2>1. Set' = Set
      BY <1>6 DEF Set
    <2>2. CASE item' > item
      BY <1>1, <1>2, <1>4, <2>1, <2>2
    <2>3. CASE item' = item /\ (pc' \in Busy => pc \in Busy)
      BY <1>2, <2>1, <2>3
    <2> QED
      BY <1>3, <2>1, <2>2, <2>3, ItemStep
  <1>7. CASE ClearSourceItem /\ Set' \subseteq Set
    BY <1>2, <1>7 DEF ClearSourceItem
  <1>8. CASE pc' \in {"next", "over"} /\ item' = item /\ Set' = Set \cup {item}
    BY <1>1, <1>2, <1>8
  <1> QED
    BY <1>6, <1>7, <1>8, MarkingStep DEF Set

\* Where the contents of the selection are, and what that rests on.
SelectionInv ==
    /\ TargetInv
    /\ AlternativeInv
    /\ NewInv
    /\ SourceTreeInv
    /\ DestinationTreeInv
    /\ MarkedBehind
    /\ MarkedSafe
    /\ SourcesNotLost

\* Verification finds each of its files at the destination.
LEMMA VerifiedSafe ==
  ASSUME Typed, AllMatch, NEW i \in Files, Summed(i)
  PROVE  Safe(i)
  <1>1. PICK n \in Names : <<i, n>> \in m_Checksums
    BY DEF Summed
  <1>2. <<i, n>>[1] = i /\ <<i, n>>[2] = n
    OBVIOUS
  <1>3. dst[n] = File({i})
    BY <1>1, <1>2 DEF AllMatch
  <1>4. i \in dst[n].holds
    BY <1>3, NodeFacts, ConstantFacts
  <1> QED
    BY <1>4 DEF Safe, Held

\* A file that is marked was copied, or has a checksum.
LEMMA WrittenSafe ==
  ASSUME Typed, Typed', SetupsInScope, WriteDestination, Mark \/ (pc' = "next" /\ skipped' = {})
  PROVE  IF setup.verify THEN Summed(item)' ELSE Safe(item)'
  <1>1. setup \in Setups /\ target \in Names /\ item \in Contents /\ dst[target] \in Nodes
    BY ConstantFacts DEF Typed, TypeOK, PositionInv, WriteDestination, Nodes
  <1>2. Mark => m_SourceItemsToDelete' # m_SourceItemsToDelete
    <2>1. m_SourceItemsToDelete \in Seq(m_SourceItems) /\ item \in m_SourceItems
      BY DEF Typed, TypeOK, PositionInv, WriteDestination
    <2>2. /\ Len(Append(m_SourceItemsToDelete, item)) = Len(m_SourceItemsToDelete) + 1
          /\ Len(m_SourceItemsToDelete) \in Nat
      BY <2>1, AppendProperties, LenProperties
    <2> QED
      BY <2>2 DEF Mark
  <1>3. /\ \/ dst' = [dst EXCEPT ![target] = File(@.holds \cup {item})]
           \/ setup.verify
           \/ setup.deferred /\ ~setup.native
        /\ AddChecksum
    <2>1. Error /\ UNCHANGED m_SourceItemsToDelete => FALSE
      BY <1>2 DEF Error, Skipped, Stopped
    <2> QED
      BY <2>1 DEF WriteDestination
  <1>4. CASE setup.verify
    BY <1>1, <1>3, <1>4 DEF AddChecksum, Summed, Typed, TypeOK, WriteDestination
  <1>5. CASE ~setup.verify
    <2>1. dst' = [dst EXCEPT ![target] = File(dst[target].holds \cup {item})]
      BY <1>1, <1>3, <1>5 DEF SetupsInScope, InScope
    <2>2. File(dst[target].holds \cup {item}).holds = dst[target].holds \cup {item}
      BY <1>1, NodeFacts
    <2>3. item \in dst'[target].holds
      BY <1>1, <2>1, <2>2 DEF Typed, TypeOK
    <2>4. item' = item
      BY DEF WriteDestination
    <2> QED
      BY <1>1, <1>5, <2>3, <2>4 DEF Safe, Held
  <1> QED
    BY <1>4, <1>5

LEMMA MarkedSafeKept ==
  ASSUME Typed, Typed', DestinationInv, EntriesApart, SetupsInScope, SelectionInv, [Next]_vars
  PROVE  MarkedSafe'
  <1> USE DEF SelectionInv
  <1> SUFFICES ASSUME NEW i \in ToSet(m_SourceItemsToDelete') \cap Files
               PROVE  IF setup.verify /\ pc' # "clean" THEN Summed(i)' \/ pc' = "over" ELSE Safe(i)'
    BY AnswersStay DEF MarkedSafe
  <1>1. /\ m_Checksums \subseteq m_Checksums'
        /\ Summed(i) => Summed(i)'
    BY AnswersStay DEF Summed
  <1>2. CASE i \in ToSet(m_SourceItemsToDelete)
    <2>1. IF setup.verify /\ pc # "clean" THEN Summed(i) \/ pc = "over" ELSE Safe(i)
      BY <1>2 DEF MarkedSafe
    <2>2. ~(pc = "open" /\ i = item)
      <3>1. pc = "open" => i < item
        BY <1>2 DEF MarkedBehind
      <3>2. i \in Nat
        <4>1. \A j \in Files : j \in Nat
          BY ConstantFacts
        <4> QED
          BY <4>1
      <3> QED
        BY <3>1, <3>2
    <2>3. Safe(i) => Safe(i)'
      BY <2>2, SafeKept
    <2>4. /\ pc = "clean" => pc' \in {"clean", "over"}
          /\ pc = "over" => pc' = "over"
      BY DEF Next, Job, vars, Prepare, ScanSourceItem, ScanEnd, NextItem, CopyDirectory,
         RenameDirectory, StatDestination, AnswerExists, OpenDestination, WriteDestination,
         Rename, Verify, ClearSourceItem, ClearedSourceItems, UserStop, ExternalCreate
    <2>5. pc' = "clean" => pc = "clean" \/ (Verify /\ AllMatch)
      BY DEF Next, Job, vars, Prepare, ScanSourceItem, ScanError, ScanEnd, NextItem, Proceed,
         CopyDirectory, RenameDirectory, StatDestination, AnswerExists, OpenDestination,
         WriteDestination, Rename, Verify, ClearSourceItem, ClearedSourceItems, UserStop,
         ExternalCreate, Ok, Error, Skipped, Stopped
    <2>6. CASE setup.verify /\ pc' = "clean" /\ pc # "clean"
      <3>1. Verify /\ AllMatch /\ pc # "over" /\ dst' = dst
        BY <2>5, <2>6 DEF Verify
      <3> QED
        BY <2>1, <2>3, <2>6, <3>1, VerifiedSafe
    <2> QED
      BY <1>1, <2>1, <2>3, <2>4, <2>6
  <1>3. CASE i \notin ToSet(m_SourceItemsToDelete)
    <2>1. /\ CopyDirectory \/ RenameDirectory \/ WriteDestination
          /\ i = item /\ pc' \in {"next", "over"} /\ item' = item
          /\ ~UNCHANGED m_SourceItemsToDelete
      BY <1>3, MarkingStep
    <2>2. WriteDestination /\ Mark
      BY <2>1, ConstantFacts DEF CopyDirectory, RenameDirectory, WriteDestination, MarkIfMoving
    <2>3. IF setup.verify THEN Summed(item)' ELSE Safe(item)'
      BY <2>2, WrittenSafe
    <2> QED
      BY <2>1, <2>3 DEF Summed, Safe
  <1> QED
    BY <1>2, <1>3

\* What rename() takes from the source it brings to the destination.
LEMMA RenamedSafe ==
  ASSUME Typed, EntriesApart, SelectionInv, Rename, NEW i \in Files, src[i], ~src'[i]
  PROVE  Safe(i)'
  <1>1. /\ pc = "rename"
        /\ src' = [j \in Items |-> src[j] /\ j \notin Subtree(item)]
        /\ dst[target].kind \in {"none"} \cup (IF item \in Files THEN FileKinds ELSE {})
        /\ \A n \in Names : dst'[n] = Renamed(item, n)
        /\ target \in Names /\ i \in Items
    BY RenameStep, ConstantFacts DEF Typed, TypeOK
  <1>2. i \in Subtree(item)
    BY <1>1
  <1>3. File({i}).holds = {i}
    BY NodeFacts, ConstantFacts
  <1>4. \E n \in Names : dst'[n] = File({i})
    <2>1. /\ Renamed(item, target) = IF item \in Files THEN File({item}) ELSE Directory
          /\ \A j \in Moved :
                 /\ Slot[j] \in Names
                 /\ Renamed(item, Slot[j]) = IF j \in Files THEN File({j}) ELSE Directory
      BY <1>1, RenamedFacts DEF SelectionInv
    <2>2. CASE i = item
      BY <1>1, <2>1, <2>2
    <2>3. CASE i # item
      BY <1>1, <1>2, <2>1, <2>3 DEF Moved
    <2> QED
      BY <2>2, <2>3
  <1> QED
    BY <1>3, <1>4 DEF Safe, Held

LEMMA SourcesKept ==
  ASSUME Typed, Typed', DestinationInv, EntriesApart, SetupsInScope, SelectionInv, [Next]_vars
  PROVE  SourcesNotLost'
  <1> USE DEF SelectionInv
  <1>1. SUFFICES ASSUME NEW i \in Files
                 PROVE  src'[i] \/ Safe(i)'
    BY DEF SourcesNotLost, Safe
  <1>2. src[i] \/ Safe(i)
    BY DEF SourcesNotLost, Safe
  <1>3. Safe(i) => Safe(i)' \/ (pc = "open" /\ i = item)
    BY SafeKept
  <1>4. CASE Rename
    <2>1. pc # "open"
      BY <1>4 DEF Rename
    <2> QED
      BY <1>2, <1>3, <1>4, <2>1, RenamedSafe
  <1>5. CASE ClearSourceItem
    <2> DEFINE c == Last(m_SourceItemsToDelete)
    <2>1. /\ pc = "clean" /\ m_SourceItemsToDelete # <<>>
          /\ src' = src \/ src' = [j \in Items |-> src[j] /\ j \notin Removed(c)]
      BY <1>5 DEF ClearSourceItem
    <2>2. Removed(c) = {c}
      BY DEF Removed, SetupsInScope, InScope, Typed, TypeOK
    <2>3. c \in ToSet(m_SourceItemsToDelete)
      BY <2>1, ClearedFacts
    <2> HIDE DEF c
    <2>4. CASE i = c
      BY <1>3, <2>1, <2>3, <2>4 DEF MarkedSafe
    <2>5. CASE i # c
      BY <1>2, <1>3, <2>1, <2>2, <2>5, ConstantFacts
    <2> QED
      BY <2>4, <2>5
  <1>6. CASE src' = src
    BY <1>2, <1>3, <1>6 DEF Typed, PositionInv
  <1> QED
    BY <1>4, <1>5, <1>6 DEF Next, Job, vars, Prepare, ScanSourceItem, ScanEnd, NextItem,
       CopyDirectory, RenameDirectory, StatDestination, AnswerExists, OpenDestination,
       WriteDestination, Verify, ClearedSourceItems, UserStop, ExternalCreate

-----------------------------------------------------------------------------
(* A job that gives up on nothing.                                         *)

\* Where an item came to be dealt with.
LEMMA DoneStep ==
  ASSUME Typed, [Next]_vars, pc' \notin {"prepare", "scan"}, NEW i \in Items, Done(i)',
         ~m_IsStopped', skipped' = {}
  PROVE  \/ pc \notin {"prepare", "scan"} /\ Done(i)
         \/ /\ i = item /\ pc' = "next"
            /\ CopyDirectory \/ RenameDirectory \/ WriteDestination \/ Rename
  <1>1. i \in Nat /\ item \in Nat /\ i \in 1..N /\ N \in Nat
    <2>1. N \in Nat /\ Items = 1..N
      BY ConstantFacts
    <2>2. item \in 0..N + 1
      BY DEF Typed, TypeOK
    <2> QED
      BY <2>1, <2>2
  <1>2. CASE ScanEnd
    <2>1. pc' \in {"process", "verify"} /\ m_SourceItems' = m_SourceItems
      BY <1>2 DEF ScanEnd, scanned, Proceed
    <2>2. Proceed(0) /\ 0 \in Nat
      BY <1>2 DEF ScanEnd
    <2>3. i \notin m_SourceItems \/ (pc' = "process" /\ item' <= i /\ item' \in m_SourceItems)
      BY <1>1, <2>1, <2>2, ProceedFacts
    <2>4. item' \in m_SourceItems => item' \in Nat
      <3>1. Items \subseteq Nat
        BY ConstantFacts
      <3> QED
        BY <3>1 DEF Typed, TypeOK
    <2> QED
      BY <1>1, <2>1, <2>3, <2>4 DEF Done
  <1>3. CASE NextItem
    <2>1. pc' \in {"over", "process", "verify"} /\ m_SourceItems' = m_SourceItems /\ pc = "next"
          /\ m_IsStopped' = m_IsStopped
      BY <1>3 DEF NextItem, scanned, Proceed
    <2>2. Proceed(item)
      BY <1>3, <2>1 DEF NextItem
    <2>3. i \in m_SourceItems => i <= item \/ (pc' = "process" /\ item' <= i /\ item' \in m_SourceItems)
      BY <1>1, <2>1, <2>2, ProceedFacts
    <2>4. item' \in m_SourceItems => item' \in Nat
      <3>1. Items \subseteq Nat
        BY ConstantFacts
      <3> QED
        BY <3>1 DEF Typed, TypeOK
    <2> QED
      BY <1>1, <2>1, <2>3, <2>4 DEF Done
  <1>4. CASE Prepare \/ ScanSourceItem
    <2>1. pc' = "scan" \/ m_IsStopped'
      BY <1>4 DEF Prepare, ScanSourceItem, ScanError, Stopped
    <2> QED
      BY <2>1
  <1>5. CASE CopyDirectory \/ RenameDirectory \/ WriteDestination \/ Rename
    <2>1. /\ pc' = "next" \/ m_IsStopped' = TRUE
          /\ item' = item /\ m_SourceItems' = m_SourceItems /\ pc \in {"process", "write", "rename"}
      BY <1>5 DEF CopyDirectory, RenameDirectory, WriteDestination, Rename, Ok, Error, Skipped,
         Stopped, scanned
    <2> QED
      BY <1>5, <2>1 DEF Done
  <1>6. CASE StatDestination \/ AnswerExists \/ OpenDestination
    <2>1. /\ pc' \in {"ask", "open", "write", "rename"} \/ m_IsStopped' = TRUE \/ skipped' # {}
          /\ item' = item /\ m_SourceItems' = m_SourceItems /\ pc \in {"process", "ask", "open"}
      BY <1>6 DEF StatDestination, AnswerExists, OpenDestination, Error, Skipped, Stopped, scanned
    <2> QED
      BY <2>1 DEF Done
  <1>7. CASE Verify \/ ClearSourceItem \/ ClearedSourceItems
    BY <1>7 DEF Verify, ClearSourceItem, ClearedSourceItems, scanned, Done
  <1>8. CASE UserStop \/ UNCHANGED vars \/ \E n \in Slots \cup {target} : ExternalCreate(n)
    BY <1>8 DEF UserStop, vars, ExternalCreate, scanned, Done
  <1> QED
    BY <1>2, <1>3, <1>4, <1>5, <1>6, <1>7, <1>8 DEF Next, Job

\* What was accounted for stays so.
LEMMA AccountedKept ==
  ASSUME Typed, DestinationInv, EntriesApart, SelectionInv, [Next]_vars,
         ~m_IsStopped', skipped' = {}, NEW i \in Items, Done(i), pc \notin {"prepare", "scan"},
         Accounted(i)
  PROVE  Accounted(i)'
  <1> USE DEF SelectionInv
  <1>1. setup' = setup /\ (Summed(i) => Summed(i)')
    BY AnswersStay DEF Summed
  <1>2. CASE setup.docopy
    <2> SUFFICES ASSUME i \in Files
                 PROVE  IF setup.verify /\ pc' \notin {"clean", "over"} THEN Summed(i)' ELSE Safe(i)'
      BY <1>1, <1>2 DEF Accounted
    <2>1. IF setup.verify /\ pc \notin {"clean", "over"} THEN Summed(i) ELSE Safe(i)
      BY <1>2 DEF Accounted
    <2>2. ~(pc = "open" /\ i = item)
      <3>1. pc = "open" => i < item
        BY DEF Done
      <3>2. i \in Nat
        <4>1. Items \subseteq Nat
          BY ConstantFacts
        <4> QED
          BY <4>1
      <3> QED
        BY <3>1, <3>2
    <2>3. Safe(i) => Safe(i)'
      BY <2>2, SafeKept
    <2>4. \/ pc \in {"clean", "over"} <=> pc' \in {"clean", "over"}
          \/ Verify /\ AllMatch
      <3>1. Verify => AllMatch
        <4>1. ASSUME Verify, ~AllMatch
              PROVE  skipped' # {}
          <5>1. PICK c \in m_Checksums : TRUE
            BY <4>1 DEF Verify
          <5>2. c[1] \in skipped'
            BY <4>1, <5>1 DEF Verify
          <5> QED
            BY <5>2
        <4> QED
          BY <4>1
      <3>2. pc \in {"clean", "over"} => pc' \in {"clean", "over"}
        BY DEF Next, Job, vars, Prepare, ScanSourceItem, ScanEnd, NextItem, CopyDirectory,
           RenameDirectory, StatDestination, AnswerExists, OpenDestination, WriteDestination,
           Rename, Verify, ClearSourceItem, ClearedSourceItems, UserStop, ExternalCreate
      <3>3. pc' \in {"clean", "over"} => pc \in {"clean", "over"} \/ Verify
        <4>1. ~m_IsStopped
          BY AnswersStay
        <4>2. CASE NextItem \/ ScanSourceItem
          BY <4>1, <4>2 DEF NextItem, Proceed, ScanSourceItem, ScanError, Stopped
        <4> QED
          BY <4>2 DEF Next, Job, vars, Prepare, ScanEnd, Proceed, CopyDirectory,
             RenameDirectory, StatDestination, AnswerExists, OpenDestination, WriteDestination,
             Rename, ClearSourceItem, ClearedSourceItems, UserStop, ExternalCreate, Ok, Error,
             Skipped, Stopped
      <3> QED
        BY <3>1, <3>2, <3>3
    <2>5. CASE Verify /\ AllMatch
      <3>1. Summed(i) => Safe(i)
        BY <2>5, VerifiedSafe
      <3>2. pc' \in {"clean", "over"} /\ pc = "verify"
        BY <2>5 DEF Verify
      <3> QED
        BY <2>1, <2>3, <3>1, <3>2
    <2> QED
      BY <1>1, <2>1, <2>3, <2>4, <2>5
  <1>3. CASE ~setup.docopy
    <2> SUFFICES ~src'[i] \/ i \in ToSet(m_SourceItemsToDelete')
      BY <1>1, <1>3 DEF Accounted
    <2>1. ~src[i] \/ i \in ToSet(m_SourceItemsToDelete)
      BY <1>3 DEF Accounted
    <2>2. ~src[i] => ~src'[i]
      BY DEF Next, Job, vars, Prepare, ScanSourceItem, ScanEnd, NextItem, CopyDirectory,
         RenameDirectory, StatDestination, AnswerExists, OpenDestination, WriteDestination,
         Rename, Verify, ClearSourceItem, ClearedSourceItems, UserStop, ExternalCreate
    <2>3. CASE ClearSourceItem
      <3> DEFINE c == Last(m_SourceItemsToDelete)
      <3>1. /\ m_SourceItemsToDelete # <<>>
            /\ m_SourceItemsToDelete' = Front(m_SourceItemsToDelete)
            /\ src' = [j \in Items |-> src[j] /\ j \notin Removed(c)]
        BY <2>3 DEF ClearSourceItem
      <3>2. ToSet(m_SourceItemsToDelete) = ToSet(m_SourceItemsToDelete') \cup {c}
        BY <3>1, ClearedFacts
      <3> HIDE DEF c
      <3>3. i = c => i \in Removed(c)
        BY SubtreeFacts DEF Removed
      <3> QED
        BY <2>1, <2>2, <3>1, <3>2, <3>3
    <2> QED
      BY <2>1, <2>2, <2>3, MarkingStep
  <1> QED
    BY <1>2, <1>3

\* An item that was dealt with without an error is accounted for.
LEMMA DealtWith ==
  ASSUME Typed, Typed', SetupsInScope, [Next]_vars, pc' = "next", skipped' = {},
         CopyDirectory \/ RenameDirectory \/ WriteDestination \/ Rename
  PROVE  item \in Items /\ Accounted(item)'
  <1>1. item \in Items /\ item' = item /\ setup' = setup
    BY AnswersStay
    DEF CopyDirectory, RenameDirectory, WriteDestination, Rename, Typed, TypeOK, PositionInv
  <1>2. ASSUME Mark, item \notin Files
        PROVE  Accounted(item)'
    <2>1. item \in ToSet(m_SourceItemsToDelete')
      BY <1>1, <1>2, MarkFacts
      DEF CopyDirectory, RenameDirectory, WriteDestination, Rename, Typed, PositionInv
    <2> QED
      BY <1>1, <1>2, <2>1 DEF Accounted
  <1>3. CASE CopyDirectory \/ RenameDirectory
    <2>1. item \notin Files /\ (setup.docopy \/ Mark)
      BY <1>3, ConstantFacts DEF CopyDirectory, RenameDirectory, MarkIfMoving, Error, Skipped, Stopped
    <2> QED
      BY <1>1, <1>2, <2>1 DEF Accounted
  <1>4. CASE WriteDestination
    <2>1. setup.docopy \/ Mark
      BY <1>4 DEF WriteDestination, MarkIfMoving, Error, Skipped, Stopped
    <2>2. Mark => item \in ToSet(m_SourceItemsToDelete')
      BY <1>4, MarkFacts DEF WriteDestination, Typed, PositionInv
    <2>3. IF setup.verify THEN Summed(item)' ELSE Safe(item)'
      BY <1>4, WrittenSafe
    <2> QED
      BY <1>1, <2>1, <2>2, <2>3 DEF Accounted, Summed, Safe
  <1>5. CASE Rename
    <2>1. ~setup.docopy /\ src' = [i \in Items |-> src[i] /\ i \notin Subtree(item)]
      BY <1>5 DEF Rename, Error, Skipped, Stopped, Typed, PositionInv, Renaming
    <2>2. ~src'[item]
      BY <1>1, <2>1, SubtreeFacts
    <2> QED
      BY <1>1, <2>1, <2>2 DEF Accounted
  <1> QED
    BY <1>1, <1>3, <1>4, <1>5

\* The scan goes over every item.
LEMMA ReachedKept ==
  ASSUME Typed, AccountInv, [Next]_vars, ~m_IsStopped', skipped' = {},
         NEW i \in Items, i < item' \/ pc' \notin {"prepare", "scan"}
  PROVE  Reached(i)'
  <1>1. /\ ~m_IsStopped /\ skipped = {} /\ setup' = setup
        /\ \A j \in Items : j < item \/ pc \notin {"prepare", "scan"} => Reached(j)
    BY AnswersStay DEF AccountInv
  <1>2. i \in Nat /\ i <= N /\ N \in Nat /\ item \in Nat
    <2>1. N \in Nat /\ Items = 1..N
      BY ConstantFacts
    <2>2. item \in 0..N + 1
      BY DEF Typed, TypeOK
    <2> QED
      BY <2>1, <2>2
  <1>3. ASSUME Reached(i), m_SourceItems \subseteq m_SourceItems', entered \subseteq entered'
        PROVE  Reached(i)'
    BY <1>1, <1>3 DEF Reached, Renaming
  <1>4. CASE ScanSourceItem
    <2>1. /\ pc = "scan" /\ item' = item + 1
          /\ m_SourceItems \subseteq m_SourceItems' /\ entered \subseteq entered'
      BY <1>4 DEF ScanSourceItem, scanned
    <2>2. pc' = "scan"
      BY <1>1, <1>4 DEF ScanSourceItem, ScanError, Stopped
    <2>3. CASE i < item
      BY <1>1, <1>3, <2>1, <2>3
    <2>4. CASE i = item
      <3>1. ~ScanError
        BY <1>4, <2>4 DEF ScanSourceItem, ScanError, Stopped
      <3>2. CASE Parent[i] \notin entered \cup {0}
        <4>1. Parent[i] \in Items /\ Parent[i] < item /\ Parent[i] \in Directories
          BY <2>4, <3>2, ConstantFacts
        <4>2. Reached(Parent[i])
          BY <1>1, <4>1
        <4>3. Renaming
          BY <3>2, <4>1, <4>2 DEF Reached
        <4> QED
          BY <1>1, <3>2, <4>3 DEF Reached, Renaming
      <3>3. CASE Parent[i] \in entered \cup {0}
        <4>1. /\ i \in m_SourceItems'
              /\ i \in entered' \/ i \in Files \/ ~GoInside(i)
          BY <1>1, <1>4, <2>4, <3>1, <3>3 DEF ScanSourceItem
        <4>2. ~Renaming /\ i \in Directories => i \in entered'
          BY <4>1, ConstantFacts DEF GoInside
        <4> QED
          BY <1>1, <4>1, <4>2 DEF Reached, Renaming
      <3> QED
        BY <3>2, <3>3
    <2> QED
      BY <1>2, <2>1, <2>2, <2>3, <2>4
  <1>5. CASE ScanEnd
    BY <1>1, <1>2, <1>3, <1>5 DEF ScanEnd, scanned
  <1>6. CASE Prepare
    <2>1. item' = item /\ scanned' = scanned /\ pc = "prepare" /\ pc' = "scan"
      BY <1>6 DEF Prepare, Stopped
    <2> QED
      BY <1>1, <1>2, <1>3, <2>1 DEF scanned
  <1>7. CASE scanned' = scanned /\ (pc \notin {"prepare", "scan"} \/ (item' = item /\ pc' = pc))
    BY <1>1, <1>3, <1>7 DEF scanned
  <1> QED
    BY <1>4, <1>5, <1>6, <1>7 DEF Next, Job, vars, NextItem, CopyDirectory, RenameDirectory,
       StatDestination, AnswerExists, OpenDestination, WriteDestination, Rename, Verify,
       ClearSourceItem, ClearedSourceItems, UserStop, ExternalCreate

LEMMA AccountKept ==
  ASSUME Typed, Typed', DestinationInv, EntriesApart, SetupsInScope, SelectionInv, AccountInv,
         [Next]_vars
  PROVE  AccountInv'
  <1> SUFFICES ASSUME ~m_IsStopped', skipped' = {}
               PROVE  /\ \A i \in Items : i < item' \/ pc' \notin {"prepare", "scan"} => Reached(i)'
                      /\ pc' \notin {"prepare", "scan"} =>
                             \A i \in Items : Done(i)' => Accounted(i)'
                      /\ pc' = "over" => m_SourceItemsToDelete' = <<>>
    BY DEF AccountInv
  <1>1. ~m_IsStopped /\ skipped = {}
    BY AnswersStay
  <1>2. ASSUME pc' \notin {"prepare", "scan"}, NEW i \in Items, Done(i)'
        PROVE  Accounted(i)'
    <2>1. CASE pc \notin {"prepare", "scan"} /\ Done(i)
      BY <1>1, <2>1, AccountedKept DEF AccountInv
    <2>2. CASE /\ i = item /\ pc' = "next"
               /\ CopyDirectory \/ RenameDirectory \/ WriteDestination \/ Rename
      <3>1. Accounted(item)' /\ item' = item
        BY <2>2, DealtWith DEF CopyDirectory, RenameDirectory, WriteDestination, Rename
      <3> QED
        BY <2>2, <3>1 DEF Accounted, Summed, Safe
    <2> QED
      BY <1>2, <2>1, <2>2, DoneStep
  <1>3. pc' = "over" => m_SourceItemsToDelete' = <<>>
    <2>1. pc = "over" => m_SourceItemsToDelete = <<>>
      BY <1>1 DEF AccountInv
    <2>2. pc' = "over" => \/ pc = "over" /\ UNCHANGED m_SourceItemsToDelete
                          \/ ClearedSourceItems
      BY <1>1 DEF Next, Job, vars, Prepare, ScanSourceItem, ScanError, ScanEnd, NextItem, Proceed,
         CopyDirectory, RenameDirectory, StatDestination, AnswerExists, OpenDestination,
         WriteDestination, Rename, Verify, ClearSourceItem, UserStop, ExternalCreate, Ok, Error,
         Skipped, Stopped, marked
    <2> QED
      BY <2>1, <2>2 DEF ClearedSourceItems, marked
  <1> QED
    BY <1>2, <1>3, ReachedKept

-----------------------------------------------------------------------------
(* The theorems.                                                           *)

IInv == Typed /\ DestinationInv

LEMMA InitIInv == Init => IInv
  BY InitTyped, InitDestination DEF IInv

LEMMA NextIInv == IInv /\ [Next]_vars => IInv'
  BY TypesKept, DestinationKept DEF IInv

\* The inductive invariant of every job.
THEOREM Invariant == Spec => []IInv
  BY InitIInv, NextIInv, PTL DEF Spec

\* Every variable has its type.
THEOREM TypeCorrect == Spec => []TypeOK
  <1>1. IInv => TypeOK
    BY DEF IInv, Typed
  <1> QED
    BY <1>1, Invariant, PTL

\* No item that fails or is stopped leaves an unfinished file behind.
THEOREM NoTornFilesHolds == Spec => []NoTornFiles
  <1>1. IInv => NoTornFiles
    BY DEF IInv, DestinationInv
  <1> QED
    BY <1>1, Invariant, PTL

\* A job that copies to a native file system destroys no content it finds there without
\* the user's consent, whatever other programs create meanwhile.
THEOREM DestinationsNotLostHolds == Spec => []DestinationsNotLost
  <1>1. IInv => DestinationsNotLost
    BY DEF IInv, DestinationInv
  <1> QED
    BY <1>1, Invariant, PTL

\* The inductive invariant of the jobs in scope.
JobInv == IInv /\ SelectionInv /\ AccountInv

LEMMA InitJobInv ==
  ASSUME EntriesApart, SetupsInScope
  PROVE  Init => JobInv
  <1> SUFFICES ASSUME Init PROVE JobInv
    OBVIOUS
  <1>1. Typed
    BY InitTyped
  <1>2. SourceTreeInv /\ MarkedBehind /\ MarkedSafe /\ SourcesNotLost /\ TargetInv /\ NewInv
    BY <1>1, MarkedFacts, ConstantFacts DEF Init, SourceTreeInv, MarkedBehind, MarkedSafe,
       SourcesNotLost, TargetInv, NewInv
  <1>3. ASSUME NEW n \in Names
        PROVE  /\ dst[n] = Nothing \/ (n \in Slots /\ (Above(n) = 0 \/ dst[Above(n)] = Directory))
               /\ n \notin Slots => dst[n] = Nothing
               /\ dst[n].holds \cap Files = {}
    <2>1. dst[n].holds \subseteq {-n}
      BY NodeFacts DEF Init, Nothing, Directory, File
    <2>2. -n \notin Files
      BY ConstantFacts
    <2> QED
      BY <2>1, <2>2 DEF Init
  <1>4. AlternativeInv
    BY <1>3, ConstantFacts DEF AlternativeInv
  <1>5. DestinationTreeInv
    BY <1>3, NodeFacts DEF DestinationTreeInv, ParentThere
  <1>6. AccountInv
    <2>1. pc = "prepare" /\ item = 1 /\ \A i \in Items : ~(i < 1)
      BY ConstantFacts DEF Init
    <2> QED
      BY <2>1 DEF AccountInv
  <1> QED
    BY <1>2, <1>4, <1>5, <1>6, InitIInv DEF JobInv, SelectionInv

LEMMA NextJobInv ==
  ASSUME EntriesApart, SetupsInScope
  PROVE  JobInv /\ [Next]_vars => JobInv'
  <1> SUFFICES ASSUME JobInv, [Next]_vars PROVE JobInv'
    OBVIOUS
  <1>1. /\ Typed /\ DestinationInv /\ Typed' /\ IInv'
        /\ TargetInv /\ AlternativeInv /\ NewInv /\ SourceTreeInv /\ DestinationTreeInv
        /\ MarkedBehind /\ SelectionInv /\ AccountInv
    BY NextIInv DEF JobInv, SelectionInv, IInv
  <1>2. TargetInv' /\ AlternativeInv' /\ NewInv'
    BY <1>1, TargetKept, AlternativeKept, NewKept
  <1>3. SourceTreeInv' /\ DestinationTreeInv'
    BY <1>1, SourceTreeKept, DestinationTreeKept
  <1>4. MarkedBehind' /\ MarkedSafe' /\ SourcesNotLost' /\ AccountInv'
    BY <1>1, MarkedBehindKept, MarkedSafeKept, SourcesKept, AccountKept
  <1> QED
    BY <1>1, <1>2, <1>3, <1>4 DEF JobInv, SelectionInv

\* What is marked for deletion is safe or will be verified, and what was processed is
\* accounted for, in the jobs in scope.
THEOREM JobInvariant ==
  ASSUME EntriesApart, SetupsInScope
  PROVE  Spec => []JobInv
  <1>1. Init => JobInv
    BY InitJobInv
  <1>2. JobInv /\ [Next]_vars => JobInv'
    BY NextJobInv
  <1> QED
    BY <1>1, <1>2, PTL DEF Spec

\* No content of the selection is lost, at any moment of a job in scope, whatever fails,
\* is skipped, stopped or corrupted.
THEOREM SourcesNotLostHolds ==
  ASSUME EntriesApart, SetupsInScope
  PROVE  Spec => []SourcesNotLost
  <1>1. JobInv => SourcesNotLost
    BY DEF JobInv, SelectionInv
  <1> QED
    BY <1>1, JobInvariant, PTL

LEMMA AccountComplete ==
  ASSUME JobInv
  PROVE  CompleteMove
  <1> SUFFICES ASSUME pc = "over", ~m_IsStopped, skipped = {}
               PROVE  /\ Files \subseteq Held \cup sacrificed
                      /\ ~setup.docopy => \A i \in Items : ~src[i]
    BY DEF CompleteMove
  <1>1. /\ \A i \in Items : Reached(i)
        /\ \A i \in Items : i \in m_SourceItems => Accounted(i)
        /\ m_SourceItemsToDelete = <<>>
    BY DEF JobInv, AccountInv, Done
  <1>2. CASE setup.docopy
    <2>1. \A i \in Files : i \in Items /\ Safe(i)
      BY <1>1, <1>2, ConstantFacts DEF Reached, Accounted, Renaming
    <2> QED
      BY <1>2, <2>1 DEF Safe
  <1>3. CASE ~setup.docopy
    <2> DEFINE S == {i \in Items : ~src[i]}
    <2>1. Items \subseteq S
      <3> SUFFICES ASSUME NEW i \in Items, \A j \in Items : j < i => j \in S
                   PROVE  i \in S
        BY ByParents
      <3>1. CASE Parent[i] = 0
        <4>1. i \notin ToSet(m_SourceItemsToDelete)
          BY <1>1, MarkedFacts DEF JobInv, IInv
        <4> QED
          BY <1>1, <1>3, <3>1, <4>1 DEF Reached, Accounted
      <3>2. CASE Parent[i] # 0
        <4>1. Parent[i] \in Items /\ Parent[i] < i
          BY <3>2, ConstantFacts
        <4> QED
          BY <3>2, <4>1 DEF JobInv, SelectionInv, SourceTreeInv
      <3> QED
        BY <3>1, <3>2
    <2>2. \A i \in Files : i \in Held \cup sacrificed
      BY <2>1, ConstantFacts DEF JobInv, SelectionInv, SourcesNotLost
    <2> QED
      BY <2>1, <2>2
  <1> QED
    BY <1>2, <1>3

\* A job in scope that gave up on nothing and was not stopped brought every content to the
\* destination, and if it was to move them it left nothing at the source.
THEOREM CompleteMoveHolds ==
  ASSUME EntriesApart, SetupsInScope
  PROVE  Spec => []CompleteMove
  <1>1. JobInv => CompleteMove
    BY AccountComplete
  <1> QED
    BY <1>1, JobInvariant, PTL

=============================================================================
