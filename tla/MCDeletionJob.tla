-------------------------- MODULE MCDeletionJob --------------------------
(***************************************************************************)
(* Instances of DeletionJob for TLC: a directory (1) with a file (2), a    *)
(* directory (3) with a file (4) and a symbolic link (5) to another        *)
(* directory (6), which holds a file (7) and is not selected.  Item 8 is a *)
(* file beside the first directory.                                        *)
(***************************************************************************)
EXTENDS DeletionJob

MCItems == 1..8
MCDirectories == {1, 3, 6}
MCListing == <<<<2, 3>>, <<>>, <<4, 5>>, <<>>, <<7>>, <<7>>, <<>>, <<>>>>
MCUp == <<{1}, {1, 2}, {1, 3}, {1, 3, 4}, {1, 3, 5}, {6}, {6, 7}, {8}>>

Setup(items, type, nonempty, asks, immutable, behaviour) ==
    [m_SourceItems |-> items, m_Type |-> type, recursive |-> nonempty,
     interactive |-> asks, locked |-> immutable, behaviour |-> behaviour]

\* Both types and both kinds of hosts, with somebody to ask and without; and jobs that
\* meet locked items.
MCSetups ==
    {Setup(<<8, 1>>, type, FALSE, asks, {}, "Ask") :
         type \in Types, asks \in BOOLEAN}
    \cup {Setup(<<1, 8>>, "Permanent", TRUE, TRUE, {}, "Ask")}
    \cup {Setup(<<1, 4>>, type, FALSE, TRUE, {4}, behaviour) :
              type \in Types, behaviour \in Behaviours}

=============================================================================
