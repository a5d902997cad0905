--------------------------- MODULE MCCopyingJob ---------------------------
(***************************************************************************)
(* Instances of CopyingJob for TLC: two directories selected in different  *)
(* places, each with a directory with a file, composing the same names.    *)
(***************************************************************************)
EXTENDS CopyingJob

MCParent == <<0, 1, 2, 0, 4, 5>>
MCDirectories == {1, 2, 4, 5}
MCSlot == <<1, 2, 3, 1, 2, 3>>

ASSUME MCEntriesAssumption == EntriesApart

\* The jobs in scope; a deferred write is nothing a native host knows.
MCSetups == {s \in [docopy : BOOLEAN, verify : BOOLEAN, samehost : BOOLEAN, native : BOOLEAN,
                    recursive : BOOLEAN, deferred : BOOLEAN] :
                 InScope(s) /\ (s.deferred => ~s.native)}

\* Moves from a host that deletes directories with their content, e.g. WebDAV.
MCRecursiveSetups == [docopy : {FALSE}, verify : {FALSE}, samehost : {FALSE},
                      native : {TRUE}, recursive : {TRUE}, deferred : {FALSE}]

=============================================================================
