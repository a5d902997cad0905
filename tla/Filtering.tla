----------------------------- MODULE Filtering -----------------------------
(***************************************************************************)
(* std::erase_if(), std::copy_if() and their like on a vector, by the set  *)
(* of the elements that pass.  It is SelectSeq() of the standard module,   *)
(* with a set for the test: the definition of that operator is not one the *)
(* proof system can expand.                                                *)
(***************************************************************************)
EXTENDS Integers, Sequences

\* The elements of seq that are in set, in their order.
Filter(seq, set) ==
    LET passed[n \in 0..Len(seq)] ==
            IF n = 0 THEN <<>>
            ELSE IF seq[n] \in set THEN Append(passed[n - 1], seq[n])
            ELSE passed[n - 1]
    IN  passed[Len(seq)]

=============================================================================
