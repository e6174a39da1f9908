-------------------------------- MODULE Lists --------------------------------
(***************************************************************************)
(* The lists of threads and tasks of both systems, as sequences.           *)
(***************************************************************************)
EXTENDS Naturals, Sequences, SequencesExt

\* Nothing is linked twice.
NoDuplicates(s) == \A i, j \in 1..Len(s) : s[i] = s[j] => i = j
=============================================================================
