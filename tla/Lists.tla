-------------------------------- MODULE Lists --------------------------------
(* The linked lists of the C code as sequences: what is on a list, and     *)
(* that a list holds nothing twice.                                        *)
EXTENDS Naturals, Sequences

Elements(s) == {s[i] : i \in 1..Len(s)}
Distinct(s) == \A i, j \in 1..Len(s) : s[i] = s[j] => i = j
=============================================================================
