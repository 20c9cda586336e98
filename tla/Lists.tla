--------------------------------- MODULE Lists ---------------------------------
(***************************************************************************)
(* Loops over lists that several components share.                         *)
(***************************************************************************)
EXTENDS Naturals, SequencesExt

(* The elements of a list that are in a set, in order: a loop that passes  *)
(* over the others.                                                        *)
Keep(seq, set) ==
  LET kept[n \in 0 .. Len(seq)] ==
        IF n = 0 THEN <<>>
        ELSE IF seq[n] \in set THEN Append(kept[n - 1], seq[n]) ELSE kept[n - 1]
  IN  kept[Len(seq)]

(* std::erase                                                              *)
Without(seq, x) == Keep(seq, ToSet(seq) \ {x})
===============================================================================
