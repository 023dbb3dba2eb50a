------------------------------- MODULE Folding -------------------------------
(***************************************************************************)
(* The loop over a list that the backends, the operation table and the     *)
(* driver share, as a recursive function of the number of passes.  (The    *)
(* FoldLeft of SequencesExt recurses over the sets of indices left to do.) *)
(***************************************************************************)
EXTENDS Naturals, Sequences

\* The value of a variable that starts as base and becomes Op(it, s[n]) in
\* the n-th pass.
FoldLeft(Op(_, _), base, s) ==
  LET F[n \in 0 .. Len(s)] == IF n = 0 THEN base ELSE Op(F[n - 1], s[n])
  IN F[Len(s)]
=============================================================================
