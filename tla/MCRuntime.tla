----------------------------- MODULE MCRuntime -----------------------------
(* Instances of Runtime for TLC.                                           *)
EXTENDS Runtime, TLC

\* Every future may wait for everything.
Anything == [f \in Futures |-> Things]

\* One task waits for everything; the others and the root only for wakes, which
\* they may give themselves for ever.
CONSTANT a
OneWaits == [f \in Futures |-> IF f = a THEN Things ELSE {"wake"}]

\* Threads differ only in name.
ThreadSymmetry == Permutations(Threads)
=============================================================================
