----------------------------- MODULE MCAtomicWrite -----------------------------
(* Constants for model-checking AtomicWrite.                               *)
EXTENDS AtomicWrite, TLC
CONSTANTS w1, w2, w3, w4, p1, p2

\* The API, and the command line writing the same file next to it.  w3 and w4
\* write before, while or after w1 does, in its process or in one that has the
\* number of the dead one.
OwnProcesses == w1 :> p1 @@ w2 :> p2 @@ w3 :> p1 @@ w4 :> p1
\* w3 has less to write than w1.
Lengths == w1 :> 2 @@ w2 :> 2 @@ w3 :> 1 @@ w4 :> 1 @@ Original :> 2
===============================================================================
