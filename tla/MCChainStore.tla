---------------------------- MODULE MCChainStore -----------------------------
(***************************************************************************)
(* Small instances of ChainStore for TLC.  Two callers, of which only the  *)
(* creator is authorised; quotas of two rows and three units of storage so *)
(* that both limits can be exceeded, one by count and one by size.         *)
(***************************************************************************)
EXTENDS ChainStore, TLC

CONSTANTS t1, t2

\* The callers are interchangeable.
Symmetry == Permutations({t1, t2})
=============================================================================
