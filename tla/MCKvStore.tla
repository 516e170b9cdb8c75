----------------------------- MODULE MCKvStore -----------------------------
(* KvStoreProps on a few calls and keys.                                    *)
EXTENDS KvStoreProps, TLC

Symmetry == Permutations(Call) \cup Permutations(Key)
=============================================================================
