---------------------------- MODULE MCAuthFlow ----------------------------
(* AuthFlowProps on small values.                                          *)
EXTENDS AuthFlowProps, TLC

\* One document, which does not announce iss.
MCDocument == [v \in 0..MaxVersion |-> [iss |-> FALSE, method |-> TRUE]]

\* A provider that later sends iss, and lists the client's authentication method.
MCChanging == [v \in 0..MaxVersion |-> [iss |-> v > 0, method |-> v > 0]]

Symmetry == Permutations(Call) \cup Permutations(Code) \cup Permutations(Instance)
=============================================================================
