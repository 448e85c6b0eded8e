------------------------- MODULE MCProxyTransaction -------------------------
(* Instances of ProxyTransaction for TLC. *)
EXTENDS ProxyTransaction, TLC

\* Transactions and connections are interchangeable.
TransactionSymmetry == Permutations(Transactions) \cup Permutations(Connections)
=============================================================================
