----------------------------- MODULE MCAccounts -----------------------------
(* A small instance of Accounts, with the history of its writes.           *)
EXTENDS AccountsHistory, TLC

Symmetry == Permutations(Requests)
=============================================================================
