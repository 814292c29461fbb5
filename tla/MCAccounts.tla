------------------------------ MODULE MCAccounts ------------------------------
(* TLC's instance of Accounts.                                               *)
EXTENDS Accounts, TLC

Interchangeable == Permutations(Users) \cup Permutations(Tokens) \cup Permutations(Txs)
===============================================================================
