------------------------------ MODULE MCAccounts ------------------------------
EXTENDS Accounts, TLC

(* Ids are drawn at random, and passwords and goroutines are told apart by
   nothing.                                                                *)
Interchangeable ==
    Permutations(Users) \cup Permutations(Passwords) \cup Permutations(Workers)
=============================================================================
