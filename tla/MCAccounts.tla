----------------------------- MODULE MCAccounts -----------------------------
(* Small instances of Accounts for TLC: the cfg files give the model values. *)
EXTENDS Accounts, TLC

(* Everything but the bounds is interchangeable. *)
MCSymmetry == Permutations(Id) \cup Permutations(Login) \cup Permutations(Email)
              \cup Permutations(Code) \cup Permutations(Req)
=============================================================================
