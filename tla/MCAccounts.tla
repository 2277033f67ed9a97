----------------------------- MODULE MCAccounts -----------------------------
(* Instances of Accounts for TLC.                                          *)
EXTENDS Accounts, TLC

CONSTANTS p1, p2, blank

(* p2 is p1 with white space around it, and blank is nothing else.         *)
MCPassword == {p1, p2, blank}
MCTrim == (p1 :> p1) @@ (p2 :> p1) @@ (blank :> Empty)

Symmetry == Permutations(Caller) \cup Permutations(Client) \cup Permutations(Secret)

=============================================================================
