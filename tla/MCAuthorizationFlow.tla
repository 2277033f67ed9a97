------------------------- MODULE MCAuthorizationFlow -------------------------
(* Small instances of AuthorizationFlow for TLC.                           *)
EXTENDS AuthorizationFlow, TLC

(* No prompt, and each single one.                                         *)
MCPrompts == {{}, {"none"}, {"login"}, {"consent"}}

(* The code flow alone, and flows that leave tokens on the front channel.  *)
MCCode == {[type |-> <<"code">>, nonce |-> FALSE]}
MCAsks ==
  {[type |-> type, nonce |-> nonce] :
     type \in {<<"code">>, <<"id_token", "token">>, <<"code", "id_token">>, <<"code", "token">>},
     nonce \in BOOLEAN}
  \cup {[type |-> <<"token", "code">>, nonce |-> TRUE]}

(* No prompt, both that show a page, and a contradiction.                  *)
MCMixedPrompts == {{}, {"login", "consent"}, {"none", "login"}}
MCFormPrompts == {{}, {"login", "consent"}}

MCSymmetry == Permutations(Tab) \cup Permutations(User) \cup Permutations(Client)
=============================================================================
