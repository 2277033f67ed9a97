------------------------------ MODULE MCTokens ------------------------------
(* Small instances of Tokens for TLC.                                      *)
EXTENDS Tokens, TLC

CONSTANTS a1, web, app, openid, email

(* The first authorization belongs to web, any other one to app.           *)
MCClientOf == [a \in Authorization |-> IF a = a1 THEN web ELSE app]

(* Requests differ only in what they do.                                   *)
MCSymmetry == Permutations(Request)

(* No request ever waits for a free id.                                    *)
ASSUME MCEnoughTokens == Cardinality(Token) >= MaxIssued + 2 * Cardinality(Request)
=============================================================================
