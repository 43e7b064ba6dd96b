---------------------------- MODULE SigningKeysMC ----------------------------
(* Two keys in rotation; a token that is soon over and one that is issued *)
(* later than others.                                                      *)
EXTENDS SigningKeys, TLC

CONSTANTS h1, h2, k1, k2

Token(kid, iat, exp) == [kid |-> kid, iat |-> iat, exp |-> exp, ours |-> TRUE]
Alike == Permutations(Handlers)
MCTokens == {Token(k1, 0, 9), Token(k2, 0, 2), Token(k2, 4, 9)}
===============================================================================
