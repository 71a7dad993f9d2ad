--------------------------- MODULE MCRefreshTokens --------------------------
(***************************************************************************)
(* Instances of RefreshTokens.  Tokens and requests are interchangeable    *)
(* model values: safety runs use their permutations as a symmetry set.     *)
(***************************************************************************)
EXTENDS RefreshTokens, TLC

Symmetric == Permutations(Tokens) \cup Permutations(Requests)
=============================================================================
