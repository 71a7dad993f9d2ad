---------------------------- MODULE MCSearchPage ----------------------------
(***************************************************************************)
(* Two words, one of them also with a blank after it, and one text that is *)
(* too long.                                                               *)
(***************************************************************************)
EXTENDS SearchPage

MCTexts == {"", " ", "a", "a ", "b", "long"}
MCTrim ==
  [t \in MCTexts |-> CASE t = " " -> "" [] t = "a " -> "a" [] OTHER -> t]
=============================================================================
