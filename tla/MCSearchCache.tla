---------------------------- MODULE MCSearchCache ---------------------------
(***************************************************************************)
(* One key and two searches: keys share nothing but the version, so two    *)
(* searches for the same key, and the listener, show every interference.   *)
(***************************************************************************)
EXTENDS SearchCache
=============================================================================
