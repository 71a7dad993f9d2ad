---------------------------- MODULE MCPgListener ----------------------------
(***************************************************************************)
(* Instances of PgListener, by the failures that may happen.               *)
(***************************************************************************)
EXTENDS PgListener

\* A connection is lost, and the replay that follows fails.
ReplayFails == {"drop", "replay"}
=============================================================================
