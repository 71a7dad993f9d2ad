------------------------------ MODULE MCStreams -----------------------------
(***************************************************************************)
(* Two clients over a ring of one message: any second message overwrites   *)
(* the first, so every handler that waits once may lag.                    *)
(***************************************************************************)
EXTENDS Streams

AllSenders == Clients \cup {Server}
=============================================================================
