----------------------------- MODULE EventFeed ------------------------------
(***************************************************************************)
(* What the documentation promises of the live feed, without the           *)
(* mechanism: clients are sent only committed rows, each at most once, in  *)
(* event_seq order, and a row is sent only after every smaller row that is *)
(* still in the table.                                                     *)
(***************************************************************************)
EXTENDS Integers, Sequences, Functions

VARIABLES
  committed,    \* every row ever committed
  table,        \* the rows a reader of the database sees now
  delivered     \* rows handed to the broadcast channel, in order

feedVars == <<committed, table, delivered>>

Init ==
  /\ table \subseteq committed
  /\ delivered = <<>>

\* Writers commit and delete rows; nothing appears below what was delivered.
Write ==
  /\ committed \subseteq committed'
  /\ table' \ table \subseteq committed' \ committed
  /\ \A q \in table' \ table : \A d \in Range(delivered) : d < q
  /\ UNCHANGED delivered

Deliver(q) ==
  /\ q \in committed
  /\ \A d \in Range(delivered) : d < q
  /\ \A r \in table : r < q => r \in Range(delivered)
  /\ delivered' = Append(delivered, q)
  /\ UNCHANGED <<committed, table>>

Next == Write \/ \E q \in committed : Deliver(q)

Spec == Init /\ [][Next]_feedVars
=============================================================================
