------------------------------ MODULE Broadcast -----------------------------
(***************************************************************************)
(* tokio::sync::broadcast as the SSE handlers and the chat use it: a ring  *)
(* that keeps the last Capacity messages, and receivers that each have a   *)
(* position.  Sending never waits; a receiver whose next message has been  *)
(* overwritten is told how many it lost and goes on with the oldest kept.  *)
(***************************************************************************)
EXTENDS Integers, Sequences

CONSTANTS
  Clients,      \* connections that may subscribe
  Senders,      \* who can send
  Capacity,     \* messages the ring keeps
  MaxSends      \* bound: messages per behaviour

ASSUME BroadcastAssumption ==
  /\ Capacity \in Nat \ {0}
  /\ MaxSends \in Nat

VARIABLES
  sent,         \* every message, by its sender
  next,         \* the message a receiver takes next, 0 when not subscribed
  base,         \* history: next when it subscribed
  got           \* history: how many messages it received

ringVars == <<sent, next, base, got>>

TypeOK ==
  /\ sent \in Seq(Senders)
  /\ next \in [Clients -> Nat]
  /\ base \in [Clients -> Nat]
  /\ got \in [Clients -> Nat]

InitRing ==
  /\ sent = <<>>
  /\ next = [c \in Clients |-> 0]
  /\ base = [c \in Clients |-> 0]
  /\ got = [c \in Clients |-> 0]

Subscribed(c) == next[c] # 0

Oldest == IF Len(sent) > Capacity THEN Len(sent) - Capacity + 1 ELSE 1

\* A message sent to nobody is dropped: send() returns an error.
Send(m) ==
  /\ Len(sent) < MaxSends
  /\ sent' = IF \E c \in Clients : Subscribed(c) THEN Append(sent, m) ELSE sent
  /\ UNCHANGED <<next, base, got>>

\* Mutant of Subscribe: a new receiver starts with what the ring still holds.
SubscribeOldest(c) ==
  /\ ~Subscribed(c)
  /\ next' = [next EXCEPT ![c] = Oldest]
  /\ base' = [base EXCEPT ![c] = Oldest]
  /\ UNCHANGED <<sent, got>>

\* A receiver sees what is sent after it subscribed.
Subscribe(c) ==
  /\ ~Subscribed(c)
  /\ next' = [next EXCEPT ![c] = Len(sent) + 1]
  /\ base' = [base EXCEPT ![c] = Len(sent) + 1]
  /\ UNCHANGED <<sent, got>>

Unsubscribe(c) ==
  /\ next' = [next EXCEPT ![c] = 0]
  /\ base' = [base EXCEPT ![c] = 0]
  /\ got' = [got EXCEPT ![c] = 0]
  /\ UNCHANGED sent

Ready(c) == Subscribed(c) /\ next[c] >= Oldest /\ next[c] <= Len(sent)

Recv(c) ==
  /\ Ready(c)
  /\ got' = [got EXCEPT ![c] = @ + 1]
  /\ next' = [next EXCEPT ![c] = @ + 1]
  /\ UNCHANGED <<sent, base>>

Missed(c) == Oldest - next[c]

\* Err(Lagged(n))
Lag(c) ==
  /\ Subscribed(c)
  /\ next[c] < Oldest
  /\ next' = [next EXCEPT ![c] = Oldest]
  /\ UNCHANGED <<sent, base, got>>

=============================================================================
