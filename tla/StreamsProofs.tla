---------------------------- MODULE StreamsProofs ---------------------------
(***************************************************************************)
(* The consumers of the broadcast channels, for any number of clients, any *)
(* capacity of the ring and of the connections, and any number of messages *)
(* and lost connections.                                                   *)
(***************************************************************************)
EXTENDS Streams, SequenceTheorems, TLAPS

Events == [kind : Kinds, n : 0..MaxSends]

-----------------------------------------------------------------------------
(* What holds of a client c                                                *)

\* A receiver exists exactly while the connection is open; a new one starts with
\* fresh counters, and a lag is reported as it is skipped.
Position(c) ==
  /\ conn[c] = "open" <=> Subscribed(c)
  /\ next[c] <= Len(sent) + 1
  /\ IF Subscribed(c) THEN base[c] > 0 ELSE base[c] = 0 /\ got[c] = 0 /\ told[c] = 0
  /\ hub = "live" /\ Subscribed(c) => base[c] + got[c] + told[c] = next[c]

\* Only live-search has a page and reports lags; only the chat waits in sink.send.
HubOf(c) ==
  /\ hub # "live" => phase[c] = "gone" /\ results[c] = <<>> /\ told[c] = 0
  /\ hub # "chat" => hand[c] = 0

\* A message that the page has shown or may still read is an old one.
Old(c, n) == n <= Len(sent) /\ (Subscribed(c) => n < next[c])

\* What the page shows comes before what it may still read, and that before what
\* the receiver takes next.
Ordered(c) ==
  /\ \A i \in 1..Len(results[c]) : Old(c, results[c][i])
  /\ \A i, j \in 1..Len(results[c]) : i < j => results[c][i] < results[c][j]
  /\ \A j \in 1..Len(pipe[c]) : pipe[c][j].kind = "result" =>
       /\ Old(c, pipe[c][j].n)
       /\ pipe[c][j].n > 0
       /\ \A i \in 1..Len(results[c]) : results[c][i] < pipe[c][j].n
       /\ \A i \in 1..(j - 1) : pipe[c][i].kind = "result" => pipe[c][i].n < pipe[c][j].n

ClientInv(c) ==
  /\ Position(c)
  /\ HubOf(c)
  /\ hub = "live" => Ordered(c)

\* The inductive invariant.
StreamInv ==
  /\ StreamTypeOK
  /\ Len(sent) <= MaxSends
  /\ \A c \in Clients : ClientInv(c)

\* A step of another client leaves d alone.
Untouched(d) ==
  /\ next'[d] = next[d] /\ base'[d] = base[d] /\ got'[d] = got[d]
  /\ conn'[d] = conn[d] /\ pipe'[d] = pipe[d] /\ hand'[d] = hand[d] /\ told'[d] = told[d]
  /\ phase'[d] = phase[d] /\ results'[d] = results[d]

-----------------------------------------------------------------------------

\* The state in numbers and sequences, as the proofs use it.
LEMMA Facts ==
  ASSUME StreamInv
  PROVE  /\ next \in [Clients -> Nat] /\ base \in [Clients -> Nat] /\ got \in [Clients -> Nat]
         /\ conn \in [Clients -> {"none", "open", "broken"}]
         /\ pipe \in [Clients -> Seq(Events)]
         /\ hand \in [Clients -> 0..MaxSends] /\ told \in [Clients -> 0..MaxSends]
         /\ results \in [Clients -> Seq(1..MaxSends)]
         /\ sent \in Seq(Senders) /\ Len(sent) \in Nat /\ Len(sent) <= MaxSends
         /\ Oldest \in Nat /\ Oldest > 0 /\ Oldest <= Len(sent) + 1
         /\ MaxSends \in Nat /\ Capacity \in Nat \ {0}
         /\ \A c \in Clients : ClientInv(c)
<1>1. sent \in Seq(Senders) /\ Len(sent) \in Nat /\ Len(sent) <= MaxSends
  BY DEF StreamInv, StreamTypeOK, TypeOK
<1>2. MaxSends \in Nat /\ Capacity \in Nat \ {0}
  BY BroadcastAssumption
<1>3. Oldest \in Nat /\ Oldest > 0 /\ Oldest <= Len(sent) + 1
  BY <1>1, <1>2 DEF Oldest
<1> QED
  BY <1>1, <1>2, <1>3 DEF StreamInv, StreamTypeOK, TypeOK, Events

\* What a page shows and what it may still read.
LEMMA ElementFacts ==
  ASSUME StreamInv, NEW c \in Clients
  PROVE  /\ \A i \in 1..Len(results[c]) : results[c][i] \in 1..MaxSends
         /\ \A j \in 1..Len(pipe[c]) :
              pipe[c][j] \in Events /\ pipe[c][j].kind \in Kinds /\ pipe[c][j].n \in 0..MaxSends
<1>1. results[c] \in Seq(1..MaxSends) /\ pipe[c] \in Seq(Events)
  BY Facts
<1>2. \A j \in 1..Len(pipe[c]) : pipe[c][j] \in Events
  BY <1>1, ElementOfSeq
<1> QED
  BY <1>1, <1>2, ElementOfSeq DEF Events

\* Messages that are sent meanwhile disturb nothing that holds of a client.
LEMMA UntouchedClient ==
  ASSUME StreamInv, NEW d \in Clients, Untouched(d), hub' = hub,
         Len(sent') \in Nat, Len(sent) <= Len(sent')
  PROVE  ClientInv(d)'
<1>1. /\ ClientInv(d) /\ next[d] \in Nat /\ Len(sent) \in Nat
      /\ results[d] \in Seq(1..MaxSends) /\ pipe[d] \in Seq(Events) /\ MaxSends \in Nat
  BY Facts
<1>2. Position(d)' /\ HubOf(d)'
  BY <1>1 DEF ClientInv, Position, HubOf, Subscribed, Untouched
<1>3. /\ \A i \in 1..Len(results[d]) : results[d][i] \in 1..MaxSends
      /\ \A j \in 1..Len(pipe[d]) : pipe[d][j].n \in 0..MaxSends
  BY ElementFacts
<1>4. hub' = "live" => Ordered(d)'
  <2> SUFFICES ASSUME hub' = "live" PROVE Ordered(d)'
    OBVIOUS
  <2>1. Ordered(d)
    BY <1>1 DEF ClientInv
  <2>2. \A i \in 1..Len(results[d]) : Old(d, results[d][i])'
    BY <1>1, <1>3, <2>1 DEF Ordered, Untouched, Old, Subscribed
  <2>3. \A j \in 1..Len(pipe[d]) : pipe[d][j].kind = "result" => Old(d, pipe[d][j].n)'
    BY <1>1, <1>3, <2>1 DEF Ordered, Untouched, Old, Subscribed
  <2> QED
    BY <2>1, <2>2, <2>3 DEF Ordered, Untouched
<1> QED
  BY <1>2, <1>4 DEF ClientInv

\* A step of the client c: it is enough to look at c.
LEMMA ClientStep ==
  ASSUME StreamInv, NEW c \in Clients, hub' = hub,
         Len(sent') \in Nat, Len(sent) <= Len(sent'), Len(sent') <= MaxSends,
         \A d \in Clients \ {c} : Untouched(d),
         StreamTypeOK', ClientInv(c)'
  PROVE  StreamInv'
<1>1. \A d \in Clients \ {c} : ClientInv(d)'
  BY UntouchedClient
<1> QED
  BY <1>1 DEF StreamInv

-----------------------------------------------------------------------------
(* Steps                                                                   *)

\* A message is sent, by the server or by a chat client.
LEMMA SendStep ==
  ASSUME StreamInv, NEW m \in Senders, Send(m),
         UNCHANGED <<hub, conn, pipe, hand, told, pageVars, breaks>>
  PROVE  StreamInv'
<1>1. /\ sent' \in Seq(Senders) /\ Len(sent') \in Nat
      /\ Len(sent) <= Len(sent') /\ Len(sent') <= MaxSends
  BY Facts DEF Send
<1>2. UNCHANGED <<next, base, got, hub, conn, pipe, hand, told, phase, stop, connected,
                  results, breaks>>
  BY DEF Send, pageVars
<1>3. StreamTypeOK'
  BY <1>1, <1>2 DEF StreamInv, StreamTypeOK, TypeOK
<1>4. \A d \in Clients : Untouched(d)
  BY <1>2 DEF Untouched
<1>5. \A d \in Clients : ClientInv(d)'
  BY <1>1, <1>2, <1>4, UntouchedClient
<1> QED
  BY <1>1, <1>3, <1>5 DEF StreamInv

\* A client is accepted and subscribed.
LEMMA OpenStep ==
  ASSUME StreamInv, NEW c \in Clients, Open(c)
  PROVE  StreamInv'
<1>1. /\ UNCHANGED <<sent, got, hub, hand, told, phase, stop, connected, results, breaks>>
      /\ conn[c] = "none" /\ ~Subscribed(c)
      /\ next' = [next EXCEPT ![c] = Len(sent) + 1]
      /\ base' = [base EXCEPT ![c] = Len(sent) + 1]
      /\ conn' = [conn EXCEPT ![c] = "open"]
  BY DEF Open, Subscribe, pageVars
<1>2. PICK s \in Seq(Events) : /\ pipe' = [pipe EXCEPT ![c] = s] /\ Len(s) <= 1
                               /\ \A j \in 1..Len(s) : s[j].kind # "result"
  <2> DEFINE e == EventOf("connected", 0)
  <2>1. e \in Events /\ e.kind # "result"
    BY Facts DEF EventOf, Events, Kinds
  <2>2. <<e>> \in Seq(Events) /\ Len(<<e>>) = 1 /\ <<e>>[1] = e
    BY <2>1
  <2>3. <<>> \in Seq(Events) /\ Len(<<>>) = 0
    OBVIOUS
  <2> HIDE DEF e
  <2>4. pipe' = [pipe EXCEPT ![c] = IF hub = "live" THEN <<e>> ELSE <<>>]
    BY DEF Open, e
  <2>5. CASE hub = "live"
    <3>1. pipe' = [pipe EXCEPT ![c] = <<e>>]
      BY <2>4, <2>5
    <3>2. Len(<<e>>) <= 1 /\ \A j \in 1..Len(<<e>>) : <<e>>[j].kind # "result"
      BY <2>1, <2>2
    <3> QED
      BY <2>2, <3>1, <3>2
  <2>6. CASE hub # "live"
    <3>1. pipe' = [pipe EXCEPT ![c] = <<>>]
      BY <2>4, <2>6
    <3>2. Len(<<>>) <= 1 /\ \A j \in 1..Len(<<>>) : <<>>[j].kind # "result"
      BY <2>3
    <3> QED
      BY <2>3, <3>1, <3>2
  <2> QED
    BY <2>5, <2>6
<1>3. /\ next'[c] = Len(sent) + 1 /\ base'[c] = Len(sent) + 1 /\ conn'[c] = "open"
      /\ pipe'[c] = s /\ pipe' \in [Clients -> Seq(Events)] /\ Len(sent) \in Nat
  BY <1>1, <1>2, Facts
<1>4. StreamTypeOK'
  <2>1. \A d \in Clients : Len(pipe'[d]) <= PipeCap
    BY <1>2, Facts, StreamsAssumption DEF StreamInv, StreamTypeOK
  <2>2. /\ next' \in [Clients -> Nat] /\ base' \in [Clients -> Nat]
        /\ conn' \in [Clients -> {"none", "open", "broken"}]
    BY <1>1, Facts
  <2> QED
    BY <1>1, <1>3, <2>1, <2>2 DEF StreamInv, StreamTypeOK, TypeOK, Events
<1>5. \A d \in Clients \ {c} : Untouched(d)
  BY <1>1, <1>2, Facts DEF Untouched
<1>6. Position(c)' /\ HubOf(c)'
  BY <1>1, <1>3, Facts DEF ClientInv, Position, HubOf, Subscribed
<1>7. hub' = "live" => Ordered(c)'
  <2>1. \A j \in 1..Len(pipe'[c]) : pipe'[c][j].kind # "result"
    BY <1>2, <1>3
  <2>2. \A i \in 1..Len(results[c]) : results[c][i] \in 1..MaxSends
    BY ElementFacts
  <2>3. \A n \in 1..MaxSends : n <= Len(sent) => n < Len(sent) + 1
    BY <1>3
  <2>4. \A n \in 1..MaxSends : Old(c, n) => Old(c, n)'
    BY <1>1, <1>3, <2>3 DEF Old
  <2>5. hub = "live" => Ordered(c)
    BY Facts DEF ClientInv
  <2>6. ASSUME hub = "live"
        PROVE  /\ \A i \in 1..Len(results'[c]) : Old(c, results[c][i])'
               /\ \A i, j \in 1..Len(results'[c]) : i < j => results'[c][i] < results'[c][j]
    BY <1>1, <2>2, <2>4, <2>5, <2>6 DEF Ordered
  <2> QED
    BY <1>1, <2>1, <2>6 DEF Ordered
<1> QED
  BY <1>1, <1>4, <1>5, <1>6, <1>7, Facts, ClientStep DEF ClientInv

\* An event is written to the connection of a live-search or gateway client, and
\* its receiver moves on.
LEMMA WriteStep ==
  ASSUME StreamInv, NEW c \in Clients, NEW e \in Events, NEW to \in Nat,
         Subscribed(c), hub # "chat", Room(c), to > next[c], to <= Len(sent) + 1,
         next' = [next EXCEPT ![c] = to],
         e.kind = "result" => e.n = next[c] /\ e.n <= Len(sent),
         pipe' = [pipe EXCEPT ![c] = Append(@, e)],
         got' \in [Clients -> Nat], told' \in [Clients -> 0..MaxSends],
         \A d \in Clients \ {c} : got'[d] = got[d] /\ told'[d] = told[d],
         hub = "live" => base[c] + got'[c] + told'[c] = to,
         hub # "live" => told'[c] = 0,
         UNCHANGED <<sent, base, hub, conn, hand, pageVars, breaks>>
  PROVE  StreamInv'
<1>1. UNCHANGED <<phase, stop, connected, results>>
  BY DEF pageVars
<1>2. /\ next'[c] = to /\ pipe'[c] = Append(pipe[c], e) /\ pipe[c] \in Seq(Events)
      /\ pipe' \in [Clients -> Seq(Events)] /\ next[c] \in Nat /\ Len(sent) \in Nat
      /\ base[c] \in Nat /\ got[c] \in Nat /\ told[c] \in Nat /\ MaxSends \in Nat
      /\ got'[c] \in Nat /\ told'[c] \in Nat
  <2>1. /\ next \in [Clients -> Nat] /\ pipe \in [Clients -> Seq(Events)]
        /\ MaxSends \in Nat /\ Len(sent) \in Nat
    BY Facts
  <2>2. base[c] \in Nat /\ got[c] \in Nat /\ told[c] \in Nat
    BY Facts
  <2>3. next'[c] = to /\ pipe'[c] = Append(pipe[c], e)
    BY <2>1
  <2>4. pipe[c] \in Seq(Events) /\ Append(pipe[c], e) \in Seq(Events)
    BY <2>1
  <2>5. pipe' \in [Clients -> Seq(Events)]
    BY <2>1, <2>4
  <2>6. got'[c] \in Nat /\ told'[c] \in Nat
    BY <2>1
  <2> QED
    BY <2>1, <2>2, <2>3, <2>4, <2>5, <2>6
<1>3. /\ Len(pipe'[c]) = Len(pipe[c]) + 1 /\ pipe'[c][Len(pipe[c]) + 1] = e
      /\ \A j \in 1..Len(pipe[c]) : pipe'[c][j] = pipe[c][j]
  BY <1>2
<1>4. StreamTypeOK'
  <2>1. \A d \in Clients : Len(pipe'[d]) <= PipeCap
    BY <1>2, <1>3, StreamsAssumption, Facts DEF StreamInv, StreamTypeOK, Room
  <2>2. next' \in [Clients -> Nat]
    BY Facts
  <2> QED
    BY <1>1, <1>2, <2>1, <2>2 DEF StreamInv, StreamTypeOK, TypeOK, Events
<1>5. \A d \in Clients \ {c} : Untouched(d)
  BY <1>1, Facts DEF Untouched
<1>6. ClientInv(c)
  BY Facts
<1>7. Position(c)' /\ HubOf(c)'
  <2>1. Position(c)'
    <3>1. conn[c] = "open" /\ base[c] > 0
      BY <1>6 DEF ClientInv, Position
    <3>2. next'[c] # 0 /\ next'[c] <= Len(sent) + 1
      BY <1>2
    <3> QED
      BY <1>2, <3>1, <3>2 DEF Position, Subscribed
  <2>2. HubOf(c)'
    BY <1>1, <1>6 DEF ClientInv, HubOf
  <2> QED
    BY <2>1, <2>2
<1>8. ASSUME hub' = "live" PROVE Ordered(c)'
  <2>1. Ordered(c)
    BY <1>6, <1>8 DEF ClientInv
  <2>7. \A n \in 0..MaxSends : Old(c, n) => n < next[c] /\ n <= Len(sent) /\ n < next'[c]
    BY <1>2 DEF Old
  <2>5. Len(pipe[c]) \in Nat /\ next[c] > 0
    BY <1>2 DEF Subscribed
  <2>6. /\ \A i \in 1..Len(results[c]) : results[c][i] \in 0..MaxSends
        /\ \A j \in 1..Len(pipe[c]) : pipe[c][j].n \in 0..MaxSends
    <3>1. 1..MaxSends \subseteq 0..MaxSends
      BY <1>2
    <3> QED
      BY <3>1, ElementFacts
  <2>2. \A i \in 1..Len(results[c]) : results[c][i] < next[c] /\ Old(c, results[c][i])'
    <3>1. \A i \in 1..Len(results[c]) : results[c][i] < next[c] /\ results[c][i] <= Len(sent)
                                          /\ results[c][i] < next'[c]
      BY <1>2, <2>1, <2>6, <2>7 DEF Ordered
    <3> QED
      BY <1>1, <3>1 DEF Old
  <2>3. \A j \in 1..Len(pipe[c]) : pipe[c][j].kind = "result" =>
          pipe[c][j].n < next[c] /\ Old(c, pipe[c][j].n)'
    <3>1. \A j \in 1..Len(pipe[c]) : pipe[c][j].kind = "result" =>
            pipe[c][j].n < next[c] /\ pipe[c][j].n <= Len(sent) /\ pipe[c][j].n < next'[c]
      BY <2>1, <2>6, <2>7 DEF Ordered
    <3> QED
      BY <1>3, <3>1 DEF Old
  <2>4. ASSUME NEW j \in 1..Len(pipe'[c]), pipe'[c][j].kind = "result"
        PROVE  /\ Old(c, pipe[c][j].n)' /\ pipe'[c][j].n > 0
               /\ \A i \in 1..Len(results'[c]) : results'[c][i] < pipe'[c][j].n
               /\ \A i \in 1..(j - 1) : pipe'[c][i].kind = "result" =>
                    pipe'[c][i].n < pipe'[c][j].n
    <3>1. CASE j \in 1..Len(pipe[c])
      <4>1. pipe'[c][j] = pipe[c][j] /\ \A i \in 1..(j - 1) : pipe'[c][i] = pipe[c][i]
        BY <1>3, <2>5, <3>1
      <4>2. Old(c, pipe[c][j].n)'
        BY <2>3, <2>4, <3>1, <4>1
      <4> QED
        BY <1>1, <2>1, <2>4, <3>1, <4>1, <4>2 DEF Ordered
    <3>2. CASE j = Len(pipe[c]) + 1
      <4>1. pipe'[c][j] = e /\ e.n = next[c] /\ e.n <= Len(sent)
        BY <1>3, <2>4, <3>2
      <4>2. Old(c, pipe[c][j].n)' /\ pipe'[c][j].n > 0
        BY <1>2, <2>5, <4>1 DEF Old, Subscribed
      <4> QED
        BY <1>1, <1>3, <2>2, <2>3, <2>5, <3>2, <4>1, <4>2
    <3> QED
      BY <1>3, <2>5, <3>1, <3>2
  <2> QED
    BY <1>1, <2>1, <2>2, <2>4 DEF Ordered
<1>9. ClientInv(c)'
  BY <1>7, <1>8 DEF ClientInv
<1>10. Len(sent') \in Nat /\ Len(sent) <= Len(sent') /\ Len(sent') <= MaxSends
  BY Facts
<1>11. hub' = hub
  OBVIOUS
<1> QED
  BY <1>4, <1>5, <1>9, <1>10, <1>11, ClientStep

\* A step of the handler or of the client of the gateway or the chat: nothing is
\* promised about what it has received, only the positions matter.
LEMMA NotLiveStep ==
  ASSUME StreamInv, NEW c \in Clients, hub # "live",
         next' \in [Clients -> Nat], got' \in [Clients -> Nat],
         hand' \in [Clients -> 0..MaxSends], pipe' \in [Clients -> Seq(Events)],
         Len(pipe'[c]) <= PipeCap, next'[c] <= Len(sent) + 1,
         Subscribed(c)' <=> Subscribed(c), ~Subscribed(c) => got'[c] = got[c],
         hub # "chat" => hand'[c] = 0,
         \A d \in Clients \ {c} : /\ next'[d] = next[d] /\ got'[d] = got[d]
                                  /\ hand'[d] = hand[d] /\ pipe'[d] = pipe[d],
         UNCHANGED <<sent, base, hub, conn, told, pageVars, breaks>>
  PROVE  StreamInv'
<1>1. UNCHANGED <<phase, stop, connected, results>>
  BY DEF pageVars
<1>2. StreamTypeOK'
  <2>1. \A d \in Clients : Len(pipe'[d]) <= PipeCap
    BY DEF StreamInv, StreamTypeOK
  <2> QED
    BY <1>1, <2>1 DEF StreamInv, StreamTypeOK, TypeOK, Events
<1>3. \A d \in Clients \ {c} : Untouched(d)
  BY <1>1 DEF Untouched
<1>4. ClientInv(c)
  BY Facts
<1>5. Position(c)'
  BY <1>4 DEF ClientInv, Position
<1>6. HubOf(c)'
  BY <1>1, <1>4 DEF ClientInv, HubOf
<1> QED
  BY <1>2, <1>3, <1>5, <1>6, Facts, ClientStep DEF ClientInv

\* ... in which the receiver moves to another message.
LEMMA NotLiveMoves ==
  ASSUME StreamInv, NEW c \in Clients, hub # "live", Subscribed(c),
         NEW to \in Nat, to > 0, to <= Len(sent) + 1, next' = [next EXCEPT ![c] = to],
         got' \in [Clients -> Nat], \A d \in Clients \ {c} : got'[d] = got[d],
         hand' \in [Clients -> 0..MaxSends], \A d \in Clients \ {c} : hand'[d] = hand[d],
         hub # "chat" => hand'[c] = hand[c],
         UNCHANGED <<sent, base, hub, conn, pipe, told, pageVars, breaks>>
  PROVE  StreamInv'
<1>1. /\ next' \in [Clients -> Nat] /\ next'[c] = to /\ pipe \in [Clients -> Seq(Events)]
      /\ \A d \in Clients \ {c} : next'[d] = next[d]
  BY Facts
<1>2. Subscribed(c)' /\ next'[c] <= Len(sent) + 1
  BY <1>1 DEF Subscribed
<1>3. Len(pipe'[c]) <= PipeCap
  BY DEF StreamInv, StreamTypeOK
<1>4. hub # "chat" => hand'[c] = 0
  BY Facts DEF ClientInv, HubOf
<1> QED
  BY <1>1, <1>2, <1>3, <1>4, NotLiveStep

\* The connection ends; the page goes on with what it shows.
LEMMA DisconnectStep ==
  ASSUME StreamInv, NEW c \in Clients, Disconnect(c),
         NEW to \in {"none", "broken"}, conn' = [conn EXCEPT ![c] = to],
         pipe' = pipe \/ pipe' = [pipe EXCEPT ![c] = <<>>],
         phase' \in [Clients -> {"gone", "loop", "connecting", "reading", "sleep"}],
         hub # "live" => phase'[c] = "gone",
         \A d \in Clients \ {c} : phase'[d] = phase[d],
         connected' \in [Clients -> BOOLEAN], breaks' \in 0..MaxBreaks,
         UNCHANGED <<hub, stop, results>>
  PROVE  StreamInv'
<1>1. /\ next' = [next EXCEPT ![c] = 0] /\ base' = [base EXCEPT ![c] = 0]
      /\ got' = [got EXCEPT ![c] = 0] /\ hand' = [hand EXCEPT ![c] = 0]
      /\ told' = [told EXCEPT ![c] = 0] /\ UNCHANGED sent
  BY DEF Disconnect, Unsubscribe
<1>2. /\ next'[c] = 0 /\ base'[c] = 0 /\ got'[c] = 0 /\ hand'[c] = 0 /\ told'[c] = 0
      /\ conn'[c] \in {"none", "broken"} /\ pipe'[c] \in {pipe[c], <<>>}
      /\ \A d \in Clients \ {c} : pipe'[d] = pipe[d]
  BY <1>1, Facts
<1>3. StreamTypeOK'
  <2>1. /\ next' \in [Clients -> Nat] /\ base' \in [Clients -> Nat] /\ got' \in [Clients -> Nat]
        /\ hand' \in [Clients -> 0..MaxSends] /\ told' \in [Clients -> 0..MaxSends]
    BY <1>1, Facts
  <2>2. pipe' \in [Clients -> Seq(Events)] /\ conn' \in [Clients -> {"none", "open", "broken"}]
    <3>1. <<>> \in Seq(Events) /\ pipe \in [Clients -> Seq(Events)]
      BY Facts
    <3>2. pipe' \in [Clients -> Seq(Events)]
      BY <3>1
    <3> QED
      BY <3>2, Facts
  <2>3. \A d \in Clients : Len(pipe'[d]) <= PipeCap
    <3>1. \A d \in Clients : Len(pipe[d]) <= PipeCap
      BY DEF StreamInv, StreamTypeOK
    <3>2. Len(<<>>) = 0 /\ PipeCap \in Nat
      BY StreamsAssumption
    <3>3. \A d \in Clients : pipe'[d] = pipe[d] \/ pipe'[d] = <<>>
      BY <1>2
    <3> QED
      BY <3>1, <3>2, <3>3
  <2> QED
    BY <1>1, <2>1, <2>2, <2>3 DEF StreamInv, StreamTypeOK, TypeOK, Events
<1>4. \A d \in Clients \ {c} : Untouched(d)
  BY <1>1, <1>2, Facts DEF Untouched
<1>5. ClientInv(c)
  BY Facts
<1>6. Position(c)' /\ HubOf(c)'
  BY <1>1, <1>2, <1>5, Facts DEF ClientInv, Position, HubOf, Subscribed
<1>7. ASSUME hub' = "live" PROVE Ordered(c)'
  <2>1. Ordered(c)
    BY <1>5, <1>7 DEF ClientInv
  <2>2. \A i \in 1..Len(results[c]) : Old(c, results[c][i])'
    BY <1>1, <1>2, <2>1 DEF Ordered, Old, Subscribed
  <2>3. CASE pipe'[c] = <<>>
    <3>1. Len(pipe'[c]) = 0
      BY <2>3
    <3>2. 1..0 = {}
      OBVIOUS
    <3> QED
      BY <2>1, <2>2, <3>1, <3>2 DEF Ordered
  <2>4. CASE pipe'[c] = pipe[c]
    BY <1>1, <1>2, <2>1, <2>4 DEF Ordered, Old, Subscribed
  <2> QED
    BY <1>2, <2>3, <2>4
<1> QED
  BY <1>1, <1>3, <1>4, <1>6, <1>7, Facts, ClientStep DEF ClientInv

\* The page's task moves on, or the page is entered or left.
LEMMA PageMoves ==
  ASSUME StreamInv, NEW c \in Clients,
         phase' \in [Clients -> {"gone", "loop", "connecting", "reading", "sleep"}],
         hub # "live" => phase'[c] = "gone",
         \A d \in Clients \ {c} : phase'[d] = phase[d],
         stop' \in [Clients -> BOOLEAN], connected' \in [Clients -> BOOLEAN],
         results' = results \/ results' = [results EXCEPT ![c] = <<>>],
         breaks' \in 0..MaxBreaks,
         UNCHANGED <<ringVars, hub, conn, pipe, hand, told>>
  PROVE  StreamInv'
<1>1. UNCHANGED <<sent, next, base, got>>
  BY DEF ringVars
<1>2. /\ results'[c] \in {results[c], <<>>} /\ results' \in [Clients -> Seq(1..MaxSends)]
      /\ \A d \in Clients \ {c} : results'[d] = results[d]
  <2>1. <<>> \in Seq(1..MaxSends) /\ results \in [Clients -> Seq(1..MaxSends)]
    BY Facts
  <2>2. CASE results' = results
    BY <2>1, <2>2
  <2>3. CASE results' = [results EXCEPT ![c] = <<>>]
    BY <2>1, <2>3
  <2> QED
    BY <2>2, <2>3
<1>3. StreamTypeOK'
  <2>1. \A d \in Clients : Len(results'[d]) <= Keep
    <3>1. Len(<<>>) = 0 /\ Keep \in Nat /\ \A d \in Clients : Len(results[d]) <= Keep
      BY StreamsAssumption DEF StreamInv, StreamTypeOK
    <3>2. Len(results'[c]) <= Keep
      BY <1>2, <3>1
    <3> QED
      BY <1>2, <3>1, <3>2
  <2>2. TypeOK'
    BY <1>1 DEF StreamInv, StreamTypeOK, TypeOK
  <2> QED
    BY <1>1, <1>2, <2>1, <2>2 DEF StreamInv, StreamTypeOK
<1>4. \A d \in Clients \ {c} : Untouched(d)
  BY <1>1, <1>2 DEF Untouched
<1>5. ClientInv(c)
  BY Facts
<1>6. Position(c)' /\ HubOf(c)'
  <2>1. Position(c)'
    BY <1>1, <1>5 DEF ClientInv, Position, Subscribed
  <2>2. HubOf(c)'
    BY <1>2, <1>5 DEF ClientInv, HubOf
  <2> QED
    BY <2>1, <2>2
<1>7. ASSUME hub' = "live" PROVE Ordered(c)'
  <2>1. Ordered(c)
    BY <1>5, <1>7 DEF ClientInv
  <2>2. CASE results'[c] = <<>>
    BY <1>1, <2>1, <2>2 DEF Ordered, Old, Subscribed
  <2>3. CASE results'[c] = results[c]
    BY <1>1, <2>1, <2>3 DEF Ordered, Old, Subscribed
  <2> QED
    BY <1>2, <2>2, <2>3
<1> QED
  BY <1>1, <1>3, <1>4, <1>6, <1>7, Facts, ClientStep DEF ClientInv

\* A sequence without its i-th element.
LEMMA WithoutAtFacts ==
  ASSUME NEW S, NEW s \in Seq(S), NEW i \in 1..Len(s)
  PROVE  /\ WithoutAt(s, i) \in Seq(S)
         /\ Len(WithoutAt(s, i)) = Len(s) - 1
         /\ \A j \in 1..(Len(s) - 1) : WithoutAt(s, i)[j] = IF j < i THEN s[j] ELSE s[j + 1]
<1> DEFINE a == SubSeq(s, 1, i - 1)
           b == SubSeq(s, i + 1, Len(s))
<1>1. i \in Nat /\ i > 0 /\ Len(s) \in Nat /\ i <= Len(s)
  OBVIOUS
<1>2. a \in Seq(S) /\ Len(a) = i - 1 /\ \A j \in 1..(i - 1) : a[j] = s[j]
  BY <1>1, SubSeqProperties
<1>3. /\ b \in Seq(S) /\ Len(b) = Len(s) - i
      /\ \A j \in 1..(Len(s) - i) : b[j] = s[j + i]
  BY <1>1, SubSeqProperties
<1> HIDE DEF a, b
<1>4. /\ a \o b \in Seq(S) /\ Len(a \o b) = Len(s) - 1
      /\ \A j \in 1..(Len(s) - 1) : (a \o b)[j] = IF j <= i - 1 THEN a[j] ELSE b[j - (i - 1)]
  <2>1. /\ a \o b \in Seq(S) /\ Len(a \o b) = Len(a) + Len(b)
        /\ \A j \in 1..(Len(a) + Len(b)) :
             (a \o b)[j] = IF j <= Len(a) THEN a[j] ELSE b[j - Len(a)]
    BY <1>2, <1>3, ConcatProperties
  <2>2. Len(a) + Len(b) = Len(s) - 1
    BY <1>1, <1>2, <1>3
  <2> QED
    BY <1>2, <2>1, <2>2
<1>5. \A j \in 1..(Len(s) - 1) : (a \o b)[j] = IF j < i THEN s[j] ELSE s[j + 1]
  <2> TAKE j \in 1..(Len(s) - 1)
  <2>1. CASE j < i
    BY <1>1, <1>2, <1>4, <2>1
  <2>2. CASE j >= i
    <3>1. j - (i - 1) \in 1..(Len(s) - i) /\ (j - (i - 1)) + i = j + 1 /\ ~(j <= i - 1)
      BY <1>1, <2>2
    <3>2. (a \o b)[j] = b[j - (i - 1)]
      BY <1>4, <3>1
    <3>3. b[j - (i - 1)] = s[(j - (i - 1)) + i]
      BY <1>3, <3>1
    <3> QED
      BY <1>1, <2>2, <3>1, <3>2, <3>3
  <2>3. j < i \/ j >= i
    BY <1>1
  <2> QED
    BY <2>1, <2>2, <2>3
<1>6. WithoutAt(s, i) = a \o b
  BY DEF WithoutAt, a, b
<1> QED
  BY <1>4, <1>5, <1>6

\* push, with the oldest dropped at the limit: what is shown is n after a part of
\* what was shown before, in its order.
LEMMA KeptFacts ==
  ASSUME NEW S, NEW s \in Seq(S), NEW n \in S, NEW keep \in Nat \ {0}, Len(s) <= keep,
         NEW t, t = Append(IF Len(s) >= keep THEN Tail(s) ELSE s, n)
  PROVE  /\ t \in Seq(S) /\ Len(t) <= keep /\ Len(t) > 0
         /\ t[Len(t)] = n
         /\ \E k \in {0, 1} : /\ Len(t) = Len(s) + 1 - k
                              /\ \A j \in 1..(Len(t) - 1) : t[j] = s[j + k]
<1>1. CASE Len(s) >= keep
  <2>1. Len(s) = keep /\ s # <<>>
    BY <1>1
  <2>2. /\ Tail(s) \in Seq(S) /\ Len(Tail(s)) = Len(s) - 1
        /\ \A j \in 1..(Len(s) - 1) : Tail(s)[j] = s[j + 1]
    BY <2>1, HeadTailProperties
  <2>3. t = Append(Tail(s), n)
    BY <1>1
  <2>4. /\ t \in Seq(S) /\ Len(t) = Len(s) /\ t[Len(s)] = n
        /\ \A j \in 1..(Len(s) - 1) : t[j] = Tail(s)[j]
    BY <2>1, <2>2, <2>3, AppendProperties
  <2> QED
    BY <2>1, <2>2, <2>4
<1>2. CASE ~(Len(s) >= keep)
  <2>1. t = Append(s, n)
    BY <1>2
  <2>2. /\ t \in Seq(S) /\ Len(t) = Len(s) + 1 /\ t[Len(s) + 1] = n
        /\ \A j \in 1..Len(s) : t[j] = s[j]
    BY <2>1, AppendProperties
  <2> QED
    BY <1>2, <2>2
<1> QED
  BY <1>1, <1>2

\* The page applies the first waiting event of some kind.
LEMMA ReadStep ==
  ASSUME StreamInv, NEW c \in Clients, NEW i \in 1..Len(pipe[c]), Read(c, i), ~stop[c]
  PROVE  StreamInv'
<1> DEFINE e == pipe[c][i]
           P == pipe'[c]
           R == results'[c]
<1>1. /\ phase[c] = "reading" /\ FirstOfKind(c, i)
      /\ ApplySseEvent(c, pipe[c][i])
      /\ pipe' = [pipe EXCEPT ![c] = WithoutAt(@, i)]
      /\ UNCHANGED <<sent, next, base, got, hub, conn, hand, told, phase, stop, breaks>>
  BY DEF Read, ringVars
<1>2. /\ ClientInv(c) /\ pipe[c] \in Seq(Events) /\ results[c] \in Seq(1..MaxSends)
      /\ pipe \in [Clients -> Seq(Events)] /\ results \in [Clients -> Seq(1..MaxSends)]
  BY Facts
<1>3. hub = "live" /\ Ordered(c)
  BY <1>1, <1>2 DEF ClientInv, HubOf
<1>4. /\ P \in Seq(Events) /\ Len(P) = Len(pipe[c]) - 1
      /\ \A j \in 1..Len(P) : P[j] = IF j < i THEN pipe[c][j] ELSE pipe[c][j + 1]
  BY <1>1, <1>2, WithoutAtFacts
<1>5. e \in Events /\ e.n \in 0..MaxSends /\ (e.kind = "result" => e.n \in 1..MaxSends)
  <2>1. e \in Events /\ e.n \in 0..MaxSends /\ MaxSends \in Nat
    BY ElementFacts, Facts
  <2>2. e.kind = "result" => e.n > 0
    BY <1>3 DEF Ordered
  <2> HIDE DEF e
  <2> QED
    BY <2>1, <2>2
<1>6. connected' \in [Clients -> BOOLEAN]
  <2>1. connected' = [connected EXCEPT ![c] = @ \/ e.kind = "connected"]
    BY <1>1 DEF ApplySseEvent
  <2>2. connected \in [Clients -> BOOLEAN]
    BY DEF StreamInv, StreamTypeOK
  <2> QED
    BY <2>1, <2>2
<1>7. /\ results' = [results EXCEPT ![c] = R]
      /\ R = IF e.kind # "result" THEN results[c]
             ELSE Append(IF Len(results[c]) >= Keep THEN Tail(results[c]) ELSE results[c], e.n)
  <2>1. results' = [results EXCEPT ![c] =
          IF e.kind # "result" THEN results[c]
          ELSE Append(IF Len(results[c]) >= Keep THEN Tail(results[c]) ELSE results[c], e.n)]
    BY <1>1 DEF ApplySseEvent
  <2> QED
    BY <1>2, <2>1
<1> DEFINE src(j) == IF j < i THEN j ELSE j + 1
<1>8. /\ \A j \in 1..Len(P) : /\ src(j) \in 1..Len(pipe[c]) /\ src(j) # i
                             /\ P[j] = pipe[c][src(j)]
      /\ \A j \in 1..Len(P) : \A k \in 1..(j - 1) :
           k \in 1..Len(P) /\ src(k) \in 1..(src(j) - 1)
  <2>1. Len(pipe[c]) \in Nat /\ Len(P) \in Nat
    BY <1>2, <1>4
  <2> HIDE DEF P
  <2>2. \A j \in 1..Len(P) : src(j) \in 1..Len(pipe[c]) /\ src(j) # i
    BY <1>4, <2>1
  <2>3. \A j \in 1..Len(P) : P[j] = pipe[c][src(j)]
    BY <1>4
  <2>4. \A j \in 1..Len(P) : \A k \in 1..(j - 1) :
          k \in 1..Len(P) /\ src(k) \in 1..(src(j) - 1)
    BY <2>1
  <2> QED
    BY <2>2, <2>3, <2>4
<1> HIDE DEF P, R, src
<1>9. \A j \in 1..Len(P) : P[j].kind = "result" =>
        /\ Old(c, P[j].n) /\ P[j].n > 0
        /\ \A k \in 1..(j - 1) : P[k].kind = "result" => P[k].n < P[j].n
  BY <1>3, <1>8 DEF Ordered
<1>10. /\ R \in Seq(1..MaxSends) /\ Len(R) <= Keep
       /\ \A k \in 1..Len(R) : Old(c, R[k])
       /\ \A k, l \in 1..Len(R) : k < l => R[k] < R[l]
       /\ \A j \in 1..Len(P) : P[j].kind = "result" => \A k \in 1..Len(R) : R[k] < P[j].n
  <2>1. CASE e.kind # "result"
    <3>1. R = results[c] /\ Len(R) <= Keep
      BY <1>7, <2>1 DEF StreamInv, StreamTypeOK
    <3> QED
      BY <1>2, <1>3, <1>8, <3>1 DEF Ordered
  <2>2. CASE e.kind = "result"
    <3>1. R = Append(IF Len(results[c]) >= Keep THEN Tail(results[c]) ELSE results[c], e.n)
      BY <1>7, <2>2
    <3>2. Len(results[c]) <= Keep /\ Keep \in Nat \ {0} /\ e.n \in 1..MaxSends
      BY <1>5, <2>2, StreamsAssumption DEF StreamInv, StreamTypeOK
    <3>3. R \in Seq(1..MaxSends) /\ Len(R) <= Keep /\ Len(R) > 0 /\ R[Len(R)] = e.n
      <4> HIDE DEF e
      <4>1. R \in Seq(1..MaxSends)
        <5> DEFINE S == 1..MaxSends
        <5>1. results[c] \in Seq(S) /\ e.n \in S
          BY <1>2, <3>2
        <5> HIDE DEF S
        <5>2. R \in Seq(S)
          BY <3>1, <3>2, <5>1, KeptFacts
        <5> QED
          BY <5>2 DEF S
      <4>2. Len(R) <= Keep /\ Len(R) > 0
        BY <1>2, <3>1, <3>2, KeptFacts
      <4>3. R[Len(R)] = e.n
        BY <1>2, <3>1, <3>2, KeptFacts
      <4> QED
        BY <4>1, <4>2, <4>3
    <3>4. PICK d \in {0, 1} : /\ Len(R) = Len(results[c]) + 1 - d
                              /\ \A k \in 1..(Len(R) - 1) : R[k] = results[c][k + d]
      BY <1>2, <3>1, <3>2, KeptFacts
    <3>5. Len(R) \in Nat /\ \A k \in 1..(Len(R) - 1) : k + d \in 1..Len(results[c])
      BY <1>2, <3>3, <3>4
    <3>6. \A k \in 1..(Len(R) - 1) : R[k] < e.n /\ Old(c, R[k]) /\ R[k] \in 1..MaxSends
      BY <1>3, <2>2, <3>4, <3>5, ElementFacts DEF Ordered
    <3>7. Old(c, e.n)
      BY <1>3, <2>2 DEF Ordered
    <3>8. \A k \in 1..Len(R) : k \in 1..(Len(R) - 1) \/ k = Len(R)
      BY <3>5
    <3>9. \A k \in 1..Len(R) : Old(c, R[k])
      BY <3>3, <3>6, <3>7, <3>8
    <3>10. ASSUME NEW k \in 1..Len(R), NEW l \in 1..Len(R), k < l PROVE R[k] < R[l]
      <4>1. k \in 1..(Len(R) - 1)
        BY <3>5, <3>10
      <4>2. CASE l = Len(R)
        BY <3>3, <3>6, <4>1, <4>2
      <4>3. CASE l \in 1..(Len(R) - 1)
        <5>1. k + d < l + d
          BY <3>10
        <5> QED
          BY <1>3, <3>4, <3>5, <4>1, <4>3, <5>1 DEF Ordered
      <4> QED
        BY <3>8, <4>2, <4>3
    <3>11. ASSUME NEW j \in 1..Len(P), P[j].kind = "result", NEW k \in 1..Len(R)
           PROVE  R[k] < P[j].n
      <4>1. src(j) \in 1..Len(pipe[c]) /\ i \in 1..(src(j) - 1) /\ P[j] = pipe[c][src(j)]
        <5>1. /\ src(j) \in 1..Len(pipe[c]) /\ src(j) # i /\ P[j] = pipe[c][src(j)]
          BY <1>8
        <5>2. ~(src(j) \in 1..(i - 1))
          BY <1>1, <2>2, <3>11, <5>1 DEF FirstOfKind
        <5> QED
          BY <1>2, <5>1, <5>2
      <4>2. e.n < P[j].n /\ P[j].n \in 0..MaxSends
        BY <1>3, <2>2, <3>11, <4>1, ElementFacts DEF Ordered
      <4>3. CASE k = Len(R)
        BY <3>3, <4>2, <4>3
      <4>4. CASE k \in 1..(Len(R) - 1)
        <5>1. R[k] < e.n /\ R[k] \in 1..MaxSends
          BY <3>6, <4>4
        <5>2. \A x, y, z \in Int : x < y /\ y < z => x < z
          OBVIOUS
        <5>3. R[k] \in Int /\ e.n \in Int /\ P[j].n \in Int
          BY <1>5, <4>2, <5>1
        <5> QED
          BY <4>2, <5>1, <5>2, <5>3
      <4> QED
        BY <3>8, <4>3, <4>4
    <3> QED
      BY <3>3, <3>9, <3>10, <3>11
  <2> QED
    BY <2>1, <2>2
<1>11. results'[c] = R /\ results' \in [Clients -> Seq(1..MaxSends)]
  BY <1>2, <1>7, <1>10
<1>12. StreamTypeOK'
  <2>1. pipe' \in [Clients -> Seq(Events)] /\ \A d \in Clients : Len(pipe'[d]) <= PipeCap
    <3>1. pipe' = [pipe EXCEPT ![c] = P]
      BY <1>1, <1>2 DEF P
    <3>2. Len(pipe[c]) \in Nat /\ PipeCap \in Nat /\ \A d \in Clients : Len(pipe[d]) <= PipeCap
      BY <1>2, StreamsAssumption DEF StreamInv, StreamTypeOK
    <3>3. Len(P) <= PipeCap
      BY <1>4, <3>2
    <3> QED
      BY <1>2, <1>4, <3>1, <3>2, <3>3
  <2>2. \A d \in Clients : Len(results'[d]) <= Keep
    BY <1>2, <1>7, <1>10, <1>11 DEF StreamInv, StreamTypeOK
  <2> QED
    BY <1>1, <1>6, <1>11, <2>1, <2>2 DEF StreamInv, StreamTypeOK, TypeOK, Events
<1>13. \A d \in Clients \ {c} : Untouched(d)
  BY <1>1, <1>2, <1>7 DEF Untouched
<1>14. Position(c)'
  BY <1>1, <1>2 DEF ClientInv, Position, Subscribed
<1>15. HubOf(c)'
  BY <1>1, <1>2, <1>3 DEF ClientInv, HubOf
<1>16. \A n : Old(c, n)' = Old(c, n)
  BY <1>1 DEF Old, Subscribed
<1>17. Ordered(c)'
  BY <1>9, <1>10, <1>11, <1>16 DEF Ordered, P, Old
<1> QED
  BY <1>1, <1>12, <1>13, <1>14, <1>15, <1>17, Facts, ClientStep DEF ClientInv

-----------------------------------------------------------------------------
(* Theorems                                                                *)

\* Nothing sent and nobody connected.
LEMMA InitStreamInv == ASSUME Init PROVE StreamInv
<1>1. MaxSends \in Nat /\ PipeCap \in Nat /\ Keep \in Nat /\ MaxBreaks \in Nat
  BY BroadcastAssumption, StreamsAssumption
<1>2. /\ sent = <<>> /\ Len(sent) = 0
      /\ \A c \in Clients : /\ next[c] = 0 /\ base[c] = 0 /\ got[c] = 0 /\ conn[c] = "none"
                            /\ pipe[c] = <<>> /\ hand[c] = 0 /\ told[c] = 0
                            /\ phase[c] = "gone" /\ results[c] = <<>>
                            /\ Len(pipe[c]) = 0 /\ Len(results[c]) = 0
  BY DEF Init, InitRing
<1>3. StreamTypeOK
  <2>1. TypeOK
    BY DEF Init, InitRing, TypeOK
  <2>2. pipe \in [Clients -> Seq(Events)] /\ results \in [Clients -> Seq(1..MaxSends)]
    BY DEF Init
  <2>3. hand \in [Clients -> 0..MaxSends] /\ told \in [Clients -> 0..MaxSends]
        /\ breaks \in 0..MaxBreaks
    BY <1>1 DEF Init
  <2> QED
    BY <1>1, <1>2, <2>1, <2>2, <2>3 DEF Init, StreamTypeOK, Events
<1>4. ASSUME NEW c \in Clients PROVE ClientInv(c)
  <2>1. 1..0 = {}
    OBVIOUS
  <2> QED
    BY <1>2, <2>1 DEF ClientInv, Position, HubOf, Ordered, Subscribed
<1> QED
  BY <1>1, <1>2, <1>3, <1>4 DEF StreamInv

\* The account of the messages since a client subscribed, when one more is received
\* and when m more are reported as skipped.
LEMMA ReceiveAccount ==
  ASSUME NEW b \in Nat, NEW g \in Nat, NEW t \in Nat, NEW n \in Nat, b + g + t = n
  PROVE  b + (g + 1) + t = n + 1
  OBVIOUS

\* ... and when a lag is reported.
LEMMA LagAccount ==
  ASSUME NEW b \in Nat, NEW g \in Nat, NEW t \in Nat, NEW n \in Nat, b + g + t = n, b > 0,
         NEW m \in Nat, NEW max \in Nat, n + m <= max + 1
  PROVE  b + g + (t + m) = n + m /\ t + m \in 0..max
  OBVIOUS

\* The SSE handlers: a message is forwarded or a lag reported.
LEMMA SseStep ==
  ASSUME StreamInv, NEW c \in Clients, ForwardSse(c) \/ LagSse(c)
  PROVE  StreamInv'
<1>1. /\ next[c] \in Nat /\ base[c] \in Nat /\ got[c] \in Nat /\ told[c] \in Nat
      /\ Oldest \in Nat /\ Oldest <= Len(sent) + 1 /\ Len(sent) \in Nat
      /\ Len(sent) <= MaxSends /\ MaxSends \in Nat
  BY Facts
<1>2. Position(c)
  BY Facts DEF ClientInv
<1>3. CASE ForwardSse(c)
  <2> DEFINE e == EventOf("result", next[c])
  <2>1. /\ Subscribed(c) /\ hub # "chat" /\ Room(c) /\ next[c] <= Len(sent)
        /\ next' = [next EXCEPT ![c] = next[c] + 1]
        /\ got' = [got EXCEPT ![c] = got[c] + 1]
        /\ pipe' = [pipe EXCEPT ![c] = Append(@, e)]
        /\ UNCHANGED <<sent, base, hub, conn, told, hand, pageVars, breaks>>
    BY <1>3 DEF ForwardSse, Recv, Ready
  <2>2. e \in Events /\ e.kind = "result" /\ e.n = next[c]
    BY <1>1, <2>1 DEF EventOf, Events, Kinds
  <2>3. got' \in [Clients -> Nat] /\ got'[c] = got[c] + 1
    <3>1. got \in [Clients -> Nat] /\ got[c] + 1 \in Nat
      BY <1>1, Facts
    <3>2. got' = [got EXCEPT ![c] = got[c] + 1]
      BY <2>1
    <3> QED
      BY <3>1, <3>2
  <2>4. hub = "live" => base[c] + got'[c] + told'[c] = next[c] + 1
    <3>1. ASSUME hub = "live" PROVE base[c] + (got[c] + 1) + told[c] = next[c] + 1
      <4>1. base[c] + got[c] + told[c] = next[c]
        BY <1>2, <2>1, <3>1 DEF Position
      <4> HIDE DEF e
      <4>2. next[c] \in Nat /\ base[c] \in Nat /\ got[c] \in Nat /\ told[c] \in Nat
        BY <1>1
      <4> QED
        BY <4>1, <4>2, ReceiveAccount
    <3> QED
      BY <2>1, <2>3, <3>1
  <2>5. hub # "live" => told'[c] = 0
    BY <2>1, Facts DEF ClientInv, HubOf
  <2> HIDE DEF e
  <2>6. /\ next[c] + 1 \in Nat /\ next[c] + 1 > next[c] /\ next[c] + 1 <= Len(sent) + 1
    BY <1>1, <2>1
  <2>7. \A d \in Clients \ {c} : got'[d] = got[d] /\ told'[d] = told[d]
    BY <2>1, Facts
  <2> QED
    BY <2>1, <2>2, <2>3, <2>4, <2>5, <2>6, <2>7, Facts, WriteStep
<1>4. CASE LagSse(c) /\ hub = "live"
  <2> DEFINE e == EventOf("lagged", Missed(c))
  <2>1. /\ Subscribed(c) /\ hub # "chat" /\ Room(c) /\ next[c] < Oldest
        /\ next' = [next EXCEPT ![c] = Oldest]
        /\ told' = [told EXCEPT ![c] = told[c] + Missed(c)]
        /\ pipe' = [pipe EXCEPT ![c] = Append(@, e)]
        /\ UNCHANGED <<sent, base, got, hub, conn, hand, pageVars, breaks>>
    BY <1>4 DEF LagSse, Lag
  <2>2. /\ Missed(c) \in Nat /\ Missed(c) = Oldest - next[c] /\ Missed(c) <= MaxSends
        /\ base[c] + got[c] + told[c] = next[c] /\ base[c] > 0
    BY <1>1, <1>2, <1>4, <2>1 DEF Missed, Position, Subscribed
  <2>3. e \in Events /\ e.kind # "result"
    BY <1>1, <2>2 DEF EventOf, Events, Kinds
  <2>4. told[c] + Missed(c) \in 0..MaxSends /\ base[c] + got[c] + (told[c] + Missed(c)) = Oldest
    <3>1. next[c] + Missed(c) = Oldest
      BY <1>1, <2>2
    <3>2. next[c] + Missed(c) <= MaxSends + 1
      BY <1>1, <3>1
    <3>3. /\ base[c] + got[c] + (told[c] + Missed(c)) = next[c] + Missed(c)
          /\ told[c] + Missed(c) \in 0..MaxSends
      <4> DEFINE m == Missed(c)
      <4>1. /\ m \in Nat /\ next[c] + m <= MaxSends + 1
            /\ base[c] + got[c] + told[c] = next[c] /\ base[c] > 0
            /\ base[c] \in Nat /\ got[c] \in Nat /\ told[c] \in Nat /\ next[c] \in Nat
            /\ MaxSends \in Nat
        BY <1>1, <2>2, <3>2
      <4> HIDE DEF m
      <4>2. base[c] + got[c] + (told[c] + m) = next[c] + m
        BY <4>1, LagAccount
      <4>3. told[c] + m \in 0..MaxSends
        BY <4>1, LagAccount
      <4> QED
        BY <4>2, <4>3 DEF m
    <3> QED
      BY <3>1, <3>3
  <2>5. told' \in [Clients -> 0..MaxSends] /\ told'[c] = told[c] + Missed(c)
    BY <2>1, <2>4, Facts
  <2>6. \A d \in Clients \ {c} : got'[d] = got[d] /\ told'[d] = told[d]
    BY <2>1, Facts
  <2>7. base[c] + got'[c] + told'[c] = Oldest
    BY <2>1, <2>4, <2>5
  <2> HIDE DEF e
  <2> QED
    BY <1>1, <1>4, <2>1, <2>3, <2>5, <2>6, <2>7, Facts, WriteStep
<1>5. CASE LagSse(c) /\ hub # "live"
  <2>1. /\ Subscribed(c) /\ next[c] < Oldest
        /\ next' = [next EXCEPT ![c] = Oldest]
        /\ UNCHANGED <<sent, base, got, hub, conn, hand, pipe, told, pageVars, breaks>>
    BY <1>5 DEF LagSse, Lag
  <2> QED
    BY <1>1, <1>5, <2>1, Facts, NotLiveMoves
<1> QED
  BY <1>3, <1>4, <1>5

\* The chat handler receives, and waits in sink.send or skips its own message.
LEMMA ChatReceives ==
  ASSUME StreamInv, NEW c \in Clients, ChatBroadcast(c) \/ ChatLag(c)
  PROVE  StreamInv'
<1>1. /\ next[c] \in Nat /\ got[c] \in Nat /\ Oldest \in Nat /\ Oldest <= Len(sent) + 1
      /\ Len(sent) \in Nat /\ Len(sent) <= MaxSends /\ MaxSends \in Nat
      /\ got \in [Clients -> Nat] /\ hand \in [Clients -> 0..MaxSends]
  BY Facts
<1>2. CASE ChatBroadcast(c)
  <2>1. /\ Subscribed(c) /\ hub = "chat" /\ next[c] <= Len(sent)
        /\ next' = [next EXCEPT ![c] = next[c] + 1]
        /\ got' = [got EXCEPT ![c] = got[c] + 1]
        /\ hand' = [hand EXCEPT ![c] = IF Echo(c) THEN 0 ELSE next[c]]
        /\ UNCHANGED <<sent, base, hub, conn, pipe, told, pageVars, breaks>>
    BY <1>2 DEF ChatBroadcast, Recv, Ready
  <2>2. /\ got' \in [Clients -> Nat] /\ hand' \in [Clients -> 0..MaxSends]
        /\ \A d \in Clients \ {c} : got'[d] = got[d]
        /\ \A d \in Clients \ {c} : hand'[d] = hand[d]
    BY <1>1, <2>1
  <2>3. next[c] + 1 \in Nat /\ next[c] + 1 > 0 /\ next[c] + 1 <= Len(sent) + 1
    BY <1>1, <2>1
  <2> QED
    BY <2>1, <2>2, <2>3, NotLiveMoves
<1>3. CASE ChatLag(c)
  <2>1. /\ Subscribed(c) /\ hub = "chat" /\ next[c] < Oldest
        /\ next' = [next EXCEPT ![c] = Oldest]
        /\ UNCHANGED <<sent, base, got, hub, conn, hand, pipe, told, pageVars, breaks>>
    BY <1>3 DEF ChatLag, Lag
  <2> QED
    BY <1>1, <2>1, Facts, NotLiveMoves
<1> QED
  BY <1>2, <1>3

\* sink.send returns, or a client of the gateway or the chat reads.
LEMMA ChatPipeStep ==
  ASSUME StreamInv, NEW c \in Clients, ChatSent(c) \/ Consume(c)
  PROVE  StreamInv'
<1>1. /\ pipe[c] \in Seq(Events) /\ pipe \in [Clients -> Seq(Events)]
      /\ hand \in [Clients -> 0..MaxSends] /\ hand[c] \in 0..MaxSends
      /\ next \in [Clients -> Nat] /\ got \in [Clients -> Nat] /\ MaxSends \in Nat
      /\ ClientInv(c) /\ next[c] <= Len(sent) + 1
  BY Facts DEF ClientInv, Position
<1>2. Len(pipe[c]) \in Nat /\ Len(pipe[c]) <= PipeCap /\ PipeCap \in Nat
  BY <1>1, StreamsAssumption DEF StreamInv, StreamTypeOK
<1>3. CASE ChatSent(c)
  <2> DEFINE e == EventOf("result", hand[c])
  <2>1. /\ hub = "chat" /\ hand' = [hand EXCEPT ![c] = 0] /\ Len(pipe[c]) < PipeCap
        /\ pipe' = [pipe EXCEPT ![c] = Append(pipe[c], e)]
        /\ UNCHANGED <<sent, next, base, got, hub, conn, told, pageVars, breaks>>
    <3>1. hub = "chat"
      BY <1>1, <1>3 DEF ChatSent, ClientInv, HubOf
    <3> QED
      BY <1>3, <3>1 DEF ChatSent, Room, ringVars
  <2>2. e \in Events
    BY <1>1 DEF EventOf, Events, Kinds
  <2> HIDE DEF e
  <2>3. Append(pipe[c], e) \in Seq(Events) /\ Len(Append(pipe[c], e)) = Len(pipe[c]) + 1
    BY <1>1, <2>2, AppendProperties
  <2>4. /\ pipe' \in [Clients -> Seq(Events)] /\ Len(pipe'[c]) <= PipeCap
        /\ hand' \in [Clients -> 0..MaxSends] /\ hand'[c] = 0
        /\ \A d \in Clients \ {c} : hand'[d] = hand[d] /\ pipe'[d] = pipe[d]
    BY <1>1, <1>2, <2>1, <2>3
  <2> QED
    BY <1>1, <2>1, <2>4, NotLiveStep DEF Subscribed
<1>4. CASE Consume(c)
  <2>1. /\ hub # "live" /\ pipe[c] # <<>> /\ pipe' = [pipe EXCEPT ![c] = Tail(pipe[c])]
        /\ UNCHANGED <<sent, next, base, got, hand, hub, conn, told, pageVars, breaks>>
    BY <1>4 DEF Consume, ringVars
  <2>2. Tail(pipe[c]) \in Seq(Events) /\ Len(Tail(pipe[c])) = Len(pipe[c]) - 1
    BY <1>1, <2>1, HeadTailProperties
  <2>3. /\ pipe' \in [Clients -> Seq(Events)] /\ Len(pipe'[c]) <= PipeCap
        /\ \A d \in Clients \ {c} : pipe'[d] = pipe[d]
    BY <1>1, <1>2, <2>1, <2>2
  <2>4. hub # "chat" => hand[c] = 0
    BY <1>1 DEF ClientInv, HubOf
  <2> QED
    BY <1>1, <2>1, <2>3, <2>4, NotLiveStep DEF Subscribed
<1> QED
  BY <1>3, <1>4

\* A connection is lost, given up by the client or closed by the page.
LEMMA ConnectionEnds ==
  ASSUME StreamInv, NEW c \in Clients,
         Break(c) \/ HangUp(c) \/ (phase[c] # "gone" /\ Close(c))
  PROVE  StreamInv'
<1>1. /\ phase \in [Clients -> {"gone", "loop", "connecting", "reading", "sleep"}]
      /\ connected \in [Clients -> BOOLEAN] /\ breaks \in 0..MaxBreaks /\ MaxBreaks \in Nat
  BY StreamsAssumption DEF StreamInv, StreamTypeOK
<1>2. hub # "live" => phase[c] = "gone"
  BY Facts DEF ClientInv, HubOf
<1>3. CASE Break(c)
  <2>1. /\ Disconnect(c) /\ UNCHANGED <<hub, phase, stop, connected, results>>
        /\ breaks' \in 0..MaxBreaks
        /\ conn' = [conn EXCEPT ![c] = IF hub = "live" THEN "broken" ELSE "none"]
        /\ pipe' = [pipe EXCEPT ![c] = IF hub = "live" THEN @ ELSE <<>>]
    BY <1>1, <1>3 DEF Break, pageVars
  <2>2. pipe' = pipe \/ pipe' = [pipe EXCEPT ![c] = <<>>]
    BY <2>1, Facts
  <2>3. CASE hub = "live"
    BY <1>1, <1>2, <2>1, <2>2, <2>3, DisconnectStep
  <2>4. CASE hub # "live"
    BY <1>1, <1>2, <2>1, <2>2, <2>4, DisconnectStep
  <2> QED
    BY <2>3, <2>4
<1>4. CASE HangUp(c)
  BY <1>1, <1>2, <1>4, DisconnectStep DEF HangUp, pageVars
<1>5. CASE phase[c] # "gone" /\ Close(c)
  <2>1. /\ Disconnect(c) /\ UNCHANGED <<hub, stop, results, breaks>>
        /\ conn' = [conn EXCEPT ![c] = "none"] /\ pipe' = [pipe EXCEPT ![c] = <<>>]
        /\ phase' = [phase EXCEPT ![c] = IF stop[c] THEN "gone" ELSE "sleep"]
        /\ connected' = [connected EXCEPT ![c] = FALSE]
    BY <1>5 DEF Close
  <2>2. /\ phase' \in [Clients -> {"gone", "loop", "connecting", "reading", "sleep"}]
        /\ connected' \in [Clients -> BOOLEAN]
        /\ \A d \in Clients \ {c} : phase'[d] = phase[d]
    BY <1>1, <2>1
  <2> QED
    BY <1>1, <1>2, <1>5, <2>1, <2>2, DisconnectStep
<1> QED
  BY <1>3, <1>4, <1>5

\* The page's own steps that touch no connection.
LEMMA PageOnly ==
  ASSUME StreamInv, NEW c \in Clients,
         Visit(c) \/ Leave(c) \/ LoopHead(c) \/ Opened(c) \/ Slept(c)
  PROVE  StreamInv'
<1>1. /\ phase \in [Clients -> {"gone", "loop", "connecting", "reading", "sleep"}]
      /\ stop \in [Clients -> BOOLEAN] /\ connected \in [Clients -> BOOLEAN]
      /\ breaks \in 0..MaxBreaks /\ MaxBreaks \in Nat
  BY StreamsAssumption DEF StreamInv, StreamTypeOK
<1>2. hub # "live" => phase[c] = "gone"
  BY Facts DEF ClientInv, HubOf
<1>3. CASE Visit(c)
  <2>1. /\ phase' = [phase EXCEPT ![c] = "loop"] /\ stop' = [stop EXCEPT ![c] = FALSE]
        /\ connected' = [connected EXCEPT ![c] = FALSE]
        /\ results' = [results EXCEPT ![c] = <<>>] /\ hub = "live"
        /\ UNCHANGED <<ringVars, hub, conn, pipe, hand, told, breaks>>
    BY <1>3 DEF Visit
  <2>2. /\ phase' \in [Clients -> {"gone", "loop", "connecting", "reading", "sleep"}]
        /\ stop' \in [Clients -> BOOLEAN] /\ connected' \in [Clients -> BOOLEAN]
        /\ \A d \in Clients \ {c} : phase'[d] = phase[d]
    BY <1>1, <2>1
  <2> QED
    BY <1>1, <2>1, <2>2, PageMoves
<1>4. CASE Leave(c)
  <2>1. /\ stop' = [stop EXCEPT ![c] = TRUE] /\ phase[c] # "gone"
        /\ UNCHANGED <<ringVars, hub, conn, pipe, hand, told, phase, connected, results, breaks>>
    BY <1>4 DEF Leave
  <2>2. stop' \in [Clients -> BOOLEAN]
    BY <1>1, <2>1
  <2> QED
    BY <1>1, <1>2, <2>1, <2>2, PageMoves
<1>5. CASE LoopHead(c) \/ Opened(c) \/ Slept(c)
  <2>1. PICK from \in {"loop", "connecting", "sleep"},
             to \in {"gone", "connecting", "sleep", "reading", "loop"} : PageStep(c, from, to)
    BY <1>5 DEF LoopHead, Opened, Slept
  <2>2. breaks' \in 0..MaxBreaks
    BY <1>1, <1>5 DEF LoopHead, Opened, Slept
  <2>3. /\ phase[c] = from /\ phase' = [phase EXCEPT ![c] = to]
        /\ UNCHANGED <<ringVars, hub, conn, pipe, hand, told, stop, connected, results>>
    BY <2>1 DEF PageStep
  <2>4. /\ phase' \in [Clients -> {"gone", "loop", "connecting", "reading", "sleep"}]
        /\ \A d \in Clients \ {c} : phase'[d] = phase[d]
    BY <1>1, <2>3
  <2>5. hub = "live"
    BY <1>2, <2>3
  <2> QED
    BY <1>1, <2>2, <2>3, <2>4, <2>5, PageMoves
<1> QED
  BY <1>3, <1>4, <1>5

\* The inductive step, one case per action.
LEMMA NextStreamInv == ASSUME StreamInv, [Next]_vars PROVE StreamInv'
<1>1. CASE Publish
  BY <1>1, SendStep, StreamsAssumption DEF Publish
<1>2. ASSUME NEW c \in Clients, ChatIncoming(c) PROVE StreamInv'
  BY <1>2, SendStep, StreamsAssumption DEF ChatIncoming
<1>3. ASSUME NEW c \in Clients, Handler(c) PROVE StreamInv'
  BY <1>3, SseStep, ChatReceives, ChatPipeStep DEF Handler
<1>4. ASSUME NEW c \in Clients, Page(c) PROVE StreamInv'
  <2>1. ASSUME NEW i \in 1..Len(pipe[c]), Read(c, i) PROVE StreamInv'
    <3>1. CASE stop[c]
      BY <2>1, <3>1, ConnectionEnds DEF Read
    <3>2. CASE ~stop[c]
      BY <2>1, <3>2, ReadStep
    <3> QED
      BY <3>1, <3>2
  <2>2. CASE NotOpened(c) \/ ReadErr(c)
    BY <2>2, ConnectionEnds DEF NotOpened, ReadErr
  <2> QED
    BY <1>4, <2>1, <2>2, PageOnly DEF Page
<1>5. CASE UNCHANGED vars
  <2>1. /\ UNCHANGED <<sent, next, base, got, hub, conn, pipe, hand, told, phase, stop, connected,
                       results, breaks>>
    BY <1>5 DEF vars, ringVars, pageVars
  <2>2. StreamTypeOK'
    BY <2>1 DEF StreamInv, StreamTypeOK, TypeOK
  <2>3. \A d \in Clients : Untouched(d)
    BY <2>1 DEF Untouched
  <2> QED
    BY <2>1, <2>2, <2>3, UntouchedClient, Facts DEF StreamInv
<1> QED
  BY <1>1, <1>2, <1>3, <1>4, <1>5, OpenStep, ChatPipeStep, ConnectionEnds, PageOnly DEF Next

\* The handlers of sse.rs and chat.rs and the browser's run_live_feed keep the
\* invariant, at any speed of the clients.
THEOREM StreamInvHolds == Spec => []StreamInv
  BY InitStreamInv, NextStreamInv, PTL DEF Spec

\* No connection holds more than PipeCap unread events and no page more than Keep
\* results, whatever is sent.
THEOREM StreamTypeCorrect == Spec => []StreamTypeOK
<1>1. StreamInv => StreamTypeOK
  BY DEF StreamInv
<1> QED
  BY <1>1, StreamInvHolds, PTL

\* sse_handler of live-search: every message since a client connected was sent to it
\* or is in the counts of the stream_lagged events it was sent.
THEOREM GapsReportedHolds == Spec => []GapsReported
<1>1. ASSUME StreamInv PROVE GapsReported
  BY <1>1 DEF StreamInv, ClientInv, Position, GapsReported
<1> QED
  BY <1>1, StreamInvHolds, PTL

\* apply_sse_event: the page shows results in the order of publication, across lags
\* and reconnects.
THEOREM PageInOrderHolds == Spec => []PageInOrder
<1>1. ASSUME StreamInv PROVE PageInOrder
  <2>1. ASSUME NEW c \in Clients, hub = "live"
        PROVE  \A i, j \in 1..Len(results[c]) : i < j => results[c][i] < results[c][j]
    BY <1>1, <2>1 DEF StreamInv, ClientInv, Ordered
  <2>2. ASSUME NEW c \in Clients, hub # "live"
        PROVE  \A i, j \in 1..Len(results[c]) : i < j => results[c][i] < results[c][j]
    <3>1. results[c] = <<>> /\ Len(<<>>) = 0
      BY <1>1, <2>2 DEF StreamInv, ClientInv, HubOf
    <3> QED
      BY <3>1
  <2> QED
    BY <2>1, <2>2 DEF PageInOrder
<1> QED
  BY <1>1, StreamInvHolds, PTL

\* consume_event_source looks at the stop flag after each await: nothing is applied
\* to the signals of a page that was left.
THEOREM NothingAfterLeavingHolds == Spec => NothingAfterLeaving
<1> DEFINE A == \A c \in Clients : stop[c] /\ stop'[c] =>
                  results'[c] = results[c] /\ (connected'[c] => connected[c])
<1>1. ASSUME StreamInv, Next PROVE A
  <2> SUFFICES ASSUME NEW d \in Clients, stop[d], stop'[d]
               PROVE  results'[d] = results[d] /\ (connected'[d] => connected[d])
    OBVIOUS
  <2>1. /\ connected \in [Clients -> BOOLEAN] /\ results \in [Clients -> Seq(1..MaxSends)]
        /\ stop \in [Clients -> BOOLEAN]
    BY <1>1 DEF StreamInv, StreamTypeOK
  <2>2. ASSUME UNCHANGED <<results, connected>>
        PROVE  results'[d] = results[d] /\ (connected'[d] => connected[d])
    BY <2>2
  <2>3. ASSUME NEW c \in Clients, Close(c)
        PROVE  results'[d] = results[d] /\ (connected'[d] => connected[d])
    BY <2>1, <2>3 DEF Close
  <2>4. ASSUME NEW c \in Clients, Visit(c)
        PROVE  results'[d] = results[d] /\ (connected'[d] => connected[d])
    BY <2>1, <2>4 DEF Visit
  <2>5. ASSUME NEW c \in Clients, NEW i \in 1..Len(pipe[c]), Read(c, i)
        PROVE  results'[d] = results[d] /\ (connected'[d] => connected[d])
    <3>1. CASE stop[c]
      BY <2>3, <2>5, <3>1 DEF Read
    <3>2. CASE ~stop[c]
      BY <2>1, <2>5, <3>2 DEF Read, ApplySseEvent
    <3> QED
      BY <3>1, <3>2
  <2>6. ASSUME NEW c \in Clients, Handler(c)
        PROVE  UNCHANGED <<results, connected>>
    BY <2>6 DEF Handler, ForwardSse, LagSse, ChatBroadcast, ChatSent, ChatLag, pageVars
  <2>7. ASSUME NEW c \in Clients, LoopHead(c) \/ Opened(c) \/ Slept(c)
        PROVE  UNCHANGED <<results, connected>>
    BY <2>7 DEF LoopHead, Opened, Slept, PageStep
  <2>8. ASSUME NEW c \in Clients, Page(c)
        PROVE  results'[d] = results[d] /\ (connected'[d] => connected[d])
    BY <2>2, <2>3, <2>5, <2>7, <2>8 DEF Page, NotOpened, ReadErr
  <2>9. ASSUME NEW c \in Clients,
               Open(c) \/ ChatIncoming(c) \/ Break(c) \/ Consume(c) \/ HangUp(c) \/ Leave(c)
        PROVE  UNCHANGED <<results, connected>>
    BY <2>9 DEF Open, ChatIncoming, Break, Consume, HangUp, Leave, pageVars
  <2>10. ASSUME Publish PROVE UNCHANGED <<results, connected>>
    BY <2>10 DEF Publish, pageVars
  <2> QED
    BY <1>1, <2>2, <2>4, <2>6, <2>8, <2>9, <2>10 DEF Next
<1>2. StreamInv /\ [Next]_vars => [A]_vars
  BY <1>1
<1> QED
  BY <1>2, StreamInvHolds, PTL DEF Spec, NothingAfterLeaving

-----------------------------------------------------------------------------
(* What a chat client is sent                                              *)

\* The hub's message n is for the client c: another client sent it, after c joined,
\* and the receiver of c has taken it.
Deliverable(c, n) ==
  /\ n \in 1..Len(sent)
  /\ sent[n] # c
  /\ base[c] <= n /\ n < next[c]

\* The message in sink.send comes after those written, and these are in order.
ChatClient(c) ==
  /\ base[c] <= next[c]
  /\ hand[c] # 0 => Deliverable(c, hand[c])
  /\ \A j \in 1..Len(pipe[c]) :
       /\ Deliverable(c, pipe[c][j].n)
       /\ hand[c] # 0 => pipe[c][j].n < hand[c]
       /\ \A i \in 1..(j - 1) : pipe[c][i].n < pipe[c][j].n

ChatInv == hub = "chat" => \A c \in Clients : ChatClient(c)

\* ... in the state after the step.
DeliverableLater(c, n) ==
  /\ n \in 1..Len(sent')
  /\ sent'[n] # c
  /\ base'[c] <= n /\ n < next'[c]

\* The messages of the hub stay what they are.
SentKept ==
  /\ Len(sent') \in Nat
  /\ \A i \in 1..Len(sent) : i \in 1..Len(sent') /\ sent'[i] = sent[i]

\* The invariant of a client after a step, in the words of the steps below.
LEMMA LaterClient ==
  ASSUME NEW d \in Clients, base'[d] <= next'[d],
         hand'[d] # 0 => DeliverableLater(d, hand'[d]),
         \A j \in 1..Len(pipe'[d]) :
           /\ DeliverableLater(d, pipe'[d][j].n)
           /\ hand'[d] # 0 => pipe'[d][j].n < hand'[d]
           /\ \A i \in 1..(j - 1) : pipe'[d][i].n < pipe'[d][j].n
  PROVE  ChatClient(d)'
  BY DEF ChatClient, Deliverable, DeliverableLater

\* A client that has nothing new in its hands or on its connection.
LEMMA ChatKeeps ==
  ASSUME StreamInv, NEW d \in Clients, ChatClient(d), SentKept,
         base'[d] = base[d], next'[d] \in Nat, next[d] <= next'[d],
         hand'[d] = hand[d], pipe'[d] = pipe[d]
  PROVE  ChatClient(d)'
<1>1. /\ next[d] \in Nat /\ base[d] \in Nat /\ Len(sent) \in Nat
  BY Facts
<1>2. ASSUME NEW n, Deliverable(d, n) PROVE DeliverableLater(d, n)
  BY <1>1, <1>2 DEF Deliverable, DeliverableLater, SentKept
<1>3. base'[d] <= next'[d]
  BY <1>1 DEF ChatClient
<1>4. hand'[d] # 0 => DeliverableLater(d, hand[d])
  BY <1>2 DEF ChatClient
<1>5. \A j \in 1..Len(pipe[d]) : DeliverableLater(d, pipe[d][j].n)
  BY <1>2 DEF ChatClient
<1>6. \A j \in 1..Len(pipe[d]) :
        /\ hand[d] # 0 => pipe[d][j].n < hand[d]
        /\ \A i \in 1..(j - 1) : pipe[d][i].n < pipe[d][j].n
  BY DEF ChatClient
<1> QED
  BY <1>3, <1>4, <1>5, <1>6, LaterClient

\* A connection that begins or has ended.
LEMMA ChatCleared ==
  ASSUME NEW d \in Clients, base'[d] <= next'[d], hand'[d] = 0, pipe'[d] = <<>>
  PROVE  ChatClient(d)'
<1>1. Len(pipe'[d]) = 0
  OBVIOUS
<1>2. \A j \in 1..Len(pipe'[d]) : FALSE
  BY <1>1
<1> QED
  BY <1>2 DEF ChatClient

\* rx.recv(): the client's own message is skipped, another's goes to sink.send.
LEMMA ChatTakes ==
  ASSUME StreamInv, NEW c \in Clients, ChatClient(c), ChatBroadcast(c)
  PROVE  ChatClient(c)'
<1>1. /\ next[c] \in Nat /\ base[c] \in Nat /\ Len(sent) \in Nat
      /\ next \in [Clients -> Nat] /\ hand \in [Clients -> 0..MaxSends]
  BY Facts
<1>2. /\ hand[c] = 0 /\ next[c] # 0 /\ next[c] <= Len(sent)
      /\ next'[c] = next[c] + 1
      /\ hand'[c] = IF Echo(c) THEN 0 ELSE next[c]
      /\ UNCHANGED <<sent, base, pipe>>
  BY <1>1 DEF ChatBroadcast, Recv, Ready, Subscribed
<1>3. SentKept
  BY <1>1, <1>2 DEF SentKept
<1>4. CASE Echo(c)
  <2>1. hand'[c] = hand[c] /\ next'[c] \in Nat /\ next[c] <= next'[c]
    BY <1>1, <1>2, <1>4
  <2> QED
    BY <1>2, <1>3, <2>1, ChatKeeps
<1>5. CASE ~Echo(c)
  <2>1. hand'[c] = next[c]
    BY <1>2, <1>5
  <2>2. base[c] <= next[c] /\ sent[next[c]] # c
    BY <1>5 DEF ChatClient, Echo
  <2>3. DeliverableLater(c, next[c])
    BY <1>1, <1>2, <2>2 DEF Deliverable, DeliverableLater
  <2>4. ASSUME NEW j \in 1..Len(pipe[c])
        PROVE  /\ DeliverableLater(c, pipe[c][j].n) /\ pipe[c][j].n < next[c]
               /\ \A i \in 1..(j - 1) : pipe[c][i].n < pipe[c][j].n
    <3>1. /\ Deliverable(c, pipe[c][j].n)
          /\ \A i \in 1..(j - 1) : pipe[c][i].n < pipe[c][j].n
      BY DEF ChatClient
    <3>2. DeliverableLater(c, pipe[c][j].n) /\ pipe[c][j].n < next[c]
      BY <1>1, <1>2, <3>1 DEF Deliverable, DeliverableLater
    <3> QED
      BY <3>1, <3>2
  <2>5. base'[c] <= next'[c]
    BY <1>1, <1>2, <2>2
  <2>6. pipe'[c] = pipe[c]
    BY <1>2
  <2>7. \A j \in 1..Len(pipe'[c]) : DeliverableLater(c, pipe'[c][j].n)
    BY <2>4, <2>6 DEF Deliverable, DeliverableLater
  <2>8. hand'[c] # 0 => DeliverableLater(c, hand'[c])
    BY <2>1, <2>3 DEF Deliverable, DeliverableLater
  <2>9. \A j \in 1..Len(pipe'[c]) :
          /\ pipe'[c][j].n < hand'[c]
          /\ \A i \in 1..(j - 1) : pipe'[c][i].n < pipe'[c][j].n
    BY <2>1, <2>4, <2>6
  <2> QED
    BY <2>5, <2>7, <2>8, <2>9, LaterClient
<1> QED
  BY <1>4, <1>5

\* sink.send returned: the message comes after all that was written before.
LEMMA ChatWrites ==
  ASSUME StreamInv, NEW c \in Clients, ChatClient(c), ChatSent(c)
  PROVE  ChatClient(c)'
<1> DEFINE e == EventOf("result", hand[c])
           s == pipe[c]
<1>1. /\ pipe \in [Clients -> Seq(Events)] /\ hand \in [Clients -> 0..MaxSends]
      /\ MaxSends \in Nat
  BY Facts
<1>2. e \in Events /\ e.n = hand[c]
  BY <1>1 DEF EventOf, Events, Kinds
<1>3. s \in Seq(Events) /\ Len(s) \in Nat
  BY <1>1
<1>4. /\ hand[c] # 0 /\ hand'[c] = 0 /\ UNCHANGED <<sent, next, base, got>>
      /\ pipe'[c] = Append(s, e)
  BY <1>1 DEF ChatSent, ringVars
<1> HIDE DEF e
<1>5. /\ Len(Append(s, e)) = Len(s) + 1
      /\ \A j \in 1..Len(s) : Append(s, e)[j] = s[j]
      /\ Append(s, e)[Len(s) + 1] = e
  BY <1>2, <1>3
<1>6. /\ base[c] <= next[c] /\ Deliverable(c, hand[c])
      /\ \A j \in 1..Len(s) :
           /\ Deliverable(c, s[j].n) /\ s[j].n < hand[c]
           /\ \A i \in 1..(j - 1) : s[i].n < s[j].n
  BY <1>4 DEF ChatClient
<1>7. \A n : DeliverableLater(c, n) <=> Deliverable(c, n)
  BY <1>4 DEF Deliverable, DeliverableLater
<1> DEFINE t == pipe'[c]
<1>8. /\ Len(t) = Len(s) + 1 /\ \A j \in 1..Len(s) : t[j] = s[j]
      /\ t[Len(s) + 1].n = hand[c]
  BY <1>2, <1>4, <1>5
<1> HIDE DEF s, t
<1>9. ASSUME NEW j \in 1..Len(t)
      PROVE  Deliverable(c, t[j].n) /\ \A i \in 1..(j - 1) : t[i].n < t[j].n
  <2>1. CASE j \in 1..Len(s)
    <3>1. \A i \in 1..(j - 1) : i \in 1..Len(s)
      BY <1>3, <2>1
    <3> QED
      BY <1>6, <1>8, <2>1, <3>1
  <2>2. CASE j = Len(s) + 1
    <3>1. \A i \in 1..(j - 1) : i \in 1..Len(s)
      BY <1>3, <2>2
    <3> QED
      BY <1>6, <1>8, <2>2, <3>1
  <2> QED
    BY <1>3, <1>8, <2>1, <2>2
<1>10. \A j \in 1..Len(t) : DeliverableLater(c, t[j].n)
  BY <1>7, <1>9
<1>11. base'[c] <= next'[c] /\ hand'[c] = 0
  BY <1>4, <1>6
<1> QED
  BY <1>9, <1>10, <1>11, LaterClient DEF t

\* The client reads the oldest message on its connection.
LEMMA ChatReads ==
  ASSUME StreamInv, NEW c \in Clients, ChatClient(c), Consume(c)
  PROVE  ChatClient(c)'
<1> DEFINE s == pipe[c]
           t == pipe'[c]
<1>1. /\ pipe \in [Clients -> Seq(Events)] /\ s \in Seq(Events)
  BY Facts
<1>2. s # <<>> /\ t = Tail(s) /\ UNCHANGED <<sent, next, base, got, hand>>
  BY <1>1 DEF Consume, ringVars
<1>3. /\ Len(s) \in Nat /\ Len(t) = Len(s) - 1
      /\ \A j \in 1..Len(t) : t[j] = s[j + 1]
  BY <1>1, <1>2
<1>4. /\ base[c] <= next[c] /\ (hand[c] # 0 => Deliverable(c, hand[c]))
      /\ \A j \in 1..Len(s) :
           /\ Deliverable(c, s[j].n)
           /\ hand[c] # 0 => s[j].n < hand[c]
           /\ \A i \in 1..(j - 1) : s[i].n < s[j].n
  BY DEF ChatClient
<1>5. \A n : DeliverableLater(c, n) <=> Deliverable(c, n)
  BY <1>2 DEF Deliverable, DeliverableLater
<1> HIDE DEF s, t
<1>6. ASSUME NEW j \in 1..Len(t)
      PROVE  /\ Deliverable(c, t[j].n) /\ (hand[c] # 0 => t[j].n < hand[c])
             /\ \A i \in 1..(j - 1) : t[i].n < t[j].n
  <2>1. /\ j + 1 \in 1..Len(s) /\ t[j] = s[j + 1]
        /\ \A i \in 1..(j - 1) : i + 1 \in 1..((j + 1) - 1) /\ t[i] = s[i + 1]
    BY <1>3
  <2> QED
    BY <1>4, <2>1
<1>7. \A j \in 1..Len(t) : DeliverableLater(c, t[j].n)
  BY <1>5, <1>6
<1>8. /\ base'[c] <= next'[c] /\ hand'[c] = hand[c]
      /\ hand[c] # 0 => DeliverableLater(c, hand[c])
  BY <1>2, <1>4, <1>5
<1> QED
  BY <1>6, <1>7, <1>8, LaterClient DEF t

\* A receiver starts where the hub is, and nothing waits for it yet.
LEMMA ChatJoins ==
  ASSUME StreamInv, NEW c \in Clients, hub = "chat", ChatClient(c), Open(c)
  PROVE  ChatClient(c)'
<1>1. /\ next \in [Clients -> Nat] /\ base \in [Clients -> Nat] /\ Len(sent) \in Nat
      /\ pipe \in [Clients -> Seq(Events)] /\ hand \in [Clients -> 0..MaxSends]
      /\ MaxSends \in Nat
  BY Facts
<1>2. next[c] = 0 /\ hand' = hand
  BY DEF Open, Subscribe, Subscribed
<1>3. hand[c] = 0
  <2>1. hand[c] \in Nat /\ (hand[c] # 0 => hand[c] < next[c])
    BY <1>1 DEF ChatClient, Deliverable
  <2> QED
    BY <1>2, <2>1
<1>4. next'[c] = Len(sent) + 1 /\ base'[c] = Len(sent) + 1
  BY <1>1 DEF Open, Subscribe
<1>5. pipe'[c] = <<>>
  <2>1. pipe' = [pipe EXCEPT ![c] = IF hub = "live" THEN <<EventOf("connected", 0)>> ELSE <<>>]
    BY DEF Open
  <2>2. pipe' = [pipe EXCEPT ![c] = <<>>]
    BY <2>1
  <2> QED
    BY <1>1, <2>2
<1> QED
  BY <1>1, <1>2, <1>3, <1>4, <1>5, ChatCleared

\* The socket is closed by either side or lost: its receiver goes with it.
LEMMA ChatEnds ==
  ASSUME StreamInv, NEW c \in Clients, hub = "chat", Break(c) \/ HangUp(c)
  PROVE  ChatClient(c)'
<1>1. /\ next \in [Clients -> Nat] /\ base \in [Clients -> Nat]
      /\ pipe \in [Clients -> Seq(Events)] /\ hand \in [Clients -> 0..MaxSends]
  BY Facts
<1>2. Disconnect(c) /\ pipe' = [pipe EXCEPT ![c] = <<>>]
  <2>1. CASE Break(c)
    <3>1. Disconnect(c) /\ pipe' = [pipe EXCEPT ![c] = IF hub = "live" THEN @ ELSE <<>>]
      BY <2>1 DEF Break
    <3> QED
      BY <3>1
  <2>2. CASE HangUp(c)
    BY <2>2 DEF HangUp
  <2> QED
    BY <2>1, <2>2
<1>3. next'[c] = 0 /\ base'[c] = 0 /\ hand'[c] = 0 /\ pipe'[c] = <<>>
  BY <1>1, <1>2 DEF Disconnect, Unsubscribe
<1> QED
  BY <1>3, ChatCleared

\* A step of the client c leaves the others as they are.
LEMMA ChatOthers ==
  ASSUME StreamInv, hub = "chat", NEW c \in Clients,
         Open(c) \/ Break(c) \/ Consume(c) \/ HangUp(c)
           \/ ChatBroadcast(c) \/ ChatSent(c) \/ ChatLag(c)
  PROVE  /\ sent' = sent
         /\ \A d \in Clients \ {c} :
              /\ next'[d] = next[d] /\ base'[d] = base[d]
              /\ hand'[d] = hand[d] /\ pipe'[d] = pipe[d]
<1>1. /\ next \in [Clients -> Nat] /\ base \in [Clients -> Nat]
      /\ pipe \in [Clients -> Seq(Events)] /\ hand \in [Clients -> 0..MaxSends]
  BY Facts
<1>2. CASE Open(c)
  BY <1>1, <1>2 DEF Open, Subscribe
<1>3. CASE Break(c)
  BY <1>1, <1>3 DEF Break, Disconnect, Unsubscribe
<1>4. CASE Consume(c)
  BY <1>1, <1>4 DEF Consume, ringVars
<1>5. CASE HangUp(c)
  BY <1>1, <1>5 DEF HangUp, Disconnect, Unsubscribe
<1>6. CASE ChatBroadcast(c)
  BY <1>1, <1>6 DEF ChatBroadcast, Recv
<1>7. CASE ChatSent(c)
  BY <1>1, <1>7 DEF ChatSent, ringVars
<1>8. CASE ChatLag(c)
  BY <1>1, <1>8 DEF ChatLag, Lag
<1> QED
  BY <1>2, <1>3, <1>4, <1>5, <1>6, <1>7, <1>8

\* The inductive step: in the chat the page and the SSE handlers do nothing.
LEMMA NextChatInv == ASSUME StreamInv, ChatInv, [Next]_vars PROVE ChatInv'
<1>1. hub' = hub
  BY DEF Next, Publish, Open, ChatIncoming, Break, Consume, HangUp, Handler, ForwardSse, LagSse,
         ChatBroadcast, ChatSent, ChatLag, Visit, Leave, Page, LoopHead, Opened, Slept, PageStep,
         NotOpened, ReadErr, Read, Close, vars
<1> SUFFICES ASSUME hub = "chat" PROVE \A d \in Clients : ChatClient(d)'
  BY <1>1 DEF ChatInv
<1>2. \A d \in Clients : /\ ChatClient(d) /\ phase[d] = "gone"
                         /\ next[d] \in Nat /\ Len(sent) \in Nat
  BY Facts DEF ChatInv, ClientInv, HubOf
<1>3. ASSUME SentKept, UNCHANGED <<next, base, hand, pipe>>
      PROVE  \A d \in Clients : ChatClient(d)'
  BY <1>2, <1>3, ChatKeeps
<1>4. ASSUME sent' = sent PROVE SentKept
  BY <1>2, <1>4, Facts DEF SentKept
<1>5. ASSUME NEW c \in Clients, ChatIncoming(c) PROVE \A d \in Clients : ChatClient(d)'
  <2>1. UNCHANGED <<next, base, hand, pipe>> /\ (sent' = sent \/ sent' = Append(sent, c))
    BY <1>5 DEF ChatIncoming, Send
  <2>2. SentKept
    <3>1. CASE sent' = sent
      BY <1>4, <3>1
    <3>2. CASE sent' = Append(sent, c)
      <4>1. sent \in Seq(Senders) /\ c \in Senders
        BY Facts, StreamsAssumption
      <4> QED
        BY <3>2, <4>1 DEF SentKept
    <3> QED
      BY <2>1, <3>1, <3>2
  <2> QED
    BY <1>3, <2>1, <2>2
<1>6. ASSUME NEW c \in Clients,
             Open(c) \/ Break(c) \/ Consume(c) \/ HangUp(c)
               \/ ChatBroadcast(c) \/ ChatSent(c) \/ ChatLag(c)
      PROVE  \A d \in Clients : ChatClient(d)'
  <2>1. /\ SentKept
        /\ \A d \in Clients \ {c} :
             /\ next'[d] = next[d] /\ base'[d] = base[d]
             /\ hand'[d] = hand[d] /\ pipe'[d] = pipe[d]
    BY <1>4, <1>6, ChatOthers
  <2>2. \A d \in Clients \ {c} : ChatClient(d)'
    BY <1>2, <2>1, ChatKeeps
  <2>3. CASE ChatLag(c)
    <3>1. /\ next \in [Clients -> Nat] /\ Oldest \in Nat
          /\ next' = [next EXCEPT ![c] = Oldest] /\ next[c] < Oldest
          /\ UNCHANGED <<base, hand, pipe>>
      BY <2>3, Facts DEF ChatLag, Lag
    <3>2. next'[c] \in Nat /\ next[c] <= next'[c]
      BY <3>1
    <3> QED
      BY <1>2, <2>1, <2>2, <3>1, <3>2, ChatKeeps
  <2>4. CASE ~ChatLag(c)
    <3>1. ChatClient(c)'
      BY <1>2, <1>6, <2>4, ChatJoins, ChatEnds, ChatReads, ChatTakes, ChatWrites
    <3> QED
      BY <2>2, <3>1
  <2> QED
    BY <2>3, <2>4
<1>7. ASSUME NEW c \in Clients PROVE ~Visit(c) /\ ~Leave(c) /\ ~Page(c)
  BY <1>2 DEF Visit, Leave, Page, LoopHead, Opened, Slept, PageStep, NotOpened, ReadErr, Read
<1>8. ~Publish /\ \A c \in Clients : ~ForwardSse(c) /\ ~LagSse(c)
  BY DEF Publish, ForwardSse, LagSse
<1>9. CASE UNCHANGED vars
  BY <1>3, <1>4, <1>9 DEF vars, ringVars
<1>10. CASE Next
  BY <1>5, <1>6, <1>7, <1>8, <1>10 DEF Next, Handler
<1> QED
  BY <1>9, <1>10

\* Nobody is connected at first.
LEMMA InitChatInv == Init => ChatInv
<1> SUFFICES ASSUME Init, NEW c \in Clients PROVE ChatClient(c)
  BY DEF ChatInv
<1>1. base[c] = 0 /\ next[c] = 0 /\ hand[c] = 0 /\ pipe[c] = <<>> /\ Len(<<>>) = 0
  BY DEF Init, InitRing
<1>2. \A j \in 1..Len(pipe[c]) : FALSE
  BY <1>1
<1> QED
  BY <1>1, <1>2 DEF ChatClient

\* handle_socket, ws_chat.rs:5-6: a client is sent no message of its own and none from
\* before it joined, and what waits for it is in the order of the hub without
\* repetition, whatever it missed.
THEOREM ChatDeliversHolds == Spec => []ChatDelivers
<1>1. ASSUME ChatInv PROVE ChatDelivers
  BY <1>1 DEF ChatInv, ChatDelivers, ChatClient, Deliverable
<1>2. Init => StreamInv /\ ChatInv
  BY InitStreamInv, InitChatInv
<1>3. StreamInv /\ ChatInv /\ [Next]_vars => (StreamInv /\ ChatInv)'
  BY NextStreamInv, NextChatInv
<1> QED
  BY <1>1, <1>2, <1>3, PTL DEF Spec

=============================================================================
