------------------------------- MODULE Streams ------------------------------
(***************************************************************************)
(* The consumers of the broadcast channels.  A behaviour is about one of   *)
(* the three hubs of the system, chosen by Init: the live-search SSE       *)
(* stream with the browser page that reads it, the gateway's SSE stream,   *)
(* and the chat hub.                                                       *)
(*                                                                         *)
(* pipe is what the server has written to a connection and the client has  *)
(* not read: a slow client is one whose pipe stays full.                   *)
(***************************************************************************)
EXTENDS Broadcast

CONSTANTS
  Server,       \* the sender of the SSE hubs
  PipeCap,      \* bound: unread events a connection can hold
  Keep,         \* results the live page keeps (200 in the code)
  MaxBreaks     \* bound: lost or failed connections per behaviour

ASSUME StreamsAssumption ==
  /\ Server \notin Clients
  /\ Senders = Clients \cup {Server}
  /\ PipeCap \in Nat \ {0}
  /\ Keep \in Nat \ {0}
  /\ MaxBreaks \in Nat

VARIABLES
  hub,          \* "live", "gateway" or "chat"
  conn,         \* "none", "open" or "broken"
  pipe,
  hand,         \* chat: the message inside sink.send().await, 0 if none
  told,         \* history: skipped messages reported to the client
  phase,        \* run_live_feed in the browser
  stop,         \* ... the page was left
  connected,    \* ... what the page shows
  results,      \* ... the results it shows
  breaks

pageVars == <<phase, stop, connected, results>>
vars == <<ringVars, hub, conn, pipe, hand, told, pageVars, breaks>>

EventOf(kind, n) == [kind |-> kind, n |-> n]
Kinds == {"connected", "result", "lagged"}

StreamTypeOK ==
  /\ TypeOK
  /\ hub \in {"live", "gateway", "chat"}
  /\ conn \in [Clients -> {"none", "open", "broken"}]
  /\ pipe \in [Clients -> Seq([kind : Kinds, n : 0..MaxSends])]
  /\ \A c \in Clients : Len(pipe[c]) <= PipeCap
  /\ hand \in [Clients -> 0..MaxSends]
  /\ told \in [Clients -> 0..MaxSends]
  /\ phase \in [Clients -> {"gone", "loop", "connecting", "reading", "sleep"}]
  /\ stop \in [Clients -> BOOLEAN]
  /\ connected \in [Clients -> BOOLEAN]
  /\ results \in [Clients -> Seq(1..MaxSends)]
  /\ \A c \in Clients : Len(results[c]) <= Keep
  /\ breaks \in 0..MaxBreaks

Init ==
  /\ InitRing
  /\ hub \in {"live", "gateway", "chat"}
  /\ conn = [c \in Clients |-> "none"]
  /\ pipe = [c \in Clients |-> <<>>]
  /\ hand = [c \in Clients |-> 0]
  /\ told = [c \in Clients |-> 0]
  /\ phase = [c \in Clients |-> "gone"]
  /\ stop = [c \in Clients |-> FALSE]
  /\ connected = [c \in Clients |-> FALSE]
  /\ results = [c \in Clients |-> <<>>]
  /\ breaks = MaxBreaks

Room(c) == Len(pipe[c]) < PipeCap

-----------------------------------------------------------------------------
(* The server's side of a connection                                       *)

\* broadcast_row and publish_event
Publish ==
  /\ hub # "chat"
  /\ Send(Server)
  /\ UNCHANGED <<hub, conn, pipe, hand, told, pageVars, breaks>>

\* The handler subscribes; live-search greets the client first.  A browser of
\* another origin is refused by chat_handler and never gets this far.
Open(c) ==
  /\ conn[c] = "none"
  /\ hub = "live" => phase[c] = "connecting"
  /\ Subscribe(c)
  /\ conn' = [conn EXCEPT ![c] = "open"]
  /\ pipe' = [pipe EXCEPT ![c] =
                IF hub = "live" THEN <<EventOf("connected", 0)>> ELSE <<>>]
  /\ UNCHANGED <<hub, hand, told, pageVars, breaks>>

\* An SSE body is polled when the connection can be written to.
ForwardSse(c) ==
  /\ hub # "chat"
  /\ Room(c)
  /\ Recv(c)
  /\ pipe' = [pipe EXCEPT ![c] = Append(@, EventOf("result", next[c]))]
  /\ UNCHANGED <<hub, conn, hand, told, pageVars, breaks>>

\* Mutant of LagSse: live-search logs a lag as the gateway does.
LagSseSilent(c) ==
  /\ hub # "chat"
  /\ Room(c)
  /\ Lag(c)
  /\ UNCHANGED <<hub, conn, pipe, hand, told, pageVars, breaks>>

\* live-search reports a lag to the client, the gateway only logs it.
LagSse(c) ==
  /\ hub # "chat"
  /\ Room(c)
  /\ Lag(c)
  /\ IF hub = "live"
     THEN /\ pipe' = [pipe EXCEPT ![c] = Append(@, EventOf("lagged", Missed(c)))]
          /\ told' = [told EXCEPT ![c] = @ + Missed(c)]
     ELSE UNCHANGED <<pipe, told>>
  /\ UNCHANGED <<hub, conn, hand, pageVars, breaks>>

\* A text frame from the client goes to the hub.  Other frames, and oversized
\* ones that got past the protocol layer, are ignored.
ChatIncoming(c) ==
  /\ hub = "chat"
  /\ conn[c] = "open"
  /\ hand[c] = 0
  /\ Send(c)
  /\ UNCHANGED <<hub, conn, pipe, hand, told, pageVars, breaks>>

\* Mutant of Echo: a client is not recognised as the sender.
EchoNever(c) == FALSE

\* event.from == from
Echo(c) == sent[next[c]] = c

\* A message from the hub: skipped if it is the client's own, otherwise the
\* handler waits in sink.send and does nothing else.
ChatBroadcast(c) ==
  /\ hub = "chat"
  /\ hand[c] = 0
  /\ Recv(c)
  /\ hand' = [hand EXCEPT ![c] = IF Echo(c) THEN 0 ELSE next[c]]
  /\ UNCHANGED <<hub, conn, pipe, told, pageVars, breaks>>

ChatSent(c) ==
  /\ hand[c] # 0
  /\ Room(c)
  /\ pipe' = [pipe EXCEPT ![c] = Append(@, EventOf("result", hand[c]))]
  /\ hand' = [hand EXCEPT ![c] = 0]
  /\ UNCHANGED <<ringVars, hub, conn, told, pageVars, breaks>>

\* Mutant of ChatLag: the handler stops receiving when it has lagged.
ChatLagStops(c) == FALSE

ChatLag(c) ==
  /\ hub = "chat"
  /\ hand[c] = 0
  /\ Lag(c)
  /\ UNCHANGED <<hub, conn, pipe, hand, told, pageVars, breaks>>

\* The handler ends: its receiver is dropped.
Disconnect(c) ==
  /\ Unsubscribe(c)
  /\ hand' = [hand EXCEPT ![c] = 0]
  /\ told' = [told EXCEPT ![c] = 0]

\* The network fails.  What the client has not read may still be readable.
Break(c) ==
  /\ breaks > 0
  /\ breaks' = breaks - 1
  /\ conn[c] = "open" \/ phase[c] = "connecting"
  /\ Disconnect(c)
  /\ conn' = [conn EXCEPT ![c] = IF hub = "live" THEN "broken" ELSE "none"]
  /\ pipe' = [pipe EXCEPT ![c] = IF hub = "live" THEN @ ELSE <<>>]
  /\ UNCHANGED <<hub, pageVars>>

\* A client of the gateway or of the chat reads, or hangs up.
Consume(c) ==
  /\ hub # "live"
  /\ pipe[c] # <<>>
  /\ pipe' = [pipe EXCEPT ![c] = Tail(@)]
  /\ UNCHANGED <<ringVars, hub, conn, hand, told, pageVars, breaks>>

HangUp(c) ==
  /\ hub # "live"
  /\ conn[c] = "open"
  /\ Disconnect(c)
  /\ conn' = [conn EXCEPT ![c] = "none"]
  /\ pipe' = [pipe EXCEPT ![c] = <<>>]
  /\ UNCHANGED <<hub, pageVars, breaks>>

-----------------------------------------------------------------------------
(* LiveFeedPage in the browser                                             *)

\* The page is entered with fresh signals and starts run_live_feed.
Visit(c) ==
  /\ hub = "live"
  /\ phase[c] = "gone"
  /\ phase' = [phase EXCEPT ![c] = "loop"]
  /\ stop' = [stop EXCEPT ![c] = FALSE]
  /\ connected' = [connected EXCEPT ![c] = FALSE]
  /\ results' = [results EXCEPT ![c] = <<>>]
  /\ UNCHANGED <<ringVars, hub, conn, pipe, hand, told, breaks>>

\* on_cleanup
Leave(c) ==
  /\ phase[c] # "gone"
  /\ ~stop[c]
  /\ stop' = [stop EXCEPT ![c] = TRUE]
  /\ UNCHANGED <<ringVars, hub, conn, pipe, hand, told, phase, connected, results,
                 breaks>>

PageStep(c, from, to) ==
  /\ phase[c] = from
  /\ phase' = [phase EXCEPT ![c] = to]
  /\ UNCHANGED <<ringVars, hub, conn, pipe, hand, told, stop, connected, results>>

\* The loop's head: stop, or create an EventSource, which may fail.
LoopHead(c) ==
  \/ stop[c] /\ PageStep(c, "loop", "gone") /\ UNCHANGED breaks
  \/ ~stop[c] /\ PageStep(c, "loop", "connecting") /\ UNCHANGED breaks
  \/ /\ ~stop[c]
     /\ breaks > 0
     /\ PageStep(c, "loop", "sleep")
     /\ breaks' = breaks - 1

Opened(c) ==
  /\ ~stop[c]
  /\ conn[c] = "open"
  /\ PageStep(c, "connecting", "reading")
  /\ UNCHANGED breaks

Slept(c) == PageStep(c, "sleep", "loop") /\ UNCHANGED breaks

\* Mutant of Close: the task ends with its stream.
CloseEnds(c) ==
  /\ connected' = [connected EXCEPT ![c] = FALSE]
  /\ phase' = [phase EXCEPT ![c] = "gone"]
  /\ conn' = [conn EXCEPT ![c] = "none"]
  /\ pipe' = [pipe EXCEPT ![c] = <<>>]
  /\ Disconnect(c)
  /\ UNCHANGED <<hub, stop, results, breaks>>

\* consume_event_source returned: close, and sleep unless the page was left.
Close(c) ==
  /\ connected' = [connected EXCEPT ![c] = FALSE]
  /\ phase' = [phase EXCEPT ![c] = IF stop[c] THEN "gone" ELSE "sleep"]
  /\ conn' = [conn EXCEPT ![c] = "none"]
  /\ pipe' = [pipe EXCEPT ![c] = <<>>]
  /\ Disconnect(c)
  /\ UNCHANGED <<hub, stop, results, breaks>>

\* Left while connecting, or closed before it was open.
NotOpened(c) ==
  /\ phase[c] = "connecting"
  /\ stop[c] \/ conn[c] = "broken"
  /\ Close(c)

\* The streams end with an error, which may overtake unread events of others.
ReadErr(c) ==
  /\ phase[c] = "reading"
  /\ conn[c] = "broken"
  /\ Close(c)

WithoutAt(s, i) == SubSeq(s, 1, i - 1) \o SubSeq(s, i + 1, Len(s))

\* Each event name is a stream of its own; select takes the first of any.
FirstOfKind(c, i) == \A j \in 1..(i - 1) : pipe[c][j].kind # pipe[c][i].kind

ApplySseEvent(c, e) ==
  /\ connected' = [connected EXCEPT ![c] = @ \/ e.kind = "connected"]
  /\ results' = [results EXCEPT ![c] =
       IF e.kind # "result" THEN @
       ELSE Append(IF Len(@) >= Keep THEN Tail(@) ELSE @, e.n)]

\* Mutant of Read: stop is not looked at after the await.
ReadStopped(c, i) ==
  /\ phase[c] = "reading"
  /\ FirstOfKind(c, i)
  /\ ApplySseEvent(c, pipe[c][i])
  /\ pipe' = [pipe EXCEPT ![c] = WithoutAt(@, i)]
  /\ UNCHANGED <<ringVars, hub, conn, hand, told, phase, stop, breaks>>

\* An event arrives; if the page was left meanwhile it is not applied.
Read(c, i) ==
  /\ phase[c] = "reading"
  /\ FirstOfKind(c, i)
  /\ IF stop[c] THEN Close(c)
     ELSE /\ ApplySseEvent(c, pipe[c][i])
          /\ pipe' = [pipe EXCEPT ![c] = WithoutAt(@, i)]
          /\ UNCHANGED <<ringVars, hub, conn, hand, told, phase, stop, breaks>>

-----------------------------------------------------------------------------

Handler(c) ==
  \/ ForwardSse(c) \/ LagSse(c)
  \/ ChatBroadcast(c) \/ ChatSent(c) \/ ChatLag(c)

Page(c) ==
  \/ LoopHead(c) \/ Opened(c) \/ Slept(c) \/ NotOpened(c) \/ ReadErr(c)
  \/ \E i \in 1..Len(pipe[c]) : Read(c, i)

Next ==
  \/ Publish
  \/ \E c \in Clients :
       \/ Open(c) \/ ChatIncoming(c) \/ Break(c) \/ Consume(c) \/ HangUp(c)
       \/ Handler(c)
       \/ Visit(c) \/ Leave(c) \/ Page(c)

Spec == Init /\ [][Next]_vars

\* The server polls its handlers and accepts connections, the browser runs the
\* page's task, and gateway and chat clients read what they are sent.
FairSpec ==
  /\ Spec
  /\ \A c \in Clients :
       /\ WF_vars(Open(c)) /\ WF_vars(Handler(c))
       /\ WF_vars(Page(c)) /\ WF_vars(Consume(c))

-----------------------------------------------------------------------------

\* SKILL.md:263-264, sse.rs:50-53: a live-search client can account for every
\* message sent since it connected: it was sent the message, or it was sent
\* stream_lagged counts that add up to the messages it was not sent.
GapsReported ==
  \A c \in Clients : (hub = "live" /\ conn[c] = "open") =>
    base[c] + got[c] + told[c] = next[c]

\* What the page shows is in the order of publication without repetition, across
\* lags, lost connections and the reconnects of run_live_feed.
PageInOrder ==
  \A c \in Clients : \A i, j \in 1..Len(results[c]) :
    i < j => results[c][i] < results[c][j]

\* app.rs:383-385: after the page has been left nothing is applied to its
\* signals, although events may already be waiting to be read.
NothingAfterLeaving ==
  [][\A c \in Clients : stop[c] /\ stop'[c] =>
       results'[c] = results[c] /\ (connected'[c] => connected[c])]_vars

\* ws_chat.rs:3-6, handle_socket: "each accepted text message is fanned out to
\* every *other* connected client".  What waits for a client that reads at its own
\* pace, lags and reconnects are messages of others sent since it joined, in the
\* order of the hub, each once.
ChatDelivers ==
  hub = "chat" => \A c \in Clients : \A j \in 1..Len(pipe[c]) :
    /\ sent[pipe[c][j].n] # c
    /\ base[c] <= pipe[c][j].n
    /\ \A i \in 1..(j - 1) : pipe[c][i].n < pipe[c][j].n

\* A handler stuck in sink.send for a slow client recovers when the client
\* reads: when the senders stop (MaxSends) it has received or skipped every
\* message of the hub, unless its connection ended.
ChatReaches ==
  \A c \in Clients :
    (hub = "chat" /\ conn[c] = "open") ~> (next[c] > Len(sent) \/ conn[c] # "open")

\* app.rs:416-435: a page that stays open is connected again in the end,
\* whatever connections were lost before.
FeedReconnects ==
  \A c \in Clients : (phase[c] = "loop" /\ ~stop[c]) ~> (connected[c] \/ stop[c])

=============================================================================
