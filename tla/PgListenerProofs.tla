-------------------------- MODULE PgListenerProofs --------------------------
(***************************************************************************)
(* The event sequence and the listener, for any number of writers, rows,   *)
(* reconnects and pages.                                                   *)
(*                                                                         *)
(* Commit order is sequence order: the advisory lock makes its holder the  *)
(* only session with uncommitted rows, and a value it draws is above every *)
(* value drawn before, committed or not.                                   *)
(*                                                                         *)
(* The listener: under every fault the cursor only moves forward.  When    *)
(* the replay and the fetches succeed and recv() reports a lost            *)
(* connection, the feed has no gap and no repetition, and implements       *)
(* EventFeed.  The argument: from the last page of the replay on, a row    *)
(* above the mark that has not been broadcast is in that page or in the    *)
(* queue; and the queue is a part of the commit order that a lost          *)
(* connection can only cut at its end.                                     *)
(***************************************************************************)
EXTENDS PgListener, TLAPS, FiniteSetTheorems

-----------------------------------------------------------------------------
(* Commit order is sequence order                                          *)

\* Elements of a concatenation, and how its two halves are ordered.
LEMMA ConcatIncreasing ==
  ASSUME NEW n \in Nat, NEW a \in Seq(1..n), NEW b \in Seq(1..n),
         \A i, j \in 1..Len(a) : i < j => a[i] < a[j],
         \A i, j \in 1..Len(b) : i < j => b[i] < b[j],
         \A i \in 1..Len(b), j \in 1..Len(a) : a[j] < b[i]
  PROVE  \A i, j \in 1..Len(a \o b) : i < j => (a \o b)[i] < (a \o b)[j]
<1> DEFINE c == a \o b
<1>1. Len(c) = Len(a) + Len(b) /\ Len(a) \in Nat /\ Len(b) \in Nat
  OBVIOUS
<1>2. \A i \in 1..Len(c) : c[i] = IF i <= Len(a) THEN a[i] ELSE b[i - Len(a)]
  OBVIOUS
<1> HIDE DEF c
<1> SUFFICES ASSUME NEW i \in 1..Len(c), NEW j \in 1..Len(c), i < j PROVE c[i] < c[j]
  BY DEF c
<1>3. CASE j <= Len(a)
  <2>1. c[i] = a[i] /\ c[j] = a[j]
    BY <1>1, <1>2, <1>3
  <2>2. i \in 1..Len(a) /\ j \in 1..Len(a)
    BY <1>1, <1>3
  <2> QED
    BY <2>1, <2>2
<1>4. CASE i <= Len(a) /\ Len(a) < j
  <2>1. c[i] = a[i] /\ c[j] = b[j - Len(a)]
    BY <1>1, <1>2, <1>4
  <2>2. i \in 1..Len(a) /\ j - Len(a) \in 1..Len(b)
    BY <1>1, <1>4
  <2> QED
    BY <2>1, <2>2
<1>5. CASE Len(a) < i
  <2>1. ~(i <= Len(a)) /\ ~(j <= Len(a))
    BY <1>1, <1>5
  <2>2. c[i] = b[i - Len(a)] /\ c[j] = b[j - Len(a)]
    BY <1>2, <2>1
  <2>3. /\ i - Len(a) \in 1..Len(b) /\ j - Len(a) \in 1..Len(b)
        /\ i - Len(a) < j - Len(a)
    BY <1>1, <1>5
  <2> QED
    BY <2>2, <2>3
<1>6. \/ j <= Len(a)
      \/ i <= Len(a) /\ Len(a) < j
      \/ Len(a) < i
  BY <1>1
<1> QED
  BY <1>3, <1>4, <1>5, <1>6

\* The backfilled table satisfies the invariant.
LEMMA InitIndInv == InitSeq => IndInv
<1> SUFFICES ASSUME InitSeq PROVE IndInv
  OBVIOUS
<1> USE EventSeqAssumption DEF InitSeq
<1>1. feed \in Seq(1..lastSeq) /\ Len(feed) = Backfilled
  OBVIOUS
<1>2. TypeOK
  BY <1>1 DEF TypeOK
<1>3. OnlyHolderPending /\ PendingSorted /\ PendingAboveFeed
  BY DEF OnlyHolderPending, PendingSorted, PendingAboveFeed
<1>4. CommitOrder
  BY <1>1 DEF CommitOrder
<1> QED
  BY <1>2, <1>3, <1>4 DEF IndInv

\* INSERT: the value drawn is above all values drawn before it.
LEMMA InsertIndInv ==
  ASSUME IndInv, NEW s \in Sessions, Insert(s)
  PROVE  IndInv'
<1> USE EventSeqAssumption DEF IndInv, TypeOK, Insert, AcquireAdvisory
<1> DEFINE new == lastSeq + 1
<1>1. 1..lastSeq \subseteq 1..new /\ new \in 1..new /\ lastSeq' = new
  OBVIOUS
<1>2. /\ pending[s] \in Seq(1..lastSeq)
      /\ pending'[s] = Append(pending[s], new)
      /\ \A u \in Sessions \ {s} : pending'[u] = pending[u]
  OBVIOUS
<1>3. /\ Len(pending'[s]) = Len(pending[s]) + 1
      /\ pending'[s][Len(pending[s]) + 1] = new
      /\ \A i \in 1..Len(pending[s]) : pending'[s][i] = pending[s][i]
      /\ Len(pending[s]) \in Nat
      /\ \A i \in 1..Len(pending[s]) : pending[s][i] \in 1..lastSeq
  BY <1>2
<1>4. Append(pending[s], new) \in Seq(1..new)
  BY <1>1, <1>2
<1>5. TypeOK'
  <2>1. \A u \in Sessions : pending[u] \in Seq(1..new)
    BY <1>1
  <2>2. pending' \in [Sessions -> Seq(1..new)]
    BY <1>4, <2>1
  <2>3. feed \in Seq(1..new)
    BY <1>1
  <2> QED
    BY <1>1, <2>2, <2>3
<1>6. OnlyHolderPending'
  BY <1>2 DEF OnlyHolderPending
<1>7. PendingSorted'
  BY <1>2, <1>3 DEF PendingSorted
<1>8. PendingAboveFeed'
  <2>1. \A j \in 1..Len(feed) : feed[j] \in 1..lastSeq
    OBVIOUS
  <2> QED
    BY <1>2, <1>3, <2>1 DEF PendingAboveFeed
<1>9. CommitOrder'
  BY DEF CommitOrder
<1> QED
  BY <1>5, <1>6, <1>7, <1>8, <1>9

\* A conflicting INSERT spends a value and takes the lock, nothing else.
LEMMA InsertConflictIndInv ==
  ASSUME IndInv, NEW s \in Sessions, InsertConflict(s)
  PROVE  IndInv'
<1> USE EventSeqAssumption DEF IndInv, TypeOK, InsertConflict, AcquireAdvisory
<1>1. 1..lastSeq \subseteq 1..lastSeq'
  OBVIOUS
<1>2. TypeOK'
  <2>1. \A u \in Sessions : pending[u] \in Seq(1..lastSeq')
    BY <1>1
  <2>2. feed \in Seq(1..lastSeq')
    BY <1>1
  <2> QED
    BY <1>1, <2>1, <2>2
<1>3. OnlyHolderPending'
  BY DEF OnlyHolderPending
<1>4. PendingSorted' /\ PendingAboveFeed' /\ CommitOrder'
  BY DEF PendingSorted, PendingAboveFeed, CommitOrder
<1> QED
  BY <1>2, <1>3, <1>4

\* COMMIT appends the holder's rows, which are sorted and above the feed; nobody
\* else has any.
LEMMA CommitIndInv ==
  ASSUME IndInv, NEW s \in Sessions, Commit(s)
  PROVE  IndInv'
<1> USE EventSeqAssumption DEF IndInv, TypeOK, Commit, ReleaseAdvisory
<1>1. pending[s] \in Seq(1..lastSeq) /\ feed \in Seq(1..lastSeq)
  OBVIOUS
<1>2. /\ pending'[s] = <<>>
      /\ \A u \in Sessions \ {s} : pending'[u] = pending[u]
  OBVIOUS
<1>3. holder = s
  BY DEF OnlyHolderPending
<1>4. \A u \in Sessions : pending'[u] = <<>>
  BY <1>2, <1>3 DEF OnlyHolderPending
<1>5. TypeOK'
  <2>1. feed' \in Seq(1..lastSeq)
    BY <1>1
  <2>2. Range(pending[s]) \subseteq 1..lastSeq
    BY <1>1 DEF Range
  <2>3. pending' \in [Sessions -> Seq(1..lastSeq)]
    OBVIOUS
  <2> QED
    BY <2>1, <2>2, <2>3, <1>3
<1>6. OnlyHolderPending' /\ PendingSorted' /\ PendingAboveFeed'
  BY <1>4 DEF OnlyHolderPending, PendingSorted, PendingAboveFeed
<1>7. CommitOrder'
  <2>1. \A i, j \in 1..Len(feed) : i < j => feed[i] < feed[j]
    BY DEF CommitOrder
  <2>2. \A i, j \in 1..Len(pending[s]) : i < j => pending[s][i] < pending[s][j]
    BY DEF PendingSorted
  <2>3. \A i \in 1..Len(pending[s]), j \in 1..Len(feed) : feed[j] < pending[s][i]
    BY DEF PendingAboveFeed
  <2>4. lastSeq \in Nat
    OBVIOUS
  <2>5. \A i, j \in 1..Len(feed \o pending[s]) :
          i < j => (feed \o pending[s])[i] < (feed \o pending[s])[j]
    BY <1>1, <2>1, <2>2, <2>3, <2>4, ConcatIncreasing
  <2>6. feed' = feed \o pending[s]
    OBVIOUS
  <2> QED
    BY <2>5, <2>6 DEF CommitOrder
<1> QED
  BY <1>5, <1>6, <1>7

\* ROLLBACK and DELETE only forget.
LEMMA RollbackIndInv ==
  ASSUME IndInv, NEW s \in Sessions, Rollback(s)
  PROVE  IndInv'
<1> USE EventSeqAssumption DEF IndInv, TypeOK, Rollback, ReleaseAdvisory
<1>1. \A u \in Sessions : pending'[u] = <<>> \/ pending'[u] = pending[u]
  OBVIOUS
<1>2. holder = s /\ \A u \in Sessions : pending'[u] = <<>>
  BY DEF OnlyHolderPending
<1>3. TypeOK'
  OBVIOUS
<1>4. OnlyHolderPending' /\ PendingSorted' /\ PendingAboveFeed' /\ CommitOrder'
  BY <1>2 DEF OnlyHolderPending, PendingSorted, PendingAboveFeed, CommitOrder
<1> QED
  BY <1>3, <1>4

\* The inductive step, one case per action.
LEMMA NextIndInv == IndInv /\ [NextSeq]_seqVars => IndInv'
<1> SUFFICES ASSUME IndInv, [NextSeq]_seqVars PROVE IndInv'
  OBVIOUS
<1>1. ASSUME NEW s \in Sessions, Insert(s) PROVE IndInv'
  BY <1>1, InsertIndInv
<1>2. ASSUME NEW s \in Sessions, InsertConflict(s) PROVE IndInv'
  BY <1>2, InsertConflictIndInv
<1>3. ASSUME NEW s \in Sessions, Commit(s) PROVE IndInv'
  BY <1>3, CommitIndInv
<1>4. ASSUME NEW s \in Sessions, Rollback(s) PROVE IndInv'
  BY <1>4, RollbackIndInv
<1>5. ASSUME NEW q \in rows, Delete(q) PROVE IndInv'
  BY <1>5 DEF Delete, IndInv, TypeOK, OnlyHolderPending, PendingSorted,
              PendingAboveFeed, CommitOrder
<1>6. CASE UNCHANGED seqVars
  BY <1>6 DEF seqVars, IndInv, TypeOK, OnlyHolderPending, PendingSorted,
              PendingAboveFeed, CommitOrder
<1> QED
  BY <1>1, <1>2, <1>3, <1>4, <1>5, <1>6 DEF NextSeq

\* Every reachable state satisfies the inductive invariant.
THEOREM IndInvHolds == SpecSeq => []IndInv
<1>1. InitSeq => IndInv
  BY InitIndInv
<1>2. IndInv /\ [NextSeq]_seqVars => IndInv'
  BY NextIndInv
<1> QED
  BY <1>1, <1>2, PTL DEF SpecSeq

\* The state of the allocator and of every transaction is well typed: in
\* particular no row carries a value that nextval has not returned.
THEOREM TypeCorrect == SpecSeq => []TypeOK
<1>1. IndInv => TypeOK
  BY DEF IndInv
<1> QED
  BY <1>1, IndInvHolds, PTL

\* Migration 004: rows become visible in event_seq order, for every interleaving
\* of any number of writers.
THEOREM CommitOrderHolds == SpecSeq => []CommitOrder
<1>1. IndInv => CommitOrder
  BY DEF IndInv
<1> QED
  BY <1>1, IndInvHolds, PTL

-----------------------------------------------------------------------------
(* The listener                                                            *)

Replaying == pc \in {"resync", "page"}

\* Everything at or below it has been dealt with: the replay's cursor while it
\* runs, last_seen_seq otherwise.
Mark == IF Replaying THEN cursor ELSE lastSeen

-----------------------------------------------------------------------------
(* What holds under every fault                                            *)

\* The replay starts at last_seen_seq and its pages lie ahead of its cursor.
ReplayAhead ==
  /\ Replaying => lastSeen <= cursor
  /\ \A q \in page : cursor < q
  /\ pc # "page" => page = {}

\* What the listener has heard of or read was committed.
OnlyCommitted ==
  /\ rows \cup page \cup Range(sent) \subseteq Range(feed)
  /\ Range(inbox) \cup {note, lastSeen, cursor} \subseteq Range(feed) \cup {0}

CursorInv ==
  /\ IndInv
  /\ ListenerTypeOK
  /\ ReplayAhead
  /\ OnlyCommitted

-----------------------------------------------------------------------------
(* What holds when only survivable faults happen                           *)

SentBelowMark == \A q \in Range(sent) : q <= Mark

NothingSkipped == \A q \in rows : q <= Mark => q \in Range(sent)

\* Between the cursor and the end of the page there are only the page's rows.
PageComplete == \A r \in rows : \A p \in page : cursor < r /\ r < p => r \in page

\* The queue is in commit order, and comes after the notification being handled.
InboxSorted ==
  /\ \A i, j \in 1..Len(inbox) :
       i < j /\ inbox[i] # Malformed /\ inbox[j] # Malformed => inbox[i] < inbox[j]
  /\ \A i \in 1..Len(inbox) :
       inbox[i] # Malformed /\ note # Malformed => note < inbox[i]
  /\ pc # "forward" => note = Malformed

\* The last SELECT of the replay has been made.
CaughtUp == (pc = "page" /\ lastPage) \/ pc \in {"live", "forward"}

\* A row that still has to come from the queue.
Awaited(r) == r \in rows /\ Mark < r /\ r \notin page /\ r # note

\* While the connection is up every such row is queued ...
QueueComplete ==
  CaughtUp /\ conn = "up" => \A r \in rows : Awaited(r) => r \in Range(inbox)

\* ... and even when it is lost none is missing before one that is queued.
QueueUnbroken ==
  CaughtUp =>
    /\ \A r \in rows : \A i \in 1..Len(inbox) :
         Awaited(r) /\ r < inbox[i] => \E k \in 1..(i - 1) : inbox[k] = r
    /\ \A r \in rows : Mark < r /\ r \notin page => note <= r

\* Broadcast rows are followed by an invalidation when the replay ends.
FlushDue == unflushed => Replaying /\ replayedAny

FeedInv ==
  /\ CursorInv
  /\ SentInOrder
  /\ SentBelowMark
  /\ NothingSkipped
  /\ PageComplete
  /\ InboxSorted
  /\ QueueComplete
  /\ QueueUnbroken
  /\ FlushDue

-----------------------------------------------------------------------------
(* Lemmas about the operators of the model                                 *)

\* What a queue or a history contains after one more element, after several
\* more, and after some were taken from it.
LEMMA RangeAppend ==
  ASSUME NEW S, NEW s \in Seq(S), NEW e
  PROVE  Range(Append(s, e)) = Range(s) \cup {e}
<1>1. /\ Len(s) \in Nat /\ DOMAIN s = 1..Len(s)
      /\ DOMAIN Append(s, e) = 1..(Len(s) + 1)
      /\ \A i \in 1..Len(s) : Append(s, e)[i] = s[i]
      /\ Append(s, e)[Len(s) + 1] = e
  OBVIOUS
<1>2. ASSUME NEW x \in Range(Append(s, e)) PROVE x \in Range(s) \cup {e}
  <2>1. PICK i \in 1..(Len(s) + 1) : x = Append(s, e)[i]
    BY <1>1, <1>2 DEF Range
  <2>2. CASE i = Len(s) + 1
    BY <1>1, <2>1, <2>2
  <2>3. CASE i \in 1..Len(s)
    BY <1>1, <2>1, <2>3 DEF Range
  <2> QED
    BY <1>1, <2>2, <2>3
<1>3. ASSUME NEW x \in Range(s) \cup {e} PROVE x \in Range(Append(s, e))
  <2>1. CASE x = e
    BY <1>1, <2>1 DEF Range
  <2>2. CASE x \in Range(s)
    BY <1>1, <2>2 DEF Range
  <2> QED
    BY <1>3, <2>1, <2>2
<1> QED
  BY <1>2, <1>3

\* ... after several more.
LEMMA RangeConcat ==
  ASSUME NEW S, NEW s \in Seq(S), NEW t \in Seq(S)
  PROVE  Range(s \o t) = Range(s) \cup Range(t)
<1>1. /\ Len(s) \in Nat /\ Len(t) \in Nat
      /\ DOMAIN s = 1..Len(s) /\ DOMAIN t = 1..Len(t)
      /\ DOMAIN (s \o t) = 1..(Len(s) + Len(t))
      /\ \A i \in 1..(Len(s) + Len(t)) :
           (s \o t)[i] = IF i <= Len(s) THEN s[i] ELSE t[i - Len(s)]
  OBVIOUS
<1>2. ASSUME NEW x \in Range(s \o t) PROVE x \in Range(s) \cup Range(t)
  <2>1. PICK i \in 1..(Len(s) + Len(t)) : x = (s \o t)[i]
    BY <1>1, <1>2 DEF Range
  <2>2. CASE i <= Len(s)
    BY <1>1, <2>1, <2>2 DEF Range
  <2>3. CASE Len(s) < i
    <3>1. i - Len(s) \in 1..Len(t) /\ x = t[i - Len(s)]
      BY <1>1, <2>1, <2>3
    <3> QED
      BY <1>1, <3>1 DEF Range
  <2> QED
    BY <1>1, <2>2, <2>3
<1>3. ASSUME NEW x \in Range(s) PROVE x \in Range(s \o t)
  <2>1. PICK i \in 1..Len(s) : x = s[i]
    BY <1>1, <1>3 DEF Range
  <2>2. i \in 1..(Len(s) + Len(t)) /\ (s \o t)[i] = x
    BY <1>1, <2>1
  <2> QED
    BY <1>1, <2>2 DEF Range
<1>4. ASSUME NEW x \in Range(t) PROVE x \in Range(s \o t)
  <2>1. PICK i \in 1..Len(t) : x = t[i]
    BY <1>1, <1>4 DEF Range
  <2>2. Len(s) + i \in 1..(Len(s) + Len(t)) /\ (s \o t)[Len(s) + i] = x
    BY <1>1, <2>1
  <2> QED
    BY <1>1, <2>2 DEF Range
<1> QED
  BY <1>2, <1>3, <1>4

\* ... after its end was cut off.
LEMMA RangePrefix ==
  ASSUME NEW S, NEW s \in Seq(S), NEW n \in 0..Len(s)
  PROVE  /\ SubSeq(s, 1, n) \in Seq(S)
         /\ Len(SubSeq(s, 1, n)) = n
         /\ \A i \in 1..n : SubSeq(s, 1, n)[i] = s[i]
         /\ Range(SubSeq(s, 1, n)) \subseteq Range(s)
<1>1. /\ Len(s) \in Nat /\ DOMAIN s = 1..Len(s)
      /\ SubSeq(s, 1, n) \in Seq(S) /\ Len(SubSeq(s, 1, n)) = n
      /\ DOMAIN SubSeq(s, 1, n) = 1..n
      /\ \A i \in 1..n : SubSeq(s, 1, n)[i] = s[i]
  OBVIOUS
<1> QED
  BY <1>1 DEF Range

\* ... after its first element was taken.
LEMMA RangeTail ==
  ASSUME NEW S, NEW s \in Seq(S), s # <<>>
  PROVE  /\ Tail(s) \in Seq(S)
         /\ Len(s) \in Nat \ {0} /\ Len(Tail(s)) = Len(s) - 1
         /\ Head(s) = s[1] /\ 1 \in 1..Len(s)
         /\ \A i \in 1..Len(Tail(s)) : Tail(s)[i] = s[i + 1] /\ i + 1 \in 1..Len(s)
         /\ Range(Tail(s)) \subseteq Range(s)
         /\ Head(s) \in Range(s)
         /\ Range(s) = {Head(s)} \cup Range(Tail(s))
<1>1. /\ Tail(s) \in Seq(S)
      /\ Len(s) \in Nat \ {0} /\ Len(Tail(s)) = Len(s) - 1
      /\ Head(s) = s[1] /\ 1 \in 1..Len(s)
      /\ \A i \in 1..Len(Tail(s)) : Tail(s)[i] = s[i + 1] /\ i + 1 \in 1..Len(s)
      /\ DOMAIN s = 1..Len(s) /\ DOMAIN Tail(s) = 1..Len(Tail(s))
  OBVIOUS
<1>2. Range(Tail(s)) \subseteq Range(s)
  BY <1>1 DEF Range
<1>3. Head(s) \in Range(s)
  BY <1>1 DEF Range
<1>4. ASSUME NEW x \in Range(s), x # Head(s) PROVE x \in Range(Tail(s))
  <2>1. PICK i \in 1..Len(s) : x = s[i]
    BY <1>1, <1>4 DEF Range
  <2>2. i - 1 \in 1..Len(Tail(s)) /\ Tail(s)[i - 1] = x
    BY <1>1, <1>4, <2>1
  <2> QED
    BY <1>1, <2>2 DEF Range
<1> QED
  BY <1>1, <1>2, <1>3, <1>4

\* A larger sequence counter types the same histories.
LEMMA SeqGrows ==
  ASSUME NEW S, NEW T, S \subseteq T, NEW s \in Seq(S)
  PROVE  s \in Seq(T)
  OBVIOUS

\* Membership, by index.
LEMMA InRange ==
  ASSUME NEW S, NEW s \in Seq(S)
  PROVE  /\ \A i \in 1..Len(s) : s[i] \in Range(s)
         /\ \A x \in Range(s) : \E i \in 1..Len(s) : x = s[i]
         /\ Range(s) \subseteq S
  BY DEF Range

\* A page of the replay: the smallest rows above its start, and if it is short
\* all of them.
LEMMA PageOfRows ==
  ASSUME NEW p, NEW above \in Nat, rows \subseteq 1..lastSeq, lastSeq \in Nat,
         IsPage(p, above)
  PROVE  /\ p \subseteq rows
         /\ \A q \in p : above < q
         /\ \A r \in rows : \A q \in p : above < r /\ r < q => r \in p
         /\ Cardinality(p) < BatchSize => \A r \in rows : above < r => r \in p
<1> DEFINE newer == {q \in rows : q > above}
<1>1. /\ p \subseteq newer
      /\ \A q \in p, r \in newer \ p : q < r
      /\ Cardinality(p) = IF Cardinality(newer) < BatchSize
                          THEN Cardinality(newer) ELSE BatchSize
  BY DEF IsPage
<1>2. p \subseteq rows /\ \A q \in p : above < q
  BY <1>1
<1>3. \A r \in rows : \A q \in p : above < r /\ r < q => r \in p
  <2> SUFFICES ASSUME NEW r \in rows, NEW q \in p, above < r, r < q, r \notin p
               PROVE  FALSE
    OBVIOUS
  <2>1. r \in newer \ p
    OBVIOUS
  <2>2. q < r
    BY <1>1, <2>1
  <2> QED
    BY <1>2, <2>2
<1>4. ASSUME Cardinality(p) < BatchSize
      PROVE  \A r \in rows : above < r => r \in p
  <2>1. IsFiniteSet(newer)
    <3>1. IsFiniteSet(1..lastSeq)
      BY FS_Interval
    <3>2. newer \subseteq 1..lastSeq
      OBVIOUS
    <3> QED
      BY <3>1, <3>2, FS_Subset
  <2>2. Cardinality(newer) \in Nat
    BY <2>1, FS_CardinalityType
  <2>3. Cardinality(p) = Cardinality(newer)
    BY <1>1, <1>4, <2>2, PgListenerAssumption
  <2>4. p = newer
    BY <1>1, <2>1, <2>3, FS_Subset
  <2> QED
    BY <2>4
<1> QED
  BY <1>2, <1>3, <1>4

-----------------------------------------------------------------------------
(* Under every fault                                                       *)

\* The listener only watches the database: its own steps leave it alone.
LEMMA StepSeq == [Next]_vars => [NextSeq]_seqVars
<1> USE DEF vars, seqVars
<1>1. Writers => NextSeq
  BY DEF Writers, CommitAndNotify, NextSeq
<1>2. LoseConnection \/ NotifyMalformed \/ Cancel => UNCHANGED seqVars
  BY DEF LoseConnection, NotifyMalformed, Cancel
<1>3. Task => UNCHANGED seqVars
  BY DEF Task, LoopTop, ConnectOk, ConnectErr, SleepOver, Cancelled, ResyncSelect,
         ResyncRow, ResyncMore, ResyncOk, ResyncErr, RecvOk, RecvErr,
         SilentReconnect, ForwardNothing, ForwardRow, ForwardErr
<1> QED
  BY <1>1, <1>2, <1>3 DEF Next

\* The history of commits only grows, and a row that appears is above all of it.
LEMMA HistoryGrows ==
  ASSUME IndInv, IndInv', rows \subseteq Range(feed), [NextSeq]_seqVars
  PROVE  /\ lastSeq \in Nat /\ lastSeq' \in Nat /\ lastSeq <= lastSeq'
         /\ Range(feed) \subseteq Range(feed')
         /\ rows' \subseteq Range(feed')
         /\ \A r \in rows' \ rows : \A q \in Range(feed) : q < r
<1>1. lastSeq \in Nat /\ feed \in Seq(1..lastSeq)
  BY DEF IndInv, TypeOK
<1>2. ASSUME NEW s \in Sessions, Commit(s)
      PROVE  /\ Range(feed') = Range(feed) \cup Range(pending[s])
             /\ \A r \in rows' \ rows : \A q \in Range(feed) : q < r
  <2>1. pending[s] \in Seq(1..lastSeq)
    BY DEF IndInv, TypeOK
  <2>2. Range(feed') = Range(feed) \cup Range(pending[s])
    BY <1>1, <1>2, <2>1, RangeConcat DEF Commit
  <2>3. ASSUME NEW r \in rows' \ rows, NEW q \in Range(feed) PROVE q < r
    <3>1. r \in Range(pending[s])
      BY <1>2, <2>3 DEF Commit
    <3>2. PICK i \in 1..Len(pending[s]) : r = pending[s][i]
      BY <2>1, <3>1, InRange
    <3>3. PICK j \in 1..Len(feed) : q = feed[j]
      BY <1>1, <2>3, InRange
    <3> QED
      BY <3>2, <3>3 DEF IndInv, PendingAboveFeed
  <2> QED
    BY <2>2, <2>3
<1>3. CASE \E s \in Sessions : Commit(s)
  <2>1. PICK s \in Sessions : Commit(s)
    BY <1>3
  <2>2. lastSeq' = lastSeq /\ rows' = rows \cup Range(pending[s])
    BY <2>1 DEF Commit
  <2>3. /\ Range(feed') = Range(feed) \cup Range(pending[s])
        /\ \A r \in rows' \ rows : \A q \in Range(feed) : q < r
    BY <1>2, <2>1
  <2>4. lastSeq' \in Nat /\ lastSeq <= lastSeq'
    BY <1>1, <2>2
  <2>5. Range(feed) \subseteq Range(feed') /\ rows' \subseteq Range(feed')
    BY <2>2, <2>3
  <2> QED
    BY <1>1, <2>3, <2>4, <2>5
<1>4. CASE ~ \E s \in Sessions : Commit(s)
  BY <1>1, <1>4 DEF NextSeq, seqVars, Insert, InsertConflict, Rollback, Delete
<1> QED
  BY <1>3, <1>4

\* Before the first connection.
LEMMA InitCursorInv == Init => CursorInv
<1> SUFFICES ASSUME Init PROVE CursorInv
  OBVIOUS
<1>1. IndInv
  BY InitIndInv DEF Init
<1>2. ListenerTypeOK
  <2>1. TypeOK /\ lastSeq \in Nat
    BY <1>1 DEF IndInv, TypeOK
  <2>2. 0 \in 0..lastSeq /\ MaxFaults \in 0..MaxFaults
        /\ BackoffFloor \in BackoffFloor..BackoffMax
    BY <2>1, PgListenerAssumption
  <2>3. <<>> \in Seq(0..lastSeq) /\ <<>> \in Seq(1..lastSeq)
    OBVIOUS
  <2> QED
    BY <2>1, <2>2, <2>3 DEF Init, ListenerTypeOK, Malformed
<1>3. ReplayAhead
  BY DEF Init, ReplayAhead, Replaying
<1>4. OnlyCommitted
  <2>1. rows \subseteq Range(feed)
    BY EventSeqAssumption DEF Init, InitSeq, Range
  <2>2. Range(<<>>) = {}
    BY DEF Range
  <2> QED
    BY <2>1, <2>2 DEF Init, OnlyCommitted, Malformed
<1> QED
  BY <1>1, <1>2, <1>3, <1>4 DEF CursorInv
\* The writers move the history under the listener and fill its queue.
LEMMA WritersCursorInv ==
  ASSUME CursorInv, Writers, IndInv'
  PROVE  CursorInv'
<1>1. [NextSeq]_seqVars
  BY DEF Writers, CommitAndNotify, NextSeq
<1>2. /\ lastSeq \in Nat /\ lastSeq' \in Nat /\ lastSeq <= lastSeq'
      /\ Range(feed) \subseteq Range(feed')
      /\ rows' \subseteq Range(feed')
  BY <1>1, HistoryGrows DEF CursorInv, OnlyCommitted
<1>3. 0..lastSeq \subseteq 0..lastSeq' /\ 1..lastSeq \subseteq 1..lastSeq'
  BY <1>2
<1>4. UNCHANGED <<pc, conn, note, lastSeen, replayVars, backoff, sent, unflushed,
                  shutdown, budget>>
  BY DEF Writers, listenerVars, CommitAndNotify
<1>5. inbox' \in Seq(0..lastSeq') /\ Range(inbox') \subseteq Range(feed') \cup {0}
  <2>0. inbox \in Seq(0..lastSeq) /\ Range(inbox) \subseteq Range(feed) \cup {0}
    BY DEF CursorInv, ListenerTypeOK, OnlyCommitted
  <2>1. ASSUME NEW s \in Sessions, CommitAndNotify(s), conn = "up"
        PROVE  inbox' \in Seq(0..lastSeq') /\ Range(inbox') \subseteq Range(feed') \cup {0}
    <3>1. inbox' = inbox \o pending[s] /\ feed' = feed \o pending[s]
      BY <2>1 DEF CommitAndNotify, Notify, Commit
    <3>2. pending[s] \in Seq(1..lastSeq) /\ feed \in Seq(1..lastSeq)
      BY DEF CursorInv, IndInv, TypeOK
    <3>3. pending[s] \in Seq(0..lastSeq)
      BY <1>2, <3>2
    <3>4. inbox' \in Seq(0..lastSeq')
      <4>1. inbox' \in Seq(0..lastSeq)
        BY <2>0, <3>1, <3>3
      <4>2. lastSeq' = lastSeq
        BY <2>1 DEF CommitAndNotify, Commit
      <4> QED
        BY <4>1, <4>2
    <3>5. Range(inbox') = Range(inbox) \cup Range(pending[s])
      BY <2>0, <3>1, <3>3, RangeConcat
    <3>6. Range(feed') = Range(feed) \cup Range(pending[s])
      BY <3>1, <3>2, RangeConcat
    <3> QED
      BY <2>0, <3>4, <3>5, <3>6
  <2>2. CASE inbox' = inbox
    BY <1>2, <1>3, <2>0, <2>2
  <2> QED
    BY <2>1, <2>2 DEF Writers, listenerVars, CommitAndNotify, Notify
<1>6. ListenerTypeOK'
  <2>1. TypeOK'
    BY DEF IndInv
  <2>2. /\ note' \in 0..lastSeq' /\ lastSeen' \in 0..lastSeq'
        /\ cursor' \in 0..lastSeq' /\ page' \subseteq 1..lastSeq'
    BY <1>3, <1>4 DEF CursorInv, ListenerTypeOK, replayVars
  <2>3. sent' \in Seq(1..lastSeq')
    <3>1. sent \in Seq(1..lastSeq) /\ sent' = sent
      BY <1>4 DEF CursorInv, ListenerTypeOK
    <3> QED
      BY <1>3, <3>1, SeqGrows
  <2> QED
    BY <1>4, <1>5, <2>1, <2>2, <2>3 DEF CursorInv, ListenerTypeOK, replayVars
<1>7. ReplayAhead'
  BY <1>4 DEF CursorInv, ReplayAhead, Replaying, replayVars
<1>8. OnlyCommitted'
  BY <1>2, <1>4, <1>5 DEF CursorInv, OnlyCommitted, replayVars
<1> QED
  BY <1>6, <1>7, <1>8 DEF CursorInv

\* The steps of the network, the token and the task, one by one.
LEMMA TaskCursorInv ==
  ASSUME CursorInv, LoseConnection \/ NotifyMalformed \/ Cancel \/ Task, IndInv'
  PROVE  CursorInv'
<1>0. UNCHANGED seqVars /\ TypeOK' /\ lastSeq \in Nat
  BY DEF LoseConnection, NotifyMalformed, Cancel, Task, LoopTop, ConnectOk,
         ConnectErr, SleepOver, Cancelled, ResyncSelect, ResyncRow, ResyncMore,
         ResyncOk, ResyncErr, RecvOk, RecvErr, SilentReconnect, ForwardNothing,
         ForwardRow, ForwardErr, CursorInv, IndInv, TypeOK
<1>empty. Range(<<>>) = {}
  BY DEF Range
<1> USE <1>0, <1>empty, PgListenerAssumption
    DEF CursorInv, ListenerTypeOK, ReplayAhead, OnlyCommitted, Replaying, seqVars,
        replayVars, Malformed, Fault, EndReplay
<1>1. CASE LoseConnection
  <2>1. PICK n \in 0..Len(inbox) : inbox' = SubSeq(inbox, 1, n)
    BY <1>1 DEF LoseConnection
  <2>2. inbox' \in Seq(0..lastSeq) /\ Range(inbox') \subseteq Range(inbox)
    BY <2>1, RangePrefix
  <2> QED
    BY <1>1, <2>2 DEF LoseConnection
<1>2. CASE NotifyMalformed
  <2>1. inbox' \in Seq(0..lastSeq) /\ Range(inbox') = Range(inbox) \cup {0}
    BY <1>2, RangeAppend DEF NotifyMalformed
  <2> QED
    BY <1>2, <2>1 DEF NotifyMalformed
<1>3. CASE Cancel
  BY <1>3 DEF Cancel
<1>4. CASE LoopTop
  BY <1>4 DEF LoopTop
<1>5. CASE ConnectOk
  <2>1. ListenerTypeOK'
    <3>1. BackoffFloor \in BackoffFloor..BackoffMax /\ <<>> \in Seq(0..lastSeq)
      OBVIOUS
    <3> QED
      BY <1>5, <3>1 DEF ConnectOk
  <2>2. ReplayAhead'
    BY <1>5 DEF ConnectOk
  <2> QED
    BY <1>5, <2>1, <2>2 DEF ConnectOk
<1>6. CASE ConnectErr
  BY <1>6 DEF ConnectErr
<1>7. CASE SleepOver
  BY <1>7 DEF SleepOver, Doubled
<1>8. CASE Cancelled
  BY <1>8 DEF Cancelled
<1>9. CASE ResyncSelect
  <2>1. PICK p \in SUBSET rows : /\ IsPage(p, cursor) /\ page' = p
                                 /\ lastPage' = (Cardinality(p) < BatchSize)
    BY <1>9 DEF ResyncSelect
  <2>2. \A q \in p : cursor < q
    <3>1. rows \subseteq 1..lastSeq /\ cursor \in Nat
      BY DEF TypeOK
    <3> QED
      BY <2>1, <3>1, PageOfRows
  <2>3. page' \subseteq 1..lastSeq /\ lastPage' \in BOOLEAN
    BY <2>1 DEF TypeOK
  <2>4. ListenerTypeOK'
    BY <1>9, <2>3 DEF ResyncSelect
  <2> QED
    BY <1>9, <2>1, <2>2, <2>4 DEF ResyncSelect
<1>10. CASE ResyncRow
  <2>1. PICK q \in page : /\ \A r \in page : q <= r
                          /\ sent' = Append(sent, q)
                          /\ cursor' = q
                          /\ page' = page \ {q}
    BY <1>10 DEF ResyncRow
  <2>2. sent' \in Seq(1..lastSeq) /\ Range(sent') = Range(sent) \cup {q}
    BY <2>1, RangeAppend
  <2>3. \A r \in page' : q < r
    BY <2>1
  <2> QED
    BY <1>10, <2>1, <2>2, <2>3 DEF ResyncRow
<1>11. CASE ResyncMore
  BY <1>11 DEF ResyncMore
<1>12. CASE ResyncOk
  <2>1. unflushed' \in BOOLEAN /\ 0 \in 0..lastSeq
    BY <1>12 DEF ResyncOk
  <2>2. ListenerTypeOK'
    BY <1>12, <2>1 DEF ResyncOk
  <2> QED
    BY <1>12, <2>2 DEF ResyncOk
<1>13. CASE ResyncErr
  <2>1. budget' \in 0..MaxFaults /\ 0 \in 0..lastSeq
    BY <1>13 DEF ResyncErr
  <2>2. ListenerTypeOK'
    BY <1>13, <2>1 DEF ResyncErr
  <2> QED
    BY <1>13, <2>2 DEF ResyncErr
<1>14. CASE RecvOk
  <2>1. /\ inbox' \in Seq(0..lastSeq) /\ Range(inbox') \subseteq Range(inbox)
        /\ note' \in Range(inbox)
    BY <1>14, RangeTail DEF RecvOk
  <2>2. note' \in 0..lastSeq
    BY <2>1, InRange
  <2> QED
    BY <1>14, <2>1, <2>2 DEF RecvOk
<1>15. CASE RecvErr
  BY <1>15 DEF RecvErr
<1>16. CASE SilentReconnect
  BY <1>16 DEF SilentReconnect
<1>17. CASE ForwardNothing
  BY <1>17 DEF ForwardNothing
<1>18. CASE ForwardRow
  <2>1. sent' \in Seq(1..lastSeq) /\ Range(sent') = Range(sent) \cup {note}
    BY <1>18, RangeAppend DEF ForwardRow, TypeOK
  <2> QED
    <3>1. ListenerTypeOK'
      <4>1. lastSeen' = note /\ note' = 0 /\ unflushed' \in BOOLEAN
        BY <1>18 DEF ForwardRow
      <4>2. lastSeen' \in 0..lastSeq /\ note' \in 0..lastSeq
        BY <4>1
      <4> QED
        BY <1>18, <2>1, <4>1, <4>2 DEF ForwardRow
    <3>2. ReplayAhead'
      BY <1>18 DEF ForwardRow
    <3>3. OnlyCommitted'
      BY <1>18, <2>1 DEF ForwardRow
    <3> QED
      BY <3>1, <3>2, <3>3
<1>19. CASE ForwardErr
  BY <1>19 DEF ForwardErr
<1> QED
  BY <1>1, <1>2, <1>3, <1>4, <1>5, <1>6, <1>7, <1>8, <1>9, <1>10, <1>11, <1>12,
     <1>13, <1>14, <1>15, <1>16, <1>17, <1>18, <1>19 DEF Task
\* The inductive step.
LEMMA NextCursorInv == CursorInv /\ [Next]_vars => CursorInv'
<1> SUFFICES ASSUME CursorInv, [Next]_vars PROVE CursorInv'
  OBVIOUS
<1>1. IndInv'
  BY StepSeq, NextIndInv DEF CursorInv
<1>2. CASE UNCHANGED vars
  BY <1>2 DEF vars, seqVars, listenerVars, replayVars, CursorInv, IndInv, TypeOK,
              OnlyHolderPending, PendingSorted, PendingAboveFeed, CommitOrder,
              ListenerTypeOK, ReplayAhead, OnlyCommitted, Replaying
<1> QED
  BY <1>1, <1>2, WritersCursorInv, TaskCursorInv DEF Next

\* What the listener knows of rows that were committed, under every fault.
THEOREM CursorInvHolds == Spec => []CursorInv
<1> QED
  BY InitCursorInv, NextCursorInv, PTL DEF Spec

\* The task's state is well typed under every fault: what it has received, read
\* or broadcast carries a value that nextval has returned.
THEOREM ListenerTypeCorrect == Spec => []ListenerTypeOK
<1>1. CursorInv => ListenerTypeOK
  BY DEF CursorInv
<1> QED
  BY <1>1, CursorInvHolds, PTL

\* The listener beside them does not disturb the writers: the database still
\* behaves as EventSeq says.
THEOREM ListenerImplementsSeq == Spec => SpecSeq
<1>1. Init => InitSeq
  BY DEF Init
<1> QED
  BY <1>1, StepSeq, PTL DEF Spec, SpecSeq

\* So what EventSeq guarantees, the listener can rely on: rows become visible in
\* event_seq order.
THEOREM ListenerCommitOrder == Spec => []CommitOrder
  BY ListenerImplementsSeq, CommitOrderHolds

\* Whatever fails, last_seen_seq never moves back: a replay starts from it and a
\* notification at or below it is dropped.
THEOREM CursorMonotoneHolds == Spec => CursorMonotone
<1>1. CursorInv /\ [Next]_vars => [lastSeen' >= lastSeen]_vars
  <2> SUFFICES ASSUME CursorInv, Next PROVE lastSeen' >= lastSeen
    BY DEF vars
  <2>1. lastSeen \in Nat /\ cursor \in Nat /\ note \in Nat /\ lastSeq \in Nat
    BY DEF CursorInv, ListenerTypeOK, TypeOK
  <2>2. CASE lastSeen' = lastSeen
    BY <2>1, <2>2
  <2>3. CASE ResyncOk
    BY <2>1, <2>3 DEF ResyncOk, CursorInv, ReplayAhead, Replaying
  <2>4. CASE ForwardRow
    BY <2>1, <2>4 DEF ForwardRow, Covered
  <2>5. ~ ResyncOk /\ ~ ForwardRow => lastSeen' = lastSeen
    BY DEF Next, Writers, listenerVars, CommitAndNotify, LoseConnection,
           NotifyMalformed, Cancel, Task, LoopTop, ConnectOk, ConnectErr, SleepOver,
           Cancelled, ResyncSelect, ResyncRow, ResyncMore, ResyncErr, RecvOk,
           RecvErr, SilentReconnect, ForwardNothing, ForwardErr
  <2> QED
    BY <2>2, <2>3, <2>4, <2>5
<1> QED
  BY <1>1, CursorInvHolds, PTL DEF Spec, CursorMonotone
-----------------------------------------------------------------------------
(* When the replay and the fetches succeed                                 *)

\* The numbers the argument below compares.
LEMMA FeedTypes ==
  ASSUME CursorInv
  PROVE  /\ lastSeq \in Nat
         /\ inbox \in Seq(0..lastSeq) /\ sent \in Seq(1..lastSeq)
         /\ Len(inbox) \in Nat /\ Len(sent) \in Nat
         /\ \A i \in 1..Len(inbox) : inbox[i] \in Nat
         /\ \A i \in 1..Len(sent) : sent[i] \in Nat
         /\ \A q \in rows \cup page \cup Range(sent) : q \in Nat \ {0}
         /\ \A q \in Range(inbox) : q \in Nat
         /\ note \in Nat /\ lastSeen \in Nat /\ cursor \in Nat /\ Mark \in Nat
<1>1. /\ lastSeq \in Nat /\ inbox \in Seq(0..lastSeq) /\ sent \in Seq(1..lastSeq)
      /\ rows \subseteq 1..lastSeq /\ page \subseteq 1..lastSeq
      /\ note \in 0..lastSeq /\ lastSeen \in 0..lastSeq /\ cursor \in 0..lastSeq
  BY DEF CursorInv, ListenerTypeOK, TypeOK
<1>2. Range(sent) \subseteq 1..lastSeq /\ Range(inbox) \subseteq 0..lastSeq
  BY <1>1, InRange
<1> QED
  BY <1>1, <1>2 DEF Mark

\* Nothing has been received or sent before the first connection.
LEMMA InitFeedInv == Init => FeedInv
<1> SUFFICES ASSUME Init PROVE FeedInv
  OBVIOUS
<1>1. CursorInv
  BY InitCursorInv
<1>2. \A q \in rows : q \in Nat \ {0}
  BY <1>1, FeedTypes
<1>3. Range(<<>>) = {} /\ Len(<<>>) = 0
  BY DEF Range
<1>4. SentInOrder /\ SentBelowMark /\ FlushDue
  BY <1>3 DEF Init, SentInOrder, SentBelowMark, FlushDue
<1>5. NothingSkipped /\ PageComplete
  BY <1>2 DEF Init, NothingSkipped, PageComplete, Mark, Replaying
<1>6. InboxSorted /\ QueueComplete /\ QueueUnbroken
  BY <1>3 DEF Init, InboxSorted, QueueComplete, QueueUnbroken, CaughtUp, Malformed
<1> QED
  BY <1>1, <1>4, <1>5, <1>6 DEF FeedInv

\* A step that leaves the listener alone and adds no row keeps everything.
LEMMA FewerRowsFeedInv ==
  ASSUME FeedInv, CursorInv', rows' \subseteq rows, UNCHANGED listenerVars
  PROVE  FeedInv'
<1> USE DEF listenerVars, replayVars, Mark, Replaying
<1>1. SentInOrder' /\ SentBelowMark' /\ FlushDue' /\ InboxSorted'
  BY DEF FeedInv, SentInOrder, SentBelowMark, FlushDue, InboxSorted
<1>2. NothingSkipped' /\ PageComplete'
  BY DEF FeedInv, NothingSkipped, PageComplete
<1>3. QueueComplete' /\ QueueUnbroken'
  BY DEF FeedInv, QueueComplete, QueueUnbroken, CaughtUp, Awaited
<1> QED
  BY <1>1, <1>2, <1>3 DEF FeedInv

\* The elements of a sequence.
LEMMA SeqElement == ASSUME NEW S, NEW q \in Seq(S) PROVE \A i \in 1..Len(q) : q[i] \in S
  OBVIOUS

\* COMMIT: the new rows are above everything the listener has met, and go to the
\* end of the queue if the connection is up.
LEMMA CommitFeedInv ==
  ASSUME FeedInv, CursorInv', NEW s \in Sessions, CommitAndNotify(s)
  PROVE  FeedInv'
<1> DEFINE P == pending[s]
<1>1. UNCHANGED <<pc, conn, note, lastSeen, replayVars, backoff, sent, unflushed,
                  shutdown, budget>>
  BY DEF CommitAndNotify
<1>2. UNCHANGED <<Mark, CaughtUp, Replaying>>
  BY <1>1 DEF Mark, CaughtUp, Replaying, replayVars
<1>3. /\ P \in Seq(1..lastSeq) /\ Len(P) \in Nat
      /\ \A i \in 1..Len(P) : P[i] \in Nat \ {0}
      /\ \A i, j \in 1..Len(P) : i < j => P[i] < P[j]
  <2>1. lastSeq \in Nat /\ pending \in [Sessions -> Seq(1..lastSeq)] /\ PendingSorted
    BY DEF FeedInv, CursorInv, IndInv, TypeOK
  <2>2. P \in Seq(1..lastSeq) /\ Len(P) \in Nat
    BY <2>1
  <2> HIDE DEF P
  <2>3. \A i \in 1..Len(P) : P[i] \in 1..lastSeq
    BY <2>2, SeqElement
  <2>4. \A i, j \in 1..Len(P) : i < j => P[i] < P[j]
    BY <2>1 DEF PendingSorted, P
  <2> QED
    BY <2>1, <2>2, <2>3, <2>4
<1>4. /\ rows' \ rows \subseteq Range(P)
      /\ inbox' = IF conn = "up" THEN inbox \o P ELSE inbox
  BY DEF CommitAndNotify, Commit, Notify
<1>5. CursorInv
  BY DEF FeedInv
<1>6. \A r \in Range(P) : r \in Nat /\ 0 < r /\ \A q \in Range(feed) : q < r
  <2> SUFFICES ASSUME NEW r \in Range(P)
               PROVE  r \in Nat /\ 0 < r /\ \A q \in Range(feed) : q < r
    OBVIOUS
  <2>1. feed \in Seq(1..lastSeq) /\ PendingAboveFeed
    BY <1>5 DEF CursorInv, IndInv, TypeOK
  <2>2. PICK i \in 1..Len(P) : r = P[i]
    BY <1>3, InRange
  <2>3. \A q \in Range(feed) : \E j \in 1..Len(feed) : q = feed[j]
    BY <2>1, InRange
  <2> QED
    BY <1>3, <2>1, <2>2, <2>3 DEF PendingAboveFeed
<1>7. /\ rows \cup page \cup Range(sent) \subseteq Range(feed)
      /\ note \in Range(feed) \cup {0} /\ Mark \in Range(feed) \cup {0}
      /\ \A i \in 1..Len(inbox) : inbox[i] \in Range(feed) \cup {0}
  <2>1. \A i \in 1..Len(inbox) : inbox[i] \in Range(inbox)
    BY <1>5, FeedTypes, InRange
  <2> QED
    BY <1>5, <2>1 DEF CursorInv, OnlyCommitted, Mark
<1>8. \A r \in Range(P) :
        /\ Mark < r /\ note < r
        /\ \A p \in page : p < r
        /\ \A i \in 1..Len(inbox) : inbox[i] < r
  BY <1>6, <1>7
<1>9. /\ inbox \in Seq(0..lastSeq) /\ Len(inbox) \in Nat
      /\ \A i \in 1..Len(inbox) : inbox[i] \in Nat
      /\ Mark \in Nat /\ note \in Nat /\ \A q \in rows \cup page : q \in Nat
  BY <1>5, FeedTypes
<1>10. ASSUME conn = "up"
       PROVE  /\ Len(inbox') = Len(inbox) + Len(P)
              /\ \A i \in 1..Len(inbox) : inbox'[i] = inbox[i]
              /\ \A i \in 1..Len(P) : inbox'[Len(inbox) + i] = P[i]
              /\ \A i \in 1..Len(inbox') : i \in 1..Len(inbox) \/ i - Len(inbox) \in 1..Len(P)
              /\ \A i \in 1..Len(P) : P[i] \in Range(P)
              /\ Range(inbox') = Range(inbox) \cup Range(P)
  <2>1. P \in Seq(0..lastSeq)
    <3>1. 1..lastSeq \subseteq 0..lastSeq
      OBVIOUS
    <3> QED
      BY <1>3, <3>1, SeqGrows
  <2>2. inbox' = inbox \o P
    BY <1>4, <1>10
  <2>3. Range(inbox') = Range(inbox) \cup Range(P)
    BY <1>9, <2>1, <2>2, RangeConcat
  <2>4. \A i \in 1..Len(P) : P[i] \in Range(P)
    BY <1>3, InRange
  <2>5. Len(inbox') = Len(inbox) + Len(P)
    BY <1>9, <2>1, <2>2
  <2> QED
    BY <1>3, <1>9, <2>1, <2>2, <2>3, <2>4, <2>5
<1>11. SentInOrder' /\ SentBelowMark' /\ FlushDue'
  BY <1>1, <1>2 DEF FeedInv, SentInOrder, SentBelowMark, FlushDue, replayVars
<1>12. NothingSkipped' /\ PageComplete'
  BY <1>1, <1>2, <1>4, <1>6, <1>8, <1>9
     DEF FeedInv, NothingSkipped, PageComplete, replayVars
<1>13. InboxSorted'
  <2>1. InboxSorted
    BY DEF FeedInv
  <2>2. CASE conn # "up"
    BY <1>1, <1>4, <2>1, <2>2 DEF InboxSorted
  <2>3. CASE conn = "up"
    <3> HIDE DEF P
    <3>1. ASSUME NEW i \in 1..Len(inbox'), NEW j \in 1..Len(inbox'), i < j,
                 inbox'[i] # 0, inbox'[j] # 0
          PROVE  inbox'[i] < inbox'[j]
      <4>1. CASE j \in 1..Len(inbox)
        BY <1>9, <1>10, <2>1, <2>3, <3>1, <4>1 DEF InboxSorted, Malformed
      <4>2. CASE i \in 1..Len(inbox) /\ j - Len(inbox) \in 1..Len(P)
        <5>1. inbox'[j] = P[j - Len(inbox)] /\ inbox'[i] = inbox[i]
          BY <1>3, <1>9, <1>10, <2>3, <4>2
        <5> QED
          BY <1>8, <1>10, <2>3, <4>2, <5>1
      <4>3. CASE i - Len(inbox) \in 1..Len(P) /\ j - Len(inbox) \in 1..Len(P)
        <5>1. inbox'[j] = P[j - Len(inbox)]
          BY <1>3, <1>9, <1>10, <2>3, <4>3
        <5>2. inbox'[i] = P[i - Len(inbox)]
          BY <1>3, <1>9, <1>10, <2>3, <4>3
        <5>3. i - Len(inbox) < j - Len(inbox)
          BY <1>9, <1>10, <2>3, <3>1, <4>3
        <5> QED
          BY <1>3, <4>3, <5>1, <5>2, <5>3
      <4> QED
        BY <1>3, <1>9, <1>10, <2>3, <3>1, <4>1, <4>2, <4>3
    <3>2. ASSUME NEW i \in 1..Len(inbox'), inbox'[i] # 0, note # 0
          PROVE  note < inbox'[i]
      <4>1. CASE i \in 1..Len(inbox)
        BY <1>10, <2>1, <2>3, <3>2, <4>1 DEF InboxSorted, Malformed
      <4>2. CASE i - Len(inbox) \in 1..Len(P)
        <5>1. inbox'[i] = P[i - Len(inbox)]
          BY <1>3, <1>9, <1>10, <2>3, <4>2
        <5> QED
          BY <1>8, <1>10, <2>3, <4>2, <5>1
      <4> QED
        BY <1>10, <2>3, <4>1, <4>2
    <3> QED
      BY <1>1, <2>1, <3>1, <3>2 DEF InboxSorted, Malformed
  <2> QED
    BY <2>2, <2>3
<1>14. QueueComplete'
  <2> SUFFICES ASSUME CaughtUp, conn = "up", NEW r \in rows', Awaited(r)'
               PROVE  r \in Range(inbox')
    BY <1>1, <1>2 DEF QueueComplete
  <2>1. CASE r \in rows
    <3>1. Awaited(r)
      BY <1>1, <1>2, <2>1 DEF Awaited, replayVars
    <3>2. r \in Range(inbox)
      BY <2>1, <3>1 DEF FeedInv, QueueComplete
    <3> QED
      BY <1>10, <3>2
  <2>2. CASE r \notin rows
    BY <1>4, <1>10, <2>2
  <2> QED
    BY <2>1, <2>2
<1>15. QueueUnbroken'
  <2> SUFFICES ASSUME CaughtUp PROVE QueueUnbroken'
    BY <1>2 DEF QueueUnbroken
  <2>0. QueueUnbroken /\ QueueComplete
    BY DEF FeedInv
  <2>1. ASSUME NEW r \in rows', NEW i \in 1..Len(inbox'), Awaited(r)', r < inbox'[i]
        PROVE  \E k \in 1..(i - 1) : inbox'[k] = r
    <3> HIDE DEF P
    <3>1. r \in rows => Awaited(r)
      BY <1>1, <1>2, <2>1 DEF Awaited, replayVars
    <3>2. CASE conn # "up" \/ i \in 1..Len(inbox)
      <4>1. i \in 1..Len(inbox) /\ inbox'[i] = inbox[i]
        BY <1>4, <1>10, <2>1, <3>2
      <4>2. r \in rows
        <5> SUFFICES ASSUME r \in Range(P) PROVE FALSE
          BY <1>4
        <5>1. inbox[i] < r /\ r < inbox[i] /\ r \in Nat /\ inbox[i] \in Nat
          BY <1>6, <1>8, <1>9, <2>1, <4>1
        <5> QED
          BY <5>1
      <4>3. PICK k \in 1..(i - 1) : inbox[k] = r
        BY <2>0, <2>1, <3>1, <4>1, <4>2 DEF QueueUnbroken
      <4>4. inbox'[k] = inbox[k]
        BY <1>4, <1>9, <1>10, <4>1
      <4> QED
        BY <4>3, <4>4
    <3>3. CASE conn = "up" /\ i - Len(inbox) \in 1..Len(P)
      <4>1. CASE r \in rows
        <5>1. r \in Range(inbox)
          BY <2>0, <3>1, <3>3, <4>1 DEF QueueComplete
        <5>2. PICK k \in 1..Len(inbox) : r = inbox[k]
          BY <1>9, <5>1, InRange
        <5>3. k \in 1..(i - 1) /\ inbox'[k] = r
          BY <1>3, <1>9, <1>10, <3>3, <5>2
        <5> QED
          BY <5>3
      <4>2. CASE r \in Range(P)
        <5>1. PICK m \in 1..Len(P) : r = P[m]
          BY <1>3, <4>2, InRange
        <5>2. inbox'[i] = P[i - Len(inbox)]
          BY <1>3, <1>9, <1>10, <3>3
        <5>3. m < i - Len(inbox)
          <6> DEFINE n == i - Len(inbox)
          <6>1. n \in 1..Len(P) /\ P[m] < P[n] /\ P[m] \in Nat /\ P[n] \in Nat
            BY <1>3, <2>1, <3>3, <5>1, <5>2
          <6>2. m # n /\ ~ (n < m)
            BY <1>3, <6>1
          <6> QED
            BY <1>3, <1>9, <2>1, <6>1, <6>2
        <5>4. Len(inbox) + m \in 1..(i - 1) /\ inbox'[Len(inbox) + m] = r
          BY <1>3, <1>9, <1>10, <3>3, <5>1, <5>3
        <5> QED
          BY <5>4
      <4> QED
        BY <1>4, <4>1, <4>2
    <3> QED
      BY <1>10, <2>1, <3>2, <3>3
  <2>2. ASSUME NEW r \in rows', Mark' < r, r \notin page' PROVE note' <= r
    <3>1. CASE r \in rows
      BY <1>1, <1>2, <2>0, <2>2, <3>1 DEF QueueUnbroken, replayVars
    <3>2. CASE r \in Range(P)
      BY <1>1, <1>6, <1>8, <1>9, <3>2
    <3> QED
      BY <1>4, <3>1, <3>2
  <2> QED
    BY <2>1, <2>2 DEF QueueUnbroken
<1> QED
  BY <1>11, <1>12, <1>13, <1>14, <1>15 DEF FeedInv

\* A lost connection cuts the queue at its end; a foreign NOTIFY lengthens it by
\* something that is no row.
LEMMA NetworkFeedInv ==
  ASSUME FeedInv, CursorInv', LoseConnection \/ NotifyMalformed
  PROVE  FeedInv'
<1>1. /\ UNCHANGED <<seqVars, pc, note, lastSeen, replayVars, sent, unflushed>>
      /\ conn = "up"
  BY DEF LoseConnection, NotifyMalformed
<1>2. UNCHANGED <<rows, Mark, CaughtUp, Replaying, page, cursor, replayedAny>>
  BY <1>1 DEF Mark, CaughtUp, Replaying, replayVars, seqVars
<1>3. \A r : Awaited(r)' = Awaited(r)
  BY <1>1, <1>2 DEF Awaited
<1>4. SentInOrder' /\ SentBelowMark' /\ NothingSkipped' /\ PageComplete' /\ FlushDue'
  BY <1>1, <1>2 DEF FeedInv, SentInOrder, SentBelowMark, NothingSkipped, PageComplete,
                    FlushDue
<1>5. /\ CursorInv /\ InboxSorted /\ QueueComplete /\ QueueUnbroken
      /\ inbox \in Seq(0..lastSeq) /\ Len(inbox) \in Nat
      /\ \A q \in rows : q \in Nat
  BY FeedTypes DEF FeedInv
<1>6. CASE LoseConnection
  <2>1. PICK n \in 0..Len(inbox) : inbox' = SubSeq(inbox, 1, n)
    BY <1>6 DEF LoseConnection
  <2>2. Len(inbox') = n /\ \A i \in 1..n : i \in 1..Len(inbox) /\ inbox'[i] = inbox[i]
    BY <1>5, <2>1, RangePrefix
  <2>3. InboxSorted'
    BY <1>1, <1>5, <2>2 DEF InboxSorted
  <2>4. QueueComplete'
    BY <1>6 DEF LoseConnection, QueueComplete
  <2>5. ASSUME CaughtUp, NEW r \in rows, NEW i \in 1..n, Awaited(r), r < inbox'[i]
        PROVE  \E k \in 1..(i - 1) : inbox'[k] = r
    <3>1. PICK k \in 1..(i - 1) : inbox[k] = r
      BY <1>5, <2>2, <2>5 DEF QueueUnbroken
    <3>2. k \in 1..n
      BY <2>5, <3>1
    <3> QED
      BY <2>2, <3>1, <3>2
  <2>6. QueueUnbroken'
    BY <1>1, <1>2, <1>3, <1>5, <2>2, <2>5 DEF QueueUnbroken
  <2> QED
    BY <1>4, <2>3, <2>4, <2>6 DEF FeedInv
<1>7. CASE NotifyMalformed
  <2>1. /\ inbox' = Append(inbox, 0) /\ conn' = conn
    BY <1>7 DEF NotifyMalformed, Malformed
  <2>2. /\ Len(inbox') = Len(inbox) + 1 /\ inbox'[Len(inbox) + 1] = 0
        /\ \A i \in 1..Len(inbox) : inbox'[i] = inbox[i]
    BY <1>5, <2>1
  <2>3. Range(inbox) \subseteq Range(inbox')
    BY <1>5, <2>1, RangeAppend
  <2>4. InboxSorted'
    BY <1>1, <1>5, <2>2 DEF InboxSorted, Malformed
  <2>5. QueueComplete'
    BY <1>2, <1>3, <1>5, <2>1, <2>3 DEF QueueComplete
  <2>6. ASSUME CaughtUp, NEW r \in rows, NEW i \in 1..Len(inbox'), Awaited(r), r < inbox'[i]
        PROVE  \E k \in 1..(i - 1) : inbox'[k] = r
    <3>1. i \in 1..Len(inbox)
      BY <1>5, <2>2, <2>6
    <3>2. PICK k \in 1..(i - 1) : inbox[k] = r
      BY <1>5, <2>2, <2>6, <3>1 DEF QueueUnbroken
    <3> QED
      BY <2>2, <3>1, <3>2
  <2>7. QueueUnbroken'
    BY <1>1, <1>2, <1>3, <1>5, <2>6 DEF QueueUnbroken
  <2> QED
    BY <1>4, <2>4, <2>5, <2>7 DEF FeedInv
<1> QED
  BY <1>6, <1>7

\* The steps that move no row: the loop, the connection and the sleep.
LEMMA LoopFeedInv ==
  ASSUME FeedInv, CursorInv',
         LoopTop \/ ConnectOk \/ ConnectErr \/ SleepOver \/ Cancelled \/ RecvErr
  PROVE  FeedInv'
<1> USE DEF LoopTop, ConnectOk, ConnectErr, SleepOver, Cancelled, RecvErr, replayVars
<1>1. /\ UNCHANGED <<seqVars, note, lastSeen, page, sent, unflushed>>
      /\ inbox' = inbox \/ inbox' = <<>>
      /\ pc \notin {"resync", "page", "forward"}
      /\ pc' \notin {"page", "forward", "live"}
  OBVIOUS
<1>2. Mark' = Mark /\ ~CaughtUp' /\ UNCHANGED rows
  BY <1>1 DEF Mark, Replaying, CaughtUp, seqVars
<1>3. SentInOrder' /\ SentBelowMark' /\ NothingSkipped'
  BY <1>1, <1>2 DEF FeedInv, SentInOrder, SentBelowMark, NothingSkipped
<1>4. PageComplete' /\ FlushDue'
  BY <1>1 DEF FeedInv, CursorInv, ReplayAhead, PageComplete, FlushDue, Replaying
<1>5. QueueComplete' /\ QueueUnbroken'
  BY <1>2 DEF QueueComplete, QueueUnbroken
<1>6. InboxSorted'
  <2>1. Len(<<>>) = 0
    OBVIOUS
  <2> QED
    BY <1>1, <2>1 DEF FeedInv, InboxSorted
<1> QED
  BY <1>3, <1>4, <1>5, <1>6 DEF FeedInv

\* The SELECT of a page: ahead of the cursor, without holes, and when it is short
\* nothing is left for the queue to bring.
LEMMA ResyncSelectFeedInv ==
  ASSUME FeedInv, CursorInv', ResyncSelect
  PROVE  FeedInv'
<1>1. PICK p \in SUBSET rows : /\ IsPage(p, cursor) /\ page' = p
                               /\ lastPage' = (Cardinality(p) < BatchSize)
  BY DEF ResyncSelect
<1>2. /\ UNCHANGED <<seqVars, conn, inbox, note, lastSeen, cursor, replayedAny, sent,
                     unflushed>>
      /\ pc = "resync" /\ pc' = "page"
  BY DEF ResyncSelect
<1>3. rows \subseteq 1..lastSeq /\ lastSeq \in Nat /\ cursor \in Nat
  BY FeedTypes DEF FeedInv, CursorInv, IndInv, TypeOK
<1>4. /\ \A r \in rows : \A q \in p : cursor < r /\ r < q => r \in p
      /\ Cardinality(p) < BatchSize => \A r \in rows : cursor < r => r \in p
  BY <1>1, <1>3, PageOfRows
<1>5. Mark' = cursor /\ Mark = cursor /\ rows' = rows
  BY <1>2 DEF Mark, Replaying, seqVars
<1>6. SentInOrder' /\ SentBelowMark' /\ NothingSkipped'
  BY <1>2, <1>5 DEF FeedInv, SentInOrder, SentBelowMark, NothingSkipped
<1>7. PageComplete' /\ FlushDue' /\ InboxSorted'
  BY <1>1, <1>2, <1>4, <1>5
     DEF FeedInv, PageComplete, FlushDue, Replaying, InboxSorted
<1>8. QueueComplete' /\ QueueUnbroken'
  <2> SUFFICES ASSUME CaughtUp' PROVE QueueComplete' /\ QueueUnbroken'
    BY DEF QueueComplete, QueueUnbroken
  <2>1. Cardinality(p) < BatchSize
    BY <1>1, <1>2 DEF CaughtUp
  <2>2. \A r \in rows : cursor < r => r \in page'
    BY <1>1, <1>4, <2>1
  <2> QED
    BY <1>5, <2>2 DEF QueueComplete, QueueUnbroken, Awaited
<1> QED
  BY <1>6, <1>7, <1>8 DEF FeedInv

\* Of two positions of a sequence of n + 1 elements, the smaller is one of the first n.
LEMMA BelowNext ==
  ASSUME NEW n \in Nat, NEW i \in 1..(n + 1), NEW j \in 1..(n + 1), i < j
  PROVE  i \in 1..n /\ (j \in 1..n \/ j = n + 1)
  OBVIOUS

\* A row of the page is broadcast: the smallest, with nothing left out below it.
LEMMA ResyncRowFeedInv ==
  ASSUME FeedInv, CursorInv', ResyncRow
  PROVE  FeedInv'
<1>1. PICK q \in page : /\ \A r \in page : q <= r
                        /\ sent' = Append(sent, q)
                        /\ cursor' = q
                        /\ page' = page \ {q}
  BY DEF ResyncRow
<1>2. /\ UNCHANGED <<seqVars, pc, conn, inbox, note, lastSeen, lastPage>>
      /\ replayedAny' /\ pc = "page"
  BY DEF ResyncRow
<1>3. Mark = cursor /\ Mark' = q /\ rows' = rows /\ CaughtUp' = CaughtUp
  BY <1>1, <1>2 DEF Mark, Replaying, CaughtUp, seqVars
<1>4. /\ sent \in Seq(1..lastSeq) /\ Len(sent) \in Nat /\ cursor \in Nat
      /\ \A r \in rows \cup page \cup Range(sent) : r \in Nat
      /\ cursor < q
  BY FeedTypes DEF FeedInv, CursorInv, ReplayAhead
<1>5. /\ Range(sent') = Range(sent) \cup {q} /\ Len(sent') = Len(sent) + 1
      /\ sent'[Len(sent) + 1] = q /\ \A i \in 1..Len(sent) : sent'[i] = sent[i]
  BY <1>1, <1>4, RangeAppend
<1>6. \A r \in Range(sent) : r < q
  BY <1>3, <1>4 DEF FeedInv, SentBelowMark
<1>7. SentInOrder'
  <2>1. \A i \in 1..Len(sent) : sent[i] \in Range(sent)
    BY <1>4, InRange
  <2>2. ASSUME NEW i \in 1..Len(sent'), NEW j \in 1..Len(sent'), i < j
        PROVE  sent'[i] < sent'[j]
    <3>1. i \in 1..Len(sent) /\ (j \in 1..Len(sent) \/ j = Len(sent) + 1)
      BY <1>4, <1>5, <2>2, BelowNext
    <3>2. sent'[i] = sent[i] /\ sent[i] < q
      BY <1>5, <1>6, <2>1, <3>1
    <3>3. CASE j = Len(sent) + 1
      BY <1>5, <3>2, <3>3
    <3>4. CASE j \in 1..Len(sent)
      <4>1. sent[i] < sent[j] /\ sent'[j] = sent[j]
        BY <1>5, <2>2, <3>1, <3>4 DEF FeedInv, SentInOrder
      <4> QED
        BY <3>2, <4>1
    <3> QED
      BY <3>1, <3>3, <3>4
  <2> QED
    BY <2>2 DEF SentInOrder
<1>8. SentBelowMark'
  BY <1>3, <1>4, <1>5, <1>6 DEF SentBelowMark
<1>9. NothingSkipped'
  <2> SUFFICES ASSUME NEW r \in rows, r <= q PROVE r \in Range(sent) \cup {q}
    BY <1>3, <1>5 DEF NothingSkipped
  <2>1. CASE r <= cursor
    BY <1>3, <2>1 DEF FeedInv, NothingSkipped
  <2>2. CASE cursor < r /\ r < q
    <3>1. r \in page
      BY <2>2 DEF FeedInv, PageComplete
    <3> QED
      BY <1>1, <1>4, <2>2, <3>1
  <2> QED
    BY <1>4, <2>1, <2>2
<1>10. PageComplete'
  <2> SUFFICES ASSUME NEW r \in rows, NEW p \in page', q < r, r < p
               PROVE  r \in page'
    BY <1>1, <1>3 DEF PageComplete
  <2>1. cursor < r /\ r # q /\ p \in page
    BY <1>1, <1>4
  <2> QED
    BY <1>1, <2>1 DEF FeedInv, PageComplete
<1>11. InboxSorted' /\ FlushDue'
  BY <1>2 DEF FeedInv, InboxSorted, FlushDue, Replaying
<1>12. \A r \in rows : Mark' < r /\ r \notin page' => Mark < r /\ r \notin page
  BY <1>1, <1>3, <1>4
<1>13. \A r \in rows : Awaited(r)' => Awaited(r)
  BY <1>2, <1>12 DEF Awaited
<1>14. QueueComplete' /\ QueueUnbroken'
  BY <1>2, <1>3, <1>12, <1>13 DEF FeedInv, QueueComplete, QueueUnbroken
<1> QED
  BY <1>7, <1>8, <1>9, <1>10, <1>11, <1>14 DEF FeedInv

\* The end of a page, and of the replay: the cursor becomes last_seen_seq and the
\* queue takes over.
LEMMA ResyncEndFeedInv ==
  ASSUME FeedInv, CursorInv', ResyncMore \/ ResyncOk
  PROVE  FeedInv'
<1>1. /\ UNCHANGED <<seqVars, conn, inbox, note, sent>>
      /\ pc = "page" /\ page = {} /\ page' = {}
  BY DEF ResyncMore, ResyncOk, EndReplay
<1>2. Mark = cursor /\ Mark' = cursor /\ rows' = rows
  BY <1>1 DEF Mark, Replaying, ResyncMore, ResyncOk, EndReplay, seqVars
<1>3. SentInOrder' /\ SentBelowMark' /\ NothingSkipped' /\ PageComplete'
  BY <1>1, <1>2 DEF FeedInv, SentInOrder, SentBelowMark, NothingSkipped, PageComplete
<1>4. InboxSorted'
  BY <1>1 DEF FeedInv, InboxSorted
<1>5. FlushDue'
  BY <1>1 DEF FeedInv, FlushDue, Replaying, ResyncMore, ResyncOk
<1>6. CaughtUp' => CaughtUp
  BY <1>1 DEF CaughtUp, ResyncMore, ResyncOk
<1>7. \A r : Awaited(r)' = Awaited(r)
  BY <1>1, <1>2 DEF Awaited
<1>8. QueueComplete' /\ QueueUnbroken'
  BY <1>1, <1>2, <1>6, <1>7 DEF FeedInv, QueueComplete, QueueUnbroken
<1> QED
  BY <1>3, <1>4, <1>5, <1>8 DEF FeedInv

\* A notification leaves the queue: no row that is still awaited comes before it.
LEMMA RecvOkFeedInv ==
  ASSUME FeedInv, CursorInv', RecvOk
  PROVE  FeedInv'
<1>1. /\ UNCHANGED <<seqVars, conn, lastSeen, replayVars, sent, unflushed>>
      /\ pc = "live" /\ pc' = "forward" /\ inbox # <<>>
      /\ note' = Head(inbox) /\ inbox' = Tail(inbox)
  BY DEF RecvOk
<1>2. /\ Mark' = Mark /\ rows' = rows /\ page' = page /\ CaughtUp /\ note = 0
  BY <1>1 DEF Mark, Replaying, CaughtUp, replayVars, seqVars, FeedInv, InboxSorted,
              Malformed
<1>3. /\ inbox \in Seq(0..lastSeq) /\ Len(inbox) \in Nat /\ Mark \in Nat
      /\ \A i \in 1..Len(inbox) : inbox[i] \in Nat
      /\ \A r \in rows : r \in Nat /\ r # 0
      /\ InboxSorted /\ QueueComplete /\ QueueUnbroken
  BY FeedTypes DEF FeedInv
<1>4. /\ Len(inbox) # 0 /\ Len(inbox') = Len(inbox) - 1 /\ note' = inbox[1]
      /\ 1 \in 1..Len(inbox)
      /\ \A i \in 1..Len(inbox') : inbox'[i] = inbox[i + 1] /\ i + 1 \in 1..Len(inbox)
      /\ Range(inbox) = {note'} \cup Range(inbox')
  BY <1>1, <1>3, RangeTail
<1>5. SentInOrder' /\ SentBelowMark' /\ NothingSkipped' /\ PageComplete' /\ FlushDue'
  BY <1>1, <1>2 DEF FeedInv, SentInOrder, SentBelowMark, NothingSkipped, PageComplete,
                    FlushDue, replayVars, Replaying
<1>6. InboxSorted'
  <2>1. ASSUME NEW i \in 1..Len(inbox'), NEW j \in 1..Len(inbox'), i < j,
               inbox'[i] # 0, inbox'[j] # 0
        PROVE  inbox'[i] < inbox'[j]
    <3>1. /\ i + 1 \in 1..Len(inbox) /\ j + 1 \in 1..Len(inbox)
          /\ inbox'[i] = inbox[i + 1] /\ inbox'[j] = inbox[j + 1]
      BY <1>4, <2>1
    <3>2. i + 1 < j + 1
      BY <2>1
    <3>3. inbox[i + 1] < inbox[j + 1]
      BY <1>3, <2>1, <3>1, <3>2 DEF InboxSorted, Malformed
    <3> QED
      BY <3>1, <3>3
  <2>2. ASSUME NEW i \in 1..Len(inbox'), inbox'[i] # 0, note' # 0
        PROVE  note' < inbox'[i]
    <3>1. i + 1 \in 1..Len(inbox) /\ inbox'[i] = inbox[i + 1]
      BY <1>4, <2>2
    <3>2. 1 < i + 1
      BY <2>2
    <3>3. inbox[1] < inbox[i + 1]
      BY <1>3, <1>4, <2>2, <3>1, <3>2 DEF InboxSorted, Malformed
    <3> QED
      BY <1>4, <3>1, <3>3
  <2> QED
    BY <1>1, <2>1, <2>2 DEF InboxSorted, Malformed
<1>7. \A r \in rows : Awaited(r)' => Awaited(r) /\ r # inbox[1]
  BY <1>2, <1>3, <1>4 DEF Awaited
<1>8. QueueComplete'
  BY <1>1, <1>2, <1>3, <1>4, <1>7 DEF QueueComplete
<1>9. QueueUnbroken'
  <2>1. ASSUME NEW r \in rows, NEW i \in 1..Len(inbox'), Awaited(r)', r < inbox'[i]
        PROVE  \E k \in 1..(i - 1) : inbox'[k] = r
    <3>1. PICK k \in 1..i : inbox[k] = r
      <4>1. i + 1 \in 1..Len(inbox) /\ r < inbox[i + 1] /\ Awaited(r)
        BY <1>4, <1>7, <2>1
      <4>2. \E k \in 1..((i + 1) - 1) : inbox[k] = r
        BY <1>2, <1>3, <4>1 DEF QueueUnbroken
      <4> QED
        BY <4>2
    <3>2. k # 1
      BY <1>7, <2>1, <3>1
    <3>3. k - 1 \in 1..(i - 1) /\ k - 1 \in 1..Len(inbox')
      BY <1>3, <1>4, <2>1, <3>1, <3>2
    <3>4. inbox'[k - 1] = r
      BY <1>4, <3>1, <3>3
    <3> QED
      BY <3>3, <3>4
  <2>2. ASSUME NEW r \in rows, Mark < r, r \notin page PROVE inbox[1] <= r
    <3> SUFFICES ASSUME r < inbox[1] PROVE FALSE
      BY <1>3, <1>4
    <3>1. Awaited(r)
      BY <1>2, <1>3, <2>2 DEF Awaited
    <3>2. \E k \in 1..(1 - 1) : inbox[k] = r
      BY <1>2, <1>3, <1>4, <3>1 DEF QueueUnbroken
    <3> QED
      BY <3>2
  <2> QED
    BY <1>2, <1>4, <2>1, <2>2 DEF QueueUnbroken
<1> QED
  BY <1>5, <1>6, <1>8, <1>9 DEF FeedInv

\* The notification is dropped because it stands for no row that is still to be
\* sent, or broadcast, and then it is the lowest such row.
LEMMA ForwardFeedInv ==
  ASSUME FeedInv, CursorInv', ForwardNothing \/ ForwardRow
  PROVE  FeedInv'
<1>1. /\ UNCHANGED <<seqVars, conn, inbox, replayVars>>
      /\ pc = "forward" /\ pc' = "live" /\ note' = 0
  BY DEF ForwardNothing, ForwardRow, Malformed
<1>2. /\ Mark = lastSeen /\ Mark' = lastSeen' /\ rows' = rows /\ page' = {} /\ page = {}
      /\ CaughtUp /\ CaughtUp' /\ ~unflushed
  BY <1>1 DEF Mark, Replaying, CaughtUp, replayVars, seqVars, FeedInv, CursorInv,
              ReplayAhead, FlushDue
<1>3. /\ sent \in Seq(1..lastSeq) /\ Len(sent) \in Nat /\ lastSeen \in Nat
      /\ note \in Nat /\ \A i \in 1..Len(inbox) : inbox[i] \in Nat
      /\ \A r \in rows \cup Range(sent) : r \in Nat /\ r # 0
      /\ InboxSorted /\ QueueComplete /\ QueueUnbroken
  BY FeedTypes DEF FeedInv
<1>4. InboxSorted' /\ PageComplete' /\ FlushDue'
  BY <1>1, <1>2, <1>3 DEF InboxSorted, PageComplete, FlushDue, Malformed,
                          ForwardNothing, ForwardRow
<1>5. CASE ForwardNothing
  <2>1. UNCHANGED <<lastSeen, sent>>
    BY <1>5 DEF ForwardNothing
  <2>2. SentInOrder' /\ SentBelowMark' /\ NothingSkipped'
    BY <1>2, <2>1 DEF FeedInv, SentInOrder, SentBelowMark, NothingSkipped
  <2>3. \A r \in rows : Mark < r => r # note
    BY <1>2, <1>3, <1>5 DEF ForwardNothing, Covered, Malformed
  <2>4. \A r \in rows : Awaited(r)' => Awaited(r)
    BY <1>1, <1>2, <2>1, <2>3 DEF Awaited
  <2>5. QueueComplete' /\ QueueUnbroken'
    BY <1>1, <1>2, <1>3, <2>1, <2>4 DEF QueueComplete, QueueUnbroken
  <2> QED
    BY <1>4, <2>2, <2>5 DEF FeedInv
<1>6. CASE ForwardRow
  <2>1. /\ note \in rows /\ lastSeen < note /\ lastSeen' = note
        /\ sent' = Append(sent, note)
    BY <1>3, <1>6 DEF ForwardRow, Covered
  <2>2. /\ Range(sent') = Range(sent) \cup {note} /\ Len(sent') = Len(sent) + 1
        /\ sent'[Len(sent) + 1] = note /\ \A i \in 1..Len(sent) : sent'[i] = sent[i]
    BY <1>3, <2>1, RangeAppend
  <2>3. \A r \in Range(sent) : r < note
    <3> SUFFICES ASSUME NEW r \in Range(sent) PROVE r < note
      OBVIOUS
    <3>1. r <= lastSeen
      BY <1>2 DEF FeedInv, SentBelowMark
    <3>2. r \in Nat /\ note \in Nat /\ lastSeen \in Nat
      BY <1>3
    <3>3. lastSeen < note
      BY <2>1
    <3> QED
      BY <3>1, <3>2, <3>3
  <2>4. SentInOrder'
    <3>1. \A i \in 1..Len(sent) : sent[i] \in Range(sent)
      BY <1>3, InRange
    <3> QED
      BY <1>3, <2>2, <2>3, <3>1 DEF FeedInv, SentInOrder
  <2>5. SentBelowMark'
    <3>1. \A r \in Range(sent') : r <= note
      BY <1>3, <2>2, <2>3
    <3> QED
      BY <1>2, <2>1, <3>1 DEF SentBelowMark
  <2>6. NothingSkipped'
    <3> SUFFICES ASSUME NEW r \in rows, r <= note PROVE r \in Range(sent) \cup {note}
      BY <1>2, <2>1, <2>2 DEF NothingSkipped
    <3>1. CASE r <= lastSeen
      BY <1>2, <3>1 DEF FeedInv, NothingSkipped
    <3>2. CASE lastSeen < r
      BY <1>2, <1>3, <3>2 DEF QueueUnbroken
    <3> QED
      BY <1>3, <3>1, <3>2
  <2>7. \A r \in rows : Awaited(r)' => Awaited(r)
    BY <1>1, <1>2, <1>3, <2>1 DEF Awaited
  <2>8. QueueComplete' /\ QueueUnbroken'
    BY <1>1, <1>2, <1>3, <2>7 DEF QueueComplete, QueueUnbroken
  <2> QED
    BY <1>4, <2>4, <2>5, <2>6, <2>8 DEF FeedInv
<1> QED
  BY <1>5, <1>6

\* The inductive step: no failure of a replay or of a fetch, no reconnect that
\* nobody hears of.
LEMMA NextFeedInv ==
  ASSUME Faults \subseteq Survivable
  PROVE  FeedInv /\ [Next]_vars => FeedInv'
<1> SUFFICES ASSUME FeedInv, [Next]_vars PROVE FeedInv'
  OBVIOUS
<1>1. CursorInv'
  BY NextCursorInv DEF FeedInv
<1>2. CASE UNCHANGED vars
  BY <1>1, <1>2, FewerRowsFeedInv DEF vars, seqVars
<1>3. CASE Writers
  <2>1. ASSUME NEW s \in Sessions, CommitAndNotify(s) PROVE FeedInv'
    BY <1>1, <2>1, CommitFeedInv
  <2>2. CASE UNCHANGED listenerVars /\ rows' \subseteq rows
    BY <1>1, <2>2, FewerRowsFeedInv
  <2>3. CASE /\ \/ \E s \in Sessions : Insert(s) \/ InsertConflict(s) \/ Rollback(s)
                \/ \E q \in rows : Delete(q)
             /\ UNCHANGED listenerVars
    BY <2>2, <2>3 DEF Insert, InsertConflict, Rollback, Delete
  <2> QED
    BY <1>3, <2>1, <2>3 DEF Writers
<1>4. CASE Cancel
  <2>1. UNCHANGED <<rows, pc, conn, inbox, note, lastSeen, replayVars, sent, unflushed>>
    BY <1>4 DEF Cancel, seqVars
  <2>2. UNCHANGED <<Mark, CaughtUp, Replaying>>
    BY <2>1 DEF Mark, CaughtUp, Replaying, replayVars
  <2>3. UNCHANGED <<SentInOrder, SentBelowMark, NothingSkipped, PageComplete, FlushDue>>
    BY <2>1, <2>2 DEF SentInOrder, SentBelowMark, NothingSkipped, PageComplete, FlushDue,
                      replayVars
  <2>4. UNCHANGED <<InboxSorted, QueueComplete, QueueUnbroken>>
    BY <2>1, <2>2 DEF InboxSorted, QueueComplete, QueueUnbroken, Awaited, replayVars
  <2> QED
    BY <1>1, <2>3, <2>4 DEF FeedInv
<1>5. ~ ResyncErr /\ ~ ForwardErr /\ ~ SilentReconnect
  BY DEF ResyncErr, ForwardErr, SilentReconnect, Fault, Survivable
<1> QED
  BY <1>1, <1>2, <1>3, <1>4, <1>5, NetworkFeedInv, LoopFeedInv, ResyncSelectFeedInv,
     ResyncRowFeedInv, ResyncEndFeedInv, RecvOkFeedInv, ForwardFeedInv DEF Next, Task

\* The account of every row between the table and the feed, as long as the replay
\* and the fetches succeed and recv() reports a lost connection.
THEOREM FeedInvHolds ==
  ASSUME Faults \subseteq Survivable
  PROVE  Spec => []FeedInv
<1>1. Init => FeedInv
  BY InitFeedInv
<1>2. FeedInv /\ [Next]_vars => FeedInv'
  BY NextFeedInv
<1> QED
  BY <1>1, <1>2, PTL DEF Spec

\* db.rs:273-277: nothing is skipped.  However often the connection is lost and
\* however many rows are committed, deleted or queued meanwhile, last_seen_seq has
\* never passed a row that is in the table and was not broadcast.
THEOREM NoGapHolds ==
  ASSUME Faults \subseteq Survivable
  PROVE  Spec => []NoGap
<1>1. FeedInv => NoGap
  <2> SUFFICES ASSUME FeedInv, NEW q \in rows, q <= lastSeen PROVE q \in Range(sent)
    BY DEF NoGap
  <2>1. q \in Nat /\ lastSeen \in Nat /\ cursor \in Nat
    BY FeedTypes DEF FeedInv
  <2>2. q <= Mark
    BY <2>1 DEF Mark, FeedInv, CursorInv, ReplayAhead
  <2> QED
    BY <2>2 DEF FeedInv, NothingSkipped
<1> QED
  BY <1>1, FeedInvHolds, PTL

\* ... and nothing is sent twice or out of order, although each replay overlaps
\* what is queued behind it.
THEOREM SentInOrderHolds ==
  ASSUME Faults \subseteq Survivable
  PROVE  Spec => []SentInOrder
<1>1. FeedInv => SentInOrder
  BY DEF FeedInv
<1> QED
  BY <1>1, FeedInvHolds, PTL

\* A row that has been broadcast was followed by an invalidation of the cache by
\* the time the task waits again.
THEOREM CacheFollowsFeedHolds ==
  ASSUME Faults \subseteq Survivable
  PROVE  Spec => []CacheFollowsFeed
<1>1. FeedInv => CacheFollowsFeed
  BY DEF FeedInv, FlushDue, Replaying, CacheFollowsFeed
<1> QED
  BY <1>1, FeedInvHolds, PTL

\* EventFeed's Range is this module's.
LEMMA FeedRange == Feed!Range(sent) = Range(sent)
  BY DEF Feed!Range, Range

\* A broadcast is a delivery of the abstract feed.
LEMMA SendIsDeliver ==
  ASSUME FeedInv, CursorInv', NEW q \in Range(feed), sent' = Append(sent, q),
         UNCHANGED <<rows, feed>>,
         \A d \in Range(sent) : d < q,
         \A r \in rows : r < q => r \in Range(sent)
  PROVE  Feed!Next
<1>1. Feed!Deliver(q)
  BY FeedRange DEF Feed!Deliver
<1> QED
  BY <1>1 DEF Feed!Next

\* The listener implements the feed that the documentation promises.
THEOREM FeedImplemented ==
  ASSUME Faults \subseteq Survivable
  PROVE  Spec => ImplementsFeed
<1>1. Init => Feed!Init
  <2> SUFFICES ASSUME Init PROVE Feed!Init
    OBVIOUS
  <2>1. rows \subseteq Range(feed)
    BY InitCursorInv DEF CursorInv, OnlyCommitted
  <2> QED
    BY <2>1 DEF Init, Feed!Init
<1>2. FeedInv /\ FeedInv' /\ [Next]_vars => [Feed!Next]_(Feed!feedVars)
  <2> SUFFICES ASSUME FeedInv, FeedInv', [Next]_vars
               PROVE  Feed!Next \/ UNCHANGED Feed!feedVars
    OBVIOUS
  <2>0. /\ CursorInv /\ CursorInv'
        /\ rows \cup page \cup Range(sent) \subseteq Range(feed)
        /\ \A q \in rows \cup page \cup Range(sent) : q \in Nat /\ q # 0
        /\ note \in Range(feed) \cup {0}
        /\ lastSeen \in Nat /\ cursor \in Nat
    BY FeedTypes DEF FeedInv, CursorInv, OnlyCommitted
  <2>1. CASE sent' = sent
    <3>1. /\ Range(feed) \subseteq Range(feed')
          /\ rows' \subseteq Range(feed')
          /\ \A r \in rows' \ rows : \A q \in Range(feed) : q < r
      BY <2>0, StepSeq, HistoryGrows DEF CursorInv
    <3>2. \A r \in rows' \ rows : r \notin Range(feed)
      <4>1. \A q \in Range(feed) : q \in Nat
        BY <2>0, InRange DEF CursorInv, IndInv, TypeOK
      <4> QED
        BY <3>1, <4>1
    <3>3. Feed!Write
      BY <2>0, <2>1, <3>1, <3>2, FeedRange DEF Feed!Write
    <3> QED
      BY <3>3 DEF Feed!Next
  <2>2. CASE ResyncRow
    <3>1. PICK q \in page : (\A r \in page : q <= r) /\ sent' = Append(sent, q)
      BY <2>2 DEF ResyncRow
    <3>2. UNCHANGED <<rows, feed>> /\ Mark = cursor /\ cursor < q
      BY <2>2 DEF ResyncRow, seqVars, Mark, Replaying, FeedInv, CursorInv, ReplayAhead
    <3>3. \A d \in Range(sent) : d < q
      BY <2>0, <3>2 DEF FeedInv, SentBelowMark
    <3>4. ASSUME NEW r \in rows, r < q PROVE r \in Range(sent)
      <4>1. CASE r <= cursor
        BY <3>2, <4>1 DEF FeedInv, NothingSkipped
      <4>2. CASE cursor < r
        <5>1. r \in page
          BY <3>4, <4>2 DEF FeedInv, PageComplete
        <5> QED
          BY <2>0, <3>1, <3>4, <5>1
      <4> QED
        BY <2>0, <4>1, <4>2
    <3> QED
      BY <2>0, <3>1, <3>2, <3>3, <3>4, SendIsDeliver
  <2>3. CASE ForwardRow
    <3>1. /\ note \in rows /\ sent' = Append(sent, note) /\ UNCHANGED <<rows, feed>>
          /\ lastSeen < note /\ Mark = lastSeen /\ page = {} /\ CaughtUp
      <4>1. note \in rows /\ sent' = Append(sent, note) /\ UNCHANGED <<rows, feed>>
        BY <2>3 DEF ForwardRow, seqVars
      <4>2. lastSeen < note
        BY <2>0, <2>3, <4>1 DEF ForwardRow, Covered
      <4>3. Mark = lastSeen /\ page = {} /\ CaughtUp
        BY <2>3 DEF ForwardRow, Mark, Replaying, CaughtUp, FeedInv, CursorInv, ReplayAhead
      <4> QED
        BY <4>1, <4>2, <4>3
    <3>2. \A d \in Range(sent) : d < note
      <4> SUFFICES ASSUME NEW d \in Range(sent) PROVE d < note
        OBVIOUS
      <4>1. d <= lastSeen
        BY <3>1 DEF FeedInv, SentBelowMark
      <4>2. d \in Nat /\ note \in Nat /\ lastSeen < note
        BY <2>0, <3>1
      <4> QED
        BY <2>0, <4>1, <4>2
    <3>3. ASSUME NEW r \in rows, r < note PROVE r \in Range(sent)
      <4>1. CASE r <= lastSeen
        BY <3>1, <4>1 DEF FeedInv, NothingSkipped
      <4>2. CASE lastSeen < r
        <5>1. note <= r
          BY <3>1, <4>2 DEF FeedInv, QueueUnbroken
        <5> QED
          BY <2>0, <3>1, <3>3, <5>1
      <4> QED
        BY <2>0, <4>1, <4>2
    <3> QED
      BY <2>0, <3>1, <3>2, <3>3, SendIsDeliver
  <2>4. ~ ResyncRow /\ ~ ForwardRow => sent' = sent
    BY DEF vars, Next, Writers, listenerVars, CommitAndNotify, LoseConnection,
           NotifyMalformed, Cancel, Task, LoopTop, ConnectOk, ConnectErr, SleepOver,
           Cancelled, ResyncSelect, ResyncMore, ResyncOk, ResyncErr, RecvOk, RecvErr,
           SilentReconnect, ForwardNothing, ForwardErr
  <2> QED
    BY <2>1, <2>2, <2>3, <2>4
<1> QED
  BY <1>1, <1>2, FeedInvHolds, PTL DEF Spec, ImplementsFeed, Feed!Spec
=============================================================================
