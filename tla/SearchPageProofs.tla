-------------------------- MODULE SearchPageProofs --------------------------
(***************************************************************************)
(* The search page comes to rest on the answer to the text in its box, for *)
(* any texts, any number of edits and submits and any order in which the   *)
(* searches end.                                                           *)
(***************************************************************************)
EXTENDS SearchPage, SequenceTheorems, TLAPS

Trimmed == {Trim[t] : t \in Texts}
Flight == [text : Trimmed \ {Blank}, running : BOOLEAN]

\* last_dispatched is the text of the newest search.
LastIsNewest ==
  lastDispatched = IF flights = <<>> THEN Blank ELSE flights[Len(flights)].text

\* When no timer runs, the text in the box has been dispatched, or is blank.
BoxDispatched == armed \/ Trim[query] \in {Blank, lastDispatched}

\* The action's value is of the newest search that has ended, unless it is of
\* one that was overtaken.
ValueIsNewestEnded ==
  ~overtaken =>
    /\ value # 0 => ~flights[value].running
    /\ \A j \in 1..Len(flights) : j > value => flights[j].running

PageInv ==
  /\ TypeOK
  /\ LastIsNewest
  /\ BoxDispatched
  /\ ValueIsNewestEnded

-----------------------------------------------------------------------------

\* An empty box, and nothing searched.
LEMMA InitPageInv == Init => PageInv
<1> SUFFICES ASSUME Init PROVE PageInv
  OBVIOUS
<1>1. TypeOK
  <2>1. flights \in Seq([text : {Trim[t] : t \in Texts} \ {Blank}, running : BOOLEAN])
    BY DEF Init
  <2>2. Blank \in {Trim[t] : t \in Texts}
    BY SearchPageAssumption
  <2>3. value \in 0..Len(flights) /\ edits \in 0..MaxEdits /\ failures \in 0..MaxFailures
    BY SearchPageAssumption DEF Init
  <2> QED
    BY <2>1, <2>2, <2>3, SearchPageAssumption DEF Init, TypeOK
<1>2. LastIsNewest /\ BoxDispatched /\ ValueIsNewestEnded
  BY SearchPageAssumption DEF Init, LastIsNewest, BoxDispatched, ValueIsNewestEnded
<1> QED
  BY <1>1, <1>2 DEF PageInv

\* An edit arms the timer and changes no search.
LEMMA EditKeepsInv == ASSUME PageInv, NEW t \in Texts, Edit(t) PROVE PageInv'
<1> USE DEF PageInv, Edit
<1>1. TypeOK'
  BY SearchPageAssumption DEF TypeOK
<1>2. LastIsNewest' /\ BoxDispatched' /\ ValueIsNewestEnded'
  BY DEF LastIsNewest, BoxDispatched, ValueIsNewestEnded
<1> QED
  BY <1>1, <1>2

\* dispatch_search: the text of the box is the newest search, or blank.
LEMMA DispatchKeepsInv ==
  ASSUME PageInv, Dispatch(query), armed' \in BOOLEAN,
         UNCHANGED <<query, value, outcome, overtaken, edits, failures>>
  PROVE  PageInv'
<1>1. CASE Trim[query] \in {Blank, lastDispatched}
  <2>1. UNCHANGED <<lastDispatched, flights>>
    BY <1>1 DEF Dispatch
  <2>2. TypeOK'
    BY <2>1 DEF PageInv, TypeOK
  <2>3. LastIsNewest' /\ BoxDispatched' /\ ValueIsNewestEnded'
    BY <1>1, <2>1 DEF PageInv, LastIsNewest, BoxDispatched, ValueIsNewestEnded
  <2> QED
    BY <2>2, <2>3 DEF PageInv
<1>2. CASE Trim[query] \notin {Blank, lastDispatched}
  <2> DEFINE f == [text |-> Trim[query], running |-> TRUE]
  <2>1. lastDispatched' = Trim[query] /\ flights' = Append(flights, f)
    BY <1>2 DEF Dispatch
  <2>2. /\ query \in Texts /\ flights \in Seq(Flight) /\ value \in 0..Len(flights)
        /\ f \in Flight
    BY <1>2 DEF PageInv, TypeOK, Flight, Trimmed
  <2>3. /\ flights' \in Seq(Flight) /\ Len(flights') = Len(flights) + 1
        /\ Len(flights) \in Nat
        /\ \A j \in 1..Len(flights) : flights'[j] = flights[j]
        /\ flights'[Len(flights) + 1] = f
    BY <2>1, <2>2, AppendProperties
  <2>4. TypeOK'
    <3>1. lastDispatched' \in {Trim[t] : t \in Texts}
      BY <2>1, <2>2
    <3>2. value' \in 0..Len(flights')
      BY <2>2, <2>3
    <3> QED
      BY <2>3, <3>1, <3>2 DEF PageInv, TypeOK, Flight, Trimmed
  <2>5. LastIsNewest'
    <3>1. flights' # <<>> /\ f.text = Trim[query]
      BY <2>2, <2>3
    <3> QED
      BY <2>1, <2>3, <3>1 DEF LastIsNewest
  <2>6. BoxDispatched'
    BY <2>1 DEF BoxDispatched
  <2>7. ValueIsNewestEnded'
    <3> SUFFICES ASSUME ~overtaken
                 PROVE  /\ value # 0 => ~flights'[value].running
                        /\ \A j \in 1..Len(flights') : j > value => flights'[j].running
      BY DEF ValueIsNewestEnded
    <3>1. value # 0 => ~flights'[value].running
      BY <2>2, <2>3 DEF PageInv, ValueIsNewestEnded
    <3>2. ASSUME NEW j \in 1..Len(flights'), j > value PROVE flights'[j].running
      <4>1. CASE j \in 1..Len(flights)
        BY <2>3, <3>2, <4>1 DEF PageInv, ValueIsNewestEnded
      <4>2. CASE j = Len(flights) + 1
        BY <2>3, <4>2
      <4> QED
        BY <2>3, <4>1, <4>2
    <3> QED
      BY <3>1, <3>2
  <2> QED
    BY <2>4, <2>5, <2>6, <2>7 DEF PageInv
<1> QED
  BY <1>1, <1>2

\* A search ends, in any order.
LEMMA EndKeepsInv ==
  ASSUME PageInv, NEW i \in 1..Len(flights), End(i)
  PROVE  PageInv'
<1>1. /\ flights \in Seq(Flight) /\ Len(flights) \in Nat /\ value \in 0..Len(flights)
      /\ \A j \in 1..Len(flights) : flights[j] \in Flight
      /\ overtaken \in BOOLEAN /\ failures \in 0..MaxFailures
  <2>1. flights \in Seq(Flight)
    BY DEF PageInv, TypeOK, Flight, Trimmed
  <2> QED
    BY <2>1, ElementOfSeq, LenProperties DEF PageInv, TypeOK
<1>2. /\ flights[i].running
      /\ flights' = [flights EXCEPT ![i].running = FALSE]
      /\ UNCHANGED <<query, armed, lastDispatched, edits>>
      /\ \/ value' = i /\ Result(i) /\ overtaken' = ~Newest(i)
         \/ ~Newest(i) /\ UNCHANGED <<value, outcome, overtaken, failures>>
  BY DEF End
<1>3. /\ flights' \in Seq(Flight) /\ Len(flights') = Len(flights)
      /\ \A j \in 1..Len(flights) : flights'[j].text = flights[j].text
      /\ \A j \in 1..Len(flights) : j # i => flights'[j] = flights[j]
      /\ ~flights'[i].running
  <2> DEFINE g == [flights[i] EXCEPT !.running = FALSE]
  <2>1. g \in Flight /\ g.text = flights[i].text /\ ~g.running
    BY <1>1 DEF Flight
  <2>2. flights' = [flights EXCEPT ![i] = g]
    BY <1>2
  <2> HIDE DEF g
  <2>3. flights' \in Seq(Flight) /\ Len(flights') = Len(flights)
    BY <1>1, <2>1, <2>2, ExceptSeq
  <2>4. \A j \in 1..Len(flights) : flights'[j] = IF j = i THEN g ELSE flights[j]
    BY <1>1, <2>1, <2>2, ExceptSeq
  <2> QED
    BY <2>1, <2>3, <2>4
<1>4. TypeOK'
  <2>1. value' \in 0..Len(flights')
    BY <1>1, <1>2, <1>3
  <2>2. overtaken' \in BOOLEAN
    BY <1>1, <1>2
  <2>3. failures' \in 0..MaxFailures
    BY <1>1, <1>2, SearchPageAssumption DEF Result
  <2>4. outcome' \in {"none", "ok", "error"}
    BY <1>2 DEF Result, PageInv, TypeOK
  <2> QED
    BY <1>2, <1>3, <2>1, <2>2, <2>3, <2>4 DEF PageInv, TypeOK, Flight, Trimmed
<1>5. LastIsNewest'
  <2>1. flights # <<>> /\ flights' # <<>>
    BY <1>1, <1>3
  <2> QED
    BY <1>1, <1>2, <1>3, <2>1 DEF PageInv, LastIsNewest
<1>6. BoxDispatched'
  BY <1>2 DEF PageInv, BoxDispatched
<1>7. ValueIsNewestEnded'
  <2>1. CASE Newest(i)
    <3>1. value' = i /\ \A j \in (i + 1)..Len(flights) : flights[j].running
      BY <1>2, <2>1 DEF Newest
    <3>2. \A j \in 1..Len(flights) : j > i => flights'[j].running
      BY <1>1, <1>3, <3>1
    <3> QED
      BY <1>3, <3>1, <3>2 DEF ValueIsNewestEnded
  <2>2. CASE ~Newest(i)
    <3>1. CASE overtaken'
      BY <3>1 DEF ValueIsNewestEnded
    <3>2. CASE ~overtaken'
      <4>1. ~overtaken /\ value' = value
        <5>1. overtaken' # ~Newest(i)
          BY <2>2, <3>2
        <5>2. UNCHANGED <<value, overtaken>>
          BY <1>2, <5>1
        <5> QED
          BY <3>2, <5>2
      <4>2. PICK j \in (i + 1)..Len(flights) : ~flights[j].running
        BY <2>2 DEF Newest
      <4>3. value > i
        BY <1>1, <4>1, <4>2 DEF PageInv, ValueIsNewestEnded
      <4>4. \A k \in 1..Len(flights) : k > value => flights'[k].running
        BY <1>1, <1>3, <4>1, <4>3 DEF PageInv, ValueIsNewestEnded
      <4>5. ~flights'[value].running
        BY <1>1, <1>3, <4>1, <4>3 DEF PageInv, ValueIsNewestEnded
      <4> QED
        BY <1>3, <4>1, <4>4, <4>5 DEF ValueIsNewestEnded
    <3> QED
      BY <3>1, <3>2
  <2> QED
    BY <2>1, <2>2
<1> QED
  BY <1>4, <1>5, <1>6, <1>7 DEF PageInv

\* The inductive step, one case per action.
LEMMA NextPageInv == PageInv /\ [Next]_vars => PageInv'
<1> SUFFICES ASSUME PageInv, [Next]_vars PROVE PageInv'
  OBVIOUS
<1>1. ASSUME NEW t \in Texts, Edit(t) PROVE PageInv'
  BY <1>1, EditKeepsInv
<1>2. CASE Debounce
  <2>1. armed' \in BOOLEAN
    BY <1>2 DEF Debounce
  <2> QED
    BY <1>2, <2>1, DispatchKeepsInv DEF Debounce
<1>3. CASE Submit
  <2>1. armed' \in BOOLEAN
    BY <1>3 DEF Submit, PageInv, TypeOK
  <2> QED
    BY <1>3, <2>1, DispatchKeepsInv DEF Submit
<1>4. ASSUME NEW i \in 1..Len(flights), End(i) PROVE PageInv'
  BY <1>4, EndKeepsInv
<1>5. CASE UNCHANGED vars
  <2>1. TypeOK'
    BY <1>5 DEF vars, PageInv, TypeOK
  <2>2. LastIsNewest' /\ BoxDispatched' /\ ValueIsNewestEnded'
    BY <1>5 DEF vars, PageInv, LastIsNewest, BoxDispatched, ValueIsNewestEnded
  <2> QED
    BY <2>1, <2>2 DEF PageInv
<1> QED
  BY <1>1, <1>2, <1>3, <1>4, <1>5 DEF Next

\* The inductive invariant of the box, its timer and the action.
THEOREM PageInvHolds == Spec => []PageInv
  BY InitPageInv, NextPageInv, PTL DEF Spec

\* app.rs, leptos-patterns.md:58-59: at rest the page shows the answer to the
\* text in the box, or nothing if that is blank, except for an answer that came
\* after a newer one and still replaced it.
THEOREM ShowsTheQueryHolds == Spec => []ShowsTheQuery
<1>1. PageInv => ShowsTheQuery
  <2> SUFFICES ASSUME PageInv, Quiet, ~overtaken, HasQuery
               PROVE  Shown = Trim[query]
    BY DEF ShowsTheQuery, Shown
  <2>1. Trim[query] = lastDispatched /\ lastDispatched # Blank
    BY DEF Quiet, HasQuery, PageInv, BoxDispatched
  <2>2. flights # <<>> /\ flights[Len(flights)].text = Trim[query]
    BY <2>1 DEF PageInv, LastIsNewest
  <2>3. Len(flights) \in Nat /\ Len(flights) # 0 /\ value \in 0..Len(flights)
    <3>1. flights \in Seq(Flight)
      BY DEF PageInv, TypeOK, Flight, Trimmed
    <3> QED
      BY <2>2, <3>1, EmptySeq, LenProperties DEF PageInv, TypeOK
  <2>4. value = Len(flights)
    BY <2>3 DEF PageInv, ValueIsNewestEnded, Quiet, Pending
  <2> QED
    BY <2>2, <2>3, <2>4 DEF Shown
<1> QED
  BY <1>1, PageInvHolds, PTL
=============================================================================
