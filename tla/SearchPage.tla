----------------------------- MODULE SearchPage -----------------------------
(***************************************************************************)
(* SearchPage in the browser: a text box, a debounced watcher and a submit *)
(* button over one Leptos action.                                          *)
(*                                                                         *)
(* A text is an element of Texts; Trim maps it to what str::trim leaves.   *)
(* The Action belongs to Leptos: it runs every dispatch to its end and     *)
(* keeps one value.  Whether a search that ends after a newer one has      *)
(* ended still replaces that value is left open.                           *)
(***************************************************************************)
EXTENDS Integers, Sequences

CONSTANTS
  Texts,        \* what the box can hold
  Blank,        \* the empty text
  Trim,         \* a function on Texts
  TooLong,      \* the trimmed texts of more than 1024 characters
  MaxEdits,     \* bound: edits per behaviour
  MaxFailures   \* bound: searches that fail

ASSUME SearchPageAssumption ==
  /\ Blank \in Texts
  /\ Trim \in [Texts -> Texts]
  /\ Trim[Blank] = Blank
  /\ \A t \in Texts : Trim[Trim[t]] = Trim[t]
  /\ TooLong \subseteq Texts
  /\ MaxEdits \in Nat /\ MaxFailures \in Nat

VARIABLES
  query,          \* the text in the box
  armed,          \* the 300 ms timer of watch_debounced is running
  lastDispatched,
  flights,        \* every dispatched search: its text and whether it runs
  value,          \* the action's value: the number of the search, 0 if none
  outcome,        \* how that search ended
  overtaken,      \* history: the value is of a search that ended after a newer one
  edits, failures

vars == <<query, armed, lastDispatched, flights, value, outcome, overtaken, edits,
          failures>>

TypeOK ==
  /\ query \in Texts
  /\ lastDispatched \in {Trim[t] : t \in Texts}
  /\ armed \in BOOLEAN /\ overtaken \in BOOLEAN
  /\ flights \in Seq([text : {Trim[t] : t \in Texts} \ {Blank}, running : BOOLEAN])
  /\ value \in 0..Len(flights)
  /\ outcome \in {"none", "ok", "error"}
  /\ edits \in 0..MaxEdits /\ failures \in 0..MaxFailures

Init ==
  /\ query = Blank /\ lastDispatched = Blank
  /\ armed = FALSE
  /\ flights = <<>>
  /\ value = 0 /\ outcome = "none"
  /\ overtaken = FALSE
  /\ edits = 0 /\ failures = 0

Pending == \E i \in 1..Len(flights) : flights[i].running

\* Every change of the box restarts the timer.
Edit(t) ==
  /\ edits < MaxEdits
  /\ t # query
  /\ query' = t
  /\ armed' = TRUE
  /\ edits' = edits + 1
  /\ UNCHANGED <<lastDispatched, flights, value, outcome, overtaken, failures>>

\* Mutant of Dispatch: no search while another is pending.
DispatchOneAtATime(text) ==
  IF Trim[text] \in {Blank, lastDispatched} \/ Pending
  THEN UNCHANGED <<lastDispatched, flights>>
  ELSE /\ lastDispatched' = Trim[text]
       /\ flights' = Append(flights, [text |-> Trim[text], running |-> TRUE])

\* dispatch_search, for the watcher and for the form.
Dispatch(text) ==
  IF Trim[text] \in {Blank, lastDispatched}
  THEN UNCHANGED <<lastDispatched, flights>>
  ELSE /\ lastDispatched' = Trim[text]
       /\ flights' = Append(flights, [text |-> Trim[text], running |-> TRUE])

\* The timer fires with the text of the last change.
Debounce ==
  /\ armed
  /\ armed' = FALSE
  /\ Dispatch(query)
  /\ UNCHANGED <<query, value, outcome, overtaken, edits, failures>>

\* on:submit does not stop the timer.
Submit ==
  /\ Dispatch(query)
  /\ UNCHANGED <<query, armed, value, outcome, overtaken, edits, failures>>

\* The server function refuses a text that is too long; the database, the
\* network or the lookup of the application state may fail.
Result(i) ==
  \/ flights[i].text \notin TooLong /\ outcome' = "ok" /\ UNCHANGED failures
  \/ flights[i].text \in TooLong /\ outcome' = "error" /\ UNCHANGED failures
  \/ /\ failures < MaxFailures
     /\ outcome' = "error"
     /\ failures' = failures + 1

\* No search that was dispatched later has ended.
Newest(i) == \A j \in (i + 1)..Len(flights) : flights[j].running

\* A search ends.  One that a newer search has overtaken may be ignored.
End(i) ==
  /\ flights[i].running
  /\ flights' = [flights EXCEPT ![i].running = FALSE]
  /\ \/ /\ value' = i
        /\ Result(i)
        /\ overtaken' = ~Newest(i)
     \/ ~Newest(i) /\ UNCHANGED <<value, outcome, overtaken, failures>>
  /\ UNCHANGED <<query, armed, lastDispatched, edits>>

Next ==
  \/ \E t \in Texts : Edit(t)
  \/ Debounce \/ Submit
  \/ \E i \in 1..Len(flights) : End(i)

Spec == Init /\ [][Next]_vars

-----------------------------------------------------------------------------

HasQuery == Trim[query] # Blank

\* What the page shows below the form: the text whose results, or whose error,
\* are on display.
Shown == IF HasQuery /\ value # 0 THEN flights[value].text ELSE Blank

Quiet == ~armed /\ ~Pending

\* leptos-patterns.md:58-59: when the page has come to rest it shows the answer
\* to the text in the box, and to no older one, whatever was typed, cleared,
\* submitted and answered in between.  The only exception is a search that was
\* overtaken by a newer one and still replaced its answer.
ShowsTheQuery == Quiet /\ ~overtaken => Shown = IF HasQuery THEN Trim[query] ELSE Blank

=============================================================================
