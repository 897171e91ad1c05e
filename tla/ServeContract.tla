---------------------------- MODULE ServeContract ----------------------------
(***************************************************************************)
(* What SalmEngine::serve promises the source of its requests, and what it *)
(* asks of it (src/src/speechlm/salm_engine.h): requests are known by      *)
(* their position in pull order, each is delivered once, a posted ticket   *)
(* is noticed at a step boundary and reaches only a request that is still  *)
(* owed, and serve returns when it owes nothing.                           *)
(***************************************************************************)
EXTENDS Naturals

CONSTANT Tickets   \* the numbers tickets are taken from

VARIABLES running,   \* a serve() call is under way
          issued,    \* tickets given out by this call
          owed,      \* tickets pulled and not delivered
          posted,    \* tickets posted by cancel()
          marked     \* owed tickets whose cancellation was noticed

contract == <<running, issued, owed, posted, marked>>

Init == running = FALSE /\ issued = 0 /\ owed = {} /\ posted = {} /\ marked = {}

Start ==
  /\ ~running
  /\ running' = TRUE
  /\ issued' = 0 /\ owed' = {} /\ posted' = {} /\ marked' = {}

Pull(n) ==
  /\ running
  /\ owed' = owed \cup issued .. issued + n - 1
  /\ issued' = issued + n
  /\ UNCHANGED <<running, posted, marked>>

\* By any thread, at any time; the ticket may be unknown or delivered.
Cancel(t) ==
  /\ posted' = posted \cup {t}
  /\ UNCHANGED <<running, issued, owed, marked>>

Notice ==
  /\ running
  /\ marked' = marked \cup (posted \cap owed)
  /\ posted' = {}
  /\ UNCHANGED <<running, issued, owed>>

Deliver(t, kind) ==
  /\ running
  /\ t \in owed
  /\ (kind = "cancelled") = (t \in marked)
  /\ owed' = owed \ {t}
  /\ marked' = marked \ {t}
  /\ UNCHANGED <<running, issued, posted>>

Return ==
  /\ running
  /\ owed = {}
  /\ running' = FALSE /\ issued' = 0
  /\ UNCHANGED <<owed, posted, marked>>

\* serve() throws; what it owed is the caller's to answer.
Fail ==
  /\ running
  /\ running' = FALSE
  /\ issued' = 0 /\ owed' = {} /\ marked' = {}
  /\ UNCHANGED posted

Next ==
  \/ Start \/ Notice \/ Return \/ Fail
  \/ \E n \in Tickets : Pull(n) \/ Cancel(n)
  \/ \E t \in owed, kind \in {"value", "error", "cancelled"} : Deliver(t, kind)

Spec == Init /\ [][Next]_contract
=============================================================================
