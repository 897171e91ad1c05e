---------------------------- MODULE BatchService ----------------------------
(***************************************************************************)
(* What a microbatched stage promises its synchronous callers, without     *)
(* queues, workers or batches: a call that was accepted is answered once,  *)
(* with the result of that very call or with an error; the stage closes    *)
(* only when it owes nobody an answer, and accepts nothing afterwards.     *)
(***************************************************************************)
EXTENDS Naturals

CONSTANTS Callers,   \* threads that call run()
          Epochs     \* call numbers are counted modulo Epochs

VARIABLES status,    \* status[c]: where the current call of c stands
          call,      \* call[c]: number of the current (or last) call of c
          answer,    \* answer[c]: what the current call of c was told
          closed     \* the stage has been shut down

vars == <<status, call, answer, closed>>

Current(c) == <<c, call[c]>>

Init ==
  /\ status = [c \in Callers |-> "idle"]
  /\ call = [c \in Callers |-> 0]
  /\ answer = [c \in Callers |-> [kind |-> "pending", req |-> <<c, 0>>]]
  /\ closed = FALSE

Offer(c) ==
  /\ status[c] = "idle"
  /\ status' = [status EXCEPT ![c] = "offered"]
  /\ call' = [call EXCEPT ![c] = (@ + 1) % Epochs]
  /\ answer' = [answer EXCEPT ![c] = [kind |-> "pending", req |-> Current(c)']]
  /\ UNCHANGED closed

\* A caller may bring several calls in one go.
Accept(some) ==
  /\ \A c \in some : status[c] = "offered"
  /\ ~closed
  /\ status' = [c \in Callers |-> IF c \in some THEN "accepted" ELSE status[c]]
  /\ UNCHANGED <<call, answer, closed>>

Refuse(c) ==
  /\ status[c] = "offered"
  /\ status' = [status EXCEPT ![c] = "answered"]
  /\ answer' = [answer EXCEPT ![c] = [kind |-> "error", req |-> Current(c)]]
  /\ UNCHANGED <<call, closed>>

AnswerCall(c) ==
  /\ status[c] = "accepted"
  /\ status' = [status EXCEPT ![c] = "answered"]
  /\ \E kind \in {"value", "error"} :
       answer' = [answer EXCEPT ![c] = [kind |-> kind, req |-> Current(c)]]
  /\ UNCHANGED <<call, closed>>

Return(c) ==
  /\ status[c] = "answered"
  /\ status' = [status EXCEPT ![c] = "idle"]
  /\ answer' = [answer EXCEPT ![c] = [kind |-> "pending", req |-> Current(c)]]
  /\ UNCHANGED <<call, closed>>

Close ==
  /\ \A c \in Callers : status[c] # "accepted"
  /\ closed' = TRUE
  /\ UNCHANGED <<status, call, answer>>

Next ==
  \/ \E c \in Callers :
       Offer(c) \/ Refuse(c) \/ AnswerCall(c) \/ Return(c)
  \/ \E some \in SUBSET Callers : Accept(some)
  \/ Close

Spec == Init /\ [][Next]_vars
=============================================================================
