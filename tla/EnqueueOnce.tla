---------------------------- MODULE EnqueueOnce ----------------------------
(***************************************************************************)
(* What the enqueue path promises its callers: a validation request id is  *)
(* bound once, to the first request that is stored under it, and every     *)
(* later answer is judged against that request: accepted if it asks for    *)
(* the same, refused if not (work.ErrValidationRequestConflict).           *)
(***************************************************************************)
CONSTANTS
  Callers,
  Ids,         \* validation request ids
  Bodies,      \* what a request may ask for
  Nothing,     \* no request is bound, no answer is given
  Same(_, _)   \* two bodies ask for the same

VARIABLES
  bound,   \* bound[id]: the body id stands for
  answer   \* answer[c]: the answer caller c holds

Init ==
  /\ bound = [id \in Ids |-> Nothing]
  /\ answer = [c \in Callers |-> Nothing]

Bind(id, body) ==
  /\ bound[id] = Nothing
  /\ bound' = [bound EXCEPT ![id] = body]
  /\ UNCHANGED answer

Answer(c, id, body) ==
  /\ answer[c] = Nothing
  /\ bound[id] # Nothing
  /\ answer' = [answer EXCEPT ![c] = [id |-> id, body |-> body, accepted |-> Same(bound[id], body)]]
  /\ UNCHANGED bound

AskAgain(c) ==
  /\ answer[c] # Nothing
  /\ answer' = [answer EXCEPT ![c] = Nothing]
  /\ UNCHANGED bound

Next ==
  \/ \E id \in Ids, body \in Bodies : Bind(id, body) \/ \E c \in Callers : Answer(c, id, body)
  \/ \E c \in Callers : AskAgain(c)

Spec == Init /\ [][Next]_<<bound, answer>>
=============================================================================
