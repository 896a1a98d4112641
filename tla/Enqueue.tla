------------------------------ MODULE Enqueue ------------------------------
(***************************************************************************)
(* The enqueue path: EnqueueValidationWork (pkg/ingress/server.go) and     *)
(* CreateJob (pkg/work/sqlite/store.go), with callers that race, repeat    *)
(* themselves after a lost answer and reuse ids, and a process that dies.  *)
(*                                                                         *)
(* CreateJob is up to three statements; each is one step, since other      *)
(* handlers may use the connection in between.  A random job id is the     *)
(* number of the row.  A body is what identifies a request: its subject    *)
(* is the seven fields from artifact kind to CAS hash.  A text is the      *)
(* sequence of its characters, by rank, since the encoding of the fields   *)
(* that are hashed is what the properties are about.                       *)
(***************************************************************************)
EXTENDS Integers, SequencesExt

CONSTANTS
  Calls,      \* concurrent callers
  Ids,        \* texts of validation_request_id
  Bodies,     \* [subject, actions, fixtures]
  Requests,   \* pairs of an id and a body
  Nothing,    \* no job
  FaultBound  \* model bound: store errors and crashes

Text  == Seq(Nat)
Nul   == 0
Space == 1   \* every white space
Comma == 2

ASSUME EnqueueConstants ==
  /\ \A body \in Bodies :
       /\ body.subject \in Seq(Text) /\ Len(body.subject) = 7
       /\ body.actions \in Seq(Text) /\ body.fixtures \in Text
  /\ Requests \subseteq Ids \X Bodies
  /\ Nothing \notin Bodies \cup [id : Ids, body : Bodies, accepted : BOOLEAN]
  /\ FaultBound \in Nat

VARIABLES
  rows,     \* rows[n]: the id, body and fingerprint of job n
  call,     \* call[c]: the handler serving c, or c waiting to send
  faults    \* store errors and crashes so far

enqueueVars == <<rows, call, faults>>

NoCall == [at |-> "idle", id |-> Nothing, body |-> Nothing, job |-> 0]

EnqueueInit ==
  /\ rows = << >>
  /\ call = [c \in Calls |-> NoCall]
  /\ faults = 0

----------------------------------------------------------------------------
Blank(text) == \A i \in DOMAIN text : text[i] = Space

\* The subject's artifact kind, image repository, tool name and version.
Required == {1, 2, 5, 6}

\* validate: blank required fields, no actions and blank actions are rejected.
Valid(id, body) ==
  /\ ~Blank(id) /\ \A i \in Required : ~Blank(body.subject[i])
  /\ body.actions # << >> /\ \A i \in DOMAIN body.actions : ~Blank(body.actions[i])

\* String order: a text is before those it begins.
TextBefore(a, b) ==
  \E n \in 0..Len(a) :
    /\ n <= Len(b) /\ \A i \in 1..n : a[i] = b[i]
    /\ n < Len(b) /\ (n < Len(a) => a[n + 1] < b[n + 1])

\* sort.Strings: the actions, each as often as before, in string order.
Reordered(actions) == {[i \in DOMAIN actions |-> actions[p[i]]] : p \in Bijection(DOMAIN actions, DOMAIN actions)}

InOrder(actions) ==
  \A i, k \in DOMAIN actions : i < k => actions[i] = actions[k] \/ TextBefore(actions[i], actions[k])

Sorted(actions) == CHOOSE s \in Reordered(actions) : InOrder(s)

\* What h.Write is given: the fields one after the other, a NUL after each.
Written(fields) == FlattenSeq([i \in DOMAIN fields |-> Append(fields[i], Nul)])

\* The fingerprint of the actions joined by commas into one field.
FingerprintJoined(body) ==
  LET s == Sorted(body.actions)
      joined == FlattenSeq([i \in DOMAIN s |-> IF i = 1 THEN s[i] ELSE <<Comma>> \o s[i]])
  IN  Written(Append(Append(body.subject, joined), body.fixtures))

\* The fingerprint of the actions in the order given.
FingerprintInOrder(body) == Written(Append(body.subject \o body.actions, body.fixtures))

\* requestFingerprint, as the characters it hashes; SHA-256 tells them apart.
RequestFingerprint(body) == Written(Append(body.subject \o Sorted(body.actions), body.fixtures))

Fingerprint == [body \in Bodies |-> RequestFingerprint(body)]

----------------------------------------------------------------------------
Goto(c, at) == call' = [call EXCEPT ![c].at = at]

Settled == {"idle", "invalid", "conflict", "accepted"}

\* A caller sends a request, under an id that may be in use.
Send(c, id, body) ==
  /\ call[c].at \in Settled
  /\ call' = [call EXCEPT ![c] = [at |-> "received", id |-> id, body |-> body, job |-> 0]]
  /\ UNCHANGED <<rows, faults>>

\* A caller left without a definite answer repeats its request.
Resend(c) ==
  /\ call[c].at = "unanswered"
  /\ Goto(c, "received")
  /\ UNCHANGED <<rows, faults>>

\* EnqueueValidationWork up to CreateJob.
Receive(c) ==
  /\ call[c].at = "received"
  /\ Goto(c, IF Valid(call[c].id, call[c].body) THEN "insert" ELSE "invalid")
  /\ UNCHANGED <<rows, faults>>

Owners(id) == {n \in DOMAIN rows : rows[n].id = id}

Row(c) == [id |-> call[c].id, body |-> call[c].body, fingerprint |-> Fingerprint[call[c].body]]

\* An INSERT without the unique index behind it.
InsertAlways(c) ==
  /\ call[c].at = "insert"
  /\ rows' = Append(rows, Row(c))
  /\ call' = [call EXCEPT ![c].at = "read", ![c].job = Len(rows) + 1]
  /\ UNCHANGED faults

\* An INSERT whose conflict is an error.
InsertOrFail(c) ==
  /\ call[c].at = "insert"
  /\ IF Owners(call[c].id) = {}
       THEN /\ rows' = Append(rows, Row(c))
            /\ call' = [call EXCEPT ![c].at = "read", ![c].job = Len(rows) + 1]
       ELSE Goto(c, "unanswered") /\ UNCHANGED rows
  /\ UNCHANGED faults

\* A CreateJob that takes its INSERT for done without asking RowsAffected.
InsertUnchecked(c) ==
  /\ call[c].at = "insert"
  /\ rows' = IF Owners(call[c].id) = {} THEN Append(rows, Row(c)) ELSE rows
  /\ call' = [call EXCEPT ![c].at = "read", ![c].job = Len(rows) + 1]
  /\ UNCHANGED faults

\* INSERT ... ON CONFLICT(validation_request_id) DO NOTHING.
Insert(c) ==
  /\ call[c].at = "insert"
  /\ IF Owners(call[c].id) = {}
       THEN /\ rows' = Append(rows, Row(c))
            /\ call' = [call EXCEPT ![c].at = "read", ![c].job = Len(rows) + 1]
       ELSE Goto(c, "lookup") /\ UNCHANGED rows
  /\ UNCHANGED faults

\* jobByValidationRequestID, and the comparison of the fingerprints.
Lookup(c) ==
  /\ call[c].at = "lookup"
  /\ \E n \in Owners(call[c].id) :
       IF rows[n].fingerprint = Fingerprint[call[c].body]
         THEN call' = [call EXCEPT ![c].at = "read", ![c].job = n]
         ELSE Goto(c, "conflict")
  /\ UNCHANGED <<rows, faults>>

\* GetJob, and the answer with its job id.
Read(c) ==
  /\ call[c].at = "read"
  /\ Goto(c, "accepted")
  /\ UNCHANGED <<rows, faults>>

Handling == {"received", "insert", "lookup", "read"}

\* A statement fails (codes.Internal) or its caller gives up waiting; an INSERT
\* may have been committed all the same.
StoreError(c) ==
  /\ faults < FaultBound
  /\ call[c].at \in {"insert", "lookup", "read"}
  /\ \/ UNCHANGED rows
     \/ call[c].at = "insert" /\ Owners(call[c].id) = {} /\ rows' = Append(rows, Row(c))
  /\ Goto(c, "unanswered")
  /\ faults' = faults + 1

\* The process dies and is restarted: every call under way goes unanswered.
Crash ==
  /\ faults < FaultBound
  /\ \E c \in Calls : call[c].at \in Handling
  /\ call' = [c \in Calls |-> IF call[c].at \in Handling THEN [call[c] EXCEPT !.at = "unanswered"] ELSE call[c]]
  /\ faults' = faults + 1
  /\ UNCHANGED rows

Serve(c) == Receive(c) \/ Insert(c) \/ Lookup(c) \/ Read(c)

EnqueueNext ==
  \/ \E c \in Calls :
       \/ \E r \in Requests : Send(c, r[1], r[2])
       \/ Resend(c)
       \/ Serve(c)
       \/ StoreError(c)
  \/ Crash

(***************************************************************************)
(* A handler runs on, and a caller without an answer asks again.           *)
(***************************************************************************)
EnqueueSpec ==
  /\ EnqueueInit
  /\ [][EnqueueNext]_enqueueVars
  /\ \A c \in Calls : WF_enqueueVars(Serve(c)) /\ WF_enqueueVars(Resend(c))

----------------------------------------------------------------------------
(* Type invariant of the table and the handlers. *)
EnqueueTypeOK ==
  /\ \A n \in DOMAIN rows : rows[n].id \in Ids /\ rows[n].body \in Bodies
  /\ \A c \in Calls :
       /\ call[c].at \in Handling \cup Settled \cup {"unanswered"}
       /\ call[c].job \in 0..Len(rows)
  /\ faults \in 0..FaultBound

(***************************************************************************)
(* An accepted caller was given the one job of its validation request id,  *)
(* whichever of the racing and repeated calls stored it (the partial       *)
(* unique index and CreateJob's conflict branch), and an invalid request   *)
(* leaves no job behind.                                                   *)
(***************************************************************************)
OneJobPerRequest ==
  /\ \A c \in Calls : call[c].at = "accepted" => Owners(call[c].id) = {call[c].job}
  /\ \A n \in DOMAIN rows : Valid(rows[n].id, rows[n].body)

\* Two bodies ask for the same: equal fields and the same set of actions.
SameRequest(a, b) ==
  /\ a.subject = b.subject /\ a.fixtures = b.fixtures
  /\ ToSet(a.actions) = ToSet(b.actions)

\* No field has a NUL in it.
NulFree(body) ==
  /\ \A i \in DOMAIN body.subject : Nul \notin ToSet(body.subject[i])
  /\ \A i \in DOMAIN body.actions : Nul \notin ToSet(body.actions[i])
  /\ Nul \notin ToSet(body.fixtures)

\* No field has a NUL in it, and no action is listed twice.
Plain(body) == NulFree(body) /\ IsInjective(body.actions)

Bound(id) == IF Owners(id) = {} THEN Nothing ELSE rows[CHOOSE n \in Owners(id) : TRUE].body

Answered(c) ==
  IF call[c].at \in {"accepted", "conflict"}
    THEN [id |-> call[c].id, body |-> call[c].body, accepted |-> call[c].at = "accepted"]
    ELSE Nothing

Promise == INSTANCE EnqueueOnce WITH
  Callers <- Calls, Same <- SameRequest,
  bound <- [id \in Ids |-> Bound(id)], answer <- [c \in Calls |-> Answered(c)]

(***************************************************************************)
(* Statement by statement the handlers implement EnqueueOnce: an id stands *)
(* for the first request stored under it, a request that asks for the same *)
(* is accepted and one that asks for something else is refused, however    *)
(* the calls, errors and crashes interleave.  What is compared is the      *)
(* fingerprint; what is promised is about the requests.  This holds of     *)
(* plain requests; RefusedAsksOther and AcceptedAsksSame are about others. *)
(***************************************************************************)
EnqueuesOnce == Promise!Spec

(***************************************************************************)
(* A caller that repeats its request is at last told definitely, through   *)
(* store errors and restarts.                                              *)
(***************************************************************************)
CallerLearns ==
  \A c \in Calls : call[c].at = "received" ~> call[c].at \in Settled

----------------------------------------------------------------------------
(* What comments say, and the program does not do for requests that are not plain. *)

(***************************************************************************)
(* A refused caller asked for something else than the job of its id, the   *)
(* actions taken as the set that requestFingerprint says they are.         *)
(***************************************************************************)
RefusedAsksOther ==
  \A c \in Calls : call[c].at = "conflict" =>
    \A n \in Owners(call[c].id) : ~SameRequest(rows[n].body, call[c].body)

(***************************************************************************)
(* An accepted caller asked for what the job of its id does: the separator *)
(* requestFingerprint writes keeps the fields of two requests apart.       *)
(***************************************************************************)
AcceptedAsksSame ==
  \A c \in Calls : call[c].at = "accepted" =>
    \A n \in Owners(call[c].id) : SameRequest(rows[n].body, call[c].body)
=============================================================================
