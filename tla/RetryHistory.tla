---------------------------- MODULE RetryHistory ---------------------------
(***************************************************************************)
(* The life of one job under the retry policy: every lease ends in         *)
(* success, in a failure that is classified and judged by decideRetry, or  *)
(* in no verdict at all (the worker died, and LeaseJob reclaims the lapsed *)
(* lease).                                                                 *)
(*                                                                         *)
(* What made an attempt fail is its cause.  The classifier does not see    *)
(* it, only the Pods that Kubernetes, which is external, may show for it.  *)
(***************************************************************************)
EXTENDS RetryPolicy

CONSTANTS
  Causes,      \* the causes of failures
  LeaseBound   \* model bound: leases of the job

\* What the documents call a cause.
KindOf == [exit |-> "application", oom |-> "resource",
           unschedulable |-> "infra", pull |-> "infra", evicted |-> "infra", killed |-> "infra", api |-> "infra",
           gone |-> "unclear", mute |-> "unclear", unlisted |-> "unclear"]

ASSUME HistoryConstants ==
  /\ Causes \subseteq DOMAIN KindOf
  /\ LeaseBound \in Nat

VARIABLES
  state,     \* "queued", "leased", "failed" or "succeeded"
  attempt,   \* attempt
  marked,    \* last_error carries unknownRetryMarker
  failures,  \* history: the failures decideRetry judged, in order, by their kind
  waits      \* history: the retry delays granted, in order

historyVars == <<state, attempt, marked, failures, waits>>

Pod(phase, reason, container) == [phase |-> phase, reason |-> reason, containers |-> <<container>>]

\* What the Pods of a Job of one Pod with one container may look like.
Reported(cause) ==
  CASE cause = "exit"          -> {<<Pod("Failed", "", "exit")>>}
    [] cause = "oom"           -> {<<Pod("Failed", "", "oom")>>}
    [] cause = "unschedulable" -> {<<[phase |-> "Pending", reason |-> "", containers |-> << >>]>>}
    [] cause = "pull"          -> {<<Pod(phase, "", "pull")>> : phase \in {"Pending", "Running"}}
    [] cause = "evicted"       -> {<<[phase |-> "Failed", reason |-> "Evicted", containers |-> << >>]>>,
                                   <<Pod("Failed", "Evicted", "running")>>}
    [] cause = "killed"        -> {<<Pod("Failed", reason, "exit")>> : reason \in {"", "Evicted"}}
    [] cause = "gone"          -> {<< >>}
    [] cause = "mute"          -> {<<Pod(phase, "", "running")>> : phase \in {"Running", "Unknown"}}

\* A classifier that goes by the reason of the Job, BackoffLimitExceeded.
ClassifiedByJob(cause) == {"TRANSIENT_INFRA"}

\* classifySmokeRun of a failed Job; an error of the API is TRANSIENT_INFRA.
Classified(cause) ==
  CASE cause = "api"      -> {"TRANSIENT_INFRA"}
    [] cause = "unlisted" -> {ClassifyFromPods(TRUE, << >>)}
    [] OTHER              -> {ClassifyFromPods(FALSE, pods) : pods \in Reported(cause)}

Failure == [attempt : 1..LeaseBound, kind : {KindOf[cause] : cause \in Causes}]

HistoryInit ==
  /\ state = "queued"
  /\ attempt = 0
  /\ marked = FALSE
  /\ failures = << >>
  /\ waits = << >>

\* LeaseJob counts the lease and leaves last_error as the last FailJob wrote it.
Lease ==
  /\ state = "queued"
  /\ attempt < LeaseBound
  /\ state' = "leased"
  /\ attempt' = attempt + 1
  /\ UNCHANGED <<marked, failures, waits>>

\* The lease lapsed with no verdict; LeaseJob hands the job out again.
Reclaim ==
  /\ state = "leased"
  /\ attempt < LeaseBound
  /\ attempt' = attempt + 1
  /\ UNCHANGED <<state, marked, failures, waits>>

\* process: decideRetry, then FailJob with its answer.
Fail(cause, class) ==
  LET decision == DecideRetry(class, attempt, marked) IN
    /\ state = "leased"
    /\ state' = IF decision.retry THEN "queued" ELSE "failed"
    /\ marked' = decision.marked
    /\ failures' = Append(failures, [attempt |-> attempt, kind |-> KindOf[cause]])
    /\ waits' = IF decision.retry THEN Append(waits, RetryDelay(attempt)) ELSE waits
    /\ UNCHANGED attempt

\* A CompleteJob that leaves last_error.
SucceedKeepingError ==
  /\ state = "leased"
  /\ state' = "succeeded"
  /\ UNCHANGED <<attempt, marked, failures, waits>>

\* CompleteJob clears last_error.
Succeed ==
  /\ state = "leased"
  /\ state' = "succeeded"
  /\ marked' = FALSE
  /\ UNCHANGED <<attempt, failures, waits>>

HistoryNext ==
  \/ Lease
  \/ Reclaim
  \/ \E cause \in Causes : \E class \in Classified(cause) : Fail(cause, class)
  \/ Succeed

HistorySpec == HistoryInit /\ [][HistoryNext]_historyVars

----------------------------------------------------------------------------
(* Type invariant of the job and its history. *)
HistoryTypeOK ==
  /\ state \in {"queued", "leased", "failed", "succeeded"}
  /\ attempt \in 0..LeaseBound
  /\ marked \in BOOLEAN
  /\ failures \in Seq(Failure)
  /\ Len(waits) <= Len(failures)
  /\ marked => state # "succeeded"

(***************************************************************************)
(* The policy as its comment states it, read off the causes and the whole  *)
(* history: failure i ends the job when it was the tool's or its memory    *)
(* limit's, when it used up maxAttempts, or when nothing could be told of  *)
(* it and of the one directly before it.                                   *)
(***************************************************************************)
EndsTheJob(i) ==
  \/ failures[i].kind \in {"application", "resource"}
  \/ failures[i].attempt >= MaxAttempts
  \/ failures[i].kind = "unclear" /\ i > 1 /\ failures[i - 1].kind = "unclear"

(***************************************************************************)
(* classifyFromPods, which sees only Pods, and decideRetry, which sees     *)
(* only a class, the attempt number and the last error text, retry exactly *)
(* what the policy retries: no failure before the last ended the job, and  *)
(* the last one did exactly when the job is failed.  Leases reclaimed in   *)
(* between count as attempts and keep the marker.                          *)
(***************************************************************************)
RetriedAsStated ==
  /\ \A i \in 1..Len(failures) : EndsTheJob(i) => i = Len(failures)
  /\ state = "failed" <=> Len(failures) > 0 /\ EndsTheJob(Len(failures))

(***************************************************************************)
(* Every wait granted lies between half and all of                         *)
(* min(RetryMaxDelay, RetryBaseDelay * 2^(attempt-1)), is positive, and no *)
(* later retry may wait less than the least an earlier one had to: the     *)
(* schedule documented at work.RetryDelay.                                 *)
(***************************************************************************)
WaitsBackOff ==
  /\ \A i \in 1..Len(waits) :
       LET cap == Min({RetryMaxDelay, RetryBaseDelay * 2^(failures[i].attempt - 1)}) IN
         0 < waits[i].lo /\ cap <= 2 * waits[i].lo /\ waits[i].hi <= cap
  /\ \A i, k \in 1..Len(waits) : i < k => waits[i].lo <= waits[k].lo

(***************************************************************************)
(* maxAttempts caps the total number of times a job may be leased          *)
(* (failureclass.go, comment of maxAttempts).                              *)
(***************************************************************************)
LeasesCapped == attempt <= MaxAttempts

(***************************************************************************)
(* OOMKilled, eviction and SIGKILL are infra-level failures, retryable     *)
(* (docs/NODESENTINEL_VALIDATION_FLOW_SPEC_v0.1.md, 11).                   *)
(***************************************************************************)
InfraIsRetried ==
  state = "failed" /\ failures[Len(failures)].kind \in {"infra", "resource"} => attempt >= MaxAttempts

=============================================================================
