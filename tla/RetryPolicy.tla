---------------------------- MODULE RetryPolicy ----------------------------
(***************************************************************************)
(* The pure decisions of the retry policy: classifyFromPods                *)
(* (pkg/worker/classify.go), decideRetry and wireStatus                    *)
(* (pkg/worker/failureclass.go), RetryDelay (pkg/work/retry.go) and        *)
(* planStages (pkg/worker/worker.go).  Durations are in milliseconds.  A   *)
(* jittered duration is the interval its jitter ranges over.               *)
(***************************************************************************)
EXTENDS Integers, Sequences, FiniteSetsExt

CONSTANT MaxAttempts   \* maxAttempts, 5 in the program

ASSUME PolicyConstants == MaxAttempts \in Nat \ {0}

Class == {"DETERMINISTIC", "TRANSIENT_INFRA", "RESOURCE_OBSERVATION", "UNKNOWN"}

----------------------------------------------------------------------------
(***************************************************************************)
(* A Pod is its phase, its reason ("" for none) and the states of its      *)
(* containers: "pull" waits for its image, the others that the classifier  *)
(* tells apart have terminated, "exit" with a code other than 0.           *)
(***************************************************************************)
ContainerVerdict(container) ==
  CASE container \in {"pull", "deadline"} -> "TRANSIENT_INFRA"
    [] container = "oom"                  -> "RESOURCE_OBSERVATION"
    [] container = "exit"                 -> "DETERMINISTIC"
    [] OTHER                              -> "none"

\* A loop that returns at the first element that tells something.
FirstTold(verdicts) ==
  LET told == {i \in DOMAIN verdicts : verdicts[i] # "none"} IN
    IF told = {} THEN "none" ELSE verdicts[Min(told)]

PodVerdict(pod) ==
  LET told == FirstTold([i \in DOMAIN pod.containers |-> ContainerVerdict(pod.containers[i])]) IN
    IF pod.phase = "Pending" THEN "TRANSIENT_INFRA"
    ELSE IF told # "none" THEN told
    ELSE IF pod.phase = "Failed" /\ pod.reason # "" THEN "TRANSIENT_INFRA" ELSE "none"

\* classifyFromPods: the first Pod listed that tells something decides; err, the
\* List failed.
ClassifyFromPods(err, pods) ==
  LET told == FirstTold([i \in DOMAIN pods |-> PodVerdict(pods[i])]) IN
    IF err \/ told = "none" THEN "UNKNOWN" ELSE told

----------------------------------------------------------------------------
\* decideRetry whose retry of an UNKNOWN failure leaves no marker behind.
DecideRetryUnmarked(class, attempt, marked) ==
  LET retry == /\ class \notin {"DETERMINISTIC", "RESOURCE_OBSERVATION"}
               /\ attempt < MaxAttempts
               /\ ~(class = "UNKNOWN" /\ marked) IN
    [retry |-> retry, marked |-> marked]

(***************************************************************************)
(* decideRetry.  Of job.LastError only one thing matters, whether it       *)
(* carries unknownRetryMarker; of the Reason it returns, the same.         *)
(***************************************************************************)
DecideRetry(class, attempt, marked) ==
  LET retry == /\ class \notin {"DETERMINISTIC", "RESOURCE_OBSERVATION"}
               /\ attempt < MaxAttempts
               /\ ~(class = "UNKNOWN" /\ marked) IN
    [retry |-> retry, marked |-> retry /\ class = "UNKNOWN"]

\* wireStatus: what NodeVault is told of a class.
WireStatus(class) ==
  IF class \in {"DETERMINISTIC", "RESOURCE_OBSERVATION"} THEN "failed" ELSE "infra_failed"

----------------------------------------------------------------------------
Interval(lo, hi) == [lo |-> lo, hi |-> hi]

RetryBaseDelay == 1000
RetryMaxDelay  == 30000

\* The loop of RetryDelay after n rounds: it stops doubling at the maximum.
Doubling[n \in Nat] ==
  IF n = 0 THEN RetryBaseDelay
  ELSE IF Doubling[n - 1] < RetryMaxDelay THEN 2 * Doubling[n - 1] ELSE Doubling[n - 1]

\* RetryDelay that returns half of the cap plus jitter up to the whole cap.
RetryDelayFullJitter(attempt) ==
  LET cap == Min({Doubling[Max({attempt, 1}) - 1], RetryMaxDelay}) IN
    Interval(cap \div 2, cap \div 2 + cap)

RetryDelay(attempt) ==
  LET cap == Min({Doubling[Max({attempt, 1}) - 1], RetryMaxDelay}) IN
    Interval(cap \div 2, cap)

----------------------------------------------------------------------------
KnownActions == {"smoke_run", "profile", "security_scan"}

(***************************************************************************)
(* planStages: the optional stages of a job.  An empty list runs all of    *)
(* them; an unknown action rejects the job.                                *)
(***************************************************************************)
PlanStages(requested) ==
  [valid |-> requested \subseteq KnownActions,
   l5a   |-> requested = {} \/ "profile" \in requested,
   l5b   |-> requested = {} \/ "security_scan" \in requested]

=============================================================================
