------------------------------ MODULE Sentinel -----------------------------
(***************************************************************************)
(* The validation of one job from end to end: worker processes             *)
(* (pkg/worker: process, runSmokeRun, runL5a, runL5b, submitCheckRecord)   *)
(* over the WorkStore and the delivery ledger, with Kubernetes and         *)
(* NodeVault around them.                                                  *)
(*                                                                         *)
(* The calls that leave the worker are steps of their own, so a process    *)
(* may die, lose its lease or be overtaken between them.  The answer of    *)
(* Kubernetes that ends a stage, the release of the identity and the       *)
(* clean-up Delete that follow it are one step.                            *)
(* A process that restarts is a new worker (main.go workerIdentity).  How  *)
(* a record left pending is redelivered is the subject of Redelivery.      *)
(*                                                                         *)
(* A Create whose answer is lost may have been persisted, may have         *)
(* vanished, or may still be executing in the API server and land later.   *)
(* Of the API server it is assumed that once a Job exists under a name,    *)
(* the requests for that name still executing fail with AlreadyExists.     *)
(***************************************************************************)
EXTENDS WorkStore, RetryPolicy, FiniteSets

CONSTANTS
  Environments,  \* the environments the job may be validated in
  Reconciles     \* l5aCreateReconcileAttempts

(***************************************************************************)
(* An environment: the processes alive at a time (1 as deployed) and in    *)
(* all, the leases of the job (a model bound), the longest retry delay,    *)
(* the requested_actions the job may carry, what may go wrong, and the     *)
(* stages whose Create may go unanswered or be rejected.                   *)
(***************************************************************************)
ASSUME SentinelConstants ==
  /\ \E j \in Jobs : Jobs = {j}
  /\ Reconciles \in Nat
  /\ \A e \in Environments :
       /\ e.replicas \in Nat \ {0} /\ e.processes \in Nat
       /\ e.leases \in 0..LeaseBound /\ e.delay \in 0..MaxDelay
       /\ e.faults \subseteq {"crash", "sigterm", "store", "kube", "vault", "refuse", "legacy"}
       /\ e.unanswered \cup e.rejected \subseteq {"L4", "L5A"}

VARIABLES
  env,       \* the environment
  request,   \* requested_actions
  marked,    \* last_error carries unknownRetryMarker
  proc,      \* proc[w]: the worker process w
  kubeJob,   \* kubeJob[<<stage, e>>]: the Job named for that stage of execution e
  creating,  \* names for which a Create is still executing in the API server
  vault,     \* terminal records NodeVault has accepted
  letter,    \* the record in result_delivery_payload, as a set
  slot, delivery, payload, failed, dueIn, claimIn, token, before

Ledger == INSTANCE DeliveryLedger WITH
  Attempts <- 1..LeaseBound, NoAttempt <- 0,
  ClaimTTL <- 0, MaxBackoff <- 0, BatchLimit <- 1, FailedCap <- 0

kubeVars   == <<kubeJob, creating>>
ledgerVars == <<slot, delivery, payload, failed, dueIn, claimIn, token, before>>
recordVars == <<vault, letter, ledgerVars>>
setting    == <<env, request>>
vars       == <<storeVars, setting, marked, proc, kubeVars, recordVars>>

job  == CHOOSE j \in Jobs : TRUE
plan == PlanStages(request)

Stage == {"L3", "L4", "L5A", "L5B"}
Name  == {"L4", "L5A"} \X (1..ExecutionBound) \cup {<<"L4", 0>>}

NoReport == [stage |-> "L3", status |-> "succeeded", terminal |-> FALSE, verdict |-> "queued", marked |-> FALSE]
Rest(at) == [at |-> at, attempt |-> 0, execution |-> 0, marked |-> FALSE, tries |-> 0, report |-> NoReport]

SentinelInit ==
  /\ StoreInit
  /\ Ledger!LedgerInit
  /\ env \in Environments
  /\ request \in env.requests
  /\ marked = FALSE
  /\ proc = [w \in Workers |-> Rest("off")]
  /\ kubeJob = [n \in Name |-> "absent"]
  /\ creating = {}
  /\ vault = {}
  /\ letter = {}

----------------------------------------------------------------------------
(* Kubernetes, as the worker uses it. *)

Persist(n) ==
  /\ kubeJob' = [kubeJob EXCEPT ![n] = IF @ = "absent" THEN "running" ELSE @]
  /\ creating' = creating \ {n}

\* A Create that got no answer.
Unanswered(n) ==
  \/ Persist(n)
  \/ kubeJob[n] = "absent" /\ creating' = creating \cup {n} /\ UNCHANGED kubeJob
  \/ UNCHANGED kubeVars

\* A foreground Delete: a running Job stays, terminating, until its Pods end.
Delete(n) ==
  /\ kubeJob' = [kubeJob EXCEPT ![n] = IF @ \in {"running", "deleting"} THEN "deleting" ELSE "absent"]
  /\ UNCHANGED creating

TryDelete(n) == Delete(n) \/ UNCHANGED kubeVars

Executing == {n \in Name : kubeJob[n] \in {"running", "deleting"}}

\* What happens in the cluster by itself: a delayed Create lands, a Job ends, a
\* finished Job is reaped after its TTL, the Pods of a deleted one are gone.
Cluster ==
  /\ \E n \in Name :
       \/ n \in creating /\ Persist(n)
       \/ /\ kubeJob[n] = "running"
          /\ \E end \in {"complete", "failed"} : kubeJob' = [kubeJob EXCEPT ![n] = end]
          /\ UNCHANGED creating
       \/ /\ kubeJob[n] \in {"complete", "failed", "deleting"}
          /\ kubeJob' = [kubeJob EXCEPT ![n] = "absent"]
          /\ UNCHANGED creating
  /\ UNCHANGED <<storeVars, setting, marked, proc, recordVars>>

----------------------------------------------------------------------------
(* The process and its steps. *)

At(w)        == proc[w].at
Attempt(w)   == proc[w].attempt
Execution(w) == proc[w].execution
Report(w)    == proc[w].report

Smoke(w)      == <<"L4", Execution(w)>>
Validation(w) == <<"L5A", Execution(w)>>

Move(w, at) == proc' = [proc EXCEPT ![w].at = at]

\* The attempt ends; its worker polls for another job.
Leave(w) == proc' = [proc EXCEPT ![w] = Rest("idle")]

\* Every failure is reported as the end of the validation.
FailedForGood(w, stage, class) ==
  LET decision == DecideRetry(class, Attempt(w), proc[w].marked) IN
    proc' = [proc EXCEPT ![w].at = "report",
                         ![w].report = [stage |-> stage,
                                        status |-> WireStatus(class),
                                        terminal |-> TRUE,
                                        verdict |-> IF decision.retry THEN "queued" ELSE "failed",
                                        marked |-> decision.marked]]

\* A failure at a stage: decideRetry, then reportTerminalFailure.
Failed(w, stage, class) ==
  LET decision == DecideRetry(class, Attempt(w), proc[w].marked) IN
    proc' = [proc EXCEPT ![w].at = "report",
                         ![w].report = [stage |-> stage,
                                        status |-> WireStatus(class),
                                        terminal |-> ~decision.retry,
                                        verdict |-> IF decision.retry THEN "queued" ELSE "failed",
                                        marked |-> decision.marked]]

\* A record of a job that will be completed whatever becomes of the record.
Passed(w, stage, result, terminal) ==
  proc' = [proc EXCEPT ![w].at = "report",
                       ![w].report = [stage |-> stage, status |-> result, terminal |-> terminal,
                                      verdict |-> "succeeded", marked |-> FALSE]]

\* markExecutionTerminal: an error is only logged.
Release(w) ==
  \/ MarkExecutionTerminal(job, Execution(w))
  \/ "store" \in env.faults /\ UNCHANGED storeVars

\* stillLeased, followed by the step Then of an attempt that may go on.  Only
\* ErrNotFound is a lost lease; any other error lets the attempt continue.
StillLeased(w, Then) ==
  \/ Heartbeat(job, w, Attempt(w)) /\ Then
  \/ "store" \in env.faults /\ UNCHANGED storeVars /\ Then
  \/ ~HoldsLease(job, w, Attempt(w)) /\ UNCHANGED storeVars /\ Leave(w)

Started == {w \in Workers : At(w) # "off"}
Live    == {w \in Started : At(w) # "dead"}

\* There is a process to come after those that were started.
Replaceable == Cardinality(Started) < env.processes

\* Processes differ in their names only: it is no matter which one comes next.
Start(w) ==
  /\ At(w) = "off" /\ Replaceable
  /\ w = CHOOSE v \in Workers : At(v) = "off"
  /\ Cardinality(Live) < env.replicas
  /\ proc' = [proc EXCEPT ![w] = Rest("idle")]
  /\ UNCHANGED <<storeVars, setting, marked, kubeVars, recordVars>>

Enqueue ==
  /\ CreateJob(job)
  /\ UNCHANGED <<setting, marked, proc, kubeVars, recordVars>>

Lease(w) ==
  /\ At(w) = "idle" /\ attempt[job] < env.leases
  /\ LeaseJob(job, w)
  /\ proc' = [proc EXCEPT ![w] = [Rest("leased") EXCEPT !.attempt = attempt[job] + 1,
                                                        !.execution = execution[job],
                                                        !.marked = marked]]
  /\ UNCHANGED <<setting, marked, kubeVars, recordVars>>

\* LeaseJob commits, and reading the row back fails: nobody works on the lease.
LeaseUnread(w) ==
  /\ "store" \in env.faults
  /\ At(w) = "idle" /\ attempt[job] < env.leases
  /\ LeaseJob(job, w)
  /\ UNCHANGED <<setting, marked, proc, kubeVars, recordVars>>

Legacy == <<"L4", 0>>

\* A worker from before execution identities leases the job, creates a Job
\* named for the attempt and dies.
LegacyAttempt(w) ==
  /\ "legacy" \in env.faults /\ Replaceable
  /\ At(w) = "idle" /\ attempt[job] = 0
  /\ LeaseJob(job, w)
  /\ Persist(Legacy)
  /\ proc' = [proc EXCEPT ![w] = Rest("dead")]
  /\ UNCHANGED <<setting, marked, recordVars>>

\* A row without an identity is taken to have no Job.
PlanAtOnce(w) ==
  /\ At(w) = "leased"
  /\ IF plan.valid THEN Move(w, "ensure") ELSE Failed(w, "L3", "DETERMINISTIC")
  /\ UNCHANGED <<storeVars, setting, marked, kubeVars, recordVars>>

\* planStages; then a row without an identity may have a legacy Job, and
\* retireLegacyExecutions lists the Jobs of this job.
Plan(w) ==
  /\ At(w) = "leased"
  /\ \/ ~plan.valid /\ Failed(w, "L3", "DETERMINISTIC")
     \/ plan.valid /\ Move(w, IF Execution(w) = 0 /\ kubeJob[Legacy] # "absent" THEN "retire" ELSE "ensure")
     \/ plan.valid /\ Execution(w) = 0 /\ "kube" \in env.faults /\ Failed(w, "L3", "TRANSIENT_INFRA")
  /\ UNCHANGED <<storeVars, setting, marked, kubeVars, recordVars>>

\* The stored identity is read again before the legacy Job is deleted.
Retire(w) ==
  /\ At(w) = "retire"
  /\ \/ execution[job] = 0 /\ Move(w, "retireDelete")
     \/ (execution[job] # 0 \/ "store" \in env.faults) /\ Failed(w, "L3", "TRANSIENT_INFRA")
  /\ UNCHANGED <<storeVars, setting, marked, kubeVars, recordVars>>

\* deleteAndConfirmGone: the Delete, ...
RetireDelete(w) ==
  /\ At(w) = "retireDelete"
  /\ \/ Delete(Legacy) /\ Move(w, "retireConfirm")
     \/ "kube" \in env.faults /\ TryDelete(Legacy) /\ Failed(w, "L3", "TRANSIENT_INFRA")
  /\ UNCHANGED <<storeVars, setting, marked, recordVars>>

\* ... and the polls until the Job is gone or the wait is over.
RetireConfirm(w) ==
  /\ At(w) = "retireConfirm"
  /\ \/ kubeJob[Legacy] = "absent" /\ Move(w, "retired")
     \/ (kubeJob[Legacy] # "absent" \/ "kube" \in env.faults) /\ Failed(w, "L3", "TRANSIENT_INFRA")
  /\ UNCHANGED <<storeVars, setting, marked, kubeVars, recordVars>>

\* The lease is extended after the wait.
Retired(w) ==
  /\ At(w) = "retired"
  /\ StillLeased(w, Move(w, "ensure"))
  /\ UNCHANGED <<setting, marked, kubeVars, recordVars>>

\* Every attempt runs under an identity of its own.
EnsurePerAttempt(w) ==
  /\ At(w) = "ensure"
  /\ execution[job] < ExecutionBound
  /\ execution' = [execution EXCEPT ![job] = @ + 1]
  /\ executionTerminal' = [executionTerminal EXCEPT ![job] = FALSE]
  /\ proc' = [proc EXCEPT ![w].execution = execution[job] + 1, ![w].at = "dryrun"]
  /\ UNCHANGED <<rows, created, leaseVars, reports, setting, marked, kubeVars, recordVars>>

\* EnsureExecution.  An adopted execution may be past L4 already.
Ensure(w) ==
  /\ At(w) = "ensure"
  /\ EnsureExecution(job)
  /\ proc' = [proc EXCEPT ![w].execution = execution'[job],
                          ![w].at = IF ~Adoptable(job) THEN "dryrun"
                                    ELSE IF plan.l5a THEN "seek" ELSE "adopt"]
  /\ UNCHANGED <<setting, marked, kubeVars, recordVars>>

EnsureError(w) ==
  /\ "store" \in env.faults
  /\ At(w) = "ensure"
  /\ EnsureExecution(job) \/ UNCHANGED storeVars
  /\ Failed(w, "L3", "TRANSIENT_INFRA")
  /\ UNCHANGED <<setting, marked, kubeVars, recordVars>>

----------------------------------------------------------------------------
(* L3 and L4: process up to finishAfterL4, runSmokeRun and createSmokeJob. *)

\* jobExists of the L5-a Job of an adopted execution.
Seek(w) ==
  /\ At(w) = "seek"
  /\ \/ Move(w, IF kubeJob[Validation(w)] = "absent" THEN "adopt" ELSE "l5a")
     \/ "kube" \in env.faults /\ Failed(w, "L4", "TRANSIENT_INFRA")
  /\ UNCHANGED <<storeVars, setting, marked, kubeVars, recordVars>>

DryRun(w) ==
  /\ At(w) = "dryrun"
  /\ \/ Move(w, "create") /\ UNCHANGED storeVars
     \/ "kube" \in env.faults /\ Release(w) /\ Failed(w, "L3", "TRANSIENT_INFRA")
  /\ UNCHANGED <<setting, marked, kubeVars, recordVars>>

\* createSmokeJob: created, or AlreadyExists.
CreateSmoke(w) ==
  /\ At(w) \in {"create", "recreate"}
  /\ Persist(Smoke(w))
  /\ Move(w, "poll")
  /\ UNCHANGED <<storeVars, setting, marked, recordVars>>

\* Rejected.  The attempt that minted the identity releases it.
RejectSmoke(w) ==
  /\ "L4" \in env.rejected
  /\ At(w) \in {"create", "recreate"}
  /\ IF At(w) = "create" THEN Release(w) ELSE UNCHANGED storeVars
  /\ Failed(w, "L4", "TRANSIENT_INFRA")
  /\ UNCHANGED <<setting, marked, kubeVars, recordVars>>

LoseSmoke(w) ==
  /\ "L4" \in env.unanswered
  /\ At(w) \in {"create", "recreate"}
  /\ Unanswered(Smoke(w))
  /\ Move(w, "lookup")
  /\ UNCHANGED <<storeVars, setting, marked, recordVars>>

\* A Job not found after a Create without an answer is taken for not created.
LookUpOnce(w) ==
  /\ At(w) = "lookup"
  /\ \/ kubeJob[Smoke(w)] # "absent" /\ Move(w, "poll") /\ UNCHANGED storeVars
     \/ kubeJob[Smoke(w)] = "absent" /\ Release(w) /\ Failed(w, "L4", "TRANSIENT_INFRA")
  /\ UNCHANGED <<setting, marked, kubeVars, recordVars>>

\* The name is looked up after a Create without an answer.
LookUp(w) ==
  /\ At(w) = "lookup"
  /\ \/ kubeJob[Smoke(w)] # "absent" /\ Move(w, "poll")
     \/ kubeJob[Smoke(w)] = "absent" /\ Failed(w, "L4", "TRANSIENT_INFRA")
     \/ "kube" \in env.faults /\ Failed(w, "L4", "TRANSIENT_INFRA")
  /\ UNCHANGED <<storeVars, setting, marked, kubeVars, recordVars>>

\* The poll finds nothing: an adopted Job never seen is created under its name,
\* one that was seen is gone.
PollNothing(w) ==
  /\ At(w) \in {"adopt", "poll"}
  /\ kubeJob[Smoke(w)] = "absent"
  /\ \/ At(w) = "adopt" /\ Move(w, "recreate") /\ UNCHANGED storeVars
     \/ At(w) = "poll" /\ Release(w) /\ Failed(w, "L4", "UNKNOWN")
  /\ UNCHANGED <<setting, marked, kubeVars, recordVars>>

PollError(w) ==
  /\ "kube" \in env.faults
  /\ At(w) \in {"adopt", "poll"}
  /\ Failed(w, "L4", "TRANSIENT_INFRA")
  /\ UNCHANGED <<storeVars, setting, marked, kubeVars, recordVars>>

\* A Job without a terminal condition: from now on it counts as seen.
PollRunning(w) ==
  /\ At(w) = "adopt"
  /\ Smoke(w) \in Executing
  /\ Move(w, "poll")
  /\ UNCHANGED <<storeVars, setting, marked, kubeVars, recordVars>>

\* The smoke-run succeeded: on to L5-a, to L5-b, or to the terminal record.
AfterSmoke(w) ==
  \/ plan.l5a /\ Move(w, "l5a")
  \/ ~plan.l5a /\ plan.l5b /\ Move(w, "l5b")
  \/ ~plan.l5a /\ ~plan.l5b /\ Passed(w, "L4", "succeeded", TRUE)

\* Complete or Failed.  L5-a, when it follows, keeps the identity.
PollEnd(w) ==
  /\ At(w) \in {"adopt", "poll"}
  /\ \/ /\ kubeJob[Smoke(w)] = "complete"
        /\ IF plan.l5a THEN UNCHANGED storeVars ELSE Release(w)
        /\ AfterSmoke(w)
     \/ /\ kubeJob[Smoke(w)] = "failed"
        /\ Release(w)
        /\ \E class \in Class : Failed(w, "L4", class)
  /\ TryDelete(Smoke(w))
  /\ UNCHANGED <<setting, marked, recordVars>>

\* heartbeatTick: a confirmed lease loss ends the attempt and touches nothing.
Renew(w) ==
  /\ At(w) \in {"adopt", "poll", "wait"}
  /\ StillLeased(w, UNCHANGED proc)
  /\ UNCHANGED <<setting, marked, kubeVars, recordVars>>

----------------------------------------------------------------------------
(* The end of the time allotted, and SIGTERM: deleteAndConfirmGone. *)

\* The Job a polling worker looks at.
Watched(w) == IF At(w) \in {"wait", "cleanupL5a", "stopL5a"} THEN Validation(w) ELSE Smoke(w)

AfterTimeout(w) ==
  IF At(w) \in {"wait", "cleanupL5a"}
    THEN Passed(w, "L5A", "infra_failed", ~plan.l5b)
    ELSE Failed(w, "L4", "TRANSIENT_INFRA")

Timeout(w) ==
  /\ At(w) \in {"poll", "wait"}
  /\ \/ Delete(Watched(w)) /\ Move(w, IF At(w) = "wait" THEN "cleanupL5a" ELSE "cleanup")
     \/ /\ "kube" \in env.faults
        /\ IF At(w) = "wait" THEN TryDelete(Watched(w)) ELSE UNCHANGED kubeVars
        /\ AfterTimeout(w)
  /\ UNCHANGED <<storeVars, setting, marked, recordVars>>

\* The identity is released once the Delete has been accepted.
ConfirmNothing(w) ==
  /\ At(w) \in {"cleanup", "cleanupL5a"}
  /\ Release(w)
  /\ AfterTimeout(w)
  /\ UNCHANGED <<setting, marked, kubeVars, recordVars>>

\* The Job is confirmed gone and its identity released, or it is not.
Confirm(w) ==
  /\ At(w) \in {"cleanup", "cleanupL5a"}
  /\ \/ kubeJob[Watched(w)] = "absent" /\ Release(w)
     \/ (kubeJob[Watched(w)] # "absent" \/ "kube" \in env.faults) /\ UNCHANGED storeVars
  /\ AfterTimeout(w)
  /\ UNCHANGED <<setting, marked, kubeVars, recordVars>>

\* SIGTERM cancels the context: the poll loops delete their Job and release the
\* identity with a context of their own, and every later call of the attempt
\* fails.  At any other point it is a crash.
Sigterm(w) ==
  /\ "sigterm" \in env.faults /\ Replaceable
  /\ At(w) \in {"adopt", "poll", "wait"}
  /\ Delete(Watched(w))
  /\ Move(w, IF At(w) = "wait" THEN "stopL5a" ELSE "stop")
  /\ UNCHANGED <<storeVars, setting, marked, recordVars>>

Stop(w) ==
  /\ At(w) \in {"stop", "stopL5a"}
  /\ \/ kubeJob[Watched(w)] = "absent" /\ Release(w)
     \/ (kubeJob[Watched(w)] # "absent" \/ "kube" \in env.faults) /\ UNCHANGED storeVars
  /\ proc' = [proc EXCEPT ![w] = Rest("dead")]
  /\ UNCHANGED <<setting, marked, kubeVars, recordVars>>

Crash(w) ==
  /\ "crash" \in env.faults /\ Replaceable
  /\ At(w) \notin {"off", "idle", "dead"}
  /\ proc' = [proc EXCEPT ![w] = Rest("dead")]
  /\ UNCHANGED <<storeVars, setting, marked, kubeVars, recordVars>>

----------------------------------------------------------------------------
(* finishAfterL4: L5-a and L5-b never fail the job. *)

\* L5-a's record is terminal when L5-b does not follow.
AfterL5a(w, result) == Passed(w, "L5A", result, ~plan.l5b)

BeginL5a(w) ==
  /\ At(w) = "l5a"
  /\ StillLeased(w, Move(w, "l5aCreate"))
  /\ UNCHANGED <<setting, marked, kubeVars, recordVars>>

\* runL5a and reconcileL5aCreate: created, or AlreadyExists.
CreateL5a(w) ==
  /\ At(w) = "l5aCreate" \/ (At(w) = "reconcile" /\ proc[w].tries > 0)
  /\ Persist(Validation(w))
  /\ Move(w, "wait")
  /\ UNCHANGED <<storeVars, setting, marked, recordVars>>

RejectL5a(w) ==
  /\ "L5A" \in env.rejected
  /\ At(w) = "l5aCreate"
  /\ Release(w)
  /\ AfterL5a(w, "infra_failed")
  /\ UNCHANGED <<setting, marked, kubeVars, recordVars>>

\* The first Create gets no answer, or one that is to reconcile it fails.
LoseL5a(w) ==
  /\ "L5A" \in env.unanswered
  /\ \/ At(w) = "l5aCreate" /\ proc' = [proc EXCEPT ![w].at = "reconcile", ![w].tries = Reconciles]
     \/ /\ At(w) = "reconcile" /\ proc[w].tries > 0
        /\ proc' = [proc EXCEPT ![w].tries = @ - 1]
  /\ Unanswered(Validation(w))
  /\ UNCHANGED <<storeVars, setting, marked, recordVars>>

\* The attempts to reconcile run out, or the time allotted does.
GiveUpL5a(w) ==
  /\ At(w) = "reconcile"
  /\ AfterL5a(w, "infra_failed")
  /\ UNCHANGED <<storeVars, setting, marked, kubeVars, recordVars>>

\* waitL5aJob: any error of Get, NotFound included, keeps the identity.
WaitError(w) ==
  /\ At(w) = "wait"
  /\ kubeJob[Validation(w)] = "absent" \/ "kube" \in env.faults
  /\ AfterL5a(w, "infra_failed")
  /\ TryDelete(Validation(w))
  /\ UNCHANGED <<storeVars, setting, marked, recordVars>>

WaitEnd(w) ==
  /\ At(w) = "wait"
  /\ \/ kubeJob[Validation(w)] = "complete" /\ AfterL5a(w, "succeeded")
     \/ /\ kubeJob[Validation(w)] = "failed"
        /\ \E class \in Class : AfterL5a(w, WireStatus(class))
  /\ Release(w)
  /\ TryDelete(Validation(w))
  /\ UNCHANGED <<setting, marked, recordVars>>

\* runL5b: whatever the scanner has, its record is the terminal one.
BeginL5b(w) ==
  /\ At(w) = "l5b"
  /\ StillLeased(w, Passed(w, "L5B", "scanned", TRUE))
  /\ UNCHANGED <<setting, marked, kubeVars, recordVars>>

----------------------------------------------------------------------------
(* submitCheckRecord and its L5-b counterpart, and the verdict. *)

Record(w) == [attempt |-> Attempt(w), stage |-> Report(w).stage, status |-> Report(w).status]

AfterReport(w) == Move(w, IF Report(w).stage = "L5A" /\ plan.l5b THEN "l5b" ELSE "verdict")

\* The slot is claimed before the lease is checked.
CheckLeaseLast(w) ==
  /\ At(w) = "report"
  /\ IF Report(w).terminal /\ slot[job] = 0
       THEN Ledger!ClaimTerminal(job, Attempt(w)) ELSE UNCHANGED ledgerVars
  /\ StillLeased(w, IF Report(w).terminal /\ slot[job] = 0 THEN Move(w, "post") ELSE AfterReport(w))
  /\ UNCHANGED <<setting, marked, kubeVars, vault, letter>>

\* The lease is checked before the slot is claimed.  A record that is not
\* terminal is sent and forgotten.
CheckLease(w) ==
  /\ At(w) = "report"
  /\ StillLeased(w, IF Report(w).terminal THEN Move(w, "claim") ELSE AfterReport(w))
  /\ UNCHANGED <<setting, marked, kubeVars, recordVars>>

\* claimTerminal: an error of the store lets the record through.
Claim(w) ==
  /\ At(w) = "claim"
  /\ \/ Ledger!ClaimTerminal(job, Attempt(w)) /\ Move(w, "post")
     \/ slot[job] # 0 /\ UNCHANGED ledgerVars /\ AfterReport(w)
     \/ "store" \in env.faults /\ UNCHANGED ledgerVars /\ Move(w, "post")
  /\ UNCHANGED <<storeVars, setting, marked, kubeVars, vault, letter>>

\* The POST: taken, or failed with a retryable error before or after NodeVault
\* took it, or refused with a 4xx.
Post(w) ==
  /\ At(w) = "post"
  /\ \/ vault' = vault \cup {Record(w)} /\ AfterReport(w)
     \/ /\ "vault" \in env.faults
        /\ vault' \in {vault, vault \cup {Record(w)}}
        /\ Move(w, "mark")
     \/ "refuse" \in env.faults /\ UNCHANGED vault /\ Move(w, "bury")
  /\ UNCHANGED <<storeVars, setting, marked, kubeVars, letter, ledgerVars>>

\* markFirstDeliveryFailure: only the owner of the slot leaves a record behind.
Mark(w) ==
  /\ At(w) \in {"mark", "bury"}
  /\ \/ /\ \/ At(w) = "mark" /\ Ledger!MarkFirstDeliveryPending(job, Attempt(w), 0)
           \/ At(w) = "bury" /\ Ledger!MarkFirstDeliveryDeadLetter(job, Attempt(w))
        /\ letter' = {Record(w)}
     \/ /\ "store" \in env.faults \/ ~Ledger!FirstDeliveryFence(job, Attempt(w))
        /\ UNCHANGED <<ledgerVars, letter>>
  /\ AfterReport(w)
  /\ UNCHANGED <<storeVars, setting, marked, kubeVars, vault>>

\* CompleteJob or FailJob with the decision made before the report.
Settle(w) ==
  /\ At(w) = "verdict"
  /\ \/ Report(w).verdict = "succeeded" /\ CompleteJob(job, w, Attempt(w))
     \/ Report(w).verdict = "failed" /\ FailJobForGood(job, w, Attempt(w))
     \/ Report(w).verdict = "queued" /\ FailJobRetryable(job, w, Attempt(w), env.delay)
  /\ marked' = Report(w).marked
  /\ Leave(w)
  /\ UNCHANGED <<setting, kubeVars, recordVars>>

\* The fence refuses the verdict, or the store fails.
SettleLost(w) ==
  /\ At(w) = "verdict"
  /\ "store" \in env.faults \/ ~HoldsLease(job, w, Attempt(w))
  /\ Leave(w)
  /\ UNCHANGED <<storeVars, setting, marked, kubeVars, recordVars>>

----------------------------------------------------------------------------
Tick ==
  /\ StoreTick
  /\ UNCHANGED <<setting, marked, proc, kubeVars, recordVars>>

\* The steps by which a worker gets on.
Step(w) ==
  \/ Lease(w) \/ LeaseUnread(w) \/ Plan(w)
  \/ Retire(w) \/ RetireDelete(w) \/ RetireConfirm(w) \/ Retired(w) \/ Ensure(w) \/ EnsureError(w)
  \/ Seek(w) \/ DryRun(w) \/ CreateSmoke(w) \/ RejectSmoke(w) \/ LoseSmoke(w) \/ LookUp(w)
  \/ PollNothing(w) \/ PollError(w) \/ PollRunning(w) \/ PollEnd(w) \/ Timeout(w) \/ Confirm(w)
  \/ BeginL5a(w) \/ CreateL5a(w) \/ RejectL5a(w) \/ LoseL5a(w) \/ GiveUpL5a(w)
  \/ WaitError(w) \/ WaitEnd(w) \/ BeginL5b(w)
  \/ CheckLease(w) \/ Claim(w) \/ Post(w) \/ Mark(w) \/ Settle(w) \/ SettleLost(w) \/ Stop(w)

SentinelNext ==
  \/ Enqueue
  \/ \E w \in Workers : Start(w) \/ Step(w) \/ Renew(w) \/ LegacyAttempt(w) \/ Sigterm(w) \/ Crash(w)
  \/ Cluster
  \/ Tick

SentinelSpec == SentinelInit /\ [][SentinelNext]_vars

(***************************************************************************)
(* A process is restarted when it died, a running worker goes on (every    *)
(* call it makes returns or times out), a request arrives and time passes. *)
(* Nothing is assumed of the cluster.                                      *)
(***************************************************************************)
SentinelFairness ==
  /\ WF_vars(Enqueue)
  /\ WF_vars(\E w \in Workers : Start(w))
  /\ \A w \in Workers : WF_vars(Step(w))
  /\ WF_vars(Tick)

FairSentinelSpec == SentinelSpec /\ SentinelFairness

----------------------------------------------------------------------------
Points ==
  {"off", "dead", "idle", "leased", "retire", "retireDelete", "retireConfirm", "retired", "ensure", "seek",
   "dryrun", "create", "recreate", "lookup", "adopt", "poll", "cleanup", "stop", "l5a", "l5aCreate", "reconcile",
   "wait", "cleanupL5a", "stopL5a", "l5b", "report", "claim", "post", "mark", "bury", "verdict"}

Records == [attempt : 1..LeaseBound, stage : Stage, status : {"succeeded", "failed", "infra_failed", "scanned"}]

(* Type invariant of the processes, the cluster and NodeVault. *)
SentinelTypeOK ==
  /\ StoreTypeOK
  /\ Ledger!LedgerTypeOK
  /\ env \in Environments /\ request \in env.requests
  /\ marked \in BOOLEAN
  /\ \A w \in Workers :
       /\ At(w) \in Points
       /\ Attempt(w) \in 0..attempt[job]
       /\ Execution(w) \in 0..execution[job]
       /\ proc[w].tries \in 0..Reconciles
       /\ Report(w).stage \in Stage
  /\ kubeJob \in [Name -> {"absent", "running", "complete", "failed", "deleting"}]
  /\ creating \subseteq Name
  /\ vault \subseteq Records
  /\ letter \subseteq Records

(***************************************************************************)
(* The store is used as WorkStore describes it: whatever the workers, the  *)
(* cluster and the faults do, the jobs table moves by WorkStore's steps.   *)
(***************************************************************************)
StoreUsedAsSpecified == StoreSpec

(***************************************************************************)
(* At most one terminal record of a job ever reaches NodeVault or the      *)
(* ledger: every terminal submission claims the one-time slot first        *)
(* (claimTerminal), across retries, crashes and lost leases.               *)
(***************************************************************************)
OneTerminalRecord == "store" \notin env.faults => \A r, s \in vault \cup letter : r = s

(***************************************************************************)
(* At most one Job of a validation executes at any time: what durable      *)
(* execution identities are for (smokeJobName).  A terminating Job counts, *)
(* its Pods may still run.                                                 *)
(***************************************************************************)
AtMostOneExecution == env.replicas = 1 => Cardinality(Executing) <= 1

(***************************************************************************)
(* An identity is released only when nothing executes under it and nothing *)
(* will: neither a Job of it nor a Create still under way (the two         *)
(* categories of return paths of runSmokeRun).                             *)
(***************************************************************************)
ReleasedIsQuiet ==
  env.replicas = 1 => \A n \in Name : n[2] \in reports[job] => n \notin Executing /\ n \notin creating

(***************************************************************************)
(* A job finished without losing a lease has told NodeVault so, or has     *)
(* left its record in the ledger: the record comes from the last attempt   *)
(* and says that the pipeline failed exactly when the job is failed.       *)
(* When NodeVault and the store both fail, the ledger may miss it (Mark).  *)
(***************************************************************************)
ReportedAsFinished ==
  /\ "store" \notin env.faults \/ env.faults \cap {"vault", "refuse"} = {}
  /\ status[job] \in Final /\ Len(verdicts[job]) = attempt[job]
  => \E r \in vault \cup letter :
       /\ r.attempt = attempt[job]
       /\ status[job] = "failed" <=> r.stage \in {"L3", "L4"} /\ r.status # "succeeded"

(***************************************************************************)
(* As long as no process has died, a finished job has a record, or the     *)
(* attempt that took the slot is about to send it, whichever attempt that  *)
(* is: one that is overtaken between the check of its lease and the claim  *)
(* takes the slot from the owner of the job, but not for nothing           *)
(* (submitCheckRecord).                                                    *)
(***************************************************************************)
SlotIsUsed ==
  /\ "store" \notin env.faults \/ env.faults \cap {"vault", "refuse"} = {}
  /\ status[job] \in Final /\ \A w \in Workers : At(w) # "dead"
  => \/ vault \cup letter # {}
     \/ \E w \in Workers : Attempt(w) = slot[job] /\ At(w) \in {"post", "mark", "bury"}

(***************************************************************************)
(* Every job is finished at last, through crashes, lost leases, retries    *)
(* and rejections.  When the store fails again and again, leases that      *)
(* LeaseJob committed and could not read back among it, the job still      *)
(* goes from lease to lease, up to the bound on them.                      *)
(***************************************************************************)
JobFinishes == <>(status[job] \in Final \/ ("store" \in env.faults /\ attempt[job] = env.leases))

----------------------------------------------------------------------------
(* What comments and documents say, and the program does not do. *)

(***************************************************************************)
(* Every successfully completed job produces a terminal record             *)
(* (vaultclient/client.go, comment of the stages): NodeVault has it, or    *)
(* the ledger keeps it.                                                    *)
(***************************************************************************)
CompletedHasRecord == status[job] = "succeeded" => vault \cup letter # {}

(***************************************************************************)
(* A non-retryable failure means the validation request is truly done      *)
(* (worker.go, comment of reportTerminalFailure): once NodeVault has been  *)
(* told so, the job does not succeed.                                      *)
(***************************************************************************)
FailureIsTheEnd ==
  (\E r \in vault : r.stage \in {"L3", "L4"} /\ r.status # "succeeded") => status[job] # "succeeded"

(***************************************************************************)
(* A failed L3 dry-run fails the job, retryable=false                      *)
(* (docs/NODESENTINEL_VALIDATION_FLOW_SPEC_v0.1.md, 6.2).                  *)
(***************************************************************************)
DryRunFailureIsFinal ==
  \A w \in Workers :
    At(w) = "verdict" /\ Report(w).stage = "L3" /\ Execution(w) # 0 => Report(w).verdict = "failed"

=============================================================================
