----------------------------- MODULE WorkStore -----------------------------
(***************************************************************************)
(* The jobs table of the SQLite WorkStore (pkg/work/sqlite/store.go): the  *)
(* lease of a job, its retry pacing and its durable execution identity.    *)
(*                                                                         *)
(* Every statement runs on the store's single connection, so every         *)
(* operation below is one atomic step.  What is not atomic is the caller:  *)
(* a worker may pause, die or repeat itself between two calls, so a call   *)
(* made under lease generation a of a job may arrive at any later time, in *)
(* any order and any number of times.  Next therefore lets the holder of   *)
(* every lease generation ever granted call at every step.                 *)
(*                                                                         *)
(* Instants are kept as distances to now: lease[j] is lease_until - now,   *)
(* retryIn[j] is retry_not_before - now.  NULL is the value the queries    *)
(* treat alike: -1 for lease_until (lapsed) and 0 for retry_not_before     *)
(* (due).  A random execution ID is its number in minting order, 0 is ''.  *)
(***************************************************************************)
EXTENDS Integers, Sequences

CONSTANTS
  Jobs,           \* job ids
  Workers,        \* lease owners; one per worker process (main.go workerIdentity)
  NoWorker,       \* lease_owner = ''
  LeaseTTL,       \* lease duration in ticks
  MaxDelay,       \* longest retryDelay a caller passes to FailJob, in ticks
  LeaseBound,     \* model bound: leases granted per job
  ExecutionBound  \* model bound: execution identities minted per job

ASSUME StoreConstants ==
  /\ NoWorker \notin Workers
  /\ LeaseTTL \in Nat
  /\ MaxDelay \in Nat
  /\ LeaseBound \in Nat
  /\ ExecutionBound \in Nat

VARIABLES
  rows,               \* number of rows inserted
  created,            \* created_at as an insertion number; 0: no such row
  status,             \* status
  attempt,            \* attempt
  owner,              \* lease_owner
  lease,              \* lease_until - now
  retryIn,            \* retry_not_before - now
  execution,          \* execution_id
  executionTerminal,  \* execution_terminal
  holders,            \* history: holders[j][a] was granted lease generation a of j
  verdicts,           \* history: the CompleteJob/FailJob calls accepted for j, in order
  reports             \* history: the executions some caller reported terminal

leaseVars     == <<status, attempt, owner, lease, retryIn, holders, verdicts>>
executionVars == <<execution, executionTerminal, reports>>
storeVars     == <<rows, created, leaseVars, executionVars>>

Active == {"leased", "running"}
Final  == {"succeeded", "failed"}
Status == {"none", "queued"} \cup Active \cup Final

Verdict == [attempt : Nat, kind : {"queued"} \cup Final]

----------------------------------------------------------------------------
StoreInit ==
  /\ rows = 0
  /\ created = [j \in Jobs |-> 0]
  /\ status = [j \in Jobs |-> "none"]
  /\ attempt = [j \in Jobs |-> 0]
  /\ owner = [j \in Jobs |-> NoWorker]
  /\ lease = [j \in Jobs |-> -1]
  /\ retryIn = [j \in Jobs |-> 0]
  /\ execution = [j \in Jobs |-> 0]
  /\ executionTerminal = [j \in Jobs |-> FALSE]
  /\ holders = [j \in Jobs |-> << >>]
  /\ verdicts = [j \in Jobs |-> << >>]
  /\ reports = [j \in Jobs |-> {}]

(***************************************************************************)
(* CreateJob inserts a queued row, younger than every row there is (calls  *)
(* overlapping within the reading of the clock are taken in its order).    *)
(* That a second call for the same validation request inserts nothing is   *)
(* left to the enqueue path.                                               *)
(***************************************************************************)
CreateJob(j) ==
  /\ created[j] = 0
  /\ rows' = rows + 1
  /\ created' = [created EXCEPT ![j] = rows + 1]
  /\ status' = [status EXCEPT ![j] = "queued"]
  /\ UNCHANGED <<attempt, owner, lease, retryIn, holders, verdicts, executionVars>>

(***************************************************************************)
(* LeaseJob: the oldest row that is queued and due, or whose lease lapsed. *)
(***************************************************************************)
\* A reclaim that forgets the jobs that were heartbeated.
LapsedUnstarted(j) == status[j] = "leased" /\ lease[j] < 0

\* A reclaim that forgets the jobs nobody began to work on.
LapsedStarted(j) == status[j] = "running" /\ lease[j] < 0

\* A reclaim that forgets to look at the status.
LapsedWhatever(j) == created[j] # 0 /\ status[j] # "queued" /\ lease[j] < 0

Due(j)    == status[j] = "queued" /\ retryIn[j] = 0
Lapsed(j) == status[j] \in Active /\ lease[j] < 0

Leaseable == {j \in Jobs : attempt[j] < LeaseBound /\ (Due(j) \/ Lapsed(j))}

Oldest(S) == CHOOSE j \in S : \A k \in S : created[j] <= created[k]

LeaseJob(j, w) ==
  /\ j \in Leaseable
  /\ j = Oldest(Leaseable)
  /\ status' = [status EXCEPT ![j] = "leased"]
  /\ attempt' = [attempt EXCEPT ![j] = @ + 1]
  /\ owner' = [owner EXCEPT ![j] = w]
  /\ lease' = [lease EXCEPT ![j] = LeaseTTL]
  /\ retryIn' = [retryIn EXCEPT ![j] = 0]
  /\ holders' = [holders EXCEPT ![j] = Append(@, w)]
  /\ UNCHANGED <<rows, created, verdicts, executionVars>>

----------------------------------------------------------------------------
(***************************************************************************)
(* The calls fenced on a lease generation: lease_owner and attempt.  A     *)
(* call whose fence matches no row changes nothing and returns             *)
(* ErrNotFound; it is the action not being enabled.                        *)
(***************************************************************************)
\* A fence on the owner alone: a worker that re-leased the job passes it for
\* its earlier attempt too.
HoldsLeaseByOwner(j, w, a) == owner[j] = w

HoldsLease(j, w, a) == owner[j] = w /\ attempt[j] = a

Heartbeat(j, w, a) ==
  /\ HoldsLease(j, w, a)
  /\ status[j] \in Active
  /\ status' = [status EXCEPT ![j] = "running"]
  /\ lease' = [lease EXCEPT ![j] = LeaseTTL]
  /\ UNCHANGED <<rows, created, attempt, owner, retryIn, holders, verdicts, executionVars>>

\* The columns every accepted verdict of attempt a writes.
Conclude(j, a, kind) ==
  /\ status' = [status EXCEPT ![j] = kind]
  /\ owner' = [owner EXCEPT ![j] = NoWorker]
  /\ lease' = [lease EXCEPT ![j] = -1]
  /\ verdicts' = [verdicts EXCEPT ![j] = Append(@, [attempt |-> a, kind |-> kind])]
  /\ UNCHANGED <<rows, created, attempt, holders, executionVars>>

\* finishJob does not look at status: only the lease generation fences it.
CompleteJob(j, w, a) ==
  /\ HoldsLease(j, w, a)
  /\ Conclude(j, a, "succeeded")
  /\ UNCHANGED retryIn

FailJobForGood(j, w, a) ==
  /\ HoldsLease(j, w, a)
  /\ Conclude(j, a, "failed")
  /\ UNCHANGED retryIn

\* A retry that waits one tick more than it was told to.
FailJobRetryableLate(j, w, a, delay) ==
  /\ HoldsLease(j, w, a)
  /\ status[j] \in Active
  /\ Conclude(j, a, "queued")
  /\ retryIn' = [retryIn EXCEPT ![j] = delay + 1]

FailJobRetryable(j, w, a, delay) ==
  /\ HoldsLease(j, w, a)
  /\ status[j] \in Active
  /\ Conclude(j, a, "queued")
  /\ retryIn' = [retryIn EXCEPT ![j] = delay]

----------------------------------------------------------------------------
(***************************************************************************)
(* The durable execution identity.  Neither call is fenced on the lease:   *)
(* EnsureExecution takes the worker's name and ignores it.                 *)
(***************************************************************************)
Adoptable(j) == execution[j] # 0 /\ ~executionTerminal[j]

EnsureExecution(j) ==
  /\ created[j] # 0
  /\ IF Adoptable(j)
       THEN UNCHANGED <<execution, executionTerminal>>
       ELSE /\ execution[j] < ExecutionBound
            /\ execution' = [execution EXCEPT ![j] = @ + 1]
            /\ executionTerminal' = [executionTerminal EXCEPT ![j] = FALSE]
  /\ UNCHANGED <<rows, created, leaseVars, reports>>

\* A release by job id alone.
MarkAnyExecutionTerminal(j, e) ==
  /\ e # 0
  /\ reports' = [reports EXCEPT ![j] = @ \cup {e}]
  /\ executionTerminal' = [executionTerminal EXCEPT ![j] = TRUE]
  /\ UNCHANGED <<rows, created, leaseVars, execution>>

\* The report of a replaced execution matches no row (ErrExecutionSuperseded).
MarkExecutionTerminal(j, e) ==
  /\ e # 0
  /\ reports' = [reports EXCEPT ![j] = @ \cup {e}]
  /\ executionTerminal' = [executionTerminal EXCEPT ![j] = @ \/ execution[j] = e]
  /\ UNCHANGED <<rows, created, leaseVars, execution>>

----------------------------------------------------------------------------
\* Time passes for every pending instant.
Sooner(d, floor) == IF d > floor THEN d - 1 ELSE d

StoreTick ==
  /\ \E j \in Jobs : lease[j] > -1 \/ retryIn[j] > 0
  /\ lease' = [j \in Jobs |-> Sooner(lease[j], -1)]
  /\ retryIn' = [j \in Jobs |-> Sooner(retryIn[j], 0)]
  /\ UNCHANGED <<rows, created, status, attempt, owner, holders, verdicts, executionVars>>

\* A call under any lease generation granted so far, current or stale.
LeaseCall(j, a) ==
  LET w == holders[j][a] IN
    \/ Heartbeat(j, w, a)
    \/ CompleteJob(j, w, a)
    \/ FailJobForGood(j, w, a)
    \/ \E delay \in 0..MaxDelay : FailJobRetryable(j, w, a, delay)

StoreNext ==
  \/ \E j \in Jobs : CreateJob(j)
  \/ \E j \in Jobs, w \in Workers : LeaseJob(j, w)
  \/ \E j \in Jobs : \E a \in 1..attempt[j] : LeaseCall(j, a)
  \/ \E j \in Jobs : attempt[j] > 0 /\ EnsureExecution(j)
  \/ \E j \in Jobs : \E e \in 1..execution[j] : MarkExecutionTerminal(j, e)
  \/ StoreTick

StoreSpec == StoreInit /\ [][StoreNext]_storeVars

----------------------------------------------------------------------------
(* Type invariant of the table and of the histories. *)
StoreTypeOK ==
  /\ rows \in Nat
  /\ created \in [Jobs -> Nat]
  /\ status \in [Jobs -> Status]
  /\ attempt \in [Jobs -> Nat]
  /\ owner \in [Jobs -> Workers \cup {NoWorker}]
  /\ lease \in [Jobs -> -1..LeaseTTL]
  /\ retryIn \in [Jobs -> 0..MaxDelay]
  /\ execution \in [Jobs -> Nat]
  /\ executionTerminal \in [Jobs -> BOOLEAN]
  /\ holders \in [Jobs -> Seq(Workers)]
  /\ verdicts \in [Jobs -> Seq(Verdict)]
  /\ reports \in [Jobs -> SUBSET Nat]

(***************************************************************************)
(* One verdict per lease generation.  However late, repeated or reordered  *)
(* the calls of superseded attempts are, the verdicts CompleteJob and      *)
(* FailJob accept for a job come from ever later attempts, at most one     *)
(* each; all but the last requeued the job; a final one came from the last *)
(* attempt ever granted, and it is the job's status.                       *)
(***************************************************************************)
OneVerdictPerLease ==
  \A j \in Jobs :
    LET v == verdicts[j] IN
      /\ \A i, k \in 1..Len(v) : i < k => v[i].attempt < v[k].attempt
      /\ \A i \in 1..Len(v) :
           v[i].kind \in Final =>
             i = Len(v) /\ v[i].attempt = attempt[j] /\ status[j] = v[i].kind
      /\ status[j] \in Final => Len(v) > 0 /\ v[Len(v)].kind = status[j]

(***************************************************************************)
(* A finished job stays finished: no call of any attempt, and no LeaseJob, *)
(* touches the status, attempt or owner of a succeeded or failed row.      *)
(* CompleteJob and the non-retryable FailJob do not test the status, so    *)
(* this rests on lease_owner being cleared by whatever finished the job.   *)
(***************************************************************************)
FinishedStaysFinished ==
  [][\A j \in Jobs :
       status[j] \in Final =>
         status'[j] = status[j] /\ attempt'[j] = attempt[j] /\ owner'[j] = owner[j]]_storeVars

(***************************************************************************)
(* An execution identity is replaced only after some caller reported that  *)
(* very execution terminal, and it is marked terminal only then: a late    *)
(* report about a replaced execution releases nothing.                     *)
(***************************************************************************)
ReplacedWasReported ==
  \A j \in Jobs :
    /\ \A e \in 1..execution[j] :
         e < execution[j] \/ executionTerminal[j] => e \in reports[j]
    /\ reports[j] \subseteq 1..execution[j]

=============================================================================
