# A TLA+ model of NodeSentinel

NodeSentinel validates tool images. A gRPC ingress writes a job into a SQLite
WorkStore; a worker leases jobs and runs each through L3 (dry-run), L4 (smoke-run
as a Kubernetes Job), L5-a (a second Kubernetes Job) and L5-b (a look at the
scanner's reports); one *terminal record* per validation goes to NodeVault, and
a delivery loop sends again what could not be delivered at first.

What makes it hard is that three systems have to agree through crashes: the
lease in SQLite, the Job in Kubernetes and the record in NodeVault. Each of them
is changed by a call of its own, and a worker may die, stall past its lease or
be overtaken between any two calls.

## Parts of the system

| part | state | operations | modelled in |
|---|---|---|---|
| ingress (`pkg/ingress`), CreateJob | jobs by validation_request_id, request_fingerprint | EnqueueValidationWork, validate, CreateJob | `Enqueue`, `EnqueueOnce` |
| leases (`pkg/work/sqlite`) | status, attempt, lease_owner, lease_until, retry_not_before | CreateJob, LeaseJob, Heartbeat, CompleteJob, FailJob | `WorkStore` |
| execution identities | execution_id, execution_terminal | EnsureExecution, MarkExecutionTerminal | `WorkStore` |
| terminal slot and delivery ledger | terminal_*, result_delivery_*, next_attempt_at | ClaimTerminal, MarkFirstDelivery*, ClaimPendingDeliveries, MarkResultDelivery* | `DeliveryLedger`, `LedgerCalls` |
| classification and retry policy (`classify.go`, `failureclass.go`, `retry.go`) | last_error's marker, attempt | classifyFromPods, decideRetry, wireStatus, RetryDelay, planStages | `RetryPolicy`, `RetryHistory` |
| delivery loop (`delivery.go`) | claims held by goroutines | RunDeliveryLoop, redeliverOne, resolveRedelivery, backoffDuration | `Redelivery` |
| worker pipeline (`worker.go`, `l5a.go`, `l5b.go`) | where an attempt stands | process, retireLegacyExecutions, runSmokeRun, createSmokeJob, runL5a, runL5b, submitCheckRecord, claimTerminal | `Sentinel` |
| writer lock (`New`, `Close`) | SQLite's lock on the file | acquireWriterLock | `WriterLock` |
| migrations, process, readiness (`initSchema`, `main.go`) | columns, created_at, goroutines, flags | migrate*, normalizeTimestamps, main, /readyz, SIGTERM | `Supervision` |
| metrics, Kubernetes client set-up, gRPC stubs | | | not modelled |

SQLite, Kubernetes and NodeVault are modelled only as far as the code relies on
them.

## Modules

* `WorkStore` – the jobs table. Every statement runs on one connection, so every
  operation is one atomic action. `StoreNext` lets the holder of every lease
  generation ever granted make every call at any time: stale, repeated and
  reordered calls are the normal case. A call its fence rejects is an action
  that is not enabled. `holders`, `verdicts` and `reports` are histories the
  properties read.
* `RetryPolicy`, `RetryHistory` – the pure decisions, and the life of one job
  under them. A failure has a cause, which the program never sees; it sees Pods
  that show it (`Reported`), or cannot list them, and infers a class.
* `DeliveryLedger`, `LedgerCalls` – the delivery columns, and those columns
  under every order of calls.
* `Redelivery` – delivery loops over the ledger. The POST and the write of its
  outcome are separate steps.
* `Sentinel` – the composition: processes over `WorkStore` and the ledger, with
  the cluster and NodeVault. The calls that leave the worker are steps, except
  that the answer of Kubernetes that ends a stage, the release of the identity
  and the clean-up Delete after it are one step: with one process nobody else
  acts on the identity in between, and a crash there leaves what one before or
  after the step leaves.
  `proc[w].at` is where the attempt stands. An action conjoins the store's own
  action with the worker's step. An *environment*, chosen at the start, says
  which requests come and what may go wrong.
* `Enqueue` – handlers of the ingress, each statement of CreateJob a step, with
  callers that race, repeat and reuse ids. Texts are sequences of characters,
  so that blank fields, the order of actions and the text that
  requestFingerprint hashes (a NUL after each field, `Written`) are what they
  are in the code; of SHA-256 it is assumed that it tells texts apart.
  `EnqueueOnce` is what the handlers promise: an id is bound to the first
  request stored under it, and every answer is judged against that request.
  Requests are the same when their fields are equal and their actions are the
  same set, which is what the comment of requestFingerprint takes them for.
* `WriterLock` – openers of one file climbing SQLite's lock levels.
* `Supervision` – whole processes over `WriterLock`: `sqlite.New` with one step
  per migration, the errgroup, readiness, shutdown. Timestamps are text, and
  sort as text. A loop runs until its goroutine has returned, the deferred
  lowering of its flag included.
* `*Proofs` – the theorems (see below); `MC*` – sets and model values for TLC.

Conventions. Instants are distances to now in ticks (`lease`, `retryIn`,
`dueIn`, `claimIn`), so time is bounded by the longest interval. Random ids are
numbers in the order they were drawn. Of `last_error` only the UNKNOWN marker is
kept; payloads, summaries and reasons are left out. What sort.Strings computes is
said and not how: the ordered rearrangement of the actions (`Sorted`). An instant
in a timestamp is the sequence of its digits, of which the old form trims the
trailing zeros. Definitions that no
specification uses and whose comment describes a mistake (`HoldsLeaseByOwner`,
`EnsurePerAttempt`, ...) are deliberately wrong variants of the definition that
follows them: put in its place, they break the property `PROJECT.json` names.

### What the modules assume of their surroundings

* Kubernetes. A Create whose answer is lost was persisted, has vanished, or is
  still being executed and lands later (`creating`). Once a Job exists under a
  name, the requests for that name still executing fail. A foreground Delete
  leaves a running Job "deleting" until its Pods ended; a deleting Job counts as
  executing.
* SIGTERM cancels the context: in `Sentinel` the poll loops clean up with a
  context of their own and every later call of the attempt fails; elsewhere
  SIGTERM is a crash. A restarted process is a new worker (`workerIdentity`).
* A worker from before execution identities (`LegacyAttempt`) creates its Job
  and dies; its Create was answered, so it is not still under way later.
* NodeVault accepts, refuses with a 4xx, or fails before or after accepting.
  Non-terminal records are sent and forgotten, so they are not kept.
* SQLite. BEGIN EXCLUSIVE climbs SHARED, RESERVED, PENDING, EXCLUSIVE; in NORMAL
  locking mode a connection that is denied RESERVED drops what it has. The busy
  timeout is long: it ends an attempt only when no contender can move. A
  timeout that fires merely because others are slow is not modelled, and
  `RefusedByAWriter` would not hold with it.
* A file left by an earlier version has the columns of a prefix of the
  migrations, whose order is that in which they were added to the program. Its
  timestamps were written in UTC, trimmed or in full. normalizeTimestamps also
  rewrites a value with another offset, and fails every open on a value that
  does not parse; neither kind of value occurs in the model.

## Runs

Passing runs (`tlc -config X.cfg M`):

| config | module | what it shows |
|---|---|---|
| `WorkStore` | `MCWorkStore` | one verdict per lease generation, finished jobs stay finished, identities are replaced only after being reported terminal |
| `RetryHistory` | `RetryHistory` | classes inferred from Pods, judged by attempt and marker, retry exactly what the policy says of the causes and the whole history; delays back off within their bounds |
| `LedgerCalls` | `MCLedgerCalls` | one outcome per claim, the payload belongs to the slot's owner, only documented edges |
| `RedeliverySafe` | `MCRedelivery` | acknowledged means NodeVault has it, dead letter means it never could; one effective claimant |
| `RedeliveryLive` | `MCRedelivery` | no record starves behind a batch limit and a record that always fails |
| `SentinelSafe` | `MCSentinel` | in seven environments: one terminal record, at most one execution, released identities are quiet, the record agrees with the job, a slot that was taken is used |
| `SentinelLive` | `MCSentinel` | every job is finished, and goes from lease to lease while the store fails; the rows move by `StoreSpec`'s steps (refinement) |
| `Enqueue` | `MCEnqueue` | for plain requests, the handlers implement `EnqueueOnce` (refinement); an accepted caller has the one job of its id; a caller that keeps asking is told |
| `Supervision` | `MCSupervision` | one process at work on the file, refusals are true, the served file is current and sorts by time, /readyz is not late, a process ends as a whole |

The environments of `SentinelSafe`: `Hostile` (no L5; crashes, ambiguous and
rejected Creates, Kubernetes and NodeVault failing), `Rollout` (L5; crashes and
SIGTERM), `FailingStore` and `FailingStoreL5a` (any call of the store may fail),
`Fleet` (two processes on one store), `OvertakenFleet` (two processes that
overtake each other again and again, and nothing else) and `Upgrade` (the first
attempt was made by a version without execution identities). The two properties about executions
speak of one process at a time; `OneTerminalRecord` speaks of a store that does
not fail.

Three runs show a disagreement between the code and a comment or a document of
it; TLC is expected to find the property violated (`PROJECT.json`, findings):

| config | what TLC finds |
|---|---|
| `LostRecord` | a crash between ClaimTerminal and the POST: the job succeeds, and neither NodeVault nor the ledger has a record |
| `LateL5a` | a delayed L5-a Create lands beside the L4 Job of the next attempt |
| `InfraFinal` | a container that SIGKILL or an eviction ended is an application failure: the job fails on its first attempt |

### What the passing runs leave out, and why

`SentinelSafe` does not combine every fault with every property. In these
combinations TLC finds the property violated:

* `AtMostOneExecution` and `ReleasedIsQuiet` fail with unanswered L5-a Creates
  (`LateL5a`), and with two processes side by side (`Fleet` without the
  condition on `env.replicas`): EnsureExecution and the Create are not fenced on
  the lease, so both rest on the single process the writer lock enforces.
* Both fail when SIGTERM meets an unanswered L4 Create (`Hostile` with
  `"sigterm"`): the context branch of runSmokeRun (worker.go:607-617) releases an
  adopted identity whose Job was never seen.
* `ReleasedIsQuiet` fails when the Create of an adopted L5-a Job that exists is
  rejected (`CrashingL5a` with `rejected` instead of `unanswered`; l5a.go:129-134).
* `OneTerminalRecord` fails when the store fails (`FailingStore` without the
  condition on `"store"`): claimTerminal lets a record through when the store
  does not answer (worker.go:541).
* `ReportedAsFinished` fails when the store and NodeVault fail together: the POST
  fails and the row that would redeliver it is not written.

`ReportedAsFinished` speaks only of jobs that lost no lease. An attempt that is
overtaken between the check of its lease and the claim (l5a.go:389-393) takes the
slot from the owner of the job; the one record is then its own, and need not
agree with how the job ends. `SlotIsUsed` says that a record comes of it all the
same, unless a process dies (`LostRecord`). These combinations hold without being runs of their own: `Rollout`
with unanswered L4 Creates and no SIGTERM (the five properties before `SlotIsUsed`); `Rollout` with
unanswered and rejected Creates of both stages (the two about records);
`FailingStore` with two processes and crashes (`AtMostOneExecution`,
`ReleasedIsQuiet`, `ReportedAsFinished`).

More statements of comments and documents that do not hold. Their definitions
are in the modules; replace the properties of the config named:

| statement | config | what happens |
|---|---|---|
| `FailureIsTheEnd` (worker.go:427) | `LostRecord` | a crash between the POST of a failure and FailJob: the job runs again and succeeds |
| `RefusedAsksOther` (store.go:711, "semantically a set, not an ordered list") | `Enqueue` with `RepeatBodies` and `RepeatRequests` | a request repeated with an action listed twice asks for the same set of actions and is refused as a different one |
| `AcceptedAsksSame` (store.go:738, "prevents field-concatenation collisions") | `Enqueue` with `NulBodies` and `NulRequests` | two requests whose fields differ in where a NUL stands are hashed as the same text: the second is answered with the job of the first |
| `LeasesCapped` (failureclass.go:99) | `RetryHistory` | leases lost to crashes are reclaimed past `maxAttempts` |
| `InfraIsRetried` (flow spec, line 811) | `InfraFinal` with `Causes = {"oom"}` | decideRetry never retries RESOURCE_OBSERVATION |
| `DryRunFailureIsFinal` (flow spec, line 338) | `LostRecord` with faults `{"kube"}` | a failed dry-run is TRANSIENT_INFRA and is retried |

A smaller one was met while reading CreateJob: its comment speaks of a
"pre-INSERT existence check below", which the code does not have; `Enqueue`
inserts first. `RetryHistory.cfg` leaves the cause `"killed"` to `InfraFinal`,
and `Enqueue.cfg` has plain requests only: no NUL in a field and no action listed
twice.

### Bounds

* `WorkStore`: two jobs, because only LeaseJob's choice of the oldest relates
  jobs to each other; two workers; three leases and two identities per job, so
  that a stale generation, the one that replaced it and a third coexist.
* `Sentinel` follows one job. `MaxAttempts` is 2 (5 in the program), and the
  leases are three or four, so that reclaimed leases occur beside retried ones.
  `env.processes` bounds the crashes (`Replaceable`: a process dies only when
  another can follow). `Reconciles` is 1. `SentinelSafe` has 1.5 million
  distinct states, `SentinelLive` 320,000; the latter includes one environment
  with a failing store, in which `JobFinishes` only asks that the job goes on to
  its last lease, because store errors without end let no attempt finish.
* Time: a lease or claim of 0 ticks is held until the next tick and has lapsed
  after it; a holder may or may not act before the tick, which is all a fence
  can tell apart. Longer leases add only ticks.
* `RetryHistory`: `MaxAttempts` is 7, so that the delay reaches its cap of 30 s
  (with the program's 5 the last retry waits 8 s at most), and two more leases.
* `LedgerCalls`: two jobs, two generations, three claims per job, a batch of one.
* `RedeliverySafe`: two loops, two jobs, a batch of two, one fault (a crash or
  a lost write), backoffs of 4 to 5 ticks, so that the jitter of the first and
  the clamp of the second matter. `RedeliveryLive`: one loop, three jobs, of which one always
  gets a 5xx and one cannot be decoded, and a batch of one.
* `FailedCap` cuts a counter that only `BackoffDuration` reads.
* `Enqueue`: two callers, two ids and a blank one, six requests that differ in
  one respect each (order of actions, a comma in one, none, a blank action, a
  blank tool name), the invalid ones under one id, and one fault, a store error
  or a crash, at any step. A third caller meets the table as the
  second left it, which the proof covers for any number.
* `Supervision`: two processes, one of which may crash, a file left by any
  earlier version, and two instants of one decimal, whose trimmed texts
  sort in the wrong order.

All runs but `WorkStore` switch the deadlock check off: they end in finished
jobs, resolved deliveries, ended processes or an exhausted bound.

### Fairness

`FairLoopSpec`: the ticker and the goroutines keep running, a POST returns (the
HTTP client has a timeout), time passes and a job being worked on is finished.
NodeVault at last answers a record that is sent again and again (strong
fairness: it may be down any number of times before).

`FairSentinelSpec`: a request arrives, a dead process is replaced (by its
Deployment), a running attempt goes on (each call returns or times out), time
passes. Crashes are finitely many. Nothing is assumed of the cluster, whose
silence ends in a timeout.

`EnqueueSpec`: a handler runs on, and a caller without an answer asks again.

`SupervisionSpec`: SQLite answers, transactions end, goroutines are scheduled and
RPCs return. Nobody has to send a signal, a probe or an RPC.

## Proofs

Every safety property of the passing runs is also a theorem, for every value of
the constants the modules' ASSUMEs admit. In brackets, the property, where the
theorem's name is not that of the property.

| module | theorems |
|---|---|
| `WorkStoreProofs` | `StoreTypeCorrect`, `VerdictsFenced` (OneVerdictPerLease), `FinalityHolds` (FinishedStaysFinished), `ReleaseRule` (ReplacedWasReported) |
| `SentinelProofs` | `SentinelImplementsStore` (StoreUsedAsSpecified), and from it `FleetVerdictsFenced`, `FleetFinality`, `FleetReleaseRule`; `SentinelTyped` |
| `PipelineProofs` | `OneRecordTold` (OneTerminalRecord), `ToldAsItEnded` (ReportedAsFinished), `SlotNotWasted` (SlotIsUsed) |
| `ExecutionProofs` | `OneExecution` (AtMostOneExecution), `QuietRelease` (ReleasedIsQuiet) |
| `LedgerProofs` | of `LedgerCalls`: `LedgerTyped`, `OutcomesFenced` (OneOutcomePerClaim), `PayloadOwned` (PayloadIsSlotOwners), `GraphHolds` (LedgerGraph); of `Redelivery`: `LoopsTyped`, `LedgerTruthful` (LedgerTellsTruth), `SingleClaimant` (OneClaimant) |
| `RetryProofs` | `HistoryTyped`, `PolicyHolds` (RetriedAsStated), `WaitsFollowSchedule` (WaitsBackOff) |
| `EnqueueProofs` | `EnqueueTyped`, `FingerprintTells`, `PlainTells`, `AcceptedIsTheOneJob` (OneJobPerRequest), `HandlersKeepPromise` (EnqueuesOnce) |
| `SupervisionProofs` | of `WriterLock`: `OpenersExclude` (OpenIsAlone), `RefusalIsTrue` (RefusedByAWriter); of `Supervision`: `SupervisionImplementsLock`, `ProcessesExclude`, `UsersExclude` (UsersHaveItOpen), `ReadyIsTimely` (ReadyIsNotLate), `ParseInverts`, `FileServedIsCurrent` (ServesCurrentFile), `SupervisionTyped` |

The assumptions are those of the program's own limits: the counts, intervals and
bounds are numbers, `MaxAttempts` and the batch limit are not 0, the base backoff
does not exceed the largest; the jobs of a ledger and the loops over it are
finitely many; a null value is none of the values it stands for; the instants at
which rows are inserted have a fixed number of digits and increase; `Sentinel`
follows one job. Workers, processes, callers, openers, ids, requests and
environments are arbitrary sets.

Some theorems carry a hypothesis, each the one the code needs:

* `FingerprintTells` speaks of requests without a NUL in any field (see
  `AcceptedAsksSame`); `PlainTells` and `HandlersKeepPromise` of plain requests, in
  which moreover no action is listed twice (see `RefusedAsksOther`).
* `PolicyHolds` assumes `"killed" \notin Causes`: a container that something else
  kills looks to classifyFromPods like one that exited by itself (`InfraFinal`).
* `OneExecution` and `QuietRelease` speak of `Orderly` environments: one process at
  a time, no Create of L5-a that is lost or rejected, and no SIGTERM where a Create
  of L4 may get no answer. Every single-process environment of `SentinelSafe` is
  orderly; what happens in the others is told under "What the passing runs leave
  out". Everything else may go wrong in any number: crashes, lapsed leases, errors
  of the store and of Kubernetes, rejected and unanswered Creates of L4 that land
  late, Jobs of a version without identities.

*The store.* `OneVerdictPerLease` is not inductive: it does not say why a stale
call is refused. `LeaseInv` adds that a row has an owner exactly while it is
leased or running, that no verdict comes from a generation later than the
current one, and that while a lease is held its own generation has not decided
yet. A call that passes the fence on owner and attempt is then the first verdict
of the newest generation. `FinalityHolds` follows from the same invariant: a
finished row has no owner, so no fence lets a call through, although CompleteJob
and the final FailJob never test the status. `ReleaseRule` rests on
`ExecutionInv`, which adds that a row without an identity carries no terminal flag.

*Workers over the store.* `StoreSpec` lets only the holder of a generation call
with it, and only report identities that were drawn. That the pipeline respects
this takes an invariant over all its steps, `SentinelInv`: an attempt in progress
was granted to the very worker that carries it on, and the identity it uses has
been drawn. It survives the steps of others because the store never takes a
generation or an identity back (`Grows`). The theorems of the store then hold of
any number of processes in any environment. `PipeTypes` adds the types of the
cluster, the ledger and the records.

*The terminal record.* `PipeInv` follows a report from the decision to the
verdict. A report says what becomes of the job (`Sound`), so the record and the
verdict agree. A worker between its claim and its verdict owns the slot, unless
the store failed it; before that NodeVault and the ledger have nothing
(`SlotInv`). An attempt that owns the slot never asks for a retry. So when every
attempt got its verdict (`Spaced`: as many verdicts as attempts means one each),
the slot is the last attempt's, and its record says how the job ended. `HandInv`
adds who has the record of a slot that is taken: NodeVault, the ledger, or a
worker that is about to send it, as long as none has died.

*The Jobs of a validation.* `JobsInv` has three parts. Of the cluster
(`ClusterInv`): nothing is there for an identity not minted yet, nothing
executes and no Create is under way for a released one, a Job of L5-a comes only
after the smoke-run of its identity is over, and a row with an identity has no
legacy Job. Of the worker (`StageAt`): from EnsureExecution to its report it
works under the identity of the row, which nobody released, and it knows of the
cluster what the point it is at says; a fresh identity has no Job, for one, and
while a worker waits for L5-a no smoke-run executes. And there is only one
worker (`Alone`). Steps are proved by kind: those that only look, that release,
that delete, that create, that take or mint an identity, those away from the
cluster, and the cluster's own. Every release then finds both Jobs of its
identity at an end, and two Jobs that execute have the same identity and the
same stage.

*The ledger.* `LedgerInv`: a row has a token exactly while it is being delivered,
that token is the newest drawn, every outcome accepted so far carries an older
one, and the payload kept is that of the slot's owner. *The loops.* `LoopInv`: two
loops never hold the same token for a job, a goroutine that is about to write an
outcome has seen what the outcome says, and the rows are true already.

*The retry policy.* The classifier is proved to tell apart what the policy tells
apart, kind by kind (`ClassOfKind`). `HistoryInv` orders the failures by attempt
and ties each wait to its failure; `JudgedAsStated` says what the marker in
last_error stands for: the failure before was one of which nothing could be told.
The waits are `RetryDelay`'s, whose doubling loop is shown to reach the power of
two that the documentation states (`CapValue`).

*The lock.* `LockInv` says which levels may be held together and that whoever
contends beside a writer has it in its history. `StuckByAWriter` is the heart of
`RefusalIsTrue`: when none of the contenders can move, they are held up by an
EXCLUSIVE lock, never by each other.

*Processes.* Every step of `Supervision` is one of `WriterLock` or leaves the
lock alone, so the facts about openers carry over. `ProcessInv` adds that an RPC
is handled by a server that has not ended, and that a process without an open
store has nothing left to run, which is the order of shutdown in main.
`ReadyInv`: a flag is up exactly while its loop runs, and a request that came late
finds the delivery loop ended. `FileInv`: a process stands where its migrations
are, no column is ever dropped, every row tells its instant in the old or in the
new form, and while a process has the store open behind normalizeTimestamps all
are in the new form, in which the order of the texts is that of the instants.

*The enqueue path.* `EnqueueInv`: one row per id with the fingerprint of its
request, a handler about to insert has validated its request, and one with a job
to answer with found it under its id and its own fingerprint. `FingerprintTells`
turns equal fingerprints into equal requests, for texts and lists of any length.
The hashed text is decoded from the front: the first field ends at the first NUL
(`FieldUnique`), and by induction so do the others (`WrittenApart`), so equal texts
have the same list of fields, and with it the same sorted actions (`FieldsApart`);
the other way round, two ordered rearrangements of the same actions are equal
(`OrderUnique`). When no action is listed twice, the same bag is the same set
(`PlainTells`). With it each statement of a handler is a step of `EnqueueOnce` or
none.

Model-checked only: the liveness properties (`EveryDeliveryResolved`,
`JobFinishes`, `CallerLearns`, `OpenedIsServed`, `EndsAsAWhole`), because the
prover does not reason about fairness; and what TLC shows to be violated, which is
a matter of one counterexample.

## Not modelled

* Metrics (written, never read back), logging, construction of the Kubernetes
  client (its failure is a choice of `Spawn`), generated gRPC stubs.
* The specs of Kubernetes Jobs and the texts of records: no decision of the
  program depends on them, except as `RetryPolicy` and `RetryHistory` model.
* Several jobs in `Sentinel`: jobs meet only in LeaseJob and
  ClaimPendingDeliveries, which `WorkStore`, `LedgerCalls` and `Redelivery` cover.
* A store that fails together with NodeVault, beyond what is noted above.
* Corruption or loss of the database file.
