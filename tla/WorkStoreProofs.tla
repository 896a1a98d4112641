-------------------------- MODULE WorkStoreProofs --------------------------
(***************************************************************************)
(* Proofs about the WorkStore for every set of jobs and workers, every     *)
(* lease duration and every bound: the type invariant, one verdict per     *)
(* lease generation, finality of finished jobs, and the release rule of    *)
(* execution identities.                                                   *)
(***************************************************************************)
EXTENDS WorkStore, TLAPS

USE ZenonT(30)

(***************************************************************************)
(* The inductive invariant behind OneVerdictPerLease.  A row has an owner  *)
(* exactly while it is leased or running: that is what makes the owner     *)
(* fence of CompleteJob, which does not test the status, reject every call *)
(* on a queued or finished row.  And while a lease is held, no verdict of  *)
(* its own generation has been accepted yet.                               *)
(***************************************************************************)
JobLeaseInv(j) ==
  LET v == verdicts[j] IN
    /\ created[j] = 0 <=> status[j] = "none"
    /\ owner[j] # NoWorker <=> status[j] \in Active
    /\ Len(holders[j]) = attempt[j]
    /\ \A i \in 1..Len(v) : v[i].attempt <= attempt[j]
    /\ status[j] \in Active => \A i \in 1..Len(v) : v[i].attempt < attempt[j]
    /\ \A i, k \in 1..Len(v) : i < k => v[i].attempt < v[k].attempt
    /\ \A i \in 1..Len(v) :
         v[i].kind \in Final =>
           i = Len(v) /\ v[i].attempt = attempt[j] /\ status[j] = v[i].kind
    /\ status[j] \in Final => Len(v) > 0 /\ v[Len(v)].kind = status[j]

LeaseInv == StoreTypeOK /\ \A j \in Jobs : JobLeaseInv(j)

----------------------------------------------------------------------------
(* What a verdict does to the table's types, whichever call it came from. *)
LEMMA ConcludeTypeOK ==
  ASSUME StoreTypeOK, NEW j \in Jobs, NEW a \in Nat,
         NEW kind \in {"queued"} \cup Final, Conclude(j, a, kind),
         retryIn' \in [Jobs -> 0..MaxDelay]
  PROVE  StoreTypeOK'
  <1>1. [attempt |-> a, kind |-> kind] \in Verdict
    BY DEF Verdict
  <1>2. Append(verdicts[j], [attempt |-> a, kind |-> kind]) \in Seq(Verdict)
    BY <1>1, SMTT(30) DEF StoreTypeOK
  <1>3. verdicts' \in [Jobs -> Seq(Verdict)]
    BY <1>2 DEF Conclude, StoreTypeOK
  <1>4. status' \in [Jobs -> Status] /\ owner' \in [Jobs -> Workers \cup {NoWorker}]
    BY DEF Conclude, StoreTypeOK, Status
  <1>5. lease' \in [Jobs -> -1..LeaseTTL]
    BY StoreConstants, SMTT(30) DEF Conclude, StoreTypeOK
  <1>6. UNCHANGED <<rows, created, attempt, holders, execution, executionTerminal, reports>>
    BY DEF Conclude, executionVars
  <1>7. QED
    BY <1>3, <1>4, <1>5, <1>6 DEF StoreTypeOK

(* Type correctness is preserved by every operation of the store. *)
LEMMA StoreTypeStep == StoreTypeOK /\ [StoreNext]_storeVars => StoreTypeOK'
  <1> SUFFICES ASSUME StoreTypeOK, [StoreNext]_storeVars
               PROVE  StoreTypeOK'
    OBVIOUS
  <1>1. ASSUME NEW j \in Jobs, CreateJob(j)
        PROVE  StoreTypeOK'
    BY <1>1, SMTT(30) DEF CreateJob, StoreTypeOK, Status, executionVars
  <1>2. ASSUME NEW j \in Jobs, NEW w \in Workers, LeaseJob(j, w)
        PROVE  StoreTypeOK'
    <2>1. Append(holders[j], w) \in Seq(Workers)
      BY SMTT(30) DEF StoreTypeOK
    <2>2. status' \in [Jobs -> Status] /\ owner' \in [Jobs -> Workers \cup {NoWorker}]
      BY <1>2 DEF LeaseJob, StoreTypeOK, Status, Active
    <2>3. attempt' \in [Jobs -> Nat] /\ holders' \in [Jobs -> Seq(Workers)]
      BY <1>2, <2>1, SMTT(30) DEF LeaseJob, StoreTypeOK
    <2>4. lease' \in [Jobs -> -1..LeaseTTL] /\ retryIn' \in [Jobs -> 0..MaxDelay]
      BY <1>2, StoreConstants, SMTT(30) DEF LeaseJob, StoreTypeOK
    <2>5. UNCHANGED <<rows, created, verdicts, execution, executionTerminal, reports>>
      BY <1>2 DEF LeaseJob, executionVars
    <2>6. QED
      BY <2>2, <2>3, <2>4, <2>5 DEF StoreTypeOK
  <1>3. ASSUME NEW j \in Jobs, NEW a \in 1..attempt[j], LeaseCall(j, a)
        PROVE  StoreTypeOK'
    <2> DEFINE w == holders[j][a]
    <2>0. a \in Nat
      BY SMTT(30) DEF StoreTypeOK
    <2>1. CASE Heartbeat(j, w, a)
      <3>1. status' \in [Jobs -> Status]
        BY <2>1 DEF Heartbeat, StoreTypeOK, Status, Active
      <3>2. lease' \in [Jobs -> -1..LeaseTTL]
        BY <2>1, StoreConstants, SMTT(30) DEF Heartbeat, StoreTypeOK
      <3>3. UNCHANGED <<rows, created, attempt, owner, retryIn, holders, verdicts,
                        execution, executionTerminal, reports>>
        BY <2>1 DEF Heartbeat, executionVars
      <3>4. QED
        BY <3>1, <3>2, <3>3 DEF StoreTypeOK
    <2>2. CASE CompleteJob(j, w, a)
      BY <2>0, <2>2, ConcludeTypeOK DEF CompleteJob, StoreTypeOK, Final
    <2>3. CASE FailJobForGood(j, w, a)
      BY <2>0, <2>3, ConcludeTypeOK DEF FailJobForGood, StoreTypeOK, Final
    <2>4. ASSUME NEW delay \in 0..MaxDelay, FailJobRetryable(j, w, a, delay)
          PROVE  StoreTypeOK'
      <3>1. retryIn' \in [Jobs -> 0..MaxDelay]
        BY <2>4 DEF FailJobRetryable, StoreTypeOK
      <3>2. QED
        BY <2>0, <2>4, <3>1, ConcludeTypeOK DEF FailJobRetryable
    <2>5. QED
      BY <1>3, <2>1, <2>2, <2>3, <2>4 DEF LeaseCall
  <1>4. ASSUME NEW j \in Jobs, EnsureExecution(j)
        PROVE  StoreTypeOK'
    <2>1. execution' \in [Jobs -> Nat] /\ executionTerminal' \in [Jobs -> BOOLEAN]
      <3>1. CASE Adoptable(j)
        BY <1>4, <3>1 DEF EnsureExecution, StoreTypeOK
      <3>2. CASE ~Adoptable(j)
        <4>1. /\ execution' = [execution EXCEPT ![j] = @ + 1]
              /\ executionTerminal' = [executionTerminal EXCEPT ![j] = FALSE]
          BY <1>4, <3>2 DEF EnsureExecution
        <4>2. QED
          BY <4>1, SMTT(30) DEF StoreTypeOK
      <3>3. QED
        BY <3>1, <3>2
    <2>2. QED
      BY <1>4, <2>1 DEF EnsureExecution, StoreTypeOK, leaseVars
  <1>5. ASSUME NEW j \in Jobs, NEW e \in 1..execution[j], MarkExecutionTerminal(j, e)
        PROVE  StoreTypeOK'
    <2>1. e \in Nat
      BY SMTT(30) DEF StoreTypeOK
    <2>2. (executionTerminal[j] \/ execution[j] = e) \in BOOLEAN
      OBVIOUS
    <2>3. executionTerminal' \in [Jobs -> BOOLEAN]
      BY <1>5, <2>2 DEF MarkExecutionTerminal, StoreTypeOK
    <2>4. QED
      BY <1>5, <2>1, <2>3 DEF MarkExecutionTerminal, StoreTypeOK, leaseVars
  <1>6. CASE StoreTick
    <2>1. \A j \in Jobs : Sooner(lease[j], -1) \in -1..LeaseTTL
      BY StoreConstants, SMTT(30) DEF StoreTypeOK, Sooner
    <2>2. \A j \in Jobs : Sooner(retryIn[j], 0) \in 0..MaxDelay
      BY StoreConstants, SMTT(30) DEF StoreTypeOK, Sooner
    <2>3. QED
      BY <1>6, <2>1, <2>2 DEF StoreTick, StoreTypeOK, executionVars
  <1>7. CASE UNCHANGED storeVars
    BY <1>7 DEF storeVars, leaseVars, executionVars, StoreTypeOK
  <1>8. QED
    BY <1>1, <1>2, <1>3, <1>4, <1>5, <1>6, <1>7 DEF StoreNext

(* The empty table is well typed. *)
LEMMA StoreTypeInit == StoreInit => StoreTypeOK
  BY StoreConstants, SMTT(30) DEF StoreInit, StoreTypeOK, Status

(***************************************************************************)
(* Every column of the jobs table keeps its type under every sequence of   *)
(* store calls, current or stale.                                          *)
(***************************************************************************)
THEOREM StoreTypeCorrect == StoreSpec => []StoreTypeOK
  <1>1. StoreInit => StoreTypeOK
    BY StoreTypeInit
  <1>2. StoreTypeOK /\ [StoreNext]_storeVars => StoreTypeOK'
    BY StoreTypeStep
  <1>3. QED
    BY <1>1, <1>2, PTL DEF StoreSpec

----------------------------------------------------------------------------
(* A step that leaves a job's lease columns alone keeps its invariant. *)
LEMMA LeaseFrame ==
  ASSUME NEW k \in Jobs, JobLeaseInv(k),
         created'[k] = created[k], status'[k] = status[k], attempt'[k] = attempt[k],
         owner'[k] = owner[k], holders'[k] = holders[k], verdicts'[k] = verdicts[k]
  PROVE  JobLeaseInv(k)'
  BY DEF JobLeaseInv

(* The attempt of an accepted verdict is a number. *)
LEMMA VerdictAttempts ==
  ASSUME StoreTypeOK, NEW j \in Jobs
  PROVE  /\ verdicts[j] \in Seq(Verdict)
         /\ Len(verdicts[j]) \in Nat
         /\ \A i \in 1..Len(verdicts[j]) : verdicts[j][i].attempt \in Nat
  <1>1. verdicts[j] \in Seq(Verdict)
    BY DEF StoreTypeOK
  <1>2. \A i \in 1..Len(verdicts[j]) : verdicts[j][i] \in Verdict
    BY <1>1, SMTT(30)
  <1>3. \A r \in Verdict : r.attempt \in Nat
    BY DEF Verdict
  <1>4. QED
    BY <1>1, <1>2, <1>3, SMTT(30)

(***************************************************************************)
(* An accepted verdict is the first of its lease generation: the caller    *)
(* still owns the row, so the row is active and every earlier verdict is   *)
(* of an earlier attempt and requeued the job.                             *)
(***************************************************************************)
LEMMA ConcludeLeaseInv ==
  ASSUME LeaseInv, NEW j \in Jobs, NEW w \in Workers, NEW a \in Nat,
         NEW kind \in {"queued"} \cup Final,
         HoldsLease(j, w, a), Conclude(j, a, kind)
  PROVE  \A k \in Jobs : JobLeaseInv(k)'
  <1> USE DEF LeaseInv
  <1>1. ASSUME NEW k \in Jobs, k # j
        PROVE  JobLeaseInv(k)'
    BY <1>1, LeaseFrame DEF Conclude, StoreTypeOK
  <1>2. JobLeaseInv(j)'
    <2> DEFINE v == verdicts[j]
               r == [attempt |-> a, kind |-> kind]
    <2>1. status[j] \in Active /\ a = attempt[j]
      BY StoreConstants DEF JobLeaseInv, HoldsLease
    <2>2. /\ v \in Seq(Verdict)
          /\ \A i \in 1..Len(v) : v[i].attempt \in Nat
      BY VerdictAttempts
    <2>3. \A i \in 1..Len(v) : v[i].attempt < a /\ v[i].kind \notin Final
      BY <2>1 DEF JobLeaseInv, Active, Final
    <2>4. /\ status'[j] = kind /\ owner'[j] = NoWorker /\ attempt'[j] = a
          /\ created'[j] = created[j] /\ holders'[j] = holders[j]
          /\ verdicts'[j] = Append(v, r)
      BY <2>1 DEF Conclude, StoreTypeOK
    <2>5. /\ Len(verdicts'[j]) = Len(v) + 1
          /\ \A i \in 1..Len(v) : verdicts'[j][i] = v[i]
          /\ verdicts'[j][Len(v) + 1] = r
      BY <2>2, <2>4, SMTT(30)
    <2>6. Len(v) \in Nat /\ a \in Nat /\ r.attempt = a /\ r.kind = kind
      BY <2>2, SMTT(30)
    <2>7. /\ created'[j] = 0 <=> status'[j] = "none"
          /\ owner'[j] # NoWorker <=> status'[j] \in Active
          /\ Len(holders'[j]) = attempt'[j]
          /\ status'[j] \notin Active
      BY <2>1, <2>4 DEF JobLeaseInv, Active, Final
    <2>8. \A i, k \in 1..Len(verdicts'[j]) :
            i < k => verdicts'[j][i].attempt < verdicts'[j][k].attempt
      <3>1. \A i, k \in 1..Len(v) : i < k => v[i].attempt < v[k].attempt
        BY DEF JobLeaseInv
      <3>2. \A i \in 1..Len(v) + 1 : i \in 1..Len(v) \/ i = Len(v) + 1
        BY <2>6, SMTT(30)
      <3> SUFFICES ASSUME NEW i \in 1..Len(v) + 1, NEW k \in 1..Len(v) + 1, i < k
                   PROVE  verdicts'[j][i].attempt < verdicts'[j][k].attempt
        BY <2>5
      <3>3. i \in 1..Len(v)
        BY <2>6, SMTT(30)
      <3>4. CASE k \in 1..Len(v)
        BY <2>5, <3>1, <3>3, <3>4
      <3>5. CASE k = Len(v) + 1
        BY <2>3, <2>5, <2>6, <3>3, <3>5
      <3>6. QED
        BY <3>2, <3>4, <3>5
    <2>9. \A i \in 1..Len(verdicts'[j]) :
            /\ verdicts'[j][i].attempt <= attempt'[j]
            /\ verdicts'[j][i].kind \in Final => i = Len(verdicts'[j])
      BY <2>2, <2>3, <2>4, <2>5, <2>6, SMTT(30)
    <2>10. /\ verdicts'[j][Len(verdicts'[j])] = r
           /\ Len(verdicts'[j]) > 0
      BY <2>5, <2>6, SMTT(30)
    <2>11. QED
      BY <2>4, <2>6, <2>7, <2>8, <2>9, <2>10 DEF JobLeaseInv
  <1>3. QED
    BY <1>1, <1>2

(* The lease invariant is preserved by every operation of the store. *)
LEMMA LeaseInvStep == LeaseInv /\ [StoreNext]_storeVars => LeaseInv'
  <1> SUFFICES ASSUME LeaseInv, [StoreNext]_storeVars
               PROVE  \A k \in Jobs : JobLeaseInv(k)'
    BY StoreTypeStep DEF LeaseInv
  <1> USE DEF LeaseInv
  <1>1. ASSUME NEW j \in Jobs, CreateJob(j), NEW k \in Jobs
        PROVE  JobLeaseInv(k)'
    <2>1. CASE k # j
      BY <1>1, <2>1, LeaseFrame DEF CreateJob, StoreTypeOK
    <2>2. CASE k = j
      <3>1. status[j] = "none"
        BY <1>1 DEF CreateJob, JobLeaseInv
      <3>2. /\ status'[j] = "queued" /\ created'[j] # 0
            /\ attempt'[j] = attempt[j] /\ owner'[j] = owner[j]
            /\ holders'[j] = holders[j] /\ verdicts'[j] = verdicts[j]
        BY <1>1, SMTT(30) DEF CreateJob, StoreTypeOK
      <3>3. QED
        BY <2>2, <3>1, <3>2, SMTT(30) DEF JobLeaseInv, Active, Final
    <2>3. QED
      BY <2>1, <2>2
  <1>2. ASSUME NEW j \in Jobs, NEW w \in Workers, LeaseJob(j, w), NEW k \in Jobs
        PROVE  JobLeaseInv(k)'
    <2>1. CASE k # j
      BY <1>2, <2>1, LeaseFrame DEF LeaseJob, StoreTypeOK
    <2>2. CASE k = j
      <3>1. status[j] = "queued" \/ status[j] \in Active
        BY <1>2 DEF LeaseJob, Leaseable, Due, Lapsed
      <3>2. /\ status'[j] = "leased" /\ owner'[j] = w /\ attempt'[j] = attempt[j] + 1
            /\ created'[j] = created[j] /\ verdicts'[j] = verdicts[j]
            /\ holders'[j] = Append(holders[j], w)
        BY <1>2 DEF LeaseJob, StoreTypeOK
      <3>3. Len(holders'[j]) = attempt'[j]
        <4>1. Len(holders[j]) = attempt[j]
          BY DEF JobLeaseInv
        <4>2. holders[j] \in Seq(Workers)
          BY DEF StoreTypeOK
        <4>3. QED
          BY <3>2, <4>1, <4>2, SMTT(30)
      <3>4. \A i \in 1..Len(verdicts[j]) : verdicts[j][i].attempt \in Nat
        BY VerdictAttempts
      <3>5. \A i \in 1..Len(verdicts[j]) :
              verdicts[j][i].attempt < attempt'[j] /\ verdicts[j][i].kind \notin Final
        <4>1. \A i \in 1..Len(verdicts[j]) : verdicts[j][i].attempt <= attempt[j]
          BY DEF JobLeaseInv
        <4>2. \A i \in 1..Len(verdicts[j]) : verdicts[j][i].kind \notin Final
          BY <3>1 DEF JobLeaseInv, Active, Final
        <4>3. attempt[j] \in Nat
          BY DEF StoreTypeOK
        <4>4. QED
          BY <3>2, <3>4, <4>1, <4>2, <4>3, SMTT(30)
      <3>6. w # NoWorker
        BY StoreConstants
      <3>7. QED
        <4>1. status'[j] \in Active /\ status'[j] \notin Final /\ status'[j] \notin {"none", "queued"}
          BY <3>2 DEF Active, Final
        <4>2. created[j] # 0
          BY <3>1 DEF JobLeaseInv, Active
        <4>3. attempt[j] \in Nat /\ \A i \in 1..Len(verdicts[j]) : verdicts[j][i].attempt <= attempt[j]
          BY DEF StoreTypeOK, JobLeaseInv
        <4>4. \A i \in 1..Len(verdicts[j]) : verdicts[j][i].attempt <= attempt'[j]
          BY <3>2, <3>4, <4>3, SMTT(30)
        <4>5. \A i, l \in 1..Len(verdicts[j]) : i < l => verdicts[j][i].attempt < verdicts[j][l].attempt
          BY DEF JobLeaseInv
        <4>6. QED
          BY <2>2, <3>2, <3>3, <3>5, <3>6, <4>1, <4>2, <4>4, <4>5 DEF JobLeaseInv
    <2>3. QED
      BY <2>1, <2>2
  <1>3. ASSUME NEW j \in Jobs, NEW a \in 1..attempt[j], LeaseCall(j, a)
        PROVE  \A k \in Jobs : JobLeaseInv(k)'
    <2> DEFINE w == holders[j][a]
    <2>1. a \in Nat /\ w \in Workers
      BY SMTT(30) DEF StoreTypeOK, JobLeaseInv
    <2>2. CASE Heartbeat(j, w, a)
      <3>1. ASSUME NEW k \in Jobs, k # j
            PROVE  JobLeaseInv(k)'
        BY <2>2, <3>1, LeaseFrame DEF Heartbeat, StoreTypeOK
      <3>2. JobLeaseInv(j)'
        BY <2>2 DEF Heartbeat, StoreTypeOK, JobLeaseInv, Active, Final
      <3>3. QED
        BY <3>1, <3>2
    <2>3. CASE CompleteJob(j, w, a)
      BY <2>1, <2>3, ConcludeLeaseInv DEF CompleteJob, Final
    <2>4. CASE FailJobForGood(j, w, a)
      BY <2>1, <2>4, ConcludeLeaseInv DEF FailJobForGood, Final
    <2>5. ASSUME NEW delay \in 0..MaxDelay, FailJobRetryable(j, w, a, delay)
          PROVE  \A k \in Jobs : JobLeaseInv(k)'
      BY <2>1, <2>5, ConcludeLeaseInv DEF FailJobRetryable
    <2>6. QED
      BY <1>3, <2>2, <2>3, <2>4, <2>5 DEF LeaseCall
  <1>4. ASSUME UNCHANGED <<created, status, attempt, owner, holders, verdicts>>, NEW k \in Jobs
        PROVE  JobLeaseInv(k)'
    BY <1>4, LeaseFrame
  <1>5. ASSUME NEW j \in Jobs, EnsureExecution(j)
        PROVE  \A k \in Jobs : JobLeaseInv(k)'
    BY <1>4, <1>5 DEF EnsureExecution, leaseVars
  <1>6. ASSUME NEW j \in Jobs, NEW e \in 1..execution[j], MarkExecutionTerminal(j, e)
        PROVE  \A k \in Jobs : JobLeaseInv(k)'
    BY <1>4, <1>6 DEF MarkExecutionTerminal, leaseVars
  <1>7. CASE StoreTick
    BY <1>4, <1>7 DEF StoreTick
  <1>8. CASE UNCHANGED storeVars
    BY <1>4, <1>8 DEF storeVars, leaseVars
  <1>9. QED
    BY <1>1, <1>2, <1>3, <1>5, <1>6, <1>7, <1>8 DEF StoreNext

(* The empty table satisfies it. *)
LEMMA LeaseInvInit == StoreInit => LeaseInv
  BY StoreTypeInit, SMTT(30) DEF StoreInit, LeaseInv, JobLeaseInv, Active, Final

(***************************************************************************)
(* For every number of jobs and workers, and however late, duplicated or   *)
(* reordered the calls of superseded attempts are: a job gets at most one  *)
(* verdict per lease generation, and nothing follows a final one.          *)
(***************************************************************************)
THEOREM VerdictsFenced == StoreSpec => []OneVerdictPerLease
  <1>1. LeaseInv => OneVerdictPerLease
    BY DEF LeaseInv, JobLeaseInv, OneVerdictPerLease
  <1>2. QED
    BY <1>1, LeaseInvInit, LeaseInvStep, PTL DEF StoreSpec

----------------------------------------------------------------------------
(* What a step may do to a finished row: nothing. *)
FinishedKept == \A j \in Jobs :
  status[j] \in Final =>
    status'[j] = status[j] /\ attempt'[j] = attempt[j] /\ owner'[j] = owner[j]

(* No step of the store touches a finished row. *)
LEMMA FinishedStep == LeaseInv /\ [StoreNext]_storeVars => FinishedKept
  <1> SUFFICES ASSUME LeaseInv, [StoreNext]_storeVars,
                      NEW k \in Jobs, status[k] \in Final
               PROVE  status'[k] = status[k] /\ attempt'[k] = attempt[k] /\ owner'[k] = owner[k]
    BY DEF FinishedKept
  <1> USE DEF LeaseInv
  <1>0. /\ created[k] # 0 /\ status[k] # "queued" /\ status[k] \notin Active
        /\ owner[k] = NoWorker
    BY DEF JobLeaseInv, Active, Final
  <1>1. ASSUME NEW j \in Jobs, CreateJob(j)
        PROVE  status'[k] = status[k] /\ attempt'[k] = attempt[k] /\ owner'[k] = owner[k]
    BY <1>0, <1>1 DEF CreateJob, StoreTypeOK
  <1>2. ASSUME NEW j \in Jobs, NEW w \in Workers, LeaseJob(j, w)
        PROVE  status'[k] = status[k] /\ attempt'[k] = attempt[k] /\ owner'[k] = owner[k]
    <2>1. j # k
      BY <1>0, <1>2 DEF LeaseJob, Leaseable, Due, Lapsed
    <2>2. QED
      BY <1>2, <2>1 DEF LeaseJob, StoreTypeOK
  <1>3. ASSUME NEW j \in Jobs, NEW a \in 1..attempt[j], LeaseCall(j, a)
        PROVE  status'[k] = status[k] /\ attempt'[k] = attempt[k] /\ owner'[k] = owner[k]
    <2> DEFINE w == holders[j][a]
    <2>1. w \in Workers
      <3>1. holders[j] \in Seq(Workers)
        BY DEF StoreTypeOK
      <3>2. Len(holders[j]) = attempt[j]
        BY DEF JobLeaseInv
      <3>3. QED
        BY <3>1, <3>2, SMTT(30)
    <2>2. HoldsLease(j, w, a) => j # k
      BY <1>0, <2>1, StoreConstants DEF HoldsLease
    <2>3. CASE Heartbeat(j, w, a)
      BY <2>2, <2>3 DEF Heartbeat, StoreTypeOK
    <2>4. CASE CompleteJob(j, w, a)
      BY <2>2, <2>4 DEF CompleteJob, Conclude, StoreTypeOK
    <2>5. CASE FailJobForGood(j, w, a)
      BY <2>2, <2>5 DEF FailJobForGood, Conclude, StoreTypeOK
    <2>6. CASE \E delay \in 0..MaxDelay : FailJobRetryable(j, w, a, delay)
      BY <2>2, <2>6 DEF FailJobRetryable, Conclude, StoreTypeOK
    <2>7. QED
      BY <1>3, <2>3, <2>4, <2>5, <2>6 DEF LeaseCall
  <1>4. ASSUME NEW j \in Jobs, EnsureExecution(j)
        PROVE  status'[k] = status[k] /\ attempt'[k] = attempt[k] /\ owner'[k] = owner[k]
    BY <1>4 DEF EnsureExecution, leaseVars
  <1>5. ASSUME NEW j \in Jobs, NEW e \in 1..execution[j], MarkExecutionTerminal(j, e)
        PROVE  status'[k] = status[k] /\ attempt'[k] = attempt[k] /\ owner'[k] = owner[k]
    BY <1>5 DEF MarkExecutionTerminal, leaseVars
  <1>6. CASE StoreTick
    BY <1>6 DEF StoreTick
  <1>7. CASE UNCHANGED storeVars
    BY <1>7 DEF storeVars, leaseVars
  <1>8. QED
    BY <1>1, <1>2, <1>3, <1>4, <1>5, <1>6, <1>7 DEF StoreNext

(***************************************************************************)
(* No call of any attempt, and no LeaseJob, ever touches the lease columns *)
(* of a succeeded or failed row.                                           *)
(***************************************************************************)
THEOREM FinalityHolds == StoreSpec => FinishedStaysFinished
  <1>1. LeaseInv /\ [StoreNext]_storeVars => [FinishedKept]_storeVars
    BY FinishedStep
  <1>2. StoreSpec => [][FinishedKept]_storeVars
    BY <1>1, LeaseInvInit, LeaseInvStep, PTL DEF StoreSpec
  <1>3. QED
    BY <1>2 DEF FinishedStaysFinished, FinishedKept

----------------------------------------------------------------------------
(* The release invariant of one job's execution identity. *)
JobExecutionInv(j) ==
  /\ execution[j] = 0 => ~executionTerminal[j]
  /\ \A e \in 1..execution[j] :
       e < execution[j] \/ executionTerminal[j] => e \in reports[j]
  /\ reports[j] \subseteq 1..execution[j]

ExecutionInv == StoreTypeOK /\ \A j \in Jobs : JobExecutionInv(j)

(* A row whose identity stays what it is. *)
LEMMA ExecutionFrame ==
  ASSUME NEW k \in Jobs, JobExecutionInv(k), execution'[k] = execution[k],
         executionTerminal'[k] = executionTerminal[k], reports'[k] = reports[k]
  PROVE  JobExecutionInv(k)'
  BY DEF JobExecutionInv

(***************************************************************************)
(* Only EnsureExecution and MarkExecutionTerminal write the identity; a    *)
(* mint needs the old identity to carry the flag, and the flag needs a     *)
(* report of that very identity.                                           *)
(***************************************************************************)
LEMMA ExecutionInvStep == ExecutionInv /\ [StoreNext]_storeVars => ExecutionInv'
  <1> SUFFICES ASSUME ExecutionInv, [StoreNext]_storeVars
               PROVE  \A k \in Jobs : JobExecutionInv(k)'
    BY StoreTypeStep DEF ExecutionInv
  <1> USE DEF ExecutionInv
  <1>1. ASSUME UNCHANGED executionVars, NEW k \in Jobs
        PROVE  JobExecutionInv(k)'
    BY <1>1, ExecutionFrame DEF executionVars
  <1>2. ASSUME NEW j \in Jobs, EnsureExecution(j), NEW k \in Jobs
        PROVE  JobExecutionInv(k)'
    <2>1. CASE Adoptable(j)
      <3>1. UNCHANGED executionVars
        BY <1>2, <2>1 DEF EnsureExecution, executionVars
      <3>2. QED
        BY <1>1, <3>1
    <2>2. CASE ~Adoptable(j)
      <3>1. /\ execution' = [execution EXCEPT ![j] = @ + 1]
            /\ executionTerminal' = [executionTerminal EXCEPT ![j] = FALSE]
            /\ reports' = reports
        BY <1>2, <2>2 DEF EnsureExecution
      <3>2. CASE k # j
        BY <3>1, <3>2, ExecutionFrame DEF StoreTypeOK
      <3>3. CASE k = j
        <4>1. /\ execution'[j] = execution[j] + 1
              /\ ~executionTerminal'[j]
              /\ reports'[j] = reports[j]
          BY <3>1 DEF StoreTypeOK
        <4>2. execution[j] \in Nat /\ reports[j] \subseteq Nat
          BY DEF StoreTypeOK
        <4>3. \A e \in 1..execution[j] : e \in reports[j]
          BY <2>2, <4>2, SMTT(30) DEF Adoptable, JobExecutionInv
        <4>4. reports'[j] \subseteq 1..execution'[j]
          BY <4>1, <4>2, SMTT(30) DEF JobExecutionInv
        <4>5. \A e \in 1..execution'[j] : e < execution'[j] => e \in reports'[j]
          BY <4>1, <4>2, <4>3, SMTT(30)
        <4>6. execution'[j] # 0
          BY <4>1, <4>2, SMTT(30)
        <4>7. QED
          BY <3>3, <4>1, <4>4, <4>5, <4>6 DEF JobExecutionInv
      <3>4. QED
        BY <3>2, <3>3
    <2>3. QED
      BY <2>1, <2>2
  <1>3. ASSUME NEW j \in Jobs, NEW e \in 1..execution[j], MarkExecutionTerminal(j, e), NEW k \in Jobs
        PROVE  JobExecutionInv(k)'
    <2>1. CASE k # j
      BY <1>3, <2>1, ExecutionFrame DEF MarkExecutionTerminal, StoreTypeOK
    <2>2. CASE k = j
      <3>1. /\ execution'[j] = execution[j]
            /\ reports'[j] = reports[j] \cup {e}
            /\ executionTerminal'[j] <=> (executionTerminal[j] \/ execution[j] = e)
        BY <1>3 DEF MarkExecutionTerminal, StoreTypeOK
      <3>2. execution[j] \in Nat /\ execution[j] # 0
        BY SMTT(30) DEF StoreTypeOK
      <3>3. reports'[j] \subseteq 1..execution'[j]
        BY <3>1 DEF JobExecutionInv
      <3>4. ASSUME NEW d \in 1..execution'[j],
                   d < execution'[j] \/ executionTerminal'[j]
            PROVE  d \in reports'[j]
        <4>1. CASE d < execution[j] \/ executionTerminal[j]
          BY <3>1, <4>1 DEF JobExecutionInv
        <4>2. CASE ~(d < execution[j]) /\ ~executionTerminal[j]
          <5>1. execution[j] = e /\ d = execution[j]
            BY <3>1, <3>2, <3>4, <4>2, SMTT(30)
          <5>2. QED
            BY <3>1, <5>1
        <4>3. QED
          BY <4>1, <4>2
      <3>5. QED
        BY <2>2, <3>1, <3>2, <3>3, <3>4 DEF JobExecutionInv
    <2>3. QED
      BY <2>1, <2>2
  <1>4. ASSUME NEW j \in Jobs, CreateJob(j)
        PROVE  UNCHANGED executionVars
    BY <1>4 DEF CreateJob
  <1>5. ASSUME NEW j \in Jobs, NEW w \in Workers, LeaseJob(j, w)
        PROVE  UNCHANGED executionVars
    BY <1>5 DEF LeaseJob
  <1>6. ASSUME NEW j \in Jobs, NEW a \in 1..attempt[j], LeaseCall(j, a)
        PROVE  UNCHANGED executionVars
    BY <1>6 DEF LeaseCall, Heartbeat, CompleteJob, FailJobForGood, FailJobRetryable, Conclude
  <1>7. CASE StoreTick
    BY <1>1, <1>7 DEF StoreTick
  <1>8. CASE UNCHANGED storeVars
    BY <1>1, <1>8 DEF storeVars
  <1>9. QED
    BY <1>1, <1>2, <1>3, <1>4, <1>5, <1>6, <1>7, <1>8 DEF StoreNext

(* No identity has been minted in the empty table. *)
LEMMA ExecutionInvInit == StoreInit => ExecutionInv
  BY StoreTypeInit, SMTT(30) DEF StoreInit, ExecutionInv, JobExecutionInv

(***************************************************************************)
(* Whatever order stale and current workers call in, an execution identity *)
(* is replaced only after that very execution was reported terminal.       *)
(***************************************************************************)
THEOREM ReleaseRule == StoreSpec => []ReplacedWasReported
  <1>1. ExecutionInv => ReplacedWasReported
    BY DEF ExecutionInv, JobExecutionInv, ReplacedWasReported
  <1>2. QED
    BY <1>1, ExecutionInvInit, ExecutionInvStep, PTL DEF StoreSpec
=============================================================================
