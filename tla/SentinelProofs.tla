--------------------------- MODULE SentinelProofs --------------------------
(***************************************************************************)
(* The composition uses the store as the store's specification says, for   *)
(* every environment, number of processes and bound: SentinelSpec          *)
(* implements StoreSpec, and what is proved of StoreSpec holds of it.  And *)
(* its type correctness, with what the steps of an attempt may do before   *)
(* its report.                                                             *)
(***************************************************************************)
EXTENDS Sentinel, WorkStoreProofs

USE ZenonT(30)

Outcome == {"succeeded", "failed", "infra_failed", "scanned"}
Reports == [stage : Stage, status : Outcome, terminal : BOOLEAN,
            verdict : {"queued", "succeeded", "failed"}, marked : BOOLEAN]
Process == [at : Points, attempt : Nat, execution : Nat, marked : BOOLEAN, tries : Int, report : Reports]

Resting == {"off", "dead", "idle"}

\* The points of an attempt between EnsureExecution and its report.
Named == {"dryrun", "create", "recreate", "lookup", "adopt", "poll", "cleanup", "stop", "seek", "l5a",
          "l5aCreate", "reconcile", "wait", "cleanupL5a", "stopL5a"}

(***************************************************************************)
(* The inductive invariant.  What a process believes, the store has        *)
(* granted: its attempt is a lease generation that was handed to it, and   *)
(* its execution an identity that was minted.                              *)
(***************************************************************************)
ProcInv(w) ==
  /\ At(w) \notin Resting => Attempt(w) \in 1..attempt[job] /\ holders[job][Attempt(w)] = w
  /\ Execution(w) \in 0..execution[job]
  /\ At(w) \in Named => Execution(w) # 0

SentinelInv ==
  /\ LeaseInv
  /\ env \in Environments
  /\ marked \in BOOLEAN
  /\ proc \in [Workers -> Process]
  /\ \A w \in Workers : ProcInv(w)

(* The one job is a job. *)
LEMMA JobIsAJob == job \in Jobs
  BY SentinelConstants DEF job

----------------------------------------------------------------------------
(* The store never takes back a lease generation or an identity. *)
Grows ==
  /\ attempt'[job] >= attempt[job]
  /\ \A a \in 1..attempt[job] : holders'[job][a] = holders[job][a]
  /\ execution'[job] >= execution[job]

(* Every operation of the store only adds generations and identities. *)
LEMMA StoreGrows == LeaseInv /\ [StoreNext]_storeVars => Grows
  <1> SUFFICES ASSUME LeaseInv, [StoreNext]_storeVars PROVE Grows
    OBVIOUS
  <1> USE JobIsAJob
  <1>0. /\ attempt[job] \in Nat /\ execution[job] \in Nat /\ holders[job] \in Seq(Workers)
        /\ Len(holders[job]) = attempt[job]
    BY DEF LeaseInv, StoreTypeOK, JobLeaseInv
  <1>1. ASSUME NEW j \in Jobs, CreateJob(j) PROVE Grows
    BY <1>0, <1>1, SMTT(30) DEF CreateJob, Grows, LeaseInv, StoreTypeOK, executionVars
  <1>2. ASSUME NEW j \in Jobs, NEW w \in Workers, LeaseJob(j, w) PROVE Grows
    <2>1. attempt'[job] >= attempt[job] /\ execution'[job] = execution[job]
      <3>1. attempt' = [attempt EXCEPT ![j] = @ + 1] /\ execution' = execution
        BY <1>2 DEF LeaseJob, executionVars
      <3>2. attempt \in [Jobs -> Nat]
        BY DEF LeaseInv, StoreTypeOK
      <3>3. QED
        BY <3>1, <3>2, SMTT(30)
    <2>2. ASSUME NEW a \in 1..attempt[job] PROVE holders'[job][a] = holders[job][a]
      <3>1. CASE j # job
        BY <1>2, <3>1 DEF LeaseJob, LeaseInv, StoreTypeOK
      <3>2. CASE j = job
        <4>1. holders'[job] = Append(holders[job], w)
          BY <1>2, <3>2 DEF LeaseJob, LeaseInv, StoreTypeOK
        <4>2. QED
          BY <4>1, <1>0, SMTT(30)
      <3>3. QED
        BY <3>1, <3>2
    <2>3. QED
      BY <2>1, <2>2, <1>0, SMTT(30) DEF Grows
  <1>3. ASSUME NEW j \in Jobs, NEW a \in 1..attempt[j], LeaseCall(j, a) PROVE Grows
    BY <1>0, <1>3, SMTT(30) DEF LeaseCall, Heartbeat, CompleteJob, FailJobForGood, FailJobRetryable, Conclude, Grows,
       executionVars
  <1>4. ASSUME NEW j \in Jobs, EnsureExecution(j) PROVE Grows
    <2>1. execution' = execution \/ execution' = [execution EXCEPT ![j] = @ + 1]
      BY <1>4 DEF EnsureExecution
    <2>2. execution'[job] \in {execution[job], execution[job] + 1}
      BY <2>1 DEF LeaseInv, StoreTypeOK
    <2>3. QED
      BY <2>2, <1>0, <1>4, SMTT(30) DEF EnsureExecution, Grows, leaseVars
  <1>5. ASSUME NEW j \in Jobs, NEW e \in 1..execution[j], MarkExecutionTerminal(j, e) PROVE Grows
    BY <1>0, <1>5, SMTT(30) DEF MarkExecutionTerminal, Grows, leaseVars
  <1>6. CASE StoreTick
    BY <1>0, <1>6, SMTT(30) DEF StoreTick, Grows, executionVars
  <1>7. CASE UNCHANGED storeVars
    BY <1>0, <1>7, SMTT(30) DEF storeVars, leaseVars, executionVars, Grows
  <1>8. QED
    BY <1>1, <1>2, <1>3, <1>4, <1>5, <1>6, <1>7 DEF StoreNext
----------------------------------------------------------------------------
(***************************************************************************)
(* A step of process w that keeps its attempt and its execution, or gives  *)
(* them up.                                                                *)
(***************************************************************************)
Kept(w) ==
  /\ proc' \in [Workers -> Process]
  /\ \A v \in Workers \ {w} : proc'[v] = proc[v]
  /\ \/ proc'[w].at \in Resting /\ proc'[w].execution = 0
     \/ /\ proc[w].at \notin Resting \/ proc'[w].at \in Resting
        /\ proc'[w].attempt = proc[w].attempt /\ proc'[w].execution = proc[w].execution
        /\ proc'[w].at \in Named => proc[w].at \in Named

(* A worker that takes no step is not disturbed by what the others do to the row. *)
LEMMA ProcFrame ==
  ASSUME NEW v \in Workers, ProcInv(v), proc'[v] = proc[v], Grows,
         attempt[job] \in Nat, execution[job] \in Nat, attempt'[job] \in Nat, execution'[job] \in Nat
  PROVE  ProcInv(v)'
  <1>1. ASSUME proc[v].at \notin Resting
        PROVE  proc[v].attempt \in 1..attempt'[job] /\ holders'[job][proc[v].attempt] = v
    BY <1>1, SMTT(30) DEF ProcInv, At, Attempt, Grows
  <1>2. proc[v].execution \in 0..execution'[job]
    BY SMTT(30) DEF ProcInv, Execution, Grows
  <1>3. QED
    BY <1>1, <1>2 DEF ProcInv, At, Attempt, Execution

(* Such a step preserves what the processes believe. *)
LEMMA KeptInv ==
  ASSUME SentinelInv, LeaseInv', Grows, NEW w \in Workers, Kept(w)
  PROVE  \A v \in Workers : ProcInv(v)'
  <1> SUFFICES ASSUME NEW v \in Workers PROVE ProcInv(v)'
    OBVIOUS
  <1>1. attempt[job] \in Nat /\ execution[job] \in Nat /\ attempt'[job] \in Nat /\ execution'[job] \in Nat
    BY JobIsAJob DEF SentinelInv, LeaseInv, StoreTypeOK
  <1>2. ProcInv(v) /\ proc[v] \in Process /\ proc'[v] \in Process
    BY DEF SentinelInv, Kept
  <1>3. CASE proc'[v].at \in Resting /\ proc'[v].execution = 0
    BY <1>1, <1>3, SMTT(30) DEF ProcInv, At, Attempt, Execution, Resting, Named
  <1>4. CASE /\ proc[v].at \notin Resting \/ proc'[v].at \in Resting
             /\ proc'[v].attempt = proc[v].attempt /\ proc'[v].execution = proc[v].execution
             /\ proc'[v].at \in Named => proc[v].at \in Named
    BY <1>1, <1>2, <1>4, SMTT(30) DEF ProcInv, At, Attempt, Execution, Grows, Process
  <1>5. QED
    BY <1>3, <1>4 DEF Kept

(* Going to another point of the attempt keeps it. *)
LEMMA MoveKeeps ==
  ASSUME SentinelInv, NEW w \in Workers, NEW at \in Points \ Resting, At(w) \notin Resting,
         at \in Named => At(w) \in Named, Move(w, at)
  PROVE  Kept(w)
  <1>1. proc' = [proc EXCEPT ![w] = [proc[w] EXCEPT !.at = at]]
    BY DEF Move
  <1>2. [proc[w] EXCEPT !.at = at] \in Process
    BY DEF SentinelInv, Process
  <1>3. proc'[w] = [proc[w] EXCEPT !.at = at]
    BY <1>1 DEF SentinelInv
  <1>4. proc'[w].at = at /\ proc'[w].attempt = proc[w].attempt /\ proc'[w].execution = proc[w].execution
    BY <1>3 DEF SentinelInv, Process
  <1>5. proc' \in [Workers -> Process] /\ \A v \in Workers \ {w} : proc'[v] = proc[v]
    BY <1>1, <1>2 DEF SentinelInv
  <1>6. QED
    BY <1>4, <1>5 DEF Kept, At

(* So does waiting for the next one. *)
LEMMA LeaveKeeps ==
  ASSUME SentinelInv, NEW w \in Workers, NEW at \in {"idle", "dead"}, proc' = [proc EXCEPT ![w] = Rest(at)]
  PROVE  Kept(w)
  <1>1. Rest(at) \in Process
    BY SMTT(30) DEF Rest, NoReport, Process, Reports, Points, Stage, Outcome
  <1>2. Rest(at).at = at /\ Rest(at).execution = 0
    BY DEF Rest
  <1>3. QED
    BY <1>1, <1>2 DEF SentinelInv, Kept, Resting

(* A failure is reported under the attempt that failed. *)
LEMMA FailedKeeps ==
  ASSUME SentinelInv, NEW w \in Workers, NEW stage \in Stage, NEW class \in Class,
         At(w) \notin Resting, Failed(w, stage, class)
  PROVE  Kept(w)
  <1>1. PICK r \in Reports : proc' = [proc EXCEPT ![w].at = "report", ![w].report = r]
    <2> DEFINE decision == DecideRetry(class, Attempt(w), proc[w].marked)
               r == [stage |-> stage, status |-> WireStatus(class), terminal |-> ~decision.retry,
                     verdict |-> IF decision.retry THEN "queued" ELSE "failed", marked |-> decision.marked]
               yes == /\ class \notin {"DETERMINISTIC", "RESOURCE_OBSERVATION"}
                      /\ Attempt(w) < MaxAttempts
                      /\ ~(class = "UNKNOWN" /\ proc[w].marked)
    <2>0. decision = [retry |-> yes, marked |-> yes /\ class = "UNKNOWN"]
      BY DEF DecideRetry
    <2>1. decision.retry \in BOOLEAN /\ decision.marked \in BOOLEAN
      <3>1. yes \in BOOLEAN /\ (yes /\ class = "UNKNOWN") \in BOOLEAN
        OBVIOUS
      <3>2. HIDE DEF yes, decision
      <3>3. QED
        BY <2>0, <3>1
    <2>2. WireStatus(class) \in Outcome
      BY DEF WireStatus, Outcome
    <2>3. r \in Reports
      BY <2>1, <2>2 DEF Reports
    <2>4. proc' = [proc EXCEPT ![w].at = "report", ![w].report = r]
      BY DEF Failed
    <2>5. QED
      BY <2>3, <2>4
  <1>2. "report" \in Points /\ "report" \notin Named /\ "report" \notin Resting
    BY DEF Points, Named, Resting
  <1>3. QED
    BY <1>1, <1>2 DEF SentinelInv, Kept, At, Process

(* And so is a result that does not fail the job. *)
LEMMA PassedKeeps ==
  ASSUME SentinelInv, NEW w \in Workers, NEW stage \in Stage, NEW result \in Outcome, NEW terminal \in BOOLEAN,
         At(w) \notin Resting, Passed(w, stage, result, terminal)
  PROVE  Kept(w)
  <1> DEFINE r == [stage |-> stage, status |-> result, terminal |-> terminal, verdict |-> "succeeded", marked |-> FALSE]
  <1>1. r \in Reports
    BY DEF Reports
  <1>2. "report" \in Points /\ "report" \notin Named /\ "report" \notin Resting
    BY DEF Points, Named, Resting
  <1>3. QED
    BY <1>1, <1>2 DEF SentinelInv, Kept, At, Process, Passed

(* The steps a process takes within an attempt, as far as its own state goes. *)
Goes(w) ==
  \/ \E at \in Points \ Resting : (at \in Named => At(w) \in Named) /\ Move(w, at)
  \/ Leave(w)
  \/ \E stage \in Stage, class \in Class : Failed(w, stage, class)
  \/ \E stage \in Stage, result \in Outcome, terminal \in BOOLEAN : Passed(w, stage, result, terminal)
  \/ UNCHANGED proc

(* All of them keep the attempt or give it up. *)
LEMMA GoesKeeps ==
  ASSUME SentinelInv, NEW w \in Workers, At(w) \notin Resting, Goes(w)
  PROVE  Kept(w)
  <1>1. CASE \E at \in Points \ Resting : (at \in Named => At(w) \in Named) /\ Move(w, at)
    BY <1>1, MoveKeeps
  <1>2. CASE Leave(w)
    BY <1>2, LeaveKeeps DEF Leave
  <1>3. CASE \E stage \in Stage, class \in Class : Failed(w, stage, class)
    BY <1>3, FailedKeeps
  <1>4. CASE \E stage \in Stage, result \in Outcome, terminal \in BOOLEAN : Passed(w, stage, result, terminal)
    BY <1>4, PassedKeeps
  <1>5. CASE UNCHANGED proc
    BY <1>5 DEF SentinelInv, Kept, At
  <1>6. QED
    BY <1>1, <1>2, <1>3, <1>4, <1>5 DEF Goes

----------------------------------------------------------------------------
(* What a worker asks of the store is a step of the store. *)
Used == [StoreNext]_storeVars

(* Releasing an identity: a named attempt has one that was minted. *)
LEMMA ReleaseUses ==
  ASSUME SentinelInv, NEW w \in Workers, At(w) \in Named, Release(w)
  PROVE  Used
  <1>1. execution[job] \in Nat
    BY JobIsAJob DEF SentinelInv, LeaseInv, StoreTypeOK
  <1>2. Execution(w) \in 1..execution[job]
    BY <1>1, SMTT(30) DEF SentinelInv, ProcInv
  <1>3. QED
    BY <1>2, JobIsAJob DEF Release, Used, StoreNext

(* A call fenced on the lease of the attempt: the generation was granted to the caller. *)
LEMMA LeaseCallUses ==
  ASSUME SentinelInv, NEW w \in Workers, At(w) \notin Resting,
         \/ Heartbeat(job, w, Attempt(w))
         \/ CompleteJob(job, w, Attempt(w))
         \/ FailJobForGood(job, w, Attempt(w))
         \/ FailJobRetryable(job, w, Attempt(w), env.delay)
  PROVE  Used
  <1>1. Attempt(w) \in 1..attempt[job] /\ holders[job][Attempt(w)] = w
    BY DEF SentinelInv, ProcInv
  <1>2. env.delay \in 0..MaxDelay
    BY SentinelConstants DEF SentinelInv
  <1>3. LeaseCall(job, Attempt(w))
    BY <1>1, <1>2 DEF LeaseCall
  <1>4. QED
    BY <1>1, <1>3, JobIsAJob DEF Used, StoreNext

----------------------------------------------------------------------------
(***************************************************************************)
(* The steps of an attempt that leave the store alone.                     *)
(***************************************************************************)
Quiet(w) ==
  \/ Plan(w) \/ Retire(w) \/ RetireDelete(w) \/ RetireConfirm(w) \/ Seek(w) \/ CreateSmoke(w) \/ LoseSmoke(w)
  \/ LookUp(w) \/ PollError(w) \/ PollRunning(w) \/ Timeout(w) \/ Sigterm(w) \/ CreateL5a(w) \/ GiveUpL5a(w)
  \/ WaitError(w) \/ Claim(w) \/ Post(w) \/ Mark(w) \/ SettleLost(w)

(* Each of them goes on within the attempt. *)
LEMMA QuietStep ==
  ASSUME SentinelInv, NEW w \in Workers, Quiet(w)
  PROVE  UNCHANGED <<storeVars, setting, marked>> /\ At(w) \notin Resting /\ Goes(w)
  <1> USE DEF Goes, Points, Resting, Named
  <1>0. "TRANSIENT_INFRA" \in Class /\ "DETERMINISTIC" \in Class /\ "UNKNOWN" \in Class
        /\ {"L3", "L4", "L5A", "L5B"} \subseteq Stage
    BY DEF Class, Stage
  <1>b. (~plan.l5b) \in BOOLEAN /\ "infra_failed" \in Outcome
    BY DEF Outcome
  <1>1. CASE Plan(w)
    BY <1>1, <1>0, <1>b DEF Plan
  <1>2. CASE Retire(w)
    BY <1>2, <1>0, <1>b DEF Retire
  <1>3. CASE RetireDelete(w)
    BY <1>3, <1>0, <1>b DEF RetireDelete
  <1>4. CASE RetireConfirm(w)
    BY <1>4, <1>0, <1>b DEF RetireConfirm
  <1>5. CASE Seek(w)
    BY <1>5, <1>0, <1>b DEF Seek
  <1>6. CASE CreateSmoke(w)
    BY <1>6, <1>0, <1>b DEF CreateSmoke
  <1>7. CASE LoseSmoke(w)
    BY <1>7, <1>0, <1>b DEF LoseSmoke
  <1>8. CASE LookUp(w)
    BY <1>8, <1>0, <1>b DEF LookUp
  <1>9. CASE PollError(w)
    BY <1>9, <1>0, <1>b DEF PollError
  <1>10. CASE PollRunning(w)
    BY <1>10, <1>0, <1>b DEF PollRunning
  <1>11. CASE Timeout(w)
    BY <1>11, <1>0, <1>b DEF Timeout, AfterTimeout
  <1>12. CASE Sigterm(w)
    BY <1>12, <1>0, <1>b DEF Sigterm
  <1>13. CASE CreateL5a(w)
    BY <1>13, <1>0, <1>b DEF CreateL5a
  <1>14. CASE GiveUpL5a(w)
    BY <1>14, <1>0, <1>b DEF GiveUpL5a, AfterL5a
  <1>15. CASE WaitError(w)
    BY <1>15, <1>0, <1>b DEF WaitError, AfterL5a
  <1>16. CASE Claim(w)
    BY <1>16, <1>0, <1>b DEF Claim, AfterReport
  <1>17. CASE Post(w)
    BY <1>17, <1>0, <1>b DEF Post, AfterReport
  <1>18. CASE Mark(w)
    BY <1>18, <1>0, <1>b DEF Mark, AfterReport
  <1>19. CASE SettleLost(w)
    BY <1>19, <1>0, <1>b DEF SettleLost
  <1>20. QED
    BY <1>1, <1>2, <1>3, <1>4, <1>5, <1>6, <1>7, <1>8, <1>9, <1>10, <1>11, <1>12, <1>13, <1>14, <1>15, <1>16,
       <1>17, <1>18, <1>19 DEF Quiet

(***************************************************************************)
(* The steps of an attempt that call the store.                            *)
(***************************************************************************)
Calling(w) ==
  \/ Retired(w) \/ EnsureError(w) \/ DryRun(w) \/ RejectSmoke(w) \/ PollNothing(w) \/ PollEnd(w) \/ Renew(w)
  \/ Confirm(w) \/ BeginL5a(w) \/ RejectL5a(w) \/ WaitEnd(w) \/ BeginL5b(w) \/ CheckLease(w) \/ Settle(w)

(* Minting or adopting an identity: the attempt holds a lease, so the row was leased. *)
LEMMA EnsureUses ==
  ASSUME SentinelInv, NEW w \in Workers, At(w) \notin Resting, EnsureExecution(job)
  PROVE  Used
  <1>1. attempt[job] \in Nat
    BY JobIsAJob DEF SentinelInv, LeaseInv, StoreTypeOK
  <1>2. attempt[job] > 0
    <2>1. ProcInv(w)
      BY DEF SentinelInv
    <2>2. Attempt(w) \in 1..attempt[job]
      BY <2>1 DEF ProcInv
    <2>3. QED
      BY <1>1, <2>2, SMTT(30)
  <1>3. QED
    BY <1>2, JobIsAJob DEF Used, StoreNext

(* Each of them asks the store for what it may, and goes on within the attempt. *)
LEMMA CallingStep ==
  ASSUME SentinelInv, NEW w \in Workers, Calling(w)
  PROVE  /\ Used /\ UNCHANGED setting /\ marked' \in BOOLEAN
         /\ At(w) \notin Resting /\ Goes(w)
  <1> USE DEF Goes, Points, Resting, Named
  <1>0. /\ "TRANSIENT_INFRA" \in Class /\ "UNKNOWN" \in Class /\ {"L3", "L4", "L5A", "L5B"} \subseteq Stage
        /\ (~plan.l5b) \in BOOLEAN /\ {"infra_failed", "succeeded", "scanned"} \subseteq Outcome
        /\ \A class \in Class : WireStatus(class) \in Outcome
    BY DEF Class, Stage, Outcome, WireStatus
  <1>k. UNCHANGED marked => marked' \in BOOLEAN
    BY DEF SentinelInv
  <1>s. UNCHANGED storeVars => Used
    BY DEF Used
  <1>h. At(w) \notin Resting /\ Heartbeat(job, w, Attempt(w)) => Used
    BY LeaseCallUses
  <1>r. At(w) \in Named /\ Release(w) => Used
    BY ReleaseUses
  <1>1. CASE Retired(w)
    BY <1>1, <1>0, <1>k, <1>s, <1>h DEF Retired, StillLeased
  <1>2. CASE EnsureError(w)
    BY <1>2, <1>0, <1>k, <1>s, EnsureUses DEF EnsureError
  <1>3. CASE DryRun(w)
    BY <1>3, <1>0, <1>k, <1>s, <1>r DEF DryRun
  <1>4. CASE RejectSmoke(w)
    BY <1>4, <1>0, <1>k, <1>s, <1>r DEF RejectSmoke
  <1>5. CASE PollNothing(w)
    BY <1>5, <1>0, <1>k, <1>s, <1>r DEF PollNothing
  <1>6. CASE PollEnd(w)
    BY <1>6, <1>0, <1>k, <1>s, <1>r DEF PollEnd, AfterSmoke
  <1>7. CASE Renew(w)
    BY <1>7, <1>0, <1>k, <1>s, <1>h DEF Renew, StillLeased
  <1>8. CASE Confirm(w)
    BY <1>8, <1>0, <1>k, <1>s, <1>r DEF Confirm, AfterTimeout
  <1>9. CASE BeginL5a(w)
    BY <1>9, <1>0, <1>k, <1>s, <1>h DEF BeginL5a, StillLeased
  <1>10. CASE RejectL5a(w)
    BY <1>10, <1>0, <1>k, <1>s, <1>r DEF RejectL5a, AfterL5a
  <1>11. CASE WaitEnd(w)
    BY <1>11, <1>0, <1>k, <1>s, <1>r DEF WaitEnd, AfterL5a
  <1>12. CASE BeginL5b(w)
    BY <1>12, <1>0, <1>k, <1>s, <1>h DEF BeginL5b, StillLeased
  <1>13. CASE CheckLease(w)
    BY <1>13, <1>0, <1>k, <1>s, <1>h DEF CheckLease, StillLeased, AfterReport
  <1>14. CASE Settle(w)
    <2>1. At(w) \notin Resting /\ Leave(w) /\ UNCHANGED setting
      BY <1>14 DEF Settle
    <2>2. marked' \in BOOLEAN
      BY <1>14 DEF Settle, Report, SentinelInv, Process, Reports
    <2>3. Used
      BY <1>14, <2>1, LeaseCallUses DEF Settle
    <2>4. QED
      BY <2>1, <2>2, <2>3
  <1>15. QED
    BY <1>1, <1>2, <1>3, <1>4, <1>5, <1>6, <1>7, <1>8, <1>9, <1>10, <1>11, <1>12, <1>13, <1>14 DEF Calling

----------------------------------------------------------------------------
(* The invariant is preserved by every use of the store that keeps the attempts. *)
LEMMA UsedInv ==
  ASSUME SentinelInv, Used, UNCHANGED setting, marked' \in BOOLEAN,
         UNCHANGED proc \/ \E w \in Workers : Kept(w)
  PROVE  SentinelInv'
  <1>1. LeaseInv' /\ Grows
    BY LeaseInvStep, StoreGrows DEF SentinelInv, Used
  <1>2. env' \in Environments
    BY DEF SentinelInv, setting
  <1>3. CASE UNCHANGED proc
    <2>1. \A w \in Workers : Kept(w)
      BY <1>3 DEF SentinelInv, Kept
    <2>2. \A w \in Workers : ProcInv(w)'
      BY <1>1, <2>1, KeptInv
    <2>3. QED
      BY <1>1, <1>2, <1>3, <2>2 DEF SentinelInv
  <1>4. ASSUME NEW w \in Workers, Kept(w) PROVE SentinelInv'
    <2>1. \A v \in Workers : ProcInv(v)'
      BY <1>1, <1>4, KeptInv
    <2>2. proc' \in [Workers -> Process]
      BY <1>4 DEF Kept
    <2>3. QED
      BY <1>1, <1>2, <2>1, <2>2 DEF SentinelInv
  <1>5. QED
    BY <1>3, <1>4

(* The process LeaseJob returned a row to. *)
LEMMA LeasedProcess ==
  ASSUME NEW r \in Process, NEW a \in Nat, NEW e \in Nat, NEW m \in BOOLEAN
  PROVE  [r EXCEPT !.attempt = a, !.execution = e, !.marked = m] \in Process
  BY DEF Process

(* LeaseJob hands the next lease generation to the worker that called it. *)
LEMMA LeaseStep ==
  ASSUME SentinelInv, NEW w \in Workers, Lease(w)
  PROVE  Used /\ SentinelInv'
  <1> USE JobIsAJob
  <1>1. LeaseJob(job, w) /\ UNCHANGED <<setting, marked>>
    BY DEF Lease
  <1>2. Used
    BY <1>1 DEF Used, StoreNext
  <1>3. LeaseInv' /\ Grows
    BY <1>2, LeaseInvStep, StoreGrows DEF SentinelInv, Used
  <1>4. attempt[job] \in Nat /\ execution[job] \in Nat
    BY DEF SentinelInv, LeaseInv, StoreTypeOK
  <1>5. attempt'[job] = attempt[job] + 1 /\ execution'[job] = execution[job]
    BY <1>1 DEF LeaseJob, SentinelInv, LeaseInv, StoreTypeOK, executionVars
  <1> DEFINE p == [Rest("leased") EXCEPT !.attempt = attempt[job] + 1, !.execution = execution[job], !.marked = marked]
  <1>6. /\ p \in Process /\ p.at = "leased"
        /\ p.attempt = attempt[job] + 1 /\ p.execution = execution[job]
    <2>1. Rest("leased") \in Process /\ Rest("leased").at = "leased"
      BY SMTT(30) DEF Rest, NoReport, Process, Reports, Points, Stage, Outcome
    <2> DEFINE a == attempt[job] + 1
               m == marked
    <2>2. a \in Nat /\ m \in BOOLEAN
      BY <1>4, SMTT(30) DEF SentinelInv
    <2>3. p = [Rest("leased") EXCEPT !.attempt = a, !.execution = execution[job], !.marked = m]
      OBVIOUS
    <2>4. a = attempt[job] + 1
      OBVIOUS
    <2>5. HIDE DEF p, a, m
    <2>6. p \in Process
      BY <1>4, <2>1, <2>2, <2>3, LeasedProcess
    <2>7. p.at = "leased"
      BY <1>4, <2>1, <2>2, <2>3 DEF Process
    <2>8. p.attempt = a /\ p.execution = execution[job]
      BY <1>4, <2>1, <2>2, <2>3 DEF Process
    <2>9. QED
      BY <2>4, <2>6, <2>7, <2>8
  <1>7. proc' = [proc EXCEPT ![w] = p]
    BY DEF Lease
  <1> HIDE DEF p
  <1>8. proc' \in [Workers -> Process] /\ proc'[w] = p /\ \A v \in Workers \ {w} : proc'[v] = proc[v]
    BY <1>6, <1>7 DEF SentinelInv
  <1>9. ProcInv(w)'
    <2>1. holders'[job][attempt[job] + 1] = w
      <3>1. holders[job] \in Seq(Workers) /\ Len(holders[job]) = attempt[job]
        BY DEF SentinelInv, LeaseInv, StoreTypeOK, JobLeaseInv
      <3>2. holders'[job] = Append(holders[job], w)
        BY <1>1 DEF LeaseJob, SentinelInv, LeaseInv, StoreTypeOK
      <3>3. QED
        BY <3>1, <3>2, SMTT(30)
    <2>2. "leased" \notin Named
      BY DEF Named
    <2>3. QED
      BY <1>4, <1>5, <1>6, <1>8, <2>1, <2>2, SMTT(30) DEF ProcInv, At, Attempt, Execution
  <1>10. ASSUME NEW v \in Workers \ {w} PROVE ProcInv(v)'
    <2>1. v \in Workers /\ ProcInv(v) /\ proc'[v] = proc[v]
      BY <1>8 DEF SentinelInv
    <2>2. attempt[job] \in Nat /\ execution[job] \in Nat /\ attempt'[job] \in Nat /\ execution'[job] \in Nat
      BY <1>4, <1>5, SMTT(30)
    <2>3. QED
      BY <1>3, <2>1, <2>2, ProcFrame
  <1>11. QED
    BY <1>1, <1>2, <1>3, <1>8, <1>9, <1>10 DEF SentinelInv, setting

(* EnsureExecution gives the attempt the identity the row has from then on. *)
LEMMA EnsureStep ==
  ASSUME SentinelInv, NEW w \in Workers, Ensure(w)
  PROVE  Used /\ SentinelInv'
  <1> USE JobIsAJob
  <1>1. EnsureExecution(job) /\ UNCHANGED <<setting, marked>> /\ At(w) \notin Resting
    BY DEF Ensure, Resting
  <1>2. Used
    BY <1>1, EnsureUses
  <1>3. LeaseInv' /\ Grows
    BY <1>2, LeaseInvStep, StoreGrows DEF SentinelInv, Used
  <1>4. attempt[job] \in Nat /\ execution[job] \in Nat /\ attempt'[job] = attempt[job]
    BY <1>1 DEF EnsureExecution, leaseVars, SentinelInv, LeaseInv, StoreTypeOK
  <1>5. execution'[job] \in Nat \ {0}
    <2>1. CASE Adoptable(job)
      BY <1>1, <1>4, <2>1 DEF EnsureExecution, Adoptable
    <2>2. CASE ~Adoptable(job)
      BY <1>1, <1>4, <2>2, SMTT(30) DEF EnsureExecution, SentinelInv, LeaseInv, StoreTypeOK
    <2>3. QED
      BY <2>1, <2>2
  <1>6. PICK at \in Points \ Resting : proc' = [proc EXCEPT ![w].execution = execution'[job], ![w].at = at]
    BY DEF Ensure, Points, Resting
  <1>7. /\ proc' \in [Workers -> Process] /\ \A v \in Workers \ {w} : proc'[v] = proc[v]
        /\ proc'[w].at = at /\ proc'[w].attempt = proc[w].attempt /\ proc'[w].execution = execution'[job]
    BY <1>5, <1>6 DEF SentinelInv, Process
  <1>8. ProcInv(w)'
    <2>1. ProcInv(w) /\ proc[w] \in Process
      BY DEF SentinelInv
    <2>2. proc[w].attempt \in 1..attempt[job] /\ holders[job][proc[w].attempt] = w
      BY <1>1, <2>1 DEF ProcInv, At, Attempt
    <2>3. proc'[w].attempt \in 1..attempt'[job] /\ holders'[job][proc'[w].attempt] = w
      BY <1>3, <1>4, <1>7, <2>2 DEF Grows
    <2>4. proc'[w].execution \in 0..execution'[job] /\ proc'[w].execution # 0
      BY <1>5, <1>7, SMTT(30)
    <2>5. QED
      BY <2>3, <2>4 DEF ProcInv, At, Attempt, Execution
  <1>9. ASSUME NEW v \in Workers \ {w} PROVE ProcInv(v)'
    <2>1. v \in Workers /\ ProcInv(v) /\ proc'[v] = proc[v]
      BY <1>7 DEF SentinelInv
    <2>2. attempt[job] \in Nat /\ execution[job] \in Nat /\ attempt'[job] \in Nat /\ execution'[job] \in Nat
      BY <1>4, <1>5
    <2>3. QED
      BY <1>3, <2>1, <2>2, ProcFrame
  <1>10. QED
    BY <1>1, <1>2, <1>3, <1>7, <1>8, <1>9 DEF SentinelInv, setting

----------------------------------------------------------------------------
(* Every step of the composition is a step of the store, or leaves it alone. *)
LEMMA SentinelStep == SentinelInv /\ [SentinelNext]_vars => Used /\ SentinelInv'
  <1> SUFFICES ASSUME SentinelInv, [SentinelNext]_vars PROVE Used /\ SentinelInv'
    OBVIOUS
  <1> USE JobIsAJob
  <1>s. UNCHANGED storeVars => Used
    BY DEF Used
  <1>k. UNCHANGED marked => marked' \in BOOLEAN
    BY DEF SentinelInv
  <1>1. CASE Enqueue
    <2>1. Used
      BY <1>1 DEF Enqueue, Used, StoreNext
    <2>2. QED
      BY <1>1, <1>k, <2>1, UsedInv DEF Enqueue
  <1>2. CASE Cluster
    BY <1>2, <1>s, <1>k, UsedInv DEF Cluster
  <1>3. CASE Tick
    <2>1. Used
      BY <1>3 DEF Tick, Used, StoreNext
    <2>2. QED
      BY <1>3, <1>k, <2>1, UsedInv DEF Tick
  <1>4. CASE UNCHANGED vars
    BY <1>4, <1>s, <1>k, UsedInv DEF vars
  <1>5. ASSUME NEW w \in Workers, Quiet(w) PROVE Used /\ SentinelInv'
    BY <1>5, <1>s, <1>k, QuietStep, GoesKeeps, UsedInv
  <1>6. ASSUME NEW w \in Workers, Calling(w) PROVE Used /\ SentinelInv'
    BY <1>6, CallingStep, GoesKeeps, UsedInv
  <1>7. ASSUME NEW w \in Workers, LeaseJob(job, w), UNCHANGED <<setting, marked>>, UNCHANGED proc \/ Kept(w)
        PROVE  Used /\ SentinelInv'
    <2>1. Used
      BY <1>7 DEF Used, StoreNext
    <2>2. QED
      BY <1>7, <1>k, <2>1, UsedInv
  <1>8. ASSUME NEW w \in Workers, LeaseUnread(w) \/ LegacyAttempt(w) PROVE Used /\ SentinelInv'
    BY <1>7, <1>8, LeaveKeeps DEF LeaseUnread, LegacyAttempt
  <1>9. ASSUME NEW w \in Workers, Start(w) \/ Crash(w) PROVE Used /\ SentinelInv'
    BY <1>9, <1>s, <1>k, LeaveKeeps, UsedInv DEF Start, Crash
  <1>10. ASSUME NEW w \in Workers, Stop(w) PROVE Used /\ SentinelInv'
    <2>1. Used
      BY <1>10, <1>s, ReleaseUses DEF Stop, Named
    <2>2. QED
      BY <1>10, <1>k, <2>1, LeaveKeeps, UsedInv DEF Stop
  <1>11. ASSUME NEW w \in Workers, LoseL5a(w) PROVE Used /\ SentinelInv'
    <2>1. /\ At(w) \in Named \ Resting
          /\ UNCHANGED <<storeVars, setting, marked>>
          /\ \E at \in Points, n \in Int : at \notin Resting /\ proc' = [proc EXCEPT ![w].at = at, ![w].tries = n]
      <3>1. CASE At(w) = "l5aCreate" /\ proc' = [proc EXCEPT ![w].at = "reconcile", ![w].tries = Reconciles]
        <4>1. Reconciles \in Int /\ "reconcile" \in Points /\ "reconcile" \notin Resting
          BY SentinelConstants, SMTT(30) DEF Points, Resting
        <4>2. At(w) \in Named \ Resting /\ UNCHANGED <<storeVars, setting, marked>>
          BY <1>11, <3>1 DEF LoseL5a, Named, Resting
        <4>3. QED
          BY <3>1, <4>1, <4>2
      <3>2. CASE At(w) = "reconcile" /\ proc' = [proc EXCEPT ![w].tries = @ - 1]
        <4>1. proc[w].tries - 1 \in Int
          BY SMTT(30) DEF SentinelInv, Process
        <4>2. proc' = [proc EXCEPT ![w].at = "reconcile", ![w].tries = proc[w].tries - 1]
          <5> DEFINE p == proc[w]
          <5>1. p \in Process /\ p.at = "reconcile" /\ proc \in [Workers -> Process]
            BY <3>2 DEF SentinelInv, At
          <5>2. [p EXCEPT !.tries = p.tries - 1] = [p EXCEPT !.at = "reconcile", !.tries = p.tries - 1]
            BY <5>1 DEF Process
          <5>3. QED
            BY <3>2, <5>1, <5>2
        <4>3. QED
          BY <1>11, <3>2, <4>1, <4>2 DEF LoseL5a, Points, Named, Resting
      <3>3. QED
        BY <1>11, <3>1, <3>2 DEF LoseL5a
    <2>2. Kept(w)
      <3>1. PICK at \in Points, n \in Int : at \notin Resting /\ proc' = [proc EXCEPT ![w].at = at, ![w].tries = n]
        BY <2>1
      <3>2. proc[w] \in Process /\ proc \in [Workers -> Process]
        BY DEF SentinelInv
      <3>3. [proc[w] EXCEPT !.at = at, !.tries = n] \in Process
        BY <3>1, <3>2 DEF Process
      <3>4. /\ proc' \in [Workers -> Process] /\ \A v \in Workers \ {w} : proc'[v] = proc[v]
            /\ proc'[w] = [proc[w] EXCEPT !.at = at, !.tries = n]
        BY <3>1, <3>2, <3>3
      <3>5. proc'[w].attempt = proc[w].attempt /\ proc'[w].execution = proc[w].execution
        BY <3>2, <3>4 DEF Process
      <3>6. QED
        BY <2>1, <3>4, <3>5 DEF Kept, At
    <2>3. QED
      BY <1>s, <1>k, <2>1, <2>2, UsedInv
  <1>12. QED
    <2>1. ASSUME NEW w \in Workers, Step(w) PROVE Used /\ SentinelInv'
      BY <2>1, <1>5, <1>6, <1>8, <1>10, <1>11, LeaseStep, EnsureStep DEF Step, Quiet, Calling
    <2>2. QED
      BY <2>1, <1>1, <1>2, <1>3, <1>4, <1>5, <1>6, <1>8, <1>9 DEF SentinelNext, Quiet, Calling

(* No process has started, and the table is empty. *)
LEMMA SentinelStart == SentinelInit => SentinelInv
  <1> SUFFICES ASSUME SentinelInit PROVE SentinelInv
    OBVIOUS
  <1>1. LeaseInv /\ env \in Environments /\ marked \in BOOLEAN /\ execution[job] = 0
    BY LeaseInvInit, JobIsAJob DEF SentinelInit, StoreInit
  <1>2. Rest("off") \in Process /\ Rest("off").at = "off" /\ Rest("off").execution = 0
    BY SMTT(30) DEF Rest, NoReport, Process, Reports, Points, Stage, Outcome
  <1>3. proc = [w \in Workers |-> Rest("off")]
    BY DEF SentinelInit
  <1>4. QED
    BY <1>1, <1>2, <1>3, SMTT(30) DEF SentinelInv, ProcInv, At, Attempt, Execution, Resting, Named

(***************************************************************************)
(* For every environment, fleet and bound: whatever the workers, the       *)
(* cluster and the faults do, the jobs table moves by WorkStore's steps.   *)
(* Every lease call of a worker is made under a generation granted to that *)
(* very worker, and every release names an identity that was minted.       *)
(***************************************************************************)
THEOREM SentinelImplementsStore == SentinelSpec => StoreUsedAsSpecified
  <1>1. SentinelInit => StoreInit
    BY DEF SentinelInit
  <1>2. SentinelInv /\ [SentinelNext]_vars => [StoreNext]_storeVars
    BY SentinelStep DEF Used
  <1>3. SentinelInv /\ [SentinelNext]_vars => SentinelInv'
    BY SentinelStep
  <1>4. QED
    BY <1>1, <1>2, <1>3, SentinelStart, PTL DEF SentinelSpec, StoreUsedAsSpecified, StoreSpec

(***************************************************************************)
(* So what is proved of the store holds of the fleet: one verdict per      *)
(* lease generation, however many replicas race for the job and however    *)
(* stale the calls of their attempts are.                                  *)
(***************************************************************************)
THEOREM FleetVerdictsFenced == SentinelSpec => []OneVerdictPerLease
  BY SentinelImplementsStore, VerdictsFenced, PTL DEF StoreUsedAsSpecified

(***************************************************************************)
(* And a job some worker finished stays finished, for every fleet.         *)
(***************************************************************************)
THEOREM FleetFinality == SentinelSpec => FinishedStaysFinished
  BY SentinelImplementsStore, FinalityHolds, PTL DEF StoreUsedAsSpecified

(***************************************************************************)
(* And an identity is replaced only after it was reported terminal: an     *)
(* execution not yet released is adopted by whichever worker comes next.   *)
(***************************************************************************)
THEOREM FleetReleaseRule == SentinelSpec => []ReplacedWasReported
  BY SentinelImplementsStore, ReleaseRule, PTL DEF StoreUsedAsSpecified

----------------------------------------------------------------------------
(***************************************************************************)
(* The bounds of the model and the types of the cluster.                   *)
(***************************************************************************)
Bounded == attempt[job] <= LeaseBound /\ execution[job] <= ExecutionBound

KubeTyped ==
  /\ kubeJob \in [Name -> {"absent", "running", "complete", "failed", "deleting"}]
  /\ creating \subseteq Name

(* A process that moves keeps its attempt and its report. *)
LEMMA Moved ==
  ASSUME proc \in [Workers -> Process], NEW w \in Workers, NEW at, Move(w, at)
  PROVE  /\ \A v \in Workers \ {w} : proc'[v] = proc[v]
         /\ proc'[w].at = at /\ proc'[w].attempt = proc[w].attempt /\ proc'[w].report = proc[w].report
         /\ proc'[w].tries = proc[w].tries /\ proc'[w].execution = proc[w].execution
  <1>1. proc[w] \in Process
    OBVIOUS
  <1>2. proc'[w] = [proc[w] EXCEPT !.at = at] /\ \A v \in Workers \ {w} : proc'[v] = proc[v]
    BY DEF Move
  <1>3. QED
    BY <1>1, <1>2 DEF Process

(* The store grants no lease and mints no identity beyond the model's bounds. *)
LEMMA StaysBounded == LeaseInv /\ Bounded /\ [StoreNext]_storeVars => Bounded'
  <1> SUFFICES ASSUME LeaseInv, Bounded, [StoreNext]_storeVars PROVE Bounded'
    OBVIOUS
  <1> USE JobIsAJob
  <1>0. /\ attempt \in [Jobs -> Nat] /\ execution \in [Jobs -> Nat]
        /\ attempt[job] <= LeaseBound /\ execution[job] <= ExecutionBound
    BY DEF LeaseInv, StoreTypeOK, Bounded
  <1>1. ASSUME UNCHANGED <<attempt, execution>> PROVE Bounded'
    BY <1>0, <1>1 DEF Bounded
  <1>2. ASSUME NEW j \in Jobs, CreateJob(j) PROVE Bounded'
    BY <1>1, <1>2 DEF CreateJob, executionVars
  <1>3. ASSUME NEW j \in Jobs, NEW w \in Workers, LeaseJob(j, w) PROVE Bounded'
    <2>1. attempt' = [attempt EXCEPT ![j] = @ + 1] /\ execution' = execution /\ attempt[j] < LeaseBound
      BY <1>3 DEF LeaseJob, Leaseable, executionVars
    <2>2. attempt'[job] <= LeaseBound
      BY <1>0, <2>1, StoreConstants, SMTT(30)
    <2>3. QED
      BY <1>0, <2>1, <2>2 DEF Bounded
  <1>4. ASSUME NEW j \in Jobs, NEW a \in 1..attempt[j], LeaseCall(j, a) PROVE Bounded'
    BY <1>1, <1>4 DEF LeaseCall, Heartbeat, CompleteJob, FailJobForGood, FailJobRetryable, Conclude, executionVars
  <1>5. ASSUME NEW j \in Jobs, EnsureExecution(j) PROVE Bounded'
    <2>1. attempt' = attempt
      BY <1>5 DEF EnsureExecution, leaseVars
    <2>2. CASE execution' = execution
      BY <1>1, <2>1, <2>2
    <2>3. CASE execution[j] < ExecutionBound /\ execution' = [execution EXCEPT ![j] = @ + 1]
      <3>1. execution'[job] <= ExecutionBound
        BY <1>0, <2>3, StoreConstants, SMTT(30)
      <3>2. QED
        BY <1>0, <2>1, <3>1 DEF Bounded
    <2>4. QED
      BY <1>5, <2>2, <2>3 DEF EnsureExecution
  <1>6. ASSUME NEW j \in Jobs, NEW e \in 1..execution[j], MarkExecutionTerminal(j, e) PROVE Bounded'
    BY <1>1, <1>6 DEF MarkExecutionTerminal, leaseVars
  <1>7. CASE StoreTick
    BY <1>1, <1>7 DEF StoreTick, executionVars
  <1>8. CASE UNCHANGED storeVars
    BY <1>1, <1>8 DEF storeVars, leaseVars, executionVars
  <1>9. QED
    BY <1>2, <1>3, <1>4, <1>5, <1>6, <1>7, <1>8 DEF StoreNext

(* What the cluster is asked for, or does, keeps its types. *)
LEMMA KubeCalls ==
  ASSUME KubeTyped
  PROVE  /\ \A n : Persist(n) \/ Delete(n) \/ TryDelete(n) => KubeTyped'
         /\ \A n \in Name : Unanswered(n) => KubeTyped'
         /\ UNCHANGED kubeVars => KubeTyped'
  <1>1. UNCHANGED kubeVars => KubeTyped'
    BY DEF KubeTyped, kubeVars
  <1>2. ASSUME NEW n, Persist(n) PROVE KubeTyped'
    BY <1>2 DEF KubeTyped, Persist
  <1>3. ASSUME NEW n, Delete(n) PROVE KubeTyped'
    BY <1>3 DEF KubeTyped, Delete
  <1>4. ASSUME NEW n \in Name, Unanswered(n) PROVE KubeTyped'
    <2>1. CASE creating' = creating \cup {n} /\ UNCHANGED kubeJob
      BY <2>1 DEF KubeTyped
    <2>2. QED
      BY <1>1, <1>2, <1>4, <2>1 DEF Unanswered
  <1>5. QED
    BY <1>1, <1>2, <1>3, <1>4 DEF TryDelete

(* The Jobs of an attempt that has an identity have names. *)
LEMMA JobsAreNamed ==
  ASSUME SentinelInv, Bounded, NEW w \in Workers, At(w) \in Named
  PROVE  Smoke(w) \in Name /\ Validation(w) \in Name
  <1>1. execution[job] \in Nat /\ execution[job] <= ExecutionBound
    BY JobIsAJob DEF SentinelInv, LeaseInv, StoreTypeOK, Bounded
  <1>2. Execution(w) \in 0..execution[job] /\ Execution(w) # 0
    BY DEF SentinelInv, ProcInv
  <1>3. Execution(w) \in 1..ExecutionBound
    BY <1>1, <1>2, StoreConstants, SMTT(30)
  <1>4. QED
    BY <1>3 DEF Smoke, Validation, Name

(* So does every step. *)
LEMMA KubeStep == SentinelInv /\ Bounded /\ KubeTyped /\ [SentinelNext]_vars => Bounded' /\ KubeTyped'
  <1> SUFFICES ASSUME SentinelInv, Bounded, KubeTyped, [SentinelNext]_vars PROVE Bounded' /\ KubeTyped'
    OBVIOUS
  <1>b. Bounded'
    BY SentinelStep, StaysBounded DEF SentinelInv, Used
  <1>0. /\ \A n : Persist(n) => KubeTyped'
        /\ \A n : Delete(n) => KubeTyped'
        /\ \A n : TryDelete(n) => KubeTyped'
        /\ UNCHANGED kubeVars => KubeTyped'
    BY KubeCalls
  <1>1. CASE Cluster
    BY <1>b, <1>0, <1>1 DEF Cluster, KubeTyped
  <1>2. CASE Enqueue \/ Tick \/ UNCHANGED vars
    BY <1>b, <1>0, <1>2 DEF Enqueue, Tick, vars
  <1>3. ASSUME NEW w \in Workers, LoseSmoke(w) \/ LoseL5a(w) PROVE KubeTyped'
    <2>1. At(w) \in Named /\ (Unanswered(Smoke(w)) \/ Unanswered(Validation(w)))
      BY <1>3 DEF LoseSmoke, LoseL5a, Named
    <2>2. QED
      BY <2>1, JobsAreNamed, KubeCalls
  <1>4. ASSUME NEW w \in Workers, RetireDelete(w) \/ CreateSmoke(w) \/ CreateL5a(w) \/ LegacyAttempt(w) PROVE KubeTyped'
    BY <1>0, <1>4 DEF RetireDelete, CreateSmoke, CreateL5a, LegacyAttempt
  <1>5. ASSUME NEW w \in Workers, Timeout(w) \/ Sigterm(w) PROVE KubeTyped'
    BY <1>0, <1>5 DEF Timeout, Sigterm
  <1>6. ASSUME NEW w \in Workers, WaitError(w) \/ WaitEnd(w) \/ PollEnd(w) PROVE KubeTyped'
    <2>1. TryDelete(Validation(w)) \/ TryDelete(Smoke(w))
      BY <1>6 DEF WaitError, WaitEnd, PollEnd
    <2>2. QED
      BY <1>0, <2>1
  <1>7. ASSUME NEW w \in Workers, Start(w) \/ Lease(w) \/ LeaseUnread(w) \/ Crash(w) \/ Plan(w) \/ Retire(w)
        PROVE  UNCHANGED kubeVars
    BY <1>7 DEF Start, Lease, LeaseUnread, Crash, Plan, Retire
  <1>8. ASSUME NEW w \in Workers, RetireConfirm(w) \/ Retired(w) \/ Ensure(w) \/ EnsureError(w) \/ Seek(w) \/ DryRun(w)
        PROVE  UNCHANGED kubeVars
    BY <1>8 DEF RetireConfirm, Retired, Ensure, EnsureError, Seek, DryRun
  <1>9. ASSUME NEW w \in Workers,
               RejectSmoke(w) \/ LookUp(w) \/ PollNothing(w) \/ PollError(w) \/ PollRunning(w) \/ Renew(w) \/ Confirm(w)
        PROVE  UNCHANGED kubeVars
    BY <1>9 DEF RejectSmoke, LookUp, PollNothing, PollError, PollRunning, Renew, Confirm
  <1>10. ASSUME NEW w \in Workers, Stop(w) \/ BeginL5a(w) \/ RejectL5a(w) \/ GiveUpL5a(w) \/ BeginL5b(w)
         PROVE  UNCHANGED kubeVars
    BY <1>10 DEF Stop, BeginL5a, RejectL5a, GiveUpL5a, BeginL5b
  <1>11. ASSUME NEW w \in Workers, CheckLease(w) \/ Claim(w) \/ Post(w) \/ Mark(w) \/ Settle(w) \/ SettleLost(w)
         PROVE  UNCHANGED kubeVars
    BY <1>11 DEF CheckLease, Claim, Post, Mark, Settle, SettleLost
  <1>12. QED
    <2>1. ASSUME NEW w \in Workers, Step(w) PROVE KubeTyped'
      BY <2>1, <1>0, <1>3, <1>4, <1>5, <1>6, <1>7, <1>8, <1>9, <1>10, <1>11 DEF Step
    <2>2. QED
      BY <2>1, <1>b, <1>0, <1>1, <1>2, <1>4, <1>5, <1>7, <1>9 DEF SentinelNext

(* No Job exists to begin with. *)
LEMMA KubeStart == SentinelInit => Bounded /\ KubeTyped
  <1> SUFFICES ASSUME SentinelInit PROVE Bounded /\ KubeTyped
    OBVIOUS
  <1>1. Bounded
    BY JobIsAJob, StoreConstants, SMTT(30) DEF SentinelInit, StoreInit, Bounded
  <1>2. KubeTyped
    BY DEF SentinelInit, KubeTyped
  <1>3. QED
    BY <1>1, <1>2

----------------------------------------------------------------------------
Holding   == {"post", "mark", "bury"}
Reporting == {"report", "claim", "verdict"} \cup Holding

(***************************************************************************)
(* What the steps of an attempt do up to its report: it goes on, gives up, *)
(* or makes one of the reports.                                            *)
(***************************************************************************)
Turn(w) ==
  /\ At(w) \notin Resting \cup Reporting
  /\ \/ \E at \in Points \ (Resting \cup Reporting) : Move(w, at)
     \/ Leave(w)
     \/ \E stage \in {"L3", "L4"}, class \in Class : Failed(w, stage, class)
     \/ Passed(w, "L4", "succeeded", TRUE) \/ Passed(w, "L5B", "scanned", TRUE)
     \/ \E result \in Outcome : Passed(w, "L5A", result, ~plan.l5b)
     \/ UNCHANGED proc

Working(w) ==
  \/ Plan(w) \/ Retire(w) \/ RetireDelete(w) \/ RetireConfirm(w) \/ Seek(w) \/ CreateSmoke(w) \/ LoseSmoke(w)
  \/ LookUp(w) \/ PollError(w) \/ PollRunning(w) \/ Timeout(w) \/ Sigterm(w) \/ CreateL5a(w) \/ GiveUpL5a(w)
  \/ WaitError(w) \/ Retired(w) \/ EnsureError(w) \/ DryRun(w) \/ RejectSmoke(w) \/ PollNothing(w) \/ PollEnd(w)
  \/ Renew(w) \/ Confirm(w) \/ BeginL5a(w) \/ RejectL5a(w) \/ WaitEnd(w) \/ BeginL5b(w)

(* The store calls of these steps write no verdict. *)
LEMMA CallsWithoutVerdict ==
  ASSUME NEW w
  PROVE  /\ UNCHANGED storeVars => UNCHANGED verdicts
         /\ Release(w) => UNCHANGED verdicts
         /\ Heartbeat(job, w, Attempt(w)) => UNCHANGED verdicts
         /\ EnsureExecution(job) => UNCHANGED verdicts
         /\ LeaseJob(job, w) => UNCHANGED verdicts
  BY DEF storeVars, leaseVars, Release, MarkExecutionTerminal, Heartbeat, EnsureExecution, LeaseJob

(* Each of these steps is one of an attempt before its report. *)
LEMMA WorkingTurns ==
  ASSUME NEW w \in Workers, Working(w)
  PROVE  UNCHANGED <<setting, marked, recordVars, verdicts>> /\ Turn(w)
  <1> USE DEF Turn, Points, Resting, Reporting, Holding
  <1>0. "TRANSIENT_INFRA" \in Class /\ "DETERMINISTIC" \in Class /\ "UNKNOWN" \in Class
        /\ "infra_failed" \in Outcome /\ "succeeded" \in Outcome /\ \A class \in Class : WireStatus(class) \in Outcome
    BY DEF Class, Outcome, WireStatus
  <1>v. /\ UNCHANGED storeVars => UNCHANGED verdicts
        /\ Release(w) => UNCHANGED verdicts
        /\ Heartbeat(job, w, Attempt(w)) => UNCHANGED verdicts
        /\ EnsureExecution(job) => UNCHANGED verdicts
    BY CallsWithoutVerdict
  <1> USE <1>0, <1>v
  <1>1. CASE Plan(w)
    BY <1>1 DEF Plan
  <1>2. CASE Retire(w)
    BY <1>2 DEF Retire
  <1>3. CASE RetireDelete(w)
    BY <1>3 DEF RetireDelete
  <1>4. CASE RetireConfirm(w)
    BY <1>4 DEF RetireConfirm
  <1>5. CASE Seek(w)
    BY <1>5 DEF Seek
  <1>6. CASE CreateSmoke(w)
    BY <1>6 DEF CreateSmoke
  <1>7. CASE LoseSmoke(w)
    BY <1>7 DEF LoseSmoke
  <1>8. CASE LookUp(w)
    BY <1>8 DEF LookUp
  <1>9. CASE PollError(w)
    BY <1>9 DEF PollError
  <1>10. CASE PollRunning(w)
    BY <1>10 DEF PollRunning
  <1>11. CASE Timeout(w)
    BY <1>11 DEF Timeout, AfterTimeout
  <1>12. CASE Sigterm(w)
    BY <1>12 DEF Sigterm
  <1>13. CASE CreateL5a(w)
    BY <1>13 DEF CreateL5a
  <1>14. CASE GiveUpL5a(w)
    BY <1>14 DEF GiveUpL5a, AfterL5a
  <1>15. CASE WaitError(w)
    BY <1>15 DEF WaitError, AfterL5a
  <1>16. CASE Retired(w)
    BY <1>16 DEF Retired, StillLeased
  <1>17. CASE EnsureError(w)
    BY <1>17 DEF EnsureError
  <1>18. CASE DryRun(w)
    BY <1>18 DEF DryRun
  <1>19. CASE RejectSmoke(w)
    BY <1>19 DEF RejectSmoke
  <1>20. CASE PollNothing(w)
    BY <1>20 DEF PollNothing
  <1>21. CASE PollEnd(w)
    BY <1>21 DEF PollEnd, AfterSmoke
  <1>22. CASE Renew(w)
    BY <1>22 DEF Renew, StillLeased
  <1>23. CASE Confirm(w)
    BY <1>23 DEF Confirm, AfterTimeout
  <1>24. CASE BeginL5a(w)
    BY <1>24 DEF BeginL5a, StillLeased
  <1>25. CASE RejectL5a(w)
    BY <1>25 DEF RejectL5a, AfterL5a
  <1>26. CASE WaitEnd(w)
    BY <1>26 DEF WaitEnd, AfterL5a
  <1>27. CASE BeginL5b(w)
    BY <1>27 DEF BeginL5b, StillLeased
  <1>28. QED
    BY <1>1, <1>2, <1>3, <1>4, <1>5, <1>6, <1>7, <1>8, <1>9, <1>10, <1>11, <1>12, <1>13, <1>14, <1>15, <1>16,
       <1>17, <1>18, <1>19, <1>20, <1>21, <1>22, <1>23, <1>24, <1>25, <1>26, <1>27 DEF Working

----------------------------------------------------------------------------
\* A report says what becomes of the job: a retry is no end, a failure is one
\* of L3 or L4, and only L5-a is followed by another report.
Sound(r) ==
  \/ r.verdict = "queued" /\ ~r.terminal
  \/ r.verdict = "failed" /\ r.terminal /\ r.stage \in {"L3", "L4"} /\ r.status # "succeeded"
  \/ /\ r.verdict = "succeeded"
     /\ r.stage \in {"L3", "L4"} => r.status = "succeeded"
     /\ r.terminal <=> ~(r.stage = "L5A" /\ plan.l5b)

(***************************************************************************)
(* The same, of what the records depend on: the process rests, goes on     *)
(* with its attempt, or has a sound report to make.                        *)
(***************************************************************************)
Works(w) ==
  /\ \A v \in Workers \ {w} : proc'[v] = proc[v]
  /\ \/ proc'[w].at \in Resting
     \/ proc'[w] = proc[w]
     \/ /\ At(w) \notin Resting \cup Reporting
        /\ proc'[w].attempt = Attempt(w)
        /\ \/ proc'[w].at \notin Resting \cup Reporting
           \/ proc'[w].at = "report" /\ Sound(proc'[w].report)

(* What a report leaves in the process. *)
LEMMA ReportMade ==
  ASSUME proc \in [Workers -> Process], NEW w \in Workers, NEW r, At(w) \notin Resting \cup Reporting, Sound(r),
         proc' = [proc EXCEPT ![w].at = "report", ![w].report = r]
  PROVE  Works(w)
  <1>1. proc[w] \in Process
    OBVIOUS
  <1>2. proc'[w] = [proc[w] EXCEPT !.at = "report", !.report = r] /\ \A v \in Workers \ {w} : proc'[v] = proc[v]
    OBVIOUS
  <1>3. proc'[w].at = "report" /\ proc'[w].report = r /\ proc'[w].attempt = proc[w].attempt
    BY <1>1, <1>2 DEF Process
  <1>4. QED
    BY <1>2, <1>3 DEF Works, Attempt

(* decideRetry: a failure that is not retried is terminal, and is told as a failure. *)
LEMMA FailureSound ==
  ASSUME proc \in [Workers -> Process], NEW w \in Workers, NEW stage \in {"L3", "L4"}, NEW class \in Class,
         At(w) \notin Resting \cup Reporting, Failed(w, stage, class)
  PROVE  Works(w)
  <1> DEFINE decision == DecideRetry(class, Attempt(w), proc[w].marked)
             yes == /\ class \notin {"DETERMINISTIC", "RESOURCE_OBSERVATION"}
                    /\ Attempt(w) < MaxAttempts
                    /\ ~(class = "UNKNOWN" /\ proc[w].marked)
  <1>1. decision = [retry |-> yes, marked |-> yes /\ class = "UNKNOWN"]
    BY DEF DecideRetry
  <1>2. yes \in BOOLEAN
    OBVIOUS
  <1>3. decision.retry = yes
    <2> HIDE DEF yes, decision
    <2>1. QED
      BY <1>1
  <1> DEFINE retry == decision.retry
             r == [stage |-> stage, status |-> WireStatus(class), terminal |-> ~retry,
                   verdict |-> IF retry THEN "queued" ELSE "failed", marked |-> decision.marked]
  <1>4. retry \in BOOLEAN
    BY <1>2, <1>3
  <1>5. proc' = [proc EXCEPT ![w].at = "report", ![w].report = r]
    BY DEF Failed
  <1>6. Sound(r)
    <2>1. WireStatus(class) # "succeeded"
      BY DEF WireStatus
    <2> HIDE DEF retry, decision
    <2>2. QED
      BY <1>4, <2>1 DEF Sound
  <1> HIDE DEF r
  <1>7. QED
    BY <1>5, <1>6, ReportMade

(* A result that does not fail the job: terminal, unless L5-b follows. *)
LEMMA ResultSound ==
  ASSUME proc \in [Workers -> Process], NEW w \in Workers, NEW stage \in Stage, NEW result, NEW terminal,
         At(w) \notin Resting \cup Reporting, Passed(w, stage, result, terminal),
         stage \in {"L3", "L4"} => result = "succeeded", terminal = ~(stage = "L5A" /\ plan.l5b)
  PROVE  Works(w)
  <1> DEFINE r == [stage |-> stage, status |-> result, terminal |-> terminal, verdict |-> "succeeded", marked |-> FALSE]
  <1>1. proc' = [proc EXCEPT ![w].at = "report", ![w].report = r]
    BY DEF Passed
  <1>2. Sound(r)
    BY DEF Sound
  <1> HIDE DEF r
  <1>3. QED
    BY <1>1, <1>2, ReportMade

(* A process that rests has nothing to tell. *)
LEMMA Rested ==
  ASSUME proc \in [Workers -> Process], NEW w \in Workers, NEW at \in {"idle", "dead"},
         proc' = [proc EXCEPT ![w] = Rest(at)]
  PROVE  Works(w)
  <1>1. proc'[w] = Rest(at) /\ \A v \in Workers \ {w} : proc'[v] = proc[v]
    OBVIOUS
  <1>2. proc'[w].at = at
    BY <1>1 DEF Rest
  <1>3. QED
    BY <1>1, <1>2 DEF Works, Resting

(* Every step of an attempt before its report. *)
LEMMA TurnWorks ==
  ASSUME proc \in [Workers -> Process], NEW w \in Workers, Turn(w)
  PROVE  Works(w)
  <1>0. At(w) \notin Resting \cup Reporting
    BY DEF Turn
  <1>1. ASSUME NEW at \in Points \ (Resting \cup Reporting), Move(w, at) PROVE Works(w)
    BY <1>0, <1>1, Moved DEF Works, Attempt
  <1>2. CASE Leave(w)
    BY <1>2, Rested DEF Leave
  <1>3. ASSUME NEW stage \in {"L3", "L4"}, NEW class \in Class, Failed(w, stage, class) PROVE Works(w)
    BY <1>0, <1>3, FailureSound
  <1>4. CASE Passed(w, "L4", "succeeded", TRUE)
    <2>1. "L4" \in Stage /\ TRUE = ~("L4" = "L5A" /\ plan.l5b)
      BY DEF Stage
    <2>2. QED
      BY <1>0, <1>4, <2>1, ResultSound
  <1>5. CASE Passed(w, "L5B", "scanned", TRUE)
    <2>1. "L5B" \in Stage /\ TRUE = ~("L5B" = "L5A" /\ plan.l5b)
      BY DEF Stage
    <2>2. QED
      BY <1>0, <1>5, <2>1, ResultSound
  <1>6. ASSUME NEW result \in Outcome, Passed(w, "L5A", result, ~plan.l5b) PROVE Works(w)
    <2>1. "L5A" \in Stage /\ (~plan.l5b) = ~("L5A" = "L5A" /\ plan.l5b)
      BY DEF Stage
    <2>2. QED
      BY <1>0, <1>6, <2>1, ResultSound
  <1>7. CASE UNCHANGED proc
    BY <1>7 DEF Works
  <1>8. QED
    BY <1>1, <1>2, <1>3, <1>4, <1>5, <1>6, <1>7 DEF Turn

----------------------------------------------------------------------------
(***************************************************************************)
(* Types.  What the store's own invariant leaves open are the bounds of    *)
(* the model, the delivery columns, the cluster and the records.           *)
(***************************************************************************)
RecordsTyped == vault \subseteq Records /\ letter \subseteq Records

TypedProc(p) == p.tries \in 0..Reconciles /\ (p.at \in Resting => p.attempt = 0)

PipeTypes ==
  /\ Bounded
  /\ request \in env.requests
  /\ Ledger!LedgerTypeOK
  /\ \A w \in Workers : TypedProc(proc[w])
  /\ KubeTyped
  /\ RecordsTyped

(* A process that has a report to make keeps its attempt and its budget. *)
LEMMA ReportKeeps ==
  ASSUME proc \in [Workers -> Process], NEW w \in Workers, NEW r,
         proc' = [proc EXCEPT ![w].at = "report", ![w].report = r]
  PROVE  /\ \A v \in Workers \ {w} : proc'[v] = proc[v]
         /\ proc'[w].at = "report" /\ proc'[w].tries = proc[w].tries
  <1>1. proc[w] \in Process
    OBVIOUS
  <1>2. proc'[w] = [proc[w] EXCEPT !.at = "report", !.report = r] /\ \A v \in Workers \ {w} : proc'[v] = proc[v]
    OBVIOUS
  <1>3. QED
    BY <1>1, <1>2 DEF Process

Budgeted == \A w \in Workers : TypedProc(proc[w])

(* A process at rest has no attempt and no budget. *)
LEMMA RestTyped ==
  ASSUME NEW at
  PROVE  TypedProc(Rest(at)) /\ Rest(at).at = at
  BY SentinelConstants, SMTT(30) DEF TypedProc, Rest

(* Within an attempt the budget of reconciles is left alone. *)
LEMMA GoesTyped ==
  ASSUME SentinelInv, Budgeted, NEW w \in Workers, Goes(w)
  PROVE  Budgeted'
  <1>0. proc \in [Workers -> Process] /\ \A v \in Workers : TypedProc(proc[v])
    BY DEF SentinelInv, Budgeted
  <1>1. ASSUME \A v \in Workers \ {w} : proc'[v] = proc[v], TypedProc(proc'[w]) PROVE Budgeted'
    <2>1. \A v \in Workers : TypedProc(proc'[v])
      BY <1>0, <1>1
    <2>2. QED
      BY <2>1 DEF Budgeted, TypedProc
  <1>2. ASSUME NEW at \in Points \ Resting, Move(w, at) PROVE Budgeted'
    BY <1>0, <1>1, <1>2, Moved DEF TypedProc
  <1>3. CASE Leave(w)
    BY <1>0, <1>1, <1>3, RestTyped DEF Leave
  <1>4. ASSUME NEW stage \in Stage, NEW class \in Class, Failed(w, stage, class) PROVE Budgeted'
    <2>1. PICK r : proc' = [proc EXCEPT ![w].at = "report", ![w].report = r]
      BY <1>4 DEF Failed
    <2>2. QED
      BY <1>0, <1>1, <2>1, ReportKeeps DEF TypedProc, Resting
  <1>5. ASSUME NEW stage, NEW result, NEW terminal, Passed(w, stage, result, terminal) PROVE Budgeted'
    <2>1. PICK r : proc' = [proc EXCEPT ![w].at = "report", ![w].report = r]
      BY <1>5 DEF Passed
    <2>2. QED
      BY <1>0, <1>1, <2>1, ReportKeeps DEF TypedProc, Resting
  <1>6. CASE UNCHANGED proc
    BY <1>6 DEF Budgeted, TypedProc
  <1>7. QED
    BY <1>2, <1>3, <1>4, <1>5, <1>6 DEF Goes

(* A Create of L5-a without an answer starts the budget, and each reconcile takes one of it. *)
LEMMA LoseL5aTyped ==
  ASSUME SentinelInv, Budgeted, NEW w \in Workers, LoseL5a(w)
  PROVE  Budgeted' /\ \A v \in Workers \ {w} : proc'[v] = proc[v]
  <1>0. proc \in [Workers -> Process] /\ proc[w] \in Process /\ \A v \in Workers : TypedProc(proc[v])
    BY DEF SentinelInv, Budgeted
  <1>1. CASE proc' = [proc EXCEPT ![w].at = "reconcile", ![w].tries = Reconciles]
    <2>1. proc'[w] = [proc[w] EXCEPT !.at = "reconcile", !.tries = Reconciles] /\ \A v \in Workers \ {w} : proc'[v] = proc[v]
      BY <1>0, <1>1
    <2>2. proc'[w].at = "reconcile" /\ proc'[w].tries = Reconciles
      BY <1>0, <2>1 DEF Process
    <2>3. TypedProc(proc'[w])
      BY <2>2, SentinelConstants, SMTT(30) DEF TypedProc, Resting
    <2>4. \A v \in Workers : TypedProc(proc'[v])
      BY <1>0, <2>1, <2>3
    <2>5. QED
      BY <2>1, <2>4 DEF Budgeted, TypedProc
  <1>2. CASE At(w) = "reconcile" /\ proc[w].tries > 0 /\ proc' = [proc EXCEPT ![w].tries = @ - 1]
    <2>1. proc'[w] = [proc[w] EXCEPT !.tries = proc[w].tries - 1] /\ \A v \in Workers \ {w} : proc'[v] = proc[v]
      BY <1>0, <1>2
    <2>2. proc'[w].at = "reconcile" /\ proc'[w].tries = proc[w].tries - 1
      BY <1>0, <1>2, <2>1 DEF Process, At
    <2>3. proc[w].tries \in 0..Reconciles
      BY <1>0 DEF TypedProc
    <2>4. TypedProc(proc'[w])
      BY <1>2, <2>2, <2>3, SentinelConstants, SMTT(30) DEF TypedProc, Resting
    <2>5. \A v \in Workers : TypedProc(proc'[v])
      BY <1>0, <2>1, <2>4
    <2>6. QED
      BY <2>1, <2>5 DEF Budgeted, TypedProc
  <1>3. QED
    BY <1>1, <1>2 DEF LoseL5a

(* The slot and the ledger hold lease generations. *)
LEMMA LedgerCallsTyped ==
  ASSUME Ledger!LedgerTypeOK, NEW a \in 1..LeaseBound
  PROVE  /\ Ledger!ClaimTerminal(job, a) => Ledger!LedgerTypeOK'
         /\ Ledger!MarkFirstDeliveryPending(job, a, 0) => Ledger!LedgerTypeOK'
         /\ Ledger!MarkFirstDeliveryDeadLetter(job, a) => Ledger!LedgerTypeOK'
         /\ UNCHANGED ledgerVars => Ledger!LedgerTypeOK'
  <1> USE JobIsAJob DEF Ledger!LedgerTypeOK
  <1>1. Ledger!Updated({job}) => before' \subseteq Jobs \X Jobs
    BY DEF Ledger!Updated
  <1>2. ASSUME Ledger!ClaimTerminal(job, a) PROVE Ledger!LedgerTypeOK'
    BY <1>1, <1>2 DEF Ledger!ClaimTerminal
  <1>3. ASSUME Ledger!Unclaim(job)
        PROVE  /\ slot' = slot /\ before' \subseteq Jobs \X Jobs
               /\ claimIn' \in [Jobs -> -1..0] /\ token' \in [Jobs -> Nat]
    BY <1>1, <1>3, SMTT(30) DEF Ledger!Unclaim
  <1>4. ASSUME failed' = [failed EXCEPT ![job] = Ledger!OneMore(@)] PROVE failed' \in [Jobs -> Nat]
    BY <1>4, SMTT(30) DEF Ledger!OneMore
  <1>5. ASSUME Ledger!MarkFirstDeliveryPending(job, a, 0) PROVE Ledger!LedgerTypeOK'
    <2>1. delivery' \in [Jobs -> Ledger!DeliveryStatus] /\ payload' \in [Jobs -> 1..LeaseBound \cup {0}]
      BY <1>5 DEF Ledger!MarkFirstDeliveryPending, Ledger!DeliveryStatus
    <2>2. dueIn' \in [Jobs -> 0..0] /\ failed' \in [Jobs -> Nat]
      BY <1>4, <1>5, SMTT(30) DEF Ledger!MarkFirstDeliveryPending
    <2>3. QED
      BY <1>3, <1>5, <2>1, <2>2 DEF Ledger!MarkFirstDeliveryPending
  <1>6. ASSUME Ledger!MarkFirstDeliveryDeadLetter(job, a) PROVE Ledger!LedgerTypeOK'
    <2>1. delivery' \in [Jobs -> Ledger!DeliveryStatus] /\ payload' \in [Jobs -> 1..LeaseBound \cup {0}]
      BY <1>6 DEF Ledger!MarkFirstDeliveryDeadLetter, Ledger!DeliveryStatus
    <2>2. dueIn' \in [Jobs -> 0..0] /\ failed' \in [Jobs -> Nat]
      BY <1>4, <1>6, SMTT(30) DEF Ledger!MarkFirstDeliveryDeadLetter
    <2>3. QED
      BY <1>3, <1>6, <2>1, <2>2 DEF Ledger!MarkFirstDeliveryDeadLetter
  <1>7. UNCHANGED ledgerVars => Ledger!LedgerTypeOK'
    BY DEF ledgerVars
  <1>8. QED
    BY <1>2, <1>5, <1>6, <1>7

(* The record of an attempt is one. *)
LEMMA RecordIsOne ==
  ASSUME SentinelInv, Bounded, NEW w \in Workers, At(w) \notin Resting
  PROVE  Attempt(w) \in 1..LeaseBound /\ Record(w) \in Records
  <1>1. attempt[job] \in Nat /\ attempt[job] <= LeaseBound
    BY JobIsAJob DEF SentinelInv, LeaseInv, StoreTypeOK, Bounded
  <1>2. Attempt(w) \in 1..attempt[job]
    BY DEF SentinelInv, ProcInv
  <1>3. Attempt(w) \in 1..LeaseBound
    BY <1>1, <1>2, StoreConstants, SMTT(30)
  <1>4. proc[w] \in Process
    BY DEF SentinelInv
  <1>5. Report(w).stage \in Stage /\ Report(w).status \in Outcome
    BY <1>4 DEF Report, Process, Reports
  <1>6. QED
    BY <1>3, <1>5 DEF Record, Records, Outcome

(* Every step keeps the types. *)
LEMMA TypesStep == SentinelInv /\ PipeTypes /\ [SentinelNext]_vars => PipeTypes'
  <1> SUFFICES ASSUME SentinelInv, PipeTypes, [SentinelNext]_vars PROVE PipeTypes'
    OBVIOUS
  <1>t. Bounded /\ request \in env.requests /\ Ledger!LedgerTypeOK /\ Budgeted /\ KubeTyped /\ RecordsTyped
    BY DEF PipeTypes, Budgeted
  <1>b. Bounded' /\ KubeTyped'
    BY <1>t, KubeStep
  <1>e. UNCHANGED setting => request' \in env'.requests
    BY <1>t DEF setting
  <1>r. UNCHANGED recordVars => Ledger!LedgerTypeOK' /\ RecordsTyped'
    BY <1>t DEF recordVars, ledgerVars, Ledger!LedgerTypeOK, RecordsTyped
  <1>i. (request' \in env'.requests /\ Ledger!LedgerTypeOK' /\ Budgeted' /\ RecordsTyped') => PipeTypes'
    BY <1>b DEF PipeTypes, Budgeted
  <1>p. UNCHANGED proc => Budgeted'
    BY <1>t DEF Budgeted, TypedProc
  <1>x. ASSUME NEW w \in Workers, NEW at \in {"idle", "dead"}, proc' = [proc EXCEPT ![w] = Rest(at)] PROVE Budgeted'
    BY <1>t, <1>x, RestTyped DEF Budgeted, TypedProc, SentinelInv
  <1>1. CASE Enqueue \/ Tick \/ UNCHANGED vars
    BY <1>1, <1>e, <1>r, <1>i, <1>p DEF Enqueue, Tick, vars
  <1>2. CASE Cluster
    BY <1>2, <1>e, <1>r, <1>i, <1>p DEF Cluster
  <1>3. ASSUME NEW w \in Workers, Working(w) PROVE PipeTypes'
    <2>1. Goes(w)
      BY <1>3, QuietStep, CallingStep DEF Working, Quiet, Calling
    <2>2. Budgeted'
      BY <1>3, <1>t, <2>1, GoesTyped
    <2>3. UNCHANGED <<setting, recordVars>>
      BY <1>3, WorkingTurns
    <2>4. QED
      BY <1>e, <1>r, <1>i, <2>2, <2>3
  <1>4. ASSUME NEW w \in Workers, Start(w) \/ Crash(w) \/ Stop(w) \/ SettleLost(w) \/ Settle(w) PROVE PipeTypes'
    <2>1. Budgeted'
      BY <1>4, <1>x DEF Start, Crash, Stop, SettleLost, Settle, Leave
    <2>2. UNCHANGED <<setting, recordVars>>
      BY <1>4 DEF Start, Crash, Stop, SettleLost, Settle
    <2>3. QED
      BY <1>e, <1>r, <1>i, <2>1, <2>2
  <1>5. ASSUME NEW w \in Workers, LeaseUnread(w) PROVE PipeTypes'
    BY <1>5, <1>e, <1>r, <1>i, <1>p DEF LeaseUnread
  <1>6. ASSUME NEW w \in Workers, LegacyAttempt(w) PROVE PipeTypes'
    <2>1. Budgeted'
      BY <1>6, <1>x DEF LegacyAttempt
    <2>2. QED
      BY <1>6, <1>e, <1>r, <1>i, <2>1 DEF LegacyAttempt
  <1>7. ASSUME NEW w \in Workers, Lease(w) PROVE PipeTypes'
    <2>1. PICK a, e, m : proc' = [proc EXCEPT ![w] = [Rest("leased") EXCEPT !.attempt = a, !.execution = e, !.marked = m]]
      BY <1>7 DEF Lease
    <2> DEFINE p == [Rest("leased") EXCEPT !.attempt = a, !.execution = e, !.marked = m]
    <2>2. p.at = "leased" /\ p.tries = 0
      BY DEF Rest
    <2>3. proc' = [proc EXCEPT ![w] = p]
      BY <2>1
    <2> HIDE DEF p
    <2>4. TypedProc(p)
      BY <2>2, SentinelConstants, SMTT(30) DEF TypedProc, Resting
    <2>5. Budgeted'
      BY <1>t, <2>3, <2>4 DEF Budgeted, TypedProc, SentinelInv
    <2>6. QED
      BY <1>7, <1>e, <1>r, <1>i, <2>5 DEF Lease
  <1>8. ASSUME NEW w \in Workers, Ensure(w) PROVE PipeTypes'
    <2>1. PICK at \in Points \ Resting : proc' = [proc EXCEPT ![w].execution = execution'[job], ![w].at = at]
      BY <1>8 DEF Ensure, Points, Resting
    <2>2. proc[w] \in Process /\ proc \in [Workers -> Process]
      BY DEF SentinelInv
    <2>3. proc'[w] = [proc[w] EXCEPT !.execution = execution'[job], !.at = at] /\ \A v \in Workers \ {w} : proc'[v] = proc[v]
      BY <2>1, <2>2
    <2>4. proc'[w].at = at /\ proc'[w].tries = proc[w].tries
      BY <2>2, <2>3 DEF Process
    <2>5. Budgeted'
      BY <1>t, <2>1, <2>3, <2>4 DEF Budgeted, TypedProc
    <2>6. QED
      BY <1>8, <1>e, <1>r, <1>i, <2>5 DEF Ensure
  <1>9. ASSUME NEW w \in Workers, LoseL5a(w) PROVE PipeTypes'
    <2>1. Budgeted'
      BY <1>9, <1>t, LoseL5aTyped
    <2>2. UNCHANGED <<setting, recordVars>>
      BY <1>9 DEF LoseL5a
    <2>3. QED
      BY <1>e, <1>r, <1>i, <2>1, <2>2
  <1>10. ASSUME NEW w \in Workers, CheckLease(w) PROVE PipeTypes'
    <2>1. Budgeted'
      BY <1>10, <1>t, CallingStep, GoesTyped DEF Calling
    <2>2. QED
      BY <1>10, <1>e, <1>r, <1>i, <2>1 DEF CheckLease
  <1>11. ASSUME NEW w \in Workers, Claim(w) \/ Post(w) \/ Mark(w) PROVE PipeTypes'
    <2>1. Budgeted' /\ UNCHANGED setting /\ At(w) \notin Resting
      <3>1. UNCHANGED setting /\ At(w) \notin Resting /\ Goes(w)
        BY <1>11, QuietStep DEF Quiet
      <3>2. QED
        BY <1>t, <3>1, GoesTyped
    <2>2. Attempt(w) \in 1..LeaseBound /\ Record(w) \in Records
      BY <1>t, <2>1, RecordIsOne
    <2>3. RecordsTyped'
      BY <1>11, <1>t, <2>2 DEF RecordsTyped, Claim, Post, Mark
    <2>4. Ledger!LedgerTypeOK'
      BY <1>11, <1>t, <2>2, LedgerCallsTyped DEF Claim, Post, Mark
    <2>5. QED
      BY <1>e, <1>i, <2>1, <2>3, <2>4
  <1>12. QED
    <2>1. ASSUME NEW w \in Workers, Step(w) PROVE PipeTypes'
      BY <2>1, <1>3, <1>4, <1>5, <1>7, <1>8, <1>9, <1>10, <1>11 DEF Step, Working
    <2>2. QED
      BY <2>1, <1>1, <1>2, <1>3, <1>4, <1>6 DEF SentinelNext, Working

(* Nothing has been told, and no Job exists. *)
LEMMA TypesStart == SentinelInit => PipeTypes
  <1> SUFFICES ASSUME SentinelInit PROVE PipeTypes
    OBVIOUS
  <1> USE JobIsAJob
  <1>1. Bounded /\ KubeTyped
    BY KubeStart
  <1>2. Ledger!LedgerTypeOK
    BY SMTT(30) DEF SentinelInit, Ledger!LedgerInit, Ledger!LedgerTypeOK, Ledger!DeliveryStatus
  <1>3. \A w \in Workers : TypedProc(proc[w])
    BY RestTyped DEF SentinelInit
  <1>4. RecordsTyped /\ request \in env.requests
    BY DEF SentinelInit, RecordsTyped
  <1>5. QED
    BY <1>1, <1>2, <1>3, <1>4 DEF PipeTypes

(***************************************************************************)
(* Type correctness of the whole pipeline, for every environment: every    *)
(* process is at a point of the program, believes in an attempt and an     *)
(* identity the store has handed out, asks the cluster only for Jobs named *)
(* for an identity, and tells records of attempts that were leased.        *)
(***************************************************************************)
THEOREM SentinelTyped == SentinelSpec => []SentinelTypeOK
  <1>1. SentinelInv /\ PipeTypes => SentinelTypeOK
    <2> SUFFICES ASSUME SentinelInv, PipeTypes PROVE SentinelTypeOK
      OBVIOUS
    <2>1. StoreTypeOK /\ env \in Environments /\ marked \in BOOLEAN
      BY DEF SentinelInv, LeaseInv
    <2>2. ASSUME NEW w \in Workers
          PROVE  /\ At(w) \in Points /\ Attempt(w) \in 0..attempt[job] /\ Execution(w) \in 0..execution[job]
                 /\ proc[w].tries \in 0..Reconciles /\ Report(w).stage \in Stage
      <3>1. proc[w] \in Process /\ ProcInv(w) /\ TypedProc(proc[w]) /\ attempt[job] \in Nat
        BY <2>1, JobIsAJob DEF SentinelInv, PipeTypes, StoreTypeOK
      <3>2. At(w) \in Points /\ Report(w).stage \in Stage
        BY <3>1 DEF Process, Reports, At, Report
      <3>3. Attempt(w) \in 0..attempt[job]
        BY <3>1, SMTT(30) DEF ProcInv, TypedProc, At, Attempt
      <3>4. QED
        BY <3>1, <3>2, <3>3 DEF ProcInv, TypedProc
    <2>3. QED
      BY <2>1, <2>2 DEF SentinelTypeOK, PipeTypes, KubeTyped, RecordsTyped
  <1>2. SentinelInv /\ [SentinelNext]_vars => SentinelInv'
    BY SentinelStep
  <1>3. QED
    BY <1>1, <1>2, SentinelStart, TypesStart, TypesStep, PTL DEF SentinelSpec
=============================================================================
