--------------------------- MODULE ExecutionProofs -------------------------
(***************************************************************************)
(* Proofs about the Jobs of a validation: at most one executes, and an     *)
(* identity is released only when nothing executes under it and nothing    *)
(* will, for every environment a single worker process is deployed in as   *)
(* documented, and any number of leases, crashes and restarts.             *)
(***************************************************************************)
EXTENDS SentinelProofs

USE ZenonT(30)

(***************************************************************************)
(* One process at a time; no Create of L5-a that gets no answer or is      *)
(* rejected; and no SIGTERM where a Create of the smoke-run may get no     *)
(* answer.  Outside of these an identity can be released under a Job.      *)
(***************************************************************************)
Orderly ==
  /\ env.replicas = 1
  /\ "L5A" \notin env.unanswered \cup env.rejected
  /\ "sigterm" \notin env.faults \/ "L4" \notin env.unanswered

Begun     == {"leased", "retire", "retireDelete", "retireConfirm", "retired", "ensure"}
Smoking   == {"dryrun", "create", "recreate", "lookup", "adopt", "poll", "cleanup", "stop"}
Profiling == {"l5a", "l5aCreate", "reconcile", "wait", "cleanupL5a", "stopL5a"}

\* Nothing executes under the name, and nothing will.
Still(n) == kubeJob[n] \notin {"running", "deleting"} /\ n \notin creating

\* What the row says of its identity.
IdentityInv ==
  /\ attempt[job] = 0 => execution[job] = 0
  /\ execution[job] \in reports[job] => executionTerminal[job]

(***************************************************************************)
(* The cluster.  Only a Create of the smoke-run is ever left under way;    *)
(* nothing is there for an identity not minted yet, nothing executes for a *)
(* released one; the Job of L5-a comes after the smoke-run; and a row with *)
(* an identity has no legacy Job.                                          *)
(***************************************************************************)
ClusterInv ==
  /\ \A n \in creating : kubeJob[n] = "absent" /\ n[1] = "L4" /\ n[2] # 0 /\ "L4" \in env.unanswered
  /\ \A n \in Name : n[2] > execution[job] => kubeJob[n] = "absent" /\ n \notin creating
  /\ \A n \in Name : n[2] \in reports[job] => Still(n)
  /\ \A e \in 1..ExecutionBound : kubeJob[<<"L5A", e>>] # "absent" => plan.l5a /\ Still(<<"L4", e>>)
  /\ execution[job] # 0 => kubeJob[Legacy] = "absent"

(***************************************************************************)
(* The process.  It works under the identity of the row, which nobody has  *)
(* released; and it knows of the cluster what the point it is at says.     *)
(***************************************************************************)
StageAt(w, at) ==
  /\ at \in Begun \cup Named => Execution(w) = execution[job]
  /\ at \in {"retired", "ensure"} => kubeJob[Legacy] = "absent"
  /\ at \in Named => execution[job] \notin reports[job]
  /\ at \in {"dryrun", "create"} => kubeJob[Smoke(w)] = "absent" /\ Smoke(w) \notin creating
  /\ at \in Smoking => kubeJob[Validation(w)] = "absent"
  /\ at \in {"poll", "cleanup", "stop"} => Smoke(w) \notin creating
  /\ at \in Profiling => Still(Smoke(w))
  /\ at \in Profiling \cup {"seek"} => plan.l5a

StageInv(w) == StageAt(w, At(w))

----------------------------------------------------------------------------
(* A row that was never leased has no identity, and a released identity carries the flag. *)
LEMMA IdentityStep ==
  ASSUME LeaseInv, ExecutionInv, IdentityInv, [StoreNext]_storeVars
  PROVE  IdentityInv'
  <1> USE JobIsAJob
  <1>0. /\ attempt \in [Jobs -> Nat] /\ execution \in [Jobs -> Nat] /\ executionTerminal \in [Jobs -> BOOLEAN]
        /\ reports \in [Jobs -> SUBSET Nat] /\ reports[job] \subseteq 1..execution[job]
    BY DEF LeaseInv, ExecutionInv, StoreTypeOK, JobExecutionInv
  <1>1. ASSUME UNCHANGED <<attempt, executionVars>> PROVE IdentityInv'
    BY <1>1 DEF IdentityInv, executionVars
  <1>2. ASSUME NEW j \in Jobs, CreateJob(j) PROVE IdentityInv'
    BY <1>1, <1>2 DEF CreateJob
  <1>3. ASSUME NEW j \in Jobs, NEW w \in Workers, LeaseJob(j, w) PROVE IdentityInv'
    <2>1. attempt' = [attempt EXCEPT ![j] = @ + 1] /\ UNCHANGED executionVars
      BY <1>3 DEF LeaseJob
    <2>2. attempt'[job] = 0 => attempt[job] = 0
      BY <1>0, <2>1, SMTT(30)
    <2>3. QED
      BY <2>1, <2>2 DEF IdentityInv, executionVars
  <1>4. ASSUME NEW j \in Jobs, NEW a \in 1..attempt[j], LeaseCall(j, a) PROVE IdentityInv'
    BY <1>1, <1>4 DEF LeaseCall, Heartbeat, CompleteJob, FailJobForGood, FailJobRetryable, Conclude
  <1>5. ASSUME NEW j \in Jobs, attempt[j] > 0, EnsureExecution(j) PROVE IdentityInv'
    <2>1. j = job
      BY SentinelConstants, SMTT(30)
    <2>2. attempt' = attempt /\ reports' = reports
      BY <1>5 DEF EnsureExecution, leaseVars
    <2>3. CASE UNCHANGED <<execution, executionTerminal>>
      BY <2>2, <2>3 DEF IdentityInv
    <2>4. CASE execution' = [execution EXCEPT ![j] = @ + 1]
      <3>1. execution'[job] = execution[job] + 1
        BY <1>0, <2>1, <2>4
      <3>2. execution'[job] \notin reports'[job]
        BY <1>0, <2>2, <3>1, SMTT(30)
      <3>3. attempt'[job] # 0
        BY <1>0, <1>5, <2>1, <2>2, SMTT(30)
      <3>4. QED
        BY <3>2, <3>3 DEF IdentityInv
    <2>5. QED
      BY <1>5, <2>3, <2>4 DEF EnsureExecution
  <1>6. ASSUME NEW j \in Jobs, NEW e \in 1..execution[j], MarkExecutionTerminal(j, e) PROVE IdentityInv'
    <2>1. j = job
      BY SentinelConstants, SMTT(30)
    <2>2. attempt' = attempt /\ execution' = execution
      BY <1>6 DEF MarkExecutionTerminal, leaseVars
    <2>3. reports'[job] = reports[job] \cup {e}
      BY <1>0, <1>6, <2>1 DEF MarkExecutionTerminal
    <2>4. executionTerminal[job] \/ execution[job] = e => executionTerminal'[job]
      BY <1>0, <1>6, <2>1 DEF MarkExecutionTerminal
    <2>5. CASE execution[job] \in reports[job] \cup {e}
      <3>1. executionTerminal'[job]
        BY <2>4, <2>5 DEF IdentityInv
      <3>2. QED
        BY <2>2, <3>1 DEF IdentityInv
    <2>6. CASE execution[job] \notin reports[job] \cup {e}
      BY <2>2, <2>3, <2>6 DEF IdentityInv
    <2>7. QED
      BY <2>5, <2>6
  <1>7. CASE StoreTick
    BY <1>1, <1>7 DEF StoreTick
  <1>8. CASE UNCHANGED storeVars
    BY <1>1, <1>8 DEF storeVars, leaseVars
  <1>9. QED
    BY <1>2, <1>3, <1>4, <1>5, <1>6, <1>7, <1>8 DEF StoreNext

----------------------------------------------------------------------------
(* A name is that of a stage of an identity; without one it is the legacy name. *)
LEMMA NameParts ==
  ASSUME NEW n \in Name
  PROVE  /\ n = <<n[1], n[2]>> /\ n[1] \in {"L4", "L5A"} /\ n[2] \in Nat /\ n[2] <= ExecutionBound
         /\ n[2] = 0 => n = Legacy
  BY StoreConstants, SMTT(30) DEF Name, Legacy

(* The names of an identity. *)
LEMMA NamesOf ==
  /\ Legacy \in Name /\ Legacy[2] = 0 /\ Legacy[1] = "L4"
  /\ \A e \in 1..ExecutionBound : <<"L4", e>> \in Name /\ <<"L5A", e>> \in Name
  BY DEF Name, Legacy

(* No name gets a Job, and no Create is left under way. *)
Calm ==
  /\ \A n \in Name : /\ kubeJob[n] = "absent" => kubeJob'[n] = "absent"
                     /\ kubeJob[n] \notin {"running", "deleting"} => kubeJob'[n] \notin {"running", "deleting"}
  /\ creating' \subseteq creating

(* What is still stays so. *)
LEMMA CalmStill ==
  ASSUME Calm, NEW n \in Name, Still(n)
  PROVE  kubeJob'[n] \notin {"running", "deleting"} /\ n \notin creating'
  BY DEF Calm, Still

(* Deleting a Job, or doing nothing, is calm. *)
LEMMA CalmCalls ==
  ASSUME KubeTyped
  PROVE  /\ \A n \in Name : Delete(n) => Calm
         /\ \A n \in Name : TryDelete(n) => Calm
         /\ UNCHANGED kubeVars => Calm
  <1>1. UNCHANGED kubeVars => Calm
    BY DEF kubeVars, Calm
  <1>2. ASSUME NEW n \in Name, Delete(n) PROVE Calm
    <2>1. creating' \subseteq creating
      BY <1>2 DEF Delete
    <2>2. ASSUME NEW m \in Name
          PROVE  /\ kubeJob[m] = "absent" => kubeJob'[m] = "absent"
                 /\ kubeJob[m] \notin {"running", "deleting"} => kubeJob'[m] \notin {"running", "deleting"}
      <3>1. CASE m = n
        BY <1>2, <3>1 DEF Delete, KubeTyped
      <3>2. CASE m # n
        BY <1>2, <3>2 DEF Delete, KubeTyped
      <3>3. QED
        BY <3>1, <3>2
    <2>3. QED
      BY <2>1, <2>2 DEF Calm
  <1>3. QED
    BY <1>1, <1>2 DEF TryDelete

(***************************************************************************)
(* A calm step preserves the invariant, whatever becomes of the row, if    *)
(* what is reported is still, and the first identity finds no legacy Job.  *)
(***************************************************************************)
LEMMA CalmStep ==
  ASSUME ClusterInv, Calm, KubeTyped, UNCHANGED setting,
         execution[job] \in Nat, execution'[job] \in Nat, execution'[job] >= execution[job],
         \A n \in Name : n[2] \in reports'[job] =>
           n[2] \in reports[job] \/ (kubeJob'[n] \notin {"running", "deleting"} /\ n \notin creating'),
         execution'[job] # 0 => execution[job] # 0 \/ kubeJob[Legacy] = "absent"
  PROVE  ClusterInv'
  <1>0. plan' = plan /\ env' = env
    BY DEF setting, plan
  <1>1. \A n \in creating' :
          kubeJob'[n] = "absent" /\ n[1] = "L4" /\ n[2] # 0 /\ "L4" \in env'.unanswered
    BY <1>0 DEF ClusterInv, Calm, KubeTyped
  <1>2. \A n \in Name : n[2] > execution'[job] => kubeJob'[n] = "absent" /\ n \notin creating'
    <2> SUFFICES ASSUME NEW n \in Name, n[2] > execution'[job] PROVE kubeJob'[n] = "absent" /\ n \notin creating'
      OBVIOUS
    <2>1. n[2] > execution[job]
      BY NameParts, SMTT(30)
    <2>2. QED
      BY <2>1 DEF ClusterInv, Calm
  <1>3. \A n \in Name : n[2] \in reports'[job] => kubeJob'[n] \notin {"running", "deleting"} /\ n \notin creating'
    BY CalmStill DEF ClusterInv
  <1>4. \A e \in 1..ExecutionBound : kubeJob'[<<"L5A", e>>] # "absent" =>
          plan'.l5a /\ kubeJob'[<<"L4", e>>] \notin {"running", "deleting"} /\ <<"L4", e>> \notin creating'
    <2> SUFFICES ASSUME NEW e \in 1..ExecutionBound, kubeJob'[<<"L5A", e>>] # "absent"
                 PROVE  plan'.l5a /\ kubeJob'[<<"L4", e>>] \notin {"running", "deleting"} /\ <<"L4", e>> \notin creating'
      OBVIOUS
    <2>1. <<"L4", e>> \in Name /\ <<"L5A", e>> \in Name
      BY NamesOf
    <2>2. kubeJob[<<"L5A", e>>] # "absent"
      BY <2>1 DEF Calm
    <2>3. plan.l5a /\ Still(<<"L4", e>>)
      BY <2>2 DEF ClusterInv
    <2>4. QED
      BY <1>0, <2>1, <2>3, CalmStill
  <1>5. execution'[job] # 0 => kubeJob'[Legacy] = "absent"
    BY NamesOf DEF ClusterInv, Calm
  <1>6. QED
    BY <1>1, <1>2, <1>3, <1>4, <1>5 DEF ClusterInv, Still, Legacy

(***************************************************************************)
(* A Job is born under an identity of the row that nobody released: the    *)
(* smoke-run before L5-a, L5-a after the smoke-run, a legacy Job for a row *)
(* without an identity.                                                    *)
(***************************************************************************)
LEMMA BirthStep ==
  ASSUME ClusterInv, KubeTyped, NEW n \in Name, Persist(n), UNCHANGED setting,
         execution'[job] = execution[job], reports'[job] = reports[job], execution[job] \in Nat,
         n[2] <= execution[job], n[2] \notin reports[job],
         n[1] = "L4" /\ n[2] # 0 => kubeJob[<<"L5A", n[2]>>] = "absent",
         n[1] = "L5A" => plan.l5a /\ Still(<<"L4", n[2]>>),
         n = Legacy => execution[job] = 0
  PROVE  ClusterInv'
  <1>0. plan' = plan /\ env' = env
    BY DEF setting, plan
  <1>k. /\ \A m \in Name : m # n => kubeJob'[m] = kubeJob[m]
        /\ \A m \in creating' : m \in creating /\ m # n /\ m \in Name
    BY DEF Persist, KubeTyped
  <1>1. \A m \in creating' :
          kubeJob'[m] = "absent" /\ m[1] = "L4" /\ m[2] # 0 /\ "L4" \in env'.unanswered
    BY <1>0, <1>k DEF ClusterInv
  <1>2. \A m \in Name : m[2] > execution'[job] => kubeJob'[m] = "absent" /\ m \notin creating'
    <2> SUFFICES ASSUME NEW m \in Name, m[2] > execution'[job] PROVE kubeJob'[m] = "absent" /\ m \notin creating'
      OBVIOUS
    <2>1. m # n
      BY NameParts, SMTT(30)
    <2>2. QED
      BY <1>k, <2>1 DEF ClusterInv
  <1>3. \A m \in Name : m[2] \in reports'[job] => kubeJob'[m] \notin {"running", "deleting"} /\ m \notin creating'
    BY <1>k DEF ClusterInv, Still
  <1>4. \A e \in 1..ExecutionBound : kubeJob'[<<"L5A", e>>] # "absent" =>
          plan'.l5a /\ kubeJob'[<<"L4", e>>] \notin {"running", "deleting"} /\ <<"L4", e>> \notin creating'
    <2> SUFFICES ASSUME NEW e \in 1..ExecutionBound, kubeJob'[<<"L5A", e>>] # "absent"
                 PROVE  plan'.l5a /\ kubeJob'[<<"L4", e>>] \notin {"running", "deleting"} /\ <<"L4", e>> \notin creating'
      OBVIOUS
    <2>1. <<"L4", e>> \in Name /\ <<"L5A", e>> \in Name /\ e # 0
      BY NamesOf, SMTT(30)
    <2>2. CASE n = <<"L5A", e>>
      <3>1. n[1] = "L5A" /\ n[2] = e /\ n # <<"L4", e>>
        BY <2>2
      <3>2. QED
        BY <1>0, <1>k, <2>1, <3>1 DEF Still
    <2>3. CASE n # <<"L5A", e>>
      <3>1. kubeJob[<<"L5A", e>>] # "absent"
        BY <1>k, <2>1, <2>3
      <3>2. plan.l5a /\ Still(<<"L4", e>>)
        BY <3>1 DEF ClusterInv
      <3>3. n # <<"L4", e>>
        BY <2>1, <3>1, SMTT(30)
      <3>4. QED
        BY <1>0, <1>k, <2>1, <3>2, <3>3 DEF Still
    <2>4. QED
      BY <2>2, <2>3
  <1>5. execution'[job] # 0 => kubeJob'[Legacy] = "absent"
    BY <1>k, NamesOf DEF ClusterInv
  <1>6. QED
    BY <1>1, <1>2, <1>3, <1>4, <1>5 DEF ClusterInv, Still, Legacy

----------------------------------------------------------------------------
Given == SentinelInv /\ PipeTypes /\ ExecutionInv /\ IdentityInv /\ Orderly /\ ClusterInv

(* A named attempt has an identity, and Jobs named for it. *)
LEMMA NamedJobs ==
  ASSUME Given, NEW w \in Workers, At(w) \in Named
  PROVE  /\ Execution(w) \in 1..ExecutionBound
         /\ Smoke(w) = <<"L4", Execution(w)>> /\ Validation(w) = <<"L5A", Execution(w)>> /\ Smoke(w) # Validation(w)
         /\ Smoke(w) \in Name /\ Validation(w) \in Name
  <1>1. execution[job] \in Nat /\ execution[job] <= ExecutionBound
    BY JobIsAJob DEF Given, SentinelInv, LeaseInv, StoreTypeOK, PipeTypes, Bounded
  <1>2. Execution(w) \in 0..execution[job] /\ Execution(w) # 0
    BY DEF Given, SentinelInv, ProcInv
  <1>3. Execution(w) \in 1..ExecutionBound
    BY <1>1, <1>2, StoreConstants, SMTT(30)
  <1>4. QED
    BY <1>3, NamesOf DEF Smoke, Validation

(* The calls that leave the identity of the row alone. *)
LEMMA IdsKept ==
  ASSUME NEW w
  PROVE  /\ UNCHANGED storeVars => UNCHANGED <<execution, reports>>
         /\ Heartbeat(job, w, Attempt(w)) => UNCHANGED <<execution, reports>>
         /\ LeaseJob(job, w) => UNCHANGED <<execution, reports>>
         /\ CompleteJob(job, w, Attempt(w)) => UNCHANGED <<execution, reports>>
         /\ FailJobForGood(job, w, Attempt(w)) => UNCHANGED <<execution, reports>>
         /\ FailJobRetryable(job, w, Attempt(w), env.delay) => UNCHANGED <<execution, reports>>
  BY DEF storeVars, executionVars, Heartbeat, LeaseJob, CompleteJob, FailJobForGood, FailJobRetryable, Conclude

(* Nothing happens to the cluster or to the identity. *)
LEMMA ClusterKept ==
  ASSUME ClusterInv, UNCHANGED <<execution, reports, setting, kubeVars>>
  PROVE  ClusterInv'
  BY DEF ClusterInv, Still, Legacy, kubeVars, setting, plan

(* A process that is not at work on the cluster. *)
LEMMA AwayInv ==
  ASSUME NEW w, proc'[w].at \notin Begun \cup Named
  PROVE  StageInv(w)'
  BY DEF StageInv, StageAt, At, Begun, Named, Smoking, Profiling

(* One that reports, or rests, is not. *)
LEMMA EndsAway ==
  ASSUME proc \in [Workers -> Process], NEW w \in Workers
  PROVE  /\ \A stage, class : Failed(w, stage, class) => StageInv(w)'
         /\ \A stage, result, terminal : Passed(w, stage, result, terminal) => StageInv(w)'
         /\ \A at \in {"idle", "dead"} : proc' = [proc EXCEPT ![w] = Rest(at)] => StageInv(w)'
         /\ Leave(w) => StageInv(w)'
  <1>0. proc[w] \in Process
    OBVIOUS
  <1>r. ASSUME NEW r, proc' = [proc EXCEPT ![w].at = "report", ![w].report = r] PROVE StageInv(w)'
    <2>1. proc'[w] = [proc[w] EXCEPT !.at = "report", !.report = r]
      BY <1>r
    <2>2. proc'[w].at = "report"
      BY <1>0, <2>1 DEF Process
    <2>3. "report" \notin Begun \cup Named
      BY DEF Begun, Named
    <2>4. QED
      BY <2>2, <2>3, AwayInv
  <1>1. ASSUME NEW stage, NEW class, Failed(w, stage, class) PROVE StageInv(w)'
    <2>1. \E r : proc' = [proc EXCEPT ![w].at = "report", ![w].report = r]
      BY <1>1 DEF Failed
    <2>2. QED
      BY <1>r, <2>1
  <1>2. ASSUME NEW stage, NEW result, NEW terminal, Passed(w, stage, result, terminal) PROVE StageInv(w)'
    <2>1. \E r : proc' = [proc EXCEPT ![w].at = "report", ![w].report = r]
      BY <1>2 DEF Passed
    <2>2. QED
      BY <1>r, <2>1
  <1>3. ASSUME NEW at \in {"idle", "dead"}, proc' = [proc EXCEPT ![w] = Rest(at)] PROVE StageInv(w)'
    <2>1. proc'[w] = Rest(at)
      BY <1>3
    <2>2. proc'[w].at = at
      BY <2>1, SMTT(30) DEF Rest
    <2>3. at \notin Begun \cup Named
      BY DEF Begun, Named
    <2>4. QED
      BY <2>2, <2>3, AwayInv
  <1>4. QED
    BY <1>1, <1>2, <1>3 DEF Leave

(* What a process on the way knows, it knows when it gets there, if nothing changed. *)
LEMMA StageKept ==
  ASSUME NEW w, NEW at, proc'[w].at = at, proc'[w].execution = proc[w].execution, StageAt(w, at),
         UNCHANGED <<execution, reports, setting, kubeVars>>
  PROVE  StageInv(w)'
  BY DEF StageInv, StageAt, At, Execution, Smoke, Validation, Still, Legacy, kubeVars, setting, plan

(* The steps that leave the cluster and the identity alone. *)
Looking(w) ==
  \/ Plan(w) \/ Retire(w) \/ RetireConfirm(w) \/ Retired(w) \/ Seek(w) \/ LookUp(w) \/ PollError(w) \/ PollRunning(w)
  \/ BeginL5a(w) \/ GiveUpL5a(w) \/ Renew(w) \/ BeginL5b(w)

(* Each of them looks at what it needs to know next. *)
LEMMA LookingStep ==
  ASSUME Given, NEW w \in Workers, StageInv(w), Looking(w)
  PROVE  ClusterInv' /\ StageInv(w)'
  <1>0. proc \in [Workers -> Process] /\ ClusterInv
    BY DEF Given, SentinelInv
  <1>c. UNCHANGED <<execution, reports, setting, kubeVars>> => ClusterInv'
    BY <1>0, ClusterKept
  <1>i. /\ UNCHANGED storeVars => UNCHANGED <<execution, reports>>
        /\ Heartbeat(job, w, Attempt(w)) => UNCHANGED <<execution, reports>>
    BY IdsKept
  <1>e. /\ \A stage, class : Failed(w, stage, class) => StageInv(w)'
        /\ \A stage, result, terminal : Passed(w, stage, result, terminal) => StageInv(w)'
        /\ Leave(w) => StageInv(w)'
    BY <1>0, EndsAway
  <1>m. ASSUME NEW at, Move(w, at), StageAt(w, at), UNCHANGED <<execution, reports, setting, kubeVars>>
        PROVE  StageInv(w)'
    <2>1. proc'[w].at = at /\ proc'[w].execution = proc[w].execution
      BY <1>0, <1>m, Moved
    <2>2. QED
      BY <1>m, <2>1, StageKept
  <1>u. UNCHANGED proc /\ UNCHANGED <<execution, reports, setting, kubeVars>> => StageInv(w)'
    <2> SUFFICES ASSUME UNCHANGED proc, UNCHANGED <<execution, reports, setting, kubeVars>> PROVE StageInv(w)'
      OBVIOUS
    <2>1. proc'[w].at = At(w) /\ proc'[w].execution = proc[w].execution /\ StageAt(w, At(w))
      BY DEF At, StageInv
    <2>2. QED
      BY <2>1, StageKept
  <1>1. CASE Plan(w)
    <2>1. UNCHANGED <<execution, reports, setting, kubeVars>>
      BY <1>1, <1>i DEF Plan
    <2>2. Execution(w) = execution[job]
      BY <1>1 DEF Plan, StageInv, StageAt, Begun
    <2>3. StageAt(w, "retire")
      BY <2>2 DEF StageAt, Begun, Named, Smoking, Profiling
    <2>4. ~(Execution(w) = 0 /\ kubeJob[Legacy] # "absent") => StageAt(w, "ensure")
      BY <1>0, <2>2 DEF StageAt, Begun, Named, Smoking, Profiling, ClusterInv
    <2>5. CASE Execution(w) = 0 /\ kubeJob[Legacy] # "absent" /\ Move(w, "retire")
      BY <1>c, <1>m, <2>1, <2>3, <2>5
    <2>6. CASE ~(Execution(w) = 0 /\ kubeJob[Legacy] # "absent") /\ Move(w, "ensure")
      BY <1>c, <1>m, <2>1, <2>4, <2>6
    <2>7. CASE \E stage, class : Failed(w, stage, class)
      BY <1>c, <1>e, <2>1, <2>7
    <2>8. QED
      BY <1>1, <2>5, <2>6, <2>7 DEF Plan
  <1>2. CASE Retire(w)
    <2>1. UNCHANGED <<execution, reports, setting, kubeVars>>
      BY <1>2, <1>i DEF Retire
    <2>2. StageAt(w, "retireDelete")
      BY <1>2 DEF Retire, StageInv, StageAt, Begun, Named, Smoking, Profiling
    <2>3. QED
      BY <1>2, <1>c, <1>e, <1>m, <2>1, <2>2 DEF Retire
  <1>3. CASE RetireConfirm(w)
    <2>1. UNCHANGED <<execution, reports, setting, kubeVars>>
      BY <1>3, <1>i DEF RetireConfirm
    <2>2. kubeJob[Legacy] = "absent" => StageAt(w, "retired")
      BY <1>3 DEF RetireConfirm, StageInv, StageAt, Begun, Named, Smoking, Profiling
    <2>3. QED
      BY <1>3, <1>c, <1>e, <1>m, <2>1, <2>2 DEF RetireConfirm
  <1>4. CASE Retired(w)
    <2>1. UNCHANGED <<execution, reports, setting, kubeVars>>
      BY <1>4, <1>i DEF Retired, StillLeased
    <2>2. StageAt(w, "ensure")
      BY <1>4 DEF Retired, StageInv, StageAt, Begun, Named, Smoking, Profiling
    <2>3. QED
      BY <1>4, <1>c, <1>e, <1>m, <2>1, <2>2 DEF Retired, StillLeased
  <1>5. CASE Seek(w)
    <2>1. UNCHANGED <<execution, reports, setting, kubeVars>>
      BY <1>5, <1>i DEF Seek
    <2>2. kubeJob[Validation(w)] = "absent" => StageAt(w, "adopt")
      BY <1>5 DEF Seek, StageInv, StageAt, Begun, Named, Smoking, Profiling
    <2>3. kubeJob[Validation(w)] # "absent" => StageAt(w, "l5a")
      <3>1. At(w) \in Named
        BY <1>5 DEF Seek, Named
      <3>2. Execution(w) \in 1..ExecutionBound
        BY <3>1, NamedJobs
      <3>3. kubeJob[Validation(w)] # "absent" => Still(Smoke(w))
        BY <1>0, <3>2 DEF ClusterInv, Smoke, Validation
      <3>4. QED
        BY <1>5, <3>3 DEF Seek, StageInv, StageAt, Begun, Named, Smoking, Profiling
    <2>4. CASE kubeJob[Validation(w)] = "absent" /\ Move(w, "adopt")
      BY <1>c, <1>m, <2>1, <2>2, <2>4
    <2>5. CASE kubeJob[Validation(w)] # "absent" /\ Move(w, "l5a")
      BY <1>c, <1>m, <2>1, <2>3, <2>5
    <2>6. QED
      BY <1>5, <1>c, <1>e, <2>1, <2>4, <2>5 DEF Seek
  <1>6. CASE LookUp(w) \/ PollRunning(w)
    <2>1. UNCHANGED <<execution, reports, setting, kubeVars>>
      BY <1>6, <1>i DEF LookUp, PollRunning
    <2>2. At(w) \in {"lookup", "adopt"}
      BY <1>6 DEF LookUp, PollRunning
    <2>3. kubeJob[Smoke(w)] # "absent" => StageAt(w, "poll")
      BY <1>0, <2>2 DEF StageInv, StageAt, Begun, Named, Smoking, Profiling, ClusterInv
    <2>4. CASE kubeJob[Smoke(w)] # "absent" /\ Move(w, "poll")
      BY <1>c, <1>m, <2>1, <2>3, <2>4
    <2>5. QED
      BY <1>6, <1>c, <1>e, <2>1, <2>4 DEF LookUp, PollRunning, Executing
  <1>7. CASE PollError(w) \/ GiveUpL5a(w)
    <2>1. UNCHANGED <<execution, reports, setting, kubeVars>>
      BY <1>7, <1>i DEF PollError, GiveUpL5a
    <2>2. QED
      BY <1>7, <1>c, <1>e, <2>1 DEF PollError, GiveUpL5a, AfterL5a
  <1>8. CASE BeginL5a(w)
    <2>1. UNCHANGED <<execution, reports, setting, kubeVars>>
      BY <1>8, <1>i DEF BeginL5a, StillLeased
    <2>2. StageAt(w, "l5aCreate")
      BY <1>8 DEF BeginL5a, StageInv, StageAt, Begun, Named, Smoking, Profiling
    <2>3. QED
      BY <1>8, <1>c, <1>e, <1>m, <2>1, <2>2 DEF BeginL5a, StillLeased
  <1>9. CASE Renew(w)
    <2>1. UNCHANGED <<execution, reports, setting, kubeVars>>
      BY <1>9, <1>i DEF Renew, StillLeased
    <2>2. UNCHANGED proc \/ Leave(w)
      BY <1>9 DEF Renew, StillLeased
    <2>3. QED
      BY <1>c, <1>e, <1>u, <2>1, <2>2
  <1>10. CASE BeginL5b(w)
    <2>1. UNCHANGED <<execution, reports, setting, kubeVars>>
      BY <1>10, <1>i DEF BeginL5b, StillLeased
    <2>2. Passed(w, "L5B", "scanned", TRUE) \/ Leave(w)
      BY <1>10 DEF BeginL5b, StillLeased
    <2>3. QED
      BY <1>c, <1>e, <2>1, <2>2
  <1>11. QED
    BY <1>1, <1>2, <1>3, <1>4, <1>5, <1>6, <1>7, <1>8, <1>9, <1>10 DEF Looking

----------------------------------------------------------------------------
(* What the row has and the step leaves: numbers. *)
LEMMA RowNumbers ==
  ASSUME Given
  PROVE  /\ execution[job] \in Nat /\ execution[job] <= ExecutionBound /\ attempt[job] \in Nat
         /\ reports[job] \subseteq 1..execution[job]
         /\ KubeTyped /\ proc \in [Workers -> Process]
  BY JobIsAJob DEF Given, SentinelInv, LeaseInv, StoreTypeOK, PipeTypes, Bounded, ExecutionInv, JobExecutionInv

(***************************************************************************)
(* An attempt that ends and releases its identity, or does not: nothing    *)
(* executes under the names of the identity.                               *)
(***************************************************************************)
LEMMA ReleaseStep ==
  ASSUME Given, NEW w \in Workers, At(w) \in Named, Calm, UNCHANGED setting,
         \/ UNCHANGED storeVars
         \/ /\ Release(w)
            /\ kubeJob'[Smoke(w)] \notin {"running", "deleting"} /\ Smoke(w) \notin creating'
            /\ kubeJob'[Validation(w)] \notin {"running", "deleting"} /\ Validation(w) \notin creating'
  PROVE  ClusterInv'
  <1>0. /\ execution[job] \in Nat /\ KubeTyped /\ ClusterInv
        /\ job \in Jobs /\ reports \in [Jobs -> SUBSET Nat]
    BY RowNumbers, JobIsAJob DEF Given, SentinelInv, LeaseInv, StoreTypeOK
  <1>1. CASE UNCHANGED storeVars
    <2>1. execution' = execution /\ reports' = reports
      BY <1>1, IdsKept
    <2>2. QED
      BY <1>0, <2>1, CalmStep, SMTT(30)
  <1>2. CASE MarkExecutionTerminal(job, Execution(w))
             /\ kubeJob'[Smoke(w)] \notin {"running", "deleting"} /\ Smoke(w) \notin creating'
             /\ kubeJob'[Validation(w)] \notin {"running", "deleting"} /\ Validation(w) \notin creating'
    <2>1. execution' = execution /\ reports'[job] = reports[job] \cup {Execution(w)}
      BY <1>0, <1>2 DEF MarkExecutionTerminal
    <2>2. ASSUME NEW n \in Name, n[2] = Execution(w)
          PROVE  kubeJob'[n] \notin {"running", "deleting"} /\ n \notin creating'
      <3>1. n \in {Smoke(w), Validation(w)}
        BY <2>2, NameParts, NamedJobs
      <3>2. QED
        BY <1>2, <3>1
    <2>3. \A n \in Name : n[2] \in reports'[job] =>
            n[2] \in reports[job] \/ (kubeJob'[n] \notin {"running", "deleting"} /\ n \notin creating')
      BY <2>1, <2>2
    <2>4. QED
      BY <1>0, <2>1, <2>3, CalmStep, SMTT(30)
  <1>3. QED
    BY <1>1, <1>2 DEF Release

(* No Create of L5-a is ever left under way, nor one of a name that has a Job. *)
LEMMA NotUnderWay ==
  ASSUME Given, NEW w \in Workers
  PROVE  Validation(w) \notin creating /\ \A n : kubeJob[n] # "absent" => n \notin creating
  BY DEF Given, ClusterInv, Validation

(* The steps that end an attempt and may release its identity. *)
Releasing(w) == DryRun(w) \/ RejectSmoke(w) \/ PollNothing(w) \/ Confirm(w) \/ Stop(w) \/ WaitEnd(w) \/ WaitError(w)

(* Each of them has seen that nothing executes under it. *)
LEMMA ReleasingStep ==
  ASSUME Given, NEW w \in Workers, StageInv(w), Releasing(w)
  PROVE  ClusterInv' /\ StageInv(w)'
  <1>0. proc \in [Workers -> Process] /\ KubeTyped /\ ClusterInv
    BY RowNumbers DEF Given
  <1>n. /\ Validation(w) \notin creating
        /\ kubeJob[Validation(w)] # "absent" => Validation(w) \notin creating
        /\ kubeJob[Smoke(w)] # "absent" => Smoke(w) \notin creating
    BY NotUnderWay
  <1>a. At(w) \in Named
    BY DEF Releasing, DryRun, RejectSmoke, PollNothing, Confirm, Stop, WaitEnd, WaitError, Named
  <1>b. Smoke(w) \in Name /\ Validation(w) \in Name /\ Smoke(w) # Validation(w)
    BY <1>a, NamedJobs
  <1>c. UNCHANGED kubeVars => Calm /\ kubeJob' = kubeJob /\ creating' = creating
    BY <1>0, CalmCalls DEF kubeVars
  <1>r. ASSUME Still(Smoke(w)), Still(Validation(w)), Calm, UNCHANGED setting, Release(w) \/ UNCHANGED storeVars
        PROVE  ClusterInv'
    BY <1>a, <1>b, <1>r, CalmStill, ReleaseStep
  <1>s. ASSUME Calm, UNCHANGED <<setting, storeVars>> PROVE ClusterInv'
    BY <1>a, <1>s, ReleaseStep
  <1>e. /\ \A stage, class : Failed(w, stage, class) => StageInv(w)'
        /\ \A stage, result, terminal : Passed(w, stage, result, terminal) => StageInv(w)'
        /\ proc' = [proc EXCEPT ![w] = Rest("dead")] => StageInv(w)'
    BY <1>0, EndsAway
  <1>m. ASSUME NEW at, Move(w, at), StageAt(w, at), UNCHANGED <<storeVars, setting, kubeVars>>
        PROVE  StageInv(w)'
    <2>1. proc'[w].at = at /\ proc'[w].execution = proc[w].execution
      BY <1>0, <1>m, Moved
    <2>2. UNCHANGED <<execution, reports, setting, kubeVars>>
      BY <1>m, IdsKept
    <2>3. QED
      BY <1>m, <2>1, <2>2, StageKept
  <1>1. CASE DryRun(w)
    <2>1. StageAt(w, "create") /\ Still(Smoke(w)) /\ Still(Validation(w))
      BY <1>1, <1>n DEF DryRun, StageInv, StageAt, Still, Begun, Named, Smoking, Profiling
    <2>2. UNCHANGED <<setting, kubeVars>> /\ (Release(w) \/ UNCHANGED storeVars)
      BY <1>1 DEF DryRun
    <2>3. ClusterInv'
      BY <1>c, <1>r, <2>1, <2>2
    <2>4. StageInv(w)'
      BY <1>1, <1>e, <1>m, <2>1, <2>2 DEF DryRun
    <2>5. QED
      BY <2>3, <2>4
  <1>2. CASE RejectSmoke(w)
    <2>1. UNCHANGED <<setting, kubeVars>> /\ StageInv(w)'
      BY <1>2, <1>e DEF RejectSmoke
    <2>2. CASE At(w) = "create" /\ Release(w)
      <3>1. Still(Smoke(w)) /\ Still(Validation(w))
        BY <1>n, <2>2 DEF StageInv, StageAt, Still, Smoking
      <3>2. QED
        BY <1>c, <1>r, <2>1, <2>2, <3>1
    <2>3. CASE UNCHANGED storeVars
      BY <1>c, <1>s, <2>1, <2>3
    <2>4. QED
      BY <1>2, <2>1, <2>2, <2>3 DEF RejectSmoke
  <1>3. CASE PollNothing(w)
    <2>1. UNCHANGED <<setting, kubeVars>> /\ kubeJob[Smoke(w)] = "absent"
      BY <1>3 DEF PollNothing
    <2>2. CASE At(w) = "adopt" /\ Move(w, "recreate") /\ UNCHANGED storeVars
      <3>1. StageAt(w, "recreate")
        BY <2>2 DEF StageInv, StageAt, Begun, Named, Smoking, Profiling
      <3>2. QED
        BY <1>c, <1>s, <1>m, <2>1, <2>2, <3>1
    <2>3. CASE At(w) = "poll" /\ Release(w) /\ Failed(w, "L4", "UNKNOWN")
      <3>1. Still(Smoke(w)) /\ Still(Validation(w))
        BY <1>n, <2>1, <2>3 DEF StageInv, StageAt, Still, Smoking
      <3>2. QED
        BY <1>c, <1>r, <1>e, <2>1, <2>3, <3>1
    <2>4. QED
      BY <1>3, <2>2, <2>3 DEF PollNothing
  <1>w. ASSUME At(w) \in {"cleanup", "stop", "cleanupL5a", "stopL5a"}, kubeJob[Watched(w)] = "absent"
        PROVE  Still(Smoke(w)) /\ Still(Validation(w))
    <2>1. CASE At(w) \in {"cleanup", "stop"}
      <3>1. Watched(w) = Smoke(w)
        BY <2>1 DEF Watched
      <3>2. QED
        BY <1>n, <1>w, <2>1, <3>1 DEF StageInv, StageAt, Still, Smoking
    <2>2. CASE At(w) \in {"cleanupL5a", "stopL5a"}
      <3>1. Watched(w) = Validation(w)
        BY <2>2 DEF Watched
      <3>2. QED
        BY <1>n, <1>w, <2>2, <3>1 DEF StageInv, StageAt, Still, Profiling
    <2>3. QED
      BY <1>w, <2>1, <2>2
  <1>4. CASE Confirm(w)
    <2>1. UNCHANGED <<setting, kubeVars>> /\ At(w) \in {"cleanup", "stop", "cleanupL5a", "stopL5a"}
      BY <1>4 DEF Confirm
    <2>2. StageInv(w)'
      BY <1>4, <1>e DEF Confirm, AfterTimeout
    <2>3. CASE kubeJob[Watched(w)] = "absent" /\ Release(w)
      BY <1>c, <1>r, <1>w, <2>1, <2>2, <2>3
    <2>4. CASE UNCHANGED storeVars
      BY <1>c, <1>s, <2>1, <2>2, <2>4
    <2>5. QED
      BY <1>4, <2>3, <2>4 DEF Confirm
  <1>5. CASE Stop(w)
    <2>1. UNCHANGED <<setting, kubeVars>> /\ At(w) \in {"cleanup", "stop", "cleanupL5a", "stopL5a"} /\ StageInv(w)'
      BY <1>5, <1>e DEF Stop
    <2>2. CASE kubeJob[Watched(w)] = "absent" /\ Release(w)
      BY <1>c, <1>r, <1>w, <2>1, <2>2
    <2>3. CASE UNCHANGED storeVars
      BY <1>c, <1>s, <2>1, <2>3
    <2>4. QED
      BY <1>5, <2>2, <2>3 DEF Stop
  <1>6. CASE WaitEnd(w)
    <2>1. UNCHANGED setting /\ StageInv(w)' /\ Release(w) /\ TryDelete(Validation(w))
      BY <1>6, <1>e DEF WaitEnd, AfterL5a
    <2>2. Still(Smoke(w)) /\ Still(Validation(w))
      BY <1>6, <1>n DEF WaitEnd, StageInv, StageAt, Still, Profiling
    <2>3. Calm
      BY <1>0, <1>b, <2>1, CalmCalls
    <2>4. QED
      BY <1>r, <2>1, <2>2, <2>3
  <1>7. CASE WaitError(w)
    <2>1. UNCHANGED <<setting, storeVars>> /\ StageInv(w)' /\ TryDelete(Validation(w))
      BY <1>7, <1>e DEF WaitError, AfterL5a
    <2>2. Calm
      BY <1>0, <1>b, <2>1, CalmCalls
    <2>3. QED
      BY <1>s, <2>1, <2>2
  <1>8. QED
    BY <1>1, <1>2, <1>3, <1>4, <1>5, <1>6, <1>7 DEF Releasing

----------------------------------------------------------------------------
(* A calm cluster changes nothing a process knows of it. *)
LEMMA StageCalm ==
  ASSUME NEW w, NEW at, proc'[w].at = at, proc'[w].execution = proc[w].execution, StageAt(w, at), Calm,
         at \in Named => Smoke(w) \in Name /\ Validation(w) \in Name,
         UNCHANGED <<execution, reports, setting>>
  PROVE  StageInv(w)'
  <1>0. plan' = plan /\ execution' = execution /\ reports' = reports
    BY DEF setting, plan
  <1>1. proc'[w].execution = Execution(w) /\ proc'[w].at = at
    BY DEF Execution
  <1>2. at \in {"retired", "ensure"} => kubeJob'[Legacy] = "absent"
    BY NamesOf DEF StageAt, Calm
  <1>3. at \in {"dryrun", "create"} => kubeJob'[Smoke(w)] = "absent" /\ Smoke(w) \notin creating'
    BY DEF StageAt, Calm, Named
  <1>4. at \in Smoking => kubeJob'[Validation(w)] = "absent"
    BY DEF StageAt, Calm, Named, Smoking
  <1>5. at \in {"poll", "cleanup", "stop"} => Smoke(w) \notin creating'
    BY DEF StageAt, Calm
  <1>6. at \in Profiling => kubeJob'[Smoke(w)] \notin {"running", "deleting"} /\ Smoke(w) \notin creating'
    <2>1. Profiling \subseteq Named
      BY DEF Profiling, Named
    <2>2. QED
      BY <2>1, CalmStill DEF StageAt
  <1>7. /\ at \in Begun \cup Named => proc'[w].execution = execution'[job]
        /\ at \in Named => execution'[job] \notin reports'[job]
        /\ at \in Profiling \cup {"seek"} => plan'.l5a
    BY <1>0, <1>1 DEF StageAt
  <1>8. <<"L4", proc'[w].execution>> = Smoke(w) /\ <<"L5A", proc'[w].execution>> = Validation(w)
    BY <1>1 DEF Smoke, Validation
  <1>9. QED
    BY <1>1, <1>2, <1>3, <1>4, <1>5, <1>6, <1>7, <1>8
    DEF StageInv, StageAt, At, Execution, Smoke, Validation, Still, Legacy

(* Nor anything the row says, if its identity stays. *)
LEMMA CalmKept ==
  ASSUME Given, Calm, UNCHANGED <<execution, reports, setting>>
  PROVE  ClusterInv'
  <1>1. execution[job] \in Nat /\ KubeTyped /\ ClusterInv
    BY RowNumbers DEF Given
  <1>2. execution'[job] = execution[job] /\ reports'[job] = reports[job] /\ execution'[job] >= execution[job]
    BY <1>1, SMTT(30)
  <1>3. execution'[job] # 0 => execution[job] # 0 \/ kubeJob[Legacy] = "absent"
    BY <1>2
  <1>4. QED
    BY <1>1, <1>2, <1>3, CalmStep, SMTT(30)

(* The steps that delete a Job. *)
Deleting(w) == RetireDelete(w) \/ Timeout(w) \/ Sigterm(w) \/ PollEnd(w)

(* None of them leaves a Create under way, or releases what may still execute. *)
LEMMA DeletingStep ==
  ASSUME Given, NEW w \in Workers, StageInv(w), Deleting(w)
  PROVE  ClusterInv' /\ StageInv(w)'
  <1>0. proc \in [Workers -> Process] /\ KubeTyped /\ ClusterInv /\ Orderly /\ execution[job] \in Nat
    BY RowNumbers DEF Given
  <1>n. /\ Validation(w) \notin creating
        /\ kubeJob[Smoke(w)] # "absent" => Smoke(w) \notin creating
    BY NotUnderWay
  <1>b. At(w) \in Named => Smoke(w) \in Name /\ Validation(w) \in Name
    BY NamedJobs
  <1>c. /\ \A n \in Name : Delete(n) => Calm
        /\ \A n \in Name : TryDelete(n) => Calm
        /\ UNCHANGED kubeVars => Calm
    BY <1>0, CalmCalls
  <1>s. ASSUME Calm, UNCHANGED <<setting, storeVars>> PROVE ClusterInv'
    <2>1. execution' = execution /\ reports' = reports
      BY <1>s, IdsKept
    <2>2. QED
      BY <1>s, <2>1, CalmKept
  <1>e. /\ \A stage, class : Failed(w, stage, class) => StageInv(w)'
        /\ \A stage, result, terminal : Passed(w, stage, result, terminal) => StageInv(w)'
    BY <1>0, EndsAway
  <1>m. ASSUME NEW at, Move(w, at), StageAt(w, at), at \in Named => At(w) \in Named,
               UNCHANGED <<storeVars, setting>>, Calm
        PROVE  StageInv(w)'
    <2>1. proc'[w].at = at /\ proc'[w].execution = proc[w].execution
      BY <1>0, <1>m, Moved
    <2>2. UNCHANGED <<execution, reports, setting>>
      BY <1>m, IdsKept
    <2>3. QED
      BY <1>b, <1>m, <2>1, <2>2, StageCalm
  <1>1. CASE RetireDelete(w)
    <2>1. Legacy \in Name /\ UNCHANGED <<storeVars, setting>>
      BY <1>1, NamesOf DEF RetireDelete
    <2>2. Calm
      BY <1>1, <1>c, <2>1 DEF RetireDelete
    <2>3. StageAt(w, "retireConfirm") /\ "retireConfirm" \notin Named
      BY <1>1 DEF RetireDelete, StageInv, StageAt, Begun, Named, Smoking, Profiling
    <2>4. Move(w, "retireConfirm") \/ \E stage, class : Failed(w, stage, class)
      BY <1>1 DEF RetireDelete
    <2>5. QED
      BY <1>s, <1>e, <1>m, <2>1, <2>2, <2>3, <2>4
  <1>2. CASE Timeout(w)
    <2>1. UNCHANGED <<storeVars, setting>> /\ At(w) \in {"poll", "wait"} /\ At(w) \in Named
      BY <1>2 DEF Timeout, Named
    <2>2. Watched(w) \in Name
      BY <1>b, <2>1 DEF Watched
    <2>3. Calm
      BY <1>2, <1>c, <2>2 DEF Timeout
    <2>4. At(w) = "poll" => StageAt(w, "cleanup")
      BY DEF StageInv, StageAt, Begun, Named, Smoking, Profiling
    <2>5. At(w) = "wait" => StageAt(w, "cleanupL5a")
      BY DEF StageInv, StageAt, Begun, Named, Smoking, Profiling
    <2>6. CASE At(w) = "poll" /\ Move(w, "cleanup")
      BY <1>s, <1>m, <2>1, <2>3, <2>4, <2>6
    <2>7. CASE At(w) = "wait" /\ Move(w, "cleanupL5a")
      BY <1>s, <1>m, <2>1, <2>3, <2>5, <2>7
    <2>8. CASE AfterTimeout(w)
      BY <1>s, <1>e, <2>1, <2>3, <2>8 DEF AfterTimeout
    <2>9. QED
      BY <1>2, <2>1, <2>6, <2>7, <2>8 DEF Timeout
  <1>3. CASE Sigterm(w)
    <2>1. UNCHANGED <<storeVars, setting>> /\ At(w) \in {"adopt", "poll", "wait"} /\ At(w) \in Named
      BY <1>3 DEF Sigterm, Named
    <2>2. Watched(w) \in Name
      BY <1>b, <2>1 DEF Watched
    <2>3. Calm
      BY <1>3, <1>c, <2>2 DEF Sigterm
    <2>4. Smoke(w) \notin creating
      BY <1>0, <1>3 DEF Sigterm, Orderly, ClusterInv
    <2>5. At(w) \in {"adopt", "poll"} => StageAt(w, "stop")
      BY <2>4 DEF StageInv, StageAt, Begun, Named, Smoking, Profiling
    <2>6. At(w) = "wait" => StageAt(w, "stopL5a")
      BY DEF StageInv, StageAt, Begun, Named, Smoking, Profiling
    <2>7. CASE At(w) \in {"adopt", "poll"} /\ Move(w, "stop")
      BY <1>s, <1>m, <2>1, <2>3, <2>5, <2>7
    <2>8. CASE At(w) = "wait" /\ Move(w, "stopL5a")
      BY <1>s, <1>m, <2>1, <2>3, <2>6, <2>8
    <2>9. QED
      BY <1>3, <2>1, <2>7, <2>8 DEF Sigterm
  <1>4. CASE PollEnd(w)
    <2>1. UNCHANGED setting /\ At(w) \in {"adopt", "poll"} /\ At(w) \in Named
      BY <1>4 DEF PollEnd, Named
    <2>2. Calm
      BY <1>4, <1>b, <1>c, <2>1 DEF PollEnd
    <2>3. kubeJob[Smoke(w)] \in {"complete", "failed"}
      BY <1>4 DEF PollEnd
    <2>4. Still(Smoke(w)) /\ Still(Validation(w))
      BY <1>n, <2>1, <2>3 DEF StageInv, StageAt, Smoking, Still
    <2>5. Release(w) \/ UNCHANGED storeVars
      BY <1>4 DEF PollEnd
    <2>6. ClusterInv'
      BY <1>b, <2>1, <2>2, <2>4, <2>5, CalmStill, ReleaseStep
    <2>7. CASE plan.l5a /\ UNCHANGED storeVars /\ Move(w, "l5a")
      <3>1. StageAt(w, "l5a")
        BY <2>1, <2>4, <2>7 DEF StageInv, StageAt, Begun, Named, Smoking, Profiling
      <3>2. QED
        BY <1>m, <2>1, <2>2, <2>6, <2>7, <3>1
    <2>8. CASE Move(w, "l5b")
      <3>1. proc'[w].at = "l5b" /\ "l5b" \notin Begun \cup Named
        BY <1>0, <2>8, Moved DEF Begun, Named
      <3>2. QED
        BY <2>6, <3>1, AwayInv
    <2>9. CASE (\E stage, class : Failed(w, stage, class)) \/ \E stage, result, terminal : Passed(w, stage, result, terminal)
      BY <1>e, <2>6, <2>9
    <2>10. QED
      BY <1>4, <2>7, <2>8, <2>9 DEF PollEnd, AfterSmoke
  <1>5. QED
    BY <1>1, <1>2, <1>3, <1>4 DEF Deleting

----------------------------------------------------------------------------
(* A Create of the smoke-run is left under way before L5-a, for an identity nobody released. *)
LEMMA AwaitStep ==
  ASSUME Given, NEW n \in Name, kubeJob[n] = "absent", creating' = creating \cup {n},
         UNCHANGED <<execution, reports, setting, kubeJob>>,
         n[1] = "L4", n[2] # 0, "L4" \in env.unanswered, n[2] <= execution[job], n[2] \notin reports[job],
         kubeJob[<<"L5A", n[2]>>] = "absent"
  PROVE  ClusterInv'
  <1>0. plan' = plan /\ env' = env /\ ClusterInv /\ execution[job] \in Nat
    BY RowNumbers DEF setting, plan, Given
  <1>1. \A m \in creating' : kubeJob'[m] = "absent" /\ m[1] = "L4" /\ m[2] # 0 /\ "L4" \in env'.unanswered
    BY <1>0 DEF ClusterInv
  <1>2. ASSUME NEW m \in Name, m[2] > execution'[job] PROVE kubeJob'[m] = "absent" /\ m \notin creating'
    <2>1. m # n
      BY <1>0, <1>2, NameParts, SMTT(30)
    <2>2. QED
      BY <1>0, <1>2, <2>1 DEF ClusterInv
  <1>3. \A m \in Name : m[2] \in reports'[job] => kubeJob'[m] \notin {"running", "deleting"} /\ m \notin creating'
    BY <1>0 DEF ClusterInv, Still
  <1>4. ASSUME NEW e \in 1..ExecutionBound, kubeJob'[<<"L5A", e>>] # "absent"
        PROVE  plan'.l5a /\ kubeJob'[<<"L4", e>>] \notin {"running", "deleting"} /\ <<"L4", e>> \notin creating'
    <2>1. plan.l5a /\ Still(<<"L4", e>>)
      BY <1>0, <1>4 DEF ClusterInv
    <2>2. n # <<"L4", e>>
      <3>1. SUFFICES ASSUME n = <<"L4", e>> PROVE FALSE
        OBVIOUS
      <3>2. n[2] = e
        BY <3>1
      <3>3. QED
        BY <1>4, <3>2
    <2>3. QED
      BY <1>0, <2>1, <2>2 DEF Still
  <1>5. execution'[job] # 0 => kubeJob'[Legacy] = "absent"
    BY <1>0 DEF ClusterInv
  <1>6. QED
    BY <1>1, <1>2, <1>3, <1>4, <1>5 DEF ClusterInv, Still, Legacy

(* What a birth of one Job leaves alone. *)
LEMMA PersistFrame ==
  ASSUME KubeTyped, NEW n \in Name, Persist(n)
  PROVE  /\ \A m \in Name : m # n => kubeJob'[m] = kubeJob[m]
         /\ creating' \subseteq creating /\ n \notin creating'
  BY DEF Persist, KubeTyped

(* A named attempt works under the identity of the row, which nobody released. *)
LEMMA OwnJobs ==
  ASSUME Given, NEW w \in Workers, At(w) \in Named, StageInv(w)
  PROVE  /\ Smoke(w) \in Name /\ Smoke(w)[1] = "L4" /\ Smoke(w)[2] = Execution(w)
         /\ Validation(w) \in Name /\ Validation(w)[1] = "L5A" /\ Validation(w)[2] = Execution(w)
         /\ Smoke(w) # Validation(w) /\ Smoke(w) # Legacy /\ Validation(w) # Legacy
         /\ Smoke(w) = <<"L4", Execution(w)>> /\ Validation(w) = <<"L5A", Execution(w)>>
         /\ Execution(w) # 0 /\ Execution(w) <= execution[job] /\ Execution(w) \notin reports[job]
  <1>1. execution[job] \in Nat
    BY RowNumbers
  <1>2. Execution(w) = execution[job] /\ execution[job] \notin reports[job]
    BY DEF StageInv, StageAt
  <1>3. /\ Execution(w) \in 1..ExecutionBound /\ Smoke(w) = <<"L4", Execution(w)>>
        /\ Validation(w) = <<"L5A", Execution(w)>> /\ Smoke(w) # Validation(w)
        /\ Smoke(w) \in Name /\ Validation(w) \in Name
    BY NamedJobs
  <1>4. Execution(w) # 0 /\ Execution(w) <= execution[job]
    BY <1>1, <1>2, <1>3, SMTT(30)
  <1>5. /\ Smoke(w)[1] = "L4" /\ Smoke(w)[2] = Execution(w)
        /\ Validation(w)[1] = "L5A" /\ Validation(w)[2] = Execution(w)
    BY <1>3, SMTT(30)
  <1>6. Smoke(w) # Legacy /\ Validation(w) # Legacy
    BY <1>4, <1>5, NamesOf
  <1>7. QED
    BY <1>2, <1>3, <1>4, <1>5, <1>6

(* The smoke-run comes before L5-a. *)
LEMMA SmokeBorn ==
  ASSUME Given, NEW w \in Workers, StageInv(w), At(w) \in {"create", "recreate"},
         UNCHANGED <<execution, reports, setting>>, Persist(Smoke(w))
  PROVE  ClusterInv' /\ kubeJob'[Validation(w)] = "absent" /\ Smoke(w) \notin creating'
  <1>0. KubeTyped /\ ClusterInv /\ execution[job] \in Nat
    BY RowNumbers DEF Given
  <1>1. At(w) \in Named /\ kubeJob[Validation(w)] = "absent"
    BY DEF Named, Smoking, StageInv, StageAt
  <1>2. /\ Smoke(w) \in Name /\ Smoke(w)[1] = "L4" /\ Smoke(w)[2] = Execution(w)
        /\ Validation(w) \in Name /\ Validation(w) = <<"L5A", Execution(w)>>
        /\ Smoke(w) # Validation(w) /\ Smoke(w) # Legacy
        /\ Execution(w) <= execution[job] /\ Execution(w) \notin reports[job]
    BY <1>1, OwnJobs
  <1>3. ClusterInv'
    BY <1>0, <1>1, <1>2, BirthStep
  <1>4. kubeJob'[Validation(w)] = "absent" /\ Smoke(w) \notin creating'
    BY <1>0, <1>1, <1>2, PersistFrame
  <1>5. QED
    BY <1>3, <1>4

(* And so it does when its Create gets no answer. *)
LEMMA SmokeAwaited ==
  ASSUME Given, NEW w \in Workers, StageInv(w), At(w) \in {"create", "recreate"},
         UNCHANGED <<execution, reports, setting>>, Unanswered(Smoke(w)), "L4" \in env.unanswered
  PROVE  ClusterInv' /\ kubeJob'[Validation(w)] = "absent"
  <1>0. ClusterInv
    BY DEF Given
  <1>1. At(w) \in Named /\ kubeJob[Validation(w)] = "absent"
    BY DEF Named, Smoking, StageInv, StageAt
  <1>2. CASE Persist(Smoke(w))
    BY <1>2, SmokeBorn
  <1>3. CASE kubeJob[Smoke(w)] = "absent" /\ creating' = creating \cup {Smoke(w)} /\ UNCHANGED kubeJob
    <2>1. /\ Smoke(w) \in Name /\ Smoke(w)[1] = "L4" /\ Smoke(w)[2] = Execution(w)
          /\ Validation(w) = <<"L5A", Execution(w)>> /\ Execution(w) # 0
          /\ Execution(w) <= execution[job] /\ Execution(w) \notin reports[job]
      BY <1>1, OwnJobs
    <2>2. ClusterInv'
      BY <1>1, <1>3, <2>1, AwaitStep
    <2>3. QED
      BY <1>1, <1>3, <2>2
  <1>4. CASE UNCHANGED kubeVars
    <2>1. ClusterInv'
      BY <1>0, <1>4, ClusterKept
    <2>2. QED
      BY <1>1, <1>4, <2>1 DEF kubeVars
  <1>5. QED
    BY <1>2, <1>3, <1>4 DEF Unanswered

(* L5-a comes after the smoke-run. *)
LEMMA ValidationBorn ==
  ASSUME Given, NEW w \in Workers, StageInv(w), At(w) \in {"l5aCreate", "reconcile"},
         UNCHANGED <<execution, reports, setting>>, Persist(Validation(w))
  PROVE  ClusterInv' /\ kubeJob'[Smoke(w)] \notin {"running", "deleting"} /\ Smoke(w) \notin creating'
  <1>0. KubeTyped /\ ClusterInv /\ execution[job] \in Nat
    BY RowNumbers DEF Given
  <1>1. At(w) \in Named /\ Still(Smoke(w)) /\ plan.l5a
    BY DEF Named, Profiling, StageInv, StageAt
  <1>2. /\ Validation(w) \in Name /\ Validation(w)[1] = "L5A" /\ Validation(w)[2] = Execution(w)
        /\ Smoke(w) \in Name /\ Smoke(w) = <<"L4", Execution(w)>>
        /\ Smoke(w) # Validation(w) /\ Validation(w) # Legacy
        /\ Execution(w) <= execution[job] /\ Execution(w) \notin reports[job]
    BY <1>1, OwnJobs
  <1>3. ClusterInv'
    BY <1>0, <1>1, <1>2, BirthStep
  <1>4. kubeJob'[Smoke(w)] \notin {"running", "deleting"} /\ Smoke(w) \notin creating'
    BY <1>0, <1>1, <1>2, PersistFrame DEF Still
  <1>5. QED
    BY <1>3, <1>4

(* The steps of a worker that create a Job, or may. *)
Creating(w) == CreateSmoke(w) \/ LoseSmoke(w) \/ CreateL5a(w) \/ LegacyAttempt(w)

(* Each creates it under the identity of the row, which nobody released. *)
LEMMA CreatingStep ==
  ASSUME Given, NEW w \in Workers, StageInv(w), Creating(w)
  PROVE  ClusterInv' /\ StageInv(w)'
  <1>0. /\ proc \in [Workers -> Process] /\ KubeTyped /\ ClusterInv /\ IdentityInv
        /\ execution[job] \in Nat /\ reports[job] \subseteq 1..execution[job]
    BY RowNumbers DEF Given
  <1>m. ASSUME NEW at \in Named, Move(w, at), UNCHANGED <<storeVars, setting>>, At(w) \in Named
        PROVE  /\ proc'[w].at = at /\ execution' = execution /\ reports' = reports /\ setting' = setting /\ plan' = plan
               /\ proc'[w].execution = execution'[job] /\ execution'[job] \notin reports'[job]
               /\ <<"L4", proc'[w].execution>> = Smoke(w) /\ <<"L5A", proc'[w].execution>> = Validation(w)
    <2>1. proc'[w].at = at /\ proc'[w].execution = Execution(w)
      BY <1>0, <1>m, Moved DEF Execution
    <2>2. execution' = execution /\ reports' = reports /\ setting' = setting /\ plan' = plan
      BY <1>m, IdsKept DEF setting, plan
    <2>3. Execution(w) = execution[job] /\ execution[job] \notin reports[job]
      BY <1>m DEF StageInv, StageAt
    <2>4. QED
      BY <2>1, <2>2, <2>3 DEF Smoke, Validation
  <1>1. CASE LegacyAttempt(w)
    <2>1. UNCHANGED <<execution, reports, setting>> /\ Persist(Legacy) /\ execution[job] = 0
      BY <1>0, <1>1, IdsKept DEF LegacyAttempt, IdentityInv
    <2>2. Legacy \in Name /\ Legacy[2] = 0 /\ Legacy[1] = "L4"
      BY NamesOf
    <2>3. Legacy[2] <= execution[job] /\ Legacy[2] \notin reports[job]
      BY <1>0, <2>1, <2>2, SMTT(30)
    <2>4. execution'[job] = execution[job] /\ reports'[job] = reports[job] /\ ~(Legacy[1] = "L5A")
      BY <2>1, <2>2
    <2>5. ClusterInv'
      BY <1>0, <2>1, <2>2, <2>3, <2>4, BirthStep
    <2>6. StageInv(w)'
      BY <1>0, <1>1, EndsAway DEF LegacyAttempt
    <2>7. QED
      BY <2>5, <2>6
  <1>2. CASE CreateSmoke(w)
    <2>1. /\ At(w) \in {"create", "recreate"} /\ At(w) \in Named /\ "poll" \in Named
          /\ Move(w, "poll") /\ Persist(Smoke(w)) /\ UNCHANGED <<storeVars, setting>>
      BY <1>2 DEF CreateSmoke, Named
    <2>2. /\ proc'[w].at = "poll" /\ execution' = execution /\ reports' = reports /\ setting' = setting
          /\ proc'[w].execution = execution'[job] /\ execution'[job] \notin reports'[job]
          /\ <<"L4", proc'[w].execution>> = Smoke(w) /\ <<"L5A", proc'[w].execution>> = Validation(w)
      BY <1>m, <2>1
    <2>3. ClusterInv' /\ kubeJob'[Validation(w)] = "absent" /\ Smoke(w) \notin creating'
      BY <2>1, <2>2, SmokeBorn
    <2>4. StageInv(w)'
      BY <2>2, <2>3 DEF StageInv, StageAt, At, Execution, Smoke, Validation, Smoking, Profiling
    <2>5. QED
      BY <2>3, <2>4
  <1>3. CASE LoseSmoke(w)
    <2>1. /\ At(w) \in {"create", "recreate"} /\ At(w) \in Named /\ "lookup" \in Named /\ "L4" \in env.unanswered
          /\ Move(w, "lookup") /\ Unanswered(Smoke(w)) /\ UNCHANGED <<storeVars, setting>>
      BY <1>3 DEF LoseSmoke, Named
    <2>2. /\ proc'[w].at = "lookup" /\ execution' = execution /\ reports' = reports /\ setting' = setting
          /\ proc'[w].execution = execution'[job] /\ execution'[job] \notin reports'[job]
          /\ <<"L4", proc'[w].execution>> = Smoke(w) /\ <<"L5A", proc'[w].execution>> = Validation(w)
      BY <1>m, <2>1
    <2>3. ClusterInv' /\ kubeJob'[Validation(w)] = "absent"
      BY <2>1, <2>2, SmokeAwaited
    <2>4. StageInv(w)'
      BY <2>2, <2>3 DEF StageInv, StageAt, At, Execution, Smoke, Validation, Smoking, Profiling
    <2>5. QED
      BY <2>3, <2>4
  <1>4. CASE CreateL5a(w)
    <2>1. /\ At(w) \in {"l5aCreate", "reconcile"} /\ At(w) \in Named /\ "wait" \in Named
          /\ Move(w, "wait") /\ Persist(Validation(w)) /\ UNCHANGED <<storeVars, setting>>
      BY <1>4 DEF CreateL5a, Named
    <2>2. /\ proc'[w].at = "wait" /\ execution' = execution /\ reports' = reports /\ setting' = setting /\ plan' = plan
          /\ proc'[w].execution = execution'[job] /\ execution'[job] \notin reports'[job]
          /\ <<"L4", proc'[w].execution>> = Smoke(w)
      BY <1>m, <2>1
    <2>3. ClusterInv' /\ kubeJob'[Smoke(w)] \notin {"running", "deleting"} /\ Smoke(w) \notin creating'
      BY <2>1, <2>2, ValidationBorn
    <2>4. plan'.l5a
      BY <2>1, <2>2 DEF StageInv, StageAt, Profiling
    <2>5. StageInv(w)'
      BY <2>2, <2>3, <2>4 DEF StageInv, StageAt, At, Execution, Smoke, Still, Smoking, Profiling
    <2>6. QED
      BY <2>3, <2>5
  <1>5. QED
    BY <1>1, <1>2, <1>3, <1>4 DEF Creating

----------------------------------------------------------------------------
(* A step that mints an identity finds no Job of it. *)
LEMMA Minted ==
  ASSUME Given, execution' = [execution EXCEPT ![job] = @ + 1], UNCHANGED <<reports, setting, kubeVars>>,
         kubeJob[Legacy] = "absent", execution[job] < ExecutionBound
  PROVE  /\ ClusterInv' /\ execution'[job] \notin reports'[job]
         /\ kubeJob'[<<"L4", execution'[job]>>] = "absent" /\ <<"L4", execution'[job]>> \notin creating'
         /\ kubeJob'[<<"L5A", execution'[job]>>] = "absent"
  <1>0. /\ KubeTyped /\ ClusterInv /\ execution[job] \in Nat /\ reports[job] \subseteq 1..execution[job]
        /\ execution \in [Jobs -> Nat] /\ job \in Jobs
    BY RowNumbers, JobIsAJob DEF Given, SentinelInv, LeaseInv, StoreTypeOK
  <1>1. execution'[job] = execution[job] + 1
    BY <1>0
  <1>2. execution'[job] \in Nat /\ execution'[job] >= execution[job] /\ execution'[job] \in 1..ExecutionBound
    BY <1>0, <1>1, StoreConstants, SMTT(30)
  <1>3. execution'[job] \notin reports[job] /\ execution'[job] > execution[job]
    BY <1>0, <1>1, SMTT(30)
  <1>4. kubeJob' = kubeJob /\ creating' = creating /\ reports' = reports /\ Calm
    BY <1>0, CalmCalls DEF kubeVars
  <1>5. ClusterInv'
    BY <1>0, <1>2, <1>4, CalmStep
  <1>6. ASSUME NEW n \in Name, n[2] = execution'[job] PROVE kubeJob[n] = "absent" /\ n \notin creating
    BY <1>0, <1>3, <1>6 DEF ClusterInv
  <1>7. <<"L4", execution'[job]>> \in Name /\ <<"L5A", execution'[job]>> \in Name
    BY <1>2, NamesOf
  <1>8. QED
    BY <1>3, <1>4, <1>5, <1>6, <1>7

(* The steps that take the identity of the row, or mint one. *)
Minting(w) == Lease(w) \/ LeaseUnread(w) \/ Ensure(w) \/ EnsureError(w)

(* An identity that is taken over was not released, a new one has no Job. *)
LEMMA MintingStep ==
  ASSUME Given, NEW w \in Workers, StageInv(w), Minting(w)
  PROVE  ClusterInv' /\ StageInv(w)'
  <1>0. /\ proc \in [Workers -> Process] /\ ClusterInv /\ IdentityInv /\ KubeTyped
        /\ execution[job] \in Nat /\ execution[job] <= ExecutionBound
    BY RowNumbers DEF Given
  <1>k. UNCHANGED <<setting, kubeVars>>
    BY DEF Minting, Lease, LeaseUnread, Ensure, EnsureError
  <1>p. kubeJob' = kubeJob /\ creating' = creating /\ plan' = plan
    BY <1>k DEF kubeVars, setting, plan
  <1>1. CASE LeaseUnread(w)
    <2>1. UNCHANGED <<execution, reports>> /\ proc' = proc /\ At(w) = "idle"
      BY <1>1, IdsKept DEF LeaseUnread
    <2>2. proc'[w].at \notin Begun \cup Named
      BY <2>1 DEF At, Begun, Named
    <2>3. QED
      BY <1>0, <1>k, <2>1, <2>2, AwayInv, ClusterKept
  <1>2. CASE Lease(w)
    <2>1. UNCHANGED <<execution, reports>>
      BY <1>2, IdsKept DEF Lease
    <2>2. proc'[w] = [Rest("leased") EXCEPT !.attempt = attempt[job] + 1, !.execution = execution[job], !.marked = marked]
      BY <1>0, <1>2 DEF Lease
    <2>3. proc'[w].at = "leased" /\ proc'[w].execution = execution[job]
      BY <2>2, SMTT(30) DEF Rest
    <2>4. StageInv(w)'
      BY <2>1, <2>3 DEF StageInv, StageAt, At, Execution, Named, Smoking, Profiling
    <2>5. QED
      BY <1>0, <1>k, <2>1, <2>4, ClusterKept
  <1>3. CASE Ensure(w) /\ Adoptable(job)
    <2>1. UNCHANGED <<execution, reports>> /\ At(w) = "ensure"
      BY <1>3 DEF Ensure, EnsureExecution
    <2>2. PICK at \in {"seek", "adopt"} : /\ proc' = [proc EXCEPT ![w].execution = execution'[job], ![w].at = at]
                                          /\ at = "seek" <=> plan.l5a
      BY <1>3 DEF Ensure
    <2>3. proc[w] \in Process /\ proc'[w] = [proc[w] EXCEPT !.execution = execution'[job], !.at = at]
      BY <1>0, <2>2
    <2>4. proc'[w].at = at /\ proc'[w].execution = execution'[job]
      BY <2>3, SMTT(30) DEF Process
    <2>5. execution'[job] \notin reports'[job] /\ execution'[job] # 0
      BY <1>0, <1>3, <2>1 DEF Adoptable, IdentityInv
    <2>6. execution'[job] \in 1..ExecutionBound
      BY <1>0, <2>1, <2>5, StoreConstants, SMTT(30)
    <2>7. at = "adopt" => kubeJob'[<<"L5A", execution'[job]>>] = "absent"
      BY <1>0, <1>p, <2>2, <2>6 DEF ClusterInv
    <2>8. at = "seek" => plan'.l5a
      BY <1>p, <2>2
    <2>9. StageInv(w)'
      BY <2>2, <2>4, <2>5, <2>7, <2>8 DEF StageInv, StageAt, At, Execution, Validation, Named, Smoking, Profiling
    <2>10. QED
      BY <1>0, <1>k, <2>1, <2>9, ClusterKept
  <1>m. ASSUME EnsureExecution(job), ~Adoptable(job), At(w) = "ensure"
        PROVE  /\ ClusterInv' /\ execution'[job] \notin reports'[job]
               /\ kubeJob'[<<"L4", execution'[job]>>] = "absent" /\ <<"L4", execution'[job]>> \notin creating'
               /\ kubeJob'[<<"L5A", execution'[job]>>] = "absent"
    <2>1. execution' = [execution EXCEPT ![job] = @ + 1] /\ reports' = reports /\ execution[job] < ExecutionBound
      BY <1>m DEF EnsureExecution
    <2>2. kubeJob[Legacy] = "absent"
      BY <1>m DEF StageInv, StageAt
    <2>3. QED
      BY <1>k, <2>1, <2>2, Minted
  <1>4. CASE Ensure(w) /\ ~Adoptable(job)
    <2>1. EnsureExecution(job) /\ At(w) = "ensure" /\ proc' = [proc EXCEPT ![w].execution = execution'[job], ![w].at = "dryrun"]
      BY <1>4 DEF Ensure
    <2>2. proc[w] \in Process /\ proc'[w] = [proc[w] EXCEPT !.execution = execution'[job], !.at = "dryrun"]
      BY <1>0, <2>1
    <2>3. proc'[w].at = "dryrun" /\ proc'[w].execution = execution'[job]
      BY <2>2, SMTT(30) DEF Process
    <2>4. /\ ClusterInv' /\ execution'[job] \notin reports'[job]
          /\ kubeJob'[<<"L4", execution'[job]>>] = "absent" /\ <<"L4", execution'[job]>> \notin creating'
          /\ kubeJob'[<<"L5A", execution'[job]>>] = "absent"
      BY <1>4, <1>m, <2>1
    <2>5. StageInv(w)'
      BY <2>3, <2>4 DEF StageInv, StageAt, At, Execution, Smoke, Validation, Smoking, Profiling
    <2>6. QED
      BY <2>4, <2>5
  <1>5. CASE EnsureError(w)
    <2>1. StageInv(w)' /\ At(w) = "ensure"
      BY <1>0, <1>5, EndsAway DEF EnsureError
    <2>2. CASE UNCHANGED <<execution, reports>>
      BY <1>0, <1>k, <2>1, <2>2, ClusterKept
    <2>3. CASE EnsureExecution(job) /\ ~Adoptable(job)
      BY <1>m, <2>1, <2>3
    <2>4. UNCHANGED <<execution, reports>> \/ (EnsureExecution(job) /\ ~Adoptable(job))
      BY <1>5, IdsKept DEF EnsureError, EnsureExecution
    <2>5. QED
      BY <2>2, <2>3, <2>4
  <1>6. QED
    BY <1>1, <1>2, <1>3, <1>4, <1>5 DEF Minting

----------------------------------------------------------------------------
(* The steps of an attempt that has done with the cluster, or of a process that starts or dies. *)
Aside(w) ==
  \/ CheckLease(w) \/ Claim(w) \/ Post(w) \/ Mark(w) \/ Settle(w) \/ SettleLost(w) \/ Crash(w) \/ Start(w)
  \/ RejectL5a(w) \/ LoseL5a(w)

(* Orderly environments know no lost or rejected Create of L5-a; the others touch no Job and no identity. *)
LEMMA AsideStep ==
  ASSUME Given, NEW w \in Workers, Aside(w)
  PROVE  ClusterInv' /\ StageInv(w)'
  <1>0. proc \in [Workers -> Process] /\ ClusterInv /\ Orderly
    BY RowNumbers DEF Given
  <1>1. ~RejectL5a(w) /\ ~LoseL5a(w)
    BY <1>0 DEF Orderly, RejectL5a, LoseL5a
  <1>2. UNCHANGED <<setting, kubeVars>>
    BY <1>1 DEF Aside, CheckLease, Claim, Post, Mark, Settle, SettleLost, Crash, Start
  <1>3. UNCHANGED <<execution, reports>>
    BY <1>1, IdsKept DEF Aside, CheckLease, StillLeased, Claim, Post, Mark, Settle, SettleLost, Crash, Start
  <1>m. ASSUME NEW at \in {"claim", "post", "mark", "bury", "l5b", "verdict"}, Move(w, at) PROVE StageInv(w)'
    <2>1. proc'[w].at = at /\ at \notin Begun \cup Named
      BY <1>0, <1>m, Moved DEF Begun, Named
    <2>2. QED
      BY <2>1, AwayInv
  <1>4. StageInv(w)'
    <2>1. AfterReport(w) => StageInv(w)'
      BY <1>m DEF AfterReport
    <2>2. /\ \A at \in {"idle", "dead"} : proc' = [proc EXCEPT ![w] = Rest(at)] => StageInv(w)'
          /\ Leave(w) => StageInv(w)'
      BY <1>0, EndsAway
    <2>3. CASE CheckLease(w) \/ Claim(w) \/ Post(w) \/ Mark(w)
      BY <1>m, <2>1, <2>2, <2>3 DEF CheckLease, StillLeased, Claim, Post, Mark
    <2>4. CASE Settle(w) \/ SettleLost(w) \/ Crash(w) \/ Start(w)
      BY <2>2, <2>4 DEF Settle, SettleLost, Crash, Start
    <2>5. QED
      BY <1>1, <2>3, <2>4 DEF Aside
  <1>5. QED
    BY <1>0, <1>2, <1>3, <1>4, ClusterKept

(***************************************************************************)
(* What happens in the cluster by itself.  A Create that lands late lands  *)
(* under an identity still held, and no process took its name for free.    *)
(***************************************************************************)
LEMMA ClusterStep ==
  ASSUME Given, \A w \in Workers : StageInv(w), Cluster
  PROVE  ClusterInv' /\ \A w \in Workers : StageInv(w)'
  <1>0. KubeTyped /\ ClusterInv /\ execution[job] \in Nat
    BY RowNumbers DEF Given
  <1>1. UNCHANGED <<storeVars, setting>> /\ proc' = proc
    BY DEF Cluster
  <1>2. UNCHANGED <<execution, reports, setting>> /\ plan' = plan
    BY <1>1, IdsKept DEF setting, plan
  <1>3. CASE Calm
    <2>1. ASSUME NEW w \in Workers PROVE StageInv(w)'
      <3>1. /\ proc'[w].at = At(w) /\ proc'[w].execution = proc[w].execution /\ StageAt(w, At(w))
            /\ At(w) \in Named => Smoke(w) \in Name /\ Validation(w) \in Name
        BY <1>1, NamedJobs DEF At, StageInv
      <3>2. QED
        BY <1>2, <1>3, <3>1, StageCalm
    <2>2. QED
      BY <1>2, <1>3, <2>1, CalmKept
  <1>4. ASSUME NEW n \in creating, n \in Name, Persist(n) PROVE ClusterInv' /\ \A w \in Workers : StageInv(w)'
    <2>1. kubeJob[n] = "absent" /\ n[1] = "L4" /\ n[2] # 0
      BY <1>0 DEF ClusterInv
    <2>2. n = <<"L4", n[2]>> /\ n # Legacy /\ n[2] \in Nat /\ n[2] <= ExecutionBound
      BY <1>4, <2>1, NameParts, NamesOf
    <2>3. n[2] \in 1..ExecutionBound
      BY <2>1, <2>2, StoreConstants, SMTT(30)
    <2>4. ~(n[2] > execution[job]) /\ n[2] \notin reports[job]
      BY <1>0, <1>4 DEF ClusterInv, Still
    <2>5. n[2] <= execution[job]
      BY <1>0, <2>2, <2>4, SMTT(30)
    <2>6. kubeJob[<<"L5A", n[2]>>] = "absent"
      BY <1>0, <2>2, <2>3 DEF ClusterInv, Still
    <2>7. ClusterInv'
      BY <1>0, <1>2, <1>4, <2>1, <2>2, <2>4, <2>5, <2>6, BirthStep
    <2>8. ASSUME NEW w \in Workers PROVE StageInv(w)'
      <3>0. /\ \A m \in Name : m # n => kubeJob'[m] = kubeJob[m]
            /\ creating' \subseteq creating
        BY <1>0, <1>4, PersistFrame
      <3>1. /\ StageAt(w, At(w))
            /\ At(w) \in Named => Smoke(w) \in Name /\ Validation(w) \in Name /\ Validation(w) # n
        BY <2>1, OwnJobs DEF StageInv
      <3>2. At(w) \in {"retired", "ensure"} => kubeJob'[Legacy] = "absent"
        BY <2>2, <3>0, <3>1, NamesOf DEF StageAt
      <3>3. At(w) \in {"dryrun", "create"} => kubeJob'[Smoke(w)] = "absent" /\ Smoke(w) \notin creating'
        BY <1>4, <3>0, <3>1 DEF StageAt, Named
      <3>4. At(w) \in Smoking => kubeJob'[Validation(w)] = "absent"
        BY <3>0, <3>1 DEF StageAt, Named, Smoking
      <3>5. At(w) \in {"poll", "cleanup", "stop"} => Smoke(w) \notin creating'
        BY <3>0, <3>1 DEF StageAt
      <3>6. At(w) \in Profiling => kubeJob'[Smoke(w)] \notin {"running", "deleting"} /\ Smoke(w) \notin creating'
        BY <1>4, <3>0, <3>1 DEF StageAt, Still, Named, Profiling
      <3>7. /\ At(w) \in Begun \cup Named => Execution(w) = execution'[job]
            /\ At(w) \in Named => execution'[job] \notin reports'[job]
            /\ At(w) \in Profiling \cup {"seek"} => plan'.l5a
        BY <1>2, <3>1 DEF StageAt
      <3>8. QED
        BY <1>1, <3>2, <3>3, <3>4, <3>5, <3>6, <3>7
        DEF StageInv, StageAt, At, Execution, Smoke, Validation, Still, Legacy
    <2>9. QED
      BY <2>7, <2>8
  <1>5. ASSUME NEW n \in Name, NEW k, k \notin {"running", "deleting"}, kubeJob[n] # "absent",
               kubeJob' = [kubeJob EXCEPT ![n] = k], creating' = creating
        PROVE  Calm
    <2>1. ASSUME NEW m \in Name
          PROVE  /\ kubeJob[m] = "absent" => kubeJob'[m] = "absent"
                 /\ kubeJob[m] \notin {"running", "deleting"} => kubeJob'[m] \notin {"running", "deleting"}
      <3>1. CASE m = n
        BY <1>0, <1>5, <3>1 DEF KubeTyped
      <3>2. CASE m # n
        BY <1>0, <1>5, <3>2 DEF KubeTyped
      <3>3. QED
        BY <3>1, <3>2
    <2>2. QED
      BY <1>5, <2>1 DEF Calm
  <1>6. PICK n \in Name :
          \/ n \in creating /\ Persist(n)
          \/ /\ kubeJob[n] = "running"
             /\ \E end \in {"complete", "failed"} : kubeJob' = [kubeJob EXCEPT ![n] = end]
             /\ UNCHANGED creating
          \/ /\ kubeJob[n] \in {"complete", "failed", "deleting"}
             /\ kubeJob' = [kubeJob EXCEPT ![n] = "absent"]
             /\ UNCHANGED creating
    BY DEF Cluster
  <1>7. QED
    BY <1>3, <1>4, <1>5, <1>6

----------------------------------------------------------------------------
(* A process that is there. *)
Awake(w) == At(w) \notin {"off", "dead"}

(* At most one is, where one replica is deployed. *)
Alone == \A v, w \in Workers : Awake(v) /\ Awake(w) => v = w

(* A step of a worker. *)
Acting(w) == Looking(w) \/ Releasing(w) \/ Deleting(w) \/ Creating(w) \/ Minting(w) \/ (Aside(w) /\ ~Start(w))

(* Only a process that is there takes one, and it moves no other process. *)
LEMMA ActingAlone ==
  ASSUME proc \in [Workers -> Process], NEW w \in Workers, Acting(w)
  PROVE  Awake(w) /\ UNCHANGED setting /\ \A v \in Workers \ {w} : proc'[v] = proc[v]
  <1>m. /\ \A at : Move(w, at) => \A v \in Workers \ {w} : proc'[v] = proc[v]
        /\ Leave(w) => \A v \in Workers \ {w} : proc'[v] = proc[v]
        /\ \A stage, class : Failed(w, stage, class) => \A v \in Workers \ {w} : proc'[v] = proc[v]
        /\ \A stage, result, terminal : Passed(w, stage, result, terminal) => \A v \in Workers \ {w} : proc'[v] = proc[v]
        /\ proc' = [proc EXCEPT ![w] = Rest("dead")] => \A v \in Workers \ {w} : proc'[v] = proc[v]
    BY DEF Move, Leave, Failed, Passed
  <1>1. CASE Looking(w)
    <2>1. Awake(w) /\ UNCHANGED setting
      BY <1>1 DEF Looking, Awake, Plan, Retire, RetireConfirm, Retired, Seek, LookUp, PollError, PollRunning,
                  BeginL5a, GiveUpL5a, Renew, BeginL5b
    <2>2. \A v \in Workers \ {w} : proc'[v] = proc[v]
      BY <1>1, <1>m DEF Looking, Plan, Retire, RetireConfirm, Retired, Seek, LookUp, PollError, PollRunning,
                        BeginL5a, GiveUpL5a, AfterL5a, Renew, BeginL5b, StillLeased
    <2>3. QED
      BY <2>1, <2>2
  <1>2. CASE Releasing(w)
    <2>1. Awake(w) /\ UNCHANGED setting
      BY <1>2 DEF Releasing, Awake, DryRun, RejectSmoke, PollNothing, Confirm, Stop, WaitEnd, WaitError
    <2>2. \A v \in Workers \ {w} : proc'[v] = proc[v]
      BY <1>2, <1>m DEF Releasing, DryRun, RejectSmoke, PollNothing, Confirm, AfterTimeout, Stop, WaitEnd, WaitError, AfterL5a
    <2>3. QED
      BY <2>1, <2>2
  <1>3. CASE Deleting(w)
    <2>1. Awake(w) /\ UNCHANGED setting
      BY <1>3 DEF Deleting, Awake, RetireDelete, Timeout, Sigterm, PollEnd
    <2>2. \A v \in Workers \ {w} : proc'[v] = proc[v]
      BY <1>3, <1>m DEF Deleting, RetireDelete, Timeout, AfterTimeout, Sigterm, PollEnd, AfterSmoke
    <2>3. QED
      BY <2>1, <2>2
  <1>4. CASE Creating(w)
    <2>1. Awake(w) /\ UNCHANGED setting
      BY <1>4 DEF Creating, Awake, CreateSmoke, LoseSmoke, CreateL5a, LegacyAttempt
    <2>2. \A v \in Workers \ {w} : proc'[v] = proc[v]
      BY <1>4, <1>m DEF Creating, CreateSmoke, LoseSmoke, CreateL5a, LegacyAttempt
    <2>3. QED
      BY <2>1, <2>2
  <1>5. CASE Minting(w)
    <2>1. Awake(w) /\ UNCHANGED setting
      BY <1>5 DEF Minting, Awake, Lease, LeaseUnread, Ensure, EnsureError
    <2>2. \A v \in Workers \ {w} : proc'[v] = proc[v]
      BY <1>5, <1>m DEF Minting, Lease, LeaseUnread, Ensure, EnsureError
    <2>3. QED
      BY <2>1, <2>2
  <1>6. CASE Aside(w) /\ ~Start(w)
    <2>1. Awake(w) /\ UNCHANGED setting
      BY <1>6 DEF Aside, Awake, CheckLease, Claim, Post, Mark, Settle, SettleLost, Crash, RejectL5a, LoseL5a
    <2>2. \A v \in Workers \ {w} : proc'[v] = proc[v]
      BY <1>6, <1>m DEF Aside, CheckLease, StillLeased, AfterReport, Claim, Post, Mark, Settle, SettleLost, Crash,
                        RejectL5a, LoseL5a, AfterL5a
    <2>3. QED
      BY <2>1, <2>2
  <1>7. QED
    BY <1>1, <1>2, <1>3, <1>4, <1>5, <1>6 DEF Acting

(* Then the others are still not there. *)
LEMMA AloneStep ==
  ASSUME Alone, NEW w \in Workers, Awake(w), \A v \in Workers \ {w} : proc'[v] = proc[v]
  PROVE  Alone' /\ \A v \in Workers \ {w} : StageInv(v)'
  <1>1. ASSUME NEW v \in Workers \ {w} PROVE proc'[v].at \in {"off", "dead"}
    BY <1>1 DEF Alone, Awake, At
  <1>2. Alone'
    BY <1>1 DEF Alone, Awake, At
  <1>3. ASSUME NEW v \in Workers \ {w} PROVE StageInv(v)'
    <2>1. proc'[v].at \notin Begun \cup Named
      BY <1>1 DEF Begun, Named
    <2>2. QED
      BY <2>1, AwayInv
  <1>4. QED
    BY <1>2, <1>3

(***************************************************************************)
(* The inductive invariant of the Jobs: what the row says of its identity; *)
(* and in an orderly environment, what the cluster may hold for it, that   *)
(* one process is at work, and what it knows of the cluster.               *)
(***************************************************************************)
FleetInv == ClusterInv /\ Alone /\ \A w \in Workers : StageInv(w)

JobsInv == SentinelInv /\ PipeTypes /\ ExecutionInv /\ IdentityInv /\ (Orderly => FleetInv)

(* One worker's step preserves what an orderly environment guarantees. *)
LEMMA ActingStep ==
  ASSUME Given, FleetInv, NEW w \in Workers, Acting(w)
  PROVE  FleetInv'
  <1>1. StageInv(w) /\ Alone /\ proc \in [Workers -> Process]
    BY RowNumbers DEF FleetInv
  <1>2. ClusterInv' /\ StageInv(w)'
    BY <1>1, LookingStep, ReleasingStep, DeletingStep, CreatingStep, MintingStep, AsideStep DEF Acting
  <1>3. Awake(w) /\ \A v \in Workers \ {w} : proc'[v] = proc[v]
    BY <1>1, ActingAlone
  <1>4. Alone' /\ \A v \in Workers \ {w} : StageInv(v)'
    BY <1>1, <1>3, AloneStep
  <1>5. QED
    BY <1>2, <1>4 DEF FleetInv

(* A step of the store alone, or none. *)
LEMMA RowStep ==
  ASSUME FleetInv, UNCHANGED <<execution, reports, setting, proc, kubeVars>>
  PROVE  FleetInv'
  <1>1. ClusterInv'
    BY ClusterKept DEF FleetInv
  <1>2. ASSUME NEW w \in Workers PROVE StageInv(w)'
    <2>1. proc'[w].at = At(w) /\ proc'[w].execution = proc[w].execution /\ StageAt(w, At(w))
      BY DEF At, FleetInv, StageInv
    <2>2. QED
      BY <2>1, StageKept
  <1>3. Alone'
    BY DEF FleetInv, Alone, Awake, At
  <1>4. QED
    BY <1>1, <1>2, <1>3 DEF FleetInv

(* Every step of the system is one of these. *)
LEMMA StepKinds ==
  ASSUME [SentinelNext]_vars
  PROVE  \/ UNCHANGED <<execution, reports, setting, proc, kubeVars>>
         \/ Cluster
         \/ \E w \in Workers : Start(w) \/ Acting(w)
  <1>1. CASE UNCHANGED vars
    BY <1>1 DEF vars, storeVars, executionVars
  <1>2. CASE Enqueue \/ Tick
    BY <1>2 DEF Enqueue, CreateJob, Tick, StoreTick, executionVars
  <1>3. ASSUME NEW w \in Workers, Step(w) \/ Renew(w) \/ LegacyAttempt(w) \/ Sigterm(w) \/ Crash(w)
        PROVE  Start(w) \/ Acting(w)
    BY <1>3 DEF Step, Acting, Looking, Releasing, Deleting, Creating, Minting, Aside
  <1>4. QED
    BY <1>1, <1>2, <1>3 DEF SentinelNext

\* Facts about cardinalities.
INSTANCE FiniteSetTheorems

(* A process starts where none is. *)
LEMMA StartAlone ==
  ASSUME Given, Alone, NEW w \in Workers, Start(w)
  PROVE  UNCHANGED setting /\ Alone' /\ \A v \in Workers \ {w} : StageInv(v)'
  <1>0. proc \in [Workers -> Process] /\ env.replicas = 1
    BY RowNumbers DEF Given, Orderly
  <1>1. Cardinality(Live) < 1 /\ UNCHANGED setting /\ proc' = [proc EXCEPT ![w] = Rest("idle")]
    BY <1>0 DEF Start
  <1>2. ASSUME NEW u \in Workers, Awake(u) PROVE FALSE
    <2>1. Live = {u}
      BY <1>2 DEF Live, Started, Alone, Awake
    <2>2. Cardinality(Live) = 1
      BY <2>1, FS_Singleton
    <2>3. QED
      BY <1>1, <2>2, SMTT(30)
  <1>3. ASSUME NEW v \in Workers \ {w} PROVE proc'[v].at \in {"off", "dead"}
    <2>1. proc'[v] = proc[v]
      BY <1>0, <1>1
    <2>2. QED
      BY <1>2, <2>1 DEF Awake, At
  <1>4. Alone'
    BY <1>3 DEF Alone, Awake, At
  <1>5. ASSUME NEW v \in Workers \ {w} PROVE StageInv(v)'
    <2>1. proc'[v].at \notin Begun \cup Named
      BY <1>3 DEF Begun, Named
    <2>2. QED
      BY <2>1, AwayInv
  <1>6. QED
    BY <1>1, <1>4, <1>5

(* The invariant is preserved. *)
LEMMA JobsStep == JobsInv /\ [SentinelNext]_vars => JobsInv'
  <1> SUFFICES ASSUME JobsInv, [SentinelNext]_vars PROVE JobsInv'
    OBVIOUS
  <1>0. SentinelInv /\ PipeTypes /\ ExecutionInv /\ IdentityInv /\ LeaseInv
    BY DEF JobsInv, SentinelInv
  <1>1. SentinelInv' /\ [StoreNext]_storeVars
    BY <1>0, SentinelStep DEF Used
  <1>2. PipeTypes' /\ ExecutionInv' /\ IdentityInv'
    BY <1>0, <1>1, TypesStep, ExecutionInvStep, IdentityStep
  <1>3. ASSUME UNCHANGED setting, Orderly' PROVE Orderly
    BY <1>3 DEF setting, Orderly
  <1>4. Orderly => FleetInv
    BY DEF JobsInv
  <1>5. CASE UNCHANGED <<execution, reports, setting, proc, kubeVars>>
    <2>1. Orderly' => FleetInv'
      BY <1>3, <1>4, <1>5, RowStep
    <2>2. QED
      BY <1>1, <1>2, <2>1 DEF JobsInv
  <1>6. CASE Cluster
    <2>1. UNCHANGED setting /\ proc' = proc
      BY <1>6 DEF Cluster
    <2>2. ASSUME Orderly' PROVE FleetInv'
      <3>1. Orderly /\ FleetInv
        BY <1>3, <1>4, <2>1, <2>2
      <3>2. Given /\ \A w \in Workers : StageInv(w)
        BY <1>0, <3>1 DEF Given, FleetInv
      <3>3. ClusterInv' /\ \A w \in Workers : StageInv(w)'
        BY <1>6, <3>2, ClusterStep
      <3>4. Alone'
        BY <2>1, <3>1 DEF FleetInv, Alone, Awake, At
      <3>5. QED
        BY <3>3, <3>4 DEF FleetInv
    <2>3. QED
      BY <1>1, <1>2, <2>2 DEF JobsInv
  <1>7. ASSUME NEW w \in Workers, Acting(w) PROVE JobsInv'
    <2>1. proc \in [Workers -> Process]
      BY <1>0 DEF SentinelInv
    <2>2. UNCHANGED setting
      BY <1>7, <2>1, ActingAlone
    <2>3. ASSUME Orderly' PROVE FleetInv'
      <3>1. Orderly /\ FleetInv
        BY <1>3, <1>4, <2>2, <2>3
      <3>2. Given
        BY <1>0, <3>1 DEF Given, FleetInv
      <3>3. QED
        BY <1>7, <3>1, <3>2, ActingStep
    <2>4. QED
      BY <1>1, <1>2, <2>3 DEF JobsInv
  <1>8. ASSUME NEW w \in Workers, Start(w) PROVE JobsInv'
    <2>1. UNCHANGED setting
      BY <1>8 DEF Start
    <2>2. ASSUME Orderly' PROVE FleetInv'
      <3>1. Orderly /\ FleetInv
        BY <1>3, <1>4, <2>1, <2>2
      <3>2. Given /\ Alone
        BY <1>0, <3>1 DEF Given, FleetInv
      <3>3. ClusterInv' /\ StageInv(w)'
        BY <1>8, <3>2, AsideStep DEF Aside
      <3>4. Alone' /\ \A v \in Workers \ {w} : StageInv(v)'
        BY <1>8, <3>2, StartAlone
      <3>5. QED
        BY <3>3, <3>4 DEF FleetInv
    <2>3. QED
      BY <1>1, <1>2, <2>2 DEF JobsInv
  <1>9. QED
    BY <1>5, <1>6, <1>7, <1>8, StepKinds

(* And holds at first: no Job, no identity, no process. *)
LEMMA JobsStart == SentinelInit => JobsInv
  <1> SUFFICES ASSUME SentinelInit PROVE JobsInv
    OBVIOUS
  <1>1. SentinelInv /\ PipeTypes /\ ExecutionInv
    BY SentinelStart, TypesStart, ExecutionInvInit DEF SentinelInit
  <1>2. execution[job] = 0 /\ reports[job] = {}
    BY JobIsAJob DEF SentinelInit, StoreInit
  <1>3. IdentityInv
    BY <1>2 DEF IdentityInv
  <1>4. \A n \in Name : kubeJob[n] = "absent" /\ n \notin creating
    BY DEF SentinelInit
  <1>5. \A e \in 1..ExecutionBound : kubeJob[<<"L5A", e>>] = "absent"
    BY <1>4, NamesOf
  <1>6. creating = {}
    BY DEF SentinelInit
  <1>7. ClusterInv
    BY <1>2, <1>4, <1>5, <1>6 DEF ClusterInv
  <1>8. \A w \in Workers : proc[w].at = "off"
    BY SMTT(30) DEF SentinelInit, Rest
  <1>9. Alone /\ \A w \in Workers : StageInv(w)
    BY <1>8 DEF Alone, Awake, At, StageInv, StageAt, Begun, Named, Smoking, Profiling
  <1>10. QED
    BY <1>1, <1>3, <1>7, <1>9 DEF JobsInv, FleetInv

(***************************************************************************)
(* At most one Job of a validation executes at any time, for every orderly *)
(* environment: however often the process crashes and is replaced, leases  *)
(* expire, Deletes fail, Creates of the smoke-run get no answer and land   *)
(* late, and whatever Jobs an older release left behind.                   *)
(***************************************************************************)
THEOREM OneExecution == SentinelSpec => [](Orderly => AtMostOneExecution)
  <1>1. JobsInv => (Orderly => AtMostOneExecution)
    <2> SUFFICES ASSUME JobsInv, Orderly PROVE Cardinality(Executing) <= 1
      BY DEF AtMostOneExecution
    <2>0. /\ execution[job] \in Nat /\ ClusterInv
          /\ \A e \in 1..execution[job] : e < execution[job] => e \in reports[job]
      BY JobIsAJob DEF JobsInv, FleetInv, ExecutionInv, StoreTypeOK, JobExecutionInv
    <2>1. ASSUME NEW n \in Executing PROVE n[2] = execution[job] /\ n \in Name /\ kubeJob[n] # "absent" /\ ~Still(n)
      <3>1. n \in Name /\ kubeJob[n] \in {"running", "deleting"}
        BY DEF Executing
      <3>2. ~(n[2] > execution[job]) /\ n[2] \notin reports[job] /\ kubeJob[n] # "absent" /\ ~Still(n)
        BY <2>0, <3>1 DEF ClusterInv, Still
      <3>3. n[2] = 0 => execution[job] = 0
        BY <2>0, <3>1, <3>2, NameParts DEF ClusterInv
      <3>4. n[2] \in Nat
        BY <3>1, NameParts
      <3>5. n[2] = execution[job]
        BY <2>0, <3>2, <3>3, <3>4, SMTT(30)
      <3>6. QED
        BY <3>1, <3>2, <3>5
    <2>2. ASSUME NEW m \in Executing, NEW n \in Executing PROVE m = n
      <3>1. m \in Name /\ n \in Name /\ m[2] = n[2] /\ kubeJob[m] # "absent" /\ kubeJob[n] # "absent" /\ ~Still(m) /\ ~Still(n)
        <4>1. m[2] = execution[job] /\ m \in Name /\ kubeJob[m] # "absent" /\ ~Still(m)
          BY <2>1
        <4>2. n[2] = execution[job] /\ n \in Name /\ kubeJob[n] # "absent" /\ ~Still(n)
          BY <2>1
        <4>3. QED
          BY <4>1, <4>2
      <3>2. /\ m = <<m[1], m[2]>> /\ m[1] \in {"L4", "L5A"} /\ (m[2] = 0 => m = Legacy)
            /\ n = <<n[1], n[2]>> /\ n[1] \in {"L4", "L5A"} /\ (n[2] = 0 => n = Legacy)
            /\ m[2] \in Nat /\ m[2] <= ExecutionBound
        BY <3>1, NameParts
      <3>3. CASE m[2] = 0
        BY <3>1, <3>2, <3>3
      <3>4. CASE m[2] # 0
        <4>1. m[2] \in 1..ExecutionBound
          BY <3>2, <3>4, StoreConstants, SMTT(30)
        <4>2. kubeJob[<<"L5A", m[2]>>] # "absent" => Still(<<"L4", m[2]>>)
          BY <2>0, <4>1 DEF ClusterInv
        <4>3. QED
          BY <3>1, <3>2, <4>2
      <3>5. QED
        BY <3>3, <3>4
    <2>3. CASE Executing = {}
      BY <2>3, FS_EmptySet, SMTT(30)
    <2>4. CASE Executing # {}
      <3>1. PICK n : n \in Executing
        BY <2>4
      <3>2. \A m \in Executing : m = n
        BY <2>2, <3>1
      <3>3. Executing = {n}
        BY <3>1, <3>2
      <3>4. QED
        BY <3>3, FS_Singleton, SMTT(30)
    <2>5. QED
      BY <2>3, <2>4
  <1>2. QED
    BY <1>1, JobsStart, JobsStep, PTL DEF SentinelSpec

(***************************************************************************)
(* An identity is released only when nothing executes under it and no      *)
(* Create of it is under way (markExecutionTerminal), for every orderly    *)
(* environment.                                                            *)
(***************************************************************************)
THEOREM QuietRelease == SentinelSpec => [](Orderly => ReleasedIsQuiet)
  <1>1. JobsInv => (Orderly => ReleasedIsQuiet)
    BY DEF JobsInv, FleetInv, ClusterInv, Still, Executing, ReleasedIsQuiet
  <1>2. QED
    BY <1>1, JobsStart, JobsStep, PTL DEF SentinelSpec
=============================================================================
