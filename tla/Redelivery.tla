----------------------------- MODULE Redelivery ----------------------------
(***************************************************************************)
(* RunDeliveryLoop (pkg/worker/delivery.go) over the delivery ledger, and  *)
(* NodeVault as the loop sees it.  A pass claims a batch, redelivers it    *)
(* with bounded concurrency and waits for all of it.  The POST and the     *)
(* write of its outcome are separate steps: the claim may expire, the      *)
(* process may die and another loop may take the row over in between.      *)
(*                                                                         *)
(* A random claim token is one that nobody holds; tokens that nobody holds *)
(* any more are drawn again, which keeps the state space finite.           *)
(***************************************************************************)
EXTENDS DeliveryLedger

CONSTANTS
  Loops,        \* delivery loops, one per process
  Concurrency,  \* deliveryConcurrency
  BaseBackoff,  \* deliveryBaseBackoff, in ticks
  Foreign,      \* jobs whose payload this binary cannot decode
  Refused,      \* jobs whose payload NodeVault answers with a 4xx
  Poison,       \* jobs whose payload NodeVault answers with a 5xx, always
  FaultBound    \* model bound: crashes of loop processes and lost store writes

ASSUME LoopConstants ==
  /\ Concurrency \in Nat \ {0}
  /\ BaseBackoff \in 1..MaxBackoff
  /\ Foreign \subseteq Jobs
  /\ Refused \subseteq Jobs
  /\ Poison \subseteq Jobs
  /\ FaultBound \in Nat
  /\ IsFiniteSet(Loops)

VARIABLES
  task,     \* task[l][j]: what loop l is doing about the delivery of j
  open,     \* jobs the worker has not finished yet
  vault,    \* jobs whose terminal record NodeVault has accepted
  faults

loopVars == <<ledgerVars, task, open, vault, faults>>

Idle == [phase |-> "idle", token |-> 0]
Task == [phase : {"idle", "waiting", "sending", "ok", "error", "rejected"}, token : Nat]

\* The records NodeVault takes when it is up.
Takes == Jobs \ (Refused \cup Poison)

LoopInit ==
  /\ LedgerInit
  /\ task = [l \in Loops |-> [j \in Jobs |-> Idle]]
  /\ open = Jobs
  /\ vault = {}
  /\ faults = 0

Enter(l, j, phase) == task' = [task EXCEPT ![l][j].phase = phase]
Leave(l, j)        == task' = [task EXCEPT ![l][j] = Idle]

----------------------------------------------------------------------------
\* The clamp after the jitter is forgotten.
BackoffDurationUnclamped(attempts) ==
  LET shift == Min({Max({attempts, 1}) - 1, 8})
      d     == Min({BaseBackoff * 2^shift, MaxBackoff}) IN
    d..d + d \div 4

\* The waits backoffDuration may return, over its jitter.
BackoffDuration(attempts) ==
  LET shift == Min({Max({attempts, 1}) - 1, 8})
      d     == Min({BaseBackoff * 2^shift, MaxBackoff}) IN
    d..Min({d + d \div 4, MaxBackoff})

\* The worker's first delivery of a terminal record failed: the slot is
\* claimed, then the failure is recorded under it.
FirstClaim(j, a) ==
  /\ j \in open
  /\ ClaimTerminal(j, a)
  /\ UNCHANGED <<task, open, vault, faults>>

FirstFailure(j, a) ==
  /\ j \in open
  /\ \/ \E wait \in BackoffDuration(1) : MarkFirstDeliveryPending(j, a, wait)
     \/ j \in Refused /\ MarkFirstDeliveryDeadLetter(j, a)
  /\ UNCHANGED <<task, open, vault, faults>>

\* Heartbeats and the like refresh updated_at until the job is finished.
OtherWrite(j) ==
  /\ j \in open
  /\ TouchRow(j)
  /\ UNCHANGED <<task, open, vault, faults>>

FinishJob(j) ==
  /\ j \in open
  /\ open' = open \ {j}
  /\ TouchRow(j)
  /\ UNCHANGED <<task, vault, faults>>

----------------------------------------------------------------------------
\* Every claim of a row has the same token.
FreshConstant(j) == 1

Held(j)  == {token[j]} \cup {task[l][j].token : l \in Loops}
Fresh(j) == CHOOSE t \in 1..Cardinality(Loops) + 2 : t \notin Held(j)

\* retryPendingDeliveries, once wg.Wait() has returned.
Pass(l) ==
  /\ \A j \in Jobs : task[l][j].phase = "idle"
  /\ \E B \in SUBSET Jobs :
       /\ ClaimPendingDeliveries(B, [j \in Jobs |-> Fresh(j)])
       /\ task' = [task EXCEPT ![l] =
                     [j \in Jobs |-> IF j \in B THEN [phase |-> "waiting", token |-> Fresh(j)] ELSE Idle]]
  /\ UNCHANGED <<open, vault, faults>>

Running(l) == {j \in Jobs : task[l][j].phase \notin {"idle", "waiting"}}

\* redeliverOne gets its place; a payload it cannot decode is never sent.
Begin(l, j) ==
  /\ task[l][j].phase = "waiting"
  /\ Cardinality(Running(l)) < Concurrency
  /\ Enter(l, j, IF j \in Foreign THEN "rejected" ELSE "sending")
  /\ UNCHANGED <<ledgerVars, open, vault, faults>>

\* NodeVault takes the record; the answer arrives, or is lost on the way.
Accept(l, j) ==
  /\ task[l][j].phase = "sending"
  /\ j \in Takes
  /\ Enter(l, j, "ok")
  /\ vault' = vault \cup {j}
  /\ UNCHANGED <<ledgerVars, open, faults>>

AcceptUnanswered(l, j) ==
  /\ task[l][j].phase = "sending"
  /\ j \in Takes
  /\ Enter(l, j, "error")
  /\ vault' = vault \cup {j}
  /\ UNCHANGED <<ledgerVars, open, faults>>

\* No connection, a timeout or a 5xx.
Unavailable(l, j) ==
  /\ task[l][j].phase = "sending"
  /\ Enter(l, j, "error")
  /\ UNCHANGED <<ledgerVars, open, vault, faults>>

\* A 4xx, which is about the payload.  A record sent twice NodeVault recognises
\* by its ID and accepts again.
Reject(l, j) ==
  /\ task[l][j].phase = "sending"
  /\ j \in Refused
  /\ Enter(l, j, "rejected")
  /\ UNCHANGED <<ledgerVars, open, vault, faults>>

\* The HTTP client returns, after its timeout at the latest.
Answer(l, j) == Accept(l, j) \/ AcceptUnanswered(l, j) \/ Unavailable(l, j) \/ Reject(l, j)

----------------------------------------------------------------------------
\* A loop that acknowledges whatever came back without a rejection.
MarkAnyAnswer(l, j) ==
  LET t == task[l][j].token IN
    CASE task[l][j].phase \in {"ok", "error"} -> MarkResultDeliveryAcknowledged(j, t)
      [] task[l][j].phase = "rejected"        -> MarkResultDeliveryDeadLetter(j, t)

MarkOutcome(l, j) ==
  LET t == task[l][j].token IN
    CASE task[l][j].phase = "ok"       -> MarkResultDeliveryAcknowledged(j, t)
      [] task[l][j].phase = "error"    -> \E wait \in BackoffDuration(failed[j] + 1) :
                                            MarkResultDeliveryPending(j, t, wait)
      [] task[l][j].phase = "rejected" -> MarkResultDeliveryDeadLetter(j, t)

\* The outcome is written under the claim token, or the fence refuses it.
Record(l, j) ==
  /\ task[l][j].phase \in {"ok", "error", "rejected"}
  /\ IF RedeliveryFence(j, task[l][j].token) THEN MarkOutcome(l, j) ELSE UNCHANGED ledgerVars
  /\ Leave(l, j)
  /\ UNCHANGED <<open, vault, faults>>

\* The write fails: the row stays delivering until the claim expires.
RecordLost(l, j) ==
  /\ faults < FaultBound
  /\ task[l][j].phase \in {"ok", "error", "rejected"}
  /\ faults' = faults + 1
  /\ Leave(l, j)
  /\ UNCHANGED <<ledgerVars, open, vault>>

\* The process dies.  NodeVault may yet take what it was sending.
Crash(l) ==
  /\ faults < FaultBound
  /\ \E j \in Jobs : task[l][j].phase # "idle"
  /\ faults' = faults + 1
  /\ task' = [task EXCEPT ![l] = [j \in Jobs |-> Idle]]
  /\ \E S \in SUBSET {j \in Takes : task[l][j].phase = "sending"} : vault' = vault \cup S
  /\ UNCHANGED <<ledgerVars, open>>

Tick == LedgerTick /\ UNCHANGED <<task, open, vault, faults>>

LoopNext ==
  \/ \E j \in Jobs, a \in Attempts : FirstClaim(j, a) \/ FirstFailure(j, a)
  \/ \E j \in Jobs : OtherWrite(j) \/ FinishJob(j)
  \/ \E l \in Loops : Pass(l) \/ Crash(l)
  \/ \E l \in Loops, j \in Jobs :
       \/ Begin(l, j)
       \/ Answer(l, j)
       \/ Record(l, j) \/ RecordLost(l, j)
  \/ Tick

LoopSpec == LoopInit /\ [][LoopNext]_loopVars

(***************************************************************************)
(* The loop's ticker, its goroutines and the clock keep going, and a job   *)
(* being worked on is finished.  A POST returns, and of NodeVault it is    *)
(* assumed that it is not down forever: a record it takes or refuses is    *)
(* answered at last if it is sent again and again.                         *)
(***************************************************************************)
LoopFairness ==
  /\ \A j \in Jobs : WF_loopVars(FinishJob(j))
  /\ \A l \in Loops : WF_loopVars(Pass(l))
  /\ \A l \in Loops, j \in Jobs :
       /\ WF_loopVars(Begin(l, j))
       /\ WF_loopVars(Answer(l, j))
       /\ SF_loopVars(Accept(l, j) \/ Reject(l, j))
       /\ WF_loopVars(Record(l, j))
  /\ WF_loopVars(Tick)

FairLoopSpec == LoopSpec /\ LoopFairness

----------------------------------------------------------------------------
(* Type invariant of the loops. *)
LoopTypeOK ==
  /\ LedgerTypeOK
  /\ task \in [Loops -> [Jobs -> Task]]
  /\ open \subseteq Jobs
  /\ vault \subseteq Jobs
  /\ faults \in 0..FaultBound

(***************************************************************************)
(* A delivery is acknowledged only when NodeVault holds the record, and a  *)
(* record is given up only when no resubmission could ever succeed: lost   *)
(* answers, outages, faults and late outcomes of replaced claims bury no  *)
(* record that NodeVault would take.                                       *)
(***************************************************************************)
LedgerTellsTruth ==
  \A j \in Jobs :
    /\ delivery[j] = "acknowledged" => j \in vault
    /\ delivery[j] = "dead_letter" => j \in Refused \cup Foreign

(***************************************************************************)
(* Of the loops that are busy with the same job, at most one holds the     *)
(* claim the row carries; the others outlived theirs and can write nothing.*)
(***************************************************************************)
OneClaimant ==
  \A j \in Jobs :
    Cardinality({l \in Loops : task[l][j].token # 0 /\ RedeliveryFence(j, task[l][j].token)}) <= 1

(***************************************************************************)
(* No record is forgotten: a delivery that is pending is at last           *)
(* acknowledged or given up, although every pass takes only BatchLimit     *)
(* rows and there is no limit to the redeliveries of a record that         *)
(* NodeVault keeps answering with a 5xx.                                   *)
(***************************************************************************)
EveryDeliveryResolved ==
  \A j \in Jobs \ Poison : delivery[j] \in {"pending", "delivering"} ~> delivery[j] \in Resolved

=============================================================================
