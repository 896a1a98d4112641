--------------------------- MODULE PipelineProofs --------------------------
(***************************************************************************)
(* Proofs about the terminal record of a job, for every environment,       *)
(* number of processes and bound: one record at most is told, a job        *)
(* finished without losing a lease has told it, and an attempt that takes  *)
(* the slot uses it unless it dies.                                        *)
(***************************************************************************)
EXTENDS SentinelProofs

USE ZenonT(30)

(***************************************************************************)
(* The inductive invariant behind the terminal record of a job.  A report  *)
(* says what becomes of the job, so the verdict that follows it agrees     *)
(* with the record.  A worker between its claim and its verdict owns the   *)
(* slot, or the store has failed it, or another attempt owns the slot; an  *)
(* attempt that owns the slot never asks for a retry, so if every attempt  *)
(* has got its verdict, the slot is the last one's.                        *)
(***************************************************************************)
StoreAnswers == "store" \notin env.faults

\* The record of a terminal report is told or kept.
RecordKept == StoreAnswers \/ env.faults \cap {"vault", "refuse"} = {}

\* What w is about to tell.
ReportInv(w) ==
  /\ At(w) \in Reporting => Sound(Report(w))
  /\ At(w) \in {"claim"} \cup Holding => Report(w).terminal
  /\ At(w) = "verdict" => Report(w).terminal \/ Report(w).verdict = "queued"

\* How the slot and the records stand to the attempt of w.
SlotInv(w) ==
  /\ At(w) \notin Resting => \A i \in 1..Len(verdicts[job]) : verdicts[job][i].attempt # Attempt(w)
  /\ At(w) \notin Resting \cup Holding \cup {"verdict"} => slot[job] # Attempt(w)
  /\ At(w) \in Holding /\ slot[job] = Attempt(w) => delivery[job] = "not_applicable"
  /\ At(w) \in {"mark", "bury"} => env.faults \cap {"vault", "refuse"} # {}
  /\ At(w) = "verdict" /\ slot[job] = Attempt(w) => Report(w).terminal
  /\ At(w) = "verdict" /\ Report(w).terminal /\ RecordKept =>
       Record(w) \in vault \cup letter \/ slot[job] \notin {0, Attempt(w)}
  /\ StoreAnswers /\ At(w) \in Holding => slot[job] = Attempt(w) /\ vault \cup letter \subseteq {Record(w)}
  /\ StoreAnswers /\ At(w) = "post" => vault \cup letter = {}

ToldAsFinished ==
  \E r \in vault \cup letter :
    /\ r.attempt = attempt[job]
    /\ status[job] = "failed" <=> r.stage \in {"L3", "L4"} /\ r.status # "succeeded"

RecordInv ==
  /\ slot[job] <= attempt[job]
  /\ slot[job] = 0 => delivery[job] = "not_applicable"
  /\ delivery[job] = "not_applicable" => letter = {}
  /\ StoreAnswers /\ slot[job] = 0 => vault = {}
  /\ StoreAnswers => \A r, s \in vault \cup letter : r = s
  /\ \A i \in 1..Len(verdicts[job]) : verdicts[job][i].kind = "queued" => verdicts[job][i].attempt # slot[job]
  /\ RecordKept /\ status[job] \in Final /\ Len(verdicts[job]) = attempt[job] => ToldAsFinished

\* The attempts that got a verdict: as many verdicts as attempts means one each.
Spaced ==
  /\ \A i \in 1..Len(verdicts[job]) : verdicts[job][i].attempt >= i
  /\ \A i, k \in 1..Len(verdicts[job]) : i <= k => verdicts[job][k].attempt - verdicts[job][i].attempt >= k - i

PipeInv ==
  /\ Spaced
  /\ RecordInv
  /\ \A w \in Workers : ReportInv(w) /\ SlotInv(w)

(* Two workers never believe in the same attempt. *)
LEMMA AttemptsApart ==
  ASSUME SentinelInv, NEW v \in Workers, NEW w \in Workers, v # w, At(v) \notin Resting, At(w) \notin Resting
  PROVE  Attempt(v) # Attempt(w)
  BY DEF SentinelInv, ProcInv

(* What a worker at rest would tell. *)
LEMMA RestingTells ==
  ASSUME NEW w \in Workers, proc'[w].at \in Resting
  PROVE  ReportInv(w)' /\ SlotInv(w)'
  BY DEF ReportInv, SlotInv, At, Resting, Reporting, Holding

(* A worker that takes no step has the same to tell. *)
LEMMA ReportFrame ==
  ASSUME NEW v \in Workers, ReportInv(v), proc'[v] = proc[v], UNCHANGED setting
  PROVE  ReportInv(v)'
  BY DEF ReportInv, Sound, At, Report, plan, setting

(* And stands to the slot as before, when nothing is told. *)
LEMMA SlotFrame ==
  ASSUME NEW v \in Workers, SlotInv(v), proc'[v] = proc[v], UNCHANGED <<setting, verdicts, recordVars>>
  PROVE  SlotInv(v)'
  BY DEF SlotInv, At, Attempt, Report, Record, StoreAnswers, RecordKept, setting, recordVars, ledgerVars

(***************************************************************************)
(* What another worker tells does not disturb it: its record is kept, the  *)
(* slot is not given to its attempt, and while the store answers only one  *)
(* worker is between its claim and its verdict.                            *)
(***************************************************************************)
LEMMA SlotKept ==
  ASSUME NEW v \in Workers, SlotInv(v), proc'[v] = proc[v], env' = env,
         At(v) \notin Resting => \A i \in 1..Len(verdicts'[job]) : verdicts'[job][i].attempt # Attempt(v),
         \/ slot'[job] = slot[job] /\ delivery'[job] = delivery[job]
         \/ slot'[job] \notin {0, Attempt(v)},
         vault \cup letter \subseteq vault' \cup letter',
         StoreAnswers => At(v) \notin Holding
  PROVE  SlotInv(v)'
  <1>1. Record(v)' = Record(v) /\ At(v)' = At(v) /\ Attempt(v)' = Attempt(v) /\ Report(v)' = Report(v)
    BY DEF Record, At, Attempt, Report
  <1>2. (StoreAnswers' <=> StoreAnswers) /\ (RecordKept' <=> RecordKept)
    BY DEF StoreAnswers, RecordKept
  <1>3. At(v) = "post" => At(v) \in Holding
    BY DEF Holding
  <1> HIDE DEF Record, At, Attempt, Report, StoreAnswers, RecordKept
  <1>4. CASE slot'[job] = slot[job] /\ delivery'[job] = delivery[job]
    BY <1>1, <1>2, <1>3, <1>4 DEF SlotInv
  <1>5. CASE slot'[job] \notin {0, Attempt(v)}
    BY <1>1, <1>2, <1>3, <1>5 DEF SlotInv
  <1>6. QED
    BY <1>4, <1>5

(***************************************************************************)
(* A step that writes no verdict and tells nothing.  A job that is         *)
(* finished after it was finished before it: the last verdict says so.     *)
(***************************************************************************)
LEMMA RecordFrame ==
  ASSUME SentinelInv, LeaseInv', Grows, Ledger!LedgerTypeOK, RecordInv, Spaced,
         UNCHANGED <<setting, verdicts, recordVars>>
  PROVE  RecordInv' /\ Spaced'
  <1> USE JobIsAJob
  <1>1. slot'[job] <= attempt'[job]
    <2>1. slot[job] \in 1..LeaseBound \cup {0} /\ attempt[job] \in Nat /\ attempt'[job] \in Nat
      BY DEF Ledger!LedgerTypeOK, SentinelInv, LeaseInv, StoreTypeOK
    <2>2. slot[job] \in Int
      BY <2>1, StoreConstants, SMTT(30)
    <2>3. QED
      BY <2>1, <2>2, SMTT(30) DEF RecordInv, Grows, recordVars, ledgerVars
  <1>2. ASSUME RecordKept', status'[job] \in Final, Len(verdicts'[job]) = attempt'[job]
        PROVE  ToldAsFinished'
    <2> DEFINE v == verdicts[job]
    <2>1. verdicts' = verdicts /\ JobLeaseInv(job) /\ JobLeaseInv(job)' /\ StoreTypeOK
      BY DEF SentinelInv, LeaseInv
    <2>2. Len(v) \in Nat
      BY <2>1, VerdictAttempts
    <2>3. Len(v) > 0 /\ v[Len(v)].kind = status'[job]
      BY <1>2, <2>1 DEF JobLeaseInv
    <2>4. Len(v) \in 1..Len(v)
      BY <2>2, <2>3, SMTT(30)
    <2>5. v[Len(v)].attempt = attempt[job] /\ status[job] = v[Len(v)].kind
      BY <1>2, <2>1, <2>3, <2>4 DEF JobLeaseInv
    <2>6. v[Len(v)].attempt = attempt'[job]
      BY <1>2, <2>1, <2>3, <2>4 DEF JobLeaseInv
    <2>7. status'[job] = status[job] /\ attempt'[job] = attempt[job] /\ vault' = vault /\ letter' = letter
      BY <2>3, <2>5, <2>6 DEF recordVars
    <2>8. RecordKept
      BY <1>2 DEF RecordKept, StoreAnswers, setting
    <2>9. ToldAsFinished
      BY <1>2, <2>1, <2>7, <2>8 DEF RecordInv
    <2>10. QED
      BY <2>7, <2>9 DEF ToldAsFinished
  <1>3. Spaced'
    BY DEF Spaced
  <1>4. /\ slot' = slot /\ delivery' = delivery /\ letter' = letter /\ vault' = vault /\ env' = env
        /\ verdicts' = verdicts
    BY DEF recordVars, ledgerVars, setting
  <1>5. QED
    BY <1>1, <1>2, <1>3, <1>4 DEF RecordInv, StoreAnswers

(* Up to the report, the slot is not this attempt's. *)
LEMMA WorksInv ==
  ASSUME SentinelInv, LeaseInv', Grows, Ledger!LedgerTypeOK, PipeInv, NEW w \in Workers, Works(w),
         UNCHANGED <<setting, verdicts, recordVars>>
  PROVE  PipeInv'
  <1>1. RecordInv' /\ Spaced'
    BY RecordFrame DEF PipeInv
  <1>2. ASSUME NEW v \in Workers, proc'[v] = proc[v] PROVE ReportInv(v)' /\ SlotInv(v)'
    BY <1>2, ReportFrame, SlotFrame DEF PipeInv
  <1>3. ReportInv(w)' /\ SlotInv(w)'
    <2>1. CASE proc'[w].at \in Resting
      BY <2>1, RestingTells
    <2>2. CASE proc'[w] = proc[w]
      BY <1>2, <2>2
    <2>3. CASE /\ At(w) \notin Resting \cup Reporting
               /\ proc'[w].attempt = Attempt(w)
               /\ \/ proc'[w].at \notin Resting \cup Reporting
                  \/ proc'[w].at = "report" /\ Sound(proc'[w].report)
      <3>1. slot'[job] = slot[job] /\ verdicts' = verdicts /\ request' = request
        BY DEF recordVars, ledgerVars, setting
      <3>2. ReportInv(w)'
        <4>1. CASE proc'[w].at \notin Resting \cup Reporting
          BY <4>1 DEF ReportInv, At, Reporting
        <4>2. CASE proc'[w].at = "report" /\ Sound(proc'[w].report)
          BY <3>1, <4>2 DEF ReportInv, At, Reporting, Holding, Report, Sound, plan
        <4>3. QED
          BY <2>3, <4>1, <4>2
      <3>3. /\ \A i \in 1..Len(verdicts[job]) : verdicts[job][i].attempt # Attempt(w)
            /\ slot[job] # Attempt(w)
        BY <2>3 DEF PipeInv, SlotInv, Reporting
      <3>4. proc'[w].at \notin Holding \cup {"verdict"} /\ proc'[w].at \notin {"mark", "bury", "post"}
        BY <2>3 DEF Reporting, Holding
      <3>5. SlotInv(w)'
        BY <2>3, <3>1, <3>3, <3>4 DEF SlotInv, At, Attempt
      <3>6. QED
        BY <3>2, <3>5
    <2>4. QED
      BY <2>1, <2>2, <2>3 DEF Works
  <1>4. \A v \in Workers : ReportInv(v)' /\ SlotInv(v)'
    BY <1>2, <1>3 DEF Works
  <1>5. QED
    BY <1>1, <1>4 DEF PipeInv

----------------------------------------------------------------------------
(* submitCheckRecord and the verdict, call by call. *)

(* A terminal report is the last one: the verdict follows. *)
LEMMA AfterTerminal ==
  ASSUME NEW w \in Workers, ReportInv(w), At(w) \in {"claim"} \cup Holding, AfterReport(w)
  PROVE  Move(w, "verdict") /\ Report(w).terminal
  <1>1. Sound(Report(w)) /\ Report(w).terminal
    BY DEF ReportInv, Reporting
  <1>2. ~(Report(w).stage = "L5A" /\ plan.l5b)
    BY <1>1 DEF Sound
  <1>3. QED
    BY <1>1, <1>2 DEF AfterReport

(* A worker that moved has the same to tell, from elsewhere. *)
LEMMA MovedTells ==
  ASSUME proc \in [Workers -> Process], NEW w \in Workers, NEW at, Move(w, at)
  PROVE  /\ At(w)' = at /\ Attempt(w)' = Attempt(w) /\ Report(w)' = Report(w) /\ Record(w)' = Record(w)
         /\ \A v \in Workers \ {w} : proc'[v] = proc[v]
  <1>1. proc'[w].at = at /\ proc'[w].attempt = proc[w].attempt /\ proc'[w].report = proc[w].report
    BY Moved
  <1>2. \A v \in Workers \ {w} : proc'[v] = proc[v]
    BY Moved
  <1>3. QED
    BY <1>1, <1>2 DEF At, Attempt, Report, Record

(* And it is as sound as before. *)
LEMMA MovedReport ==
  ASSUME proc \in [Workers -> Process], NEW w \in Workers, NEW at, Move(w, at), UNCHANGED setting,
         Sound(Report(w)), at \in {"claim"} \cup Holding => Report(w).terminal,
         at = "verdict" => Report(w).terminal \/ Report(w).verdict = "queued"
  PROVE  ReportInv(w)'
  <1>1. At(w)' = at /\ Report(w)' = Report(w)
    BY MovedTells
  <1>2. Sound(Report(w))'
    BY <1>1 DEF Sound, plan, setting
  <1>3. QED
    BY <1>1, <1>2 DEF ReportInv

(* CheckLease: a report that is not terminal goes without the slot, and asks for a retry unless L5-b follows. *)
LEMMA CheckLeaseInv ==
  ASSUME SentinelInv, LeaseInv', Grows, Ledger!LedgerTypeOK, PipeInv, NEW w \in Workers, CheckLease(w)
  PROVE  PipeInv'
  <1>0. proc \in [Workers -> Process] /\ At(w) = "report" /\ UNCHANGED <<setting, recordVars>>
    BY DEF SentinelInv, CheckLease
  <1>1. UNCHANGED verdicts
    BY CallsWithoutVerdict DEF CheckLease, StillLeased
  <1>2. ReportInv(w) /\ SlotInv(w)
    BY DEF PipeInv
  <1>3. Sound(Report(w))
    BY <1>0, <1>2 DEF ReportInv, Reporting
  <1>4. /\ \A i \in 1..Len(verdicts[job]) : verdicts[job][i].attempt # Attempt(w)
        /\ slot[job] # Attempt(w)
    BY <1>0, <1>2 DEF SlotInv, Resting, Holding
  <1>5. CASE Leave(w)
    BY <1>0, <1>1, <1>5, Rested, WorksInv DEF Leave
  <1>6. ASSUME NEW at \in {"claim", "verdict", "l5b"}, Move(w, at), at = "claim" <=> Report(w).terminal,
               at = "verdict" => Report(w).verdict = "queued"
        PROVE  PipeInv'
    <2>1. /\ At(w)' = at /\ Attempt(w)' = Attempt(w) /\ Report(w)' = Report(w)
          /\ \A v \in Workers \ {w} : proc'[v] = proc[v]
      BY <1>0, <1>6, MovedTells
    <2>2. ReportInv(w)'
      BY <1>0, <1>3, <1>6, MovedReport DEF Holding
    <2>3. slot' = slot
      BY <1>0 DEF recordVars, ledgerVars
    <2>4. SlotInv(w)'
      BY <1>1, <1>4, <1>6, <2>1, <2>3 DEF SlotInv, Holding
    <2>5. \A v \in Workers \ {w} : ReportInv(v)' /\ SlotInv(v)'
      BY <1>0, <1>1, <2>1, ReportFrame, SlotFrame DEF PipeInv
    <2>6. RecordInv' /\ Spaced'
      BY <1>0, <1>1, RecordFrame DEF PipeInv
    <2>7. QED
      BY <2>2, <2>4, <2>5, <2>6 DEF PipeInv
  <1>7. CASE Report(w).terminal /\ Move(w, "claim")
    BY <1>6, <1>7
  <1>8. CASE ~Report(w).terminal /\ AfterReport(w)
    <2>1. CASE Report(w).stage = "L5A" /\ plan.l5b
      BY <1>6, <1>8, <2>1 DEF AfterReport
    <2>2. CASE ~(Report(w).stage = "L5A" /\ plan.l5b)
      <3>1. Report(w).verdict = "queued"
        BY <1>3, <1>8, <2>2 DEF Sound
      <3>2. QED
        BY <1>6, <1>8, <2>2, <3>1 DEF AfterReport
    <2>3. QED
      BY <2>1, <2>2
  <1>9. QED
    BY <1>5, <1>7, <1>8 DEF CheckLease, StillLeased

(* claimTerminal: the first attempt to ask owns the slot, while nothing has been told. *)
LEMMA ClaimInv ==
  ASSUME SentinelInv, LeaseInv', Grows, Ledger!LedgerTypeOK, PipeInv, NEW w \in Workers, Claim(w)
  PROVE  PipeInv'
  <1> USE JobIsAJob
  <1>0. /\ proc \in [Workers -> Process] /\ At(w) = "claim" /\ UNCHANGED <<setting, vault, letter>>
        /\ UNCHANGED <<status, attempt, verdicts>>
    BY DEF SentinelInv, Claim, storeVars, leaseVars
  <1>1. ReportInv(w) /\ SlotInv(w) /\ Attempt(w) \in 1..attempt[job] /\ attempt[job] \in Nat
    BY <1>0 DEF PipeInv, SentinelInv, ProcInv, Resting, LeaseInv, StoreTypeOK
  <1>2. Sound(Report(w)) /\ Report(w).terminal
    BY <1>0, <1>1 DEF ReportInv, Reporting
  <1>3. /\ \A i \in 1..Len(verdicts[job]) : verdicts[job][i].attempt # Attempt(w)
        /\ slot[job] # Attempt(w)
    BY <1>0, <1>1 DEF SlotInv, Resting, Holding
  <1>4. env' = env /\ (StoreAnswers' <=> StoreAnswers) /\ (RecordKept' <=> RecordKept)
    BY <1>0 DEF setting, StoreAnswers, RecordKept
  <1>5. RecordInv /\ Spaced
    BY DEF PipeInv
  <1>6. CASE Ledger!ClaimTerminal(job, Attempt(w)) /\ Move(w, "post")
    <2>1. slot[job] = 0 /\ slot'[job] = Attempt(w) /\ delivery' = delivery
      BY <1>6 DEF Ledger!ClaimTerminal, Ledger!LedgerTypeOK
    <2>2. delivery[job] = "not_applicable" /\ letter = {} /\ (StoreAnswers => vault = {})
      BY <1>5, <2>1 DEF RecordInv
    <2>3. /\ At(w)' = "post" /\ Attempt(w)' = Attempt(w)
          /\ \A v \in Workers \ {w} : proc'[v] = proc[v]
      BY <1>0, <1>6, MovedTells
    <2>4. ReportInv(w)'
      BY <1>0, <1>2, <1>6, MovedReport
    <2>5. SlotInv(w)'
      BY <1>0, <1>3, <1>4, <2>1, <2>2, <2>3 DEF SlotInv, Holding
    <2>6. ASSUME NEW v \in Workers \ {w} PROVE ReportInv(v)' /\ SlotInv(v)'
      <3>1. ReportInv(v) /\ SlotInv(v)
        BY DEF PipeInv
      <3>2. CASE At(v) \in Resting
        BY <2>3, <3>2, RestingTells DEF At
      <3>3. CASE At(v) \notin Resting
        <4>1. Attempt(v) # Attempt(w) /\ Attempt(v) \in 1..attempt[job]
          BY <1>0, <3>3, AttemptsApart DEF Resting, SentinelInv, ProcInv
        <4>2. slot'[job] \notin {0, Attempt(v)}
          BY <1>1, <2>1, <4>1, SMTT(30)
        <4>3. StoreAnswers => At(v) \notin Holding
          BY <2>1, <3>1, <4>1, SMTT(30) DEF SlotInv
        <4>4. \A i \in 1..Len(verdicts'[job]) : verdicts'[job][i].attempt # Attempt(v)
          BY <1>0, <3>1, <3>3 DEF SlotInv
        <4>5. vault \cup letter \subseteq vault' \cup letter'
          BY <1>0
        <4>6. QED
          BY <1>0, <1>4, <2>3, <3>1, <4>2, <4>3, <4>4, <4>5, SlotKept, ReportFrame
      <3>4. QED
        BY <3>2, <3>3
    <2>7. RecordInv'
      <3>1. slot'[job] <= attempt'[job] /\ slot'[job] # 0
        BY <1>0, <1>1, <2>1, SMTT(30)
      <3>2. ToldAsFinished' <=> ToldAsFinished
        BY <1>0 DEF ToldAsFinished
      <3>3. QED
        BY <1>0, <1>3, <1>4, <1>5, <2>1, <2>2, <3>1, <3>2 DEF RecordInv
    <2>8. Spaced'
      BY <1>0, <1>5 DEF Spaced
    <2>9. QED
      BY <2>4, <2>5, <2>6, <2>7, <2>8 DEF PipeInv
  <1>7. ASSUME UNCHANGED ledgerVars, NEW at \in {"post", "verdict"}, Move(w, at),
               at = "post" => ~StoreAnswers, at = "verdict" => slot[job] # 0
        PROVE  PipeInv'
    <2>1. /\ At(w)' = at /\ Attempt(w)' = Attempt(w)
          /\ \A v \in Workers \ {w} : proc'[v] = proc[v]
      BY <1>0, <1>7, MovedTells
    <2>2. slot' = slot /\ UNCHANGED recordVars
      BY <1>0, <1>7 DEF ledgerVars, recordVars
    <2>3. ReportInv(w)'
      BY <1>0, <1>2, <1>7, MovedReport
    <2>4. SlotInv(w)'
      BY <1>0, <1>3, <1>4, <1>7, <2>1, <2>2 DEF SlotInv, Holding
    <2>5. \A v \in Workers \ {w} : ReportInv(v)' /\ SlotInv(v)'
      BY <1>0, <2>1, <2>2, ReportFrame, SlotFrame DEF PipeInv
    <2>6. RecordInv' /\ Spaced'
      BY <1>0, <1>5, <2>2, RecordFrame
    <2>7. QED
      BY <2>3, <2>4, <2>5, <2>6 DEF PipeInv
  <1>8. CASE slot[job] # 0 /\ UNCHANGED ledgerVars /\ AfterReport(w)
    BY <1>0, <1>1, <1>7, <1>8, AfterTerminal
  <1>9. CASE "store" \in env.faults /\ UNCHANGED ledgerVars /\ Move(w, "post")
    BY <1>7, <1>9 DEF StoreAnswers
  <1>10. QED
    BY <1>6, <1>8, <1>9 DEF Claim

(***************************************************************************)
(* A worker between its claim and its verdict, as the others see it: what  *)
(* it tells adds to the records, and nobody else is there while the store  *)
(* answers.                                                                *)
(***************************************************************************)
LEMMA HolderApart ==
  ASSUME SentinelInv, PipeInv, NEW w \in Workers, At(w) \in Holding, NEW v \in Workers \ {w},
         proc'[v] = proc[v], UNCHANGED <<setting, verdicts>>, slot'[job] = slot[job],
         vault \cup letter \subseteq vault' \cup letter',
         delivery'[job] = delivery[job] \/ slot[job] = Attempt(w)
  PROVE  ReportInv(v)' /\ SlotInv(v)'
  <1>1. ReportInv(v) /\ SlotInv(v) /\ SlotInv(w) /\ env' = env
    BY DEF PipeInv, setting
  <1>2. CASE At(v) \in Resting
    BY <1>2, RestingTells DEF At
  <1>3. CASE At(v) \notin Resting
    <2>1. At(w) \notin Resting
      BY DEF Holding, Resting
    <2>2. Attempt(v) # Attempt(w) /\ Attempt(w) \in 1..attempt[job]
      BY <1>3, <2>1, AttemptsApart DEF SentinelInv, ProcInv
    <2>3. StoreAnswers => At(v) \notin Holding
      BY <1>1, <2>2 DEF SlotInv
    <2>4. \A i \in 1..Len(verdicts'[job]) : verdicts'[job][i].attempt # Attempt(v)
      BY <1>1, <1>3 DEF SlotInv
    <2>5. (slot'[job] = slot[job] /\ delivery'[job] = delivery[job]) \/ slot'[job] \notin {0, Attempt(v)}
      BY <2>2, SMTT(30)
    <2>6. QED
      BY <1>1, <2>3, <2>4, <2>5, SlotKept, ReportFrame
  <1>4. QED
    BY <1>2, <1>3

(* The POST: the record of the slot's owner, or one the store's failure let through. *)
LEMMA PostInv ==
  ASSUME SentinelInv, Ledger!LedgerTypeOK, PipeInv, NEW w \in Workers, Post(w)
  PROVE  PipeInv'
  <1> USE JobIsAJob
  <1>0. /\ proc \in [Workers -> Process] /\ At(w) = "post" /\ UNCHANGED <<setting, letter, slot, delivery>>
        /\ UNCHANGED <<status, attempt, verdicts>>
    BY DEF SentinelInv, Post, storeVars, leaseVars, ledgerVars
  <1>1. /\ ReportInv(w) /\ SlotInv(w) /\ Attempt(w) \in 1..attempt[job]
        /\ At(w) \in Holding
    BY <1>0 DEF PipeInv, SentinelInv, ProcInv, Resting, Holding
  <1>2. Sound(Report(w)) /\ Report(w).terminal
    BY <1>0, <1>1 DEF ReportInv, Reporting
  <1>3. /\ \A i \in 1..Len(verdicts[job]) : verdicts[job][i].attempt # Attempt(w)
        /\ slot[job] = Attempt(w) => delivery[job] = "not_applicable"
        /\ StoreAnswers => slot[job] = Attempt(w) /\ vault \cup letter = {}
    BY <1>0, <1>1 DEF SlotInv, Resting
  <1>4. env' = env /\ (StoreAnswers' <=> StoreAnswers) /\ (RecordKept' <=> RecordKept)
    BY <1>0 DEF setting, StoreAnswers, RecordKept
  <1>5. RecordInv /\ Spaced
    BY DEF PipeInv
  <1>6. vault' \in {vault, vault \cup {Record(w)}}
    BY DEF Post
  <1>7. PICK at \in {"verdict", "mark", "bury"} :
          /\ Move(w, at)
          /\ at = "verdict" => Record(w) \in vault'
          /\ at \in {"mark", "bury"} => env.faults \cap {"vault", "refuse"} # {}
    <2>1. CASE vault' = vault \cup {Record(w)} /\ AfterReport(w)
      BY <1>1, <2>1, AfterTerminal
    <2>2. CASE "vault" \in env.faults /\ Move(w, "mark")
      BY <2>2
    <2>3. CASE "refuse" \in env.faults /\ Move(w, "bury")
      BY <2>3
    <2>4. QED
      BY <2>1, <2>2, <2>3 DEF Post
  <1>8. /\ At(w)' = at /\ Attempt(w)' = Attempt(w) /\ Report(w)' = Report(w) /\ Record(w)' = Record(w)
        /\ \A v \in Workers \ {w} : proc'[v] = proc[v]
    BY <1>0, <1>7, MovedTells
  <1>9. ReportInv(w)'
    BY <1>0, <1>2, <1>7, MovedReport
  <1>10. SlotInv(w)'
    BY <1>0, <1>2, <1>3, <1>4, <1>6, <1>7, <1>8 DEF SlotInv, Holding
  <1>11. \A v \in Workers \ {w} : ReportInv(v)' /\ SlotInv(v)'
    BY <1>0, <1>1, <1>6, <1>8, HolderApart
  <1>12. RecordInv'
    <2>1. StoreAnswers => slot[job] # 0 /\ \A r, s \in vault' \cup letter' : r = s
      BY <1>0, <1>1, <1>3, <1>6, SMTT(30)
    <2>2. ToldAsFinished => ToldAsFinished'
      BY <1>0, <1>6 DEF ToldAsFinished
    <2>3. QED
      BY <1>0, <1>4, <1>5, <2>1, <2>2 DEF RecordInv
  <1>13. Spaced'
    BY <1>0, <1>5 DEF Spaced
  <1>14. QED
    BY <1>9, <1>10, <1>11, <1>12, <1>13 DEF PipeInv

(* markFirstDeliveryFailure: the owner of the slot leaves its record behind unless the store fails. *)
LEMMA MarkInv ==
  ASSUME SentinelInv, LeaseInv', Grows, Ledger!LedgerTypeOK, PipeInv, NEW w \in Workers, Mark(w)
  PROVE  PipeInv'
  <1> USE JobIsAJob
  <1>0. /\ proc \in [Workers -> Process] /\ At(w) \in {"mark", "bury"} /\ UNCHANGED <<setting, vault>>
        /\ UNCHANGED <<status, attempt, verdicts>> /\ AfterReport(w)
    BY DEF SentinelInv, Mark, storeVars, leaseVars
  <1>1. /\ ReportInv(w) /\ SlotInv(w) /\ Attempt(w) \in 1..attempt[job]
        /\ At(w) \in Holding
    BY <1>0 DEF PipeInv, SentinelInv, ProcInv, Resting, Holding
  <1>2. Sound(Report(w)) /\ Report(w).terminal /\ Move(w, "verdict")
    BY <1>0, <1>1, AfterTerminal DEF ReportInv, Reporting
  <1>3. /\ \A i \in 1..Len(verdicts[job]) : verdicts[job][i].attempt # Attempt(w)
        /\ slot[job] = Attempt(w) => delivery[job] = "not_applicable"
        /\ env.faults \cap {"vault", "refuse"} # {}
        /\ StoreAnswers => slot[job] = Attempt(w) /\ vault \cup letter \subseteq {Record(w)}
    BY <1>0, <1>1 DEF SlotInv, Resting
  <1>4. env' = env /\ (StoreAnswers' <=> StoreAnswers) /\ (RecordKept' <=> RecordKept)
    BY <1>0 DEF setting, StoreAnswers, RecordKept
  <1>5. RecordInv /\ Spaced
    BY DEF PipeInv
  <1>6. /\ At(w)' = "verdict" /\ Attempt(w)' = Attempt(w) /\ Report(w)' = Report(w) /\ Record(w)' = Record(w)
        /\ \A v \in Workers \ {w} : proc'[v] = proc[v]
    BY <1>0, <1>2, MovedTells
  <1>7. ReportInv(w)'
    BY <1>0, <1>2, MovedReport
  <1>8. CASE /\ \/ Ledger!MarkFirstDeliveryPending(job, Attempt(w), 0)
                \/ Ledger!MarkFirstDeliveryDeadLetter(job, Attempt(w))
             /\ letter' = {Record(w)}
    <2>1. slot[job] = Attempt(w) /\ delivery[job] = "not_applicable" /\ slot' = slot
      BY <1>8 DEF Ledger!MarkFirstDeliveryPending, Ledger!MarkFirstDeliveryDeadLetter, Ledger!FirstDeliveryFence,
         Ledger!Unclaim
    <2>2. delivery'[job] # "not_applicable"
      BY <1>8 DEF Ledger!MarkFirstDeliveryPending, Ledger!MarkFirstDeliveryDeadLetter, Ledger!LedgerTypeOK
    <2>3. letter = {} /\ vault \cup letter \subseteq vault' \cup letter'
      BY <1>0, <1>5, <2>1 DEF RecordInv
    <2>4. SlotInv(w)'
      BY <1>0, <1>2, <1>3, <1>6, <1>8 DEF SlotInv, Holding
    <2>5. \A v \in Workers \ {w} : ReportInv(v)' /\ SlotInv(v)'
      BY <1>0, <1>1, <1>6, <2>1, <2>3, HolderApart
    <2>6. RecordInv'
      <3>1. StoreAnswers => \A r, s \in vault' \cup letter' : r = s
        BY <1>0, <1>3, <1>8
      <3>2. ToldAsFinished => ToldAsFinished'
        BY <1>0, <2>3 DEF ToldAsFinished
      <3>3. slot[job] # 0
        BY <1>1, <2>1, SMTT(30)
      <3>4. QED
        BY <1>0, <1>4, <1>5, <2>1, <2>2, <3>1, <3>2, <3>3 DEF RecordInv
    <2>7. Spaced'
      BY <1>0, <1>5 DEF Spaced
    <2>8. QED
      BY <1>7, <2>4, <2>5, <2>6, <2>7 DEF PipeInv
  <1>9. CASE ("store" \in env.faults \/ ~Ledger!FirstDeliveryFence(job, Attempt(w))) /\ UNCHANGED <<ledgerVars, letter>>
    <2>1. ~StoreAnswers
      BY <1>3, <1>9 DEF StoreAnswers, Ledger!FirstDeliveryFence
    <2>2. ~RecordKept
      BY <1>3, <2>1 DEF RecordKept
    <2>3. UNCHANGED recordVars
      BY <1>0, <1>9 DEF recordVars
    <2>4. SlotInv(w)'
      BY <1>0, <1>2, <1>3, <1>4, <1>6, <2>1, <2>2 DEF SlotInv, Holding
    <2>5. \A v \in Workers \ {w} : ReportInv(v)' /\ SlotInv(v)'
      BY <1>0, <1>6, <2>3, ReportFrame, SlotFrame DEF PipeInv
    <2>6. RecordInv' /\ Spaced'
      BY <1>0, <1>5, <2>3, RecordFrame
    <2>7. QED
      BY <1>7, <2>4, <2>5, <2>6 DEF PipeInv
  <1>10. QED
    BY <1>8, <1>9 DEF Mark

(***************************************************************************)
(* A verdict is accepted.  It is the first of its attempt, which is the    *)
(* last one leased; so if every attempt has its verdict now, every earlier *)
(* attempt was told to retry and did not own the slot.                     *)
(***************************************************************************)
LEMMA SettleInv ==
  ASSUME SentinelInv, PipeTypes, PipeInv, NEW w \in Workers, Settle(w)
  PROVE  PipeInv'
  <1> USE JobIsAJob
  <1> DEFINE n == Attempt(w)
             v == verdicts[job]
             kind == Report(w).verdict
  <1>0. /\ proc \in [Workers -> Process] /\ At(w) = "verdict" /\ UNCHANGED <<setting, recordVars>> /\ Leave(w)
        /\ Conclude(job, n, kind) /\ HoldsLease(job, w, n)
    BY DEF SentinelInv, Settle, CompleteJob, FailJobForGood, FailJobRetryable
  <1>1. /\ ReportInv(w) /\ SlotInv(w) /\ n \in 1..attempt[job] /\ attempt[job] \in Nat
        /\ StoreTypeOK /\ JobLeaseInv(job)
    BY <1>0 DEF PipeInv, SentinelInv, ProcInv, Resting, LeaseInv, StoreTypeOK
  <1>2. /\ n = attempt[job] /\ n \in Nat /\ n >= 1
        /\ status[job] \in Active
    BY <1>0, <1>1, StoreConstants, SMTT(30) DEF HoldsLease, JobLeaseInv
  <1>3. /\ v \in Seq(Verdict) /\ Len(v) \in Nat
        /\ \A i \in 1..Len(v) : v[i].attempt \in Nat /\ v[i].attempt < n /\ v[i].kind = "queued"
    <2>1. /\ v \in Seq(Verdict) /\ Len(v) \in Nat
          /\ \A i \in 1..Len(v) : v[i].attempt \in Nat /\ v[i].attempt < n
      BY <1>1, <1>2, VerdictAttempts DEF JobLeaseInv
    <2>2. \A i \in 1..Len(v) : v[i] \in Verdict
      BY <2>1, SMTT(30)
    <2>3. \A r \in Verdict : r.kind \in {"queued"} \cup Final
      BY DEF Verdict
    <2>4. \A i \in 1..Len(v) : v[i].kind \notin Final
      BY <1>1, <1>2 DEF JobLeaseInv, Active, Final
    <2>5. QED
      BY <2>1, <2>2, <2>3, <2>4
  <1>4. /\ status'[job] = kind /\ attempt'[job] = n /\ verdicts'[job] = Append(v, [attempt |-> n, kind |-> kind])
    BY <1>0, <1>1, <1>2 DEF Conclude, StoreTypeOK
  <1>5. PICK u : u = verdicts'[job]
    OBVIOUS
  <1>6. /\ Len(u) = Len(v) + 1 /\ \A i \in 1..Len(v) : u[i] = v[i]
        /\ u[Len(v) + 1].attempt = n /\ u[Len(v) + 1].kind = kind
    BY <1>3, <1>4, <1>5, SMTT(30)
  <1>7. /\ Sound(Report(w)) /\ (Report(w).terminal \/ kind = "queued")
        /\ slot[job] = n => Report(w).terminal
        /\ Report(w).terminal /\ RecordKept => Record(w) \in vault \cup letter \/ slot[job] \notin {0, n}
    BY <1>0, <1>1 DEF ReportInv, Reporting, SlotInv
  <1>8. RecordInv /\ Spaced
    BY DEF PipeInv
  <1>9. slot[job] \in Nat /\ slot[job] <= n
    <2>1. slot[job] \in 1..LeaseBound \cup {0}
      BY DEF PipeTypes, Ledger!LedgerTypeOK
    <2>2. QED
      BY <1>2, <1>8, <2>1, StoreConstants, SMTT(30) DEF RecordInv
  <1>10. /\ slot' = slot /\ delivery' = delivery /\ vault' = vault /\ letter' = letter /\ env' = env
    BY <1>0 DEF recordVars, ledgerVars, setting
  <1>11. \A i \in 1..Len(u) : i \in 1..Len(v) \/ i = Len(v) + 1
    BY <1>3, <1>6, SMTT(30)
  <1>12. \A i \in 1..Len(v) : n - v[i].attempt >= Len(v) + 1 - i
    <2> SUFFICES ASSUME NEW i \in 1..Len(v) PROVE n - v[i].attempt >= Len(v) + 1 - i
      OBVIOUS
    <2>1. Len(v) \in 1..Len(v) /\ i <= Len(v)
      BY <1>3, SMTT(30)
    <2>2. v[Len(v)].attempt - v[i].attempt >= Len(v) - i
      BY <1>8, <2>1 DEF Spaced
    <2>3. v[Len(v)].attempt < n /\ v[Len(v)].attempt \in Nat /\ v[i].attempt \in Nat
      BY <1>3, <2>1
    <2>4. QED
      BY <1>2, <1>3, <2>2, <2>3, SMTT(30)
  <1>13. n >= Len(v) + 1
    <2>1. CASE Len(v) = 0
      BY <1>2, <2>1, SMTT(30)
    <2>2. CASE Len(v) # 0
      <3>1. Len(v) \in 1..Len(v)
        BY <1>3, <2>2, SMTT(30)
      <3>2. v[Len(v)].attempt >= Len(v) /\ v[Len(v)].attempt < n /\ v[Len(v)].attempt \in Nat
        BY <1>3, <1>8, <3>1 DEF Spaced
      <3>3. QED
        BY <1>2, <1>3, <3>2, SMTT(30)
    <2>3. QED
      BY <2>1, <2>2
  <1> HIDE DEF n, v, kind
  <1>14. Spaced'
    <2>1. \A i \in 1..Len(u) : u[i].attempt >= i
      <3>1. \A i \in 1..Len(v) : v[i].attempt >= i
        BY <1>8 DEF Spaced, v
      <3>2. QED
        BY <1>6, <1>11, <1>13, <3>1
    <2>2. ASSUME NEW i \in 1..Len(u), NEW k \in 1..Len(u), i <= k
          PROVE  u[k].attempt - u[i].attempt >= k - i
      <3>1. CASE k \in 1..Len(v)
        <4>1. i \in 1..Len(v)
          BY <1>3, <2>2, <3>1, SMTT(30)
        <4>2. v[k].attempt - v[i].attempt >= k - i
          BY <1>8, <2>2, <3>1, <4>1 DEF Spaced, v
        <4>3. QED
          BY <1>6, <3>1, <4>1, <4>2
      <3>2. CASE k = Len(v) + 1 /\ i \in 1..Len(v)
        BY <1>6, <1>12, <3>2, SMTT(30)
      <3>3. CASE k = Len(v) + 1 /\ i = Len(v) + 1
        BY <1>2, <1>3, <1>6, <3>3, SMTT(30)
      <3>4. QED
        BY <1>11, <3>1, <3>2, <3>3
    <2>3. QED
      BY <1>5, <2>1, <2>2 DEF Spaced
  <1>15. \A i \in 1..Len(u) : u[i].kind = "queued" => u[i].attempt # slot[job]
    <2>1. kind = "queued" => slot[job] # n
      BY <1>7 DEF Sound, kind
    <2>2. \A i \in 1..Len(v) : v[i].kind = "queued" => v[i].attempt # slot[job]
      BY <1>8 DEF RecordInv, v
    <2>3. QED
      BY <1>6, <1>11, <2>1, <2>2
  <1>16. ASSUME RecordKept, kind \in Final, Len(u) = n
         PROVE  Record(w) \in vault \cup letter
    <2>1. Report(w).terminal
      BY <1>7, <1>16 DEF Final, kind
    <2>2. ASSUME slot[job] \notin {0, n} PROVE FALSE
      <3> DEFINE b == slot[job]
      <3>1. b \in 1..Len(v)
        BY <1>2, <1>3, <1>6, <1>9, <1>16, <2>2, SMTT(30)
      <3>2. v[b].attempt >= b
        BY <1>8, <3>1 DEF Spaced, v
      <3>3. n - v[b].attempt >= n - b
        BY <1>6, <1>12, <1>16, <3>1, SMTT(30)
      <3>4. v[b].attempt = b
        BY <1>2, <1>3, <1>9, <3>1, <3>2, <3>3, SMTT(30)
      <3>5. QED
        BY <1>3, <1>6, <1>15, <3>1, <3>4, SMTT(30)
    <2>3. QED
      BY <1>7, <1>16, <2>1, <2>2
  <1>17. ASSUME RecordKept', status'[job] \in Final, Len(verdicts'[job]) = attempt'[job] PROVE ToldAsFinished'
    <2>1. RecordKept /\ kind \in Final /\ Len(u) = n
      BY <1>4, <1>5, <1>10, <1>17 DEF RecordKept, StoreAnswers
    <2>2. Record(w) \in vault' \cup letter'
      BY <1>10, <1>16, <2>1
    <2>3. Record(w).attempt = n /\ Record(w).stage = Report(w).stage /\ Record(w).status = Report(w).status
      BY DEF Record, n
    <2>4. kind = "failed" <=> Report(w).stage \in {"L3", "L4"} /\ Report(w).status # "succeeded"
      BY <1>7, <2>1 DEF Sound, kind, Final
    <2>5. QED
      BY <1>4, <2>2, <2>3, <2>4 DEF ToldAsFinished
  <1>18. RecordInv'
    BY <1>2, <1>4, <1>5, <1>8, <1>9, <1>10, <1>15, <1>17 DEF RecordInv, StoreAnswers
  <1>19. ASSUME NEW x \in Workers PROVE ReportInv(x)' /\ SlotInv(x)'
    <2>0. Rest("idle").at \in Resting
      BY DEF Rest, Resting
    <2>1. CASE x = w
      BY <1>0, <2>0, <2>1, RestingTells DEF Leave
    <2>2. CASE x # w
      <3>1. proc'[x] = proc[x] /\ ReportInv(x) /\ SlotInv(x)
        BY <1>0, <2>2 DEF Leave, PipeInv
      <3>2. CASE At(x) \in Resting
        BY <3>1, <3>2, RestingTells DEF At
      <3>3. CASE At(x) \notin Resting
        <4>1. Attempt(x) # n
          BY <1>0, <2>2, <3>3, AttemptsApart DEF Resting, n
        <4>2. \A i \in 1..Len(v) : v[i].attempt # Attempt(x)
          BY <3>1, <3>3 DEF SlotInv, v
        <4>3. \A i \in 1..Len(u) : u[i].attempt # Attempt(x)
          BY <1>6, <1>11, <4>1, <4>2
        <4>4. SlotInv(x)'
          <5>1. Record(x)' = Record(x) /\ At(x)' = At(x) /\ Attempt(x)' = Attempt(x) /\ Report(x)' = Report(x)
            BY <3>1 DEF Record, At, Attempt, Report
          <5>2. (StoreAnswers' <=> StoreAnswers) /\ (RecordKept' <=> RecordKept)
            BY <1>10 DEF StoreAnswers, RecordKept
          <5>3. QED
            BY <1>5, <1>10, <3>1, <4>3, <5>1, <5>2 DEF SlotInv
        <4>5. QED
          BY <1>0, <3>1, <4>4, ReportFrame
      <3>4. QED
        BY <3>2, <3>3
    <2>3. QED
      BY <2>1, <2>2
  <1>20. QED
    BY <1>14, <1>18, <1>19 DEF PipeInv

(* LeaseJob: the attempt is new, so no slot and no verdict is its own. *)
LEMMA LeaseTells ==
  ASSUME SentinelInv, LeaseInv', Grows, PipeTypes, PipeInv, NEW w \in Workers, Lease(w)
  PROVE  PipeInv'
  <1> USE JobIsAJob
  <1>0. UNCHANGED <<setting, recordVars, verdicts>>
    BY CallsWithoutVerdict DEF Lease
  <1>1. RecordInv' /\ Spaced'
    BY <1>0, RecordFrame DEF PipeInv, PipeTypes
  <1>2. PICK a : a = attempt[job] + 1
    OBVIOUS
  <1>3. PICK p : p = [Rest("leased") EXCEPT !.attempt = attempt[job] + 1, !.execution = execution[job], !.marked = marked]
    OBVIOUS
  <1>4. proc' = [proc EXCEPT ![w] = p] /\ proc \in [Workers -> Process]
    BY <1>3 DEF Lease, SentinelInv
  <1>5. p.at = "leased" /\ p.attempt = a
    <2>1. p.at = "leased"
      BY <1>3 DEF Rest
    <2>2. p.attempt = attempt[job] + 1
      BY <1>3 DEF Rest
    <2>3. QED
      BY <1>2, <2>1, <2>2
  <1>6. proc'[w] = p /\ \A v \in Workers \ {w} : proc'[v] = proc[v]
    BY <1>4
  <1>7. attempt[job] \in Nat /\ slot[job] \in Nat /\ slot[job] <= attempt[job]
    <2>1. slot[job] \in 1..LeaseBound \cup {0} /\ attempt[job] \in Nat
      BY DEF PipeTypes, Ledger!LedgerTypeOK, SentinelInv, LeaseInv, StoreTypeOK
    <2>2. QED
      BY <2>1, StoreConstants, SMTT(30) DEF PipeInv, RecordInv
  <1>8. \A i \in 1..Len(verdicts[job]) : verdicts[job][i].attempt \in Nat /\ verdicts[job][i].attempt <= attempt[job]
    BY VerdictAttempts DEF SentinelInv, LeaseInv, JobLeaseInv
  <1>9. slot'[job] # a /\ \A i \in 1..Len(verdicts'[job]) : verdicts'[job][i].attempt # a
    BY <1>0, <1>2, <1>7, <1>8, SMTT(30) DEF recordVars, ledgerVars
  <1>10. ReportInv(w)' /\ SlotInv(w)'
    BY <1>5, <1>6, <1>9 DEF ReportInv, SlotInv, Reporting, Holding, At, Attempt
  <1>11. \A v \in Workers \ {w} : ReportInv(v)' /\ SlotInv(v)'
    BY <1>0, <1>6, ReportFrame, SlotFrame DEF PipeInv
  <1>12. QED
    BY <1>1, <1>10, <1>11 DEF PipeInv

(* EnsureExecution, and a Create of L5-a without an answer: on within the attempt. *)
LEMMA StagesWork ==
  ASSUME SentinelInv, NEW w \in Workers, Ensure(w) \/ LoseL5a(w)
  PROVE  Works(w)
  <1>0. proc[w] \in Process /\ proc \in [Workers -> Process]
    BY DEF SentinelInv
  <1>1. CASE Ensure(w)
    <2>1. PICK at \in {"dryrun", "seek", "adopt"} : proc' = [proc EXCEPT ![w].execution = execution'[job], ![w].at = at]
      BY <1>1 DEF Ensure
    <2>2. proc'[w] = [proc[w] EXCEPT !.execution = execution'[job], !.at = at] /\ \A v \in Workers \ {w} : proc'[v] = proc[v]
      BY <1>0, <2>1
    <2>3. proc'[w].at = at /\ proc'[w].attempt = proc[w].attempt
      BY <1>0, <2>2 DEF Process
    <2>4. At(w) \notin Resting \cup Reporting /\ at \notin Resting \cup Reporting
      BY <1>1, <2>1 DEF Ensure, Resting, Reporting, Holding
    <2>5. QED
      BY <2>2, <2>3, <2>4 DEF Works, Attempt
  <1>2. CASE LoseL5a(w)
    <2>1. At(w) \notin Resting \cup Reporting /\ "reconcile" \notin Resting \cup Reporting
      BY <1>2 DEF LoseL5a, Resting, Reporting, Holding
    <2>2. CASE proc' = [proc EXCEPT ![w].at = "reconcile", ![w].tries = Reconciles]
      <3>1. proc'[w] = [proc[w] EXCEPT !.at = "reconcile", !.tries = Reconciles] /\ \A v \in Workers \ {w} : proc'[v] = proc[v]
        BY <1>0, <2>2
      <3>2. proc'[w].at = "reconcile" /\ proc'[w].attempt = proc[w].attempt
        BY <1>0, <3>1 DEF Process
      <3>3. QED
        BY <2>1, <3>1, <3>2 DEF Works, Attempt
    <2>3. CASE proc' = [proc EXCEPT ![w].tries = @ - 1]
      <3>1. proc'[w] = [proc[w] EXCEPT !.tries = proc[w].tries - 1] /\ \A v \in Workers \ {w} : proc'[v] = proc[v]
        BY <1>0, <2>3
      <3>2. proc'[w].at = proc[w].at /\ proc'[w].attempt = proc[w].attempt
        BY <1>0, <3>1 DEF Process
      <3>3. QED
        BY <2>1, <3>1, <3>2 DEF Works, At, Attempt
    <2>4. QED
      BY <1>2, <2>2, <2>3 DEF LoseL5a
  <1>3. QED
    BY <1>1, <1>2

(* Every step preserves the invariant. *)
LEMMA PipeStep == SentinelInv /\ PipeTypes /\ PipeInv /\ [SentinelNext]_vars => PipeInv'
  <1> SUFFICES ASSUME SentinelInv, PipeTypes, PipeInv, [SentinelNext]_vars PROVE PipeInv'
    OBVIOUS
  <1>s. LeaseInv' /\ Grows /\ Ledger!LedgerTypeOK /\ proc \in [Workers -> Process]
    BY SentinelStep, StoreGrows DEF SentinelInv, Used, PipeTypes
  <1>w. ASSUME NEW w \in Workers, Works(w), UNCHANGED <<setting, verdicts, recordVars>> PROVE PipeInv'
    BY <1>s, <1>w, WorksInv
  <1>x. ASSUME UNCHANGED <<proc, setting, verdicts, recordVars>> PROVE PipeInv'
    <2>1. RecordInv' /\ Spaced'
      BY <1>s, <1>x, RecordFrame DEF PipeInv
    <2>2. \A v \in Workers : ReportInv(v)' /\ SlotInv(v)'
      BY <1>x, ReportFrame, SlotFrame DEF PipeInv
    <2>3. QED
      BY <2>1, <2>2 DEF PipeInv
  <1>v. ASSUME NEW w
        PROVE  /\ UNCHANGED storeVars => UNCHANGED verdicts
               /\ Release(w) => UNCHANGED verdicts
               /\ EnsureExecution(job) => UNCHANGED verdicts
               /\ LeaseJob(job, w) => UNCHANGED verdicts
    BY CallsWithoutVerdict
  <1>1. CASE Enqueue \/ Tick
    <2>1. UNCHANGED <<proc, setting, verdicts, recordVars>>
      BY <1>1 DEF Enqueue, Tick, CreateJob, StoreTick
    <2>2. QED
      BY <1>x, <2>1
  <1>2. CASE Cluster \/ UNCHANGED vars
    <2>1. UNCHANGED <<proc, setting, storeVars, recordVars>>
      BY <1>2 DEF Cluster, vars
    <2>2. QED
      BY <1>x, <1>v, <2>1
  <1>3. ASSUME NEW w \in Workers, Working(w) PROVE PipeInv'
    BY <1>s, <1>w, <1>3, WorkingTurns, TurnWorks
  <1>4. ASSUME NEW w \in Workers, Start(w) \/ Crash(w) \/ SettleLost(w) PROVE PipeInv'
    <2>1. UNCHANGED <<setting, verdicts, recordVars>>
      BY <1>4, <1>v DEF Start, Crash, SettleLost
    <2>2. Works(w)
      BY <1>4, <1>s, Rested DEF Start, Crash, SettleLost, Leave
    <2>3. QED
      BY <1>w, <2>1, <2>2
  <1>5. ASSUME NEW w \in Workers, Stop(w) \/ LegacyAttempt(w) PROVE PipeInv'
    <2>1. UNCHANGED <<setting, verdicts, recordVars>>
      BY <1>5, <1>v DEF Stop, LegacyAttempt
    <2>2. Works(w)
      BY <1>5, <1>s, Rested DEF Stop, LegacyAttempt
    <2>3. QED
      BY <1>w, <2>1, <2>2
  <1>6. ASSUME NEW w \in Workers, LeaseUnread(w) PROVE PipeInv'
    BY <1>6, <1>x, <1>v DEF LeaseUnread
  <1>7. ASSUME NEW w \in Workers, Ensure(w) \/ LoseL5a(w) PROVE PipeInv'
    <2>1. UNCHANGED <<setting, verdicts, recordVars>>
      BY <1>7, <1>v DEF Ensure, LoseL5a
    <2>2. QED
      BY <1>7, <1>w, <2>1, StagesWork
  <1>8. ASSUME NEW w \in Workers, CheckLease(w) \/ Claim(w) \/ Post(w) \/ Mark(w) PROVE PipeInv'
    BY <1>8, <1>s, CheckLeaseInv, ClaimInv, PostInv, MarkInv
  <1>9. ASSUME NEW w \in Workers, Settle(w) \/ Lease(w) PROVE PipeInv'
    BY <1>9, <1>s, SettleInv, LeaseTells
  <1>10. QED
    <2>1. ASSUME NEW w \in Workers, Step(w) PROVE PipeInv'
      BY <2>1, <1>3, <1>4, <1>5, <1>6, <1>7, <1>8, <1>9 DEF Step, Working
    <2>2. QED
      BY <2>1, <1>1, <1>2, <1>3, <1>4, <1>5 DEF SentinelNext, Working

(* Nothing is told before a worker starts. *)
LEMMA PipeStart == SentinelInit => PipeInv
  <1> SUFFICES ASSUME SentinelInit PROVE PipeInv
    OBVIOUS
  <1> USE JobIsAJob
  <1>1. /\ slot[job] = 0 /\ attempt[job] = 0 /\ delivery[job] = "not_applicable" /\ letter = {} /\ vault = {}
        /\ verdicts[job] = << >> /\ status[job] = "none"
    BY DEF SentinelInit, StoreInit, Ledger!LedgerInit
  <1>2. Spaced /\ RecordInv
    BY <1>1, SMTT(30) DEF Spaced, RecordInv, Final
  <1>3. ASSUME NEW w \in Workers PROVE ReportInv(w) /\ SlotInv(w)
    <2>1. At(w) = "off"
      BY DEF SentinelInit, At, Rest
    <2>2. QED
      BY <2>1 DEF ReportInv, SlotInv, Reporting, Holding, Resting
  <1>4. QED
    BY <1>2, <1>3 DEF PipeInv

(* What holds of every reachable state of the pipeline. *)
LEMMA PipeHolds == SentinelSpec => [](SentinelInv /\ PipeTypes /\ PipeInv)
  <1>1. SentinelInit => SentinelInv /\ PipeTypes /\ PipeInv
    BY SentinelStart, TypesStart, PipeStart
  <1>2. SentinelInv /\ PipeTypes /\ PipeInv /\ [SentinelNext]_vars => (SentinelInv /\ PipeTypes /\ PipeInv)'
    BY SentinelStep, TypesStep, PipeStep
  <1>3. QED
    BY <1>1, <1>2, PTL DEF SentinelSpec

(***************************************************************************)
(* For every environment in which the store answers, every fleet and every *)
(* sequence of crashes, lost leases, retries and failed deliveries: at     *)
(* most one terminal record of the job is ever in NodeVault or the ledger. *)
(***************************************************************************)
THEOREM OneRecordTold == SentinelSpec => []OneTerminalRecord
  <1>1. PipeInv => OneTerminalRecord
    BY DEF PipeInv, RecordInv, StoreAnswers, OneTerminalRecord
  <1>2. QED
    BY <1>1, PipeHolds, PTL

(***************************************************************************)
(* And a job each of whose attempts got its verdict is told as it ended,   *)
(* by the last attempt, whenever the store answers or NodeVault takes what *)
(* it is sent.                                                             *)
(***************************************************************************)
THEOREM ToldAsItEnded == SentinelSpec => []ReportedAsFinished
  <1>1. PipeInv => ReportedAsFinished
    BY DEF PipeInv, RecordInv, RecordKept, StoreAnswers, ToldAsFinished, ReportedAsFinished
  <1>2. QED
    BY <1>1, PipeHolds, PTL

----------------------------------------------------------------------------
(***************************************************************************)
(* The record that belongs to the slot is told, kept, or in the hands of   *)
(* the attempt that took it; and so is one before any final verdict.       *)
(***************************************************************************)
Alive == \A w \in Workers : At(w) # "dead"

InHand ==
  \/ vault \cup letter # {}
  \/ \E w \in Workers : Attempt(w) = slot[job] /\ At(w) \in Holding

HandInv ==
  RecordKept /\ Alive =>
    /\ slot[job] # 0 => InHand
    /\ \A i \in 1..Len(verdicts[job]) : verdicts[job][i].kind \in Final => InHand

\* The worker v has nothing in hand, keeps it, or dies.
Aside(v) == proc'[v] = proc[v] \/ At(v) \notin Holding \cup {"dead"} \/ proc'[v].at = "dead"

(* A step at which every worker stands aside loses nothing. *)
LEMMA HandKept ==
  ASSUME \A v \in Workers : Aside(v), UNCHANGED <<setting, recordVars>>, Alive'
  PROVE  Alive /\ (RecordKept' <=> RecordKept) /\ slot' = slot /\ (InHand => InHand')
  <1>0. /\ slot' = slot /\ vault' = vault /\ letter' = letter /\ env' = env
    BY DEF recordVars, ledgerVars, setting
  <1>1. ASSUME NEW v \in Workers PROVE At(v) # "dead" /\ (At(v) \in Holding => proc'[v] = proc[v])
    BY DEF Aside, Alive, At
  <1>2. Alive /\ (RecordKept' <=> RecordKept)
    BY <1>0, <1>1 DEF Alive, RecordKept, StoreAnswers
  <1>3. InHand => InHand'
    BY <1>0, <1>1 DEF InHand, At, Attempt
  <1>4. QED
    BY <1>0, <1>2, <1>3

(* And keeps the invariant, unless it writes a verdict. *)
LEMMA HandFrame ==
  ASSUME HandInv, \A v \in Workers : Aside(v), UNCHANGED <<setting, verdicts, recordVars>>
  PROVE  HandInv'
  BY HandKept DEF HandInv

(* One worker stands aside, the others take no step. *)
LEMMA OneAside ==
  ASSUME HandInv, UNCHANGED <<setting, verdicts, recordVars>>, NEW w \in Workers,
         \A v \in Workers \ {w} : proc'[v] = proc[v], Aside(w)
  PROVE  HandInv'
  <1>1. \A v \in Workers : Aside(v)
    BY DEF Aside
  <1>2. QED
    BY <1>1, HandFrame

(* claimTerminal: the worker that gets the slot has the record in hand. *)
LEMMA ClaimHand ==
  ASSUME SentinelInv, Ledger!LedgerTypeOK, HandInv, PipeInv, NEW w \in Workers, Claim(w)
  PROVE  HandInv'
  <1>0. /\ proc \in [Workers -> Process] /\ At(w) = "claim" /\ UNCHANGED <<setting, vault, letter>>
        /\ UNCHANGED verdicts
    BY DEF SentinelInv, Claim, storeVars, leaseVars
  <1>1. CASE Ledger!ClaimTerminal(job, Attempt(w)) /\ Move(w, "post")
    <2>1. slot'[job] = Attempt(w)
      BY <1>1, JobIsAJob DEF Ledger!ClaimTerminal, Ledger!LedgerTypeOK
    <2>2. At(w)' = "post" /\ Attempt(w)' = Attempt(w)
      BY <1>0, <1>1, MovedTells
    <2>3. InHand'
      BY <2>1, <2>2 DEF InHand, Holding
    <2>4. QED
      BY <2>3 DEF HandInv
  <1>2. ASSUME NEW at, Move(w, at), UNCHANGED ledgerVars PROVE HandInv'
    <2>1. UNCHANGED recordVars /\ \A v \in Workers \ {w} : proc'[v] = proc[v]
      BY <1>0, <1>2, MovedTells DEF recordVars
    <2>2. Aside(w)
      BY <1>0 DEF Aside, Holding
    <2>3. QED
      BY <1>0, <2>1, <2>2, OneAside
  <1>3. QED
    BY <1>1, <1>2 DEF Claim, AfterReport

(* The POST: the record is told, or still in hand. *)
LEMMA PostHand ==
  ASSUME SentinelInv, HandInv, PipeInv, NEW w \in Workers, Post(w)
  PROVE  HandInv'
  <1>0. /\ proc \in [Workers -> Process] /\ At(w) = "post" /\ UNCHANGED <<setting, letter, slot, verdicts>>
    BY DEF SentinelInv, Post, storeVars, leaseVars, ledgerVars
  <1>1. CASE vault' = vault \cup {Record(w)}
    BY <1>1 DEF HandInv, InHand
  <1>2. ASSUME vault' = vault, NEW at \in {"mark", "bury"}, Move(w, at) PROVE HandInv'
    <2>1. At(w)' = at /\ Attempt(w)' = Attempt(w) /\ \A v \in Workers \ {w} : proc'[v] = proc[v]
      BY <1>0, <1>2, MovedTells
    <2>2. InHand => InHand'
      <3>1. ASSUME NEW v \in Workers, Attempt(v) = slot[job], At(v) \in Holding
            PROVE  Attempt(v)' = slot'[job] /\ At(v)' \in Holding
        <4>1. CASE v = w
          BY <1>0, <1>2, <2>1, <3>1, <4>1 DEF Holding
        <4>2. CASE v # w
          BY <1>0, <2>1, <3>1, <4>2 DEF At, Attempt
        <4>3. QED
          BY <4>1, <4>2
      <3>2. QED
        BY <1>0, <1>2, <3>1 DEF InHand
    <2>3. Alive' => Alive
      <3>1. ASSUME NEW v \in Workers, At(v) = "dead" PROVE At(v)' = "dead"
        BY <1>0, <2>1, <3>1 DEF At
      <3>2. QED
        BY <3>1 DEF Alive
    <2>4. (RecordKept' <=> RecordKept) /\ slot' = slot /\ verdicts' = verdicts
      BY <1>0 DEF setting, RecordKept, StoreAnswers
    <2>5. QED
      BY <2>2, <2>3, <2>4 DEF HandInv
  <1>3. QED
    BY <1>1, <1>2 DEF Post

(* markFirstDeliveryFailure: the ledger has the record, unless the store fails with NodeVault. *)
LEMMA MarkHand ==
  ASSUME SentinelInv, PipeInv, NEW w \in Workers, Mark(w)
  PROVE  HandInv'
  <1>1. At(w) \in {"mark", "bury"} /\ env' = env /\ SlotInv(w)
    BY DEF Mark, setting, PipeInv
  <1>2. CASE letter' = {Record(w)}
    BY <1>2 DEF HandInv, InHand
  <1>3. CASE "store" \in env.faults \/ ~Ledger!FirstDeliveryFence(job, Attempt(w))
    <2>1. At(w) \in Holding
      BY <1>1 DEF Holding
    <2>2. ~StoreAnswers /\ env.faults \cap {"vault", "refuse"} # {}
      BY <1>1, <1>3, <2>1 DEF SlotInv, StoreAnswers, Ledger!FirstDeliveryFence
    <2>3. ~RecordKept'
      BY <1>1, <2>2 DEF RecordKept, StoreAnswers
    <2>4. QED
      BY <2>3 DEF HandInv
  <1>4. QED
    BY <1>2, <1>3 DEF Mark

(* A final verdict follows a terminal report, whose record is told or whose slot is another's. *)
LEMMA SettleHand ==
  ASSUME SentinelInv, HandInv, PipeInv, NEW w \in Workers, Settle(w)
  PROVE  HandInv'
  <1> USE JobIsAJob
  <1> DEFINE v == verdicts[job]
             kind == Report(w).verdict
  <1>0. /\ proc \in [Workers -> Process] /\ At(w) = "verdict" /\ UNCHANGED <<setting, recordVars>> /\ Leave(w)
        /\ Conclude(job, Attempt(w), kind)
    BY DEF SentinelInv, Settle, CompleteJob, FailJobForGood, FailJobRetryable
  <1>1. ReportInv(w) /\ SlotInv(w) /\ StoreTypeOK /\ v \in Seq(Verdict) /\ Len(v) \in Nat
    BY VerdictAttempts DEF PipeInv, SentinelInv, LeaseInv
  <1>2. verdicts'[job] = Append(v, [attempt |-> Attempt(w), kind |-> kind])
    BY <1>0, <1>1 DEF Conclude, StoreTypeOK
  <1>3. ASSUME NEW i \in 1..Len(verdicts'[job])
        PROVE  (i \in 1..Len(v) /\ verdicts'[job][i].kind = v[i].kind) \/ verdicts'[job][i].kind = kind
    BY <1>1, <1>2, SMTT(30)
  <1>4. \A x \in Workers : Aside(x)
    BY <1>0 DEF Aside, Leave, Holding
  <1>5. SUFFICES ASSUME RecordKept', Alive'
                 PROVE  /\ slot'[job] # 0 => InHand'
                        /\ \A i \in 1..Len(verdicts'[job]) : verdicts'[job][i].kind \in Final => InHand'
    BY DEF HandInv
  <1>6. /\ Alive /\ RecordKept /\ slot' = slot /\ (InHand => InHand')
    BY <1>0, <1>4, <1>5, HandKept
  <1>7. slot[job] # 0 => InHand
    BY <1>6 DEF HandInv
  <1>8. \A i \in 1..Len(v) : v[i].kind \in Final => InHand
    BY <1>6 DEF HandInv
  <1>9. kind \in Final => InHand
    <2>1. kind \in Final => Report(w).terminal
      BY <1>0, <1>1 DEF ReportInv, Final
    <2>2. Report(w).terminal => Record(w) \in vault \cup letter \/ slot[job] # 0
      BY <1>0, <1>1, <1>6 DEF SlotInv
    <2>3. QED
      BY <1>7, <2>1, <2>2 DEF InHand
  <1>10. QED
    BY <1>3, <1>6, <1>7, <1>8, <1>9

(* Every step preserves it. *)
LEMMA HandStep == SentinelInv /\ PipeTypes /\ PipeInv /\ HandInv /\ [SentinelNext]_vars => HandInv'
  <1> SUFFICES ASSUME SentinelInv, PipeTypes, PipeInv, HandInv, [SentinelNext]_vars PROVE HandInv'
    OBVIOUS
  <1>0. proc \in [Workers -> Process] /\ Ledger!LedgerTypeOK
    BY DEF SentinelInv, PipeTypes
  <1>x. ASSUME UNCHANGED <<proc, setting, verdicts, recordVars>> PROVE HandInv'
    BY <1>x, HandFrame DEF Aside
  <1>w. ASSUME NEW w \in Workers, Works(w), At(w) \notin Holding \cup {"dead"}, UNCHANGED <<setting, verdicts, recordVars>>
        PROVE  HandInv'
    BY <1>w, OneAside DEF Works, Aside
  <1>v. ASSUME NEW w
        PROVE  /\ UNCHANGED storeVars => UNCHANGED verdicts
               /\ Release(w) => UNCHANGED verdicts
               /\ Heartbeat(job, w, Attempt(w)) => UNCHANGED verdicts
               /\ EnsureExecution(job) => UNCHANGED verdicts
               /\ LeaseJob(job, w) => UNCHANGED verdicts
    BY CallsWithoutVerdict
  <1>1. CASE Enqueue \/ Tick
    BY <1>1, <1>x DEF Enqueue, Tick, CreateJob, StoreTick
  <1>2. CASE Cluster \/ UNCHANGED vars
    BY <1>2, <1>x, <1>v DEF Cluster, vars
  <1>3. ASSUME NEW w \in Workers, Working(w) PROVE HandInv'
    <2>1. UNCHANGED <<setting, verdicts, recordVars>> /\ Turn(w) /\ Works(w)
      BY <1>0, <1>3, WorkingTurns, TurnWorks
    <2>2. At(w) \notin Holding \cup {"dead"}
      BY <2>1 DEF Turn, Resting, Reporting
    <2>3. QED
      BY <1>w, <2>1, <2>2
  <1>4. ASSUME NEW w \in Workers, Start(w) \/ SettleLost(w) \/ Stop(w) \/ LegacyAttempt(w) PROVE HandInv'
    <2>1. UNCHANGED <<setting, verdicts, recordVars>>
      BY <1>4, <1>v DEF Start, SettleLost, Stop, LegacyAttempt
    <2>2. Works(w)
      BY <1>4, <1>0, Rested DEF Start, SettleLost, Leave, Stop, LegacyAttempt
    <2>3. At(w) \notin Holding \cup {"dead"}
      BY <1>4 DEF Start, SettleLost, Stop, LegacyAttempt, Holding
    <2>4. QED
      BY <1>w, <2>1, <2>2, <2>3
  <1>5. ASSUME NEW w \in Workers, Crash(w) PROVE HandInv'
    <2>1. UNCHANGED <<setting, verdicts, recordVars>> /\ proc' = [proc EXCEPT ![w] = Rest("dead")]
      BY <1>5, <1>v DEF Crash
    <2>2. proc'[w].at = "dead" /\ \A v \in Workers \ {w} : proc'[v] = proc[v]
      BY <1>0, <2>1 DEF Rest
    <2>3. QED
      BY <2>1, <2>2, OneAside DEF Aside
  <1>6. ASSUME NEW w \in Workers, LeaseUnread(w) PROVE HandInv'
    BY <1>6, <1>x, <1>v DEF LeaseUnread
  <1>7. ASSUME NEW w \in Workers, Ensure(w) \/ LoseL5a(w) PROVE HandInv'
    <2>1. UNCHANGED <<setting, verdicts, recordVars>>
      BY <1>7, <1>v DEF Ensure, LoseL5a
    <2>2. At(w) \notin Holding \cup {"dead"}
      BY <1>7 DEF Ensure, LoseL5a, Holding
    <2>3. QED
      BY <1>7, <1>w, <2>1, <2>2, StagesWork
  <1>8. ASSUME NEW w \in Workers, CheckLease(w) \/ Lease(w) PROVE HandInv'
    <2>1. UNCHANGED <<setting, verdicts, recordVars>>
      BY <1>8, <1>v DEF CheckLease, StillLeased, Lease
    <2>2. At(w) \notin Holding \cup {"dead"}
      BY <1>8 DEF CheckLease, Lease, Holding
    <2>3. \A v \in Workers \ {w} : proc'[v] = proc[v]
      BY <1>0, <1>8 DEF CheckLease, StillLeased, AfterReport, Move, Leave, Lease
    <2>4. QED
      BY <2>1, <2>2, <2>3, OneAside DEF Aside
  <1>9. ASSUME NEW w \in Workers, Claim(w) \/ Post(w) \/ Mark(w) \/ Settle(w) PROVE HandInv'
    BY <1>0, <1>9, ClaimHand, PostHand, MarkHand, SettleHand
  <1>10. QED
    <2>1. ASSUME NEW w \in Workers, Step(w) PROVE HandInv'
      BY <2>1, <1>3, <1>4, <1>6, <1>7, <1>8, <1>9 DEF Step, Working
    <2>2. QED
      BY <2>1, <1>1, <1>2, <1>3, <1>4, <1>5 DEF SentinelNext, Working

(***************************************************************************)
(* As long as no process has died, a finished job has a record, or the     *)
(* attempt that took the slot is about to send it, for any number of       *)
(* processes that overtake each other any number of times.                 *)
(***************************************************************************)
THEOREM SlotNotWasted == SentinelSpec => []SlotIsUsed
  <1> USE JobIsAJob
  <1>1. SentinelInit => HandInv
    <2> SUFFICES ASSUME SentinelInit PROVE HandInv
      OBVIOUS
    <2>1. slot[job] = 0 /\ verdicts[job] = << >>
      BY DEF SentinelInit, StoreInit, Ledger!LedgerInit
    <2>2. QED
      BY <2>1, SMTT(30) DEF HandInv
  <1>2. SentinelInv /\ HandInv => SlotIsUsed
    <2> SUFFICES ASSUME SentinelInv, HandInv, RecordKept, status[job] \in Final, Alive
                 PROVE  InHand
      BY DEF SlotIsUsed, RecordKept, StoreAnswers, Alive, InHand, Holding
    <2>1. JobLeaseInv(job) /\ StoreTypeOK /\ Len(verdicts[job]) \in Nat
      BY VerdictAttempts DEF SentinelInv, LeaseInv
    <2>2. Len(verdicts[job]) > 0 /\ verdicts[job][Len(verdicts[job])].kind = status[job]
      BY <2>1 DEF JobLeaseInv
    <2>3. Len(verdicts[job]) \in 1..Len(verdicts[job])
      BY <2>1, <2>2, SMTT(30)
    <2>4. QED
      BY <2>2, <2>3 DEF HandInv
  <1>3. QED
    BY <1>1, <1>2, HandStep, PipeHolds, PTL DEF SentinelSpec
=============================================================================
