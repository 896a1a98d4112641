--------------------------- MODULE LedgerProofs ----------------------------
(***************************************************************************)
(* Proofs about the delivery ledger for every set of jobs and attempts,    *)
(* every claim duration and batch size, and any order of calls: one        *)
(* outcome per claim, the slot owner's payload, and the documented edges.  *)
(* Then about the delivery loops over it, for every number of loops, jobs  *)
(* and faults, every concurrency and backoff: the ledger tells the truth   *)
(* about NodeVault, and a row has one claimant.                            *)
(***************************************************************************)
EXTENDS LedgerCalls, Redelivery, FiniteSetTheorems, TLAPS

USE ZenonT(30)

CallHistoryOK ==
  /\ minted \in [Jobs -> Nat]
  /\ outcomes \in [Jobs -> Seq(Outcome)]

(***************************************************************************)
(* The inductive invariant.  A row has a token exactly while it is being   *)
(* delivered, and that is the newest one drawn; every outcome accepted so  *)
(* far carries an older one.                                               *)
(***************************************************************************)
RowInv(j) ==
  LET o == outcomes[j] IN
    /\ delivery[j] = "delivering" => token[j] = minted[j] /\ token[j] # 0
    /\ delivery[j] # "delivering" => token[j] = 0
    /\ \A i \in 1..Len(o) : o[i].token <= minted[j]
    /\ delivery[j] = "delivering" => \A i \in 1..Len(o) : o[i].token < token[j]
    /\ \A i, k \in 1..Len(o) : i < k => o[i].token < o[k].token
    /\ \A i \in 1..Len(o) : o[i].kind \in Resolved => i = Len(o) /\ delivery[j] = o[i].kind

PayloadInv(j) ==
  /\ delivery[j] # "not_applicable" => slot[j] # NoAttempt
  /\ delivery[j] \in {"pending", "delivering", "dead_letter"} => payload[j] = slot[j]
  /\ delivery[j] \in {"not_applicable", "acknowledged"} => payload[j] = NoAttempt

LedgerInv ==
  /\ LedgerTypeOK
  /\ CallHistoryOK
  /\ \A j \in Jobs : RowInv(j) /\ PayloadInv(j)

(* Nothing has been claimed or delivered. *)
LEMMA LedgerInvInit == CallsInit => LedgerInv
  BY LedgerConstants, SMTT(30) DEF CallsInit, LedgerInit, LedgerInv, LedgerTypeOK, CallHistoryOK, DeliveryStatus, RowInv,
     PayloadInv, Resolved

(* updated_at orders jobs, whichever rows are written. *)
LEMMA UpdatedType ==
  ASSUME LedgerTypeOK, NEW S \in SUBSET Jobs, Updated(S)
  PROVE  before' \subseteq Jobs \X Jobs
  BY DEF LedgerTypeOK, Updated

(* A row whose delivery columns and histories stay what they are. *)
LEMMA RowFrame ==
  ASSUME NEW j \in Jobs, RowInv(j), delivery'[j] = delivery[j], token'[j] = token[j],
         minted'[j] = minted[j], outcomes'[j] = outcomes[j]
  PROVE  RowInv(j)'
  BY DEF RowInv

(* A row whose slot, status and payload stay what they are. *)
LEMMA PayloadFrame ==
  ASSUME NEW j \in Jobs, PayloadInv(j), delivery'[j] = delivery[j], slot'[j] = slot[j], payload'[j] = payload[j]
  PROVE  PayloadInv(j)'
  BY DEF PayloadInv

(* What an edge may do to the row of j: the documented graph, one row at a time. *)
EdgeKept(j) ==
  /\ delivery'[j] = delivery[j] \/ <<delivery[j], delivery'[j]>> \in Edges
  /\ slot[j] # NoAttempt => slot'[j] = slot[j]
  /\ token[j] # 0 /\ token'[j] # token[j] => claimIn[j] < 0 \/ delivery'[j] # "delivering"

Preserved == LedgerInv' /\ \A j \in Jobs : EdgeKept(j)

(* ClaimTerminal gives a slot to the first who asks. *)
LEMMA ClaimTerminalStep ==
  ASSUME LedgerInv, NEW j \in Jobs, NEW a \in Attempts, ClaimTerminal(j, a), UNCHANGED <<minted, outcomes>>
  PROVE  Preserved
  <1> USE DEF LedgerInv, ClaimTerminal
  <1>1. LedgerTypeOK' /\ CallHistoryOK'
    BY UpdatedType DEF LedgerTypeOK, CallHistoryOK
  <1>2. ASSUME NEW k \in Jobs PROVE RowInv(k)' /\ PayloadInv(k)' /\ EdgeKept(k)
    <2>1. RowInv(k)'
      BY RowFrame
    <2>2. PayloadInv(k)'
      BY LedgerConstants DEF PayloadInv, LedgerTypeOK, DeliveryStatus
    <2>3. EdgeKept(k)
      BY DEF EdgeKept, LedgerTypeOK
    <2>4. QED
      BY <2>1, <2>2, <2>3
  <1>3. QED
    BY <1>1, <1>2 DEF Preserved

(* The first delivery of the slot owner's record failed. *)
LEMMA FirstDeliveryStep ==
  ASSUME LedgerInv, NEW j \in Jobs, NEW a \in Attempts, UNCHANGED <<minted, outcomes>>,
         (\E wait \in 0..MaxBackoff : MarkFirstDeliveryPending(j, a, wait)) \/ MarkFirstDeliveryDeadLetter(j, a)
  PROVE  Preserved
  <1>1. PICK kind \in {"pending", "dead_letter"}, wait \in 0..MaxBackoff :
          /\ slot[j] = a /\ delivery[j] = "not_applicable"
          /\ delivery' = [delivery EXCEPT ![j] = kind]
          /\ payload' = [payload EXCEPT ![j] = a]
          /\ failed' = [failed EXCEPT ![j] = OneMore(@)]
          /\ dueIn' = [dueIn EXCEPT ![j] = wait]
          /\ Unclaim(j)
    <2>1. 0 \in 0..MaxBackoff
      BY LedgerConstants, SMTT(30)
    <2>2. CASE \E wait \in 0..MaxBackoff : MarkFirstDeliveryPending(j, a, wait)
      BY <2>2 DEF MarkFirstDeliveryPending, FirstDeliveryFence
    <2>3. CASE MarkFirstDeliveryDeadLetter(j, a)
      BY <2>1, <2>3 DEF MarkFirstDeliveryDeadLetter, FirstDeliveryFence
    <2>4. QED
      BY <2>2, <2>3
  <1> USE DEF LedgerInv
  <1>2. OneMore(failed[j]) \in Nat
    BY SMTT(30) DEF OneMore, LedgerTypeOK
  <1>3. LedgerTypeOK' /\ CallHistoryOK'
    <2>1. before' \subseteq Jobs \X Jobs
      BY <1>1, <1>2, UpdatedType DEF Unclaim
    <2>2. -1 \in -1..ClaimTTL /\ ClaimTTL \in -1..ClaimTTL
      BY LedgerConstants, SMTT(30)
    <2>3. claimIn' \in [Jobs -> -1..ClaimTTL] /\ token' \in [Jobs -> Nat]
          /\ slot' \in [Jobs -> Attempts \cup {NoAttempt}]
      BY <1>1, <1>2, <2>2 DEF Unclaim, LedgerTypeOK, CallHistoryOK
    <2>4. delivery' \in [Jobs -> DeliveryStatus] /\ payload' \in [Jobs -> Attempts \cup {NoAttempt}]
      BY <1>1, <1>2 DEF LedgerTypeOK, DeliveryStatus, Resolved
    <2>5. failed' \in [Jobs -> Nat] /\ dueIn' \in [Jobs -> 0..MaxBackoff]
      BY <1>1, <1>2 DEF LedgerTypeOK
    <2>6. QED
      BY <1>1, <1>2, <2>1, <2>3, <2>4, <2>5 DEF LedgerTypeOK, CallHistoryOK
  <1>4. /\ delivery'[j] = kind /\ payload'[j] = a /\ token'[j] = 0 /\ slot' = slot
        /\ \A k \in Jobs \ {j} : delivery'[k] = delivery[k] /\ payload'[k] = payload[k] /\ token'[k] = token[k]
    BY <1>1 DEF Unclaim, LedgerTypeOK
  <1>5. ASSUME NEW k \in Jobs PROVE RowInv(k)' /\ PayloadInv(k)' /\ EdgeKept(k)
    <2>1. CASE k # j
      BY <1>4, <2>1, RowFrame, PayloadFrame DEF EdgeKept
    <2>2. CASE k = j
      <3>1. RowInv(j)'
        BY <1>1, <1>4, SMTT(30) DEF RowInv, Resolved
      <3>2. PayloadInv(j)' /\ EdgeKept(j)
        BY <1>1, <1>4, LedgerConstants DEF PayloadInv, EdgeKept, Edges, RowInv
      <3>3. QED
        BY <2>2, <3>1, <3>2
    <2>3. QED
      BY <2>1, <2>2
  <1>6. QED
    BY <1>3, <1>5 DEF Preserved

(* A pass claims rows that are due, or whose claim has expired, under the newest tokens. *)
LEMMA ClaimStep ==
  ASSUME LedgerInv, NEW B \in SUBSET Jobs, ClaimCall(B)
  PROVE  Preserved
  <1> USE DEF LedgerInv
  <1>1. /\ minted' = [k \in Jobs |-> IF k \in B THEN minted[k] + 1 ELSE minted[k]]
        /\ delivery' = [k \in Jobs |-> IF k \in B THEN "delivering" ELSE delivery[k]]
        /\ claimIn' = [k \in Jobs |-> IF k \in B THEN ClaimTTL ELSE claimIn[k]]
        /\ token' = [k \in Jobs |-> IF k \in B THEN minted'[k] ELSE token[k]]
        /\ Updated(B) /\ UNCHANGED <<slot, payload, failed, dueIn, outcomes>>
        /\ B \subseteq Claimable
    BY DEF ClaimCall, ClaimPendingDeliveries, IsBatch
  <1>2. LedgerTypeOK' /\ CallHistoryOK'
    <2>1. before' \subseteq Jobs \X Jobs
      BY <1>1, UpdatedType DEF Unclaim
    <2>2. -1 \in -1..ClaimTTL /\ ClaimTTL \in -1..ClaimTTL
      BY LedgerConstants, SMTT(30)
    <2>3. claimIn' \in [Jobs -> -1..ClaimTTL] /\ token' \in [Jobs -> Nat]
          /\ slot' \in [Jobs -> Attempts \cup {NoAttempt}]
      BY <1>1, <2>2, SMTT(30) DEF Unclaim, LedgerTypeOK, CallHistoryOK
    <2>4. delivery' \in [Jobs -> DeliveryStatus] /\ payload' \in [Jobs -> Attempts \cup {NoAttempt}]
      BY <1>1 DEF LedgerTypeOK, DeliveryStatus, Resolved
    <2>5. failed' \in [Jobs -> Nat] /\ dueIn' \in [Jobs -> 0..MaxBackoff]
      BY <1>1 DEF LedgerTypeOK
    <2>6. QED
      BY <1>1, <2>1, <2>3, <2>4, <2>5 DEF LedgerTypeOK, CallHistoryOK
  <1>3. ASSUME NEW k \in Jobs PROVE RowInv(k)' /\ PayloadInv(k)' /\ EdgeKept(k)
    <2>1. CASE k \notin B
      <3>1. delivery'[k] = delivery[k] /\ token'[k] = token[k] /\ minted'[k] = minted[k]
        BY <1>1, <2>1
      <3>2. QED
        BY <1>1, <3>1, RowFrame, PayloadFrame DEF EdgeKept
    <2>2. CASE k \in B
      <3>1. /\ delivery'[k] = "delivering" /\ token'[k] = minted[k] + 1 /\ minted'[k] = minted[k] + 1
            /\ delivery[k] = "pending" \/ (delivery[k] = "delivering" /\ claimIn[k] < 0)
        BY <1>1, <2>2 DEF Claimable
      <3>2. minted[k] \in Nat /\ Len(outcomes[k]) \in Nat /\ \A i \in 1..Len(outcomes[k]) : outcomes[k][i] \in Outcome
        BY SMTT(30) DEF CallHistoryOK
      <3>3. \A i \in 1..Len(outcomes[k]) : outcomes[k][i].kind \notin Resolved /\ outcomes[k][i].token \in Nat
        BY <3>1, <3>2 DEF RowInv, Outcome, Resolved
      <3>4. RowInv(k)'
        BY <1>1, <3>1, <3>2, <3>3, SMTT(30) DEF RowInv
      <3>5. PayloadInv(k)' /\ EdgeKept(k)
        BY <1>1, <3>1 DEF PayloadInv, EdgeKept, Edges, RowInv
      <3>6. QED
        BY <3>4, <3>5
    <2>3. QED
      BY <2>1, <2>2
  <1>4. QED
    BY <1>2, <1>3 DEF Preserved

(* The outcome of a delivery is accepted from the holder of the row's token. *)
LEMMA OutcomeStep ==
  ASSUME LedgerInv, NEW j \in Jobs, NEW t \in 1..minted[j], OutcomeCall(j, t)
  PROVE  Preserved
  <1> USE DEF LedgerInv
  <1>1. PICK kind \in {"pending"} \cup Resolved, wait \in 0..MaxBackoff, p \in {payload[j], NoAttempt},
             n \in {failed[j], OneMore(failed[j])} :
          /\ delivery[j] = "delivering" /\ token[j] = t
          /\ delivery' = [delivery EXCEPT ![j] = kind]
          /\ payload' = [payload EXCEPT ![j] = p]
          /\ p = IF kind = "acknowledged" THEN NoAttempt ELSE payload[j]
          /\ failed' = [failed EXCEPT ![j] = n]
          /\ dueIn' = [dueIn EXCEPT ![j] = wait]
          /\ Unclaim(j)
          /\ outcomes' = [outcomes EXCEPT ![j] = Append(@, [token |-> t, kind |-> kind])]
          /\ UNCHANGED minted
    <2>1. PICK kind \in {"pending"} \cup Resolved :
            /\ CASE kind = "pending"      -> \E wait \in 0..MaxBackoff : MarkResultDeliveryPending(j, t, wait)
                 [] kind = "acknowledged" -> MarkResultDeliveryAcknowledged(j, t)
                 [] kind = "dead_letter"  -> MarkResultDeliveryDeadLetter(j, t)
            /\ outcomes' = [outcomes EXCEPT ![j] = Append(@, [token |-> t, kind |-> kind])]
            /\ UNCHANGED minted
      BY DEF OutcomeCall
    <2>2. 0 \in 0..MaxBackoff /\ payload = [payload EXCEPT ![j] = payload[j]]
          /\ failed = [failed EXCEPT ![j] = failed[j]]
      BY LedgerConstants, SMTT(30) DEF LedgerTypeOK
    <2>3. CASE kind = "pending"
      <3>1. PICK wait \in 0..MaxBackoff : MarkResultDeliveryPending(j, t, wait)
        BY <2>1, <2>3
      <3>2. QED
        BY <2>1, <2>2, <2>3, <3>1 DEF MarkResultDeliveryPending, RedeliveryFence
    <2>4. CASE kind = "acknowledged"
      <3>1. MarkResultDeliveryAcknowledged(j, t)
        BY <2>1, <2>4
      <3>2. QED
        BY <2>1, <2>2, <2>4, <3>1 DEF MarkResultDeliveryAcknowledged, RedeliveryFence
    <2>5. CASE kind = "dead_letter"
      <3>1. MarkResultDeliveryDeadLetter(j, t)
        BY <2>1, <2>5
      <3>2. QED
        BY <2>1, <2>2, <2>5, <3>1 DEF MarkResultDeliveryDeadLetter, RedeliveryFence
    <2>6. QED
      BY <2>3, <2>4, <2>5 DEF Resolved
  <1>2. /\ OneMore(failed[j]) \in Nat /\ failed[j] \in Nat /\ payload[j] \in Attempts \cup {NoAttempt}
        /\ t \in Nat /\ minted[j] \in Nat
    BY SMTT(30) DEF OneMore, LedgerTypeOK, CallHistoryOK
  <1>3. [token |-> t, kind |-> kind] \in Outcome
    BY <1>2 DEF Outcome
  <1>4. LedgerTypeOK' /\ CallHistoryOK'
    <2>1. outcomes' \in [Jobs -> Seq(Outcome)]
      BY <1>1, <1>3, SMTT(30) DEF CallHistoryOK
    <2>2. before' \subseteq Jobs \X Jobs
      BY <1>1, <1>2, UpdatedType DEF Unclaim
    <2>3. -1 \in -1..ClaimTTL /\ ClaimTTL \in -1..ClaimTTL
      BY LedgerConstants, SMTT(30)
    <2>4. claimIn' \in [Jobs -> -1..ClaimTTL] /\ token' \in [Jobs -> Nat]
          /\ slot' \in [Jobs -> Attempts \cup {NoAttempt}]
      BY <1>1, <1>2, <2>3 DEF Unclaim, LedgerTypeOK, CallHistoryOK
    <2>5. delivery' \in [Jobs -> DeliveryStatus] /\ payload' \in [Jobs -> Attempts \cup {NoAttempt}]
      BY <1>1, <1>2 DEF LedgerTypeOK, DeliveryStatus, Resolved
    <2>6. failed' \in [Jobs -> Nat] /\ dueIn' \in [Jobs -> 0..MaxBackoff]
      BY <1>1, <1>2 DEF LedgerTypeOK
    <2>7. QED
      BY <1>1, <1>2, <2>2, <2>4, <2>5, <2>6, <2>1 DEF LedgerTypeOK, CallHistoryOK
  <1>5. /\ delivery'[j] = kind /\ payload'[j] = p /\ token'[j] = 0 /\ slot' = slot
        /\ outcomes'[j] = Append(outcomes[j], [token |-> t, kind |-> kind])
        /\ \A k \in Jobs \ {j} : delivery'[k] = delivery[k] /\ payload'[k] = payload[k] /\ token'[k] = token[k]
                                 /\ outcomes'[k] = outcomes[k]
    BY <1>1 DEF Unclaim, LedgerTypeOK, CallHistoryOK
  <1>6. ASSUME NEW k \in Jobs PROVE RowInv(k)' /\ PayloadInv(k)' /\ EdgeKept(k)
    <2>1. CASE k # j
      BY <1>1, <1>5, <2>1, RowFrame, PayloadFrame DEF EdgeKept
    <2>2. CASE k = j
      <3> DEFINE o == outcomes[j]
                 x == [token |-> t, kind |-> kind]
      <3>1. /\ o \in Seq(Outcome) /\ Len(o) \in Nat /\ \A i \in 1..Len(o) : o[i].token \in Nat
            /\ x \in Outcome /\ x.token = t /\ x.kind = kind
        <4>1. o \in Seq(Outcome)
          BY DEF CallHistoryOK
        <4>2. Len(o) \in Nat /\ \A i \in 1..Len(o) : o[i] \in Outcome
          BY <4>1, SMTT(30)
        <4>3. QED
          BY <1>3, <4>1, <4>2 DEF Outcome
      <3>2. /\ outcomes'[j] = Append(o, x) /\ Len(outcomes'[j]) = Len(o) + 1 /\ outcomes'[j][Len(o) + 1] = x
            /\ \A i \in 1..Len(o) : outcomes'[j][i] = o[i]
        BY <1>5, <3>1, SMTT(30)
      <3>3. /\ t = minted[j] /\ minted'[j] = minted[j]
            /\ \A i \in 1..Len(o) : o[i].token < t /\ o[i].kind \notin Resolved
            /\ \A i, m \in 1..Len(o) : i < m => o[i].token < o[m].token
        BY <1>1 DEF RowInv, Resolved
      <3>4. RowInv(j)'
        <4> HIDE DEF o, x
        <4>1. \A i \in 1..Len(outcomes'[j]) : i \in 1..Len(o) \/ i = Len(o) + 1
          BY <3>1, <3>2, SMTT(30)
        <4>2. kind # "delivering"
          BY <1>1 DEF Resolved
        <4>3. delivery'[j] = kind /\ token'[j] = 0
          BY <1>2, <1>5
        <4>4. \A i \in 1..Len(outcomes'[j]) : outcomes'[j][i].token <= minted'[j]
          BY <1>2, <3>1, <3>2, <3>3, <4>1, SMTT(30)
        <4>5. \A i, m \in 1..Len(outcomes'[j]) : i < m => outcomes'[j][i].token < outcomes'[j][m].token
          BY <1>2, <3>1, <3>2, <3>3, <4>1, SMTT(30)
        <4>6. \A i \in 1..Len(outcomes'[j]) :
                outcomes'[j][i].kind \in Resolved => i = Len(outcomes'[j]) /\ kind = outcomes'[j][i].kind
          BY <3>1, <3>2, <3>3, <4>1
        <4>7. QED
          BY <4>2, <4>3, <4>4, <4>5, <4>6 DEF RowInv
      <3>5. PayloadInv(j)' /\ EdgeKept(j)
        BY <1>1, <1>5 DEF PayloadInv, EdgeKept, Edges, Resolved
      <3>6. QED
        BY <2>2, <3>4, <3>5
    <2>3. QED
      BY <2>1, <2>2
  <1>7. QED
    BY <1>4, <1>6 DEF Preserved

(* Another operation writes the row, or time passes. *)
LEMMA IdleStep ==
  ASSUME LedgerInv, UNCHANGED <<minted, outcomes>>, (\E j \in Jobs : TouchRow(j)) \/ LedgerTick
  PROVE  Preserved
  <1> USE DEF LedgerInv
  <1>1. UNCHANGED <<slot, delivery, payload, failed, token>>
    BY DEF TouchRow, LedgerTick
  <1>2. before' \subseteq Jobs \X Jobs /\ claimIn' \in [Jobs -> -1..ClaimTTL] /\ dueIn' \in [Jobs -> 0..MaxBackoff]
    <2>1. CASE \E j \in Jobs : TouchRow(j)
      BY <2>1, UpdatedType DEF TouchRow, LedgerTypeOK
    <2>2. CASE LedgerTick
      BY <2>2, LedgerConstants, SMTT(30) DEF LedgerTick, Nearer, LedgerTypeOK
    <2>3. QED
      BY <2>1, <2>2
  <1>3. LedgerTypeOK' /\ CallHistoryOK'
    BY <1>1, <1>2 DEF LedgerTypeOK, CallHistoryOK
  <1>4. ASSUME NEW k \in Jobs PROVE RowInv(k)' /\ PayloadInv(k)' /\ EdgeKept(k)
    BY <1>1, RowFrame, PayloadFrame DEF EdgeKept
  <1>5. QED
    BY <1>3, <1>4 DEF Preserved

(* Every call, current or stale, preserves the invariant and follows an edge. *)
LEMMA LedgerStep == LedgerInv /\ [CallsNext]_callVars => Preserved
  <1> SUFFICES ASSUME LedgerInv, [CallsNext]_callVars PROVE Preserved
    OBVIOUS
  <1>1. ASSUME NEW j \in Jobs, NEW a \in Attempts, AttemptCall(j, a) PROVE Preserved
    BY <1>1, ClaimTerminalStep, FirstDeliveryStep DEF AttemptCall
  <1>2. CASE UNCHANGED callVars
    <2>1. UNCHANGED <<slot, delivery, payload, failed, dueIn, claimIn, token, before, minted, outcomes>>
      BY <1>2 DEF callVars, ledgerVars
    <2>2. LedgerTypeOK' /\ CallHistoryOK'
      BY <2>1 DEF LedgerInv, LedgerTypeOK, CallHistoryOK
    <2>3. QED
      BY <2>1, <2>2, RowFrame, PayloadFrame DEF LedgerInv, Preserved, EdgeKept
  <1>3. QED
    BY <1>1, <1>2, ClaimStep, OutcomeStep, IdleStep DEF CallsNext

----------------------------------------------------------------------------
(* The delivery columns stay well formed under every order of calls. *)
THEOREM LedgerTyped == CallsSpec => []LedgerTypeOK
  <1>1. LedgerInv => LedgerTypeOK
    BY DEF LedgerInv
  <1>2. QED
    BY <1>1, LedgerInvInit, LedgerStep, PTL DEF CallsSpec, Preserved

(***************************************************************************)
(* However late, often and in whatever order the holders of claim tokens   *)
(* report, for every set of jobs and every claim duration: the ledger      *)
(* accepts one outcome per claim, and nothing after one that resolves.     *)
(***************************************************************************)
THEOREM OutcomesFenced == CallsSpec => []OneOutcomePerClaim
  <1>1. LedgerInv => OneOutcomePerClaim
    BY DEF LedgerInv, RowInv, OneOutcomePerClaim
  <1>2. QED
    BY <1>1, LedgerInvInit, LedgerStep, PTL DEF CallsSpec, Preserved

(***************************************************************************)
(* A record that waits for redelivery, is being redelivered or was given   *)
(* up is that of the attempt that won ClaimTerminal.                       *)
(***************************************************************************)
THEOREM PayloadOwned == CallsSpec => []PayloadIsSlotOwners
  <1>1. LedgerInv => PayloadIsSlotOwners
    BY DEF LedgerInv, PayloadInv, PayloadIsSlotOwners
  <1>2. QED
    BY <1>1, LedgerInvInit, LedgerStep, PTL DEF CallsSpec, Preserved

(***************************************************************************)
(* The ledger moves along the edges documented at work.DeliveryStatus, the *)
(* terminal slot never changes hands, and a claim is replaced only when it *)
(* has expired.                                                            *)
(***************************************************************************)
THEOREM GraphHolds == CallsSpec => LedgerGraph
  <1>1. LedgerInv /\ [CallsNext]_callVars => [\A j \in Jobs : EdgeKept(j)]_callVars
    BY LedgerStep DEF Preserved
  <1>2. CallsSpec => [][\A j \in Jobs : EdgeKept(j)]_callVars
    BY <1>1, LedgerInvInit, LedgerStep, PTL DEF CallsSpec, Preserved
  <1>3. QED
    BY <1>2 DEF LedgerGraph, EdgeKept

----------------------------------------------------------------------------
(***************************************************************************)
(* The inductive invariant of the loops.  What a loop knows when it writes *)
(* an outcome is still true then: NodeVault forgets nothing, and a payload *)
(* that cannot be delivered stays that way.  No two loops hold the same    *)
(* token for a job, whether or not the row still carries it.               *)
(***************************************************************************)
TaskTrue(l, j) ==
  /\ task[l][j].phase = "idle" => task[l][j].token = 0
  /\ task[l][j].phase = "ok" => j \in vault
  /\ task[l][j].phase = "rejected" => j \in Refused \cup Foreign

TokensApart(j) ==
  \A l, m \in Loops : task[l][j].token # 0 /\ task[l][j].token = task[m][j].token => l = m

RowTrue(j) ==
  /\ delivery[j] = "acknowledged" => j \in vault
  /\ delivery[j] = "dead_letter" => j \in Refused \cup Foreign

LoopInv ==
  /\ LoopTypeOK
  /\ \A l \in Loops, j \in Jobs : TaskTrue(l, j)
  /\ \A j \in Jobs : TokensApart(j) /\ RowTrue(j)

----------------------------------------------------------------------------
(* The lesser of two numbers. *)
LEMMA MinOfTwo ==
  ASSUME NEW a \in Int, NEW b \in Int
  PROVE  Min({a, b}) = IF a <= b THEN a ELSE b
  BY SMTT(30) DEF Min

(* The greater of two numbers. *)
LEMMA MaxOfTwo ==
  ASSUME NEW a \in Int, NEW b \in Int
  PROVE  Max({a, b}) = IF a >= b THEN a ELSE b
  BY SMTT(30) DEF Max

(***************************************************************************)
(* backoffDuration never returns more than deliveryMaxBackoff, jitter      *)
(* included, nor a negative wait.                                          *)
(***************************************************************************)
LEMMA BackoffClamped ==
  ASSUME NEW n \in Nat, NEW wait \in BackoffDuration(n)
  PROVE  wait \in 0..MaxBackoff
  <1> DEFINE shift == Min({Max({n, 1}) - 1, 8})
             d     == Min({BaseBackoff * 2^shift, MaxBackoff})
  <1>1. shift \in 0..8
    <2>1. Max({n, 1}) \in Int /\ Max({n, 1}) >= 1
      BY MaxOfTwo, SMTT(30)
    <2>2. QED
      BY <2>1, MinOfTwo, SMTT(30)
  <1>2. 2^shift \in Nat
    <2>1. /\ 2^0 \in Nat /\ 2^1 \in Nat /\ 2^2 \in Nat /\ 2^3 \in Nat /\ 2^4 \in Nat
          /\ 2^5 \in Nat /\ 2^6 \in Nat /\ 2^7 \in Nat /\ 2^8 \in Nat
      BY SMTT(30)
    <2> HIDE DEF shift
    <2>2. \/ shift = 0 \/ shift = 1 \/ shift = 2 \/ shift = 3 \/ shift = 4
          \/ shift = 5 \/ shift = 6 \/ shift = 7 \/ shift = 8
      BY <1>1, SMTT(30)
    <2>3. QED
      BY <2>1, <2>2
  <1> DEFINE power == 2^shift
  <1>3. d \in Nat
    <2> HIDE DEF power
    <2>1. power \in Nat
      BY <1>2 DEF power
    <2>2. BaseBackoff * power \in Nat /\ MaxBackoff \in Nat
      BY <2>1, LoopConstants, LedgerConstants, SMTT(30)
    <2>3. d = Min({BaseBackoff * power, MaxBackoff})
      BY DEF power
    <2>4. QED
      BY <2>2, <2>3, MinOfTwo, SMTT(30)
  <1>4. wait \in d..Min({d + d \div 4, MaxBackoff})
    BY DEF BackoffDuration
  <1> HIDE DEF d
  <1>5. d + d \div 4 \in Int /\ MaxBackoff \in Nat
    BY <1>3, LedgerConstants, SMTT(30)
  <1>6. QED
    BY <1>3, <1>4, <1>5, MinOfTwo, SMTT(30)

(***************************************************************************)
(* A claim token that is drawn is held by nobody: of one more number than  *)
(* there can be holders, one is free.                                      *)
(***************************************************************************)
LEMMA FreshIsFree ==
  ASSUME NEW j \in Jobs
  PROVE  Fresh(j) \in Nat \ {0} /\ Fresh(j) \notin Held(j)
  <1> DEFINE n  == Cardinality(Loops)
             ts == {task[l][j].token : l \in Loops}
  <1>1. n \in Nat /\ IsFiniteSet(Loops)
    BY LoopConstants, FS_CardinalityType
  <1>2. IsFiniteSet(ts) /\ Cardinality(ts) <= n
    <2> DEFINE f == [l \in Loops |-> task[l][j].token]
    <2>1. f \in Surjection(Loops, ts)
      BY DEF Surjection
    <2>2. QED
      BY <1>1, <2>1, FS_Surjection
  <1>3. IsFiniteSet(Held(j)) /\ Cardinality(Held(j)) <= n + 1
    <2>1. Held(j) = ts \cup {token[j]}
      BY DEF Held
    <2>2. Cardinality(ts) \in Nat
      BY <1>2, FS_CardinalityType
    <2>3. IsFiniteSet(ts \cup {token[j]}) /\ Cardinality(ts \cup {token[j]}) <= Cardinality(ts) + 1
      BY <1>2, <2>2, FS_AddElement, SMTT(30)
    <2> HIDE DEF ts, n
    <2>4. Cardinality(ts \cup {token[j]}) \in Nat
      BY <2>3, FS_CardinalityType
    <2>5. QED
      BY <1>1, <1>2, <2>1, <2>2, <2>3, <2>4, SMTT(30)
  <1> HIDE DEF n
  <1>4. Cardinality(1..n + 2) = n + 2
    BY <1>1, FS_Interval, SMTT(30)
  <1>5. \E t \in 1..n + 2 : t \notin Held(j)
    <2>1. SUFFICES ASSUME (1..n + 2) \subseteq Held(j) PROVE FALSE
      OBVIOUS
    <2>2. Cardinality(1..n + 2) <= Cardinality(Held(j))
      BY <1>3, <2>1, FS_Subset
    <2>3. Cardinality(Held(j)) \in Nat
      BY <1>3, FS_CardinalityType
    <2>4. QED
      BY <1>1, <1>3, <1>4, <2>2, <2>3, SMTT(30)
  <1>6. Fresh(j) \in 1..n + 2 /\ Fresh(j) \notin Held(j)
    BY <1>5 DEF Fresh, n
  <1>7. QED
    BY <1>1, <1>6, SMTT(30)

----------------------------------------------------------------------------
(* A write of an outcome, first or later, to one row of the ledger. *)
LEMMA RowWriteType ==
  ASSUME LedgerTypeOK, NEW j \in Jobs, NEW s \in DeliveryStatus, NEW p \in Attempts \cup {NoAttempt},
         NEW n \in Nat, NEW wait \in 0..MaxBackoff,
         delivery' = [delivery EXCEPT ![j] = s], payload' = [payload EXCEPT ![j] = p],
         failed' = [failed EXCEPT ![j] = n], dueIn' = [dueIn EXCEPT ![j] = wait], Unclaim(j)
  PROVE  LedgerTypeOK'
  <1>1. before' \subseteq Jobs \X Jobs
    BY UpdatedType DEF Unclaim
  <1>2. -1 \in -1..ClaimTTL
    BY LedgerConstants, SMTT(30)
  <1>3. /\ claimIn' \in [Jobs -> -1..ClaimTTL] /\ token' \in [Jobs -> Nat]
        /\ slot' \in [Jobs -> Attempts \cup {NoAttempt}]
    BY <1>2 DEF Unclaim, LedgerTypeOK
  <1>4. delivery' \in [Jobs -> DeliveryStatus] /\ payload' \in [Jobs -> Attempts \cup {NoAttempt}]
    BY DEF LedgerTypeOK
  <1>5. failed' \in [Jobs -> Nat] /\ dueIn' \in [Jobs -> 0..MaxBackoff]
    BY DEF LedgerTypeOK
  <1>6. QED
    BY <1>1, <1>3, <1>4, <1>5 DEF LedgerTypeOK

(***************************************************************************)
(* The worker's first failed delivery leaves its row pending, or given up  *)
(* for a record that NodeVault refuses.                                    *)
(***************************************************************************)
LEMMA FirstFailureRow ==
  ASSUME LedgerTypeOK, NEW j \in Jobs, NEW a \in Attempts, FirstFailure(j, a)
  PROVE  /\ LedgerTypeOK'
         /\ \/ delivery' = [delivery EXCEPT ![j] = "pending"]
            \/ j \in Refused /\ delivery' = [delivery EXCEPT ![j] = "dead_letter"]
  <1>1. OneMore(failed[j]) \in Nat /\ failed' = [failed EXCEPT ![j] = OneMore(failed[j])] /\ Unclaim(j)
        /\ payload' = [payload EXCEPT ![j] = a]
    BY SMTT(30) DEF LedgerTypeOK, OneMore, FirstFailure, MarkFirstDeliveryPending, MarkFirstDeliveryDeadLetter
  <1>2. CASE \E wait \in BackoffDuration(1) : MarkFirstDeliveryPending(j, a, wait)
    <2>1. PICK wait \in BackoffDuration(1) : MarkFirstDeliveryPending(j, a, wait)
      BY <1>2
    <2>2. wait \in 0..MaxBackoff
      BY BackoffClamped
    <2>3. delivery' = [delivery EXCEPT ![j] = "pending"] /\ dueIn' = [dueIn EXCEPT ![j] = wait]
      BY <2>1 DEF MarkFirstDeliveryPending
    <2>4. QED
      BY <1>1, <2>2, <2>3, RowWriteType DEF DeliveryStatus
  <1>3. CASE j \in Refused /\ MarkFirstDeliveryDeadLetter(j, a)
    <2>1. 0 \in 0..MaxBackoff
      BY LedgerConstants, SMTT(30)
    <2>2. delivery' = [delivery EXCEPT ![j] = "dead_letter"] /\ dueIn' = [dueIn EXCEPT ![j] = 0]
      BY <1>3 DEF MarkFirstDeliveryDeadLetter
    <2>3. QED
      BY <1>1, <1>3, <2>1, <2>2, RowWriteType DEF DeliveryStatus
  <1>4. QED
    BY <1>2, <1>3 DEF FirstFailure

(***************************************************************************)
(* The outcome a loop writes into a row it holds: acknowledged only after  *)
(* an answer of NodeVault, given up only after a rejection.                *)
(***************************************************************************)
LEMMA OutcomeRow ==
  ASSUME LoopTypeOK, NEW l \in Loops, NEW j \in Jobs,
         task[l][j].phase \in {"ok", "error", "rejected"}, MarkOutcome(l, j)
  PROVE  /\ LedgerTypeOK'
         /\ \E s \in DeliveryStatus :
              /\ delivery' = [delivery EXCEPT ![j] = s]
              /\ s = "acknowledged" => task[l][j].phase = "ok"
              /\ s = "dead_letter" => task[l][j].phase = "rejected"
  <1> DEFINE t == task[l][j].token
  <1>1. LedgerTypeOK /\ failed[j] \in Nat /\ payload[j] \in Attempts \cup {NoAttempt} /\ 0 \in 0..MaxBackoff
        /\ failed = [failed EXCEPT ![j] = failed[j]] /\ payload = [payload EXCEPT ![j] = payload[j]]
    BY LedgerConstants, SMTT(30) DEF LoopTypeOK, LedgerTypeOK
  <1>2. CASE task[l][j].phase = "ok"
    <2>1. MarkResultDeliveryAcknowledged(j, t)
      BY <1>2 DEF MarkOutcome
    <2>2. /\ delivery' = [delivery EXCEPT ![j] = "acknowledged"] /\ dueIn' = [dueIn EXCEPT ![j] = 0]
          /\ payload' = [payload EXCEPT ![j] = NoAttempt] /\ failed' = [failed EXCEPT ![j] = failed[j]]
          /\ Unclaim(j)
      BY <1>1, <2>1 DEF MarkResultDeliveryAcknowledged
    <2>3. QED
      BY <1>1, <1>2, <2>2, RowWriteType DEF DeliveryStatus
  <1>3. CASE task[l][j].phase = "error"
    <2>1. PICK wait \in BackoffDuration(failed[j] + 1) : MarkResultDeliveryPending(j, t, wait)
      BY <1>3 DEF MarkOutcome
    <2>2. wait \in 0..MaxBackoff /\ OneMore(failed[j]) \in Nat
      BY <1>1, BackoffClamped, SMTT(30) DEF OneMore
    <2>3. /\ delivery' = [delivery EXCEPT ![j] = "pending"] /\ dueIn' = [dueIn EXCEPT ![j] = wait]
          /\ payload' = [payload EXCEPT ![j] = payload[j]] /\ failed' = [failed EXCEPT ![j] = OneMore(failed[j])]
          /\ Unclaim(j)
      BY <1>1, <2>1 DEF MarkResultDeliveryPending
    <2>4. QED
      BY <1>1, <1>3, <2>2, <2>3, RowWriteType DEF DeliveryStatus
  <1>4. CASE task[l][j].phase = "rejected"
    <2>1. MarkResultDeliveryDeadLetter(j, t)
      BY <1>4 DEF MarkOutcome
    <2>2. /\ delivery' = [delivery EXCEPT ![j] = "dead_letter"] /\ dueIn' = [dueIn EXCEPT ![j] = 0]
          /\ payload' = [payload EXCEPT ![j] = payload[j]] /\ failed' = [failed EXCEPT ![j] = failed[j]]
          /\ Unclaim(j)
      BY <1>1, <2>1 DEF MarkResultDeliveryDeadLetter
    <2>3. QED
      BY <1>1, <1>4, <2>2, RowWriteType DEF DeliveryStatus
  <1>5. QED
    BY <1>2, <1>3, <1>4

(* Writes and ticks that leave the status of every row alone. *)
LEMMA QuietLedger ==
  ASSUME LedgerTypeOK,
         LedgerTick \/ \E j \in Jobs : TouchRow(j) \/ \E a \in Attempts : ClaimTerminal(j, a)
  PROVE  LedgerTypeOK' /\ delivery' = delivery
  <1>1. ASSUME NEW j \in Jobs, NEW a \in Attempts, ClaimTerminal(j, a) PROVE LedgerTypeOK' /\ delivery' = delivery
    BY <1>1, UpdatedType, SMTT(30) DEF ClaimTerminal, LedgerTypeOK
  <1>2. ASSUME NEW j \in Jobs, TouchRow(j) PROVE LedgerTypeOK' /\ delivery' = delivery
    BY <1>2, UpdatedType DEF TouchRow, LedgerTypeOK
  <1>3. CASE LedgerTick
    <2>1. claimIn' \in [Jobs -> -1..ClaimTTL] /\ dueIn' \in [Jobs -> 0..MaxBackoff]
      BY <1>3, LedgerConstants, SMTT(30) DEF LedgerTick, Nearer, LedgerTypeOK
    <2>2. QED
      BY <1>3, <2>1 DEF LedgerTick, LedgerTypeOK
  <1>4. QED
    BY <1>1, <1>2, <1>3

----------------------------------------------------------------------------
(* What a loop knows stays true while NodeVault only gains records. *)
LEMMA TaskFrame ==
  ASSUME NEW l \in Loops, NEW j \in Jobs, TaskTrue(l, j), task'[l][j] = task[l][j], vault \subseteq vault'
  PROVE  TaskTrue(l, j)'
  BY DEF TaskTrue

(* A row whose status stays what it is. *)
LEMMA TruthFrame ==
  ASSUME NEW j \in Jobs, RowTrue(j), delivery'[j] = delivery[j], vault \subseteq vault'
  PROVE  RowTrue(j)'
  BY DEF RowTrue

(* Tokens that are kept or dropped stay apart. *)
LEMMA ApartFrame ==
  ASSUME NEW j \in Jobs, TokensApart(j), \A l \in Loops : task'[l][j].token \in {task[l][j].token, 0}
  PROVE  TokensApart(j)'
  BY DEF TokensApart

(* One task of one loop changes. *)
LEMMA TaskWrite ==
  ASSUME task \in [Loops -> [Jobs -> Task]], NEW l \in Loops, NEW j \in Jobs, NEW t \in Task,
         task' = [task EXCEPT ![l][j] = t]
  PROVE  /\ task' \in [Loops -> [Jobs -> Task]]
         /\ task'[l][j] = t
         /\ \A m \in Loops, k \in Jobs : m # l \/ k # j => task'[m][k] = task[m][k]
  OBVIOUS

(***************************************************************************)
(* A loop's task moves on, or ends, while NodeVault may gain a record and  *)
(* the row keeps its status or gets the one the task has found out.        *)
(***************************************************************************)
LEMMA TaskStep ==
  ASSUME LoopInv, NEW l \in Loops, NEW j \in Jobs, NEW t \in Task,
         task' = [task EXCEPT ![l][j] = t],
         t.token \in {task[l][j].token, 0}, t.phase = "idle" => t.token = 0,
         t.phase = "ok" => j \in vault', t.phase = "rejected" => j \in Refused \cup Foreign,
         vault \subseteq vault', vault' \subseteq Jobs, open' = open, faults' \in 0..FaultBound, LedgerTypeOK',
         \A k \in Jobs \ {j} : delivery'[k] = delivery[k],
         RowTrue(j)'
  PROVE  LoopInv'
  <1>1. /\ task' \in [Loops -> [Jobs -> Task]]
        /\ task'[l][j] = t
        /\ \A m \in Loops, k \in Jobs : m # l \/ k # j => task'[m][k] = task[m][k]
    BY TaskWrite, SMTT(30) DEF LoopInv, LoopTypeOK
  <1>2. LoopTypeOK'
    BY <1>1 DEF LoopInv, LoopTypeOK
  <1>3. ASSUME NEW m \in Loops, NEW k \in Jobs PROVE TaskTrue(m, k)'
    <2>1. CASE m = l /\ k = j
      BY <1>1, <2>1 DEF TaskTrue
    <2>2. CASE m # l \/ k # j
      BY <1>1, <2>2, TaskFrame DEF LoopInv
    <2>3. QED
      BY <2>1, <2>2
  <1>4. ASSUME NEW k \in Jobs PROVE TokensApart(k)'
    <2>1. \A m \in Loops : task'[m][k].token \in {task[m][k].token, 0}
      BY <1>1
    <2>2. QED
      BY <2>1, ApartFrame DEF LoopInv
  <1>5. ASSUME NEW k \in Jobs PROVE RowTrue(k)'
    BY TruthFrame DEF LoopInv
  <1>6. QED
    BY <1>2, <1>3, <1>4, <1>5 DEF LoopInv

(* No loop takes part in the step. *)
LEMMA LedgerOnlyStep ==
  ASSUME LoopInv, UNCHANGED <<task, vault, faults>>, open' \subseteq Jobs, LedgerTypeOK',
         \A j \in Jobs : RowTrue(j)'
  PROVE  LoopInv'
  <1>1. LoopTypeOK'
    BY DEF LoopInv, LoopTypeOK
  <1>2. ASSUME NEW l \in Loops, NEW j \in Jobs PROVE TaskTrue(l, j)'
    BY TaskFrame DEF LoopInv
  <1>3. ASSUME NEW j \in Jobs PROVE TokensApart(j)'
    BY ApartFrame DEF LoopInv
  <1>4. QED
    BY <1>1, <1>2, <1>3 DEF LoopInv

----------------------------------------------------------------------------
(* Nothing has been sent, and nothing is claimed. *)
LEMMA LoopInvInit == LoopInit => LoopInv
  <1> SUFFICES ASSUME LoopInit PROVE LoopInv
    OBVIOUS
  <1>1. LedgerTypeOK
    BY LedgerConstants, SMTT(30) DEF LoopInit, LedgerInit, LedgerTypeOK, DeliveryStatus
  <1>2. Idle \in Task /\ Idle.phase = "idle" /\ Idle.token = 0
    BY DEF Idle, Task
  <1>3. \A l \in Loops, j \in Jobs : task[l][j] = Idle
    BY DEF LoopInit
  <1>4. LoopTypeOK
    BY <1>1, <1>2, LoopConstants, SMTT(30) DEF LoopInit, LoopTypeOK
  <1>5. \A l \in Loops, j \in Jobs : TaskTrue(l, j)
    BY <1>2, <1>3 DEF TaskTrue
  <1>6. \A j \in Jobs : TokensApart(j) /\ RowTrue(j)
    BY <1>2, <1>3 DEF TokensApart, RowTrue, LoopInit, LedgerInit
  <1>7. QED
    BY <1>4, <1>5, <1>6 DEF LoopInv

(* The worker claims the slot, records a first failure, writes the row or finishes the job. *)
LEMMA WorkerStep ==
  ASSUME LoopInv, NEW j \in Jobs,
         \/ \E a \in Attempts : FirstClaim(j, a) \/ FirstFailure(j, a)
         \/ OtherWrite(j) \/ FinishJob(j)
  PROVE  LoopInv'
  <1> USE DEF LoopInv
  <1>1. LedgerTypeOK /\ delivery \in [Jobs -> DeliveryStatus] /\ open \subseteq Jobs
    BY DEF LoopTypeOK, LedgerTypeOK
  <1>2. ASSUME NEW a \in Attempts, FirstFailure(j, a) PROVE LoopInv'
    <2>1. /\ LedgerTypeOK'
          /\ \/ delivery' = [delivery EXCEPT ![j] = "pending"]
             \/ j \in Refused /\ delivery' = [delivery EXCEPT ![j] = "dead_letter"]
      BY <1>1, <1>2, FirstFailureRow
    <2>2. UNCHANGED <<task, open, vault, faults>>
      BY <1>2 DEF FirstFailure
    <2>3. \A k \in Jobs : RowTrue(k)'
      BY <1>1, <2>1, <2>2 DEF RowTrue
    <2>4. QED
      BY <1>1, <2>1, <2>2, <2>3, LedgerOnlyStep
  <1>3. CASE \/ \E a \in Attempts : FirstClaim(j, a)
             \/ OtherWrite(j) \/ FinishJob(j)
    <2>1. LedgerTypeOK' /\ delivery' = delivery
      BY <1>1, <1>3, QuietLedger DEF FirstClaim, OtherWrite, FinishJob
    <2>2. UNCHANGED <<task, vault, faults>> /\ open' \subseteq Jobs
      BY <1>1, <1>3 DEF FirstClaim, OtherWrite, FinishJob
    <2>3. \A k \in Jobs : RowTrue(k)'
      BY <2>1, <2>2, TruthFrame
    <2>4. QED
      BY <2>1, <2>2, <2>3, LedgerOnlyStep
  <1>4. QED
    BY <1>2, <1>3

(* A task gets its place, or the POST returns. *)
LEMMA SendStep ==
  ASSUME LoopInv, NEW l \in Loops, NEW j \in Jobs, Begin(l, j) \/ Answer(l, j)
  PROVE  LoopInv'
  <1>1. PICK p \in {"sending", "ok", "error", "rejected"} :
          /\ Enter(l, j, p)
          /\ p = "ok" => j \in vault'
          /\ p = "rejected" => j \in Refused \cup Foreign
    BY DEF Begin, Answer, Accept, AcceptUnanswered, Unavailable, Reject
  <1>2. UNCHANGED <<ledgerVars, open, faults>> /\ vault' \in {vault, vault \cup {j}}
    BY DEF Begin, Answer, Accept, AcceptUnanswered, Unavailable, Reject
  <1>3. UNCHANGED <<slot, delivery, payload, failed, dueIn, claimIn, token, before>>
    BY <1>2 DEF ledgerVars
  <1>4. LedgerTypeOK' /\ vault \subseteq vault' /\ vault' \subseteq Jobs
    BY <1>2, <1>3 DEF LoopInv, LoopTypeOK, LedgerTypeOK
  <1>5. task \in [Loops -> [Jobs -> Task]] /\ faults' \in 0..FaultBound
    BY <1>2 DEF LoopInv, LoopTypeOK
  <1> DEFINE t == [phase |-> p, token |-> task[l][j].token]
  <1>6. t \in Task /\ task' = [task EXCEPT ![l][j] = t]
    <2>1. task[l][j] \in Task /\ p \in {"sending", "ok", "error", "rejected"}
      BY <1>5
    <2>2. \A r \in Task : [r EXCEPT !.phase = p] = [phase |-> p, token |-> r.token]
      BY SMTT(30) DEF Task
    <2>3. [task[l][j] EXCEPT !.phase = p] = t
      BY <2>1, <2>2
    <2>4. task' = [task EXCEPT ![l][j] = [task[l][j] EXCEPT !.phase = p]]
      BY <1>1 DEF Enter
    <2>5. QED
      BY <2>1, <2>3, <2>4 DEF Task
  <1>7. RowTrue(j)'
    BY <1>3, <1>4, TruthFrame DEF LoopInv
  <1>8. t.token = task[l][j].token /\ t.phase # "idle" /\ (t.phase = "ok" => j \in vault')
        /\ (t.phase = "rejected" => j \in Refused \cup Foreign)
    BY <1>1
  <1>9. open' = open /\ \A k \in Jobs \ {j} : delivery'[k] = delivery[k]
    BY <1>2, <1>3
  <1> HIDE DEF t
  <1>10. QED
    BY <1>4, <1>5, <1>6, <1>7, <1>8, <1>9, TaskStep

(* The outcome is written under the fence, refused by it, or lost. *)
LEMMA RecordStep ==
  ASSUME LoopInv, NEW l \in Loops, NEW j \in Jobs, Record(l, j) \/ RecordLost(l, j)
  PROVE  LoopInv'
  <1>1. /\ task' = [task EXCEPT ![l][j] = Idle] /\ UNCHANGED <<open, vault>>
        /\ task[l][j].phase \in {"ok", "error", "rejected"}
    BY DEF Record, RecordLost, Leave
  <1>2. faults' \in 0..FaultBound
    BY LoopConstants, SMTT(30) DEF Record, RecordLost, LoopInv, LoopTypeOK
  <1>3. Idle \in Task /\ Idle.phase = "idle" /\ Idle.token = 0
    BY DEF Idle, Task
  <1>4. LedgerTypeOK' /\ RowTrue(j)' /\ \A k \in Jobs \ {j} : delivery'[k] = delivery[k]
    <2>1. CASE MarkOutcome(l, j)
      <3>1. LoopTypeOK /\ delivery \in [Jobs -> DeliveryStatus] /\ TaskTrue(l, j)
        BY DEF LoopInv, LoopTypeOK, LedgerTypeOK
      <3>2. LedgerTypeOK'
        BY <1>1, <2>1, <3>1, OutcomeRow
      <3>3. PICK s \in DeliveryStatus :
              /\ delivery' = [delivery EXCEPT ![j] = s]
              /\ s = "acknowledged" => task[l][j].phase = "ok"
              /\ s = "dead_letter" => task[l][j].phase = "rejected"
        BY <1>1, <2>1, <3>1, OutcomeRow
      <3>4. RowTrue(j)' /\ \A k \in Jobs \ {j} : delivery'[k] = delivery[k]
        BY <1>1, <3>1, <3>3 DEF RowTrue, TaskTrue
      <3>5. QED
        BY <3>2, <3>4
    <2>2. CASE UNCHANGED ledgerVars
      <3>1. UNCHANGED <<slot, delivery, payload, failed, dueIn, claimIn, token, before>>
        BY <2>2 DEF ledgerVars
      <3>2. LedgerTypeOK' /\ RowTrue(j)'
        BY <1>1, <3>1, TruthFrame DEF LoopInv, LoopTypeOK, LedgerTypeOK
      <3>3. QED
        BY <3>1, <3>2
    <2>3. QED
      BY <2>1, <2>2 DEF Record, RecordLost
  <1>5. vault \subseteq vault' /\ vault' \subseteq Jobs
    BY <1>1 DEF LoopInv, LoopTypeOK
  <1>6. QED
    BY <1>1, <1>2, <1>3, <1>4, <1>5, TaskStep

(* A loop process dies, and NodeVault may yet take what it was sending. *)
LEMMA CrashStep ==
  ASSUME LoopInv, NEW l \in Loops, Crash(l)
  PROVE  LoopInv'
  <1>1. /\ task' = [task EXCEPT ![l] = [j \in Jobs |-> Idle]]
        /\ UNCHANGED <<ledgerVars, open>> /\ faults' \in 0..FaultBound
    BY LoopConstants, SMTT(30) DEF Crash, LoopInv, LoopTypeOK
  <1>2. vault \subseteq vault' /\ vault' \subseteq Jobs
    <2>1. PICK S \in SUBSET {j \in Takes : task[l][j].phase = "sending"} : vault' = vault \cup S
      BY DEF Crash
    <2>2. QED
      BY <2>1 DEF LoopInv, LoopTypeOK, Takes
  <1>3. Idle \in Task /\ Idle.phase = "idle" /\ Idle.token = 0
    BY DEF Idle, Task
  <1>4. task \in [Loops -> [Jobs -> Task]]
    BY DEF LoopInv, LoopTypeOK
  <1>5. /\ task' \in [Loops -> [Jobs -> Task]]
        /\ \A m \in Loops, j \in Jobs : task'[m][j] = IF m = l THEN Idle ELSE task[m][j]
    BY <1>1, <1>3, <1>4
  <1>6. UNCHANGED <<slot, delivery, payload, failed, dueIn, claimIn, token, before>>
    BY <1>1 DEF ledgerVars
  <1>7. LedgerTypeOK'
    BY <1>6 DEF LoopInv, LoopTypeOK, LedgerTypeOK
  <1>8. LoopTypeOK'
    BY <1>1, <1>2, <1>5, <1>7 DEF LoopInv, LoopTypeOK
  <1>9. ASSUME NEW m \in Loops, NEW j \in Jobs PROVE TaskTrue(m, j)'
    <2>1. CASE m = l
      BY <1>3, <1>5, <2>1 DEF TaskTrue
    <2>2. CASE m # l
      BY <1>2, <1>5, <2>2, TaskFrame DEF LoopInv
    <2>3. QED
      BY <2>1, <2>2
  <1>10. ASSUME NEW j \in Jobs PROVE TokensApart(j)' /\ RowTrue(j)'
    <2>1. \A m \in Loops : task'[m][j].token \in {task[m][j].token, 0}
      BY <1>3, <1>5
    <2>2. QED
      BY <1>2, <1>6, <2>1, ApartFrame, TruthFrame DEF LoopInv
  <1>11. QED
    BY <1>8, <1>9, <1>10 DEF LoopInv

(***************************************************************************)
(* A loop whose pass is over claims a batch under tokens that nobody       *)
(* holds, not even a loop whose claim of the same row has expired.         *)
(***************************************************************************)
LEMMA PassStep ==
  ASSUME LoopInv, NEW l \in Loops, Pass(l)
  PROVE  LoopInv'
  <1>1. PICK B \in SUBSET Jobs :
          /\ ClaimPendingDeliveries(B, [j \in Jobs |-> Fresh(j)])
          /\ task' = [task EXCEPT ![l] =
                        [j \in Jobs |-> IF j \in B THEN [phase |-> "waiting", token |-> Fresh(j)] ELSE Idle]]
    BY DEF Pass
  <1>2. UNCHANGED <<open, vault, faults>>
    BY DEF Pass
  <1>3. \A j \in Jobs : Fresh(j) \in Nat \ {0} /\ Fresh(j) \notin Held(j)
    BY FreshIsFree
  <1>4. Idle \in Task /\ Idle.phase = "idle" /\ Idle.token = 0
    BY DEF Idle, Task
  <1>5. task \in [Loops -> [Jobs -> Task]]
    BY DEF LoopInv, LoopTypeOK
  <1> DEFINE claimed == [j \in Jobs |-> IF j \in B THEN [phase |-> "waiting", token |-> Fresh(j)] ELSE Idle]
  <1>6. claimed \in [Jobs -> Task]
    BY <1>3, <1>4 DEF Task
  <1>7. \A j \in Jobs : /\ j \in B => claimed[j].phase = "waiting" /\ claimed[j].token = Fresh(j)
                        /\ j \notin B => claimed[j].phase = "idle" /\ claimed[j].token = 0
    BY <1>4
  <1>8. task' = [task EXCEPT ![l] = claimed]
    BY <1>1
  <1> HIDE DEF claimed
  <1>9. /\ task' \in [Loops -> [Jobs -> Task]] /\ task'[l] = claimed
        /\ \A m \in Loops \ {l} : task'[m] = task[m]
    BY <1>5, <1>6, <1>8
  <1>10. LedgerTypeOK' /\ \A j \in Jobs : RowTrue(j)'
    <2>1. /\ delivery' = [j \in Jobs |-> IF j \in B THEN "delivering" ELSE delivery[j]]
          /\ claimIn' = [j \in Jobs |-> IF j \in B THEN ClaimTTL ELSE claimIn[j]]
          /\ token' = [j \in Jobs |-> IF j \in B THEN Fresh(j) ELSE token[j]]
          /\ Updated(B) /\ UNCHANGED <<slot, payload, failed, dueIn>>
      BY <1>1 DEF ClaimPendingDeliveries
    <2>2. LedgerTypeOK
      BY DEF LoopInv, LoopTypeOK
    <2>3. before' \subseteq Jobs \X Jobs
      BY <2>1, <2>2, UpdatedType
    <2>4. ClaimTTL \in -1..ClaimTTL
      BY LedgerConstants, SMTT(30)
    <2>5. claimIn' \in [Jobs -> -1..ClaimTTL] /\ token' \in [Jobs -> Nat]
      BY <1>3, <2>1, <2>2, <2>4 DEF LedgerTypeOK
    <2>6. delivery' \in [Jobs -> DeliveryStatus]
      BY <2>1, <2>2 DEF LedgerTypeOK, DeliveryStatus
    <2>7. LedgerTypeOK'
      BY <2>1, <2>2, <2>3, <2>5, <2>6 DEF LedgerTypeOK
    <2>8. \A j \in Jobs : RowTrue(j)'
      BY <1>2, <2>1 DEF RowTrue, LoopInv
    <2>9. QED
      BY <2>7, <2>8
  <1>11. LoopTypeOK'
    BY <1>2, <1>9, <1>10 DEF LoopInv, LoopTypeOK
  <1>12. ASSUME NEW m \in Loops, NEW j \in Jobs PROVE TaskTrue(m, j)'
    <2>1. CASE m = l
      BY <1>7, <1>9, <2>1 DEF TaskTrue
    <2>2. CASE m # l
      BY <1>2, <1>9, <2>2, TaskFrame DEF LoopInv
    <2>3. QED
      BY <2>1, <2>2
  <1>13. ASSUME NEW j \in Jobs PROVE TokensApart(j)'
    <2>1. \A m \in Loops : task[m][j].token # Fresh(j)
      BY <1>3 DEF Held
    <2>2. \A m \in Loops : IF m = l THEN task'[m][j].token \in {Fresh(j), 0} ELSE task'[m][j].token = task[m][j].token
      BY <1>7, <1>9
    <2>3. TokensApart(j)
      BY DEF LoopInv
    <2>4. QED
      BY <2>1, <2>2, <2>3 DEF TokensApart
  <1>14. QED
    BY <1>10, <1>11, <1>12, <1>13 DEF LoopInv

(* Every step of the loops, the worker, NodeVault and the clock. *)
LEMMA LoopStep == LoopInv /\ [LoopNext]_loopVars => LoopInv'
  <1> SUFFICES ASSUME LoopInv, [LoopNext]_loopVars PROVE LoopInv'
    OBVIOUS
  <1>1. CASE Tick
    <2>1. LedgerTypeOK' /\ delivery' = delivery
      BY <1>1, QuietLedger DEF Tick, LoopInv, LoopTypeOK
    <2>2. UNCHANGED <<task, open, vault, faults>> /\ open' \subseteq Jobs
      BY <1>1 DEF Tick, LoopInv, LoopTypeOK
    <2>3. \A k \in Jobs : RowTrue(k)'
      BY <2>1, <2>2, TruthFrame DEF LoopInv
    <2>4. QED
      BY <2>1, <2>2, <2>3, LedgerOnlyStep
  <1>2. CASE UNCHANGED loopVars
    <2>1. UNCHANGED <<slot, delivery, payload, failed, dueIn, claimIn, token, before, task, open, vault, faults>>
      BY <1>2 DEF loopVars, ledgerVars
    <2>2. LedgerTypeOK' /\ open' \subseteq Jobs
      BY <2>1 DEF LoopInv, LoopTypeOK, LedgerTypeOK
    <2>3. \A k \in Jobs : RowTrue(k)'
      BY <2>1, TruthFrame DEF LoopInv
    <2>4. QED
      BY <2>1, <2>2, <2>3, LedgerOnlyStep
  <1>3. QED
    BY <1>1, <1>2, WorkerStep, SendStep, RecordStep, CrashStep, PassStep DEF LoopNext

----------------------------------------------------------------------------
(***************************************************************************)
(* The state of the loops and of the ledger they write stays well formed;  *)
(* in particular no wait exceeds deliveryMaxBackoff.                       *)
(***************************************************************************)
THEOREM LoopsTyped == LoopSpec => []LoopTypeOK
  <1>1. LoopInv => LoopTypeOK
    BY DEF LoopInv
  <1>2. QED
    BY <1>1, LoopInvInit, LoopStep, PTL DEF LoopSpec

(***************************************************************************)
(* Whatever answers are lost, however many loops crash and however late    *)
(* they write: a delivery is acknowledged only when NodeVault holds the    *)
(* record, and given up only when no resubmission could succeed.           *)
(***************************************************************************)
THEOREM LedgerTruthful == LoopSpec => []LedgerTellsTruth
  <1>1. LoopInv => LedgerTellsTruth
    BY DEF LoopInv, RowTrue, LedgerTellsTruth
  <1>2. QED
    BY <1>1, LoopInvInit, LoopStep, PTL DEF LoopSpec

(***************************************************************************)
(* Of any number of loops that are busy with the same job, at most one     *)
(* holds the claim that the row carries, so at most one can write.         *)
(***************************************************************************)
THEOREM SingleClaimant == LoopSpec => []OneClaimant
  <1>1. LoopInv => OneClaimant
    <2> SUFFICES ASSUME LoopInv, NEW j \in Jobs
                 PROVE  Cardinality({l \in Loops : task[l][j].token # 0 /\ RedeliveryFence(j, task[l][j].token)}) <= 1
      BY DEF OneClaimant
    <2> DEFINE S == {l \in Loops : task[l][j].token # 0 /\ RedeliveryFence(j, task[l][j].token)}
    <2>1. \A l, m \in S : l = m
      BY DEF LoopInv, TokensApart, RedeliveryFence
    <2> HIDE DEF S
    <2>2. CASE S = {}
      BY <2>2, FS_EmptySet, SMTT(30) DEF S
    <2>3. CASE S # {}
      <3>1. PICK l : S = {l}
        BY <2>1, <2>3, SMTT(30)
      <3>2. Cardinality(S) = 1
        BY <3>1, FS_Singleton
      <3>3. QED
        BY <3>2, SMTT(30) DEF S
    <2>4. QED
      BY <2>2, <2>3
  <1>2. QED
    BY <1>1, LoopInvInit, LoopStep, PTL DEF LoopSpec
=============================================================================
