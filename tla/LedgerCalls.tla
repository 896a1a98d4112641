---------------------------- MODULE LedgerCalls ----------------------------
(***************************************************************************)
(* The delivery ledger under every order of calls.  Each lease generation  *)
(* may claim the terminal slot and report its first delivery at any time,  *)
(* and the holder of every claim token ever drawn, current or replaced,    *)
(* may report its outcome at any time and more than once.                  *)
(***************************************************************************)
EXTENDS DeliveryLedger, Sequences

CONSTANT ClaimBound   \* model bound: claim tokens drawn per job

ASSUME CallConstants == ClaimBound \in Nat

VARIABLES
  minted,    \* history: number of claim tokens drawn for the job
  outcomes   \* history: the redelivery outcomes accepted for the job, in order

callVars == <<ledgerVars, minted, outcomes>>

Outcome == [token : Nat, kind : {"pending"} \cup Resolved]

CallsInit ==
  /\ LedgerInit
  /\ minted = [j \in Jobs |-> 0]
  /\ outcomes = [j \in Jobs |-> << >>]

\* Calls under a lease generation.
AttemptCall(j, a) ==
  /\ \/ ClaimTerminal(j, a)
     \/ \E wait \in 0..MaxBackoff : MarkFirstDeliveryPending(j, a, wait)
     \/ MarkFirstDeliveryDeadLetter(j, a)
  /\ UNCHANGED <<minted, outcomes>>

\* A pass of a delivery loop claims a batch under tokens never drawn before.
ClaimCall(B) ==
  /\ \A j \in B : minted[j] < ClaimBound
  /\ minted' = [j \in Jobs |-> IF j \in B THEN minted[j] + 1 ELSE minted[j]]
  /\ ClaimPendingDeliveries(B, minted')
  /\ UNCHANGED outcomes

\* The holder of token t reports what became of its delivery.
OutcomeCall(j, t) ==
  \E kind \in {"pending"} \cup Resolved :
    /\ CASE kind = "pending"      -> \E wait \in 0..MaxBackoff : MarkResultDeliveryPending(j, t, wait)
         [] kind = "acknowledged" -> MarkResultDeliveryAcknowledged(j, t)
         [] kind = "dead_letter"  -> MarkResultDeliveryDeadLetter(j, t)
    /\ outcomes' = [outcomes EXCEPT ![j] = Append(@, [token |-> t, kind |-> kind])]
    /\ UNCHANGED minted

CallsNext ==
  \/ \E j \in Jobs, a \in Attempts : AttemptCall(j, a)
  \/ \E B \in SUBSET Jobs : ClaimCall(B)
  \/ \E j \in Jobs : \E t \in 1..minted[j] : OutcomeCall(j, t)
  \/ \E j \in Jobs : TouchRow(j) /\ UNCHANGED <<minted, outcomes>>
  \/ LedgerTick /\ UNCHANGED <<minted, outcomes>>

CallsSpec == CallsInit /\ [][CallsNext]_callVars

----------------------------------------------------------------------------
(***************************************************************************)
(* One outcome per claim.  However late or often the holders of replaced   *)
(* claim tokens report, the outcomes the ledger accepts for a job carry    *)
(* ever newer tokens, at most one each; only the last may resolve the      *)
(* delivery, and then it is the job's delivery status.  While a delivery   *)
(* is claimed, the newest token and no other can resolve it, and it has    *)
(* not done so yet.                                                        *)
(***************************************************************************)
OneOutcomePerClaim ==
  \A j \in Jobs :
    LET o == outcomes[j] IN
      /\ \A i, k \in 1..Len(o) : i < k => o[i].token < o[k].token
      /\ \A i \in 1..Len(o) :
           o[i].kind \in Resolved => i = Len(o) /\ delivery[j] = o[i].kind
      /\ delivery[j] = "delivering" =>
           /\ token[j] = minted[j]
           /\ \A i \in 1..Len(o) : o[i].token < token[j]

(***************************************************************************)
(* The record to redeliver is the slot owner's: while a delivery is        *)
(* outstanding or was given up, the row holds the payload of the attempt   *)
(* that won ClaimTerminal; only an acknowledged delivery clears it.        *)
(***************************************************************************)
PayloadIsSlotOwners ==
  \A j \in Jobs :
    /\ delivery[j] # "not_applicable" => slot[j] # NoAttempt
    /\ delivery[j] \in {"pending", "delivering", "dead_letter"} => payload[j] = slot[j]
    /\ delivery[j] \in {"not_applicable", "acknowledged"} => payload[j] = NoAttempt

\* The edges documented at work.DeliveryStatus.
Edges ==
  {<<"not_applicable", "pending">>, <<"not_applicable", "dead_letter">>,
   <<"pending", "delivering">>, <<"delivering", "delivering">>,
   <<"delivering", "pending">>, <<"delivering", "acknowledged">>,
   <<"delivering", "dead_letter">>}

(***************************************************************************)
(* The ledger moves only along the documented edges, so acknowledged and   *)
(* dead_letter are final; the slot never changes hands; and a claimed row  *)
(* changes its token only when its claim has expired or is resolved.       *)
(***************************************************************************)
LedgerGraph ==
  [][\A j \in Jobs :
       /\ delivery'[j] = delivery[j] \/ <<delivery[j], delivery'[j]>> \in Edges
       /\ slot[j] # NoAttempt => slot'[j] = slot[j]
       /\ token[j] # 0 /\ token'[j] # token[j] =>
            claimIn[j] < 0 \/ delivery'[j] # "delivering"]_callVars

=============================================================================
