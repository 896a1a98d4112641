-------------------------- MODULE DeliveryLedger ---------------------------
(***************************************************************************)
(* The delivery columns of the jobs table (pkg/work/sqlite/store.go): the  *)
(* one-time terminal slot of a job and the ledger of its terminal record,  *)
(* from a failed first delivery through claimed redeliveries.  Every       *)
(* operation is one transaction on the store's only connection.            *)
(*                                                                         *)
(* A caller of the first-delivery writes is a lease generation, the pair   *)
(* of worker and attempt that the slot records.  A claim token is a        *)
(* number, 0 is ''; how a fresh one is drawn is left to the module that    *)
(* uses the ledger.  Instants are distances to now, as in WorkStore.       *)
(***************************************************************************)
EXTENDS Integers, FiniteSets, FiniteSetsExt

CONSTANTS
  Jobs,       \* job ids
  Attempts,   \* lease generations: (worker, attempt) pairs
  NoAttempt,  \* no slot owner
  ClaimTTL,   \* duration of a delivery claim, in ticks
  MaxBackoff, \* longest wait before a redelivery, in ticks
  BatchLimit, \* deliveryBatchLimit
  FailedCap   \* model bound: failed deliveries are counted up to here

ASSUME LedgerConstants ==
  /\ NoAttempt \notin Attempts
  /\ ClaimTTL \in Nat
  /\ MaxBackoff \in Nat
  /\ BatchLimit \in Nat \ {0}
  /\ FailedCap \in Nat
  /\ IsFiniteSet(Jobs)

VARIABLES
  slot,       \* terminal_submitted with terminal_owner and terminal_attempt
  delivery,   \* result_delivery_status
  payload,    \* result_delivery_payload: whose record, NoAttempt is ''
  failed,     \* result_delivery_attempts
  dueIn,      \* next_attempt_at - now
  claimIn,    \* result_delivery_claimed_until - now
  token,      \* result_delivery_claim_token
  before      \* updated_at: the pairs <<a, b>> of jobs with a updated before b;
              \* jobs as old as each other are taken in any order

ledgerVars == <<slot, delivery, payload, failed, dueIn, claimIn, token, before>>

DeliveryStatus == {"not_applicable", "pending", "delivering", "acknowledged", "dead_letter"}
Resolved       == {"acknowledged", "dead_letter"}

LedgerInit ==
  /\ slot = [j \in Jobs |-> NoAttempt]
  /\ delivery = [j \in Jobs |-> "not_applicable"]
  /\ payload = [j \in Jobs |-> NoAttempt]
  /\ failed = [j \in Jobs |-> 0]
  /\ dueIn = [j \in Jobs |-> 0]
  /\ claimIn = [j \in Jobs |-> -1]
  /\ token = [j \in Jobs |-> 0]
  /\ before = {}

\* updated_at = now for the rows in S, all at the same instant.
Updated(S) ==
  before' = {p \in before : p[1] \notin S /\ p[2] \notin S} \cup ((Jobs \ S) \X S)

----------------------------------------------------------------------------
\* A claim of the slot that does not look whether it is taken.
ClaimTerminalAgain(j, a) ==
  /\ slot' = [slot EXCEPT ![j] = a]
  /\ Updated({j})
  /\ UNCHANGED <<delivery, payload, failed, dueIn, claimIn, token>>

\* ClaimTerminal: the first caller owns the slot for good.
ClaimTerminal(j, a) ==
  /\ slot[j] = NoAttempt
  /\ slot' = [slot EXCEPT ![j] = a]
  /\ Updated({j})
  /\ UNCHANGED <<delivery, payload, failed, dueIn, claimIn, token>>

\* The columns of a delivery leave the claimed state, or never were in it.
Unclaim(j) ==
  /\ claimIn' = [claimIn EXCEPT ![j] = -1]
  /\ token' = [token EXCEPT ![j] = 0]
  /\ Updated({j})
  /\ UNCHANGED slot

\* First-delivery fence without the ledger still being untouched.
FirstDeliveryFenceBySlot(j, a) == slot[j] = a

\* result_delivery_attempts + 1.  backoffDuration, its only reader, is constant
\* from the sixth failure on.
OneMore(n) == IF n < FailedCap THEN n + 1 ELSE n

FirstDeliveryFence(j, a) == slot[j] = a /\ delivery[j] = "not_applicable"

MarkFirstDeliveryPending(j, a, wait) ==
  /\ FirstDeliveryFence(j, a)
  /\ delivery' = [delivery EXCEPT ![j] = "pending"]
  /\ payload' = [payload EXCEPT ![j] = a]
  /\ failed' = [failed EXCEPT ![j] = OneMore(@)]
  /\ dueIn' = [dueIn EXCEPT ![j] = wait]
  /\ Unclaim(j)

MarkFirstDeliveryDeadLetter(j, a) ==
  /\ FirstDeliveryFence(j, a)
  /\ delivery' = [delivery EXCEPT ![j] = "dead_letter"]
  /\ payload' = [payload EXCEPT ![j] = a]
  /\ failed' = [failed EXCEPT ![j] = OneMore(@)]
  /\ dueIn' = [dueIn EXCEPT ![j] = 0]
  /\ Unclaim(j)

----------------------------------------------------------------------------
Claimable ==
  {j \in Jobs : \/ delivery[j] = "pending" /\ dueIn[j] = 0
                \/ delivery[j] = "delivering" /\ claimIn[j] < 0}

\* LIMIT without ORDER BY.
IsAnyBatch(B) ==
  /\ B \subseteq Claimable
  /\ Cardinality(B) = Min({BatchLimit, Cardinality(Claimable)})

\* ORDER BY updated_at LIMIT: a full batch, none younger than one left out.
IsBatch(B) ==
  /\ B \subseteq Claimable
  /\ Cardinality(B) = Min({BatchLimit, Cardinality(Claimable)})
  /\ \A b \in B, c \in Claimable \ B : <<c, b>> \notin before

\* A claim that lasts a tick too long.
ClaimPendingDeliveriesLong(B, fresh) ==
  /\ B # {}
  /\ IsBatch(B)
  /\ delivery' = [j \in Jobs |-> IF j \in B THEN "delivering" ELSE delivery[j]]
  /\ claimIn' = [j \in Jobs |-> IF j \in B THEN ClaimTTL + 1 ELSE claimIn[j]]
  /\ token' = [j \in Jobs |-> IF j \in B THEN fresh[j] ELSE token[j]]
  /\ Updated(B)
  /\ UNCHANGED <<slot, payload, failed, dueIn>>

\* ClaimPendingDeliveries with the fresh tokens fresh[j] of the batch B.
ClaimPendingDeliveries(B, fresh) ==
  /\ B # {}
  /\ IsBatch(B)
  /\ delivery' = [j \in Jobs |-> IF j \in B THEN "delivering" ELSE delivery[j]]
  /\ claimIn' = [j \in Jobs |-> IF j \in B THEN ClaimTTL ELSE claimIn[j]]
  /\ token' = [j \in Jobs |-> IF j \in B THEN fresh[j] ELSE token[j]]
  /\ Updated(B)
  /\ UNCHANGED <<slot, payload, failed, dueIn>>

\* A redelivery fence that trusts any claimer of a row that is delivering.
RedeliveryFenceByStatus(j, t) == delivery[j] = "delivering" /\ t # 0

RedeliveryFence(j, t) == delivery[j] = "delivering" /\ t # 0 /\ token[j] = t

MarkResultDeliveryPending(j, t, wait) ==
  /\ RedeliveryFence(j, t)
  /\ delivery' = [delivery EXCEPT ![j] = "pending"]
  /\ failed' = [failed EXCEPT ![j] = OneMore(@)]
  /\ dueIn' = [dueIn EXCEPT ![j] = wait]
  /\ Unclaim(j)
  /\ UNCHANGED payload

MarkResultDeliveryAcknowledged(j, t) ==
  /\ RedeliveryFence(j, t)
  /\ delivery' = [delivery EXCEPT ![j] = "acknowledged"]
  /\ payload' = [payload EXCEPT ![j] = NoAttempt]
  /\ dueIn' = [dueIn EXCEPT ![j] = 0]
  /\ Unclaim(j)
  /\ UNCHANGED failed

MarkResultDeliveryDeadLetter(j, t) ==
  /\ RedeliveryFence(j, t)
  /\ delivery' = [delivery EXCEPT ![j] = "dead_letter"]
  /\ dueIn' = [dueIn EXCEPT ![j] = 0]
  /\ Unclaim(j)
  /\ UNCHANGED <<payload, failed>>

----------------------------------------------------------------------------
\* Another operation of the store (Heartbeat, LeaseJob, ...) writes the row.
TouchRow(j) ==
  /\ Updated({j})
  /\ UNCHANGED <<slot, delivery, payload, failed, dueIn, claimIn, token>>

\* Time passes for every pending instant.
Nearer(d, floor) == IF d > floor THEN d - 1 ELSE d

LedgerTick ==
  /\ \E j \in Jobs : claimIn[j] > -1 \/ dueIn[j] > 0
  /\ claimIn' = [j \in Jobs |-> Nearer(claimIn[j], -1)]
  /\ dueIn' = [j \in Jobs |-> Nearer(dueIn[j], 0)]
  /\ UNCHANGED <<slot, delivery, payload, failed, token, before>>

----------------------------------------------------------------------------
(* Type invariant of the delivery columns. *)
LedgerTypeOK ==
  /\ slot \in [Jobs -> Attempts \cup {NoAttempt}]
  /\ delivery \in [Jobs -> DeliveryStatus]
  /\ payload \in [Jobs -> Attempts \cup {NoAttempt}]
  /\ failed \in [Jobs -> Nat]
  /\ dueIn \in [Jobs -> 0..MaxBackoff]
  /\ claimIn \in [Jobs -> -1..ClaimTTL]
  /\ token \in [Jobs -> Nat]
  /\ before \subseteq Jobs \X Jobs

=============================================================================
