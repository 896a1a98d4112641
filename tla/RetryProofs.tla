---------------------------- MODULE RetryProofs ----------------------------
(***************************************************************************)
(* Proofs about the retry policy for every maxAttempts and any number of   *)
(* leases: the job is retried exactly as the policy states, and the waits  *)
(* follow the documented schedule.                                         *)
(***************************************************************************)
EXTENDS RetryHistory, FiniteSetTheorems, WellFoundedInduction, TLAPS

USE ZenonT(30)

----------------------------------------------------------------------------
(* The classifier on no element and on one. *)
LEMMA FirstToldShort ==
  ASSUME NEW f, DOMAIN f \in {{}, {1}}
  PROVE  FirstTold(f) = IF DOMAIN f = {} THEN "none" ELSE f[1]
  <1>1. Min({1}) = 1
    BY SMTT(30) DEF Min
  <1>2. CASE DOMAIN f = {}
    BY <1>2 DEF FirstTold
  <1>3. CASE DOMAIN f = {1} /\ f[1] # "none"
    <2>1. {i \in DOMAIN f : f[i] # "none"} = {1}
      BY <1>3
    <2>2. QED
      BY <1>1, <1>3, <2>1 DEF FirstTold
  <1>4. CASE DOMAIN f = {1} /\ f[1] = "none"
    <2>1. {i \in DOMAIN f : f[i] # "none"} = {}
      BY <1>4
    <2>2. QED
      BY <1>4, <2>1 DEF FirstTold
  <1>5. QED
    BY <1>2, <1>3, <1>4

(* classifyFromPods of a list of one Pod with this verdict. *)
ClassOf(verdict) == IF verdict = "none" THEN "UNKNOWN" ELSE verdict

(* Of a list of one Pod, classifyFromPods reports what that Pod tells. *)
LEMMA ClassifyOnePod ==
  ASSUME NEW pod
  PROVE  ClassifyFromPods(FALSE, <<pod>>) = ClassOf(PodVerdict(pod))
  <1> DEFINE f == [i \in DOMAIN <<pod>> |-> PodVerdict(<<pod>>[i])]
  <1>1. DOMAIN <<pod>> = {1} /\ <<pod>>[1] = pod
    BY SMTT(30)
  <1>2. DOMAIN f = {1} /\ f[1] = PodVerdict(pod)
    BY <1>1
  <1>3. ClassifyFromPods(FALSE, <<pod>>) = ClassOf(FirstTold(f))
    BY DEF ClassifyFromPods, ClassOf
  <1> HIDE DEF f
  <1>4. FirstTold(f) = f[1]
    BY <1>2, FirstToldShort, SMTT(30)
  <1>5. QED
    BY <1>2, <1>3, <1>4

(* A list of no Pods tells nothing, nor does a List that failed. *)
LEMMA ClassifyNoPods == ClassifyFromPods(FALSE, << >>) = "UNKNOWN" /\ ClassifyFromPods(TRUE, << >>) = "UNKNOWN"
  <1> DEFINE f == [i \in DOMAIN << >> |-> PodVerdict(<< >>[i])]
  <1>1. DOMAIN f = {}
    BY SMTT(30)
  <1>2. ClassifyFromPods(FALSE, << >>) = IF FirstTold(f) = "none" THEN "UNKNOWN" ELSE FirstTold(f)
    BY DEF ClassifyFromPods
  <1> HIDE DEF f
  <1>3. ClassifyFromPods(FALSE, << >>) = "UNKNOWN"
    <2>1. FirstTold(f) = "none"
      BY <1>1, FirstToldShort, SMTT(30)
    <2>2. QED
      BY <1>2, <2>1
  <1>4. ClassifyFromPods(TRUE, << >>) = "UNKNOWN"
    BY DEF ClassifyFromPods
  <1>5. QED
    BY <1>3, <1>4

(* The verdict of a Pod, given what its containers tell. *)
VerdictBy(phase, reason, told) ==
  IF phase = "Pending" THEN "TRANSIENT_INFRA"
  ELSE IF told # "none" THEN told
  ELSE IF phase = "Failed" /\ reason # "" THEN "TRANSIENT_INFRA" ELSE "none"

BarePod(phase, reason) == [phase |-> phase, reason |-> reason, containers |-> << >>]

(* A Pod without containers is judged by its phase and its reason alone. *)
LEMMA BarePodVerdict ==
  ASSUME NEW phase, NEW reason
  PROVE  PodVerdict(BarePod(phase, reason)) = VerdictBy(phase, reason, "none")
  <1> DEFINE pod == BarePod(phase, reason)
             f == [i \in DOMAIN pod.containers |-> ContainerVerdict(pod.containers[i])]
  <1>1. pod.containers = << >> /\ pod.phase = phase /\ pod.reason = reason
    BY DEF BarePod
  <1>2. DOMAIN << >> = {}
    BY SMTT(30)
  <1>3. DOMAIN f = {}
    BY <1>1, <1>2
  <1>4. PodVerdict(pod) = VerdictBy(pod.phase, pod.reason, FirstTold(f))
    BY DEF PodVerdict, VerdictBy
  <1> HIDE DEF f, pod
  <1>5. FirstTold(f) = "none"
    BY <1>3, FirstToldShort, SMTT(30)
  <1>6. QED
    BY <1>1, <1>4, <1>5 DEF pod

(* A Pod with one container is judged by that container, and by its own reason if that tells nothing. *)
LEMMA PodOfOneVerdict ==
  ASSUME NEW phase, NEW reason, NEW container
  PROVE  PodVerdict(Pod(phase, reason, container)) = VerdictBy(phase, reason, ContainerVerdict(container))
  <1> DEFINE pod == Pod(phase, reason, container)
             f == [i \in DOMAIN pod.containers |-> ContainerVerdict(pod.containers[i])]
  <1>1. pod.containers = <<container>> /\ pod.phase = phase /\ pod.reason = reason
    BY DEF Pod
  <1>2. DOMAIN <<container>> = {1} /\ <<container>>[1] = container
    BY SMTT(30)
  <1>3. DOMAIN f = {1} /\ f[1] = ContainerVerdict(container)
    BY <1>1, <1>2
  <1>4. PodVerdict(pod) = VerdictBy(pod.phase, pod.reason, FirstTold(f))
    BY DEF PodVerdict, VerdictBy
  <1> HIDE DEF f, pod
  <1>5. FirstTold(f) = f[1]
    BY <1>3, FirstToldShort, SMTT(30)
  <1>6. QED
    BY <1>1, <1>3, <1>4, <1>5 DEF pod

(* The class that the kind of a failure calls for. *)
ClassFor(kind) ==
  CASE kind = "application" -> "DETERMINISTIC"
    [] kind = "resource"    -> "RESOURCE_OBSERVATION"
    [] kind = "infra"       -> "TRANSIENT_INFRA"
    [] kind = "unclear"     -> "UNKNOWN"

(***************************************************************************)
(* What classifySmokeRun makes of a cause, when no infra failure looks     *)
(* like an exit of the tool: exactly the class its kind calls for.         *)
(***************************************************************************)
LEMMA ClassOfKind ==
  ASSUME NEW cause \in Causes, cause # "killed", NEW class \in Classified(cause)
  PROVE  /\ KindOf[cause] \in {"application", "resource", "infra", "unclear"}
         /\ class = ClassFor(KindOf[cause])
  <1>1. cause \in {"exit", "oom", "unschedulable", "pull", "evicted", "api", "gone", "mute", "unlisted"}
    BY HistoryConstants DEF KindOf
  <1>2. /\ KindOf["exit"] = "application" /\ KindOf["oom"] = "resource" /\ KindOf["unschedulable"] = "infra"
        /\ KindOf["pull"] = "infra" /\ KindOf["evicted"] = "infra" /\ KindOf["api"] = "infra"
        /\ KindOf["gone"] = "unclear" /\ KindOf["mute"] = "unclear" /\ KindOf["unlisted"] = "unclear"
    BY DEF KindOf
  <1>3. /\ ClassFor("application") = "DETERMINISTIC" /\ ClassFor("resource") = "RESOURCE_OBSERVATION"
        /\ ClassFor("infra") = "TRANSIENT_INFRA" /\ ClassFor("unclear") = "UNKNOWN"
    BY DEF ClassFor
  <1> DEFINE Told(phase, reason, told) == ClassOf(VerdictBy(phase, reason, told))
  <1>4. ASSUME NEW phase, NEW reason, NEW container
        PROVE  ClassifyFromPods(FALSE, <<Pod(phase, reason, container)>>) = Told(phase, reason, ContainerVerdict(container))
    BY ClassifyOnePod, PodOfOneVerdict
  <1>5. ASSUME NEW phase, NEW reason
        PROVE  ClassifyFromPods(FALSE, <<BarePod(phase, reason)>>) = Told(phase, reason, "none")
    BY ClassifyOnePod, BarePodVerdict
  <1>6. /\ ContainerVerdict("exit") = "DETERMINISTIC" /\ ContainerVerdict("oom") = "RESOURCE_OBSERVATION"
        /\ ContainerVerdict("pull") = "TRANSIENT_INFRA" /\ ContainerVerdict("running") = "none"
    BY DEF ContainerVerdict
  <1>7. /\ Told("Failed", "", "DETERMINISTIC") = "DETERMINISTIC"
        /\ Told("Failed", "", "RESOURCE_OBSERVATION") = "RESOURCE_OBSERVATION"
        /\ Told("Pending", "", "none") = "TRANSIENT_INFRA"
        /\ Told("Pending", "", "TRANSIENT_INFRA") = "TRANSIENT_INFRA"
        /\ Told("Running", "", "TRANSIENT_INFRA") = "TRANSIENT_INFRA"
        /\ Told("Failed", "Evicted", "none") = "TRANSIENT_INFRA"
        /\ Told("Running", "", "none") = "UNKNOWN"
        /\ Told("Unknown", "", "none") = "UNKNOWN"
    BY DEF ClassOf, VerdictBy
  <1> HIDE DEF KindOf, Told
  <1>e. ClassifyFromPods(FALSE, <<Pod("Failed", "", "exit")>>) = "DETERMINISTIC"
    <2>1. ClassifyFromPods(FALSE, <<Pod("Failed", "", "exit")>>) = Told("Failed", "", ContainerVerdict("exit"))
      BY <1>4
    <2>2. QED
      BY <1>6, <1>7, <2>1
  <1>o. ClassifyFromPods(FALSE, <<Pod("Failed", "", "oom")>>) = "RESOURCE_OBSERVATION"
    <2>1. ClassifyFromPods(FALSE, <<Pod("Failed", "", "oom")>>) = Told("Failed", "", ContainerVerdict("oom"))
      BY <1>4
    <2>2. QED
      BY <1>6, <1>7, <2>1
  <1>p. ClassifyFromPods(FALSE, <<Pod("Pending", "", "pull")>>) = "TRANSIENT_INFRA"
    <2>1. ClassifyFromPods(FALSE, <<Pod("Pending", "", "pull")>>) = Told("Pending", "", ContainerVerdict("pull"))
      BY <1>4
    <2>2. QED
      BY <1>6, <1>7, <2>1
  <1>q. ClassifyFromPods(FALSE, <<Pod("Running", "", "pull")>>) = "TRANSIENT_INFRA"
    <2>1. ClassifyFromPods(FALSE, <<Pod("Running", "", "pull")>>) = Told("Running", "", ContainerVerdict("pull"))
      BY <1>4
    <2>2. QED
      BY <1>6, <1>7, <2>1
  <1>v. ClassifyFromPods(FALSE, <<Pod("Failed", "Evicted", "running")>>) = "TRANSIENT_INFRA"
    <2>1. ClassifyFromPods(FALSE, <<Pod("Failed", "Evicted", "running")>>) = Told("Failed", "Evicted", ContainerVerdict("running"))
      BY <1>4
    <2>2. QED
      BY <1>6, <1>7, <2>1
  <1>m. ClassifyFromPods(FALSE, <<Pod("Running", "", "running")>>) = "UNKNOWN"
    <2>1. ClassifyFromPods(FALSE, <<Pod("Running", "", "running")>>) = Told("Running", "", ContainerVerdict("running"))
      BY <1>4
    <2>2. QED
      BY <1>6, <1>7, <2>1
  <1>u. ClassifyFromPods(FALSE, <<Pod("Unknown", "", "running")>>) = "UNKNOWN"
    <2>1. ClassifyFromPods(FALSE, <<Pod("Unknown", "", "running")>>) = Told("Unknown", "", ContainerVerdict("running"))
      BY <1>4
    <2>2. QED
      BY <1>6, <1>7, <2>1
  <1>8. CASE cause = "api"
    BY <1>2, <1>3, <1>8 DEF Classified
  <1>l. CASE cause = "unlisted"
    BY <1>2, <1>3, <1>l, ClassifyNoPods DEF Classified
  <1>9. CASE cause \notin {"api", "unlisted"}
    <2>1. PICK pods \in Reported(cause) : class = ClassifyFromPods(FALSE, pods)
      BY <1>9 DEF Classified
    <2>2. CASE cause = "exit"
      <3>1. pods = <<Pod("Failed", "", "exit")>>
        BY <2>1, <2>2 DEF Reported
      <3>2. QED
        BY <1>2, <1>3, <1>e, <2>1, <2>2, <3>1
    <2>3. CASE cause = "oom"
      <3>1. pods = <<Pod("Failed", "", "oom")>>
        BY <2>1, <2>3 DEF Reported
      <3>2. QED
        BY <1>2, <1>3, <1>o, <2>1, <2>3, <3>1
    <2>4. CASE cause = "unschedulable"
      <3>1. pods = <<BarePod("Pending", "")>>
        BY <2>1, <2>4 DEF Reported, BarePod
      <3>2. QED
        BY <1>2, <1>3, <1>5, <1>7, <2>1, <2>4, <3>1
    <2>5. CASE cause = "pull"
      <3>1. pods = <<Pod("Pending", "", "pull")>> \/ pods = <<Pod("Running", "", "pull")>>
        BY <2>1, <2>5 DEF Reported
      <3>2. CASE pods = <<Pod("Pending", "", "pull")>>
        BY <1>2, <1>3, <1>p, <2>1, <2>5, <3>2
      <3>3. CASE pods = <<Pod("Running", "", "pull")>>
        BY <1>2, <1>3, <1>q, <2>1, <2>5, <3>3
      <3>4. QED
        BY <3>1, <3>2, <3>3
    <2>6. CASE cause = "evicted"
      <3>1. pods = <<BarePod("Failed", "Evicted")>> \/ pods = <<Pod("Failed", "Evicted", "running")>>
        BY <2>1, <2>6 DEF Reported, BarePod
      <3>2. CASE pods = <<BarePod("Failed", "Evicted")>>
        BY <1>2, <1>3, <1>5, <1>7, <2>1, <2>6, <3>2
      <3>3. CASE pods = <<Pod("Failed", "Evicted", "running")>>
        BY <1>2, <1>3, <1>v, <2>1, <2>6, <3>3
      <3>4. QED
        BY <3>1, <3>2, <3>3
    <2>7. CASE cause = "gone"
      <3>1. pods = << >>
        BY <2>1, <2>7 DEF Reported
      <3>2. QED
        BY <1>2, <1>3, <2>1, <2>7, <3>1, ClassifyNoPods
    <2>8. CASE cause = "mute"
      <3>1. pods = <<Pod("Running", "", "running")>> \/ pods = <<Pod("Unknown", "", "running")>>
        BY <2>1, <2>8 DEF Reported
      <3>2. CASE pods = <<Pod("Running", "", "running")>>
        BY <1>2, <1>3, <1>m, <2>1, <2>8, <3>2
      <3>3. CASE pods = <<Pod("Unknown", "", "running")>>
        BY <1>2, <1>3, <1>u, <2>1, <2>8, <3>3
      <3>4. QED
        BY <3>1, <3>2, <3>3
    <2>9. QED
      BY <1>1, <1>9, <2>2, <2>3, <2>4, <2>5, <2>6, <2>7, <2>8
  <1>10. QED
    BY <1>8, <1>l, <1>9

----------------------------------------------------------------------------
(* The lesser of two numbers. *)
LEMMA MinOfTwo ==
  ASSUME NEW a \in Int, NEW b \in Int
  PROVE  Min({a, b}) = IF a <= b THEN a ELSE b
  BY SMTT(30) DEF Min

(* The greater of two numbers. *)
LEMMA MaxOfTwo ==
  ASSUME NEW a \in Int, NEW b \in Int
  PROVE  Max({a, b}) = IF a >= b THEN a ELSE b
  BY SMTT(30) DEF Max

(* From the fifth power on, a power of two is at least 32: the subsets of 1..n are that many. *)
LEMMA LargePower ==
  ASSUME NEW n \in Nat, n >= 5
  PROVE  2^n \in Nat /\ 2^n >= 32
  <1>1. /\ IsFiniteSet(1..n) /\ Cardinality(1..n) = n
        /\ IsFiniteSet(1..5) /\ Cardinality(1..5) = 5
    <2>1. \A k \in Nat : IsFiniteSet(1..k)
      BY FS_Interval, SMTT(30)
    <2>2. \A k \in Nat : k >= 1 => Cardinality(1..k) = k
      BY FS_Interval, SMTT(30)
    <2>3. 5 \in Nat /\ 5 >= 1 /\ n >= 1
      BY SMTT(30)
    <2>4. Cardinality(1..5) = 5
      BY <2>2, <2>3
    <2>5. QED
      BY <2>1, <2>2, <2>3, <2>4
  <1>2. /\ IsFiniteSet(SUBSET (1..n)) /\ Cardinality(SUBSET (1..n)) = 2^n
        /\ IsFiniteSet(SUBSET (1..5)) /\ Cardinality(SUBSET (1..5)) = 2^5
    BY <1>1, FS_SUBSET
  <1>3. SUBSET (1..5) \subseteq SUBSET (1..n)
    BY SMTT(30)
  <1>4. Cardinality(SUBSET (1..5)) <= Cardinality(SUBSET (1..n)) /\ Cardinality(SUBSET (1..n)) \in Nat
    BY <1>2, <1>3, FS_Subset, FS_CardinalityType
  <1>5. 2^5 = 32
    BY SMTT(30)
  <1>6. QED
    BY <1>2, <1>4, <1>5

(***************************************************************************)
(* What the loop of RetryDelay has doubled to: it stops after five rounds, *)
(* the first time it is past the maximum.                                  *)
(***************************************************************************)
Doubled(n) ==
  CASE n = 0 -> 1000 [] n = 1 -> 2000 [] n = 2 -> 4000 [] n = 3 -> 8000 [] n = 4 -> 16000 [] OTHER -> 32000

(* The loop of retryDelay, one turn at a time. *)
LEMMA DoublingEquation ==
  \A n \in Nat : Doubling[n] = IF n = 0 THEN 1000
                              ELSE IF Doubling[n - 1] < 30000 THEN 2 * Doubling[n - 1] ELSE Doubling[n - 1]
  <1> DEFINE R(f) == [n \in Nat |-> IF n = 0 THEN 1000 ELSE IF f[n - 1] < 30000 THEN 2 * f[n - 1] ELSE f[n - 1]]
             g    == [n \in Nat |-> Doubled(n)]
  <1>1. ASSUME NEW n \in Nat
        PROVE  g[n] = IF n = 0 THEN 1000 ELSE IF g[n - 1] < 30000 THEN 2 * g[n - 1] ELSE g[n - 1]
    <2>1. CASE n = 0
      BY <2>1, SMTT(30) DEF Doubled
    <2>2. CASE n # 0
      <3>1. n - 1 \in Nat /\ g[n] = Doubled(n) /\ g[n - 1] = Doubled(n - 1)
        BY <2>2, SMTT(30)
      <3>2. Doubled(n) = IF Doubled(n - 1) < 30000 THEN 2 * Doubled(n - 1) ELSE Doubled(n - 1)
        BY <2>2, <3>1, SMTT(30) DEF Doubled
      <3>3. QED
        BY <2>2, <3>1, <3>2, SMTT(30)
    <2>3. QED
      BY <2>1, <2>2, SMTT(30)
  <1>2. g = R(g)
    BY <1>1, SMTT(30)
  <1> HIDE DEF g
  <1>3. Doubling = R(Doubling)
    BY <1>2, SMTT(30) DEF Doubling, RetryBaseDelay, RetryMaxDelay
  <1>4. QED
    BY <1>3, SMTT(30)

(* A set of naturals that has an element has a least one. *)
LEMMA LeastNatural ==
  ASSUME NEW T \in SUBSET Nat, T # {}
  PROVE  \E n \in T : \A m \in T : ~(m < n)
  <1> DEFINE R == OpToRel(<, Nat)
  <1>1. \A m, n \in Nat : m < n => <<m, n>> \in R
    BY DEF OpToRel
  <1>2. IsWellFoundedOn(R, Nat)
    BY NatLessThanWellFounded
  <1> HIDE DEF R
  <1>3. PICK n \in T : \A m \in T : ~(<<m, n>> \in R)
    BY <1>2, WFMin
  <1>4. QED
    BY <1>1, <1>3

(* What the loop of retryDelay returns: by descent to a least counterexample. *)
LEMMA DoublingValue == \A n \in Nat : Doubling[n] = Doubled(n)
  <1> DEFINE T == {n \in Nat : Doubling[n] # Doubled(n)}
  <1>1. SUFFICES ASSUME T # {} PROVE FALSE
    OBVIOUS
  <1>2. PICK n \in T : \A m \in T : ~(m < n)
    BY <1>1, LeastNatural
  <1>3. CASE n = 0
    BY <1>3, DoublingEquation, SMTT(30) DEF Doubled
  <1>4. CASE n # 0
    <2>1. n - 1 \in Nat /\ n - 1 < n
      BY <1>4, SMTT(30)
    <2>2. Doubling[n - 1] = Doubled(n - 1)
      BY <1>2, <2>1
    <2>3. Doubling[n] = IF Doubling[n - 1] < 30000 THEN 2 * Doubling[n - 1] ELSE Doubling[n - 1]
      BY <1>4, DoublingEquation, SMTT(30)
    <2>4. Doubled(n) = IF Doubled(n - 1) < 30000 THEN 2 * Doubled(n - 1) ELSE Doubled(n - 1)
      BY <1>4, <2>1, SMTT(30) DEF Doubled
    <2>5. QED
      BY <2>2, <2>3, <2>4, SMTT(30)
  <1>5. QED
    BY <1>3, <1>4

(* Half of the cap that the wait after a failed attempt is drawn under, and the cap. *)
HalfCap(n) ==
  IF n <= 1 THEN 500 ELSE IF n = 2 THEN 1000 ELSE IF n = 3 THEN 2000 ELSE IF n = 4 THEN 4000
  ELSE IF n = 5 THEN 8000 ELSE 15000

Cap(n) == 2 * HalfCap(n)

(* The schedule's bounds are positive milliseconds. *)
LEMMA CapRange ==
  ASSUME NEW n \in Nat
  PROVE  HalfCap(n) \in Nat /\ 0 < HalfCap(n) /\ Cap(n) \in Nat /\ Cap(n) <= 2 * HalfCap(n)
  BY SMTT(30) DEF HalfCap, Cap

(* RetryDelay is between half the cap and the cap of its attempt. *)
LEMMA RetryDelayValue ==
  ASSUME NEW n \in Nat
  PROVE  RetryDelay(n) = Interval(HalfCap(n), Cap(n))
  <1> DEFINE k == Max({n, 1}) - 1
             c == Min({Doubling[k], RetryMaxDelay})
  <1>1. k \in Nat /\ k = IF n >= 1 THEN n - 1 ELSE 0
    BY MaxOfTwo, SMTT(30)
  <1> HIDE DEF k
  <1>2. Doubling[k] = Doubled(k)
    BY <1>1, DoublingValue
  <1>3. Doubled(k) \in Int
    BY SMTT(30) DEF Doubled
  <1>4. c = IF Doubled(k) <= 30000 THEN Doubled(k) ELSE 30000
    BY <1>2, <1>3, MinOfTwo, SMTT(30) DEF RetryMaxDelay
  <1>5. c = Cap(n)
    BY <1>1, <1>4, SMTT(30) DEF Doubled, Cap, HalfCap
  <1>6. RetryDelay(n) = Interval(c \div 2, c)
    BY DEF RetryDelay, k
  <1> HIDE DEF c
  <1>7. PICK h \in Nat : h = HalfCap(n)
    BY CapRange
  <1>8. (2 * h) \div 2 = h
    BY SMTT(30)
  <1>9. c = 2 * h
    BY <1>5, <1>7 DEF Cap
  <1>10. QED
    BY <1>5, <1>6, <1>7, <1>8, <1>9

(* The documented cap, where p is the power of two it speaks of. *)
LEMMA CapOfPower ==
  ASSUME NEW n \in Nat \ {0}, NEW p \in Nat, n >= 6 => p >= 32,
         n = 1 => p = 1, n = 2 => p = 2, n = 3 => p = 4, n = 4 => p = 8, n = 5 => p = 16
  PROVE  Min({RetryMaxDelay, RetryBaseDelay * p}) = Cap(n)
  <1>1. 1000 * p \in Int /\ Min({30000, 1000 * p}) = IF 30000 <= 1000 * p THEN 30000 ELSE 1000 * p
    BY MinOfTwo, SMTT(30)
  <1>2. CASE n >= 6
    BY <1>1, <1>2, SMTT(30) DEF Cap, HalfCap, RetryMaxDelay, RetryBaseDelay
  <1>3. CASE n \in 1..5
    <2>1. n = 1 \/ n = 2 \/ n = 3 \/ n = 4 \/ n = 5
      BY <1>3, SMTT(30)
    <2>2. QED
      BY <1>1, <2>1, SMTT(30) DEF Cap, HalfCap, RetryMaxDelay, RetryBaseDelay
  <1>4. QED
    BY <1>2, <1>3, SMTT(30)

(* The cap that the loop reaches is the one the documentation states with a power of two. *)
LEMMA CapValue ==
  ASSUME NEW n \in Nat \ {0}
  PROVE  Min({RetryMaxDelay, RetryBaseDelay * 2^(n - 1)}) = Cap(n)
  <1> DEFINE power(k) == 2^k
             e        == n - 1
  <1>1. \A k \in Nat : k >= 5 => power(k) \in Nat /\ power(k) >= 32
    BY LargePower
  <1>2. power(0) = 1 /\ power(1) = 2 /\ power(2) = 4 /\ power(3) = 8 /\ power(4) = 16
    BY SMTT(30)
  <1>3. e \in Nat /\ n = e + 1
    BY SMTT(30)
  <1> HIDE DEF power, e
  <1>4. e = 0 \/ e = 1 \/ e = 2 \/ e = 3 \/ e = 4 \/ e >= 5
    BY <1>3, SMTT(30)
  <1> DEFINE p == power(e)
  <1>5. /\ p \in Nat /\ (n >= 6 => p >= 32) /\ (n = 1 => p = 1) /\ (n = 2 => p = 2) /\ (n = 3 => p = 4)
        /\ (n = 4 => p = 8) /\ (n = 5 => p = 16)
    BY <1>1, <1>2, <1>3, <1>4, SMTT(30)
  <1> HIDE DEF p
  <1>6. Min({RetryMaxDelay, RetryBaseDelay * p}) = Cap(n)
    BY <1>5, CapOfPower
  <1>7. QED
    BY <1>6 DEF p, e, power

----------------------------------------------------------------------------
(***************************************************************************)
(* The inductive invariant of the history: failures carry ever later       *)
(* attempts, none later than the job's own, and every failure that did not *)
(* end the job was granted the wait of its attempt.                        *)
(***************************************************************************)
Wait == [lo : Nat, hi : Nat]

FailuresInOrder ==
  /\ \A i \in 1..Len(failures) : failures[i].attempt <= attempt
  /\ state = "leased" => attempt >= 1 /\ \A i \in 1..Len(failures) : failures[i].attempt < attempt
  /\ \A i, k \in 1..Len(failures) : i < k => failures[i].attempt < failures[k].attempt

WaitsGranted ==
  /\ waits \in Seq(Wait)
  /\ Len(waits) = IF state = "failed" THEN Len(failures) - 1 ELSE Len(failures)
  /\ \A i \in 1..Len(waits) : waits[i] = RetryDelay(failures[i].attempt)

HistoryInv == HistoryTypeOK /\ FailuresInOrder /\ WaitsGranted

(***************************************************************************)
(* The marker in last_error stands for one thing: the last failure was one *)
(* of which nothing could be told.  Reclaimed leases keep it.              *)
(***************************************************************************)
JudgedAsStated ==
  /\ \A i \in 1..Len(failures) : EndsTheJob(i) => i = Len(failures) /\ state = "failed"
  /\ state = "failed" => Len(failures) > 0 /\ EndsTheJob(Len(failures))
  /\ state \in {"queued", "leased"} =>
       (marked <=> Len(failures) > 0 /\ failures[Len(failures)].kind = "unclear")

(* A sequence with one more element. *)
LEMMA OneMoreElement ==
  ASSUME NEW S, NEW s \in Seq(S), NEW x \in S
  PROVE  /\ Append(s, x) \in Seq(S)
         /\ Len(s) \in Nat /\ Len(Append(s, x)) = Len(s) + 1
         /\ \A i \in 1..Len(s) : Append(s, x)[i] = s[i]
         /\ Append(s, x)[Len(s) + 1] = x
         /\ \A i \in 1..Len(Append(s, x)) : i \in 1..Len(s) \/ i = Len(s) + 1
  BY SMTT(30)

(* A wait is an interval of milliseconds. *)
LEMMA RetryDelayType ==
  ASSUME NEW n \in Nat
  PROVE  RetryDelay(n) \in Wait
  <1>1. HalfCap(n) \in Nat /\ Cap(n) \in Nat
    BY CapRange
  <1>2. \A h, c \in Nat : Interval(h, c) \in Wait
    BY DEF Interval, Wait
  <1>3. QED
    BY <1>1, <1>2, RetryDelayValue

(* The job has been leased by nobody. *)
LEMMA HistoryInvInit == HistoryInit => HistoryInv /\ JudgedAsStated
  <1> SUFFICES ASSUME HistoryInit PROVE HistoryInv /\ JudgedAsStated
    OBVIOUS
  <1>1. failures = << >> /\ waits = << >> /\ state = "queued" /\ attempt = 0 /\ marked = FALSE
    BY DEF HistoryInit
  <1>2. << >> \in Seq(Failure) /\ << >> \in Seq(Wait) /\ Len(<< >>) = 0
    BY SMTT(30)
  <1>3. HistoryTypeOK
    <2>1. failures \in Seq(Failure) /\ Len(waits) <= Len(failures)
      BY <1>1, <1>2, SMTT(30)
    <2>2. attempt \in 0..LeaseBound
      BY <1>1, HistoryConstants, SMTT(30)
    <2>3. QED
      BY <1>1, <2>1, <2>2 DEF HistoryTypeOK
  <1>4. FailuresInOrder /\ WaitsGranted
    BY <1>1, <1>2, SMTT(30) DEF FailuresInOrder, WaitsGranted
  <1>5. JudgedAsStated
    BY <1>1, <1>2, SMTT(30) DEF JudgedAsStated
  <1>6. QED
    BY <1>3, <1>4, <1>5 DEF HistoryInv

(* Leases, reclaimed leases and success judge no failure. *)
LEMMA QuietStep ==
  ASSUME HistoryInv, Lease \/ Reclaim \/ Succeed
  PROVE  HistoryInv' /\ (JudgedAsStated => JudgedAsStated')
  <1>1. /\ UNCHANGED <<failures, waits>>
        /\ \/ state \in {"queued", "leased"} /\ state' = "leased" /\ attempt' = attempt + 1 /\ attempt < LeaseBound
              /\ marked' = marked
           \/ state = "leased" /\ state' = "succeeded" /\ attempt' = attempt /\ marked' = FALSE
    BY DEF Lease, Reclaim, Succeed
  <1>2. /\ attempt \in Nat /\ LeaseBound \in Nat /\ Len(failures) \in Nat /\ Len(waits) \in Nat
        /\ \A i \in 1..Len(failures) : failures[i].attempt \in Nat
    <2>1. failures \in Seq(Failure) /\ waits \in Seq(Wait)
      BY DEF HistoryInv, HistoryTypeOK, WaitsGranted
    <2>2. Len(failures) \in Nat /\ Len(waits) \in Nat /\ \A i \in 1..Len(failures) : failures[i] \in Failure
      BY <2>1, SMTT(30)
    <2>3. \A f \in Failure : f.attempt \in Nat
      BY HistoryConstants, SMTT(30) DEF Failure
    <2>4. QED
      BY <2>2, <2>3, HistoryConstants, SMTT(30) DEF HistoryInv, HistoryTypeOK
  <1>3. HistoryTypeOK'
    <2>1. state' \in {"queued", "leased", "failed", "succeeded"} /\ marked' \in BOOLEAN
          /\ (marked' => state' # "succeeded")
      BY <1>1 DEF HistoryInv, HistoryTypeOK
    <2>2. attempt' \in 0..LeaseBound
      BY <1>1, <1>2, SMTT(30) DEF HistoryInv, HistoryTypeOK
    <2>3. failures' \in Seq(Failure) /\ Len(waits') <= Len(failures')
      BY <1>1 DEF HistoryInv, HistoryTypeOK
    <2>4. QED
      BY <2>1, <2>2, <2>3 DEF HistoryTypeOK
  <1>4. FailuresInOrder'
    BY <1>1, <1>2, SMTT(30) DEF HistoryInv, FailuresInOrder
  <1>5. WaitsGranted'
    BY <1>1 DEF HistoryInv, WaitsGranted
  <1>6. ASSUME JudgedAsStated PROVE JudgedAsStated'
    <2>1. \A i \in 1..Len(failures) : ~EndsTheJob(i) /\ (EndsTheJob(i)' <=> EndsTheJob(i))
      BY <1>1, <1>6 DEF JudgedAsStated, EndsTheJob
    <2>2. QED
      BY <1>1, <1>6, <2>1, SMTT(30) DEF JudgedAsStated
  <1>7. QED
    BY <1>3, <1>4, <1>5, <1>6 DEF HistoryInv

(* A failure is judged: the job waits for its next lease, or ends. *)
LEMMA FailStep ==
  ASSUME HistoryInv, NEW cause \in Causes, NEW class \in Classified(cause), Fail(cause, class)
  PROVE  HistoryInv'
  <1> DEFINE retry == DecideRetry(class, attempt, marked).retry
             x     == [attempt |-> attempt, kind |-> KindOf[cause]]
             n     == Len(failures)
  <1>1. /\ state = "leased" /\ state' = (IF retry THEN "queued" ELSE "failed")
        /\ failures' = Append(failures, x) /\ attempt' = attempt
        /\ waits' = IF retry THEN Append(waits, RetryDelay(attempt)) ELSE waits
    BY DEF Fail
  <1>2. marked' \in BOOLEAN /\ retry \in BOOLEAN
    BY DEF Fail, DecideRetry
  <1>3. /\ attempt \in 1..LeaseBound /\ attempt \in Nat /\ failures \in Seq(Failure) /\ waits \in Seq(Wait)
        /\ n \in Nat /\ Len(waits) = n
    BY <1>1, HistoryConstants, SMTT(30) DEF HistoryInv, HistoryTypeOK, FailuresInOrder, WaitsGranted
  <1>4. x \in Failure /\ x.attempt = attempt
    BY <1>3 DEF Failure
  <1>5. RetryDelay(attempt) \in Wait
    BY <1>3, RetryDelayType
  <1> HIDE DEF retry, x
  <1>6. /\ failures' \in Seq(Failure) /\ Len(failures') = n + 1 /\ failures'[n + 1] = x
        /\ \A i \in 1..n : failures'[i] = failures[i]
        /\ \A i \in 1..Len(failures') : i \in 1..n \/ i = n + 1
    BY <1>1, <1>3, <1>4, OneMoreElement, SMTT(30)
  <1>7. \A i \in 1..n : failures[i].attempt \in Nat /\ failures[i].attempt < attempt
    <2>1. \A i \in 1..n : failures[i] \in Failure
      BY <1>3, SMTT(30)
    <2>2. \A f \in Failure : f.attempt \in Nat
      BY HistoryConstants, SMTT(30) DEF Failure
    <2>3. QED
      BY <1>1, <2>1, <2>2 DEF HistoryInv, FailuresInOrder
  <1>8. \A i, k \in 1..n : i < k => failures[i].attempt < failures[k].attempt
    BY DEF HistoryInv, FailuresInOrder
  <1>9. \A i \in 1..n : waits[i] = RetryDelay(failures[i].attempt)
    BY <1>3 DEF HistoryInv, WaitsGranted
  <1> HIDE DEF n
  <1>10. FailuresInOrder'
    <2>1. \A i \in 1..Len(failures') : failures'[i].attempt <= attempt'
      BY <1>1, <1>3, <1>4, <1>6, <1>7, SMTT(30)
    <2>2. \A i, k \in 1..Len(failures') : i < k => failures'[i].attempt < failures'[k].attempt
      BY <1>3, <1>4, <1>6, <1>7, <1>8, SMTT(30)
    <2>3. state' # "leased"
      BY <1>1
    <2>4. QED
      BY <2>1, <2>2, <2>3 DEF FailuresInOrder
  <1>11. WaitsGranted'
    <2>1. CASE retry
      <3>1. waits' = Append(waits, RetryDelay(attempt)) /\ state' = "queued"
        BY <1>1, <2>1
      <3>2. /\ waits' \in Seq(Wait) /\ Len(waits') = n + 1 /\ waits'[n + 1] = RetryDelay(attempt)
            /\ \A i \in 1..n : waits'[i] = waits[i]
            /\ \A i \in 1..Len(waits') : i \in 1..n \/ i = n + 1
        BY <1>3, <1>5, <3>1, OneMoreElement, SMTT(30)
      <3>3. \A i \in 1..Len(waits') : waits'[i] = RetryDelay(failures'[i].attempt)
        BY <1>4, <1>6, <1>9, <3>2
      <3>4. QED
        BY <1>6, <3>1, <3>2, <3>3 DEF WaitsGranted
    <2>2. CASE ~retry
      <3>1. waits' = waits /\ state' = "failed"
        BY <1>1, <2>2
      <3>2. Len(waits') = Len(failures') - 1
        BY <1>3, <1>6, <3>1, SMTT(30)
      <3>3. \A i \in 1..Len(waits') : waits'[i] = RetryDelay(failures'[i].attempt)
        BY <1>3, <1>6, <1>9, <3>1
      <3>4. QED
        BY <1>3, <3>1, <3>2, <3>3 DEF WaitsGranted
    <2>3. QED
      BY <1>2, <2>1, <2>2
  <1>12. HistoryTypeOK'
    <2>1. Len(waits') <= Len(failures')
      BY <1>3, <1>6, <1>11, SMTT(30) DEF WaitsGranted
    <2>2. state' \in {"queued", "failed"} /\ attempt' \in 0..LeaseBound
      BY <1>1, <1>2, <1>3, SMTT(30)
    <2>3. QED
      BY <1>2, <1>6, <2>1, <2>2 DEF HistoryTypeOK
  <1>13. QED
    BY <1>10, <1>11, <1>12 DEF HistoryInv

(***************************************************************************)
(* decideRetry, told a class that fits the kind of the failure, ends the   *)
(* job exactly when the policy does.                                       *)
(***************************************************************************)
LEMMA JudgeStep ==
  ASSUME "killed" \notin Causes, HistoryInv, JudgedAsStated,
         NEW cause \in Causes, NEW class \in Classified(cause), Fail(cause, class)
  PROVE  JudgedAsStated'
  <1> DEFINE d    == DecideRetry(class, attempt, marked)
             kind == KindOf[cause]
             x    == [attempt |-> attempt, kind |-> kind]
  <1>1. /\ state = "leased" /\ state' = (IF d.retry THEN "queued" ELSE "failed") /\ marked' = d.marked
        /\ failures' = Append(failures, x)
    BY DEF Fail
  <1>2. /\ kind \in {"application", "resource", "infra", "unclear"} /\ class = ClassFor(kind)
    BY ClassOfKind
  <1>3. marked \in BOOLEAN /\ attempt \in Nat /\ attempt \in 1..LeaseBound /\ failures \in Seq(Failure)
    BY <1>1, HistoryConstants, SMTT(30) DEF HistoryInv, HistoryTypeOK, FailuresInOrder
  <1>4. x \in Failure /\ x.attempt = attempt /\ x.kind = kind
    BY <1>3 DEF Failure
  <1>5. /\ d.retry <=> kind \notin {"application", "resource"} /\ attempt < MaxAttempts /\ ~(kind = "unclear" /\ marked)
        /\ d.marked <=> d.retry /\ kind = "unclear"
        /\ d.retry \in BOOLEAN /\ d.marked \in BOOLEAN
    <2> HIDE DEF kind
    <2>1. \/ kind = "application" /\ class = "DETERMINISTIC"
          \/ kind = "resource" /\ class = "RESOURCE_OBSERVATION"
          \/ kind = "infra" /\ class = "TRANSIENT_INFRA"
          \/ kind = "unclear" /\ class = "UNKNOWN"
      BY <1>2 DEF ClassFor
    <2>2. /\ d.retry = (/\ class \notin {"DETERMINISTIC", "RESOURCE_OBSERVATION"}
                       /\ attempt < MaxAttempts
                       /\ ~(class = "UNKNOWN" /\ marked))
          /\ d.marked = (d.retry /\ class = "UNKNOWN")
      BY DEF DecideRetry
    <2>3. QED
      BY <2>1, <2>2
  <1> HIDE DEF d, x, kind
  <1>0. PICK n \in Nat : n = Len(failures)
    BY <1>3, SMTT(30)
  <1>6. /\ n \in Nat /\ Len(failures') = n + 1 /\ failures'[n + 1] = x
        /\ \A i \in 1..n : failures'[i] = failures[i]
        /\ \A i \in 1..Len(failures') : i \in 1..n \/ i = n + 1
    BY <1>0, <1>1, <1>3, <1>4, OneMoreElement, SMTT(30)
  <1>7. /\ \A i \in 1..n : ~EndsTheJob(i)
        /\ marked <=> n > 0 /\ failures[n].kind = "unclear"
    BY <1>0, <1>1 DEF JudgedAsStated
  <1>8. \A i \in 1..n : ~EndsTheJob(i)'
    <2> SUFFICES ASSUME NEW i \in 1..n PROVE ~EndsTheJob(i)'
      OBVIOUS
    <2>1. failures'[i] = failures[i] /\ (i > 1 => failures'[i - 1] = failures[i - 1])
      BY <1>6, SMTT(30)
    <2>2. QED
      BY <1>7, <2>1 DEF EndsTheJob
  <1>9. EndsTheJob(n + 1)' <=> ~d.retry
    <2>1. n + 1 - 1 = n /\ (n + 1 > 1 <=> n > 0) /\ (n > 0 => failures'[n] = failures[n])
      BY <1>6, SMTT(30)
    <2>2. EndsTheJob(n + 1)' <=> (\/ kind \in {"application", "resource"}
                                  \/ attempt >= MaxAttempts
                                  \/ kind = "unclear" /\ n > 0 /\ failures[n].kind = "unclear")
      <3>1. failures'[n + 1].kind = kind /\ failures'[n + 1].attempt = attempt
        BY <1>4, <1>6
      <3>2. n + 1 > 1 => failures'[n + 1 - 1].kind = failures[n].kind
        BY <2>1
      <3>3. QED
        BY <2>1, <3>1, <3>2, SMTT(30) DEF EndsTheJob
    <2>3. attempt >= MaxAttempts <=> ~(attempt < MaxAttempts)
      BY <1>3, PolicyConstants, SMTT(30)
    <2>4. QED
      BY <1>5, <1>7, <2>2, <2>3
  <1>10. CASE d.retry
    <2>1. state' = "queued" /\ (marked' <=> kind = "unclear")
      BY <1>1, <1>5, <1>10
    <2>2. \A i \in 1..Len(failures') : ~EndsTheJob(i)'
      BY <1>6, <1>8, <1>9, <1>10
    <2>3. Len(failures') > 0 /\ failures'[Len(failures')].kind = kind
      BY <1>4, <1>6, SMTT(30)
    <2>4. QED
      BY <2>1, <2>2, <2>3 DEF JudgedAsStated
  <1>11. CASE ~d.retry
    <2>1. state' = "failed"
      BY <1>1, <1>5, <1>11
    <2>2. \A i \in 1..Len(failures') : EndsTheJob(i)' => i = Len(failures')
      BY <1>6, <1>8
    <2>3. EndsTheJob(Len(failures))' /\ Len(failures') > 0
      <3>1. ASSUME NEW m, m = n + 1, Len(failures') = m PROVE EndsTheJob(Len(failures))'
        BY <1>9, <1>11, <3>1 DEF EndsTheJob
      <3>2. QED
        BY <1>6, <3>1, SMTT(30)
    <2>4. QED
      BY <2>1, <2>2, <2>3 DEF JudgedAsStated
  <1>12. QED
    BY <1>5, <1>10, <1>11

(* Every step of the job's life. *)
LEMMA HistoryStep == HistoryInv /\ [HistoryNext]_historyVars => HistoryInv'
  <1> SUFFICES ASSUME HistoryInv, [HistoryNext]_historyVars PROVE HistoryInv'
    OBVIOUS
  <1>1. CASE UNCHANGED historyVars
    BY <1>1 DEF historyVars, HistoryInv, HistoryTypeOK, FailuresInOrder, WaitsGranted
  <1>2. QED
    BY <1>1, QuietStep, FailStep DEF HistoryNext

(* Every step judges as the policy states. *)
LEMMA JudgedStep ==
  ASSUME "killed" \notin Causes
  PROVE  HistoryInv /\ JudgedAsStated /\ [HistoryNext]_historyVars => JudgedAsStated'
  <1> SUFFICES ASSUME HistoryInv, JudgedAsStated, [HistoryNext]_historyVars PROVE JudgedAsStated'
    OBVIOUS
  <1>1. CASE UNCHANGED historyVars
    BY <1>1 DEF historyVars, JudgedAsStated, EndsTheJob
  <1>2. QED
    BY <1>1, QuietStep, JudgeStep DEF HistoryNext

----------------------------------------------------------------------------
(* The job and its history stay well formed, whatever fails. *)
THEOREM HistoryTyped == HistorySpec => []HistoryTypeOK
  <1>1. HistoryInv => HistoryTypeOK
    BY DEF HistoryInv
  <1>2. QED
    BY <1>1, HistoryInvInit, HistoryStep, PTL DEF HistorySpec

(***************************************************************************)
(* For every maxAttempts and however many leases are reclaimed:            *)
(* classifyFromPods and decideRetry together retry exactly what the policy *)
(* retries, as long as no container that something else kills looks like   *)
(* one that exited by itself; of such a Pod the classifier knows no        *)
(* better, which InfraIsRetried is about.                                  *)
(***************************************************************************)
THEOREM PolicyHolds ==
  ASSUME "killed" \notin Causes
  PROVE  HistorySpec => []RetriedAsStated
  <1>1. HistoryInv /\ JudgedAsStated => RetriedAsStated
    BY SMTT(30) DEF JudgedAsStated, RetriedAsStated
  <1>2. HistoryInv /\ JudgedAsStated /\ [HistoryNext]_historyVars => HistoryInv' /\ JudgedAsStated'
    BY HistoryStep, JudgedStep
  <1>3. QED
    BY <1>1, <1>2, HistoryInvInit, PTL DEF HistorySpec

(***************************************************************************)
(* Every wait that RetryDelay grants lies in the documented interval, for  *)
(* any attempt number, and no later wait may be shorter than the least an  *)
(* earlier one had to be.                                                  *)
(***************************************************************************)
THEOREM WaitsFollowSchedule == HistorySpec => []WaitsBackOff
  <1>1. ASSUME HistoryInv PROVE WaitsBackOff
    <2>1. /\ waits \in Seq(Wait) /\ Len(waits) \in Nat /\ Len(failures) \in Nat /\ Len(waits) <= Len(failures)
          /\ \A i \in 1..Len(waits) : waits[i] = RetryDelay(failures[i].attempt)
          /\ \A i, k \in 1..Len(failures) : i < k => failures[i].attempt < failures[k].attempt
      BY <1>1, SMTT(30) DEF HistoryInv, HistoryTypeOK, WaitsGranted, FailuresInOrder
    <2>2. \A i \in 1..Len(failures) : failures[i].attempt \in Nat \ {0}
      <3>1. \A i \in 1..Len(failures) : failures[i] \in Failure
        BY <1>1, SMTT(30) DEF HistoryInv, HistoryTypeOK
      <3>2. \A f \in Failure : f.attempt \in Nat \ {0}
        BY HistoryConstants, SMTT(30) DEF Failure
      <3>3. QED
        BY <3>1, <3>2
    <2>3. \A i \in 1..Len(waits) : i \in 1..Len(failures)
      BY <2>1, SMTT(30)
    <2>4. ASSUME NEW n \in Nat \ {0}
          PROVE  RetryDelay(n).lo = HalfCap(n) /\ RetryDelay(n).hi = Cap(n)
      BY RetryDelayValue, SMTT(30) DEF Interval
    <2>5. ASSUME NEW i \in 1..Len(waits)
          PROVE  LET cap == Min({RetryMaxDelay, RetryBaseDelay * 2^(failures[i].attempt - 1)}) IN
                   0 < waits[i].lo /\ cap <= 2 * waits[i].lo /\ waits[i].hi <= cap
      <3>1. PICK n \in Nat \ {0} : n = failures[i].attempt
        BY <2>2, <2>3
      <3>2. waits[i].lo = HalfCap(n) /\ waits[i].hi = Cap(n)
        BY <2>1, <2>4, <3>1
      <3>3. Min({RetryMaxDelay, RetryBaseDelay * 2^(n - 1)}) = Cap(n)
        BY CapValue
      <3>4. 0 < HalfCap(n) /\ Cap(n) <= 2 * HalfCap(n) /\ Cap(n) <= Cap(n)
        <4>1. n \in Nat
          OBVIOUS
        <4>2. HalfCap(n) \in Nat /\ 0 < HalfCap(n) /\ Cap(n) \in Nat /\ Cap(n) <= 2 * HalfCap(n)
          BY <4>1, CapRange
        <4>3. QED
          BY <4>2, SMTT(30)
      <3> DEFINE cap == Min({RetryMaxDelay, RetryBaseDelay * 2^(failures[i].attempt - 1)})
      <3>5. cap = Cap(n)
        BY <3>1, <3>3
      <3> HIDE DEF cap
      <3>6. 0 < waits[i].lo /\ cap <= 2 * waits[i].lo /\ waits[i].hi <= cap
        BY <3>2, <3>4, <3>5
      <3>7. QED
        BY <3>6 DEF cap
    <2>6. ASSUME NEW i \in 1..Len(waits), NEW k \in 1..Len(waits), i < k
          PROVE  waits[i].lo <= waits[k].lo
      <3>1. PICK m \in Nat \ {0}, n \in Nat \ {0} : m = failures[i].attempt /\ n = failures[k].attempt
        BY <2>2, <2>3
      <3>2. m < n /\ waits[i].lo = HalfCap(m) /\ waits[k].lo = HalfCap(n)
        BY <2>1, <2>3, <2>4, <2>6, <3>1
      <3>3. HalfCap(m) <= HalfCap(n)
        BY <3>2, SMTT(30) DEF HalfCap
      <3>4. QED
        BY <3>2, <3>3
    <2>7. QED
      BY <2>5, <2>6 DEF WaitsBackOff
  <1>2. QED
    BY <1>1, HistoryInvInit, HistoryStep, PTL DEF HistorySpec
=============================================================================
