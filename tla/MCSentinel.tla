----------------------------- MODULE MCSentinel ----------------------------
(* Sentinel for TLC: one job, in environments that each let some things go *)
(* wrong.  A job without actions is a row from before they were required.  *)
EXTENDS Sentinel

CONSTANTS j1, w1, w2, w3

OneJob       == {j1}
TwoWorkers   == {w1, w2}
ThreeWorkers == {w1, w2, w3}

SmokeRun == {"smoke_run"}
Profile  == {"smoke_run", "profile"}
Scan     == {"smoke_run", "security_scan"}
Unheard  == {"unheard_of"}

----------------------------------------------------------------------------
\* Without L5: crashes, everything outside the process fails.
Hostile ==
  [replicas |-> 1, processes |-> 3, leases |-> 4, delay |-> 1, requests |-> {SmokeRun, Unheard},
   faults |-> {"crash", "kube", "vault", "refuse"}, unanswered |-> {"L4"}, rejected |-> {"L4"}]

\* With L5: crashes and rolling updates.
Rollout ==
  [replicas |-> 1, processes |-> 2, leases |-> 3, delay |-> 1, requests |-> {Profile, Scan, {}},
   faults |-> {"crash", "sigterm", "kube", "vault", "refuse"}, unanswered |-> {}, rejected |-> {"L4"}]

\* The store fails between any two steps.
FailingStore ==
  [replicas |-> 1, processes |-> 1, leases |-> 3, delay |-> 0, requests |-> {SmokeRun},
   faults |-> {"kube", "store"}, unanswered |-> {"L4"}, rejected |-> {}]

FailingStoreL5a == [FailingStore EXCEPT !.leases = 2, !.requests = {Profile}]

\* Two processes on one store, as the writer lock prevents.
Fleet ==
  [replicas |-> 2, processes |-> 2, leases |-> 2, delay |-> 0, requests |-> {SmokeRun},
   faults |-> {"kube", "vault"}, unanswered |-> {}, rejected |-> {}]

\* Nothing goes wrong but that each is overtaken by the other, again and again.
OvertakenFleet == [Fleet EXCEPT !.leases = 3, !.faults = {}]

\* The first attempt was made by a version without execution identities.
Upgrade ==
  [replicas |-> 1, processes |-> 3, leases |-> 4, delay |-> 0, requests |-> {SmokeRun},
   faults |-> {"legacy", "crash", "kube"}, unanswered |-> {}, rejected |-> {}]

AllEnvironments == {Hostile, Rollout, FailingStore, FailingStoreL5a, Fleet, OvertakenFleet, Upgrade}

----------------------------------------------------------------------------
\* Every request, every Create may fail; or the store does.
Lively ==
  {[replicas |-> 1, processes |-> 2, leases |-> 3, delay |-> 0,
    requests |-> {SmokeRun, Profile, Scan, Unheard, {}},
    faults |-> {"crash", "kube"}, unanswered |-> {"L4", "L5A"}, rejected |-> {"L4", "L5A"}],
   [FailingStore EXCEPT !.leases = 2]}

\* Nothing goes wrong but crashes.
Crashing ==
  {[replicas |-> 1, processes |-> 2, leases |-> 3, delay |-> 1, requests |-> {SmokeRun},
    faults |-> {"crash"}, unanswered |-> {}, rejected |-> {}]}

\* Crashes, and Creates of L5-a that get no answer.
CrashingL5a ==
  {[replicas |-> 1, processes |-> 2, leases |-> 3, delay |-> 1, requests |-> {Profile, {}},
    faults |-> {"crash"}, unanswered |-> {"L5A"}, rejected |-> {}]}
=============================================================================
