------------------------- MODULE SupervisionProofs -------------------------
(***************************************************************************)
(* Proofs about the writer lock and the processes that use it, for any     *)
(* number of them and any file they find: an open store is alone, nobody   *)
(* is refused without a writer, and whoever works on the store has it      *)
(* open, with every column and its rows in order.                          *)
(***************************************************************************)
EXTENDS Supervision, WellFoundedInduction, SequenceTheorems, TLAPS

USE ZenonT(30)

----------------------------------------------------------------------------
(* The writer lock. *)

Claims == {"reserved", "pending", "exclusive"}

(***************************************************************************)
(* The inductive invariant.  A lock belongs to a process that contends or  *)
(* has the store open; one process at most is past SHARED, and one that is *)
(* EXCLUSIVE leaves nothing to the others; whoever contends while another  *)
(* is EXCLUSIVE has that writer in its history.                            *)
(***************************************************************************)
LockInv ==
  /\ LockTypeOK
  /\ \A p \in Procs : lock[p] # "none" => door[p] \in {"contending", "open"}
  /\ \A p \in Procs : door[p] = "open" => lock[p] = "exclusive"
  /\ \A p, q \in Procs : p # q /\ lock[p] \in Claims => lock[q] \notin Claims
  /\ \A p, q \in Procs : p # q /\ lock[p] = "exclusive" => lock[q] = "none"
  /\ \A p, q \in Procs : p # q /\ door[p] = "contending" /\ lock[q] = "exclusive" => q \in writers[p]
  /\ RefusedByAWriter

(* Nobody holds a lock at first. *)
LEMMA LockInvInit == LockInit => LockInv
  BY DEF LockInit, LockInv, LockTypeOK, Level, Claims, RefusedByAWriter

(***************************************************************************)
(* When no contender can move, some process holds the EXCLUSIVE lock: a    *)
(* denied SHARED retreats, a RESERVED waits for nothing, and a PENDING is  *)
(* held up by a SHARED at most.                                            *)
(***************************************************************************)
LEMMA StuckByAWriter ==
  ASSUME LockInv, NEW p \in Procs, door[p] = "contending", \A q \in Procs : ~CanMove(q)
  PROVE  \E q \in Others(p) : lock[q] = "exclusive"
  <1>1. \A q \in Procs : lock[q] \in Level
    BY DEF LockInv, LockTypeOK
  <1>2. \A q \in Procs : door[q] = "contending" => lock[q] \in {"none", "pending"}
    BY <1>1 DEF CanMove, Denied, Retreat, Level
  <1>3. ASSUME NEW q \in Procs, lock[q] = "pending" PROVE FALSE
    <2>1. door[q] = "contending"
      BY <1>3 DEF LockInv
    <2>2. PICK r \in Procs : r # q /\ lock[r] # "none"
      BY <1>3, <2>1 DEF CanMove, MayExclude, Holding, Others
    <2>3. lock[r] = "shared"
      BY <1>1, <1>3, <2>2 DEF LockInv, Claims, Level
    <2>4. door[r] = "contending"
      BY <2>3 DEF LockInv
    <2>5. QED
      BY <1>2, <2>3, <2>4
  <1>4. lock[p] = "none"
    BY <1>2, <1>3
  <1>5. Holding(p, {"pending", "exclusive"}) # {}
    BY <1>4 DEF CanMove, MayShare
  <1>6. QED
    BY <1>3, <1>5 DEF Holding, Others

(* Every step over the lock preserves the invariant. *)
LEMMA LockInvStep == LockInv /\ [LockNext]_lockVars => LockInv'
  <1> SUFFICES ASSUME LockInv, [LockNext]_lockVars PROVE LockInv'
    OBVIOUS
  <1> USE DEF LockInv, LockTypeOK, Level, Claims, RefusedByAWriter, Others, Holding
  <1>1. ASSUME NEW p \in Procs, Contend(p) PROVE LockInv'
    BY <1>1, SMTT(30) DEF Contend
  <1>2. ASSUME NEW p \in Procs, Share(p) PROVE LockInv'
    BY <1>2, SMTT(30) DEF Share, MayShare, Take
  <1>3. ASSUME NEW p \in Procs, Reserve(p) PROVE LockInv'
    BY <1>3, SMTT(30) DEF Reserve, MayReserve, Take
  <1>4. ASSUME NEW p \in Procs, Await(p) PROVE LockInv'
    BY <1>4, SMTT(30) DEF Await, Take
  <1>5. ASSUME NEW p \in Procs, Exclude(p) PROVE LockInv'
    BY <1>5, SMTT(30) DEF Exclude, MayExclude, Take
  <1>6. ASSUME NEW p \in Procs, BackOff(p) PROVE LockInv'
    BY <1>6, SMTT(30) DEF BackOff, Retreat, Take
  <1>7. ASSUME NEW p \in Procs, Keep(p) PROVE LockInv'
    BY <1>7, SMTT(30) DEF Keep
  <1>8. ASSUME NEW p \in Procs, GiveUp(p) PROVE LockInv'
    <2>1. PICK q \in Procs : q # p /\ lock[q] = "exclusive"
      BY <1>8, StuckByAWriter DEF GiveUp
    <2>2. writers[p] # {}
      BY <1>8, <2>1 DEF GiveUp
    <2>3. QED
      BY <1>8, <2>2, SMTT(30) DEF GiveUp
  <1>9. ASSUME NEW p \in Procs, Leave(p) PROVE LockInv'
    BY <1>9, SMTT(30) DEF Leave
  <1>10. CASE UNCHANGED lockVars
    BY <1>10 DEF lockVars
  <1>11. QED
    BY <1>1, <1>2, <1>3, <1>4, <1>5, <1>6, <1>7, <1>8, <1>9, <1>10 DEF LockNext, Climb

(***************************************************************************)
(* For any number of openers: an open store holds the EXCLUSIVE lock and   *)
(* no other connection holds any (acquireWriterLock).                      *)
(***************************************************************************)
THEOREM OpenersExclude == LockSpec => []OpenIsAlone
  <1>1. LockInv => OpenIsAlone
    BY DEF LockInv, OpenIsAlone, Others
  <1>2. QED
    BY <1>1, LockInvInit, LockInvStep, PTL DEF LockSpec

(***************************************************************************)
(* For any number of openers: ErrWriterLocked is returned only if another  *)
(* process did hold the writer lock.                                       *)
(***************************************************************************)
THEOREM RefusalIsTrue == LockSpec => []RefusedByAWriter
  <1>1. LockInv => RefusedByAWriter
    BY DEF LockInv
  <1>2. QED
    BY <1>1, LockInvInit, LockInvStep, PTL DEF LockSpec

----------------------------------------------------------------------------
(* Processes. *)

Loops == {"off", "spawned", "running", "draining", "ended"}
Probes == [at : {"none", "delivery", "ready"}, late : BOOLEAN]
Mains == [step : Int, loop : [Goroutine -> Loops], sigterm : BOOLEAN, canceled : BOOLEAN, call : BOOLEAN,
          flags : SUBSET Goroutine, probe : Probes]

(***************************************************************************)
(* The inductive invariant: an RPC is handled by a server that has not     *)
(* ended, and a process without an open store has nothing left to run.     *)
(***************************************************************************)
ProcessInv(p) ==
  /\ main[p].call => main[p].loop["grpc"] \in {"running", "draining"}
  /\ door[p] # "open" => \A g \in Goroutine : main[p].loop[g] \in {"off", "ended"}

SupervisionInv ==
  /\ LockInv
  /\ main \in [Procs -> Mains]
  /\ \A p \in Procs : ProcessInv(p)

(* Every step of a process is one over the lock, or leaves the lock alone. *)
LEMMA LockUsed == [SupervisionNext]_vars => [LockNext]_lockVars
  <1> SUFFICES ASSUME [SupervisionNext]_vars PROVE [LockNext]_lockVars
    OBVIOUS
  <1>1. ASSUME NEW p \in Procs, Start(p) \/ Open(p) \/ Close(p) \/ Crash(p) PROVE [LockNext]_lockVars
    BY <1>1 DEF Start, Open, Close, Crash, LockNext
  <1>2. ASSUME NEW p \in Procs, Migrate(p) \/ NormalizeTimestamps(p) \/ Spawn(p) \/ Call(p) \/ Return(p)
                                \/ AskReady(p) \/ CheckReady(p) \/ Sigterm(p) \/ Exit(p)
        PROVE  UNCHANGED lockVars
    BY <1>2 DEF Migrate, NormalizeTimestamps, Spawn, Call, Return, AskReady, CheckReady, Probe, Sigterm, Exit
  <1>3. ASSUME NEW p \in Procs, NEW g \in Goroutine,
               Run(p, g) \/ Finish(p, g) \/ Drain(p, g) \/ Drained(p, g) \/ ServeError(p, g)
        PROVE  UNCHANGED lockVars
    BY <1>3 DEF Run, Finish, Drain, Drained, ServeError, Loop
  <1>4. CASE OldBinaryInserts
    BY <1>4 DEF OldBinaryInserts
  <1>5. CASE UNCHANGED vars
    BY <1>5 DEF vars
  <1>6. QED
    BY <1>1, <1>2, <1>3, <1>4, <1>5 DEF SupervisionNext, Progress

(***************************************************************************)
(* The processes use the writer lock as WriterLock specifies it.           *)
(***************************************************************************)
THEOREM SupervisionImplementsLock == SupervisionSpec => LockSpec
  <1>1. SupervisionInit => LockInit
    BY DEF SupervisionInit
  <1>2. QED
    BY <1>1, LockUsed, PTL DEF SupervisionSpec, LockSpec

(***************************************************************************)
(* So a process that has the store open is its only writer, whatever the   *)
(* processes started, signalled and killed around it do.                   *)
(***************************************************************************)
THEOREM ProcessesExclude == SupervisionSpec => [](OpenIsAlone /\ RefusedByAWriter)
  BY SupervisionImplementsLock, OpenersExclude, RefusalIsTrue, PTL

----------------------------------------------------------------------------
\* The two conditions of ProcessInv, of a main function and a door.
Fits(m, d) ==
  /\ m \in Mains
  /\ m.call => m.loop["grpc"] \in {"running", "draining"}
  /\ d # "open" => \A g \in Goroutine : m.loop[g] \in {"off", "ended"}

(* A step of p that leaves p in order preserves the invariant. *)
LEMMA ProcessFrame ==
  ASSUME SupervisionInv, LockInv', NEW p \in Procs, NEW m, Fits(m, door'[p]), main' = [main EXCEPT ![p] = m],
         \A q \in Procs \ {p} : door'[q] = door[q]
  PROVE  SupervisionInv'
  <1>1. main' \in [Procs -> Mains] /\ main'[p] = m /\ \A q \in Procs \ {p} : main'[q] = main[q]
    BY DEF SupervisionInv, Fits
  <1>2. QED
    BY <1>1, SMTT(30) DEF SupervisionInv, ProcessInv, Fits

(* So does one that leaves every main function alone, unless it closes a door. *)
LEMMA DoorFrame ==
  ASSUME SupervisionInv, LockInv', UNCHANGED main, \A q \in Procs : door[q] = "open" => door'[q] = "open"
  PROVE  SupervisionInv'
  BY DEF SupervisionInv, ProcessInv

(* The process before it starts. *)
LEMMA BeginFits == \A d : Fits(Begin, d)
  BY SMTT(30) DEF Fits, Begin, Mains, Probes, NoProbe, Loops, Goroutine

(* What leaves the goroutines alone and begins no RPC leaves a process in order. *)
LEMMA StillFits ==
  ASSUME NEW m, NEW d, Fits(m, d)
  PROVE  /\ Fits([m EXCEPT !.step = @ + 1], d)
         /\ Fits([m EXCEPT !.call = FALSE], d)
         /\ \A c \in BOOLEAN : Fits([m EXCEPT !.sigterm = TRUE, !.canceled = c], d)
         /\ \A r \in Probes : Fits([m EXCEPT !.probe = r], d)
  <1>1. m \in Mains
    BY DEF Fits
  <1>2. ASSUME NEW n \in Mains, n.loop = m.loop, n.call => m.call PROVE Fits(n, d)
    BY <1>2 DEF Fits
  <1>3. Fits([m EXCEPT !.step = @ + 1], d)
    <2> DEFINE n == [m EXCEPT !.step = @ + 1]
    <2>1. n \in Mains /\ n.loop = m.loop /\ n.call = m.call
      BY <1>1, SMTT(30) DEF Mains
    <2>2. QED
      BY <1>2, <2>1
  <1>4. Fits([m EXCEPT !.call = FALSE], d)
    <2> DEFINE n == [m EXCEPT !.call = FALSE]
    <2>1. n \in Mains /\ n.loop = m.loop /\ ~n.call
      BY <1>1 DEF Mains
    <2>2. QED
      BY <1>2, <2>1
  <1>5. ASSUME NEW c \in BOOLEAN PROVE Fits([m EXCEPT !.sigterm = TRUE, !.canceled = c], d)
    <2> DEFINE n == [m EXCEPT !.sigterm = TRUE, !.canceled = c]
    <2>1. n \in Mains /\ n.loop = m.loop /\ n.call = m.call
      BY <1>1 DEF Mains
    <2>2. QED
      BY <1>2, <2>1
  <1>6. ASSUME NEW r \in Probes PROVE Fits([m EXCEPT !.probe = r], d)
    <2> DEFINE n == [m EXCEPT !.probe = r]
    <2>1. n \in Mains /\ n.loop = m.loop /\ n.call = m.call
      BY <1>1 DEF Mains, Probes
    <2>2. QED
      BY <1>2, <2>1
  <1>7. QED
    BY <1>3, <1>4, <1>5, <1>6

(* Every step of a process preserves the invariant. *)
LEMMA SupervisionInvStep == SupervisionInv /\ [SupervisionNext]_vars => SupervisionInv'
  <1> SUFFICES ASSUME SupervisionInv, [SupervisionNext]_vars PROVE SupervisionInv'
    OBVIOUS
  <1>0. LockInv' /\ door \in [Procs -> {"out", "contending", "refused", "open", "left"}]
    BY LockUsed, LockInvStep DEF SupervisionInv, LockInv, LockTypeOK
  <1>u. ASSUME UNCHANGED lockVars PROVE UNCHANGED door
    BY <1>u DEF lockVars
  <1>1. ASSUME NEW p \in Procs, Start(p) \/ Open(p) PROVE SupervisionInv'
    <2>1. UNCHANGED main /\ \A q \in Procs : door[q] = "open" => door'[q] = "open"
      BY <1>0, <1>1 DEF Start, Open, Contend, Climb, Share, Reserve, Await, Exclude, BackOff, Keep, GiveUp, Take
    <2>2. QED
      BY <1>0, <2>1, DoorFrame
  <1>2. ASSUME NEW p \in Procs, Crash(p) \/ Exit(p) PROVE SupervisionInv'
    <2>1. main' = [main EXCEPT ![p] = Begin] /\ \A q \in Procs \ {p} : door'[q] = door[q]
      BY <1>0, <1>2 DEF Crash, Exit, Leave, lockVars
    <2>2. QED
      BY <1>0, <2>1, BeginFits, ProcessFrame
  <1>3. ASSUME NEW p \in Procs, Close(p) PROVE SupervisionInv'
    <2>1. UNCHANGED main /\ \A q \in Procs \ {p} : door'[q] = door[q]
      BY <1>0, <1>3 DEF Close, Leave
    <2>2. \A g \in Goroutine : main[p].loop[g] \in {"off", "ended"}
      BY <1>3 DEF Close
    <2>3. QED
      BY <1>0, <2>1, <2>2 DEF SupervisionInv, ProcessInv
  <1>4. ASSUME NEW p \in Procs, UNCHANGED lockVars, NEW m, main' = [main EXCEPT ![p] = m], Fits(m, door[p])
        PROVE  SupervisionInv'
    BY <1>0, <1>4, <1>u, ProcessFrame
  <1>f. ASSUME NEW p \in Procs PROVE Fits(main[p], door[p])
    BY DEF SupervisionInv, ProcessInv, Fits
  <1> USE DEF SupervisionInv, ProcessInv
  <1>5. ASSUME NEW p \in Procs, Migrate(p) \/ NormalizeTimestamps(p) PROVE SupervisionInv'
    <2> DEFINE m == [main[p] EXCEPT !.step = @ + 1]
    <2>1. main' = [main EXCEPT ![p] = m] /\ UNCHANGED lockVars
      BY <1>5 DEF Migrate, NormalizeTimestamps, NextStep
    <2>2. Fits(m, door[p])
      BY <1>f, StillFits
    <2>3. QED
      BY <1>4, <2>1, <2>2
  <1>6. ASSUME NEW p \in Procs, Spawn(p) PROVE SupervisionInv'
    <2>1. PICK workers \in {"spawned", "off"} :
            main' = [main EXCEPT ![p].loop = [g \in Goroutine |-> IF g \in Server THEN "running" ELSE workers],
                                 ![p].canceled = main[p].sigterm]
      BY <1>6 DEF Spawn
    <2> DEFINE f == [g \in Goroutine |-> IF g \in Server THEN "running" ELSE workers]
               m == [main[p] EXCEPT !.loop = f, !.canceled = main[p].sigterm]
    <2>2. f \in [Goroutine -> Loops] /\ f["grpc"] = "running"
      BY DEF Goroutine, Server, Loops
    <2>3. main' = [main EXCEPT ![p] = m] /\ UNCHANGED lockVars /\ door[p] = "open"
      BY <1>6, <2>1 DEF Spawn, Opened
    <2>4. m \in Mains /\ m.loop = f
      <3> HIDE DEF f
      <3>1. QED
        BY <2>2 DEF Mains
    <2>5. Fits(m, door[p])
      BY <2>2, <2>3, <2>4 DEF Fits
    <2>6. QED
      BY <1>4, <2>3, <2>5
  <1>7. ASSUME NEW p \in Procs, Call(p) PROVE SupervisionInv'
    <2> DEFINE m == [main[p] EXCEPT !.call = TRUE]
    <2>1. main' = [main EXCEPT ![p] = m] /\ UNCHANGED lockVars
      BY <1>7 DEF Call
    <2>2. Fits(m, door[p])
      <3>1. main[p].loop["grpc"] = "running" /\ main[p] \in Mains
        BY <1>7 DEF Call
      <3>2. m \in Mains /\ m.loop = main[p].loop
        BY <3>1 DEF Mains
      <3>3. door[p] = "open"
        BY <3>1 DEF Goroutine
      <3>4. QED
        BY <3>1, <3>2, <3>3 DEF Fits
    <2>3. QED
      BY <1>4, <2>1, <2>2
  <1>8. ASSUME NEW p \in Procs, Return(p) PROVE SupervisionInv'
    <2> DEFINE m == [main[p] EXCEPT !.call = FALSE]
    <2>1. main' = [main EXCEPT ![p] = m] /\ UNCHANGED lockVars
      BY <1>8 DEF Return
    <2>2. Fits(m, door[p])
      BY <1>f, StillFits
    <2>3. QED
      BY <1>4, <2>1, <2>2
  <1>9. ASSUME NEW p \in Procs, Sigterm(p) PROVE SupervisionInv'
    <2> DEFINE c == main[p].canceled \/ Spawned(p)
               m == [main[p] EXCEPT !.sigterm = TRUE, !.canceled = c]
    <2>1. main' = [main EXCEPT ![p] = m] /\ UNCHANGED lockVars
      BY <1>9 DEF Sigterm
    <2>2. c \in BOOLEAN
      OBVIOUS
    <2>3. Fits(m, door[p])
      <3> HIDE DEF c
      <3>1. QED
        BY <1>f, <2>2, StillFits
    <2>4. QED
      BY <1>4, <2>1, <2>3
  <1>10. ASSUME NEW p \in Procs, AskReady(p) \/ CheckReady(p) PROVE SupervisionInv'
    <2>1. PICK r \in Probes : main' = [main EXCEPT ![p].probe = r] /\ UNCHANGED lockVars
      <3>1. \A from, to : Probe(p, from, to) => main' = [main EXCEPT ![p].probe = to] /\ UNCHANGED lockVars
        BY DEF Probe
      <3>2. NoProbe \in Probes /\ [main[p].probe EXCEPT !.at = "ready"] \in Probes
        BY SMTT(30) DEF NoProbe, Mains, Probes
      <3>3. \A late \in BOOLEAN : [at |-> "delivery", late |-> late] \in Probes
        BY DEF Probes
      <3>4. ASSUME AskReady(p) PROVE \E r \in Probes : Probe(p, "none", r)
        <4> DEFINE late == \E h \in Worker : main[p].loop[h] = "ended"
        <4>1. late \in BOOLEAN
          OBVIOUS
        <4>2. Probe(p, "none", [at |-> "delivery", late |-> late])
          BY <3>4 DEF AskReady
        <4>3. HIDE DEF late
        <4>4. QED
          BY <3>3, <4>1, <4>2
      <3>5. ASSUME CheckReady(p) PROVE \E from : \E r \in Probes : Probe(p, from, r)
        BY <3>2, <3>5 DEF CheckReady
      <3>6. QED
        BY <1>10, <3>1, <3>4, <3>5
    <2> DEFINE m == [main[p] EXCEPT !.probe = r]
    <2>2. Fits(m, door[p])
      BY <1>f, <2>1, StillFits
    <2>3. QED
      BY <1>4, <2>1, <2>2
  <1>11. ASSUME NEW p \in Procs, NEW g \in Goroutine, main[p].loop[g] \notin {"off", "ended"} PROVE door[p] = "open"
    BY <1>11
  <1>12. ASSUME NEW p \in Procs, NEW g \in Goroutine, Run(p, g) PROVE SupervisionInv'
    <2> DEFINE m == [main[p] EXCEPT !.loop[g] = "running", !.flags = @ \cup {g}]
    <2>1. main' = [main EXCEPT ![p] = m] /\ UNCHANGED lockVars
      BY <1>12 DEF Run, Loop
    <2>2. door[p] = "open"
      BY <1>12, <1>11 DEF Run, Loop
    <2>3. m \in Mains /\ m.call = main[p].call /\ m.loop = [main[p].loop EXCEPT ![g] = "running"]
      <3> DEFINE f == [main[p].loop EXCEPT ![g] = "running"]
                 flags == main[p].flags \cup {g}
      <3>1. main[p] \in Mains
        OBVIOUS
      <3>2. f \in [Goroutine -> Loops] /\ flags \in SUBSET Goroutine
        BY <3>1 DEF Mains, Loops
      <3>3. m = [main[p] EXCEPT !.loop = f, !.flags = flags]
        BY <3>1 DEF Mains
      <3>4. HIDE DEF f, flags, m
      <3>5. m \in Mains /\ m.call = main[p].call /\ m.loop = f
        BY <3>1, <3>2, <3>3 DEF Mains
      <3>6. QED
        BY <3>5 DEF f
    <2>4. Fits(m, door[p])
      BY <1>12, <2>2, <2>3 DEF Fits, Mains, Run, Loop, Worker, Server, Goroutine
    <2>5. QED
      BY <1>4, <2>1, <2>4
  <1>13. ASSUME NEW p \in Procs, NEW g \in Goroutine, Finish(p, g) PROVE SupervisionInv'
    <2> DEFINE m == [main[p] EXCEPT !.loop[g] = "ended", !.flags = @ \ {g}]
    <2>1. main' = [main EXCEPT ![p] = m] /\ UNCHANGED lockVars
      BY <1>13 DEF Finish, Loop
    <2>2. door[p] = "open"
      BY <1>13, <1>11 DEF Finish, Loop
    <2>3. m \in Mains /\ m.call = main[p].call /\ m.loop = [main[p].loop EXCEPT ![g] = "ended"]
      <3> DEFINE f == [main[p].loop EXCEPT ![g] = "ended"]
                 flags == main[p].flags \ {g}
      <3>1. main[p] \in Mains
        OBVIOUS
      <3>2. f \in [Goroutine -> Loops] /\ flags \in SUBSET Goroutine
        BY <3>1 DEF Mains, Loops
      <3>3. m = [main[p] EXCEPT !.loop = f, !.flags = flags]
        BY <3>1 DEF Mains
      <3>4. HIDE DEF f, flags, m
      <3>5. m \in Mains /\ m.call = main[p].call /\ m.loop = f
        BY <3>1, <3>2, <3>3 DEF Mains
      <3>6. QED
        BY <3>5 DEF f
    <2>4. Fits(m, door[p])
      BY <1>13, <2>2, <2>3 DEF Fits, Mains, Finish, Loop, Worker, Server, Goroutine
    <2>5. QED
      BY <1>4, <2>1, <2>4
  <1>14. ASSUME NEW p \in Procs, NEW g \in Goroutine, Drain(p, g) PROVE SupervisionInv'
    <2> DEFINE m == [main[p] EXCEPT !.loop[g] = "draining"]
    <2>1. main' = [main EXCEPT ![p] = m] /\ UNCHANGED lockVars
      BY <1>14 DEF Drain, Loop
    <2>2. door[p] = "open"
      BY <1>14, <1>11 DEF Drain, Loop
    <2>3. m \in Mains /\ m.call = main[p].call /\ m.loop = [main[p].loop EXCEPT ![g] = "draining"]
      BY <1>14, SMTT(30) DEF Mains, Loops, Drain, Worker, Goroutine
    <2>4. Fits(m, door[p])
      BY <1>14, <2>2, <2>3 DEF Fits, Mains, Drain, Loop, Worker, Server, Goroutine
    <2>5. QED
      BY <1>4, <2>1, <2>4
  <1>15. ASSUME NEW p \in Procs, NEW g \in Goroutine, Drained(p, g) PROVE SupervisionInv'
    <2> DEFINE m == [main[p] EXCEPT !.loop[g] = "ended"]
    <2>1. main' = [main EXCEPT ![p] = m] /\ UNCHANGED lockVars
      BY <1>15 DEF Drained, Loop
    <2>2. door[p] = "open"
      BY <1>15, <1>11 DEF Drained, Loop
    <2>3. m \in Mains /\ m.call = main[p].call /\ m.loop = [main[p].loop EXCEPT ![g] = "ended"]
      BY <1>15, SMTT(30) DEF Mains, Loops, Drained, Worker, Goroutine
    <2>4. Fits(m, door[p])
      BY <1>15, <2>2, <2>3 DEF Fits, Mains, Drained, Loop, Worker, Server, Goroutine
    <2>5. QED
      BY <1>4, <2>1, <2>4
  <1>16. ASSUME NEW p \in Procs, NEW g \in Goroutine, ServeError(p, g) PROVE SupervisionInv'
    <2> DEFINE m == [main[p] EXCEPT !.loop[g] = "draining", !.canceled = TRUE]
    <2>1. main' = [main EXCEPT ![p] = m] /\ UNCHANGED lockVars
      BY <1>16 DEF ServeError, Loop
    <2>2. door[p] = "open"
      BY <1>16, <1>11 DEF ServeError, Loop
    <2>3. m \in Mains /\ m.call = main[p].call /\ m.loop = [main[p].loop EXCEPT ![g] = "draining"]
      <3> DEFINE f == [main[p].loop EXCEPT ![g] = "draining"]
      <3>1. main[p] \in Mains
        OBVIOUS
      <3>2. f \in [Goroutine -> Loops]
        BY <3>1 DEF Mains, Loops
      <3>3. m = [main[p] EXCEPT !.loop = f, !.canceled = TRUE]
        BY <3>1 DEF Mains
      <3>4. HIDE DEF f, m
      <3>5. m \in Mains /\ m.call = main[p].call /\ m.loop = f
        BY <3>1, <3>2, <3>3 DEF Mains
      <3>6. QED
        BY <3>5 DEF f
    <2>4. Fits(m, door[p])
      BY <1>16, <2>2, <2>3 DEF Fits, Mains, ServeError, Loop, Worker, Server, Goroutine
    <2>5. QED
      BY <1>4, <2>1, <2>4
  <1>17. CASE OldBinaryInserts \/ UNCHANGED vars
    BY <1>0, <1>17, DoorFrame DEF OldBinaryInserts, vars, lockVars
  <1>18. QED
    BY <1>1, <1>2, <1>3, <1>5, <1>6, <1>7, <1>8, <1>9, <1>10, <1>12, <1>13, <1>14, <1>15, <1>16, <1>17 DEF SupervisionNext, Progress

(* No process has started. *)
LEMMA SupervisionInvInit == SupervisionInit => SupervisionInv
  BY LockInvInit, BeginFits DEF SupervisionInit, SupervisionInv, ProcessInv, Fits

(***************************************************************************)
(* For any number of processes, any file they find and any schedule of     *)
(* signals, crashes and server errors: whoever works on the store has it   *)
(* open, and nobody else does.                                             *)
(***************************************************************************)
THEOREM UsersExclude == SupervisionSpec => []UsersHaveItOpen
  <1>1. SupervisionInv => UsersHaveItOpen
    <2> SUFFICES ASSUME SupervisionInv, NEW p \in Procs, Uses(p)
                 PROVE  door[p] = "open" /\ \A q \in Others(p) : door[q] # "open" /\ ~Uses(q)
      BY DEF UsersHaveItOpen
    <2>1. \A q \in Procs : Uses(q) => door[q] = "open"
      BY DEF SupervisionInv, ProcessInv, Uses, Goroutine
    <2>2. \A q \in Others(p) : door[q] # "open"
      BY <2>1 DEF SupervisionInv, LockInv, Others
    <2>3. QED
      BY <2>1, <2>2 DEF Others
  <1>2. QED
    BY <1>1, SupervisionInvInit, SupervisionInvStep, PTL DEF SupervisionSpec
----------------------------------------------------------------------------
(* Readiness. *)

\* A flag is up while its loop runs, and a late request found delivery ended.
Tells(loop, flags, probe) ==
  /\ flags \subseteq Worker
  /\ \A g \in Worker : g \in flags <=> loop[g] = "running"
  /\ probe.late => loop["delivery"] = "ended"
  /\ probe.at = "ready" => ~probe.late

ReadyInv == \A p \in Procs : Tells(main[p].loop, main[p].flags, main[p].probe)

(* A step of p that leaves its flags true preserves the invariant. *)
LEMMA TellsFrame ==
  ASSUME SupervisionInv, ReadyInv, NEW p \in Procs, NEW m, main' = [main EXCEPT ![p] = m],
         Tells(m.loop, m.flags, m.probe)
  PROVE  ReadyInv'
  <1>1. main'[p] = m /\ \A q \in Procs \ {p} : main'[q] = main[q]
    BY DEF SupervisionInv
  <1>2. QED
    BY <1>1 DEF ReadyInv

(* A goroutine that goes from one state to the next keeps its flag true. *)
LEMMA GoroutineTells ==
  ASSUME NEW loop \in [Goroutine -> Loops], NEW flags, NEW probe, Tells(loop, flags, probe),
         NEW g \in Goroutine, loop[g] # "ended"
  PROVE  /\ g \in Worker => Tells([loop EXCEPT ![g] = "running"], flags \cup {g}, probe)
         /\ g \in Worker => Tells([loop EXCEPT ![g] = "ended"], flags \ {g}, probe)
         /\ g \in Server => Tells([loop EXCEPT ![g] = "draining"], flags, probe)
         /\ loop[g] = "draining" => Tells([loop EXCEPT ![g] = "ended"], flags, probe)
  BY DEF Tells, Worker, Server, Goroutine

(* Before it starts, a process has no flag up. *)
LEMMA BeginTells == Tells(Begin.loop, Begin.flags, Begin.probe)
  BY DEF Tells, Begin, NoProbe, Worker, Goroutine

(* Every step of a process keeps its flags true. *)
LEMMA ReadyStep == SupervisionInv /\ ReadyInv /\ [SupervisionNext]_vars => ReadyInv'
  <1> SUFFICES ASSUME SupervisionInv, ReadyInv, [SupervisionNext]_vars PROVE ReadyInv'
    OBVIOUS
  <1>m. ASSUME NEW p \in Procs
        PROVE  main[p] \in Mains /\ Tells(main[p].loop, main[p].flags, main[p].probe)
    BY DEF SupervisionInv, ReadyInv
  <1>0. ASSUME UNCHANGED main PROVE ReadyInv'
    BY <1>0 DEF ReadyInv
  <1>1. ASSUME NEW p \in Procs, NEW m \in Mains, main' = [main EXCEPT ![p] = m],
               m.loop = main[p].loop, m.flags = main[p].flags, m.probe = main[p].probe
        PROVE  ReadyInv'
    BY <1>1, <1>m, TellsFrame
  <1>2. ASSUME NEW p \in Procs, Migrate(p) \/ NormalizeTimestamps(p) PROVE ReadyInv'
    <2> DEFINE m == [main[p] EXCEPT !.step = @ + 1]
    <2>1. main' = [main EXCEPT ![p] = m]
      BY <1>2 DEF Migrate, NormalizeTimestamps, NextStep
    <2>2. m \in Mains /\ m.loop = main[p].loop /\ m.flags = main[p].flags /\ m.probe = main[p].probe
      BY <1>m, SMTT(30) DEF Mains
    <2>3. QED
      BY <1>1, <2>1, <2>2
  <1>3. ASSUME NEW p \in Procs, Call(p) \/ Return(p) PROVE ReadyInv'
    <2>1. PICK c \in BOOLEAN : main' = [main EXCEPT ![p].call = c]
      BY <1>3 DEF Call, Return
    <2> DEFINE m == [main[p] EXCEPT !.call = c]
    <2>2. m \in Mains /\ m.loop = main[p].loop /\ m.flags = main[p].flags /\ m.probe = main[p].probe
      BY <1>m DEF Mains
    <2>3. QED
      BY <1>1, <2>1, <2>2
  <1>4. ASSUME NEW p \in Procs, Sigterm(p) PROVE ReadyInv'
    <2>1. PICK c \in BOOLEAN : main' = [main EXCEPT ![p].sigterm = TRUE, ![p].canceled = c]
      <3> DEFINE c == main[p].canceled \/ Spawned(p)
      <3>1. c \in BOOLEAN /\ main' = [main EXCEPT ![p].sigterm = TRUE, ![p].canceled = c]
        BY <1>4 DEF Sigterm
      <3> HIDE DEF c
      <3>2. QED
        BY <3>1
    <2> DEFINE m == [main[p] EXCEPT !.sigterm = TRUE, !.canceled = c]
    <2>2. m \in Mains /\ m.loop = main[p].loop /\ m.flags = main[p].flags /\ m.probe = main[p].probe
      BY <1>m DEF Mains
    <2>3. QED
      BY <1>1, <2>1, <2>2
  <1>5. ASSUME NEW p \in Procs, Exit(p) \/ Crash(p) PROVE ReadyInv'
    <2>1. main' = [main EXCEPT ![p] = Begin]
      BY <1>5 DEF Exit, Crash
    <2>2. QED
      BY <2>1, BeginTells, TellsFrame
  <1>6. ASSUME NEW p \in Procs, Spawn(p) PROVE ReadyInv'
    <2>1. PICK workers \in {"spawned", "off"} :
            main' = [main EXCEPT ![p].loop = [g \in Goroutine |-> IF g \in Server THEN "running" ELSE workers],
                                 ![p].canceled = main[p].sigterm]
      BY <1>6 DEF Spawn
    <2> DEFINE f == [g \in Goroutine |-> IF g \in Server THEN "running" ELSE workers]
               m == [main[p] EXCEPT !.loop = f, !.canceled = main[p].sigterm]
    <2>2. Tells(f, main[p].flags, main[p].probe)
      <3>1. \A g \in Goroutine : main[p].loop[g] = "off"
        BY <1>6 DEF Spawn, Spawned
      <3>2. QED
        BY <1>m, <3>1 DEF Tells, Worker, Server, Goroutine
    <2>3. main' = [main EXCEPT ![p] = m] /\ m.loop = f /\ m.flags = main[p].flags /\ m.probe = main[p].probe
      <3> HIDE DEF f
      <3>1. QED
        BY <1>m, <2>1 DEF Mains, f
    <2> HIDE DEF m, f
    <2>4. QED
      BY <2>2, <2>3, TellsFrame
  <1>7. ASSUME NEW p \in Procs, NEW g \in Goroutine, NEW f, NEW flags, NEW c, Tells(f, flags, main[p].probe),
               main' = [main EXCEPT ![p] = [main[p] EXCEPT !.loop = f, !.flags = flags, !.canceled = c]]
        PROVE  ReadyInv'
    <2> DEFINE m == [main[p] EXCEPT !.loop = f, !.flags = flags, !.canceled = c]
    <2>1. m.loop = f /\ m.flags = flags /\ m.probe = main[p].probe
      BY <1>m DEF Mains
    <2>2. QED
      BY <1>7, <2>1, TellsFrame
  <1>8. ASSUME NEW p \in Procs, NEW g \in Goroutine, Run(p, g) PROVE ReadyInv'
    <2> DEFINE f == [main[p].loop EXCEPT ![g] = "running"]
    <2>1. Tells(f, main[p].flags \cup {g}, main[p].probe)
      BY <1>8, <1>m, GoroutineTells DEF Run, Mains
    <2>2. main' = [main EXCEPT ![p] = [main[p] EXCEPT !.loop = f, !.flags = main[p].flags \cup {g},
                                                      !.canceled = main[p].canceled]]
      BY <1>8, <1>m DEF Run, Mains
    <2>3. QED
      BY <1>7, <2>1, <2>2
  <1>9. ASSUME NEW p \in Procs, NEW g \in Goroutine, Finish(p, g) PROVE ReadyInv'
    <2> DEFINE f == [main[p].loop EXCEPT ![g] = "ended"]
    <2>1. Tells(f, main[p].flags \ {g}, main[p].probe)
      BY <1>9, <1>m, GoroutineTells DEF Finish, Mains
    <2>2. main' = [main EXCEPT ![p] = [main[p] EXCEPT !.loop = f, !.flags = main[p].flags \ {g},
                                                      !.canceled = main[p].canceled]]
      BY <1>9, <1>m DEF Finish, Mains
    <2>3. QED
      BY <1>7, <2>1, <2>2
  <1>10. ASSUME NEW p \in Procs, NEW g \in Goroutine, Drain(p, g) \/ ServeError(p, g) PROVE ReadyInv'
    <2> DEFINE f == [main[p].loop EXCEPT ![g] = "draining"]
    <2>1. Tells(f, main[p].flags, main[p].probe)
      BY <1>10, <1>m, GoroutineTells DEF Drain, ServeError, Loop, Mains
    <2>2. \E c : main' = [main EXCEPT ![p] = [main[p] EXCEPT !.loop = f, !.flags = main[p].flags, !.canceled = c]]
      <3>1. ASSUME Drain(p, g)
            PROVE  main' = [main EXCEPT ![p] = [main[p] EXCEPT !.loop = f, !.flags = main[p].flags,
                                                               !.canceled = main[p].canceled]]
        BY <3>1, <1>m DEF Drain, Loop, Mains
      <3>2. ASSUME ServeError(p, g)
            PROVE  main' = [main EXCEPT ![p] = [main[p] EXCEPT !.loop = f, !.flags = main[p].flags,
                                                               !.canceled = TRUE]]
        BY <3>2, <1>m DEF ServeError, Mains
      <3>3. QED
        BY <1>10, <3>1, <3>2
    <2>3. QED
      BY <1>7, <2>1, <2>2
  <1>11. ASSUME NEW p \in Procs, NEW g \in Goroutine, Drained(p, g) PROVE ReadyInv'
    <2> DEFINE f == [main[p].loop EXCEPT ![g] = "ended"]
    <2>1. Tells(f, main[p].flags, main[p].probe)
      BY <1>11, <1>m, GoroutineTells DEF Drained, Loop, Mains
    <2>2. main' = [main EXCEPT ![p] = [main[p] EXCEPT !.loop = f, !.flags = main[p].flags,
                                                      !.canceled = main[p].canceled]]
      BY <1>11, <1>m DEF Drained, Loop, Mains
    <2>3. QED
      BY <1>7, <2>1, <2>2
  <1>12. ASSUME NEW p \in Procs, NEW r, main' = [main EXCEPT ![p].probe = r], Tells(main[p].loop, main[p].flags, r)
         PROVE  ReadyInv'
    <2> DEFINE m == [main[p] EXCEPT !.probe = r]
    <2>1. m.loop = main[p].loop /\ m.flags = main[p].flags /\ m.probe = r
      BY <1>m DEF Mains
    <2>2. QED
      BY <1>12, <2>1, TellsFrame
  <1>13. ASSUME NEW p \in Procs, AskReady(p) PROVE ReadyInv'
    <2> DEFINE late == \E g \in Worker : main[p].loop[g] = "ended"
               r    == [at |-> "delivery", late |-> late]
    <2>1. main' = [main EXCEPT ![p].probe = r]
      BY <1>13 DEF AskReady, Probe
    <2>2. late => main[p].loop["delivery"] = "ended"
      BY <1>13, <1>m DEF AskReady, Tells, Worker
    <2>3. late \in BOOLEAN
      OBVIOUS
    <2> HIDE DEF late
    <2>4. Tells(main[p].loop, main[p].flags, r)
      BY <1>m, <2>2, <2>3 DEF Tells
    <2>5. QED
      BY <1>12, <2>1, <2>4
  <1>14. ASSUME NEW p \in Procs, CheckReady(p) PROVE ReadyInv'
    <2>1. Tells(main[p].loop, main[p].flags, NoProbe)
      BY <1>m DEF Tells, NoProbe
    <2>2. ASSUME "delivery" \in main[p].flags
          PROVE  Tells(main[p].loop, main[p].flags, [main[p].probe EXCEPT !.at = "ready"])
      <3>1. main[p].loop["delivery"] = "running"
        BY <1>m, <2>2 DEF Tells, Worker
      <3>2. main[p].probe \in Probes
        BY <1>m DEF Mains
      <3>3. QED
        BY <1>m, <3>1, <3>2 DEF Tells, Probes
    <2>3. CASE /\ "delivery" \in main[p].flags
               /\ Probe(p, "delivery", [main[p].probe EXCEPT !.at = "ready"])
      <3>1. PICK r : r = [main[p].probe EXCEPT !.at = "ready"]
        OBVIOUS
      <3>2. main' = [main EXCEPT ![p].probe = r]
        BY <2>3, <3>1 DEF Probe
      <3>3. Tells(main[p].loop, main[p].flags, r)
        BY <2>2, <2>3, <3>1
      <3>4. QED
        BY <1>12, <3>2, <3>3
    <2>4. CASE \E at \in {"delivery", "ready"} : Probe(p, at, NoProbe)
      <3>1. main' = [main EXCEPT ![p].probe = NoProbe]
        BY <2>4 DEF Probe
      <3>2. QED
        BY <1>12, <2>1, <3>1
    <2>5. QED
      BY <1>14, <2>3, <2>4 DEF CheckReady
  <1>15. ASSUME NEW p \in Procs, Start(p) \/ Open(p) \/ Close(p) PROVE ReadyInv'
    BY <1>0, <1>15 DEF Start, Open, Close
  <1>16. CASE OldBinaryInserts \/ UNCHANGED vars
    BY <1>0, <1>16 DEF OldBinaryInserts, vars
  <1>17. QED
    BY <1>2, <1>3, <1>4, <1>5, <1>6, <1>8, <1>9, <1>10, <1>11, <1>13, <1>14, <1>15, <1>16 DEF SupervisionNext, Progress

(* No process has been asked. *)
LEMMA ReadyInit == SupervisionInit => ReadyInv
  BY BeginTells DEF SupervisionInit, ReadyInv

(***************************************************************************)
(* For any number of processes and any schedule of probes, signals and     *)
(* errors: readiness.check does not answer ready to a request that came    *)
(* after a loop had ended.                                                 *)
(***************************************************************************)
THEOREM ReadyIsTimely == SupervisionSpec => []ReadyIsNotLate
  <1>1. ReadyInv => ReadyIsNotLate
    BY DEF ReadyInv, Tells, ReadyIsNotLate
  <1>2. QED
    BY <1>1, SupervisionInvInit, SupervisionInvStep, ReadyInit, ReadyStep, PTL DEF SupervisionSpec

----------------------------------------------------------------------------
(* Timestamps. *)

(* A set of naturals that has an element has a least one. *)
LEMMA LeastNatural ==
  ASSUME NEW T \in SUBSET Nat, T # {}
  PROVE  \E n \in T : \A m \in T : ~(m < n)
  <1> DEFINE R == OpToRel(<, Nat)
  <1>1. IsWellFoundedOn(R, Nat)
    BY NatLessThanWellFounded
  <1>2. \A m, n \in Nat : <<m, n>> \in R <=> m < n
    BY DEF OpToRel
  <1> HIDE DEF R
  <1>3. PICK n \in T : \A m \in T : ~(<<m, n>> \in R)
    BY <1>1, WFMin
  <1>4. QED
    BY <1>2, <1>3

(* The places of two texts in their concatenation. *)
LEMMA JoinedText ==
  ASSUME NEW a \in Seq(Int), NEW b \in Seq(Int)
  PROVE  /\ a \o b \in Seq(Int)
         /\ Len(a \o b) = Len(a) + Len(b)
         /\ \A i \in 1..Len(a) : (a \o b)[i] = a[i]
         /\ \A i \in 1..Len(b) : (a \o b)[i + Len(a)] = b[i]
  <1>1. Len(a) \in Nat /\ Len(b) \in Nat
    BY SMTT(30)
  <1>2. a \o b \in Seq(Int) /\ Len(a \o b) = Len(a) + Len(b)
        /\ \A i \in 1..Len(a) + Len(b) : (a \o b)[i] = IF i <= Len(a) THEN a[i] ELSE b[i - Len(a)]
    BY ConcatProperties
  <1>3. ASSUME NEW i \in 1..Len(b) PROVE (a \o b)[i + Len(a)] = b[i]
    <2>1. i + Len(a) \in 1..Len(a) + Len(b) /\ ~(i + Len(a) <= Len(a)) /\ (i + Len(a)) - Len(a) = i
      BY <1>1, SMTT(30)
    <2>2. QED
      BY <1>2, <2>1
  <1>4. QED
    BY <1>1, <1>2, <1>3, SMTT(30)

(* Where the digits of a timestamp are in its text. *)
LEMMA WrittenText ==
  ASSUME NEW t \in Instant, NEW n \in 0..Digits
  PROVE  /\ Written(t, n) \in Seq(Int)
         /\ Len(Written(t, n)) = n + 3
         /\ Written(t, n)[1] = 48 + t[0]
         /\ Written(t, n)[2] = Dot
         /\ \A i \in 1..n : Written(t, n)[i + 2] = 48 + t[i]
         /\ Written(t, n)[n + 3] = Zulu
  <1> DEFINE a == <<Digit(t, 0), Dot>>
             b == [i \in 1..n |-> Digit(t, i)]
             c == <<Zulu>>
  <1>0. Digits \in Nat /\ n \in Nat
    BY SupervisionConstants, SMTT(30)
  <1>1. \A i \in 0..Digits : t[i] \in Nat /\ Digit(t, i) = 48 + t[i] /\ Digit(t, i) \in Int
    BY <1>0, SMTT(30) DEF Instant, Digit
  <1>2. a \in Seq(Int) /\ Len(a) = 2 /\ a[1] = 48 + t[0] /\ a[2] = Dot
    BY <1>0, <1>1, SMTT(30) DEF Dot
  <1>3. b \in Seq(Int) /\ Len(b) = n /\ \A i \in 1..n : b[i] = 48 + t[i]
    <2>1. \A i \in 1..n : Digit(t, i) \in Int /\ Digit(t, i) = 48 + t[i]
      BY <1>0, <1>1, SMTT(30)
    <2>2. QED
      BY <1>0, <2>1, SMTT(30)
  <1>4. c \in Seq(Int) /\ Len(c) = 1 /\ c[1] = Zulu
    BY SMTT(30) DEF Zulu
  <1> HIDE DEF a, b, c
  <1>5. PICK ab : ab = a \o b
    OBVIOUS
  <1>6. ab \in Seq(Int) /\ Len(ab) = n + 2 /\ ab[1] = a[1] /\ ab[2] = a[2] /\ \A i \in 1..n : ab[i + 2] = b[i]
    <2>1. ab \in Seq(Int) /\ Len(ab) = Len(a) + Len(b) /\ (\A i \in 1..Len(a) : ab[i] = a[i])
          /\ \A i \in 1..Len(b) : ab[i + Len(a)] = b[i]
      BY <1>2, <1>3, <1>5, JoinedText
    <2>2. QED
      BY <1>0, <1>2, <1>3, <2>1, SMTT(30)
  <1>7. PICK w : w = ab \o c
    OBVIOUS
  <1>8. w \in Seq(Int) /\ Len(w) = n + 3 /\ (\A i \in 1..n + 2 : w[i] = ab[i]) /\ w[n + 3] = c[1]
    <2>1. w \in Seq(Int) /\ Len(w) = Len(ab) + Len(c) /\ (\A i \in 1..Len(ab) : w[i] = ab[i])
          /\ \A i \in 1..Len(c) : w[i + Len(ab)] = c[i]
      BY <1>4, <1>6, <1>7, JoinedText
    <2>2. w[1 + Len(ab)] = c[1]
      BY <1>4, <2>1, SMTT(30)
    <2>3. 1 + Len(ab) = n + 3
      BY <1>0, <1>6, SMTT(30)
    <2>4. QED
      BY <1>0, <1>4, <1>6, <2>1, <2>2, <2>3, SMTT(30)
  <1>9. Written(t, n) = w
    BY <1>5, <1>7 DEF Written, a, b, c
  <1>10. ASSUME NEW i \in 1..n PROVE w[i + 2] = 48 + t[i]
    <2>1. i + 2 \in 1..n + 2
      BY <1>0, SMTT(30)
    <2>2. QED
      BY <1>3, <1>6, <1>8, <2>1
  <1>11. w[1] = 48 + t[0] /\ w[2] = Dot
    BY <1>0, <1>2, <1>6, <1>8, SMTT(30)
  <1>12. QED
    BY <1>4, <1>8, <1>9, <1>10, <1>11

\* Digit i of the instant a text tells, in either form.
Read(text, i) ==
  IF i = 0 THEN text[1] - 48
  ELSE IF i + 2 < Len(text) THEN text[i + 2] - 48 ELSE 0

(* A text that leaves out trailing zeros only tells every digit. *)
LEMMA WrittenTells ==
  ASSUME NEW t \in Instant, NEW n \in 0..Digits, \A i \in n + 1..Digits : t[i] = 0
  PROVE  \A i \in 0..Digits : Read(Written(t, n), i) = t[i]
  <1> DEFINE w == Written(t, n)
  <1>1. Digits \in Nat /\ \A i \in 0..Digits : t[i] \in Nat
    BY SupervisionConstants DEF Instant
  <1>2. Len(w) = n + 3 /\ w[1] = 48 + t[0] /\ \A i \in 1..n : w[i + 2] = 48 + t[i]
    BY WrittenText
  <1> HIDE DEF w
  <1>3. QED
    BY <1>1, <1>2, SMTT(30) DEF Read, w

(* formatTS and the trimmed layout both tell the instant. *)
LEMMA FormsTell ==
  ASSUME NEW t \in Instant, NEW text \in {FormatTS(t), FormatTrimmed(t)}
  PROVE  \A i \in 0..Digits : Read(text, i) = t[i]
  <1>0. Digits \in Nat /\ \A i \in 0..Digits : t[i] \in Nat
    BY SupervisionConstants DEF Instant
  <1>1. CASE text = FormatTS(t)
    BY <1>0, <1>1, WrittenTells, SMTT(30) DEF FormatTS
  <1>2. CASE text = FormatTrimmed(t)
    <2> DEFINE ends == {n \in 0..Digits : \A i \in n + 1..Digits : t[i] = 0}
               last == CHOOSE n \in ends : \A m \in ends : n <= m
    <2>1. Digits \in ends /\ ends \in SUBSET Nat
      BY <1>0, SMTT(30)
    <2>2. \E n \in ends : \A m \in ends : n <= m
      <3> HIDE DEF ends
      <3>1. PICK n \in ends : \A m \in ends : ~(m < n)
        BY <2>1, LeastNatural
      <3>2. QED
        BY <2>1, <3>1, SMTT(30)
    <2>3. last \in ends
      <3> HIDE DEF ends
      <3>1. QED
        BY <2>2
    <2>4. text = IF last = 0 THEN <<Digit(t, 0), Zulu>> ELSE Written(t, last)
      BY <1>2 DEF FormatTrimmed
    <2>5. last \in 0..Digits /\ \A i \in last + 1..Digits : t[i] = 0
      BY <2>3
    <2> HIDE DEF last, ends
    <2>6. CASE last = 0
      <3>1. Len(text) = 2 /\ text[1] = 48 + t[0]
        BY <2>4, <2>6 DEF Digit
      <3>2. \A i \in 1..Digits : t[i] = 0
        BY <2>5, <2>6, SMTT(30)
      <3>3. QED
        BY <1>0, <3>1, <3>2, SMTT(30) DEF Read
    <2>7. CASE last # 0
      BY <2>4, <2>5, <2>7, WrittenTells
    <2>8. QED
      BY <2>6, <2>7
  <1>3. QED
    BY <1>1, <1>2

(***************************************************************************)
(* normalizeTimestamps loses nothing: what time.Parse reads from a row,    *)
(* whichever of the two binaries wrote it, is the instant it was written   *)
(* for.                                                                    *)
(***************************************************************************)
THEOREM ParseInverts ==
  ASSUME NEW n \in DOMAIN Times, NEW text \in {FormatTS(Times[n]), FormatTrimmed(Times[n])}
  PROVE  Parse(text) = Times[n]
  <1>1. Times[n] \in Instants /\ \A u \in Instants : u \in Instant
    BY SupervisionConstants, SMTT(30) DEF Instants
  <1>2. Parse(text) \in Instants /\ text \in {FormatTS(Parse(text)), FormatTrimmed(Parse(text))}
    BY <1>1 DEF Parse
  <1>3. PICK u \in Instant : u = Parse(text)
    BY <1>1, <1>2
  <1>4. \A i \in 0..Digits : u[i] = Times[n][i]
    BY <1>1, <1>2, <1>3, FormsTell
  <1>5. PICK v \in Instant : v = Times[n]
    BY <1>1
  <1>6. u \in [0..Digits -> Nat] /\ v \in [0..Digits -> Nat] /\ \A i \in 0..Digits : u[i] = v[i]
    BY <1>4, <1>5 DEF Instant
  <1>7. u = v
    <2>1. u = [i \in 0..Digits |-> u[i]] /\ v = [i \in 0..Digits |-> v[i]]
      BY <1>6
    <2>2. [i \in 0..Digits |-> u[i]] = [i \in 0..Digits |-> v[i]]
      BY <1>6
    <2>3. QED
      BY <2>1, <2>2
  <1>8. QED
    BY <1>3, <1>5, <1>7

(* The text of timestampLayout sorts as the instants do. *)
LEMMA TextOrder ==
  ASSUME NEW t \in Instant, NEW u \in Instant, Earlier(t, u)
  PROVE  TextBefore(FormatTS(t), FormatTS(u))
  <1> DEFINE a == Written(t, Digits)
             b == Written(u, Digits)
  <1>0. Digits \in Nat /\ \A i \in 0..Digits : t[i] \in Nat /\ u[i] \in Nat
    BY SupervisionConstants DEF Instant
  <1>1. Len(a) = Digits + 3 /\ a[1] = 48 + t[0] /\ a[2] = Dot /\ \A i \in 1..Digits : a[i + 2] = 48 + t[i]
    BY <1>0, WrittenText, SMTT(30)
  <1>2. Len(b) = Digits + 3 /\ b[1] = 48 + u[0] /\ b[2] = Dot /\ \A i \in 1..Digits : b[i + 2] = 48 + u[i]
    BY <1>0, WrittenText, SMTT(30)
  <1>3. PICK k \in 0..Digits : t[k] < u[k] /\ \A i \in 0..k - 1 : t[i] = u[i]
    BY DEF Earlier
  <1> HIDE DEF a, b
  <1>4. \E n \in 1..Len(b) : (\A i \in 1..n - 1 : i <= Len(a) /\ a[i] = b[i]) /\ a[n] < b[n]
    <2>1. CASE k = 0
      <3>1. a[1] < b[1] /\ 1 \in 1..Len(b) /\ \A i \in 1..1 - 1 : i <= Len(a) /\ a[i] = b[i]
        BY <1>0, <1>1, <1>2, <1>3, <2>1, SMTT(30)
      <3>2. QED
        BY <3>1
    <2>2. CASE k # 0
      <3>1. k + 2 \in 1..Len(b) /\ a[k + 2] < b[k + 2]
        BY <1>0, <1>1, <1>2, <1>3, <2>2, SMTT(30)
      <3>2. ASSUME NEW i \in 1..k + 2 - 1 PROVE i <= Len(a) /\ a[i] = b[i]
        <4>1. CASE i <= 2
          BY <1>0, <1>1, <1>2, <1>3, <2>2, <4>1, SMTT(30)
        <4>2. CASE i > 2
          <5>1. i - 2 \in 1..Digits /\ i - 2 \in 0..k - 1 /\ i = (i - 2) + 2
            BY <1>0, <4>2, SMTT(30)
          <5>2. a[(i - 2) + 2] = 48 + t[i - 2] /\ b[(i - 2) + 2] = 48 + u[i - 2]
            BY <1>1, <1>2, <5>1
          <5>3. QED
            BY <1>0, <1>1, <1>3, <5>1, <5>2, SMTT(30)
        <4>3. QED
          BY <1>0, <4>1, <4>2, SMTT(30)
      <3>3. QED
        BY <3>1, <3>2, SMTT(30)
    <2>3. QED
      BY <2>1, <2>2
  <1>5. QED
    BY <1>4 DEF TextBefore, FormatTS, a, b

----------------------------------------------------------------------------
(* The file. *)

\* The migrations behind step n have been made.
MigratedTo(n) ==
  /\ n > 1 => "jobs" \in columns
  /\ \A i \in DOMAIN Migration : n > i + 1 => Migration[i] \in columns

Forms(t) == {FormatTS(t), FormatTrimmed(t)}

\* Where p is: at a step whose migrations are done, at the first one before
\* it holds the lock.
Placed(p) ==
  /\ Step(p) \in 1..LastStep + 1
  /\ door[p] \in {"out", "contending"} => Step(p) = 1
  /\ MigratedTo(Step(p))

\* Row n tells Times[n] in one of the two forms.
RowsTell ==
  /\ stamps \in Seq(Text) /\ Len(stamps) <= Len(Times)
  /\ \A n \in DOMAIN stamps : stamps[n] \in Forms(Times[n])

Normal == \A n \in DOMAIN stamps : stamps[n] = FormatTS(Times[n])

\* The jobs table is there before its columns.
TableInv == columns \subseteq Column /\ (columns # {} => "jobs" \in columns)

CrashesCounted == crashes \in 0..CrashBound

(***************************************************************************)
(* The inductive invariant of the file: a process is where its migrations  *)
(* are, and while one has the store open behind normalizeTimestamps every  *)
(* row is in the new form.                                                 *)
(***************************************************************************)
FileInv ==
  /\ TableInv
  /\ RowsTell
  /\ CrashesCounted
  /\ \A p \in Procs : Placed(p) /\ (Opened(p) => Normal)

(* The steps of initSchema, counted. *)
LEMMA Steps == LastStep = 8 /\ DOMAIN Migration = 1..6
  BY SMTT(30) DEF LastStep, Migration

(* No column is dropped, so what was migrated stays so. *)
LEMMA StaysMigrated ==
  ASSUME columns \subseteq columns', NEW n
  PROVE  MigratedTo(n) => /\ n > 1 => "jobs" \in columns'
                          /\ \A i \in DOMAIN Migration : n > i + 1 => Migration[i] \in columns'
  BY DEF MigratedTo

(* A process whose step and place stay, or that opens at the first step, stays placed. *)
LEMMA PlacedFrame ==
  ASSUME NEW p \in Procs, Placed(p), columns \subseteq columns', Step(p)' = Step(p),
         door'[p] \in {"out", "contending"} => door[p] \in {"out", "contending"}
  PROVE  Placed(p)'
  BY StaysMigrated DEF Placed, MigratedTo

(* What is normal stays so for those who see it. *)
LEMMA OpenedFrame ==
  ASSUME NEW p \in Procs, Placed(p), Step(p)' = Step(p),
         door'[p] = "open" => door[p] \in {"open", "contending"}
  PROVE  Opened(p)' => Opened(p)
  BY Steps, SMTT(30) DEF Placed, Opened

(* A row more, in one of the two forms. *)
LEMMA RowInserted ==
  ASSUME RowsTell, Len(stamps) < Len(Times), NEW text \in Forms(Times[Len(stamps) + 1]),
         stamps' = Append(stamps, text)
  PROVE  RowsTell' /\ (Normal /\ text = FormatTS(Times[Len(stamps) + 1]) => Normal')
  <1>1. Len(stamps) \in Nat /\ Len(Times) \in Nat /\ DOMAIN Times = 1..Len(Times)
    BY SupervisionConstants, SMTT(30) DEF RowsTell
  <1>2. Times[Len(stamps) + 1] \in Instants
    BY <1>1, SMTT(30) DEF Instants
  <1>3. text \in Text
    BY <1>2 DEF Forms, Text
  <1>4. stamps' \in Seq(Text) /\ Len(stamps') = Len(stamps) + 1 /\ DOMAIN stamps' = 1..Len(stamps) + 1
        /\ DOMAIN stamps = 1..Len(stamps) /\ (\A n \in 1..Len(stamps) : stamps'[n] = stamps[n])
        /\ stamps'[Len(stamps) + 1] = text
    BY <1>1, <1>3, SMTT(30) DEF RowsTell
  <1>5. \A n \in DOMAIN stamps' : n \in DOMAIN stamps \/ n = Len(stamps) + 1
    BY <1>1, <1>4, SMTT(30)
  <1>6. QED
    BY <1>1, <1>4, <1>5, SMTT(30) DEF RowsTell, Normal

(* normalizeTimestamps leaves every row in the new form. *)
LEMMA Normalized ==
  ASSUME RowsTell, stamps' = [n \in DOMAIN stamps |-> FormatTS(Parse(stamps[n]))]
  PROVE  RowsTell' /\ Normal'
  <1>1. Len(stamps) \in Nat /\ DOMAIN stamps = 1..Len(stamps) /\ \A n \in DOMAIN stamps : n \in DOMAIN Times
    BY SupervisionConstants, SMTT(30) DEF RowsTell
  <1>2. \A n \in DOMAIN stamps : Parse(stamps[n]) = Times[n]
    BY <1>1, ParseInverts DEF RowsTell, Forms
  <1>3. DOMAIN stamps' = DOMAIN stamps /\ \A n \in DOMAIN stamps : stamps'[n] = FormatTS(Times[n])
    BY <1>2
  <1>4. \A n \in DOMAIN stamps : FormatTS(Times[n]) \in Text /\ FormatTS(Times[n]) \in Forms(Times[n])
    BY <1>1 DEF Text, Instants, Forms
  <1>5. stamps' \in Seq(Text) /\ Len(stamps') = Len(stamps)
    <2>1. stamps' = [n \in 1..Len(stamps) |-> FormatTS(Parse(stamps[n]))]
      BY <1>1
    <2>2. \A n \in 1..Len(stamps) : FormatTS(Parse(stamps[n])) \in Text
      BY <1>1, <1>2, <1>4
    <2>3. QED
      BY <1>1, <2>1, <2>2, SMTT(30)
  <1>6. QED
    BY <1>3, <1>4, <1>5 DEF RowsTell, Normal

(* The steps of main after sqlite.New leave the step of initSchema alone. *)
LEMMA StepsStay ==
  ASSUME SupervisionInv, NEW p \in Procs,
         \/ Start(p) \/ Open(p) \/ Close(p) \/ Spawn(p) \/ Call(p) \/ Return(p) \/ AskReady(p) \/ CheckReady(p)
         \/ Sigterm(p)
         \/ \E g \in Goroutine : Run(p, g) \/ Finish(p, g) \/ Drain(p, g) \/ Drained(p, g) \/ ServeError(p, g)
  PROVE  \A q \in Procs : Step(q)' = Step(q)
  <1>0. main \in [Procs -> Mains]
    BY DEF SupervisionInv
  <1>1. CASE Start(p) \/ Open(p) \/ Close(p)
    BY <1>1 DEF Start, Open, Close, Step
  <1>2. CASE Spawn(p)
    BY <1>0, <1>2, SMTT(30) DEF Spawn, Step, Mains
  <1>3. CASE Call(p) \/ Return(p)
    BY <1>0, <1>3, SMTT(30) DEF Call, Return, Step, Mains
  <1>4. CASE AskReady(p) \/ CheckReady(p)
    <2>1. \A from, to : Probe(p, from, to) => \A q \in Procs : Step(q)' = Step(q)
      BY <1>0, SMTT(30) DEF Probe, Step, Mains
    <2>2. QED
      BY <1>4, <2>1 DEF AskReady, CheckReady
  <1>5. CASE Sigterm(p)
    <2> DEFINE c == main[p].canceled \/ Spawned(p)
    <2>1. main' = [main EXCEPT ![p].sigterm = TRUE, ![p].canceled = c]
      BY <1>5 DEF Sigterm
    <2> HIDE DEF c
    <2>2. QED
      BY <1>0, <2>1 DEF Step, Mains
  <1>6. ASSUME NEW g \in Goroutine, Run(p, g) PROVE \A q \in Procs : Step(q)' = Step(q)
    <2> DEFINE m == [main[p] EXCEPT !.loop[g] = "running", !.flags = @ \cup {g}]
    <2>1. main' = [main EXCEPT ![p] = m]
      BY <1>6 DEF Run
    <2>2. m.step = main[p].step
      BY <1>0 DEF Mains
    <2> HIDE DEF m
    <2>3. QED
      BY <1>0, <2>1, <2>2 DEF Step
  <1>7. ASSUME NEW g \in Goroutine, Finish(p, g) PROVE \A q \in Procs : Step(q)' = Step(q)
    <2> DEFINE m == [main[p] EXCEPT !.loop[g] = "ended", !.flags = @ \ {g}]
    <2>1. main' = [main EXCEPT ![p] = m]
      BY <1>7 DEF Finish
    <2>2. m.step = main[p].step
      BY <1>0 DEF Mains
    <2> HIDE DEF m
    <2>3. QED
      BY <1>0, <2>1, <2>2 DEF Step
  <1>8. ASSUME NEW g \in Goroutine, Drain(p, g) \/ Drained(p, g) PROVE \A q \in Procs : Step(q)' = Step(q)
    <2>1. PICK to : main' = [main EXCEPT ![p].loop[g] = to]
      BY <1>8 DEF Drain, Drained, Loop
    <2> DEFINE m == [main[p] EXCEPT !.loop[g] = to]
    <2>2. main' = [main EXCEPT ![p] = m]
      BY <2>1
    <2>3. m.step = main[p].step
      BY <1>0 DEF Mains
    <2> HIDE DEF m
    <2>4. QED
      BY <1>0, <2>2, <2>3 DEF Step
  <1>9. ASSUME NEW g \in Goroutine, ServeError(p, g) PROVE \A q \in Procs : Step(q)' = Step(q)
    <2> DEFINE m == [main[p] EXCEPT !.loop[g] = "draining", !.canceled = TRUE]
    <2>1. main' = [main EXCEPT ![p] = m]
      BY <1>9 DEF ServeError
    <2>2. m.step = main[p].step
      BY <1>0 DEF Mains
    <2> HIDE DEF m
    <2>3. QED
      BY <1>0, <2>1, <2>2 DEF Step
  <1>10. QED
    BY <1>1, <1>2, <1>3, <1>4, <1>5, <1>6, <1>7, <1>8, <1>9

(* Every step of a process, a crash in the middle of the migrations and an
   older binary included, keeps the file in order. *)
LEMMA FileStep == SupervisionInv /\ FileInv /\ [SupervisionNext]_vars => FileInv'
  <1> SUFFICES ASSUME SupervisionInv, FileInv, [SupervisionNext]_vars PROVE FileInv'
    OBVIOUS
  <1>0. /\ door \in [Procs -> {"out", "contending", "refused", "open", "left"}]
        /\ \A p \in Procs : door[p] = "open" => lock[p] = "exclusive"
        /\ main \in [Procs -> Mains]
        /\ TableInv /\ RowsTell /\ CrashesCounted
        /\ \A p \in Procs : Placed(p) /\ (Opened(p) => Normal)
    BY DEF SupervisionInv, FileInv, LockInv, LockTypeOK
  <1>u. ASSUME UNCHANGED lockVars PROVE UNCHANGED door
    BY <1>u DEF lockVars
  <1>f. ASSUME UNCHANGED columns PROVE TableInv' /\ columns \subseteq columns'
    BY <1>0, <1>f DEF TableInv
  <1>r. ASSUME UNCHANGED stamps PROVE RowsTell' /\ Normal' = Normal
    BY <1>0, <1>r DEF RowsTell, Normal
  <1>c. /\ UNCHANGED crashes => CrashesCounted'
        /\ crashes < CrashBound /\ crashes' = crashes + 1 => CrashesCounted'
    BY <1>0, SupervisionConstants, SMTT(30) DEF CrashesCounted
  \* The file stays, and so do the steps; doors may move.
  <1>1. ASSUME UNCHANGED fileVars, CrashesCounted', \A q \in Procs : Step(q)' = Step(q),
               \A q \in Procs : /\ door'[q] \in {"out", "contending"} => door[q] \in {"out", "contending"}
                                /\ door'[q] = "open" => door[q] \in {"open", "contending"}
        PROVE  FileInv'
    <2>1. UNCHANGED <<columns, stamps>>
      BY <1>1 DEF fileVars
    <2>2. \A q \in Procs : Placed(q)'
      BY <1>0, <1>1, <1>f, <2>1, PlacedFrame
    <2>3. \A q \in Procs : Opened(q)' => Opened(q)
      BY <1>0, <1>1, OpenedFrame
    <2>4. QED
      BY <1>0, <1>1, <1>f, <1>r, <2>1, <2>2, <2>3, SMTT(30) DEF FileInv
  <1>2. ASSUME NEW p \in Procs, Start(p) \/ Open(p) \/ Close(p) PROVE FileInv'
    <2>1. UNCHANGED <<fileVars, crashes>>
      BY <1>2 DEF Start, Open, Close
    <2>2. \A q \in Procs : /\ door'[q] \in {"out", "contending"} => door[q] \in {"out", "contending"}
                           /\ door'[q] = "open" => door[q] \in {"open", "contending"}
      BY <1>0, <1>2 DEF Start, Open, Close, Leave, Contend, Climb, Share, Reserve, Await, Exclude, BackOff, Keep,
                        GiveUp, Take
    <2>3. \A q \in Procs : Step(q)' = Step(q)
      BY <1>2, StepsStay
    <2>4. QED
      BY <1>1, <1>c, <2>1, <2>2, <2>3
  <1>3. ASSUME NEW p \in Procs,
               \/ Spawn(p) \/ Call(p) \/ AskReady(p) \/ CheckReady(p) \/ Sigterm(p)
               \/ \E g \in Goroutine : Run(p, g) \/ Finish(p, g) \/ Drain(p, g) \/ Drained(p, g) \/ ServeError(p, g)
        PROVE  FileInv'
    <2>1. UNCHANGED lockVars /\ UNCHANGED fileVars
      BY <1>3 DEF Spawn, Call, AskReady, CheckReady, Probe, Sigterm, Run, Finish, Drain, Drained, ServeError, Loop
    <2>2. CrashesCounted'
      BY <1>3, <1>c DEF Spawn, Call, AskReady, CheckReady, Probe, Sigterm, Run, Finish, Drain, Drained, ServeError,
                        Loop
    <2>3. \A q \in Procs : Step(q)' = Step(q)
      BY <1>3, StepsStay
    <2>4. QED
      BY <1>1, <1>u, <2>1, <2>2, <2>3
  <1>4. ASSUME NEW p \in Procs, Crash(p) \/ Exit(p) PROVE FileInv'
    <2>1. UNCHANGED fileVars /\ CrashesCounted' /\ UNCHANGED <<columns, stamps>>
      BY <1>4, <1>c DEF Crash, Exit, fileVars
    <2>2. main' = [main EXCEPT ![p] = Begin]
      BY <1>4 DEF Crash, Exit
    <2>3. Step(p)' = 1 /\ \A q \in Procs \ {p} : Step(q)' = Step(q)
      BY <1>0, <2>2 DEF Step, Begin
    <2>4. \A q \in Procs \ {p} : door'[q] = door[q]
      BY <1>0, <1>4 DEF Crash, Exit, Leave, lockVars
    <2>5. Placed(p)' /\ ~Opened(p)'
      BY <2>3, Steps, SMTT(30) DEF Placed, MigratedTo, Opened
    <2>6. \A q \in Procs \ {p} : Placed(q)' /\ (Opened(q)' => Opened(q))
      BY <1>0, <1>f, <2>1, <2>3, <2>4, PlacedFrame, OpenedFrame
    <2>7. QED
      BY <1>0, <1>f, <1>r, <2>1, <2>5, <2>6, SMTT(30) DEF FileInv
  <1>5. ASSUME NEW p \in Procs, Return(p) PROVE FileInv'
    <2>1. UNCHANGED lockVars /\ UNCHANGED <<columns, crashes>>
      BY <1>5 DEF Return
    <2>2. \A q \in Procs : Step(q)' = Step(q)
      BY <1>5, StepsStay
    <2>3. RowsTell' /\ (Normal => Normal')
      <3>1. CASE UNCHANGED stamps
        BY <1>r, <3>1, SMTT(30)
      <3>2. CASE Len(stamps) < Len(Times) /\ stamps' = Append(stamps, FormatTS(Times[Len(stamps) + 1]))
        BY <1>0, <3>2, RowInserted DEF Forms
      <3>3. QED
        BY <1>5, <3>1, <3>2 DEF Return
    <2>4. \A q \in Procs : Placed(q)' /\ (Opened(q)' => Opened(q))
      BY <1>0, <1>f, <1>u, <2>1, <2>2, PlacedFrame, OpenedFrame
    <2>5. QED
      BY <1>0, <1>c, <1>f, <2>1, <2>3, <2>4 DEF FileInv
  <1>6. CASE OldBinaryInserts
    <2>1. UNCHANGED lockVars /\ UNCHANGED <<columns, main, crashes>>
      BY <1>6 DEF OldBinaryInserts
    <2>2. \A q \in Procs : Step(q)' = Step(q) /\ ~Opened(q)
      BY <1>0, <1>6, <2>1 DEF OldBinaryInserts, Opened, Step
    <2>3. RowsTell'
      BY <1>0, <1>6, RowInserted DEF OldBinaryInserts, Forms
    <2>4. \A q \in Procs : Placed(q)' /\ (Opened(q)' => Opened(q))
      BY <1>0, <1>f, <1>u, <2>1, <2>2, PlacedFrame, OpenedFrame
    <2>5. QED
      BY <1>c, <1>f, <2>1, <2>2, <2>3, <2>4 DEF FileInv
  <1>7. ASSUME NEW p \in Procs, UNCHANGED lockVars, NextStep(p), UNCHANGED crashes, door[p] = "open"
        PROVE  /\ Step(p)' = Step(p) + 1 /\ \A q \in Procs \ {p} : Step(q)' = Step(q) /\ ~Opened(q)'
               /\ columns \subseteq columns' => \A q \in Procs \ {p} : Placed(q)'
    <2>1. Step(p)' = Step(p) + 1 /\ \A q \in Procs \ {p} : Step(q)' = Step(q)
      BY <1>0, <1>7 DEF NextStep, Step, Mains
    <2>2. \A q \in Procs \ {p} : door[q] # "open"
      BY <1>7 DEF SupervisionInv, LockInv
    <2>3. \A q \in Procs \ {p} : ~Opened(q)'
      BY <1>7, <1>u, <2>2 DEF Opened
    <2>4. ASSUME columns \subseteq columns', NEW q \in Procs \ {p} PROVE Placed(q)'
      BY <1>0, <1>7, <1>u, <2>1, <2>4, PlacedFrame
    <2>5. QED
      BY <2>1, <2>3, <2>4
  <1>8. ASSUME NEW p \in Procs, Migrate(p) PROVE FileInv'
    <2>1. UNCHANGED lockVars /\ NextStep(p) /\ UNCHANGED <<stamps, crashes>> /\ door[p] = "open"
      BY <1>8 DEF Migrate, Migrating
    <2>2. Step(p) \in 1..7 /\ MigratedTo(Step(p))
      BY <1>0, <1>8, Steps, SMTT(30) DEF Migrate, Migrating, Placed
    <2>3. TableInv' /\ columns \subseteq columns' /\ \A n : n = Step(p) + 1 => MigratedTo(n)'
      <3>1. CASE Step(p) = 1
        <4>1. columns' = CreateTable
          BY <1>8, <3>1, SMTT(30) DEF Migrate
        <4>2. columns' \subseteq Column /\ columns \subseteq columns' /\ "jobs" \in columns'
          BY <1>0, <4>1 DEF CreateTable, TableInv, Column
        <4>3. \A n : n = 2 => MigratedTo(n)'
          BY <4>2, Steps, SMTT(30) DEF MigratedTo
        <4>4. QED
          BY <3>1, <4>2, <4>3, SMTT(30) DEF TableInv
      <3>2. CASE Step(p) # 1
        <4>1. PICK i \in 1..6 : Step(p) = i + 1
          <5>1. Step(p) - 1 \in 1..6 /\ Step(p) = (Step(p) - 1) + 1
            BY <2>2, <3>2, SMTT(30)
          <5>2. QED
            BY <5>1
        <4>2. columns' = columns \cup {Migration[i]}
          <5>1. columns' = AddColumns(Migration[Step(p) - 1]) /\ Step(p) - 1 = i
            BY <1>8, <3>2, <4>1, SMTT(30) DEF Migrate
          <5>2. QED
            BY <5>1 DEF AddColumns
        <4>3. Migration[i] \in Column /\ "jobs" \in columns
          BY <2>2, <4>1, Steps, SMTT(30) DEF Column, MigratedTo
        <4>4. TableInv' /\ columns \subseteq columns'
          BY <1>0, <4>2, <4>3 DEF TableInv
        <4>5. \A n : n = i + 2 => MigratedTo(n)'
          BY <2>2, <4>1, <4>2, <4>3, Steps, SMTT(30) DEF MigratedTo
        <4>6. i + 2 = Step(p) + 1
          BY <4>1, SMTT(30)
        <4>7. QED
          BY <4>4, <4>5, <4>6
      <3>3. QED
        BY <3>1, <3>2
    <2>4. Step(p)' = Step(p) + 1 /\ UNCHANGED door
      BY <1>7, <1>u, <2>1
    <2>5. Placed(p)' /\ ~Opened(p)'
      BY <2>1, <2>2, <2>3, <2>4, Steps, SMTT(30) DEF Placed, Opened
    <2>6. QED
      BY <1>7, <1>c, <1>r, <2>1, <2>3, <2>5 DEF FileInv
  <1>9. ASSUME NEW p \in Procs, NormalizeTimestamps(p) PROVE FileInv'
    <2>1. UNCHANGED lockVars /\ NextStep(p) /\ UNCHANGED <<columns, crashes>> /\ door[p] = "open" /\ Step(p) = 8
      BY <1>9, Steps DEF NormalizeTimestamps
    <2>2. RowsTell' /\ Normal'
      BY <1>0, <1>9, Normalized DEF NormalizeTimestamps
    <2>3. Placed(p)'
      <3>1. MigratedTo(8)
        BY <1>0, <2>1 DEF Placed
      <3>2. MigratedTo(9)'
        BY <2>1, <3>1, Steps, SMTT(30) DEF MigratedTo
      <3>3. Step(p)' = 9 /\ door' = door
        BY <1>7, <1>u, <2>1, SMTT(30)
      <3>4. QED
        BY <2>1, <3>2, <3>3, Steps, SMTT(30) DEF Placed
    <2>4. QED
      BY <1>7, <1>c, <1>f, <2>1, <2>2, <2>3 DEF FileInv
  <1>10. CASE UNCHANGED vars
    <2>1. UNCHANGED lockVars /\ UNCHANGED fileVars /\ UNCHANGED crashes /\ UNCHANGED main
      BY <1>10 DEF vars
    <2>2. \A q \in Procs : Step(q)' = Step(q)
      BY <2>1 DEF Step
    <2>3. QED
      BY <1>1, <1>c, <1>u, <2>1, <2>2
  <1>11. QED
    BY <1>2, <1>3, <1>4, <1>5, <1>6, <1>8, <1>9, <1>10 DEF SupervisionNext, Progress

(* A new file, or one an earlier version left. *)
LEMMA FileInit == SupervisionInit => FileInv
  <1> SUFFICES ASSUME SupervisionInit PROVE FileInv
    OBVIOUS
  <1>1. \A p \in Procs : Step(p) = 1
    BY DEF SupervisionInit, Step, Begin
  <1>2. \A p \in Procs : Placed(p) /\ ~Opened(p)
    <2>1. MigratedTo(1)
      BY Steps, SMTT(30) DEF MigratedTo
    <2>2. 1 \in 1..LastStep + 1 /\ ~(1 > LastStep)
      BY Steps, SMTT(30)
    <2>3. QED
      BY <1>1, <2>1, <2>2 DEF Placed, Opened
  <1>3. CrashesCounted
    BY SupervisionConstants, SMTT(30) DEF SupervisionInit, CrashesCounted
  <1>4. TableInv
    <2>1. CASE columns = {}
      BY <2>1 DEF TableInv
    <2>2. ASSUME NEW n \in DOMAIN Migration, columns = {"jobs"} \cup {Migration[i] : i \in 1..n - 1} PROVE TableInv
      <3>1. \A i \in 1..n - 1 : i \in DOMAIN Migration
        BY Steps, SMTT(30)
      <3>2. QED
        BY <2>2, <3>1 DEF TableInv, Column
    <2>3. QED
      BY <2>1, <2>2 DEF SupervisionInit
  <1>5. RowsTell
    <2>0. Len(Times) \in Nat \ {0} /\ DOMAIN Times = 1..Len(Times)
      BY SupervisionConstants, SMTT(30)
    <2>1. CASE stamps = << >>
      BY <2>0, <2>1, SMTT(30) DEF RowsTell
    <2>2. CASE stamps = <<FormatTrimmed(Times[1])>>
      <3>1. FormatTrimmed(Times[1]) \in Text /\ FormatTrimmed(Times[1]) \in Forms(Times[1])
        BY <2>0, SMTT(30) DEF Text, Instants, Forms
      <3>2. PICK text : text = FormatTrimmed(Times[1])
        OBVIOUS
      <3>3. stamps = <<text>> /\ text \in Text /\ text \in Forms(Times[1])
        BY <2>2, <3>1, <3>2
      <3>4. QED
        BY <2>0, <3>3, SMTT(30) DEF RowsTell
    <2>3. QED
      BY <2>1, <2>2 DEF SupervisionInit
  <1>6. QED
    BY <1>2, <1>3, <1>4, <1>5 DEF FileInv

(***************************************************************************)
(* For any file an earlier version or an interrupted migration left, any   *)
(* instants and any number of processes: one that serves has a file with   *)
(* every column, and LeaseJob's order of created_at is that of the         *)
(* inserts.                                                                *)
(***************************************************************************)
THEOREM FileServedIsCurrent == SupervisionSpec => []ServesCurrentFile
  <1>1. FileInv => ServesCurrentFile
    <2> SUFFICES ASSUME FileInv, NEW p \in Procs, Opened(p)
                 PROVE  /\ columns = Column
                        /\ \A m, n \in DOMAIN stamps : m < n => TextBefore(stamps[m], stamps[n])
      BY DEF ServesCurrentFile
    <2>1. Step(p) = 9 /\ MigratedTo(9)
      BY Steps, SMTT(30) DEF FileInv, Placed, Opened
    <2>2. "jobs" \in columns /\ \A i \in DOMAIN Migration : Migration[i] \in columns
      BY <2>1, Steps, SMTT(30) DEF MigratedTo
    <2>3. columns = Column
      BY <2>2 DEF FileInv, TableInv, Column
    <2>4. ASSUME NEW m \in DOMAIN stamps, NEW n \in DOMAIN stamps, m < n PROVE TextBefore(stamps[m], stamps[n])
      <3>1. m \in DOMAIN Times /\ n \in DOMAIN Times
        BY SupervisionConstants, SMTT(30) DEF FileInv, RowsTell
      <3>2. Times[m] \in Instant /\ Times[n] \in Instant /\ Earlier(Times[m], Times[n])
        BY <2>4, <3>1, SupervisionConstants, SMTT(30)
      <3>3. stamps[m] = FormatTS(Times[m]) /\ stamps[n] = FormatTS(Times[n])
        BY DEF FileInv, Normal
      <3>4. QED
        BY <3>2, <3>3, TextOrder
    <2>5. QED
      BY <2>3, <2>4
  <1>2. QED
    BY <1>1, SupervisionInvInit, SupervisionInvStep, FileInit, FileStep, PTL DEF SupervisionSpec

(***************************************************************************)
(* The type invariant, for any number of processes and instants: no step   *)
(* of main, of the goroutines or of the migrations leaves the values the   *)
(* model gives them.                                                       *)
(***************************************************************************)
THEOREM SupervisionTyped == SupervisionSpec => []SupervisionTypeOK
  <1>1. SupervisionInv /\ ReadyInv /\ FileInv => SupervisionTypeOK
    <2> SUFFICES ASSUME SupervisionInv, ReadyInv, FileInv PROVE SupervisionTypeOK
      OBVIOUS
    <2>1. LockTypeOK /\ columns \subseteq Column /\ crashes \in 0..CrashBound
      BY DEF SupervisionInv, LockInv, FileInv, TableInv, CrashesCounted
    <2>2. \A n \in DOMAIN stamps : n <= Len(Times) /\ stamps[n] \in Text
      BY SupervisionConstants, SMTT(30) DEF FileInv, RowsTell
    <2>3. ASSUME NEW p \in Procs
          PROVE  /\ Step(p) \in 1..LastStep + 1
                 /\ \A g \in Goroutine : main[p].loop[g] \in {"off", "spawned", "running", "draining", "ended"}
                 /\ main[p].flags \subseteq Worker
                 /\ main[p].probe.at \in {"none", "delivery", "ready"}
      <3>1. main[p] \in Mains
        BY DEF SupervisionInv
      <3>2. Step(p) \in 1..LastStep + 1 /\ main[p].flags \subseteq Worker
        BY DEF FileInv, Placed, ReadyInv, Tells
      <3>3. QED
        BY <3>1, <3>2 DEF Mains, Loops, Probes
    <2>4. QED
      BY <2>1, <2>2, <2>3 DEF SupervisionTypeOK
  <1>2. QED
    BY <1>1, SupervisionInvInit, SupervisionInvStep, ReadyInit, ReadyStep, FileInit, FileStep, PTL
       DEF SupervisionSpec
=============================================================================
