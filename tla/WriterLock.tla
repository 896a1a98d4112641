----------------------------- MODULE WriterLock ----------------------------
(***************************************************************************)
(* The writer lock of the store: acquireWriterLock and Close               *)
(* (pkg/work/sqlite/store.go) over SQLite's lock on the database file.     *)
(*                                                                         *)
(* SQLite is external.  BEGIN EXCLUSIVE climbs from SHARED over RESERVED   *)
(* and PENDING to EXCLUSIVE; a climber that is denied retreats and tries   *)
(* again until the busy timeout of five seconds.                           *)
(*                                                                         *)
(* The timeout is taken to be long: it ends the attempt of an opener only  *)
(* when none of the contenders can move, never because they are slow.      *)
(***************************************************************************)
CONSTANT Procs   \* processes that open the file

VARIABLES
  door,    \* door[p]: how far p is with opening and closing the store
  lock,    \* lock[p]: the lock the connection of p has on the file
  writers  \* history: writers[p] was in the way while p contended

lockVars == <<door, lock, writers>>

Level == {"none", "shared", "reserved", "pending", "exclusive"}

LockInit ==
  /\ door = [p \in Procs |-> "out"]
  /\ lock = [p \in Procs |-> "none"]
  /\ writers = [p \in Procs |-> {}]

Others(p) == Procs \ {p}

Holding(p, levels) == {q \in Others(p) : lock[q] \in levels}

Take(p, from, to) ==
  /\ door[p] = "contending"
  /\ lock[p] = from
  /\ lock' = [lock EXCEPT ![p] = to]
  /\ UNCHANGED door

----------------------------------------------------------------------------
\* New: the connection is opened, PRAGMA locking_mode = NORMAL.
Contend(p) ==
  /\ door[p] = "out"
  /\ door' = [door EXCEPT ![p] = "contending"]
  /\ writers' = [writers EXCEPT ![p] = Holding(p, {"exclusive"})]
  /\ UNCHANGED lock

MayShare(p)   == Holding(p, {"pending", "exclusive"}) = {}
MayReserve(p) == Holding(p, {"reserved", "pending", "exclusive"}) = {}
MayExclude(p) == Holding(p, Level \ {"none"}) = {}

Share(p)   == MayShare(p) /\ Take(p, "none", "shared") /\ UNCHANGED writers
Reserve(p) == MayReserve(p) /\ Take(p, "shared", "reserved") /\ UNCHANGED writers
Await(p)   == Take(p, "reserved", "pending") /\ UNCHANGED writers

\* BEGIN EXCLUSIVE succeeds.
Exclude(p) ==
  /\ MayExclude(p)
  /\ Take(p, "pending", "exclusive")
  /\ writers' = [q \in Procs |-> IF q # p /\ door[q] = "contending" THEN writers[q] \cup {p} ELSE writers[q]]

\* In EXCLUSIVE locking mode a connection keeps the lock it was denied on.
RetreatKeeping == "shared"

\* In NORMAL locking mode a connection denied RESERVED drops its SHARED lock.
Retreat == "none"

Denied(p) == lock[p] = "shared" /\ ~MayReserve(p)

BackOff(p) == Denied(p) /\ Take(p, "shared", Retreat) /\ UNCHANGED writers

\* p can take or give up a lock.
CanMove(p) ==
  /\ door[p] = "contending"
  /\ \/ lock[p] = "none" /\ MayShare(p)
     \/ lock[p] = "shared" /\ MayReserve(p)
     \/ Denied(p) /\ Retreat # "shared"
     \/ lock[p] = "reserved"
     \/ lock[p] = "pending" /\ MayExclude(p)
     \/ lock[p] = "exclusive"

\* The busy timeout: ErrWriterLocked, and New closes the connection.
GiveUp(p) ==
  /\ door[p] = "contending"
  /\ \A q \in Procs : ~CanMove(q)
  /\ door' = [door EXCEPT ![p] = "refused"]
  /\ lock' = [lock EXCEPT ![p] = "none"]
  /\ UNCHANGED writers

\* A COMMIT in NORMAL locking mode gives the lock back.
KeepNothing(p) ==
  /\ door[p] = "contending" /\ lock[p] = "exclusive"
  /\ door' = [door EXCEPT ![p] = "open"]
  /\ lock' = [lock EXCEPT ![p] = "none"]
  /\ UNCHANGED writers

\* PRAGMA locking_mode = EXCLUSIVE and COMMIT: the lock outlives the transaction.
Keep(p) ==
  /\ door[p] = "contending" /\ lock[p] = "exclusive"
  /\ door' = [door EXCEPT ![p] = "open"]
  /\ UNCHANGED <<lock, writers>>

\* The connection is closed, by Close, by a failed New or by the end of p.
Leave(p) ==
  /\ door[p] \in {"contending", "open"}
  /\ door' = [door EXCEPT ![p] = "left"]
  /\ lock' = [lock EXCEPT ![p] = "none"]
  /\ UNCHANGED writers

Climb(p) == Share(p) \/ Reserve(p) \/ Await(p) \/ Exclude(p) \/ BackOff(p) \/ Keep(p) \/ GiveUp(p)

LockNext == \E p \in Procs : Contend(p) \/ Climb(p) \/ Leave(p)

LockSpec == LockInit /\ [][LockNext]_lockVars

----------------------------------------------------------------------------
(* Type invariant of the lock. *)
LockTypeOK ==
  /\ door \in [Procs -> {"out", "contending", "refused", "open", "left"}]
  /\ lock \in [Procs -> Level]
  /\ writers \in [Procs -> SUBSET Procs]

(***************************************************************************)
(* An open store is its file's only writer: it holds the EXCLUSIVE lock    *)
(* for as long as it is open, and no other connection holds any lock       *)
(* (acquireWriterLock, comment).                                           *)
(***************************************************************************)
OpenIsAlone ==
  \A p \in Procs : door[p] = "open" => lock[p] = "exclusive" /\ \A q \in Others(p) : lock[q] = "none"

(***************************************************************************)
(* ErrWriterLocked is the truth: an opener is refused only if another      *)
(* process did hold the writer lock while it tried.  Openers alone do not  *)
(* make each other fail, which contending in EXCLUSIVE mode would.         *)
(***************************************************************************)
RefusedByAWriter == \A p \in Procs : door[p] = "refused" => writers[p] # {}
=============================================================================
