---------------------------- MODULE Supervision ----------------------------
(***************************************************************************)
(* A NodeSentinel process from start to exit: main                         *)
(* (cmd/nodesentinel/main.go) over the writer lock and the migrations that *)
(* sqlite.New runs (initSchema, pkg/work/sqlite/store.go).  Processes come *)
(* one after another or at once; one that ended does not come back.        *)
(*                                                                         *)
(* The errgroup's six goroutines are four: a server and the goroutine that *)
(* shuts it down are one.  A row is its created_at; it was inserted at the *)
(* instant Times[n], which a binary from before timestampLayout wrote as   *)
(* trimmed text.  An instant is its second and Digits fractional digits    *)
(* instead of nine.                                                        *)
(***************************************************************************)
EXTENDS WriterLock, Integers, Sequences

CONSTANTS
  Times,       \* instants of the inserts, increasing
  Digits,      \* fractional digits of a timestamp
  CrashBound   \* model bound: crashes and failed starts

Instant == {t \in [0..Digits -> Nat] : \A i \in 1..Digits : t[i] < 10}

Earlier(t, u) == \E k \in 0..Digits : t[k] < u[k] /\ \A i \in 0..k - 1 : t[i] = u[i]

ASSUME SupervisionConstants ==
  /\ Digits \in Nat
  /\ CrashBound \in Nat
  /\ Times \in Seq(Instant) /\ Times # << >>
  /\ \A m, n \in DOMAIN Times : m < n => Earlier(Times[m], Times[n])

VARIABLES
  columns,  \* the migrations whose columns the jobs table has; {} is no file
  stamps,   \* stamps[n]: created_at of row n
  main,     \* main[p]: the main function of p and its goroutines
  crashes   \* crashes and failed starts so far

fileVars == <<columns, stamps>>
vars     == <<lockVars, fileVars, main, crashes>>

Goroutine == {"worker", "delivery", "grpc", "http"}
Worker    == {"worker", "delivery"}
Server    == {"grpc", "http"}

\* initSchema after CREATE TABLE, in its order.
Migration == <<"validation_request_id", "result_delivery", "terminal_submitted",
               "execution_identity", "retry_not_before", "delivery_ownership">>
Column    == {"jobs"} \cup {Migration[i] : i \in DOMAIN Migration}
LastStep  == Len(Migration) + 2   \* normalizeTimestamps

----------------------------------------------------------------------------
(* Timestamps: text is a sequence of character codes. *)

Digit(t, i) == 48 + t[i]
Dot         == 46
Zulu        == 90

\* The text of t with n of its fractional digits.
Written(t, n) == <<Digit(t, 0), Dot>> \o [i \in 1..n |-> Digit(t, i)] \o <<Zulu>>

\* formatTS: every fractional digit is written.
FormatTS(t) == Written(t, Digits)

\* time.RFC3339Nano leaves out the trailing zeros, and a dot nothing follows.
FormatTrimmed(t) ==
  LET ends == {n \in 0..Digits : \A i \in n + 1..Digits : t[i] = 0}
      last == CHOOSE n \in ends : \A m \in ends : n <= m IN
    IF last = 0 THEN <<Digit(t, 0), Zulu>> ELSE Written(t, last)

Instants == {Times[n] : n \in DOMAIN Times}

\* time.Parse reads both forms.
Parse(text) == CHOOSE t \in Instants : text \in {FormatTS(t), FormatTrimmed(t)}

\* Order of text in SQL.
TextBefore(a, b) ==
  \E n \in 1..Len(b) :
    /\ \A i \in 1..n - 1 : i <= Len(a) /\ a[i] = b[i]
    /\ n > Len(a) \/ a[n] < b[n]

----------------------------------------------------------------------------
(***************************************************************************)
(* step: the step of initSchema to take; loop: the goroutines; flags: the  *)
(* loops readiness takes for running; call: an RPC is being handled;       *)
(* probe: a /readyz request, late if it came after a loop had ended.       *)
(***************************************************************************)
NoProbe == [at |-> "none", late |-> FALSE]
Begin   == [step |-> 1, loop |-> [g \in Goroutine |-> "off"], sigterm |-> FALSE, canceled |-> FALSE,
            call |-> FALSE, flags |-> {}, probe |-> NoProbe]

\* A file from an earlier version has the columns of a prefix of the
\* migrations, and rows with trimmed timestamps.
SupervisionInit ==
  /\ LockInit
  /\ \/ columns = {} /\ stamps = << >>
     \/ /\ \E n \in DOMAIN Migration : columns = {"jobs"} \cup {Migration[i] : i \in 1..n - 1}
        /\ stamps = <<FormatTrimmed(Times[1])>>
  /\ main = [p \in Procs |-> Begin]
  /\ crashes = 0

\* sqlite.New: the process starts, and takes the writer lock step by step.
Start(p) ==
  /\ Contend(p)
  /\ UNCHANGED <<fileVars, main, crashes>>

Open(p) ==
  /\ Climb(p)
  /\ UNCHANGED <<fileVars, main, crashes>>

Step(p)     == main[p].step
NextStep(p) == main' = [main EXCEPT ![p].step = @ + 1]

Migrating(p) == door[p] = "open" /\ Step(p) < LastStep

\* CREATE TABLE IF NOT EXISTS of a new file makes all columns.
CreateTable == IF columns = {} THEN Column ELSE columns

\* A migration, in one transaction: hasColumn, and ALTER TABLE for what is missing.
AddColumns(m) == columns \cup {m}

\* ALTER TABLE without hasColumn: it fails when the column is there.
MigrateBlindly(p) ==
  /\ Migrating(p)
  /\ \/ Step(p) = 1 /\ columns' = CreateTable
     \/ Step(p) > 1 /\ Migration[Step(p) - 1] \notin columns /\ columns' = columns \cup {Migration[Step(p) - 1]}
  /\ NextStep(p)
  /\ UNCHANGED <<lockVars, stamps, crashes>>

\* The schema, then one migration after the other.
Migrate(p) ==
  /\ Migrating(p)
  /\ \/ Step(p) = 1 /\ columns' = CreateTable
     \/ Step(p) > 1 /\ columns' = AddColumns(Migration[Step(p) - 1])
  /\ NextStep(p)
  /\ UNCHANGED <<lockVars, stamps, crashes>>

\* A normalisation that is skipped when the newest row needs none.
NormalizeUnlessDone(p) ==
  /\ door[p] = "open" /\ Step(p) = LastStep
  /\ stamps' = IF stamps # << >> /\ stamps[Len(stamps)] = FormatTS(Parse(stamps[Len(stamps)])) THEN stamps
               ELSE [n \in DOMAIN stamps |-> FormatTS(Parse(stamps[n]))]
  /\ NextStep(p)
  /\ UNCHANGED <<lockVars, columns, crashes>>

\* A layout without the zone.
NormalizeWithoutZone(p) ==
  /\ door[p] = "open" /\ Step(p) = LastStep
  /\ stamps' = [n \in DOMAIN stamps |-> SubSeq(FormatTS(Parse(stamps[n])), 1, Digits + 2)]
  /\ NextStep(p)
  /\ UNCHANGED <<lockVars, columns, crashes>>

\* Every value is parsed, and rewritten in timestampLayout, on every open.  The
\* values are those versions of this program write, in UTC, so all of them parse.
NormalizeTimestamps(p) ==
  /\ door[p] = "open" /\ Step(p) = LastStep
  /\ stamps' = [n \in DOMAIN stamps |-> FormatTS(Parse(stamps[n]))]
  /\ NextStep(p)
  /\ UNCHANGED <<lockVars, columns, crashes>>

\* After a rollback, a binary from before timestampLayout inserts a row.
OldBinaryInserts ==
  /\ \A p \in Procs : lock[p] = "none"
  /\ columns # {}
  /\ Len(stamps) < Len(Times)
  /\ stamps' = Append(stamps, FormatTrimmed(Times[Len(stamps) + 1]))
  /\ UNCHANGED <<lockVars, columns, main, crashes>>

----------------------------------------------------------------------------
(* main after sqlite.New: the errgroup. *)

Opened(p)  == door[p] = "open" /\ Step(p) > LastStep
Spawned(p) == \E g \in Goroutine : main[p].loop[g] # "off"

Loop(p, g, from, to) ==
  /\ main[p].loop[g] = from
  /\ main' = [main EXCEPT ![p].loop[g] = to]
  /\ UNCHANGED <<lockVars, fileVars, crashes>>

\* Without a Kubernetes client the worker and the delivery loop are left out.
Spawn(p) ==
  /\ Opened(p) /\ ~Spawned(p)
  /\ \E workers \in {"spawned", "off"} :
       main' = [main EXCEPT ![p].loop = [g \in Goroutine |-> IF g \in Server THEN "running" ELSE workers],
                            ![p].canceled = main[p].sigterm]
  /\ UNCHANGED <<lockVars, fileVars, crashes>>

\* The goroutine of a worker loop starts and raises its flag.
Run(p, g) ==
  /\ g \in Worker /\ main[p].loop[g] = "spawned"
  /\ main' = [main EXCEPT ![p].loop[g] = "running", ![p].flags = @ \cup {g}]
  /\ UNCHANGED <<lockVars, fileVars, crashes>>

\* A loop that ends without lowering its flag.
FinishRaised(p, g) ==
  /\ g \in Worker /\ main[p].canceled
  /\ Loop(p, g, "running", "ended")

\* Worker.Run and RunDeliveryLoop return only when their context is done; the
\* goroutine ends with the deferred lowering of its flag.
Finish(p, g) ==
  /\ g \in Worker /\ main[p].canceled /\ main[p].loop[g] = "running"
  /\ main' = [main EXCEPT ![p].loop[g] = "ended", ![p].flags = @ \ {g}]
  /\ UNCHANGED <<lockVars, fileVars, crashes>>

\* Serve or ListenAndServe fails by itself: the group's context is canceled.
ServeError(p, g) ==
  /\ g \in Server /\ main[p].loop[g] = "running"
  /\ crashes < CrashBound
  /\ main' = [main EXCEPT ![p].loop[g] = "draining", ![p].canceled = TRUE]
  /\ crashes' = crashes + 1
  /\ UNCHANGED <<lockVars, fileVars>>

\* A shutdown goroutine that waits for the signal and not for the group.
DrainOnSignal(p, g) ==
  /\ g \in Server /\ main[p].sigterm
  /\ Loop(p, g, "running", "draining")

\* <-gCtx.Done(), then GracefulStop or Shutdown: nothing new is accepted.
Drain(p, g) ==
  /\ g \in Server /\ main[p].canceled
  /\ Loop(p, g, "running", "draining")

\* GracefulStop waits for the RPCs under way, Shutdown for five seconds.
Drained(p, g) ==
  /\ g = "grpc" => ~main[p].call
  /\ Loop(p, g, "draining", "ended")

\* EnqueueValidationWork begins, and ends with a row inserted or not.
Call(p) ==
  /\ main[p].loop["grpc"] = "running" /\ ~main[p].call
  /\ main' = [main EXCEPT ![p].call = TRUE]
  /\ UNCHANGED <<lockVars, fileVars, crashes>>

Return(p) ==
  /\ main[p].call
  /\ main' = [main EXCEPT ![p].call = FALSE]
  /\ \/ Len(stamps) < Len(Times) /\ stamps' = Append(stamps, FormatTS(Times[Len(stamps) + 1]))
     \/ UNCHANGED stamps
  /\ UNCHANGED <<lockVars, columns, crashes>>

\* NotifyContext: sqlite.New does not look at the context.
Sigterm(p) ==
  /\ door[p] \in {"contending", "open"} /\ ~main[p].sigterm
  /\ main' = [main EXCEPT ![p].sigterm = TRUE, ![p].canceled = @ \/ Spawned(p)]
  /\ UNCHANGED <<lockVars, fileVars, crashes>>

\* A main that waits for the loops that need Kubernetes only.
CloseEarly(p) ==
  /\ Spawned(p) /\ main[p].canceled
  /\ \A g \in Worker : main[p].loop[g] \in {"off", "ended"}
  /\ Leave(p)
  /\ UNCHANGED <<fileVars, main, crashes>>

\* g.Wait returns when every goroutine has; the deferred Close, or os.Exit
\* after an error, closes the store.
Close(p) ==
  /\ Spawned(p)
  /\ \A g \in Goroutine : main[p].loop[g] \in {"off", "ended"}
  /\ Leave(p)
  /\ UNCHANGED <<fileVars, main, crashes>>

\* main returns after Close, or exits because New failed.
Exit(p) ==
  /\ door[p] \in {"left", "refused"} /\ main[p] # Begin
  /\ main' = [main EXCEPT ![p] = Begin]
  /\ UNCHANGED <<lockVars, fileVars, crashes>>

\* The process is killed, or New or Listen returns an error.
Crash(p) ==
  /\ crashes < CrashBound
  /\ Leave(p)
  /\ main' = [main EXCEPT ![p] = Begin]
  /\ crashes' = crashes + 1
  /\ UNCHANGED fileVars

----------------------------------------------------------------------------
(* readiness.check: one reason after the other. *)

Probe(p, from, to) ==
  /\ main[p].probe.at = from
  /\ main' = [main EXCEPT ![p].probe = to]
  /\ UNCHANGED <<lockVars, fileVars, crashes>>

\* A loop that is not running ends the check.  CheckWritable comes last and
\* fails on a closed store, or when the volume takes no write.
AskReady(p) ==
  /\ main[p].loop["http"] = "running" /\ "worker" \in main[p].flags
  /\ Probe(p, "none", [at |-> "delivery", late |-> \E g \in Worker : main[p].loop[g] = "ended"])

CheckReady(p) ==
  \/ /\ "delivery" \in main[p].flags /\ door[p] = "open"
     /\ Probe(p, "delivery", [main[p].probe EXCEPT !.at = "ready"])
  \/ \E at \in {"delivery", "ready"} : Probe(p, at, NoProbe)

----------------------------------------------------------------------------
\* The steps that bring p from its start to its end.
Progress(p) ==
  \/ Open(p) \/ Migrate(p) \/ NormalizeTimestamps(p) \/ Spawn(p) \/ Close(p)
  \/ \E g \in Goroutine : Run(p, g) \/ Finish(p, g) \/ Drain(p, g) \/ Drained(p, g)

SupervisionNext ==
  \/ OldBinaryInserts
  \/ \E p \in Procs :
       \/ Start(p) \/ Progress(p) \/ Call(p) \/ Return(p) \/ AskReady(p) \/ CheckReady(p)
       \/ Sigterm(p) \/ Exit(p) \/ Crash(p) \/ \E g \in Goroutine : ServeError(p, g)

(***************************************************************************)
(* A process that was started gets on: SQLite answers, transactions end,   *)
(* goroutines are scheduled and RPCs return.                               *)
(***************************************************************************)
SupervisionSpec ==
  /\ SupervisionInit
  /\ [][SupervisionNext]_vars
  /\ \A p \in Procs :
       /\ WF_vars(Progress(p))
       /\ WF_vars(Return(p))

----------------------------------------------------------------------------
Text == {FormatTS(t) : t \in Instants} \cup {FormatTrimmed(t) : t \in Instants}

(* Type invariant of the file and the processes. *)
SupervisionTypeOK ==
  /\ LockTypeOK
  /\ columns \subseteq Column
  /\ \A n \in DOMAIN stamps : n <= Len(Times) /\ stamps[n] \in Text
  /\ \A p \in Procs :
       /\ Step(p) \in 1..LastStep + 1
       /\ \A g \in Goroutine : main[p].loop[g] \in {"off", "spawned", "running", "draining", "ended"}
       /\ main[p].flags \subseteq Worker
       /\ main[p].probe.at \in {"none", "delivery", "ready"}
  /\ crashes \in 0..CrashBound

\* A goroutine of p or an RPC it handles is at work on the store.
Uses(p) == main[p].call \/ \E g \in Goroutine : main[p].loop[g] \in {"running", "draining"}

(***************************************************************************)
(* Whoever works on the store has it open, so no two processes run their   *)
(* lease and delivery loops at once, and none of them on a closed store:   *)
(* from the lock in New to the Close deferred behind g.Wait, through       *)
(* SIGTERM, errors of a server and starts of other processes meanwhile.    *)
(***************************************************************************)
UsersHaveItOpen ==
  \A p \in Procs : Uses(p) => door[p] = "open" /\ \A q \in Others(p) : door[q] # "open" /\ ~Uses(q)

(***************************************************************************)
(* A process that serves works on a file with every column, whichever      *)
(* version or interrupted migration left it, and the text order of         *)
(* created_at, by which LeaseJob finds the oldest job, is the order of the *)
(* inserts, rows of an older binary started in between included.           *)
(***************************************************************************)
ServesCurrentFile ==
  \A p \in Procs : Opened(p) =>
    /\ columns = Column
    /\ \A m, n \in DOMAIN stamps : m < n => TextBefore(stamps[m], stamps[n])

(***************************************************************************)
(* A /readyz request that comes after the goroutine of a loop has ended is *)
(* not answered ready (readiness.check).  One that came before may be: the *)
(* flags are read one after the other.                                     *)
(***************************************************************************)
ReadyIsNotLate == \A p \in Procs : main[p].probe.at = "ready" => ~main[p].probe.late

(***************************************************************************)
(* A store that was opened ends up served, whatever state earlier          *)
(* processes left the file in, unless the process dies.                    *)
(***************************************************************************)
OpenedIsServed == \A p \in Procs : door[p] = "open" ~> Spawned(p) \/ door[p] = "left"

(***************************************************************************)
(* No process keeps running degraded: when it was signalled, or when any   *)
(* of its goroutines has ended, all of them end and it exits (main,        *)
(* comment of g).                                                          *)
(***************************************************************************)
EndsAsAWhole ==
  \A p \in Procs :
    main[p].sigterm \/ (\E g \in Goroutine : main[p].loop[g] \in {"draining", "ended"})
      ~> door[p] \in {"left", "refused"}
=============================================================================
