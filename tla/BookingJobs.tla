---------------------------- MODULE BookingJobs -----------------------------
(***************************************************************************)
(* The queues of background work and the runners that share them:          *)
(* booking_jobs.py, worker.py and job_api.py.                              *)
(*                                                                         *)
(* A row of work is a message, a binding or a connection.  A runner        *)
(* collects a batch while it holds an advisory lock, and runs one job      *)
(* after the other, each in transactions of its own.  The transaction that *)
(* holds the lock may lose its connection on the way: another runner may   *)
(* then collect the same rows.  What the jobs do to bindings and messages  *)
(* is the matter of CalendarSync and BookingNotifications; here a job      *)
(* serves its row, which settles it or gives it a later time, or leaves it *)
(* as it is.  Any row may be left, and any number of times: its agency is  *)
(* locked, or its job raises.                                              *)
(***************************************************************************)
EXTENDS Tables

CONSTANTS
  Work,         \* rows, numbered: ties are broken by the order of ids
  Queue,        \* Queue[r]: which of the three queries finds row r
  Runners,
  BatchSize,
  RetryTicks    \* the longest time after which a job wants to see its row again

Messages == 1
Bindings == 2
Connections == 3

WorkOf(queue) == {r \in Work : Queue[r] = queue}

ASSUME JobsAssumption ==
  /\ Work \subseteq Nat /\ IsFiniteSet(Work)
  /\ Queue \in [Work -> {Messages, Bindings, Connections}]
  /\ RetryTicks \in Nat \ {0}
  /\ BatchSize \in Nat

VARIABLES
  waiting,  \* row -> [due, passed]; passed, a history variable, counts the batches that left
            \* the row out since it became due and served another row of its queue
  batches   \* runner -> [jobs, passed, served, guarded]; served, a history variable: the queues
            \* of the rows served so far

jobsVars == <<waiting, batches>>

Batch ==
  [jobs : SUBSET [row : Work, turn : Nat], passed : SUBSET (Work \X Nat),
   served : SUBSET {Messages, Bindings, Connections}, guarded : BOOLEAN]

JobsTypeOK ==
  /\ DOMAIN waiting \subseteq Work
  /\ waiting \in [DOMAIN waiting -> [due : Nat, passed : Nat]]
  /\ DOMAIN batches \subseteq Runners
  /\ batches \in [DOMAIN batches -> Batch]
  /\ Cardinality({w \in DOMAIN batches : batches[w].guarded}) <= 1

JobsInit ==
  /\ waiting = Nothing
  /\ batches = Nothing

\* No other row became due at this very moment: the clock is finer than the model's.
Distinct(r, at) ==
  \A q \in DOMAIN waiting \cap WorkOf(Queue[r]) : waiting[q].due # at

\* A handler adds a row, or gives an old one another time: at once for a clean-up, later for a
\* booking that is published or a connection that has just been used.
Schedule(r, at) ==
  /\ r \in Work
  /\ at >= now
  /\ Distinct(r, at)
  /\ waiting' = Put(waiting, r, [due |-> at, passed |-> 0])
  /\ UNCHANGED <<batches, now>>

\* A calendar is connected, with the time of its last check, if it was connected before, or none,
\* which comes first.
Connect(r, at) ==
  /\ r \in WorkOf(Connections) \ DOMAIN waiting
  /\ waiting' = Put(waiting, r, [due |-> at, passed |-> 0])
  /\ UNCHANGED <<batches, now>>

Unscheduled(r) == [q \in DOMAIN waiting \ {r} |-> waiting[q]]

\* A handler suppresses a message or disconnects a calendar.
WithdrawRow(r) ==
  /\ r \in DOMAIN waiting
  /\ waiting' = Unscheduled(r)
  /\ UNCHANGED <<batches, now>>

Due == {r \in DOMAIN waiting : waiting[r].due <= now}

\* The rows of r's query that come before r.
Ahead(r) ==
  {q \in Due :
     /\ Queue[q] = Queue[r]
     /\ \/ waiting[q].due < waiting[r].due
        \/ waiting[q].due = waiting[r].due /\ q < r}

\* collect_booking_jobs(): so many of each kind.  The jobs of a batch are in no list; each knows
\* its turn instead.
Collected ==
  {[row |-> r, turn |-> Cardinality(Ahead(r))] : r \in {q \in Due : Cardinality(Ahead(q)) < BatchSize}}

\* The rows that a batch leaves out, as they are.
PassedOver ==
  {<<r, waiting[r].due>> : r \in {q \in Due : Cardinality(Ahead(q)) >= BatchSize}}

\* process_booking_jobs(), with the lock; a runner that does not get it reports "busy".
StartBatch(w) ==
  /\ w \in Runners \ DOMAIN batches
  /\ \A v \in DOMAIN batches : ~batches[v].guarded
  /\ batches' = Put(batches, w,
       [jobs |-> Collected, passed |-> PassedOver, served |-> {}, guarded |-> TRUE])
  /\ UNCHANGED <<waiting, now>>

\* The order of zip_longest(): one job of each kind in turn.
Precedes(job, other) ==
  \/ job.turn < other.turn
  \/ job.turn = other.turn /\ Queue[job.row] < Queue[other.row]

\* The job whose turn it is.
IsNext(w, job) ==
  /\ job \in batches[w].jobs
  /\ \A other \in batches[w].jobs \ {job} : Precedes(job, other)

\* Mutant of AfterJob: a row with nothing to do keeps its time.
AfterJobInPlace(r) ==
  {Unscheduled(r), waiting} \cup
  {Put(waiting, r, [due |-> now + ticks, passed |-> 0]) : ticks \in 1..RetryTicks}

\* What a job leaves of the rows when it serves its own.
AfterJob(r) ==
  {Unscheduled(r)} \cup
  {Put(waiting, r, [due |-> now + ticks, passed |-> 0]) : ticks \in 1..RetryTicks}

\* A job looks first whether its row still waits and is due.
ServeRow(w) ==
  /\ w \in DOMAIN batches
  /\ \E job \in batches[w].jobs :
       /\ IsNext(w, job)
       /\ job.row \in Due
       /\ waiting' \in AfterJob(job.row)
       /\ batches' = [batches EXCEPT ![w].jobs = @ \ {job}, ![w].served = @ \cup {Queue[job.row]}]
  /\ UNCHANGED now

\* The row is not due any more, its agency is locked (skip_locked, or the lock timeout of a
\* delivery), or the job raises and its transaction is undone.
LeaveRow(w) ==
  /\ w \in DOMAIN batches
  /\ \E job \in batches[w].jobs :
       /\ IsNext(w, job)
       /\ batches' = [batches EXCEPT ![w].jobs = @ \ {job}]
  /\ UNCHANGED <<waiting, now>>

Without(w) == [v \in DOMAIN batches \ {w} |-> batches[v]]

\* The batch is "completed".
FinishBatch(w) ==
  /\ w \in DOMAIN batches
  /\ batches[w].jobs = {}
  /\ batches[w].guarded
  /\ batches' = Without(w)
  /\ waiting' = [r \in DOMAIN waiting |->
       IF <<r, waiting[r].due>> \in batches[w].passed /\ Queue[r] \in batches[w].served
       THEN [waiting[r] EXCEPT !.passed = @ + 1] ELSE waiting[r]]
  /\ UNCHANGED now

\* The time is up ("deferred"), the process ends, or the lock was lost.
BreakOff(w) ==
  /\ w \in DOMAIN batches
  /\ batches' = Without(w)
  /\ UNCHANGED <<waiting, now>>

\* The connection that holds the lock is lost; the jobs have others.
LoseLock(w) ==
  /\ w \in DOMAIN batches
  /\ batches[w].guarded
  /\ batches' = [batches EXCEPT ![w].guarded = FALSE]
  /\ UNCHANGED <<waiting, now>>

JobsNext ==
  \/ \E r \in Work, at \in Times : Schedule(r, at)
  \/ \E r \in Work, at \in 0..now : Connect(r, at)
  \/ \E r \in Work : WithdrawRow(r)
  \/ \E w \in Runners :
       \/ StartBatch(w) \/ ServeRow(w) \/ LeaveRow(w)
       \/ FinishBatch(w) \/ BreakOff(w) \/ LoseLock(w)

\* The queues and their runners by themselves, as the clock runs.
JobsSpec ==
  /\ now = 0
  /\ JobsInit
  /\ [][JobsNext \/ (Tick /\ UNCHANGED jobsVars)]_<<jobsVars, now>>

----------------------------------------------------------------------------
(* Properties. *)

\* A message or binding that is due is not overtaken: of the completed batches that serve its
\* queue, no more leave it out than there are other rows in the queue, less those that a batch
\* holds beside it, whatever rows are left unserved, whatever other runners, lost locks and new
\* rows do (booking_jobs.py, collect_booking_jobs and process_booking_jobs).  Batches that find
\* the whole queue locked or failing are not counted: nothing bounds them.
TurnsCome ==
  \A r \in DOMAIN waiting :
    Queue[r] # Connections /\ waiting[r].passed > 0 =>
      waiting[r].passed + BatchSize <= Cardinality(WorkOf(Queue[r]))
=============================================================================
