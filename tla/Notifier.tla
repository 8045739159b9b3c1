------------------------------- MODULE Notifier -------------------------------
(***************************************************************************)
(* The hourly alerts (src/notifications/notification.worker.ts).  A        *)
(* `notify` job makes one instance read the jobs of the last hour, then    *)
(* the saved searches, and send one Telegram message for every pair that   *)
(* matches.  Nothing records what has been sent: the only memory is the    *)
(* window, an hour back from the moment process() starts, laid over        *)
(* scraped_at, which Postgres sets to the start of the transaction that    *)
(* first stores the job, and which an upsert leaves alone.                 *)
(*                                                                         *)
(* Time is a counter that a start of process() moves, so that what begins  *)
(* after it is later than it.  The scraper's transactions, and the INSERT  *)
(* and DELETE of SavedSearches, are the environment.                       *)
(***************************************************************************)
EXTENDS Integers, FiniteSets

CONSTANTS
  Workers,        \* application instances, each with one `notify` worker
  Jobs, Searches,
  Words,          \* what titles and keywords are made of
  Listed,         \* job -> the words of its title, its salary_min (0 for null), its score
  Wanted,         \* search -> its keywords, its bounds (0 for null)
  Period,         \* units of time in an hour
  Horizon,        \* bound: the last moment
  MaxFaults,      \* bound: crashes, wrong stall verdicts and failed queries
  MaxLate,        \* bound: units of time a due job waits for a worker
  MaxEdits        \* bound: searches saved or removed on the way

ASSUME NotifierAssumption ==
  /\ Listed \in [Jobs -> [words : SUBSET Words, salaryMin : Nat, score : Nat]]
  /\ Wanted \in [Searches -> [keywords : SUBSET Words, minSalary : Nat, minScore : Nat]]
  /\ Period \in Nat \ {0} /\ Horizon \in Nat \ {0} /\ MaxFaults \in Nat
  /\ MaxLate \in Nat /\ MaxEdits \in Nat

VARIABLES
  clock,
  due,            \* when the next repetition of the job becomes available
  stalled,        \* jobs whose worker is gone, put back by the stalled check
  stamp,          \* job -> its scraped_at, 0 while no transaction is storing it
  stored,         \* jobs committed
  searches,       \* rows of saved_searches
  run,            \* worker -> the locals of its process() call
  budget,         \* faults, lateness and edits still to come
  \* What has happened so far, read by the properties only:
  alerts,         \* job, search -> messages delivered
  attempted,      \* pairs for which a message was sent, delivered or not
  edited,         \* search -> the moment it was last saved or removed
  straddled,      \* jobs stamped before a run started and committed after it read
  squeezed        \* job -> runs that read it though it was stamped after they started

window == <<clock, due, stalled>>
jobRows == <<stamp, stored>>
rows == <<jobRows, searches>>
history == <<alerts, attempted, edited, straddled, squeezed>>
vars == <<window, rows, run, budget, history>>

Idle == [pc |-> "idle", start |-> 0, retried |-> FALSE, batch |-> {}, todo |-> {}]

Spend(kind) == budget[kind] > 0 /\ budget' = [budget EXCEPT ![kind] = @ - 1]

\* matches(): one keyword in the title, and the two bounds; a salary that is
\* not known counts as 0.
Matches(j, s) ==
  /\ Wanted[s].keywords \cap Listed[j].words # {}
  /\ Wanted[s].minSalary # 0 => Listed[j].salaryMin >= Wanted[s].minSalary
  /\ Listed[j].score >= Wanted[s].minScore

-----------------------------------------------------------------------------
\* A moment passes; a job that is due and has not been taken is late by it.
Tick ==
  /\ clock < Horizon /\ clock' = clock + 1
  /\ IF clock >= due THEN Spend("late") ELSE UNCHANGED budget

Pass ==
  /\ Tick
  /\ UNCHANGED <<due, stalled, rows, run, history>>

\* The scraper's transaction for a job that is new: it begins, and NOW() is
\* fixed; it commits, or rolls back.
BeginStore(j) ==
  /\ stamp[j] = 0
  /\ stamp' = [stamp EXCEPT ![j] = clock]
  /\ UNCHANGED <<window, stored, searches, run, budget, history>>

CommitStore(j) ==
  /\ stamp[j] # 0 /\ j \notin stored
  /\ stored' = stored \cup {j}
  /\ UNCHANGED <<window, stamp, searches, run, budget, history>>

RollBack(j) ==
  /\ stamp[j] # 0 /\ j \notin stored
  /\ stamp' = [stamp EXCEPT ![j] = 0]
  /\ UNCHANGED <<window, stored, searches, run, budget, history>>

\* SavedSearches!Insert and !Delete.
Edit(s) ==
  /\ Spend("edit")
  /\ searches' = IF s \in searches THEN searches \ {s} ELSE searches \cup {s}
  /\ edited' = [edited EXCEPT ![s] = clock]
  /\ UNCHANGED <<window, jobRows, run, alerts, attempted, straddled, squeezed>>

\* process() starts: `since` is an hour before now.
Start(w, retried) ==
  /\ run[w].pc = "idle"
  /\ run' = [run EXCEPT ![w] = [@ EXCEPT !.pc = "jobs", !.start = clock, !.retried = retried]]
  /\ UNCHANGED <<rows, history>>

\* BullMQ hands over the due job, and schedules its repetition for the next
\* full hour.
Take(w) ==
  /\ clock >= due /\ clock < Horizon /\ clock' = clock + 1
  /\ due' = ((clock \div Period) + 1) * Period
  /\ Start(w, FALSE)
  /\ UNCHANGED <<stalled, budget>>

\* BullMQ hands over a job whose first worker is gone.
TakeAgain(w) ==
  /\ stalled > 0 /\ stalled' = stalled - 1
  /\ Tick /\ Start(w, TRUE)
  /\ UNCHANGED due

\* Mutation of ReadJobs: the window is shorter than the time between two runs.
ReadJobsShort(w) ==
  LET start == run[w].start
      batch == {j \in stored : stamp[j] > start - Period + 1}
  IN  /\ run[w].pc = "jobs"
      /\ run' = [run EXCEPT ![w] = IF batch = {} THEN Idle
                                   ELSE [@ EXCEPT !.pc = "searches", !.batch = batch]]
      /\ straddled' = straddled \cup {j \in Jobs \ stored : stamp[j] \in 1..start}
      /\ squeezed' = [j \in Jobs |-> squeezed[j] + IF j \in batch /\ stamp[j] > start THEN 1 ELSE 0]
      /\ UNCHANGED <<window, rows, budget, alerts, attempted, edited>>

\* find({ scrapedAt: MoreThan(since) }): what is committed by now.
ReadJobs(w) ==
  LET start == run[w].start
      batch == {j \in stored : stamp[j] > start - Period}
  IN  /\ run[w].pc = "jobs"
      /\ run' = [run EXCEPT ![w] = IF batch = {} THEN Idle
                                   ELSE [@ EXCEPT !.pc = "searches", !.batch = batch]]
      /\ straddled' = straddled \cup {j \in Jobs \ stored : stamp[j] \in 1..start}
      /\ squeezed' = [j \in Jobs |-> squeezed[j] + IF j \in batch /\ stamp[j] > start THEN 1 ELSE 0]
      /\ UNCHANGED <<window, rows, budget, alerts, attempted, edited>>

\* Mutation of ReadSearches: the removed rows are read too.
ReadSearchesAll(w) ==
  LET todo == {p \in run[w].batch \X Searches : Matches(p[1], p[2])}
  IN  /\ run[w].pc = "searches"
      /\ run' = [run EXCEPT ![w] = IF todo = {} THEN Idle
                                   ELSE [@ EXCEPT !.pc = "send", !.todo = todo]]
      /\ UNCHANGED <<window, rows, budget, history>>

\* find() of the searches saved by now.
ReadSearches(w) ==
  LET todo == {p \in run[w].batch \X searches : Matches(p[1], p[2])}
  IN  /\ run[w].pc = "searches"
      /\ run' = [run EXCEPT ![w] = IF todo = {} THEN Idle
                                   ELSE [@ EXCEPT !.pc = "send", !.todo = todo]]
      /\ UNCHANGED <<window, rows, budget, history>>

\* telegram.send: the message is delivered, or refused or lost, which is swallowed.
Deliver(p) ==
  /\ alerts' \in {alerts, [alerts EXCEPT ![p] = @ + 1]}
  /\ attempted' = attempted \cup {p}

\* Mutations of Send: a pair stays in the loop after its message; the loop does
\* not end after the last.
SendKeeps(w) ==
  /\ run[w].pc = "send"
  /\ \E p \in run[w].todo : Deliver(p)
  /\ UNCHANGED <<window, rows, run, budget, edited, straddled, squeezed>>

SendStays(w) ==
  /\ run[w].pc = "send"
  /\ \E p \in run[w].todo :
       /\ Deliver(p)
       /\ run' = [run EXCEPT ![w].todo = @ \ {p}]
  /\ UNCHANGED <<window, rows, budget, edited, straddled, squeezed>>

\* The message of the next pair.  The run ends with the last pair.
Send(w) ==
  /\ run[w].pc = "send"
  /\ \E p \in run[w].todo :
       /\ Deliver(p)
       /\ run' = [run EXCEPT ![w] = IF run[w].todo = {p} THEN Idle
                                    ELSE [@ EXCEPT !.todo = run[w].todo \ {p}]]
  /\ UNCHANGED <<window, rows, budget, edited, straddled, squeezed>>

\* A query throws: the job fails, and it has no second attempt.
QueryFails(w) ==
  /\ run[w].pc \in {"jobs", "searches"}
  /\ Spend("fault")
  /\ run' = [run EXCEPT ![w] = Idle]
  /\ UNCHANGED <<window, rows, history>>

\* The instance dies; its job is put back, unless it has been put back before.
Crash(w) ==
  /\ run[w].pc # "idle"
  /\ Spend("fault")
  /\ run' = [run EXCEPT ![w] = Idle]
  /\ stalled' = IF run[w].retried THEN stalled ELSE stalled + 1
  /\ UNCHANGED <<clock, due, rows, history>>

\* The stalled check takes a live worker for dead and puts its job back.
FalseStall(w) ==
  /\ run[w].pc # "idle" /\ ~run[w].retried
  /\ Spend("fault")
  /\ run' = [run EXCEPT ![w].retried = TRUE]
  /\ stalled' = stalled + 1
  /\ UNCHANGED <<clock, due, rows, history>>

Init ==
  /\ clock = 1 /\ due = Period /\ stalled = 0
  /\ stamp = [j \in Jobs |-> 0] /\ stored = {}
  /\ searches \in SUBSET Searches
  /\ run = [w \in Workers |-> Idle]
  /\ budget = [fault |-> MaxFaults, late |-> MaxLate, edit |-> MaxEdits]
  /\ alerts = [p \in Jobs \X Searches |-> 0] /\ attempted = {}
  /\ edited = [s \in Searches |-> 0] /\ straddled = {}
  /\ squeezed = [j \in Jobs |-> 0]

Next ==
  \/ Pass
  \/ \E j \in Jobs : BeginStore(j) \/ CommitStore(j) \/ RollBack(j)
  \/ \E s \in Searches : Edit(s)
  \/ \E w \in Workers :
       \/ Take(w) \/ TakeAgain(w)
       \/ ReadJobs(w) \/ ReadSearches(w) \/ Send(w)
       \/ QueryFails(w) \/ Crash(w) \/ FalseStall(w)

Spec == Init /\ [][Next]_vars

-----------------------------------------------------------------------------
Pairs == Jobs \X Searches
Locals == [pc : {"idle", "jobs", "searches", "send"}, start : Nat, retried : BOOLEAN,
           batch : SUBSET Jobs, todo : SUBSET Pairs]

\* The type of the state; a run lies in the past, sends only what it read, and
\* is over when nothing is left to send.
TypeOK ==
  /\ clock \in 1..Horizon /\ due \in Nat /\ stalled \in Nat
  /\ stamp \in [Jobs -> 0..clock] /\ \A j \in stored : j \in Jobs /\ stamp[j] # 0
  /\ run \in [Workers -> Locals]
  /\ \A w \in Workers :
       /\ run[w].pc # "idle" => run[w].start < clock
       /\ run[w].pc = "send" <=> run[w].todo # {}
       /\ run[w].batch \subseteq stored /\ \A p \in run[w].todo : p[1] \in run[w].batch
  /\ searches \subseteq Searches /\ edited \in [Searches -> 0..clock]
  /\ budget \in [fault : 0..MaxFaults, late : 0..MaxLate, edit : 0..MaxEdits]
  /\ alerts \in [Pairs -> Nat] /\ attempted \subseteq Pairs
  /\ straddled \subseteq Jobs /\ squeezed \in [Jobs -> Nat]

Spent(kind, limit) == limit - budget[kind]

\* A pair is alerted once, and once more at most for each thing that upsets the
\* windows: a run whose query found the job though it was stored after the run
\* started, a moment a run was late, a run repeated after a crash or a wrong
\* verdict.
AlertsAreBounded ==
  \A p \in Pairs :
    alerts[p] <= 1 + squeezed[p[1]] + Spent("fault", MaxFaults) + Spent("late", MaxLate)

\* When the runs are over and the next is not due, whatever its window will
\* have left behind has been alerted for every search that was saved before it
\* and is still there - unless the job's transaction was open while a run read
\* the table, or a run was late, died or failed.
LeftBehindWasAlerted ==
  (\A w \in Workers : run[w].pc = "idle") /\ stalled = 0 /\ clock < due
  /\ Spent("fault", MaxFaults) = 0 /\ Spent("late", MaxLate) = 0 =>
    \A j \in stored \ straddled, s \in searches :
      stamp[j] <= due - Period /\ edited[s] < stamp[j] /\ Matches(j, s) => <<j, s>> \in attempted

\* A removed search is silent from the next run on: what is still to be sent
\* for it is of a run that had started when it was removed.
RemovedFallsSilent ==
  \A w \in Workers : \A p \in run[w].todo :
    p[2] \in searches \/ edited[p[2]] > run[w].start
=============================================================================
