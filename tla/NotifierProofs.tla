---------------------------- MODULE NotifierProofs ----------------------------
(***************************************************************************)
(* Proofs about Notifier, for any number of instances, jobs and searches,  *)
(* an hour of any length, and any number of faults, late moments and       *)
(* edits.                                                                  *)
(***************************************************************************)
EXTENDS Notifier, FiniteSetTheorems, TLAPS

\* The full hour a moment lies in.
HourOf(t) == (t \div Period) * Period

Faults == Spent("fault", MaxFaults)
Lateness == Spent("late", MaxLate)
Tardy == IF Lateness > 0 THEN 1 ELSE 0

\* The run has still to read the table, and started after j was stamped but
\* within the hour.
WillRead(w, j) ==
  /\ run[w].pc = "jobs"
  /\ stamp[j] <= run[w].start /\ run[w].start < stamp[j] + Period

\* A run that may still send a message for job j and search s, and that is not
\* counted in squeezed[j] instead.
Holds(w, j, s) ==
  \/ WillRead(w, j)
  \/ run[w].pc = "searches" /\ j \in run[w].batch
  \/ run[w].pc = "send" /\ <<j, s>> \in run[w].todo

Holders(j, s) == {w \in Workers : Holds(w, j, s)}

\* The runs on time that can have had j in their window, by the time the next
\* one is due: none, before the first full hour after j's stamp; one in that
\* hour, which j does not survive if it was stamped on the hour; and a second
\* one only after a run that was late.
Windows(j) ==
  IF due <= HourOf(stamp[j]) THEN 0
  ELSE IF due = HourOf(stamp[j]) + Period
       THEN IF stamp[j] = HourOf(stamp[j]) THEN 1 ELSE Tardy
       ELSE 1 + Tardy

\* The clock runs ahead of the schedule only while a run is late, and a job is
\* put back only for a fault.
Schedule ==
  /\ due = HourOf(due) /\ clock > due - Period
  /\ clock - due <= Lateness
  /\ stalled <= Faults

\* Nobody is alerted of a job that is not stored.
Unstored ==
  \A j \in Jobs \ stored :
    squeezed[j] = 0 /\ \A s \in Searches : alerts[<<j, s>>] = 0

\* What was sent for a pair, and may still be sent by a run or by one put back,
\* is paid for by the windows on time, the squeezed runs and the faults.
PaidFor(j, s) ==
  stamp[j] # 0 =>
    alerts[<<j, s>>] + Cardinality(Holders(j, s)) + stalled
      <= Windows(j) + squeezed[j] + Faults

Active == {w \in Workers : run[w].pc # "idle"}

\* A run will read j, or has read it and has sent, or may still send, a message
\* for every search that is entitled to one.
Covered(j) ==
  \/ \E w \in Workers : WillRead(w, j)
  \/ /\ j \in stored
     /\ \A s \in searches : edited[s] < stamp[j] /\ Matches(j, s) =>
          <<j, s>> \in attempted \/ \E w \in Workers : Holds(w, j, s)

\* Nothing has failed and nobody was late.
Punctual == Faults = 0 /\ Lateness = 0

\* The next window will not reach back to the job.
LeftBehind(j) == stamp[j] # 0 /\ stamp[j] <= due - Period

\* While all goes well, every job that the next window will leave behind is
\* covered - unless a run read the table while the job's transaction was open.
NobodyMissed == Punctual => \A j \in Jobs \ straddled : LeftBehind(j) => Covered(j)

IInv ==
  /\ TypeOK /\ Schedule /\ Unstored /\ IsFiniteSet(Active)
  /\ \A j \in Jobs, s \in Searches : PaidFor(j, s)
  /\ NobodyMissed /\ RemovedFallsSilent

-----------------------------------------------------------------------------
\* A moment lies in its hour.
LEMMA HourBounds ==
  ASSUME NEW t \in Nat
  PROVE  /\ HourOf(t) \in Nat /\ HourOf(t) <= t /\ t < HourOf(t) + Period
<1>1. Period \in Nat /\ Period > 0
  BY NotifierAssumption
<1>2. t \div Period \in Nat
  BY <1>1
<1>3. t % Period \in 0..Period-1
  BY <1>1
<1>4. t = (Period * (t \div Period)) + (t % Period)
  BY <1>1
<1>. QED BY <1>1, <1>2, <1>3, <1>4 DEF HourOf

\* Multiplication by a natural number is monotonic.
LEMMA TimesGrows ==
  ASSUME NEW m \in Nat, NEW n \in Nat, NEW l \in Nat, m >= n
  PROVE  m * l >= n * l
<1>1. PICK d \in Nat : m = n + d
  <2>1. m - n \in Nat /\ m = n + (m - n)
    OBVIOUS
  <2> QED BY <2>1
<1>2. (n + d) * l = n * l + d * l
  OBVIOUS
<1>3. d * l \in Nat /\ n * l \in Nat
  OBVIOUS
<1> QED BY <1>1, <1>2, <1>3

\* Two full hours are a Period apart.
LEMMA HoursApart ==
  ASSUME NEW t \in Nat, NEW u \in Nat, HourOf(t) < HourOf(u)
  PROVE  HourOf(t) + Period <= HourOf(u)
<1>1. Period \in Nat /\ Period > 0
  BY NotifierAssumption
<1>2. t \div Period \in Nat /\ u \div Period \in Nat
  BY <1>1
<1>3. t \div Period < u \div Period
  <2>1. CASE t \div Period >= u \div Period
    BY <2>1, <1>1, <1>2, TimesGrows DEF HourOf
  <2> QED BY <2>1, <1>2
<1>4. (t \div Period + 1) * Period <= HourOf(u)
  BY <1>1, <1>2, <1>3, TimesGrows DEF HourOf
<1>5. (t \div Period + 1) * Period = HourOf(t) + Period
  BY <1>1, <1>2 DEF HourOf
<1> QED BY <1>4, <1>5

\* A later instant is not in an earlier hour.
LEMMA HoursOrder ==
  ASSUME NEW t \in Nat, NEW u \in Nat, t <= u
  PROVE  HourOf(t) <= HourOf(u)
<1>1. Period \in Nat
  BY NotifierAssumption
<1>2. CASE HourOf(u) < HourOf(t)
  BY <1>1, <1>2, HoursApart, HourBounds
<1> QED BY <1>2, HourBounds

\* The next full hour is one, and is what Take schedules.
LEMMA NextHour ==
  ASSUME NEW t \in Nat
  PROVE  /\ HourOf(HourOf(t) + Period) = HourOf(t) + Period
         /\ HourOf(HourOf(t)) = HourOf(t) /\ HourOf(t) + Period \in Nat
         /\ (t \div Period + 1) * Period = HourOf(t) + Period
<1>0. Period \in Nat /\ Period > 0
  BY NotifierAssumption
<1>1. Period \in Nat /\ Period > 0 /\ t \div Period \in Nat
  BY <1>0
<1>2. (t \div Period + 1) * Period = HourOf(t) + Period
  BY <1>1 DEF HourOf
<1>3. \A n \in Nat : (n * Period) \in Nat /\ HourOf(n * Period) = n * Period
  <2> SUFFICES ASSUME NEW n \in Nat PROVE (n * Period) \in Nat /\ HourOf(n * Period) = n * Period
    OBVIOUS
  <2>1. (n * Period) \in Nat
    BY <1>1
  <2>2. (n * Period) \div Period = n
    BY <1>1
  <2> QED BY <2>1, <2>2 DEF HourOf
<1> QED BY <1>1, <1>2, <1>3 DEF HourOf

-----------------------------------------------------------------------------
\* What a step spends.
LEMMA Budget ==
  ASSUME TypeOK
  PROVE  /\ Faults \in Nat /\ Lateness \in Nat
         /\ Spend("fault") => Faults' = Faults + 1 /\ Lateness' = Lateness
         /\ Spend("late") => Faults' = Faults /\ Lateness' = Lateness + 1
         /\ Spend("edit") => Faults' = Faults /\ Lateness' = Lateness
         /\ UNCHANGED budget => Faults' = Faults /\ Lateness' = Lateness
<1>1. budget \in [fault : 0..MaxFaults, late : 0..MaxLate, edit : 0..MaxEdits]
      /\ MaxFaults \in Nat /\ MaxLate \in Nat
  BY NotifierAssumption DEF TypeOK
<1> QED BY <1>1 DEF Faults, Lateness, Spent, Spend

\* No action spends more of the budget than there is.
LEMMA BudgetType ==
  ASSUME TypeOK,
         Spend("fault") \/ Spend("late") \/ Spend("edit") \/ UNCHANGED budget
  PROVE  budget' \in [fault : 0..MaxFaults, late : 0..MaxLate, edit : 0..MaxEdits]
<1>1. budget \in [fault : 0..MaxFaults, late : 0..MaxLate, edit : 0..MaxEdits]
      /\ MaxFaults \in Nat /\ MaxLate \in Nat /\ MaxEdits \in Nat
  BY NotifierAssumption DEF TypeOK
<1> QED BY <1>1 DEF Spend

\* The other workers' locals stay as they are.
Others(w) == \A v \in Workers : v # w => run'[v] = run[v]

\* A worker's locals in a state whose clock shows c, and whose jobs S are stored.
RunOK(r, c, S) ==
  /\ r \in Locals
  /\ r.pc # "idle" => r.start < c
  /\ r.pc = "send" <=> r.todo # {}
  /\ r.batch \subseteq S /\ \A p \in r.todo : p[1] \in r.batch

\* What TypeOK says of one worker.
LEMMA RunsAreOK ==
  ASSUME TypeOK, NEW w \in Workers
  PROVE  RunOK(run[w], clock, stored)
BY DEF TypeOK, RunOK

RunsType ==
  run' \in [Workers -> Locals] /\ \A w \in Workers : RunOK(run'[w], clock', stored')

\* No worker's locals change, while time passes or jobs are stored.
LEMMA RunsStay ==
  ASSUME TypeOK, run' = run, clock' \in Nat, clock' >= clock, stored \subseteq stored'
  PROVE  RunsType
<1>1. clock \in Nat /\ run \in [Workers -> Locals]
  BY DEF TypeOK
<1>2. ASSUME NEW w \in Workers PROVE RunOK(run[w], clock', stored')
  <2>1. RunOK(run[w], clock, stored)
    BY RunsAreOK
  <2>2. run[w].start \in Nat
    BY <1>1 DEF Locals
  <2> QED BY <1>1, <2>1, <2>2 DEF RunOK
<1> QED BY <1>1, <1>2 DEF RunsType

\* One worker's locals become L.
LEMMA RunChange ==
  ASSUME TypeOK, NEW w \in Workers, NEW L, run' = [run EXCEPT ![w] = L],
         clock' \in Nat, clock' >= clock, stored' = stored, RunOK(L, clock', stored)
  PROVE  RunsType /\ run'[w] = L /\ Others(w)
<1>1. clock \in Nat /\ run \in [Workers -> Locals]
  BY DEF TypeOK
<1>2. run'[w] = L /\ Others(w) /\ L \in Locals
  BY <1>1 DEF Others, RunOK
<1>3. run' \in [Workers -> Locals]
  BY <1>1, <1>2
<1>4. ASSUME NEW v \in Workers, v # w PROVE RunOK(run[v], clock', stored)
  <2>1. RunOK(run[v], clock, stored)
    BY RunsAreOK
  <2>2. run[v].start \in Nat
    BY <1>1 DEF Locals
  <2> QED BY <1>1, <2>1, <2>2 DEF RunOK
<1> QED BY <1>2, <1>3, <1>4 DEF RunsType, Others

\* An idle worker's locals suit every clock and every set of stored jobs.
LEMMA IdleIsOK ==
  ASSUME NEW c, NEW S
  PROVE  RunOK(Idle, c, S) /\ Idle.pc = "idle" /\ Idle.todo = {}
<1>1. Idle \in Locals
  BY DEF Idle, Locals
<1> QED BY <1>1 DEF Idle, RunOK

\* What each step of process() leaves in its worker's locals.
LEMMA StartEffect ==
  ASSUME TypeOK, NEW w \in Workers, NEW retried \in BOOLEAN, Start(w, retried),
         clock' = clock + 1
  PROVE  /\ RunsType /\ Others(w) /\ run[w].pc = "idle" /\ run[w].todo = {}
         /\ run'[w].pc = "jobs" /\ run'[w].start = clock /\ run'[w].todo = {}
<1> DEFINE L == [run[w] EXCEPT !.pc = "jobs", !.start = clock, !.retried = retried]
<1>1. RunOK(run[w], clock, stored) /\ clock \in Nat
  BY RunsAreOK DEF TypeOK
<1>2. run[w].pc = "idle" /\ run' = [run EXCEPT ![w] = L] /\ stored' = stored
  BY DEF Start, rows, jobRows
<1>3. run[w] \in Locals /\ run[w].todo = {} /\ run[w].batch \subseteq stored
  BY <1>1, <1>2 DEF RunOK
<1>4. L \in Locals
  BY <1>1, <1>3, Zenon DEF Locals
<1>5. L.pc = "jobs" /\ L.start = clock /\ L.todo = run[w].todo /\ L.batch = run[w].batch
  BY <1>3, Zenon DEF Locals
<1> HIDE DEF L
<1>6. RunOK(L, clock', stored)
  BY <1>1, <1>3, <1>4, <1>5 DEF RunOK
<1>a. clock' \in Nat /\ clock' >= clock
  BY <1>1
<1>7. RunsType /\ run'[w] = L /\ Others(w)
  BY <1>1, <1>2, <1>6, <1>a, RunChange
<1> QED BY <1>2, <1>3, <1>5, <1>7

\* The worker is through with its job.
LEMMA StopEffect ==
  ASSUME TypeOK, NEW w \in Workers, run' = [run EXCEPT ![w] = Idle],
         clock' = clock, stored' = stored
  PROVE  /\ RunsType /\ Others(w) /\ run'[w].pc = "idle" /\ run'[w].todo = {}
<1>1. clock \in Nat
  BY DEF TypeOK
<1>2. clock' \in Nat /\ clock' >= clock
  BY <1>1
<1>3. RunsType /\ run'[w] = Idle /\ Others(w)
  BY <1>2, IdleIsOK, RunChange
<1> QED BY <1>3, IdleIsOK

\* The batch is exactly the stored jobs stamped within the window.
LEMMA ReadJobsEffect ==
  ASSUME TypeOK, NEW w \in Workers, ReadJobs(w)
  PROVE  /\ RunsType /\ Others(w) /\ run[w].pc = "jobs" /\ run[w].todo = {}
         /\ run'[w].todo = {} /\ run'[w].pc \in {"idle", "searches"}
         /\ \A j \in Jobs : run'[w].pc = "searches" /\ j \in run'[w].batch
              <=> j \in stored /\ stamp[j] > run[w].start - Period
<1> DEFINE batch == {j \in stored : stamp[j] > run[w].start - Period}
           L == [run[w] EXCEPT !.pc = "searches", !.batch = batch]
<1>1. RunOK(run[w], clock, stored) /\ clock \in Nat /\ stored \subseteq Jobs
  BY RunsAreOK DEF TypeOK
<1>2. run[w].pc = "jobs" /\ run' = [run EXCEPT ![w] = IF batch = {} THEN Idle ELSE L]
      /\ stored' = stored /\ clock' = clock
  BY DEF ReadJobs, window, rows, jobRows
<1>3. run[w] \in Locals /\ run[w].todo = {} /\ run[w].start < clock
  BY <1>1, <1>2 DEF RunOK
<1>4. batch \in SUBSET Jobs /\ batch \subseteq stored
      /\ \A j \in Jobs : j \in batch <=> j \in stored /\ stamp[j] > run[w].start - Period
  BY <1>1
<1> HIDE DEF batch
<1>5. L \in Locals
  BY <1>3, <1>4, Zenon DEF Locals
<1>6. L.pc = "searches" /\ L.start = run[w].start /\ L.todo = run[w].todo /\ L.batch = batch
  BY <1>3, Zenon DEF Locals
<1> HIDE DEF L
<1>7. RunOK(L, clock, stored)
  BY <1>3, <1>4, <1>5, <1>6 DEF RunOK
<1> DEFINE next == IF batch = {} THEN Idle ELSE L
<1>8. RunOK(next, clock', stored)
  BY <1>2, <1>7, IdleIsOK
<1>a. run' = [run EXCEPT ![w] = next]
  BY <1>2
<1>b. clock' \in Nat /\ clock' >= clock /\ stored' = stored
  BY <1>1, <1>2
<1> HIDE DEF next
<1>c. RunsType /\ run'[w] = next /\ Others(w)
  BY <1>a, <1>b, <1>8, RunChange
<1>9. RunsType /\ run'[w] = (IF batch = {} THEN Idle ELSE L) /\ Others(w)
  BY <1>c DEF next
<1>10. CASE batch = {}
  BY <1>2, <1>3, <1>4, <1>9, <1>10, IdleIsOK
<1>11. CASE batch # {}
  BY <1>2, <1>3, <1>4, <1>6, <1>9, <1>11
<1> QED BY <1>10, <1>11

\* The alerts to send are the matches of the batch with the searches there are.
LEMMA ReadSearchesEffect ==
  ASSUME TypeOK, NEW w \in Workers, ReadSearches(w)
  PROVE  /\ RunsType /\ Others(w) /\ run[w].pc = "searches" /\ run[w].todo = {}
         /\ run'[w].pc \in {"idle", "send"}
         /\ \A p \in run'[w].todo : p[2] \in searches
         /\ \A j \in Jobs, s \in Searches : <<j, s>> \in run'[w].todo
              <=> j \in run[w].batch /\ s \in searches /\ Matches(j, s)
         /\ run'[w].todo # {} => run'[w].pc = "send"
<1> DEFINE todo == {p \in run[w].batch \X searches : Matches(p[1], p[2])}
           L == [run[w] EXCEPT !.pc = "send", !.todo = todo]
<1>1. RunOK(run[w], clock, stored) /\ clock \in Nat /\ searches \subseteq Searches
  BY RunsAreOK DEF TypeOK
<1>2. run[w].pc = "searches" /\ run' = [run EXCEPT ![w] = IF todo = {} THEN Idle ELSE L]
      /\ stored' = stored /\ clock' = clock
  BY DEF ReadSearches, window, rows, jobRows
<1>3. run[w] \in Locals /\ run[w].todo = {} /\ run[w].start < clock
      /\ run[w].batch \subseteq stored
  BY <1>1, <1>2 DEF RunOK
<1>4. run[w].batch \subseteq Jobs
  BY <1>3 DEF Locals
<1>5. /\ todo \in SUBSET Pairs /\ \A p \in todo : p[1] \in run[w].batch /\ p[2] \in searches
      /\ \A j \in Jobs, s \in Searches : <<j, s>> \in todo
           <=> j \in run[w].batch /\ s \in searches /\ Matches(j, s)
  BY <1>1, <1>4 DEF Pairs
<1> HIDE DEF todo
<1>6. L \in Locals
  BY <1>3, <1>5, Zenon DEF Locals
<1>7. L.pc = "send" /\ L.start = run[w].start /\ L.todo = todo /\ L.batch = run[w].batch
  BY <1>3, Zenon DEF Locals
<1> HIDE DEF L
<1>8. todo # {} => RunOK(L, clock, stored)
  BY <1>3, <1>5, <1>6, <1>7 DEF RunOK
<1> DEFINE next == IF todo = {} THEN Idle ELSE L
<1>9. RunOK(next, clock', stored)
  BY <1>2, <1>8, IdleIsOK
<1>a. run' = [run EXCEPT ![w] = next]
  BY <1>2
<1>b. clock' \in Nat /\ clock' >= clock /\ stored' = stored
  BY <1>1, <1>2
<1> HIDE DEF next
<1>c. RunsType /\ run'[w] = next /\ Others(w)
  BY <1>a, <1>b, <1>9, RunChange
<1>10. RunsType /\ run'[w] = (IF todo = {} THEN Idle ELSE L) /\ Others(w)
  BY <1>c DEF next
<1>11. run'[w].todo = todo /\ run'[w].pc = IF todo = {} THEN "idle" ELSE "send"
  BY <1>7, <1>10, IdleIsOK
<1> QED BY <1>2, <1>3, <1>5, <1>10, <1>11

\* One alert is off the worker's list; an empty list ends the run.
LEMMA SendEffect ==
  ASSUME TypeOK, NEW w \in Workers, NEW p \in run[w].todo, run[w].pc = "send",
         run' = [run EXCEPT ![w] = IF run[w].todo = {p} THEN Idle
                                   ELSE [@ EXCEPT !.todo = run[w].todo \ {p}]],
         clock' = clock, stored' = stored
  PROVE  /\ RunsType /\ Others(w) /\ p \in Pairs /\ p[1] \in stored
         /\ run'[w].pc \in {"idle", "send"}
         /\ run'[w].todo = run[w].todo \ {p}
         /\ run'[w].todo # {} => run'[w].pc = "send"
         /\ run'[w].todo # {} => run'[w].start = run[w].start
<1> DEFINE rest == run[w].todo \ {p}
           L == [run[w] EXCEPT !.todo = rest]
<1>1. RunOK(run[w], clock, stored) /\ clock \in Nat
  BY RunsAreOK DEF TypeOK
<1>2. run' = [run EXCEPT ![w] = IF rest = {} THEN Idle ELSE L]
  OBVIOUS
<1>3. run[w] \in Locals /\ run[w].start < clock /\ run[w].batch \subseteq stored
      /\ p[1] \in run[w].batch /\ \A q \in rest : q[1] \in run[w].batch
  BY <1>1 DEF RunOK
<1>4. rest \in SUBSET Pairs /\ p \in Pairs
  BY <1>3 DEF Locals
<1>5. rest = run[w].todo \ {p}
  OBVIOUS
<1> HIDE DEF rest
<1>6. L \in Locals
  BY <1>3, <1>4, Zenon DEF Locals
<1>7. L.pc = run[w].pc /\ L.start = run[w].start /\ L.todo = rest /\ L.batch = run[w].batch
  BY <1>3, Zenon DEF Locals
<1> HIDE DEF L
<1>8. rest # {} => RunOK(L, clock, stored)
  BY <1>3, <1>6, <1>7 DEF RunOK
<1> DEFINE next == IF rest = {} THEN Idle ELSE L
<1>9. RunOK(next, clock', stored)
  BY <1>8, IdleIsOK
<1>a. run' = [run EXCEPT ![w] = next]
  BY <1>2
<1>b. clock' \in Nat /\ clock' >= clock /\ stored' = stored
  BY <1>1
<1> HIDE DEF next
<1>c. RunsType /\ run'[w] = next /\ Others(w)
  BY <1>a, <1>b, <1>9, RunChange
<1>10. RunsType /\ run'[w] = (IF rest = {} THEN Idle ELSE L) /\ Others(w)
  BY <1>c DEF next
<1>11. CASE rest = {}
  BY <1>3, <1>4, <1>5, <1>10, <1>11, IdleIsOK
<1>12. CASE rest # {}
  BY <1>3, <1>4, <1>5, <1>7, <1>10, <1>12
<1> QED BY <1>11, <1>12

\* A false stall changes nothing in the run itself but that it is a retry.
LEMMA FalseStallEffect ==
  ASSUME TypeOK, NEW w \in Workers, FalseStall(w)
  PROVE  /\ RunsType /\ Others(w) /\ run[w].pc # "idle" /\ run'[w].pc = run[w].pc
         /\ run'[w].start = run[w].start /\ run'[w].batch = run[w].batch
         /\ run'[w].todo = run[w].todo
<1> DEFINE L == [run[w] EXCEPT !.retried = TRUE]
<1>1. RunOK(run[w], clock, stored) /\ clock \in Nat /\ run \in [Workers -> Locals]
  BY RunsAreOK DEF TypeOK
<1>2. run[w].pc # "idle" /\ run' = [run EXCEPT ![w].retried = TRUE]
      /\ stored' = stored /\ clock' = clock
  BY DEF FalseStall, rows, jobRows
<1>3. run' = [run EXCEPT ![w] = L] /\ run[w] \in Locals
  BY <1>1, <1>2
<1>4. L \in Locals
  BY <1>3, Zenon DEF Locals
<1>5. L.pc = run[w].pc /\ L.start = run[w].start /\ L.todo = run[w].todo /\ L.batch = run[w].batch
  BY <1>3, Zenon DEF Locals
<1> HIDE DEF L
<1>6. RunOK(L, clock', stored)
  BY <1>1, <1>2, <1>4, <1>5 DEF RunOK
<1>a. clock' \in Nat /\ clock' >= clock
  BY <1>1, <1>2
<1>7. RunsType /\ run'[w] = L /\ Others(w)
  BY <1>2, <1>3, <1>6, <1>a, RunChange
<1> QED BY <1>2, <1>5, <1>7

-----------------------------------------------------------------------------
\* TypeOK in parts, and what keeps each of them.
ClockType == clock \in 1..Horizon /\ due \in Nat /\ stalled \in Nat
StampType == stamp \in [Jobs -> 0..clock] /\ \A j \in stored : j \in Jobs /\ stamp[j] # 0
RowsType == searches \subseteq Searches /\ edited \in [Searches -> 0..clock]
BudgetIs == budget \in [fault : 0..MaxFaults, late : 0..MaxLate, edit : 0..MaxEdits]
SentType == alerts \in [Pairs -> Nat] /\ attempted \subseteq Pairs
ReadType == straddled \subseteq Jobs /\ squeezed \in [Jobs -> Nat]

\* TypeOK, by the parts that the actions change together.
LEMMA PartsOfType ==
  /\ TypeOK => ClockType /\ StampType /\ RowsType /\ BudgetIs /\ SentType /\ ReadType
  /\ ClockType' /\ StampType' /\ RunsType /\ RowsType' /\ BudgetIs' /\ SentType' /\ ReadType'
       => TypeOK'
<1>1. RunsType => /\ run' \in [Workers -> Locals]
                  /\ \A w \in Workers :
                       /\ run'[w].pc # "idle" => run'[w].start < clock'
                       /\ run'[w].pc = "send" <=> run'[w].todo # {}
                       /\ run'[w].batch \subseteq stored'
                       /\ \A p \in run'[w].todo : p[1] \in run'[w].batch
  BY DEF RunsType, RunOK
<1> QED
  BY <1>1 DEF TypeOK, ClockType, StampType, RowsType, BudgetIs, SentType, ReadType

\* What time leaves alone keeps its type.
LEMMA TimePasses ==
  ASSUME TypeOK, clock' \in Nat, clock' >= clock
  PROVE  /\ UNCHANGED jobRows => StampType'
         /\ UNCHANGED <<searches, edited>> => RowsType'
         /\ UNCHANGED <<alerts, attempted>> => SentType'
         /\ UNCHANGED <<straddled, squeezed>> => ReadType'
<1>1. clock \in Nat
  BY DEF TypeOK
<1>2. 0..clock \subseteq 0..clock'
  BY <1>1
<1>3. stamp \in [Jobs -> 0..clock'] /\ edited \in [Searches -> 0..clock']
  BY <1>2 DEF TypeOK
<1> QED BY <1>3 DEF TypeOK, StampType, RowsType, SentType, ReadType, jobRows

\* Time passes by one tick, which is late when a run is due.
LEMMA TickEffect ==
  ASSUME TypeOK, Tick
  PROVE  /\ clock' = clock + 1 /\ clock' \in 1..Horizon /\ clock' \in Nat /\ clock' >= clock
         /\ clock \in Nat /\ BudgetIs' /\ Faults' = Faults /\ Lateness' >= Lateness
         /\ clock >= due => Lateness' = Lateness + 1
         /\ Lateness \in Nat /\ Lateness' \in Nat /\ Faults \in Nat
<1>1. clock \in 1..Horizon /\ Horizon \in Nat
  BY NotifierAssumption DEF TypeOK
<1>2. clock < Horizon /\ clock' = clock + 1
      /\ IF clock >= due THEN Spend("late") ELSE UNCHANGED budget
  BY DEF Tick
<1>3. BudgetIs'
  BY <1>2, BudgetType DEF BudgetIs
<1>4. clock' \in 1..Horizon /\ clock' \in Nat /\ clock' >= clock /\ clock \in Nat
  BY <1>1, <1>2
<1>5. /\ Faults \in Nat /\ Lateness \in Nat
      /\ IF clock >= due THEN Lateness' = Lateness + 1 /\ Faults' = Faults
                         ELSE Lateness' = Lateness /\ Faults' = Faults
  BY <1>2, Budget
<1> QED BY <1>2, <1>3, <1>4, <1>5

\* process() starts on time: the next job is due at the next full hour.
LEMMA TakeEffect ==
  ASSUME TypeOK, NEW w \in Workers, Take(w)
  PROVE  /\ clock >= due /\ clock' = clock + 1 /\ clock' \in 1..Horizon
         /\ clock \in Nat /\ clock' \in Nat /\ clock' >= clock
         /\ due' = HourOf(clock) + Period /\ due' \in Nat /\ Start(w, FALSE)
<1>1. clock \in 1..Horizon /\ Horizon \in Nat
  BY NotifierAssumption DEF TypeOK
<1>2. clock >= due /\ clock < Horizon /\ clock' = clock + 1 /\ Start(w, FALSE)
      /\ due' = ((clock \div Period) + 1) * Period
  BY DEF Take
<1>3. clock' \in 1..Horizon /\ clock \in Nat /\ clock' \in Nat /\ clock' >= clock
  BY <1>1, <1>2
<1> QED BY <1>2, <1>3, NextHour

\* A read counts once more the jobs stamped after the run's start.
LEMMA SqueezedType ==
  ASSUME TypeOK, NEW w \in Workers, ReadJobs(w)
  PROVE  ReadType' /\ \A j \in Jobs : squeezed'[j] = squeezed[j]
           + IF j \in stored /\ stamp[j] > run[w].start - Period /\ stamp[j] > run[w].start
             THEN 1 ELSE 0
<1>1. straddled' \subseteq Jobs
  BY DEF ReadJobs, TypeOK
<1>2. squeezed \in [Jobs -> Nat]
  BY DEF TypeOK
<1>3. squeezed' = [j \in Jobs |-> squeezed[j] +
         IF j \in stored /\ stamp[j] > run[w].start - Period /\ stamp[j] > run[w].start
         THEN 1 ELSE 0]
  BY DEF ReadJobs
<1>4. squeezed' \in [Jobs -> Nat]
  BY <1>2, <1>3
<1> QED BY <1>1, <1>3, <1>4 DEF ReadType

\* One delivery adds at most one alert, to its own pair.
LEMMA DeliverEffect ==
  ASSUME TypeOK, NEW p \in Pairs, Deliver(p)
  PROVE  /\ SentType' /\ attempted' = attempted \cup {p}
         /\ \A q \in Pairs : alerts'[q] \in Nat /\ alerts'[q] >= alerts[q]
              /\ alerts'[q] <= alerts[q] + IF q = p THEN 1 ELSE 0
<1>1. alerts \in [Pairs -> Nat] /\ attempted \subseteq Pairs
  BY DEF TypeOK
<1>2. CASE alerts' = alerts
  BY <1>1, <1>2 DEF Deliver, SentType
<1>3. CASE alerts' = [alerts EXCEPT ![p] = alerts[p] + 1]
  BY <1>1, <1>3 DEF Deliver, SentType
<1> QED BY <1>2, <1>3 DEF Deliver

\* What the parts of the type owe to variables that stay as they are.
LEMMA WindowStays ==
  ASSUME TypeOK
  PROVE  /\ clock \in Nat /\ (clock' = clock => clock' \in Nat /\ clock' >= clock)
         /\ UNCHANGED window => ClockType'
         /\ UNCHANGED budget => BudgetIs'
         /\ clock' = clock /\ due' = due /\ stalled' \in Nat => ClockType'
BY DEF TypeOK, ClockType, window, BudgetIs

\* Every step keeps the type.
LEMMA TypeStays ==
  ASSUME TypeOK, [Next]_vars
  PROVE  TypeOK'
<1>1. CASE Pass
  <2>1. /\ UNCHANGED <<due, stalled, stamp, stored, searches, run, alerts, attempted>>
        /\ UNCHANGED <<edited, straddled, squeezed>> /\ Tick
    BY <1>1 DEF Pass, rows, jobRows, history
  <2>2. clock' \in 1..Horizon /\ clock' \in Nat /\ clock' >= clock /\ BudgetIs'
    BY <2>1, TickEffect
  <2>3. RunsType
    BY <2>1, <2>2, RunsStay
  <2>4. ClockType'
    BY <2>1, <2>2 DEF TypeOK, ClockType
  <2> QED BY <2>1, <2>2, <2>3, <2>4, TimePasses, PartsOfType DEF jobRows
<1>2. ASSUME NEW j \in Jobs, BeginStore(j) \/ CommitStore(j) \/ RollBack(j)
      PROVE  TypeOK'
  <2>1. /\ UNCHANGED window /\ UNCHANGED <<searches, run, budget, alerts, attempted>>
        /\ UNCHANGED <<edited, straddled, squeezed>>
    BY <1>2 DEF BeginStore, CommitStore, RollBack, history
  <2>2. clock' \in Nat /\ clock' >= clock /\ ClockType' /\ BudgetIs' /\ clock' = clock
    BY <2>1, WindowStays DEF window
  <2>3. stored \subseteq stored'
    BY <1>2 DEF BeginStore, CommitStore, RollBack
  <2>4. RunsType
    BY <2>1, <2>2, <2>3, RunsStay
  <2>5. StampType'
    <3>1. 0 \in 0..clock /\ clock \in 0..clock /\ clock # 0 /\ stamp \in [Jobs -> 0..clock]
          /\ \A i \in stored : i \in Jobs /\ stamp[i] # 0
      BY DEF TypeOK
    <3>2. CASE BeginStore(j)
      BY <2>2, <3>1, <3>2 DEF BeginStore, StampType
    <3>3. CASE CommitStore(j)
      BY <2>2, <3>1, <3>3 DEF CommitStore, StampType
    <3>4. CASE RollBack(j)
      BY <2>2, <3>1, <3>4 DEF RollBack, StampType
    <3> QED BY <1>2, <3>2, <3>3, <3>4
  <2> QED BY <2>1, <2>2, <2>4, <2>5, TimePasses, PartsOfType
<1>3. ASSUME NEW s \in Searches, Edit(s)
      PROVE  TypeOK'
  <2>1. /\ UNCHANGED window /\ UNCHANGED jobRows /\ Spend("edit")
        /\ UNCHANGED <<run, alerts, attempted, straddled, squeezed>>
        /\ searches' = IF s \in searches THEN searches \ {s} ELSE searches \cup {s}
        /\ edited' = [edited EXCEPT ![s] = clock]
    BY <1>3 DEF Edit
  <2>2. clock' \in Nat /\ clock' >= clock /\ ClockType' /\ clock' = clock
    BY <2>1, WindowStays DEF window
  <2>3. RunsType
    BY <2>1, <2>2, RunsStay DEF jobRows
  <2>4. RowsType'
    BY <2>1, <2>2, WindowStays DEF TypeOK, RowsType
  <2>5. BudgetIs'
    BY <2>1, BudgetType DEF BudgetIs
  <2> QED BY <2>1, <2>2, <2>3, <2>4, <2>5, TimePasses, PartsOfType
<1>4. ASSUME NEW w \in Workers, Take(w)
      PROVE  TypeOK'
  <2>1. /\ UNCHANGED <<stalled, stamp, stored, searches, alerts, attempted, budget>>
        /\ UNCHANGED <<edited, straddled, squeezed>>
    BY <1>4 DEF Take, Start, rows, jobRows, history
  <2>2. /\ clock' \in 1..Horizon /\ clock' \in Nat /\ clock' >= clock /\ due' \in Nat
        /\ clock' = clock + 1 /\ Start(w, FALSE)
    BY <1>4, TakeEffect
  <2>3. RunsType
    BY <2>2, StartEffect
  <2>4. ClockType' /\ BudgetIs'
    BY <2>1, <2>2 DEF TypeOK, ClockType, BudgetIs
  <2> QED BY <2>1, <2>2, <2>3, <2>4, TimePasses, PartsOfType DEF jobRows
<1>5. ASSUME NEW w \in Workers, TakeAgain(w)
      PROVE  TypeOK'
  <2>1. /\ UNCHANGED <<due, stamp, stored, searches, alerts, attempted>>
        /\ UNCHANGED <<edited, straddled, squeezed>> /\ Tick
        /\ stalled > 0 /\ stalled' = stalled - 1 /\ Start(w, TRUE)
    BY <1>5 DEF TakeAgain, Start, rows, jobRows, history
  <2>2. /\ clock' \in 1..Horizon /\ clock' \in Nat /\ clock' >= clock /\ BudgetIs'
        /\ clock' = clock + 1
    BY <2>1, TickEffect
  <2>3. RunsType
    BY <2>1, <2>2, StartEffect
  <2>4. ClockType'
    BY <2>1, <2>2 DEF TypeOK, ClockType
  <2> QED BY <2>1, <2>2, <2>3, <2>4, TimePasses, PartsOfType DEF jobRows
<1>6. ASSUME NEW w \in Workers, ReadJobs(w)
      PROVE  TypeOK'
  <2>1. UNCHANGED window /\ UNCHANGED <<stamp, stored, searches, budget, alerts, attempted, edited>>
    BY <1>6 DEF ReadJobs, rows, jobRows
  <2>2. clock' \in Nat /\ clock' >= clock /\ ClockType' /\ BudgetIs'
    BY <2>1, WindowStays DEF window
  <2>3. RunsType /\ ReadType'
    BY <1>6, ReadJobsEffect, SqueezedType
  <2> QED BY <2>1, <2>2, <2>3, TimePasses, PartsOfType DEF jobRows
<1>7. ASSUME NEW w \in Workers, ReadSearches(w)
      PROVE  TypeOK'
  <2>1. /\ UNCHANGED window /\ UNCHANGED <<stamp, stored, searches, budget, alerts, attempted>>
        /\ UNCHANGED <<edited, straddled, squeezed>>
    BY <1>7 DEF ReadSearches, rows, jobRows, history
  <2>2. clock' \in Nat /\ clock' >= clock /\ ClockType' /\ BudgetIs'
    BY <2>1, WindowStays DEF window
  <2>3. RunsType
    BY <1>7, ReadSearchesEffect
  <2> QED BY <2>1, <2>2, <2>3, TimePasses, PartsOfType DEF jobRows
<1>8. ASSUME NEW w \in Workers, Send(w)
      PROVE  TypeOK'
  <2>1. /\ UNCHANGED window
        /\ UNCHANGED <<stamp, stored, searches, budget, edited, straddled, squeezed>>
    BY <1>8 DEF Send, rows, jobRows
  <2>2. clock' \in Nat /\ clock' >= clock /\ ClockType' /\ BudgetIs' /\ clock' = clock
    BY <2>1, WindowStays DEF window
  <2>3. PICK p \in run[w].todo :
          /\ run[w].pc = "send" /\ Deliver(p)
          /\ run' = [run EXCEPT ![w] = IF run[w].todo = {p} THEN Idle
                                       ELSE [@ EXCEPT !.todo = run[w].todo \ {p}]]
    BY <1>8 DEF Send
  <2>4. RunsType /\ p \in Pairs
    BY <2>1, <2>2, <2>3, SendEffect
  <2>5. SentType'
    BY <2>3, <2>4, DeliverEffect
  <2> QED BY <2>1, <2>2, <2>4, <2>5, TimePasses, PartsOfType DEF jobRows
<1>9. ASSUME NEW w \in Workers, QueryFails(w) \/ Crash(w)
      PROVE  TypeOK'
  <2>1. /\ UNCHANGED <<clock, due, stamp, stored, searches, alerts, attempted>>
        /\ UNCHANGED <<edited, straddled, squeezed>>
        /\ Spend("fault") /\ run' = [run EXCEPT ![w] = Idle]
        /\ stalled' \in {stalled, stalled + 1}
    BY <1>9 DEF QueryFails, Crash, window, rows, jobRows, history
  <2>2. stalled' \in Nat
    BY <2>1 DEF TypeOK
  <2>3. clock' \in Nat /\ clock' >= clock /\ ClockType'
    BY <2>1, <2>2, WindowStays
  <2>4. RunsType
    BY <2>1, StopEffect
  <2>5. BudgetIs'
    BY <2>1, BudgetType DEF BudgetIs
  <2> QED BY <2>1, <2>3, <2>4, <2>5, TimePasses, PartsOfType DEF jobRows
<1>10. ASSUME NEW w \in Workers, FalseStall(w)
       PROVE  TypeOK'
  <2>1. /\ UNCHANGED <<clock, due, stamp, stored, searches, alerts, attempted>>
        /\ UNCHANGED <<edited, straddled, squeezed>>
        /\ Spend("fault") /\ stalled' = stalled + 1
    BY <1>10 DEF FalseStall, rows, jobRows, history
  <2>2. stalled' \in Nat
    BY <2>1 DEF TypeOK
  <2>3. clock' \in Nat /\ clock' >= clock /\ ClockType'
    BY <2>1, <2>2, WindowStays
  <2>4. RunsType
    BY <1>10, FalseStallEffect
  <2>5. BudgetIs'
    BY <2>1, BudgetType DEF BudgetIs
  <2> QED BY <2>1, <2>3, <2>4, <2>5, TimePasses, PartsOfType DEF jobRows
<1>11. CASE UNCHANGED vars
  BY <1>11 DEF vars, window, rows, jobRows, history, TypeOK
<1> QED BY <1>1, <1>2, <1>3, <1>4, <1>5, <1>6, <1>7, <1>8, <1>9, <1>10, <1>11 DEF Next

-----------------------------------------------------------------------------
\* Init satisfies the invariant.
LEMMA InitIsSafe == Init => IInv
<1> SUFFICES ASSUME Init PROVE IInv
  OBVIOUS
<1>1. /\ clock = 1 /\ due = Period /\ stalled = 0
      /\ stamp = [j \in Jobs |-> 0] /\ stored = {} /\ searches \in SUBSET Searches
      /\ run = [w \in Workers |-> Idle]
      /\ budget = [fault |-> MaxFaults, late |-> MaxLate, edit |-> MaxEdits]
      /\ alerts = [p \in Jobs \X Searches |-> 0] /\ attempted = {}
      /\ edited = [s \in Searches |-> 0] /\ straddled = {}
      /\ squeezed = [j \in Jobs |-> 0]
  BY DEF Init
<1>2. Idle \in Locals /\ Idle.pc = "idle" /\ Idle.todo = {} /\ Idle.batch = {}
  BY DEF Idle, Locals
<1>3. /\ Horizon \in Nat /\ 1 \in 1..Horizon /\ Period \in Nat /\ Period > 0
      /\ MaxFaults \in Nat /\ MaxLate \in Nat /\ MaxEdits \in Nat
  BY NotifierAssumption
<1>4. TypeOK
  BY <1>1, <1>2, <1>3 DEF TypeOK, Pairs
<1>5. Schedule
  <2>1. HourOf(0) = 0
    BY HourBounds
  <2>2. HourOf(Period) = Period
    BY <1>3, <2>1, NextHour
  <2> QED BY <1>1, <1>3, <2>2 DEF Schedule, Faults, Lateness, Spent
<1>6. IsFiniteSet(Active)
  <2>1. Active = {}
    BY <1>1, <1>2 DEF Active
  <2> QED BY <2>1, FS_EmptySet
<1>7. Unstored /\ NobodyMissed /\ \A j \in Jobs, s \in Searches : PaidFor(j, s)
  BY <1>1 DEF Unstored, NobodyMissed, LeftBehind, PaidFor
<1>8. RemovedFallsSilent
  BY <1>1, <1>2 DEF RemovedFallsSilent
<1> QED BY <1>4, <1>5, <1>6, <1>7, <1>8 DEF IInv

\* The clock keeps to the schedule.
LEMMA ScheduleStays ==
  ASSUME TypeOK, Schedule, [Next]_vars
  PROVE  Schedule'
<1>1. /\ clock \in Nat /\ due \in Nat /\ stalled \in Nat /\ Period \in Nat /\ Period > 0
      /\ Faults \in Nat /\ Lateness \in Nat
  BY Budget, NotifierAssumption DEF TypeOK
<1>2. CASE Pass
  <2>1. Tick /\ UNCHANGED <<due, stalled>>
    BY <1>2 DEF Pass
  <2> QED BY <1>1, <2>1, TickEffect DEF Schedule, HourOf
<1>3. ASSUME NEW w \in Workers, TakeAgain(w) PROVE Schedule'
  <2>1. Tick /\ UNCHANGED due /\ stalled > 0 /\ stalled' = stalled - 1
    BY <1>3 DEF TakeAgain
  <2> QED BY <1>1, <2>1, TickEffect DEF Schedule, HourOf
<1>4. ASSUME NEW w \in Workers, Take(w) PROVE Schedule'
  <2>1. /\ clock' = clock + 1 /\ due' = HourOf(clock) + Period
        /\ HourOf(clock) <= clock /\ clock < HourOf(clock) + Period /\ HourOf(clock) \in Nat
    BY <1>1, <1>4, TakeEffect, HourBounds
  <2>2. HourOf(due') = due'
    BY <1>1, <2>1, NextHour
  <2>3. Faults' = Faults /\ Lateness' = Lateness /\ stalled' = stalled
    BY <1>4, Budget DEF Take
  <2>4. due' = HourOf(due') /\ clock' > due' - Period
    BY <1>1, <2>1, <2>2
  <2>5. clock' - due' <= Lateness'
    BY <1>1, <2>1, <2>3
  <2> QED BY <2>3, <2>4, <2>5 DEF Schedule, HourOf
<1>5. ASSUME NEW w \in Workers, QueryFails(w) \/ Crash(w) \/ FalseStall(w) PROVE Schedule'
  <2>1. clock' = clock /\ due' = due /\ stalled' \in {stalled, stalled + 1} /\ Spend("fault")
    BY <1>5 DEF QueryFails, Crash, FalseStall, window
  <2> QED BY <1>1, <2>1, Budget DEF Schedule, HourOf
<1>6. ASSUME UNCHANGED window, UNCHANGED budget \/ Spend("edit") PROVE Schedule'
  BY <1>6, Budget DEF Schedule, HourOf, window
<1>7. [\/ \E j \in Jobs : BeginStore(j) \/ CommitStore(j) \/ RollBack(j)
       \/ \E s \in Searches : Edit(s)
       \/ \E w \in Workers : ReadJobs(w) \/ ReadSearches(w) \/ Send(w)]_vars
      => UNCHANGED window /\ (UNCHANGED budget \/ Spend("edit"))
  BY DEF BeginStore, CommitStore, RollBack, Edit, ReadJobs, ReadSearches, Send, vars
<1> QED BY <1>2, <1>3, <1>4, <1>5, <1>6, <1>7 DEF Next

\* At any time only finitely many runs are under way.
LEMMA ActiveStays ==
  ASSUME TypeOK, IsFiniteSet(Active), [Next]_vars
  PROVE  IsFiniteSet(Active')
<1>1. ASSUME NEW w \in Workers, Others(w) PROVE IsFiniteSet(Active')
  <2>1. Active' \subseteq Active \cup {w}
    BY <1>1 DEF Active, Others
  <2>2. IsFiniteSet(Active \cup {w})
    BY FS_AddElement
  <2> QED BY <2>1, <2>2, FS_Subset
<1>2. CASE UNCHANGED run
  <2>1. Active' = Active
    BY <1>2 DEF Active
  <2> QED BY <2>1
<1>3. run \in [Workers -> Locals]
  BY DEF TypeOK
<1>4. ASSUME NEW w \in Workers,
             \/ Take(w) \/ TakeAgain(w) \/ ReadJobs(w) \/ ReadSearches(w) \/ Send(w)
             \/ QueryFails(w) \/ Crash(w) \/ FalseStall(w)
      PROVE  Others(w)
  BY <1>3, <1>4 DEF Take, TakeAgain, Start, ReadJobs, ReadSearches, Send, QueryFails, Crash,
                    FalseStall, Others
<1> QED BY <1>1, <1>2, <1>4
        DEF Next, Pass, BeginStore, CommitStore, RollBack, Edit, rows, vars

\* Only what is stored is read, and only what was read is sent.
LEMMA UnstoredStays ==
  ASSUME TypeOK, Unstored, [Next]_vars
  PROVE  Unstored'
<1>1. /\ stored \subseteq Jobs /\ alerts \in [Pairs -> Nat] /\ squeezed \in [Jobs -> Nat]
      /\ \A j \in Jobs, s \in Searches : <<j, s>> \in Pairs
  BY DEF TypeOK, Pairs
<1>2. ASSUME NEW w \in Workers, ReadJobs(w) PROVE Unstored'
  <2>1. UNCHANGED <<stored, alerts>>
    BY <1>2 DEF ReadJobs, rows, jobRows
  <2>2. ASSUME NEW j \in Jobs, j \notin stored PROVE squeezed'[j] = squeezed[j]
    BY <1>1, <1>2, <2>2, SqueezedType
  <2> QED BY <2>1, <2>2 DEF Unstored
<1>3. ASSUME NEW w \in Workers, Send(w) PROVE Unstored'
  <2>1. UNCHANGED <<clock, stored, squeezed>>
    BY <1>3 DEF Send, rows, jobRows, window
  <2>2. PICK p \in run[w].todo :
          /\ run[w].pc = "send" /\ Deliver(p)
          /\ run' = [run EXCEPT ![w] = IF run[w].todo = {p} THEN Idle
                                       ELSE [@ EXCEPT !.todo = run[w].todo \ {p}]]
    BY <1>3 DEF Send
  <2>3. p \in Pairs /\ p[1] \in stored
    BY <2>1, <2>2, SendEffect
  <2>4. ASSUME NEW j \in Jobs, j \notin stored, NEW s \in Searches
        PROVE  alerts'[<<j, s>>] = alerts[<<j, s>>]
    <3>1. <<j, s>> # p
      BY <2>3, <2>4
    <3> QED BY <1>1, <2>2, <2>3, <3>1, DeliverEffect
  <2> QED BY <2>1, <2>4 DEF Unstored
<1>4. ASSUME UNCHANGED <<alerts, squeezed>>, stored \subseteq stored' PROVE Unstored'
  BY <1>4 DEF Unstored
<1> QED BY <1>2, <1>3, <1>4
        DEF Next, Pass, BeginStore, CommitStore, RollBack, Edit, Take, TakeAgain, Start,
            ReadSearches, QueryFails, Crash, FalseStall, rows, jobRows, history, vars

-----------------------------------------------------------------------------
\* The windows that may have had a job in them: a run that starts on time is
\* one more if the job was stamped within the hour before it.
LEMMA WindowsType ==
  ASSUME TypeOK
  PROVE  \A j \in Jobs : Windows(j) \in Nat /\ Windows(j) <= 1 + Lateness
BY Budget DEF Windows, Tardy

\* The windows a job has been in do not become fewer.
LEMMA WindowsStay ==
  ASSUME TypeOK, due' = due, Lateness' >= Lateness, Lateness' \in Nat,
         NEW j \in Jobs, stamp'[j] = stamp[j]
  PROVE  Windows(j)' \in Nat /\ Windows(j)' >= Windows(j)
<1> DEFINE none == due <= HourOf(stamp[j])
           last == due = HourOf(stamp[j]) + Period
           onTheHour == stamp[j] = HourOf(stamp[j])
<1>1. Lateness \in Nat
  BY Budget
<1>2. PICK m \in Nat, n \in Nat : Tardy' = n /\ Tardy = m /\ n >= m
  BY <1>1 DEF Tardy
<1>3. Windows(j)' = IF none THEN 0 ELSE IF last THEN IF onTheHour THEN 1 ELSE n ELSE 1 + n
  BY <1>2 DEF Windows, HourOf
<1>4. Windows(j) = IF none THEN 0 ELSE IF last THEN IF onTheHour THEN 1 ELSE m ELSE 1 + m
  BY <1>2 DEF Windows
<1> HIDE DEF none, last, onTheHour
<1> QED BY <1>2, <1>3, <1>4

\* The run that is taken while a job is in its window adds a window to the job.
LEMMA TakeOpensWindow ==
  ASSUME TypeOK, Schedule, NEW w \in Workers, Take(w), NEW j \in Jobs,
         NEW held \in {0, 1}, held = 1 => clock < stamp[j] + Period
  PROVE  Windows(j)' \in Nat /\ Windows(j)' >= Windows(j) + held
<1> DEFINE t == stamp[j]
           h == HourOf(t)
           H == HourOf(clock)
<1>1. /\ t \in Nat /\ t <= clock /\ clock \in Nat /\ due \in Nat /\ due <= clock
      /\ Period \in Nat /\ Period > 0 /\ clock - due <= Lateness /\ due = HourOf(due)
  <2>1. t \in 0..clock /\ due \in Nat
    BY DEF TypeOK
  <2>2. clock >= due /\ clock \in Nat
    BY TakeEffect
  <2> QED BY <2>1, <2>2, NotifierAssumption DEF Schedule
<1>2. h \in Nat /\ h <= t /\ t < h + Period /\ H \in Nat /\ H <= clock /\ clock < H + Period
  BY <1>1, HourBounds
<1>3. h <= H /\ due <= H
  BY <1>1, HoursOrder
<1>4. h < H => h + Period <= H
  BY <1>1, HoursApart
<1>5. h < due => h + Period <= due
  BY <1>1, HoursApart
<1>6. h + Period < due => h + Period + Period <= due
  BY <1>1, HoursApart, NextHour
<1>7. due' = H + Period /\ stamp' = stamp /\ Lateness' = Lateness /\ Lateness \in Nat
  BY TakeEffect, Budget DEF Take, Start, rows, jobRows
<1>8. HourOf(stamp[j])' = h /\ Tardy' = Tardy /\ Tardy \in {0, 1}
      /\ (Lateness > 0 => Tardy = 1)
  BY <1>7 DEF HourOf, Tardy
<1>9. Windows(j) = IF due <= h THEN 0
                   ELSE IF due = h + Period THEN IF t = h THEN 1 ELSE Tardy ELSE 1 + Tardy
  BY DEF Windows
<1>10. Windows(j)' = IF H + Period <= h THEN 0
                     ELSE IF H = h THEN IF t = h THEN 1 ELSE Tardy ELSE 1 + Tardy
  BY <1>1, <1>2, <1>7, <1>8 DEF Windows
<1>11. held = 1 => clock < t + Period
  OBVIOUS
<1> HIDE DEF t, h, H
<1>12. CASE due <= h
  BY <1>1, <1>2, <1>3, <1>4, <1>7, <1>8, <1>9, <1>10, <1>12
<1>13. CASE due = h + Period
  BY <1>1, <1>2, <1>3, <1>4, <1>8, <1>9, <1>10, <1>11, <1>13
<1>14. CASE h + Period < due
  BY <1>1, <1>2, <1>3, <1>4, <1>6, <1>8, <1>9, <1>10, <1>11, <1>14
<1> QED BY <1>1, <1>2, <1>5, <1>12, <1>13, <1>14

-----------------------------------------------------------------------------
\* One worker comes to hold a pair, or ceases to.
LEMMA HoldersChange ==
  ASSUME IsFiniteSet(Active), NEW w \in Workers, NEW j \in Jobs, NEW s \in Searches,
         NEW before \in {0, 1}, NEW after \in {0, 1},
         before = 1 <=> Holds(w, j, s), after = 1 <=> Holds(w, j, s)',
         \A v \in Workers : v # w => (Holds(v, j, s)' <=> Holds(v, j, s))
  PROVE  /\ Cardinality(Holders(j, s)) \in Nat /\ Cardinality(Holders(j, s)') \in Nat
         /\ Cardinality(Holders(j, s)') + before = Cardinality(Holders(j, s)) + after
<1> DEFINE B == {v \in Workers \ {w} : Holds(v, j, s)}
           N == Cardinality(B)
<1>1. B \subseteq Active
  BY DEF Active, Holds, WillRead
<1>2. IsFiniteSet(B)
  BY <1>1, FS_Subset
<1>3. IsFiniteSet(B \cup {w}) /\ Cardinality(B \cup {w}) = N + 1 /\ N \in Nat
  BY <1>2, FS_AddElement, FS_CardinalityType
<1>4. Holders(j, s) = IF before = 1 THEN B \cup {w} ELSE B
  BY DEF Holders
<1>5. Holders(j, s)' = IF after = 1 THEN B \cup {w} ELSE B
  BY DEF Holders
<1>6. Cardinality(Holders(j, s)) = N + before
  BY <1>3, <1>4
<1>7. Cardinality(Holders(j, s)') = N + after
  BY <1>3, <1>5
<1> QED BY <1>3, <1>6, <1>7

\* The workers that may still send an alert can be counted.
LEMMA HoldersFinite ==
  ASSUME IsFiniteSet(Active), NEW j \in Jobs, NEW s \in Searches
  PROVE  Cardinality(Holders(j, s)) \in Nat
<1>1. Holders(j, s) \subseteq Active
  BY DEF Holders, Active, Holds, WillRead
<1> QED BY <1>1, FS_Subset, FS_CardinalityType

\* What a worker that is left alone holds.
LEMMA OthersHold ==
  ASSUME NEW w \in Workers, Others(w), NEW j \in Jobs, stamp'[j] = stamp[j]
  PROVE  \A v \in Workers : v # w =>
           /\ WillRead(v, j)' <=> WillRead(v, j)
           /\ \A s \in Searches : Holds(v, j, s)' <=> Holds(v, j, s)
BY DEF Others, Holds, WillRead

\* The sum of what is due, from one state to the next.
LEMMA SumCarries ==
  ASSUME NEW a \in Nat, NEW h \in Nat, NEW p \in Nat, NEW limit \in Nat,
         NEW a1 \in Nat, NEW h1 \in Nat, NEW p1 \in Nat, NEW limit1 \in Nat,
         NEW before \in Nat, NEW after \in Nat,
         a + h + p <= limit, h1 + before = h + after,
         a1 + after + p1 + limit <= a + before + p + limit1
  PROVE  a1 + h1 + p1 <= limit1
OBVIOUS

\* A step of one worker keeps the account of a pair when what it adds to the
\* alerts, the holders and the stalls it adds to the windows, squeezes and faults.
LEMMA PaidForCarries ==
  ASSUME TypeOK, TypeOK', IsFiniteSet(Active), NEW w \in Workers, Others(w),
         NEW j \in Jobs, NEW s \in Searches, PaidFor(j, s), stamp'[j] = stamp[j],
         NEW before \in {0, 1}, NEW after \in {0, 1},
         before = 1 <=> Holds(w, j, s), after = 1 <=> Holds(w, j, s)',
         Windows(j)' \in Nat,
         alerts'[<<j, s>>] + after + stalled' + (Windows(j) + squeezed[j] + Faults)
           <= alerts[<<j, s>>] + before + stalled + (Windows(j)' + squeezed'[j] + Faults')
  PROVE  PaidFor(j, s)'
<1>1. /\ alerts[<<j, s>>] \in Nat /\ alerts'[<<j, s>>] \in Nat
      /\ stalled \in Nat /\ stalled' \in Nat /\ squeezed[j] \in Nat /\ squeezed'[j] \in Nat
  BY DEF TypeOK, Pairs
<1>2. Faults \in Nat /\ Faults' \in Nat /\ Windows(j) \in Nat
  <2>1. MaxFaults \in Nat
    BY NotifierAssumption
  <2>2. Faults' \in Nat
    BY <2>1 DEF TypeOK, Faults, Spent
  <2> QED BY <2>2, Budget, WindowsType
<1>3. /\ Cardinality(Holders(j, s)) \in Nat /\ Cardinality(Holders(j, s)') \in Nat
      /\ Cardinality(Holders(j, s)') + before = Cardinality(Holders(j, s)) + after
  BY OthersHold, HoldersChange
<1>4. /\ Windows(j) + squeezed[j] + Faults \in Nat
      /\ Windows(j)' + squeezed'[j] + Faults' \in Nat /\ before \in Nat /\ after \in Nat
  BY <1>1, <1>2
<1>5. (Cardinality(Holders(j, s)))' = Cardinality(Holders(j, s)')
  OBVIOUS
<1> SUFFICES ASSUME stamp[j] # 0
             PROVE  alerts'[<<j, s>>] + Cardinality(Holders(j, s)') + stalled'
                      <= Windows(j)' + squeezed'[j] + Faults'
  BY <1>5 DEF PaidFor
<1>6. alerts[<<j, s>>] + Cardinality(Holders(j, s)) + stalled
        <= Windows(j) + squeezed[j] + Faults
  BY DEF PaidFor
<1> QED BY <1>1, <1>3, <1>4, <1>6, SumCarries

-----------------------------------------------------------------------------
\* Steps that no run takes: time passes, a search is edited, another job is
\* stored.
LEMMA PaidForIdly ==
  ASSUME TypeOK, TypeOK', run' = run, due' = due, stalled' = stalled,
         alerts' = alerts, squeezed' = squeezed, Faults' = Faults, Lateness' >= Lateness,
         NEW j \in Jobs, NEW s \in Searches, PaidFor(j, s), stamp'[j] = stamp[j],
         IsFiniteSet(Active)
  PROVE  PaidFor(j, s)'
<1>1. Lateness' \in Nat
  BY NotifierAssumption DEF TypeOK, Lateness, Spent
<1>2. Windows(j)' \in Nat /\ Windows(j)' >= Windows(j) /\ Windows(j) \in Nat
  BY <1>1, WindowsStay, WindowsType
<1>3. Holders(j, s)' = Holders(j, s)
  BY DEF Holders, Holds, WillRead
<1>4. Cardinality(Holders(j, s)) \in Nat
  BY HoldersFinite
<1>5. alerts[<<j, s>>] \in Nat /\ stalled \in Nat /\ squeezed[j] \in Nat /\ Faults \in Nat
  BY Budget DEF TypeOK, Pairs
<1>6. ASSUME stamp[j] # 0
      PROVE  alerts[<<j, s>>] + Cardinality(Holders(j, s)) + stalled
               <= Windows(j)' + squeezed[j] + Faults
  BY <1>2, <1>4, <1>5, <1>6 DEF PaidFor
<1>7. (Cardinality(Holders(j, s)))' = Cardinality(Holders(j, s))
  BY <1>3
<1> QED BY <1>6, <1>7 DEF PaidFor

\* The scraper stores the job: nobody knows of it yet.
LEMMA StoringIsPaidFor ==
  ASSUME TypeOK, TypeOK', Schedule, Unstored, IsFiniteSet(Active),
         NEW i \in Jobs, BeginStore(i) \/ CommitStore(i) \/ RollBack(i),
         NEW j \in Jobs, NEW s \in Searches, PaidFor(j, s)
  PROVE  PaidFor(j, s)'
<1>1. /\ run' = run /\ due' = due /\ stalled' = stalled /\ alerts' = alerts
      /\ squeezed' = squeezed /\ Faults' = Faults /\ Lateness' = Lateness
      /\ Lateness \in Nat /\ Faults \in Nat
  BY Budget DEF BeginStore, CommitStore, RollBack, window, history
<1>2. CASE stamp'[j] = stamp[j]
  <2>1. Lateness' >= Lateness
    BY <1>1
  <2> QED BY <1>1, <1>2, <2>1, PaidForIdly
<1>3. CASE RollBack(i) /\ i = j
  <2>1. stamp'[j] = 0
    BY <1>3 DEF RollBack, TypeOK
  <2> QED BY <2>1 DEF PaidFor
<1>4. CASE BeginStore(i) /\ i = j
  <2>1. stamp[j] = 0 /\ stamp'[j] = clock /\ j \notin stored
    BY <1>4 DEF BeginStore, TypeOK
  <2>2. alerts[<<j, s>>] = 0 /\ squeezed[j] = 0 /\ stalled <= Faults /\ stalled \in Nat
    BY <2>1 DEF Unstored, Schedule, TypeOK
  <2>3. ASSUME NEW w \in Workers PROVE ~Holds(w, j, s)'
    <3>1. RunOK(run[w], clock, stored)
      BY RunsAreOK
    <3>2. run[w].pc = "jobs" => ~(clock <= run[w].start)
      <4>1. clock \in Nat /\ run[w].start \in Nat
        BY DEF TypeOK, Locals
      <4> QED BY <3>1, <4>1 DEF RunOK
    <3>3. j \notin run[w].batch /\ <<j, s>> \notin run[w].todo
      BY <2>1, <3>1 DEF RunOK
    <3> QED BY <1>1, <2>1, <3>2, <3>3 DEF Holds, WillRead
  <2>4. Holders(j, s)' = {}
    BY <2>3 DEF Holders
  <2>5. (Cardinality(Holders(j, s)))' = 0
    BY <2>4, FS_EmptySet
  <2>6. Windows(j)' \in Nat
    BY DEF Windows, Tardy
  <2>7. 0 + 0 + stalled <= Windows(j)' + 0 + Faults
    BY <1>1, <2>2, <2>6
  <2> QED BY <1>1, <2>2, <2>5, <2>7 DEF PaidFor
<1>5. stamp'[j] = stamp[j] \/ (RollBack(i) /\ i = j) \/ (BeginStore(i) /\ i = j)
  BY DEF BeginStore, CommitStore, RollBack, TypeOK
<1> QED BY <1>2, <1>3, <1>4, <1>5

\* process() starts, on time or again.
LEMMA StartIsPaidFor ==
  ASSUME TypeOK, TypeOK', Schedule, IsFiniteSet(Active),
         NEW w \in Workers, Take(w) \/ TakeAgain(w),
         NEW j \in Jobs, NEW s \in Searches, PaidFor(j, s)
  PROVE  PaidFor(j, s)'
<1>1. /\ alerts' = alerts /\ squeezed' = squeezed /\ stamp' = stamp
      /\ \E retried \in BOOLEAN : Start(w, retried)
  BY DEF Take, TakeAgain, Start, rows, jobRows, history
<1>2. clock' = clock + 1
  BY TakeEffect, TickEffect DEF TakeAgain
<1>3. Others(w) /\ run[w].pc = "idle" /\ run'[w].pc = "jobs" /\ run'[w].start = clock
  BY <1>1, <1>2, StartEffect
<1>4. PICK after \in {0, 1} : after = 1 <=> Holds(w, j, s)'
  OBVIOUS
<1>5. ~Holds(w, j, s)
  BY <1>3 DEF Holds, WillRead
<1>6. after = 1 => clock < stamp[j] + Period
  BY <1>1, <1>3, <1>4 DEF Holds, WillRead
<1>7. /\ alerts[<<j, s>>] \in Nat /\ stalled \in Nat /\ squeezed[j] \in Nat
      /\ Faults \in Nat /\ Windows(j) \in Nat
  BY Budget, WindowsType DEF TypeOK, Pairs
<1>8. Windows(j)' \in Nat
      /\ alerts'[<<j, s>>] + after + stalled' + (Windows(j) + squeezed[j] + Faults)
           <= alerts[<<j, s>>] + 0 + stalled + (Windows(j)' + squeezed'[j] + Faults')
  <2>1. CASE Take(w)
    <3>1. Windows(j)' \in Nat /\ Windows(j)' >= Windows(j) + after
      BY <1>6, <2>1, TakeOpensWindow
    <3>2. stalled' = stalled /\ Faults' = Faults
      BY <2>1, Budget DEF Take
    <3> QED BY <1>1, <1>7, <3>1, <3>2
  <2>2. CASE TakeAgain(w)
    <3>1. Tick /\ due' = due /\ stalled > 0 /\ stalled' = stalled - 1
      BY <2>2 DEF TakeAgain
    <3>2. Windows(j)' \in Nat /\ Windows(j)' >= Windows(j) /\ Faults' = Faults
      BY <1>1, <3>1, TickEffect, WindowsStay
    <3> QED BY <1>1, <1>7, <3>1, <3>2
  <2> QED BY <2>1, <2>2
<1> QED BY <1>1, <1>3, <1>4, <1>5, <1>8, PaidForCarries

\* The query of the jobs: what it finds was in the window, or is counted as
\* squeezed.
LEMMA ReadingIsPaidFor ==
  ASSUME TypeOK, TypeOK', IsFiniteSet(Active), NEW w \in Workers, ReadJobs(w) \/ ReadSearches(w),
         NEW j \in Jobs, NEW s \in Searches, PaidFor(j, s)
  PROVE  PaidFor(j, s)'
<1>1. /\ UNCHANGED <<due, stalled, stamp, alerts>> /\ UNCHANGED budget
      /\ (ReadSearches(w) => squeezed' = squeezed)
  BY DEF ReadJobs, ReadSearches, window, rows, jobRows, history
<1>2. Faults' = Faults /\ Lateness' = Lateness /\ Faults \in Nat /\ Lateness \in Nat
  BY <1>1, Budget
<1>3. Lateness' >= Lateness /\ Lateness' \in Nat
  BY <1>2
<1>4. Windows(j)' \in Nat /\ Windows(j)' >= Windows(j)
  BY <1>1, <1>3, WindowsStay
<1>5. /\ alerts[<<j, s>>] \in Nat /\ stalled \in Nat /\ squeezed[j] \in Nat
      /\ squeezed'[j] \in Nat /\ Windows(j) \in Nat
  BY WindowsType DEF TypeOK, Pairs
<1>6. PICK before \in {0, 1} : before = 1 <=> Holds(w, j, s)
  OBVIOUS
<1>7. PICK after \in {0, 1} : after = 1 <=> Holds(w, j, s)'
  OBVIOUS
<1>8. Others(w) /\ after + squeezed[j] <= before + squeezed'[j]
  <2>1. CASE ReadJobs(w)
    <3>1. /\ Others(w) /\ run[w].pc = "jobs" /\ run'[w].pc \in {"idle", "searches"}
          /\ run'[w].pc = "searches" /\ j \in run'[w].batch
               <=> j \in stored /\ stamp[j] > run[w].start - Period
      BY <2>1, ReadJobsEffect
    <3>2. after = 1 <=> j \in stored /\ stamp[j] > run[w].start - Period
      BY <1>7, <3>1 DEF Holds, WillRead
    <3>3. before = 1 <=> stamp[j] <= run[w].start /\ run[w].start < stamp[j] + Period
      BY <1>6, <3>1 DEF Holds, WillRead
    <3>4. PICK more \in {0, 1} :
            /\ squeezed'[j] = squeezed[j] + more
            /\ j \in stored /\ stamp[j] > run[w].start - Period /\ stamp[j] > run[w].start
                 => more = 1
      BY <2>1, SqueezedType
    <3>5. stamp[j] \in Nat /\ run[w].start \in Nat /\ Period \in Nat
      BY NotifierAssumption DEF TypeOK, Locals
    <3>6. after <= before + more
      BY <3>2, <3>3, <3>4, <3>5
    <3> QED BY <1>5, <3>1, <3>4, <3>6
  <2>2. CASE ReadSearches(w)
    <3>1. /\ Others(w) /\ run[w].pc = "searches" /\ run'[w].pc \in {"idle", "send"}
          /\ (<<j, s>> \in run'[w].todo => j \in run[w].batch)
      BY <2>2, ReadSearchesEffect
    <3>2. Holds(w, j, s)' => Holds(w, j, s)
      BY <3>1 DEF Holds, WillRead
    <3> QED BY <1>1, <1>5, <1>6, <1>7, <2>2, <3>1, <3>2
  <2> QED BY <2>1, <2>2
<1>9. alerts'[<<j, s>>] + after + stalled' + (Windows(j) + squeezed[j] + Faults)
        <= alerts[<<j, s>>] + before + stalled + (Windows(j)' + squeezed'[j] + Faults')
  BY <1>1, <1>2, <1>4, <1>5, <1>8
<1> QED BY <1>1, <1>4, <1>6, <1>7, <1>8, <1>9, PaidForCarries

\* A message: the run that sent it holds the pair no longer.
LEMMA SendingIsPaidFor ==
  ASSUME TypeOK, TypeOK', IsFiniteSet(Active), NEW w \in Workers, Send(w),
         NEW j \in Jobs, NEW s \in Searches, PaidFor(j, s)
  PROVE  PaidFor(j, s)'
<1>1. UNCHANGED <<clock, due, stalled, stamp, stored, squeezed, budget>>
  BY DEF Send, window, rows, jobRows
<1>2. PICK p \in run[w].todo :
        /\ run[w].pc = "send" /\ Deliver(p)
        /\ run' = [run EXCEPT ![w] = IF run[w].todo = {p} THEN Idle
                                     ELSE [@ EXCEPT !.todo = run[w].todo \ {p}]]
  BY DEF Send
<1>3. /\ Others(w) /\ p \in Pairs /\ run'[w].pc \in {"idle", "send"}
      /\ run'[w].todo = run[w].todo \ {p} /\ (run'[w].todo # {} => run'[w].pc = "send")
  BY <1>1, <1>2, SendEffect
<1>4. Faults' = Faults /\ Lateness' = Lateness /\ Faults \in Nat /\ Lateness \in Nat
  BY <1>1, Budget
<1>5. Lateness' >= Lateness /\ Lateness' \in Nat
  BY <1>4
<1>6. Windows(j)' \in Nat /\ Windows(j)' >= Windows(j)
  BY <1>1, <1>5, WindowsStay
<1>7. /\ alerts[<<j, s>>] \in Nat /\ stalled \in Nat /\ squeezed[j] \in Nat
      /\ Windows(j) \in Nat /\ <<j, s>> \in Pairs
  BY WindowsType DEF TypeOK, Pairs
<1>8. PICK before \in {0, 1} : before = 1 <=> Holds(w, j, s)
  OBVIOUS
<1>9. PICK after \in {0, 1} : after = 1 <=> Holds(w, j, s)'
  OBVIOUS
<1>10. before = 1 <=> <<j, s>> \in run[w].todo
  BY <1>2, <1>8 DEF Holds, WillRead
<1>11. after = 1 <=> <<j, s>> \in run[w].todo /\ <<j, s>> # p
  BY <1>3, <1>9 DEF Holds, WillRead
<1>12. alerts'[<<j, s>>] \in Nat
       /\ alerts'[<<j, s>>] <= alerts[<<j, s>>] + IF <<j, s>> = p THEN 1 ELSE 0
  BY <1>2, <1>3, <1>7, DeliverEffect
<1>13. alerts'[<<j, s>>] + after <= alerts[<<j, s>>] + before
  <2>1. CASE <<j, s>> = p
    <3>1. before = 1 /\ after = 0
      BY <1>2, <1>10, <1>11, <2>1
    <3> QED BY <1>7, <1>12, <2>1, <3>1
  <2>2. CASE <<j, s>> # p
    <3>1. before = after
      BY <1>10, <1>11, <2>2
    <3> QED BY <1>7, <1>12, <2>2, <3>1
  <2> QED BY <2>1, <2>2
<1>14. alerts'[<<j, s>>] + after + stalled' + (Windows(j) + squeezed[j] + Faults)
         <= alerts[<<j, s>>] + before + stalled + (Windows(j)' + squeezed'[j] + Faults')
  BY <1>1, <1>4, <1>6, <1>7, <1>12, <1>13
<1> QED BY <1>1, <1>3, <1>6, <1>8, <1>9, <1>14, PaidForCarries

\* A fault pays for the job that is put back.
LEMMA FaultIsPaidFor ==
  ASSUME TypeOK, TypeOK', IsFiniteSet(Active), NEW w \in Workers,
         QueryFails(w) \/ Crash(w) \/ FalseStall(w),
         NEW j \in Jobs, NEW s \in Searches, PaidFor(j, s)
  PROVE  PaidFor(j, s)'
<1>1. UNCHANGED <<clock, due, stamp, stored, alerts, squeezed>> /\ Spend("fault")
      /\ stalled' \in {stalled, stalled + 1}
  BY DEF QueryFails, Crash, FalseStall, window, rows, jobRows, history
<1>2. Faults' = Faults + 1 /\ Lateness' = Lateness /\ Faults \in Nat /\ Lateness \in Nat
  BY <1>1, Budget
<1>3. Lateness' >= Lateness /\ Lateness' \in Nat
  BY <1>2
<1>4. Windows(j)' \in Nat /\ Windows(j)' >= Windows(j)
  BY <1>1, <1>3, WindowsStay
<1>5. /\ alerts[<<j, s>>] \in Nat /\ stalled \in Nat /\ squeezed[j] \in Nat
      /\ Windows(j) \in Nat
  BY WindowsType DEF TypeOK, Pairs
<1>6. PICK before \in {0, 1} : before = 1 <=> Holds(w, j, s)
  OBVIOUS
<1>7. PICK after \in {0, 1} : after = 1 <=> Holds(w, j, s)'
  OBVIOUS
<1>8. Others(w) /\ (Holds(w, j, s)' => Holds(w, j, s))
  <2>1. CASE FalseStall(w)
    BY <1>1, <2>1, FalseStallEffect DEF Holds, WillRead
  <2>2. CASE QueryFails(w) \/ Crash(w)
    <3>1. run' = [run EXCEPT ![w] = Idle]
      BY <2>2 DEF QueryFails, Crash
    <3>2. Others(w) /\ run'[w].pc = "idle"
      BY <1>1, <3>1, StopEffect
    <3> QED BY <3>2 DEF Holds, WillRead
  <2> QED BY <2>1, <2>2
<1>9. after <= before
  BY <1>6, <1>7, <1>8
<1>10. alerts'[<<j, s>>] + after + stalled' + (Windows(j) + squeezed[j] + Faults)
         <= alerts[<<j, s>>] + before + stalled + (Windows(j)' + squeezed'[j] + Faults')
  BY <1>1, <1>2, <1>4, <1>5, <1>9
<1> QED BY <1>1, <1>4, <1>6, <1>7, <1>8, <1>10, PaidForCarries

\* Every message stays paid for.
LEMMA PaidForStays ==
  ASSUME TypeOK, TypeOK', Schedule, Unstored, IsFiniteSet(Active), [Next]_vars,
         NEW j \in Jobs, NEW s \in Searches, PaidFor(j, s)
  PROVE  PaidFor(j, s)'
<1>1. ASSUME run' = run, due' = due, stalled' = stalled, stamp' = stamp, alerts' = alerts,
             squeezed' = squeezed, Tick \/ Spend("edit") \/ UNCHANGED budget
      PROVE  PaidFor(j, s)'
  <2>1. Faults' = Faults /\ Lateness' >= Lateness
    <3>1. CASE Tick
      BY <3>1, TickEffect
    <3>2. CASE Spend("edit") \/ UNCHANGED budget
      <4>1. Faults' = Faults /\ Lateness' = Lateness /\ Lateness \in Nat
        BY <3>2, Budget
      <4> QED BY <4>1
    <3> QED BY <1>1, <3>1, <3>2
  <2> QED BY <1>1, <2>1, PaidForIdly
<1>2. Pass \/ (\E i \in Searches : Edit(i)) \/ UNCHANGED vars
      => /\ run' = run /\ due' = due /\ stalled' = stalled /\ stamp' = stamp
         /\ alerts' = alerts /\ squeezed' = squeezed
         /\ Tick \/ Spend("edit") \/ UNCHANGED budget
  BY DEF Pass, Edit, vars, window, rows, jobRows, history
<1> QED BY <1>1, <1>2, StoringIsPaidFor, StartIsPaidFor, ReadingIsPaidFor, SendingIsPaidFor,
           FaultIsPaidFor DEF Next

-----------------------------------------------------------------------------
\* A covered job stays so in a step that leaves its run to come, what was sent
\* for it and what is held for it as they are.
LEMMA CoverStays ==
  ASSUME NEW j \in Jobs, Covered(j), stamp'[j] = stamp[j], stored \subseteq stored',
         \A w \in Workers : WillRead(w, j) => WillRead(w, j)',
         attempted \subseteq attempted', searches' = searches, edited' = edited,
         searches \subseteq Searches,
         \A w \in Workers, s \in Searches : Holds(w, j, s) =>
           Holds(w, j, s)' \/ <<j, s>> \in attempted'
  PROVE  Covered(j)'
<1>1. CASE \E w \in Workers : WillRead(w, j)
  BY <1>1 DEF Covered
<1>2. CASE ~\E w \in Workers : WillRead(w, j)
  <2>1. /\ j \in stored
        /\ \A s \in searches : edited[s] < stamp[j] /\ Matches(j, s) =>
             <<j, s>> \in attempted \/ \E w \in Workers : Holds(w, j, s)
    BY <1>2 DEF Covered
  <2>2. ASSUME NEW s \in searches', edited'[s] < stamp'[j], Matches(j, s)
        PROVE  <<j, s>> \in attempted' \/ \E w \in Workers : Holds(w, j, s)'
    BY <2>1, <2>2
  <2>3. \A s : Matches(j, s)' <=> Matches(j, s)
    BY DEF Matches
  <2> QED BY <2>1, <2>2, <2>3 DEF Covered
<1> QED BY <1>1, <1>2

\* What the steps before the runs leave alone, of a job whose row is not
\* touched.
LEMMA CoverStaysIdly ==
  ASSUME TypeOK, NEW j \in Jobs, Covered(j), stamp'[j] = stamp[j], stored \subseteq stored',
         run' = run, attempted' = attempted, searches' = searches, edited' = edited
  PROVE  Covered(j)'
<1>1. /\ \A w \in Workers : WillRead(w, j) => WillRead(w, j)'
      /\ \A w \in Workers, s \in Searches : Holds(w, j, s) => Holds(w, j, s)'
      /\ searches \subseteq Searches
  BY DEF WillRead, Holds, TypeOK
<1> QED BY <1>1, CoverStays

\* While all goes well no job is put back, and the clock does not run ahead.
LEMMA PunctualSoFar ==
  ASSUME TypeOK, Schedule, [Next]_vars, Punctual'
  PROVE  /\ Punctual /\ stalled = 0 /\ clock <= due
         /\ ~Spend("fault") /\ ~Spend("late")
<1>1. /\ clock \in Nat /\ due \in Nat /\ stalled \in Nat /\ Faults \in Nat /\ Lateness \in Nat
  BY Budget DEF TypeOK
<1>2. Spend("fault") \/ Spend("late") \/ Spend("edit") \/ UNCHANGED budget
  BY DEF Next, Pass, Tick, BeginStore, CommitStore, RollBack, Edit, Take, TakeAgain, ReadJobs,
         ReadSearches, Send, QueryFails, Crash, FalseStall, vars
<1>3. Faults' = 0 /\ Lateness' = 0
  BY DEF Punctual
<1>4. ~Spend("fault") /\ ~Spend("late")
  BY <1>1, <1>3, Budget
<1>5. Faults = 0 /\ Lateness = 0
  BY <1>2, <1>3, <1>4, Budget
<1>6. stalled = 0 /\ clock <= due
  BY <1>1, <1>5 DEF Schedule
<1> QED BY <1>4, <1>5, <1>6 DEF Punctual

\* While the workers are punctual, a job out of every window has been alerted.
LEMMA NobodyIsMissed ==
  ASSUME TypeOK, TypeOK', Schedule, NobodyMissed, [Next]_vars
  PROVE  NobodyMissed'
<1> SUFFICES ASSUME Punctual', NEW j \in Jobs, j \notin straddled', LeftBehind(j)'
             PROVE  Covered(j)'
  BY DEF NobodyMissed
<1>1. Punctual /\ stalled = 0 /\ clock <= due /\ ~Spend("fault") /\ ~Spend("late")
  BY PunctualSoFar
<1>2. ASSUME j \notin straddled, LeftBehind(j) PROVE Covered(j)
  BY <1>1, <1>2 DEF NobodyMissed
<1>3. /\ clock \in Nat /\ due \in Nat /\ Period \in Nat /\ stamp[j] \in Nat
      /\ searches \subseteq Searches /\ run \in [Workers -> Locals] /\ stored \subseteq Jobs
  BY NotifierAssumption DEF TypeOK
<1>4. CASE Pass \/ UNCHANGED vars
  <2>1. /\ UNCHANGED <<due, stamp, stored, straddled, attempted, run, searches, edited>>
    BY <1>4 DEF Pass, vars, window, rows, jobRows, history
  <2>2. LeftBehind(j)
    BY <2>1 DEF LeftBehind
  <2> QED BY <1>2, <2>1, <2>2, CoverStaysIdly
<1>5. ASSUME NEW i \in Jobs, BeginStore(i) \/ CommitStore(i) \/ RollBack(i)
      PROVE  Covered(j)'
  <2>1. UNCHANGED <<clock, due, straddled, attempted, run, searches, edited>>
        /\ stored \subseteq stored'
    BY <1>5 DEF BeginStore, CommitStore, RollBack, window, history
  <2>2. stamp'[j] = stamp[j]
    <3>1. CASE BeginStore(i) /\ i = j
      <4>1. stamp'[j] = clock
        BY <3>1 DEF BeginStore, TypeOK
      <4>2. clock > due - Period
        BY DEF Schedule
      <4> QED BY <1>3, <2>1, <4>1, <4>2 DEF LeftBehind
    <3>2. CASE RollBack(i) /\ i = j
      <4>1. stamp'[j] = 0
        BY <3>2 DEF RollBack, TypeOK
      <4> QED BY <4>1 DEF LeftBehind
    <3> QED BY <1>5, <3>1, <3>2 DEF BeginStore, CommitStore, RollBack, TypeOK
  <2>3. LeftBehind(j)
    BY <2>1, <2>2 DEF LeftBehind
  <2> QED BY <1>2, <2>1, <2>2, <2>3, CoverStaysIdly
<1>6. ASSUME NEW i \in Searches, Edit(i)
      PROVE  Covered(j)'
  <2>1. /\ UNCHANGED <<clock, due, straddled, attempted, run, stamp, stored>>
        /\ searches' = IF i \in searches THEN searches \ {i} ELSE searches \cup {i}
        /\ edited' = [edited EXCEPT ![i] = clock] /\ edited \in [Searches -> 0..clock]
    BY <1>6 DEF Edit, window, jobRows, TypeOK
  <2>2. Covered(j)
    BY <1>2, <2>1 DEF LeftBehind
  <2>3. /\ \A w \in Workers : WillRead(w, j)' <=> WillRead(w, j)
        /\ \A w \in Workers, s \in Searches : Holds(w, j, s)' <=> Holds(w, j, s)
        /\ \A s : Matches(j, s)' <=> Matches(j, s)
    BY <2>1 DEF WillRead, Holds, Matches
  <2>4. stamp[j] <= clock
    BY DEF TypeOK
  <2>5. ASSUME NEW s \in searches', edited'[s] < stamp'[j]
        PROVE  s \in searches /\ edited[s] < stamp[j]
    <3>1. s # i
      BY <1>3, <2>1, <2>4, <2>5
    <3> QED BY <1>3, <2>1, <2>5, <3>1
  <2> QED BY <1>3, <2>1, <2>2, <2>3, <2>5 DEF Covered
<1>7. ASSUME NEW w \in Workers, Take(w)
      PROVE  Covered(j)'
  <2>1. /\ UNCHANGED <<stamp, stored, straddled, attempted, searches, edited>>
        /\ Start(w, FALSE) /\ clock' = clock + 1 /\ clock >= due
        /\ due' = HourOf(clock) + Period
    BY <1>7, TakeEffect DEF Take, Start, rows, jobRows, history
  <2>2. clock = due /\ due' = due + Period
    BY <1>1, <1>3, <2>1 DEF Schedule
  <2>3. /\ Others(w) /\ run[w].pc = "idle" /\ run'[w].pc = "jobs" /\ run'[w].start = clock
    BY <2>1, StartEffect
  <2>4. CASE stamp[j] > due - Period
    <3>1. stamp'[j] <= clock /\ clock < stamp'[j] + Period
      BY <1>3, <2>1, <2>2, <2>4 DEF TypeOK
    <3>2. WillRead(w, j)'
      BY <2>3, <3>1 DEF WillRead
    <3> QED BY <3>2 DEF Covered
  <2>5. CASE ~(stamp[j] > due - Period)
    <3>1. Covered(j)
      BY <1>2, <1>3, <2>1, <2>5 DEF LeftBehind
    <3>2. ~WillRead(w, j) /\ \A s \in Searches : ~Holds(w, j, s)
      BY <2>3 DEF WillRead, Holds
    <3>3. /\ \A v \in Workers : WillRead(v, j) => WillRead(v, j)'
          /\ \A v \in Workers, s \in Searches : Holds(v, j, s) => Holds(v, j, s)'
      BY <2>1, <2>3, <3>2, OthersHold
    <3> QED BY <1>3, <2>1, <3>1, <3>3, CoverStays
  <2> QED BY <2>4, <2>5
<1>8. ASSUME NEW w \in Workers, ReadJobs(w)
      PROVE  Covered(j)'
  <2>1. /\ UNCHANGED <<clock, due, stamp, stored, attempted, searches, edited>>
        /\ straddled' = straddled \cup {i \in Jobs \ stored : stamp[i] \in 1..run[w].start}
    BY <1>8 DEF ReadJobs, window, rows, jobRows
  <2>2. /\ Others(w) /\ run[w].pc = "jobs"
        /\ run'[w].pc = "searches" /\ j \in run'[w].batch
             <=> j \in stored /\ stamp[j] > run[w].start - Period
    BY <1>8, ReadJobsEffect
  <2>3. Covered(j)
    BY <1>2, <2>1 DEF LeftBehind
  <2>4. run[w].start \in Nat /\ stamp[j] # 0
    BY <1>3, <2>1 DEF Locals, LeftBehind
  <2>5. CASE WillRead(w, j)
    <3>1. stamp[j] <= run[w].start /\ run[w].start < stamp[j] + Period
      BY <2>5 DEF WillRead
    <3>2. stamp[j] \in 1..run[w].start /\ stamp[j] > run[w].start - Period
      BY <1>3, <2>4, <3>1
    <3>3. j \in stored
      BY <2>1, <3>2
    <3>4. \A s : Holds(w, j, s)'
      BY <2>2, <3>2, <3>3 DEF Holds
    <3> QED BY <2>1, <3>3, <3>4 DEF Covered
  <2>6. CASE ~WillRead(w, j)
    <3>1. \A s \in Searches : ~Holds(w, j, s)
      BY <2>2, <2>6 DEF Holds
    <3>2. /\ \A v \in Workers : WillRead(v, j) => WillRead(v, j)'
          /\ \A v \in Workers, s \in Searches : Holds(v, j, s) => Holds(v, j, s)'
      BY <2>1, <2>2, <2>6, <3>1, OthersHold
    <3> QED BY <1>3, <2>1, <2>3, <3>2, CoverStays
  <2> QED BY <2>5, <2>6
<1>9. ASSUME NEW w \in Workers, ReadSearches(w)
      PROVE  Covered(j)'
  <2>1. UNCHANGED <<clock, due, stamp, stored, straddled, attempted, searches, edited>>
    BY <1>9 DEF ReadSearches, window, rows, jobRows, history
  <2>2. /\ Others(w) /\ run[w].pc = "searches"
        /\ \A s \in Searches : <<j, s>> \in run'[w].todo
             <=> j \in run[w].batch /\ s \in searches /\ Matches(j, s)
        /\ (run'[w].todo # {} => run'[w].pc = "send")
    BY <1>9, ReadSearchesEffect
  <2>3. Covered(j)
    BY <1>2, <2>1 DEF LeftBehind
  <2>4. CASE \E v \in Workers : WillRead(v, j)
    <3>1. PICK v \in Workers : WillRead(v, j)
      BY <2>4
    <3>2. v # w
      BY <2>2, <3>1 DEF WillRead
    <3>3. WillRead(v, j)'
      BY <2>1, <2>2, <3>1, <3>2, OthersHold
    <3> QED BY <3>3 DEF Covered
  <2>5. CASE ~\E v \in Workers : WillRead(v, j)
    <3>1. ASSUME NEW s \in searches, edited[s] < stamp[j], Matches(j, s)
          PROVE  <<j, s>> \in attempted \/ \E v \in Workers : Holds(v, j, s)'
      <4>1. CASE <<j, s>> \in attempted
        BY <4>1
      <4>2. CASE <<j, s>> \notin attempted
        <5>1. PICK v \in Workers : Holds(v, j, s)
          BY <2>3, <2>5, <3>1, <4>2 DEF Covered
        <5>2. CASE v = w
          <6>1. j \in run[w].batch
            BY <2>2, <5>1, <5>2 DEF Holds, WillRead
          <6>2. <<j, s>> \in run'[w].todo /\ run'[w].pc = "send"
            BY <1>3, <2>2, <3>1, <6>1
          <6> QED BY <6>2 DEF Holds
        <5>3. CASE v # w
          BY <1>3, <2>1, <2>2, <5>1, <5>3, OthersHold
        <5> QED BY <5>2, <5>3
      <4> QED BY <4>1, <4>2
    <3>2. \A s : Matches(j, s)' <=> Matches(j, s)
      BY DEF Matches
    <3>3. j \in stored
      BY <2>3, <2>5 DEF Covered
    <3> QED BY <2>1, <3>1, <3>2, <3>3 DEF Covered
  <2> QED BY <2>4, <2>5
<1>10. ASSUME NEW w \in Workers, Send(w)
       PROVE  Covered(j)'
  <2>1. UNCHANGED <<clock, due, stamp, stored, straddled, searches, edited>>
    BY <1>10 DEF Send, window, rows, jobRows
  <2>2. PICK p \in run[w].todo :
          /\ run[w].pc = "send" /\ Deliver(p)
          /\ run' = [run EXCEPT ![w] = IF run[w].todo = {p} THEN Idle
                                       ELSE [@ EXCEPT !.todo = run[w].todo \ {p}]]
    BY <1>10 DEF Send
  <2>3. /\ Others(w) /\ p \in Pairs /\ run'[w].todo = run[w].todo \ {p}
        /\ (run'[w].todo # {} => run'[w].pc = "send")
    BY <2>1, <2>2, SendEffect
  <2>4. attempted' = attempted \cup {p}
    BY <2>2, <2>3, DeliverEffect
  <2>5. Covered(j)
    BY <1>2, <2>1 DEF LeftBehind
  <2>6. ~WillRead(w, j)
    BY <2>2 DEF WillRead
  <2>7. ASSUME NEW s \in Searches, Holds(w, j, s)
        PROVE  Holds(w, j, s)' \/ <<j, s>> \in attempted'
    BY <2>2, <2>3, <2>4, <2>7 DEF Holds, WillRead
  <2>8. /\ \A v \in Workers : WillRead(v, j) => WillRead(v, j)'
        /\ \A v \in Workers, s \in Searches :
             Holds(v, j, s) => Holds(v, j, s)' \/ <<j, s>> \in attempted'
    BY <2>1, <2>3, <2>6, <2>7, OthersHold
  <2> QED BY <1>3, <2>1, <2>4, <2>5, <2>8, CoverStays
<1>11. ASSUME NEW w \in Workers,
              TakeAgain(w) \/ QueryFails(w) \/ Crash(w) \/ FalseStall(w)
       PROVE  Covered(j)'
  BY <1>1, <1>11 DEF TakeAgain, QueryFails, Crash, FalseStall
<1> QED BY <1>4, <1>5, <1>6, <1>7, <1>8, <1>9, <1>10, <1>11 DEF Next

-----------------------------------------------------------------------------
\* What is to be sent for a search that is gone belongs to a run that had
\* started before.
LEMMA RemovedStaysSilent ==
  ASSUME TypeOK, RemovedFallsSilent, [Next]_vars
  PROVE  RemovedFallsSilent'
<1>1. ASSUME UNCHANGED <<run, searches, edited>> PROVE RemovedFallsSilent'
  BY <1>1 DEF RemovedFallsSilent
<1>2. ASSUME NEW w \in Workers, Others(w), UNCHANGED <<searches, edited>>,
             \A p \in run'[w].todo : p[2] \in searches \/ edited[p[2]] > run'[w].start
      PROVE  RemovedFallsSilent'
  BY <1>2 DEF RemovedFallsSilent, Others
<1>3. ASSUME NEW s \in Searches, Edit(s) PROVE RemovedFallsSilent'
  <2>1. /\ run' = run /\ clock' = clock
        /\ searches' = IF s \in searches THEN searches \ {s} ELSE searches \cup {s}
        /\ edited' = [edited EXCEPT ![s] = clock] /\ edited \in [Searches -> 0..clock]
    BY <1>3 DEF Edit, window, TypeOK
  <2>2. ASSUME NEW w \in Workers, NEW p \in run[w].todo
        PROVE  p[2] \in searches' \/ edited'[p[2]] > run[w].start
    <3>1. RunOK(run[w], clock, stored) /\ clock \in Nat
      BY RunsAreOK DEF TypeOK
    <3>2. run[w].start \in Nat /\ run[w].start < clock /\ p[2] \in Searches
      BY <3>1 DEF RunOK, Locals, Pairs
    <3>3. CASE p[2] = s
      BY <2>1, <3>1, <3>2, <3>3
    <3>4. CASE p[2] # s
      <4>1. p[2] \in searches \/ edited[p[2]] > run[w].start
        BY DEF RemovedFallsSilent
      <4> QED BY <2>1, <3>2, <3>4, <4>1
    <3> QED BY <3>3, <3>4
  <2> QED BY <2>1, <2>2 DEF RemovedFallsSilent
<1>4. ASSUME NEW w \in Workers, Take(w) \/ TakeAgain(w) PROVE RemovedFallsSilent'
  <2>1. /\ UNCHANGED <<searches, edited>> /\ clock' = clock + 1
        /\ \E retried \in BOOLEAN : Start(w, retried)
    BY <1>4, TakeEffect, TickEffect DEF Take, TakeAgain, Start, rows, history
  <2>2. Others(w) /\ run'[w].todo = {}
    BY <2>1, StartEffect
  <2> QED BY <1>2, <2>1, <2>2
<1>5. ASSUME NEW w \in Workers, ReadJobs(w) PROVE RemovedFallsSilent'
  <2>1. UNCHANGED <<searches, edited>> /\ Others(w) /\ run'[w].todo = {}
    BY <1>5, ReadJobsEffect DEF ReadJobs, rows
  <2> QED BY <1>2, <2>1
<1>6. ASSUME NEW w \in Workers, ReadSearches(w) PROVE RemovedFallsSilent'
  <2>1. UNCHANGED <<searches, edited>> /\ Others(w) /\ \A p \in run'[w].todo : p[2] \in searches
    BY <1>6, ReadSearchesEffect DEF ReadSearches, rows, history
  <2> QED BY <1>2, <2>1
<1>7. ASSUME NEW w \in Workers, Send(w) PROVE RemovedFallsSilent'
  <2>1. UNCHANGED <<clock, stored, searches, edited>>
    BY <1>7 DEF Send, window, rows, jobRows
  <2>2. PICK p \in run[w].todo :
          /\ run[w].pc = "send"
          /\ run' = [run EXCEPT ![w] = IF run[w].todo = {p} THEN Idle
                                       ELSE [@ EXCEPT !.todo = run[w].todo \ {p}]]
    BY <1>7 DEF Send
  <2>3. /\ Others(w) /\ run'[w].todo = run[w].todo \ {p}
        /\ (run'[w].todo # {} => run'[w].start = run[w].start)
    BY <2>1, <2>2, SendEffect
  <2> QED BY <1>2, <2>1, <2>3 DEF RemovedFallsSilent
<1>8. ASSUME NEW w \in Workers, QueryFails(w) \/ Crash(w) PROVE RemovedFallsSilent'
  <2>1. UNCHANGED <<clock, stored, searches, edited>> /\ run' = [run EXCEPT ![w] = Idle]
    BY <1>8 DEF QueryFails, Crash, window, rows, jobRows, history
  <2>2. Others(w) /\ run'[w].todo = {}
    BY <2>1, StopEffect
  <2> QED BY <1>2, <2>1, <2>2
<1>9. ASSUME NEW w \in Workers, FalseStall(w) PROVE RemovedFallsSilent'
  <2>1. UNCHANGED <<searches, edited>>
    BY <1>9 DEF FalseStall, rows, history
  <2>2. Others(w) /\ run'[w].todo = run[w].todo /\ run'[w].start = run[w].start
    BY <1>9, FalseStallEffect
  <2> QED BY <1>2, <2>1, <2>2 DEF RemovedFallsSilent
<1>10. ASSUME NEW j \in Jobs, BeginStore(j) \/ CommitStore(j) \/ RollBack(j)
       PROVE  UNCHANGED <<run, searches, edited>>
  BY <1>10 DEF BeginStore, CommitStore, RollBack, history
<1> QED BY <1>1, <1>3, <1>4, <1>5, <1>6, <1>7, <1>8, <1>9, <1>10
        DEF Next, Pass, rows, history, vars

-----------------------------------------------------------------------------
\* Every step keeps the inductive invariant.
LEMMA NextIsSafe == IInv /\ [Next]_vars => IInv'
<1> SUFFICES ASSUME IInv, [Next]_vars PROVE IInv'
  OBVIOUS
<1>1. /\ TypeOK /\ Schedule /\ Unstored /\ IsFiniteSet(Active) /\ NobodyMissed
      /\ RemovedFallsSilent /\ \A j \in Jobs, s \in Searches : PaidFor(j, s)
  BY DEF IInv
<1>2. TypeOK'
  BY <1>1, TypeStays
<1>3. Schedule' /\ Unstored' /\ IsFiniteSet(Active')
  BY <1>1, ScheduleStays, UnstoredStays, ActiveStays
<1>4. \A j \in Jobs, s \in Searches : PaidFor(j, s)'
  BY <1>1, <1>2, PaidForStays
<1>5. NobodyMissed' /\ RemovedFallsSilent'
  BY <1>1, <1>2, NobodyIsMissed, RemovedStaysSilent
<1> QED BY <1>2, <1>3, <1>4, <1>5 DEF IInv

\* The bookkeeping of the windows holds in every state.
THEOREM Safety == Spec => []IInv
<1> QED BY InitIsSafe, NextIsSafe, PTL DEF Spec

\* The state keeps its type; a run lies in the past and sends only what it read.
THEOREM TypeCorrect == Spec => []TypeOK
BY Safety, PTL DEF IInv

\* Without any record of what was sent, a pair is alerted once, and once more
\* at most for each squeezed run, late moment and fault.
THEOREM AlertsStayBounded == Spec => []AlertsAreBounded
<1>1. ASSUME IInv, NEW p \in Pairs
      PROVE  alerts[p] <= 1 + squeezed[p[1]] + Spent("fault", MaxFaults) + Spent("late", MaxLate)
  <2>1. PICK j \in Jobs, s \in Searches : p = <<j, s>> /\ p[1] = j
    BY DEF Pairs
  <2>2. alerts[p] \in Nat /\ squeezed[j] \in Nat /\ stalled \in Nat /\ stored \subseteq Jobs
        /\ TypeOK /\ Unstored /\ PaidFor(j, s) /\ IsFiniteSet(Active)
    BY <1>1, <2>1 DEF IInv, TypeOK
  <2>3. Faults \in Nat /\ Lateness \in Nat /\ Windows(j) \in Nat /\ Windows(j) <= 1 + Lateness
        /\ Cardinality(Holders(j, s)) \in Nat
    BY <2>2, Budget, WindowsType, HoldersFinite
  <2>4. alerts[p] <= 1 + squeezed[j] + Faults + Lateness
    <3>1. CASE stamp[j] = 0
      <4>1. j \notin stored
        BY <2>2, <3>1 DEF TypeOK
      <4>2. alerts[p] = 0
        BY <2>1, <2>2, <4>1 DEF Unstored
      <4> QED BY <2>2, <2>3, <4>2
    <3>2. CASE stamp[j] # 0
      <4>1. alerts[p] + Cardinality(Holders(j, s)) + stalled
              <= Windows(j) + squeezed[j] + Faults
        BY <2>1, <2>2, <3>2 DEF PaidFor
      <4> QED BY <2>2, <2>3, <4>1
    <3> QED BY <3>1, <3>2
  <2> QED BY <2>1, <2>4 DEF Faults, Lateness
<1>2. IInv => AlertsAreBounded
  BY <1>1 DEF AlertsAreBounded
<1> QED BY <1>2, Safety, PTL

\* What the next window will leave behind has been alerted, unless its
\* transaction straddled a run, or a run was late, died or failed.
THEOREM NobodyIsLeftBehind == Spec => []LeftBehindWasAlerted
<1>1. ASSUME IInv, \A w \in Workers : run[w].pc = "idle", Punctual,
             NEW j \in stored \ straddled, NEW s \in searches,
             stamp[j] <= due - Period, edited[s] < stamp[j], Matches(j, s)
      PROVE  <<j, s>> \in attempted
  <2>1. j \in Jobs /\ stamp[j] # 0
    BY <1>1 DEF IInv, TypeOK
  <2>2. Covered(j)
    BY <1>1, <2>1 DEF IInv, NobodyMissed, LeftBehind
  <2> QED BY <1>1, <2>2 DEF Covered, WillRead, Holds
<1>2. IInv => LeftBehindWasAlerted
  BY <1>1 DEF LeftBehindWasAlerted, Punctual, Faults, Lateness
<1> QED BY <1>2, Safety, PTL

\* A removed search is silent from the next run on.
THEOREM RemovedSearchesFallSilent == Spec => []RemovedFallsSilent
BY Safety, PTL DEF IInv
=============================================================================
