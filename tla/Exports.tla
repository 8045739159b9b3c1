-------------------------------- MODULE Exports --------------------------------
(***************************************************************************)
(* The spreadsheet exports: ExportService (src/jobs/export.service.ts)     *)
(* enqueues one and answers polls about it, ExportWorker                   *)
(* (src/jobs/export.worker.ts) streams the jobs into a file that is        *)
(* uploaded while it is written, races that against five minutes, and      *)
(* leaves the presigned URL in Redis for two hours.                        *)
(*                                                                         *)
(* The promise of the upload is made before the rows are read and is first *)
(* awaited after the last row.  Until then nothing handles its rejection,  *)
(* and an unhandled rejection ends the process (external: Node's default;  *)
(* lib-storage rejects done() when a part fails and when abort() is        *)
(* called).                                                                *)
(***************************************************************************)
EXTENDS Integers, FiniteSets

CONSTANTS
  Workers,        \* application instances, each with one `export` worker
  Exports,        \* jobs of the export queue
  MaxStalls,      \* BullMQ's maxStalledCount (1 unless configured)
  MaxFaults,      \* bound: failed calls, timeouts and crashes
  MaxVerdicts     \* bound: live workers taken for dead

ASSUME ExportsAssumption ==
  MaxStalls \in Nat /\ MaxFaults \in Nat /\ MaxVerdicts \in Nat

VARIABLES
  bull,           \* export -> its BullMQ job
  run,            \* worker -> the locals of its process() call
  objects,        \* files complete in the bucket: export, run of it
  result,         \* export -> the run whose URL is under export:{jobId}, 0 for none
  poll,           \* export -> a getResult() in progress, and the last answer
  budget,         \* faults and wrong verdicts still to come
  \* What has happened so far, read by the properties only:
  lapsed,         \* exports whose URL has reached its two hours
  outages         \* instances that S3 alone brought down

vars == <<bull, run, objects, result, poll, budget, lapsed, outages>>

Idle == [pc |-> "idle", job |-> "none", try |-> 0]

Key(w) == <<run[w].job, run[w].try>>

Spend(kind) == budget[kind] > 0 /\ budget' = [budget EXCEPT ![kind] = @ - 1]

\* The run of w goes on with its next call; only bull changes besides.
GoOn(w, pc) == run' = [run EXCEPT ![w].pc = pc]

\* The process of w ends, and is started again.
Dies(w) == run' = [run EXCEPT ![w] = Idle]

-----------------------------------------------------------------------------
\* POST /jobs/export.
Enqueue(x) ==
  /\ bull[x].state = "none"
  /\ bull' = [bull EXCEPT ![x].state = "waiting"]
  /\ UNCHANGED <<run, objects, result, poll, budget, lapsed, outages>>

\* The key of the file has the time in it, so every run writes its own.
Take(w, x) ==
  /\ run[w].pc = "idle" /\ bull[x].state = "waiting"
  /\ bull' = [bull EXCEPT ![x] = [@ EXCEPT !.state = "active", !.holder = w, !.runs = bull[x].runs + 1]]
  /\ run' = [run EXCEPT ![w] = [pc |-> "connect", job |-> x, try |-> bull[x].runs + 1]]
  /\ UNCHANGED <<objects, result, poll, budget, lapsed, outages>>

\* queryRunner.connect(); then the upload is started and the rows are asked for.
Connect(w) ==
  /\ run[w].pc = "connect" /\ GoOn(w, "stream")
  /\ UNCHANGED <<bull, objects, result, poll, budget, lapsed, outages>>

\* connect() throws: there is no upload yet, and the job fails.
ConnectFails(w) ==
  /\ run[w].pc = "connect" /\ Spend("fault") /\ GoOn(w, "throw")
  /\ UNCHANGED <<bull, objects, result, poll, lapsed, outages>>

\* The last row is written, the workbook committed; uploadDone is awaited.
Stream(w) ==
  /\ run[w].pc = "stream" /\ GoOn(w, "upload")
  /\ UNCHANGED <<bull, objects, result, poll, budget, lapsed, outages>>

\* Postgres throws, or the five minutes are over, while rows are being read:
\* upload.abort() rejects uploadDone, which nobody awaits.
StreamFails(w) ==
  /\ run[w].pc = "stream" /\ Spend("fault") /\ Dies(w)
  /\ UNCHANGED <<bull, objects, result, poll, lapsed, outages>>

\* A part of a file of more than one part fails while rows are being read.
PartFails(w) ==
  /\ run[w].pc = "stream" /\ Spend("fault") /\ Dies(w)
  /\ outages' = outages + 1
  /\ UNCHANGED <<bull, objects, result, poll, lapsed>>

\* The upload is complete: the race is won, the timer cleared, the connection
\* released, the URL signed.
Upload(w) ==
  /\ run[w].pc = "upload" /\ GoOn(w, "store")
  /\ objects' = objects \cup {Key(w)}
  /\ UNCHANGED <<bull, result, poll, budget, lapsed, outages>>

\* Mutations of UploadFails: the timeout is not thrown, and the URL is stored;
\* the job fails and the work it raced goes on.
UploadFailsSilently(w) ==
  /\ run[w].pc = "upload" /\ Spend("fault") /\ GoOn(w, "store")
  /\ objects' \in {objects, objects \cup {Key(w)}}
  /\ UNCHANGED <<bull, result, poll, lapsed, outages>>

UploadFailsDetached(w) ==
  /\ run[w].pc = "upload" /\ Spend("fault") /\ GoOn(w, "store")
  /\ objects' = objects \cup {Key(w)}
  /\ bull' = [bull EXCEPT ![run[w].job].state = "failed"]
  /\ UNCHANGED <<result, poll, lapsed, outages>>

\* The upload fails, or the five minutes are over first: it is aborted, in time
\* or too late, and the job fails.
UploadFails(w) ==
  /\ run[w].pc = "upload" /\ Spend("fault") /\ GoOn(w, "throw")
  /\ objects' \in {objects, objects \cup {Key(w)}}
  /\ UNCHANGED <<bull, result, poll, lapsed, outages>>

\* SET export:{jobId} EX 7200.
StoreResult(w) ==
  /\ run[w].pc = "store" /\ GoOn(w, "return")
  /\ result' = [result EXCEPT ![run[w].job] = run[w].try]
  /\ UNCHANGED <<bull, objects, poll, budget, lapsed, outages>>

\* Mutation of StoreFails: its error is swallowed.
StoreFailsSilently(w) ==
  /\ run[w].pc = "store" /\ Spend("fault") /\ GoOn(w, "return")
  /\ result' \in {result, [result EXCEPT ![run[w].job] = run[w].try]}
  /\ UNCHANGED <<bull, objects, poll, lapsed, outages>>

\* The SET throws, done or not.
StoreFails(w) ==
  /\ run[w].pc = "store" /\ Spend("fault") /\ GoOn(w, "throw")
  /\ result' \in {result, [result EXCEPT ![run[w].job] = run[w].try]}
  /\ UNCHANGED <<bull, objects, poll, lapsed, outages>>

\* Mutation of Finish: a failed export is tried again.
FinishRetries(w) ==
  LET x == run[w].job
      state == IF run[w].pc = "return" THEN "completed" ELSE "waiting"
  IN  /\ run[w].pc \in {"return", "throw"}
      /\ bull' = IF bull[x].state = "active" /\ bull[x].holder = w
                 THEN [bull EXCEPT ![x].state = state] ELSE bull
      /\ run' = [run EXCEPT ![w] = Idle]
      /\ UNCHANGED <<objects, result, poll, budget, lapsed, outages>>

\* process() returns or throws; BullMQ completes the job or, with `attempts: 1`,
\* fails it, unless it has given the job to someone else since.
Finish(w) ==
  LET x == run[w].job
      state == IF run[w].pc = "return" THEN "completed" ELSE "failed"
  IN  /\ run[w].pc \in {"return", "throw"}
      /\ bull' = IF bull[x].state = "active" /\ bull[x].holder = w
                 THEN [bull EXCEPT ![x].state = state] ELSE bull
      /\ run' = [run EXCEPT ![w] = Idle]
      /\ UNCHANGED <<objects, result, poll, budget, lapsed, outages>>

\* The instance dies of something else.
Crash(w) ==
  /\ run[w].pc # "idle" /\ Spend("fault") /\ Dies(w)
  /\ UNCHANGED <<bull, objects, result, poll, lapsed, outages>>

Abandoned(x) == bull[x].state = "active" /\ run[bull[x].holder].job # x

\* The stalled check puts a job back, or fails it when it has stalled before.
PutBack(x) ==
  bull' = [bull EXCEPT ![x] = [@ EXCEPT
             !.state = IF bull[x].stalls < MaxStalls THEN "waiting" ELSE "failed",
             !.stalls = bull[x].stalls + 1]]

StallDetected(x) ==
  /\ Abandoned(x) /\ PutBack(x)
  /\ UNCHANGED <<run, objects, result, poll, budget, lapsed, outages>>

FalseStall(x) ==
  /\ bull[x].state = "active" /\ ~Abandoned(x) /\ Spend("verdict") /\ PutBack(x)
  /\ UNCHANGED <<run, objects, result, poll, lapsed, outages>>

ResultExpires(x) ==
  /\ result[x] # 0
  /\ result' = [result EXCEPT ![x] = 0]
  /\ lapsed' = lapsed \cup {x}
  /\ UNCHANGED <<bull, run, objects, poll, budget, outages>>

\* removeOnComplete and removeOnFail: BullMQ forgets all but the last hundred
\* completed jobs, and a failed one after seven days.
Forget(x) ==
  /\ bull[x].state \in {"completed", "failed"}
  /\ bull' = [bull EXCEPT ![x].state = "removed"]
  /\ UNCHANGED <<run, objects, result, poll, budget, lapsed, outages>>

\* GET /jobs/export/{jobId} is answered: 200 "ready", 500 "failed" or 202 "pending".
Answered(status) == [asking |-> FALSE, answer |-> status]

\* getResult() reads Redis: a URL is the answer.
ReadResult(x) ==
  /\ bull[x].state # "none" /\ ~poll[x].asking
  /\ poll' = [poll EXCEPT ![x] =
                IF result[x] # 0 THEN Answered("ready") ELSE [@ EXCEPT !.asking = TRUE]]
  /\ UNCHANGED <<bull, run, objects, result, budget, lapsed, outages>>

\* Mutation of ReadState: every job without a URL is pending.
ReadStatePending(x) ==
  /\ poll[x].asking
  /\ poll' = [poll EXCEPT ![x] = Answered("pending")]
  /\ UNCHANGED <<bull, run, objects, result, budget, lapsed, outages>>

\* No URL: getResult() asks BullMQ whether the job has failed; one that is
\* there no longer has not.
ReadState(x) ==
  /\ poll[x].asking
  /\ poll' = [poll EXCEPT ![x] =
                Answered(IF bull[x].state = "failed" THEN "failed" ELSE "pending")]
  /\ UNCHANGED <<bull, run, objects, result, budget, lapsed, outages>>

Init ==
  /\ bull = [x \in Exports |-> [state |-> "none", holder |-> "none", runs |-> 0, stalls |-> 0]]
  /\ run = [w \in Workers |-> Idle]
  /\ objects = {} /\ result = [x \in Exports |-> 0]
  /\ poll = [x \in Exports |-> Answered("pending")]
  /\ budget = [fault |-> MaxFaults, verdict |-> MaxVerdicts]
  /\ lapsed = {} /\ outages = 0

Step(w) ==
  \/ Connect(w) \/ ConnectFails(w)
  \/ Stream(w) \/ StreamFails(w) \/ PartFails(w)
  \/ Upload(w) \/ UploadFails(w)
  \/ StoreResult(w) \/ StoreFails(w)
  \/ Finish(w)

Next ==
  \/ \E w \in Workers : Step(w) \/ Crash(w) \/ \E x \in Exports : Take(w, x)
  \/ \E x \in Exports :
       \/ Enqueue(x) \/ StallDetected(x) \/ FalseStall(x)
       \/ ResultExpires(x) \/ Forget(x) \/ ReadResult(x) \/ ReadState(x)

Spec == Init /\ [][Next]_vars

\* Calls return or fail in the end; idle workers poll the queue; the stalled
\* check runs; the client keeps polling.
Fairness ==
  /\ \A w \in Workers : WF_vars(Step(w))
  /\ \A x \in Exports :
       /\ WF_vars(\E w \in Workers : Take(w, x)) /\ WF_vars(StallDetected(x))
       /\ WF_vars(ReadResult(x)) /\ WF_vars(ReadState(x))

FairSpec == Spec /\ Fairness

-----------------------------------------------------------------------------
BullJob == [state : {"none", "waiting", "active", "completed", "failed", "removed"},
            holder : Workers \cup {"none"}, runs : Nat, stalls : Nat]
Locals == [pc : {"idle", "connect", "stream", "upload", "store", "return", "throw"},
           job : Exports \cup {"none"}, try : Nat]

\* The type of the state; a run is one of those its job has had, and no two
\* workers are in the same run.
TypeOK ==
  /\ bull \in [Exports -> BullJob]
  /\ run \in [Workers -> Locals]
  /\ \A w \in Workers : run[w].pc # "idle" =>
       /\ run[w].job \in Exports /\ run[w].try \in 1..bull[run[w].job].runs
       /\ \A v \in Workers : v # w /\ run[v].pc # "idle" => Key(v) # Key(w)
  /\ objects \subseteq Exports \X Nat
  /\ result \in [Exports -> Nat]
  /\ poll \in [Exports -> [asking : BOOLEAN, answer : {"pending", "ready", "failed"}]]
  /\ budget \in [fault : 0..MaxFaults, verdict : 0..MaxVerdicts]
  /\ lapsed \subseteq Exports /\ outages \in Nat

\* A URL that getResult() hands out is one of a complete file, however the
\* upload, the five minutes, a stall and a second run race each other.
ReadyIsDownloadable ==
  \A x \in Exports : result[x] # 0 => <<x, result[x]>> \in objects

\* An export that BullMQ shows as completed has its URL, until its two hours
\* are over: no failure between the upload and the SET is taken for success.
CompletedHasUrl ==
  \A x \in Exports : bull[x].state = "completed" => result[x] # 0 \/ x \in lapsed

\* `attempts: 1`: an export is run again only when its worker was lost, and a
\* failed one never is.
RunsAreBounded ==
  \A x \in Exports : bull[x].runs <= 1 + bull[x].stalls /\ bull[x].runs <= 1 + MaxStalls

\* No URL turns up for an export that has failed without one, as long as no
\* live worker was taken for dead: the work that lost its race is not heard of
\* again.
FailedStaysFailed ==
  [][\A x \in Exports :
       bull[x].state = "failed" /\ result[x] = 0 /\ budget.verdict = MaxVerdicts
         => result'[x] = 0]_vars

\* A client that keeps polling is told "ready" or "failed" in the end, whatever
\* failed, unless it comes back only after the URL's two hours or after BullMQ
\* has forgotten the failure: then it is told "pending" for ever.
EveryExportIsAnswered ==
  \A x \in Exports :
    bull[x].state = "waiting" ~> poll[x].answer \in {"ready", "failed"} \/ x \in lapsed
                             \/ bull[x].state = "removed"

\* "exports are async/queued, so an S3 outage must not pull the node out of
\* rotation for job-listing traffic" (src/health/health.controller.ts).
S3OutageIsSoft == outages = 0
=============================================================================
