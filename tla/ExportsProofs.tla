---------------------------- MODULE ExportsProofs ----------------------------
(***************************************************************************)
(* Proofs about Exports, for any number of instances, exports, faults and  *)
(* wrong verdicts and any number of stalls that BullMQ allows.             *)
(***************************************************************************)
EXTENDS Exports, TLAPS

\* How often an export has been run, by where its job stands.
Counts == \A x \in Exports :
  /\ bull[x].runs <= 1 + bull[x].stalls /\ bull[x].runs <= 1 + MaxStalls
  /\ bull[x].state \in {"none", "waiting"} => bull[x].runs <= bull[x].stalls
  /\ bull[x].state \in {"none", "waiting", "active"} => bull[x].stalls <= MaxStalls
  /\ bull[x].state = "active" => bull[x].holder \in Workers

\* The file comes before its URL, and the URL before the end of the run.
Order == \A w \in Workers :
  /\ run[w].pc \in {"store", "return"} => Key(w) \in objects
  /\ run[w].pc = "return" => result[run[w].job] # 0 \/ run[w].job \in lapsed

\* Until a live worker is taken for dead, who runs an export holds its job.
Held == budget.verdict = MaxVerdicts =>
  \A w \in Workers : run[w].pc # "idle" =>
    bull[run[w].job].state = "active" /\ bull[run[w].job].holder = w

\* The inductive invariant.
IInv == TypeOK /\ Counts /\ Order /\ Held /\ ReadyIsDownloadable /\ CompletedHasUrl

-----------------------------------------------------------------------------
Pcs == {"connect", "stream", "upload", "store", "return", "throw"}
Budget == [fault : 0..MaxFaults, verdict : 0..MaxVerdicts]

\* A run goes on to pc: it keeps its job and its number.
LEMMA GoesOn ==
  ASSUME IInv, NEW w \in Workers, run[w].pc # "idle", NEW pc \in Pcs, GoOn(w, pc)
  PROVE  /\ run' \in [Workers -> Locals]
         /\ run'[w].pc = pc
         /\ \A v \in Workers : v # w => run'[v] = run[v]
         /\ \A v \in Workers : run'[v].job = run[v].job /\ run'[v].try = run[v].try
         /\ \A v \in Workers : run'[v].pc # "idle" <=> run[v].pc # "idle"
<1>1. run \in [Workers -> Locals]
  BY DEF IInv, TypeOK
<1> DEFINE L == [run[w] EXCEPT !.pc = pc]
<1>2. L \in Locals /\ L.pc = pc /\ L.job = run[w].job /\ L.try = run[w].try
  BY <1>1 DEF Locals, Pcs
<1>3. run' = [run EXCEPT ![w] = L]
  BY DEF GoOn
<1> HIDE DEF L
<1> QED BY <1>1, <1>2, <1>3 DEF Pcs

\* It disturbs nothing, as long as the file comes first and the URL second.
LEMMA GoingOnIsSafe ==
  ASSUME IInv, NEW w \in Workers, run[w].pc # "idle", NEW pc \in Pcs, GoOn(w, pc),
         UNCHANGED <<bull, poll, lapsed, outages>>,
         budget' \in Budget, budget'.verdict = budget.verdict,
         objects' \in {objects, objects \cup {Key(w)}},
         result' \in {result, [result EXCEPT ![run[w].job] = run[w].try]},
         result' # result => Key(w) \in objects,
         pc \in {"store", "return"} => Key(w) \in objects',
         pc = "return" => result'[run[w].job] # 0 \/ run[w].job \in lapsed
  PROVE  IInv'
<1>1. /\ run' \in [Workers -> Locals]
      /\ run'[w].pc = pc
      /\ \A v \in Workers : v # w => run'[v] = run[v]
      /\ \A v \in Workers : run'[v].job = run[v].job /\ run'[v].try = run[v].try
      /\ \A v \in Workers : run'[v].pc # "idle" <=> run[v].pc # "idle"
  BY GoesOn
<1>2. /\ run[w].job \in Exports /\ run[w].try \in 1..bull[run[w].job].runs
      /\ bull[run[w].job].runs \in Nat
  BY DEF IInv, TypeOK, BullJob
<1>3. \A v \in Workers : Key(v)' = Key(v)
  BY <1>1 DEF Key
<1>4. /\ \A x \in Exports : result'[x] = result[x] \/ (result'[x] # 0 /\ x = run[w].job /\ result'[x] = run[w].try)
      /\ result' \in [Exports -> Nat]
  BY <1>2 DEF IInv, TypeOK
<1>5. TypeOK'
  <2>1. objects' \subseteq Exports \X Nat
    BY <1>2 DEF IInv, TypeOK, Key
  <2> QED BY <1>1, <1>3, <1>4, <2>1 DEF IInv, TypeOK, Budget
<1>6. Counts'
  BY DEF IInv, Counts
<1>7. Order'
  <2>1. ASSUME NEW v \in Workers, v # w
        PROVE  /\ run'[v].pc \in {"store", "return"} => Key(v)' \in objects'
               /\ run'[v].pc = "return" => result'[run'[v].job] # 0 \/ run'[v].job \in lapsed
    <3>1. run'[v] = run[v] /\ Key(v)' = Key(v) /\ (run[v].pc # "idle" => run[v].job \in Exports)
      BY <1>1, <1>3, <2>1 DEF IInv, TypeOK
    <3> QED BY <1>4, <3>1 DEF IInv, Order
  <2>2. /\ pc \in {"store", "return"} => Key(w)' \in objects'
        /\ pc = "return" => result'[run'[w].job] # 0 \/ run'[w].job \in lapsed
    BY <1>1, <1>3
  <2> QED BY <1>1, <2>1, <2>2 DEF Order
<1>8. Held'
  BY <1>1 DEF IInv, Held
<1>9. ReadyIsDownloadable'
  BY <1>4 DEF IInv, ReadyIsDownloadable, Key
<1>10. CompletedHasUrl'
  BY <1>4 DEF IInv, CompletedHasUrl
<1> QED BY <1>5, <1>6, <1>7, <1>8, <1>9, <1>10 DEF IInv

\* A run that ends leaves no trace of its own.
LEMMA DyingIsSafe ==
  ASSUME IInv, NEW w \in Workers, run' = [run EXCEPT ![w] = Idle],
         UNCHANGED <<bull, poll, objects, result, lapsed>>, outages' \in Nat,
         budget' \in Budget, budget'.verdict = budget.verdict
  PROVE  IInv'
<1>1. Idle \in Locals /\ Idle.pc = "idle"
  BY DEF Idle, Locals
<1>2. /\ run' \in [Workers -> Locals] /\ run'[w].pc = "idle"
      /\ \A v \in Workers : v # w => run'[v] = run[v] /\ Key(v)' = Key(v)
  BY <1>1 DEF IInv, TypeOK, Key
<1>3. TypeOK'
  BY <1>2 DEF IInv, TypeOK, Budget
<1>4. Counts' /\ ReadyIsDownloadable' /\ CompletedHasUrl'
  BY DEF IInv, Counts, ReadyIsDownloadable, CompletedHasUrl
<1>5. Order' /\ Held'
  BY <1>2 DEF IInv, Order, Held
<1> QED BY <1>3, <1>4, <1>5 DEF IInv

\* Only the state and the stalls of x's job change.
LEMMA JobChanges ==
  ASSUME IInv, NEW x \in Exports, NEW B \in BullJob, bull' = [bull EXCEPT ![x] = B],
         B.runs = bull[x].runs, B.holder = bull[x].holder,
         UNCHANGED <<run, objects, result, poll, lapsed, outages>>, budget' \in Budget,
         B.runs <= 1 + B.stalls,
         B.state \in {"none", "waiting"} => B.runs <= B.stalls,
         B.state \in {"none", "waiting", "active"} => B.stalls <= MaxStalls,
         B.state = "active" => B.holder \in Workers,
         B.state = "completed" => result[x] # 0 \/ x \in lapsed,
         budget'.verdict = MaxVerdicts =>
           budget.verdict = MaxVerdicts /\ \A w \in Workers : run[w].pc # "idle" => run[w].job # x
  PROVE  IInv'
<1>1. /\ bull' \in [Exports -> BullJob] /\ bull'[x] = B
      /\ \A y \in Exports : y # x => bull'[y] = bull[y]
  BY DEF IInv, TypeOK
<1>2. \A y \in Exports : bull'[y].runs = bull[y].runs
  BY <1>1
<1>3. TypeOK'
  <2>1. \A w \in Workers : Key(w)' = Key(w)
    BY DEF Key
  <2> QED BY <1>1, <1>2, <2>1 DEF IInv, TypeOK, Budget
<1>4. Counts'
  BY <1>1, <1>2 DEF IInv, Counts
<1>5. Order' /\ ReadyIsDownloadable'
  BY DEF IInv, Order, Key, ReadyIsDownloadable
<1>6. CompletedHasUrl'
  BY <1>1 DEF IInv, CompletedHasUrl
<1>7. Held'
  <2>1. ASSUME budget'.verdict = MaxVerdicts, NEW w \in Workers, run[w].pc # "idle"
        PROVE bull'[run[w].job] = bull[run[w].job]
    BY <1>1, <2>1 DEF IInv, TypeOK
  <2> QED BY <2>1 DEF IInv, Held
<1> QED BY <1>3, <1>4, <1>5, <1>6, <1>7 DEF IInv

\* A worker takes a job: a run more, which the stalls pay for.
LEMMA TakingIsSafe ==
  ASSUME IInv, NEW w \in Workers, NEW x \in Exports, Take(w, x)
  PROVE  IInv'
<1> DEFINE n == bull[x].runs + 1
           B == [bull[x] EXCEPT !.state = "active", !.holder = w, !.runs = n]
           L == [pc |-> "connect", job |-> x, try |-> n]
<1>1. bull[x] \in BullJob /\ bull[x].runs \in Nat /\ n \in Nat \ {0}
  BY DEF IInv, TypeOK, BullJob
<1>2. /\ B \in BullJob /\ B.state = "active" /\ B.holder = w /\ B.runs = n /\ B.stalls = bull[x].stalls
      /\ L \in Locals /\ L.pc = "connect" /\ L.job = x /\ L.try = n
  BY <1>1 DEF BullJob, Locals
<1>3. /\ bull' = [bull EXCEPT ![x] = B] /\ run' = [run EXCEPT ![w] = L]
      /\ UNCHANGED <<objects, result, poll, budget, lapsed, outages>>
      /\ run[w].pc = "idle" /\ bull[x].state = "waiting"
  BY DEF Take
<1>a. n = bull[x].runs + 1
  OBVIOUS
<1> HIDE DEF n, B, L
<1>4. /\ bull' \in [Exports -> BullJob] /\ bull'[x] = B
      /\ \A y \in Exports : y # x => bull'[y] = bull[y]
      /\ run' \in [Workers -> Locals] /\ run'[w] = L
      /\ \A v \in Workers : v # w => run'[v] = run[v]
  BY <1>2, <1>3 DEF IInv, TypeOK
<1>5. TypeOK'
  <2>1. \A v \in Workers : v # w => Key(v)' = Key(v)
    BY <1>4 DEF Key
  <2>2. Key(w)' = <<x, n>>
    BY <1>2, <1>4 DEF Key
  <2>3. ASSUME NEW v \in Workers, v # w, run[v].pc # "idle"
        PROVE  /\ run[v].job \in Exports /\ run[v].try \in 1..bull'[run[v].job].runs
               /\ Key(v) # <<x, n>>
    <3>1. run[v].job \in Exports /\ run[v].try \in 1..bull[run[v].job].runs
      BY <2>3 DEF IInv, TypeOK
    <3>2. CASE run[v].job = x
      BY <1>1, <1>2, <1>4, <1>a, <3>1, <3>2 DEF Key
    <3>3. CASE run[v].job # x
      BY <1>4, <3>1, <3>3 DEF Key
    <3> QED BY <3>2, <3>3
  <2>4. ASSUME NEW v \in Workers, run'[v].pc # "idle"
        PROVE  /\ run'[v].job \in Exports /\ run'[v].try \in 1..bull'[run'[v].job].runs
               /\ \A u \in Workers : u # v /\ run'[u].pc # "idle" => Key(u)' # Key(v)'
    <3>1. CASE v = w
      BY <1>1, <1>2, <1>4, <2>1, <2>2, <2>3, <3>1
    <3>2. CASE v # w
      <4>1. run'[v] = run[v] /\ run[v].pc # "idle"
        BY <1>4, <2>4, <3>2
      <4>2. ASSUME NEW u \in Workers, u # v, run'[u].pc # "idle" PROVE Key(u)' # Key(v)'
        <5>1. CASE u = w
          BY <2>1, <2>2, <2>3, <3>2, <4>1, <5>1
        <5>2. CASE u # w
          BY <1>4, <2>1, <3>2, <4>1, <4>2, <5>2 DEF IInv, TypeOK
        <5> QED BY <5>1, <5>2
      <4> QED BY <2>3, <3>2, <4>1, <4>2
    <3> QED BY <3>1, <3>2
  <2> QED BY <1>3, <1>4, <2>4 DEF IInv, TypeOK
<1>6. Counts'
  BY <1>1, <1>2, <1>3, <1>4, <1>a, ExportsAssumption DEF IInv, TypeOK, BullJob, Counts
<1>7. Order' /\ ReadyIsDownloadable' /\ CompletedHasUrl'
  BY <1>2, <1>3, <1>4 DEF IInv, Order, Key, ReadyIsDownloadable, CompletedHasUrl
<1>8. Held'
  <2> SUFFICES ASSUME budget.verdict = MaxVerdicts, NEW v \in Workers, run'[v].pc # "idle"
               PROVE  bull'[run'[v].job].state = "active" /\ bull'[run'[v].job].holder = v
    BY <1>3 DEF Held
  <2>1. CASE v = w
    BY <1>2, <1>4, <2>1
  <2>2. CASE v # w
    <3>1. run'[v] = run[v] /\ run[v].job \in Exports /\ bull[run[v].job].state = "active"
          /\ bull[run[v].job].holder = v
      BY <1>4, <2>2 DEF IInv, TypeOK, Held
    <3> QED BY <1>3, <1>4, <3>1
  <2> QED BY <2>1, <2>2
<1> QED BY <1>5, <1>6, <1>7, <1>8 DEF IInv

\* A run ends: its job settles only if the run still holds it.
LEMMA FinishingIsSafe ==
  ASSUME IInv, NEW w \in Workers, Finish(w)
  PROVE  IInv'
<1> DEFINE x == run[w].job
           state == IF run[w].pc = "return" THEN "completed" ELSE "failed"
           B == [bull[x] EXCEPT !.state = state]
           L == Idle
<1>1. /\ x \in Exports /\ bull[x] \in BullJob
      /\ UNCHANGED <<objects, result, poll, budget, lapsed, outages>>
      /\ run' = [run EXCEPT ![w] = L] /\ run[w].pc \in {"return", "throw"}
  BY DEF Finish, IInv, TypeOK
<1>2. /\ B \in BullJob /\ B.state = state /\ B.runs = bull[x].runs
      /\ B.stalls = bull[x].stalls /\ state \in {"completed", "failed"}
      /\ L \in Locals /\ L.pc = "idle"
  BY <1>1 DEF BullJob, Idle, Locals
<1>3. bull' = bull \/ (bull[x].holder = w /\ bull' = [bull EXCEPT ![x] = B])
  BY DEF Finish
<1>4. state = "completed" => run[w].pc = "return"
  OBVIOUS
<1>a. x = run[w].job
  OBVIOUS
<1> HIDE DEF B, L, state, x
<1>5. /\ run' \in [Workers -> Locals] /\ run'[w].pc = "idle"
      /\ \A v \in Workers : v # w => run'[v] = run[v] /\ Key(v)' = Key(v)
  BY <1>1, <1>2 DEF IInv, TypeOK, Key
<1>6. /\ bull' \in [Exports -> BullJob]
      /\ \A y \in Exports : /\ bull'[y].runs = bull[y].runs /\ bull'[y].stalls = bull[y].stalls
                            /\ bull'[y] = bull[y] \/ (y = x /\ bull'[y].state = state /\ bull[x].holder = w)
  BY <1>1, <1>2, <1>3 DEF IInv, TypeOK
<1>7. TypeOK'
  BY <1>1, <1>5, <1>6 DEF IInv, TypeOK
<1>8. Counts'
  BY <1>2, <1>6 DEF IInv, Counts
<1>9. Order' /\ ReadyIsDownloadable'
  BY <1>1, <1>5 DEF IInv, Order, ReadyIsDownloadable
<1>10. CompletedHasUrl'
  BY <1>1, <1>4, <1>6, <1>a DEF IInv, Order, CompletedHasUrl
<1>11. Held'
  <2> SUFFICES ASSUME budget.verdict = MaxVerdicts, NEW v \in Workers, run'[v].pc # "idle"
               PROVE  bull'[run'[v].job].state = "active" /\ bull'[run'[v].job].holder = v
    BY <1>1 DEF Held
  <2>1. v # w /\ run'[v] = run[v]
    BY <1>5
  <2>2. run[v].job \in Exports /\ bull[run[v].job].state = "active" /\ bull[run[v].job].holder = v
    BY <2>1 DEF IInv, TypeOK, Held
  <2> QED BY <1>6, <2>1, <2>2
<1> QED BY <1>7, <1>8, <1>9, <1>10, <1>11 DEF IInv

\* The stalled check: a job put back is one nobody holds, or costs a verdict.
LEMMA PuttingBackIsSafe ==
  ASSUME IInv, NEW x \in Exports, bull[x].state = "active", PutBack(x),
         UNCHANGED <<run, objects, result, poll, lapsed, outages>>, budget' \in Budget,
         budget'.verdict = MaxVerdicts => budget.verdict = MaxVerdicts /\ Abandoned(x)
  PROVE  IInv'
<1> DEFINE state == IF bull[x].stalls < MaxStalls THEN "waiting" ELSE "failed"
           B == [bull[x] EXCEPT !.state = state, !.stalls = bull[x].stalls + 1]
<1>1. bull[x] \in BullJob /\ bull[x].stalls \in Nat /\ bull[x].runs \in Nat
  BY DEF IInv, TypeOK, BullJob
<1>2. /\ B \in BullJob /\ B.state = state /\ B.stalls = bull[x].stalls + 1
      /\ B.runs = bull[x].runs /\ B.holder = bull[x].holder
  <2>1. state \in {"waiting", "failed"} /\ bull[x].stalls + 1 \in Nat
    BY <1>1
  <2> HIDE DEF state
  <2> QED BY <1>1, <2>1, Zenon DEF BullJob
<1>3. bull' = [bull EXCEPT ![x] = B]
  BY DEF PutBack
<1>4. /\ bull[x].runs <= 1 + bull[x].stalls /\ bull[x].stalls <= MaxStalls
      /\ bull[x].holder \in Workers
  BY DEF IInv, Counts
<1>5. ASSUME Abandoned(x), budget.verdict = MaxVerdicts, NEW w \in Workers, run[w].pc # "idle"
      PROVE  run[w].job # x
  BY <1>5 DEF Abandoned, IInv, Held
<1>6. (state = "waiting" => bull[x].stalls < MaxStalls) /\ state \in {"waiting", "failed"}
  OBVIOUS
<1> HIDE DEF B, state
<1>7. /\ B.runs <= 1 + B.stalls /\ (B.state = "waiting" => B.runs <= B.stalls /\ B.stalls <= MaxStalls)
  BY <1>1, <1>2, <1>4, <1>6, ExportsAssumption
<1> QED BY <1>2, <1>3, <1>5, <1>6, <1>7, JobChanges

-----------------------------------------------------------------------------
\* The invariant holds at the start.
LEMMA InitIsSafe == Init => IInv
BY ExportsAssumption
   DEF Init, IInv, TypeOK, BullJob, Locals, Idle, Answered, Counts, Order, Held,
       ReadyIsDownloadable, CompletedHasUrl

\* Only the answers to polls change, or a URL runs out.
LEMMA PollingIsSafe ==
  ASSUME IInv, UNCHANGED <<bull, run, objects, budget, outages>>,
         poll' \in [Exports -> [asking : BOOLEAN, answer : {"pending", "ready", "failed"}]],
         \/ UNCHANGED <<result, lapsed>>
         \/ \E x \in Exports : result' = [result EXCEPT ![x] = 0] /\ lapsed' = lapsed \cup {x}
  PROVE  IInv'
<1>1. /\ result' \in [Exports -> Nat] /\ lapsed' \subseteq Exports /\ lapsed \subseteq lapsed'
      /\ \A y \in Exports : result'[y] = result[y] \/ (result'[y] = 0 /\ y \in lapsed')
  BY DEF IInv, TypeOK
<1>2. \A w \in Workers : Key(w)' = Key(w)
  BY DEF Key
<1>3. TypeOK'
  BY <1>1, <1>2 DEF IInv, TypeOK
<1>4. Order'
  <2>1. \A w \in Workers : run[w].pc # "idle" => run[w].job \in Exports
    BY DEF IInv, TypeOK
  <2> QED BY <1>1, <1>2, <2>1 DEF IInv, Order
<1>5. Counts' /\ Held' /\ ReadyIsDownloadable' /\ CompletedHasUrl'
  BY <1>1 DEF IInv, Counts, Held, ReadyIsDownloadable, CompletedHasUrl
<1> QED BY <1>3, <1>4, <1>5 DEF IInv

\* Every step of a run keeps the invariant.
LEMMA StepIsSafe ==
  ASSUME IInv, NEW w \in Workers, Step(w)
  PROVE  IInv'
<1>1. /\ budget \in Budget
      /\ run[w].pc # "idle" => run[w].job \in Exports /\ run[w].try \in 1..bull[run[w].job].runs
                               /\ bull[run[w].job].runs \in Nat
  BY DEF IInv, TypeOK, Budget, BullJob
<1>2. Spend("fault") => budget' \in Budget /\ budget'.verdict = budget.verdict
  BY <1>1, ExportsAssumption DEF Spend, Budget
<1>3. run[w].pc # "idle" => [result EXCEPT ![run[w].job] = run[w].try][run[w].job] # 0
  BY <1>1 DEF IInv, TypeOK
<1>4. CASE Connect(w)
  BY <1>1, <1>4, GoingOnIsSafe DEF Connect, Pcs
<1>5. CASE ConnectFails(w)
  BY <1>2, <1>5, GoingOnIsSafe DEF ConnectFails, Pcs
<1>6. CASE Stream(w)
  BY <1>1, <1>6, GoingOnIsSafe DEF Stream, Pcs
<1>7. CASE StreamFails(w)
  BY <1>2, <1>7, DyingIsSafe DEF StreamFails, Dies, IInv, TypeOK
<1>8. CASE PartFails(w)
  <2>1. outages' \in Nat
    BY <1>8 DEF PartFails, IInv, TypeOK
  <2> QED BY <1>2, <1>8, <2>1, DyingIsSafe DEF PartFails, Dies
<1>9. CASE Upload(w)
  BY <1>1, <1>9, GoingOnIsSafe DEF Upload, Pcs
<1>10. CASE UploadFails(w)
  BY <1>2, <1>10, GoingOnIsSafe DEF UploadFails, Pcs
<1>11. CASE StoreResult(w)
  <2>1. Key(w) \in objects
    BY <1>11 DEF StoreResult, IInv, Order
  <2> QED BY <1>1, <1>3, <1>11, <2>1, GoingOnIsSafe DEF StoreResult, Pcs
<1>12. CASE StoreFails(w)
  <2>1. Key(w) \in objects
    BY <1>12 DEF StoreFails, IInv, Order
  <2> QED BY <1>2, <1>12, <2>1, GoingOnIsSafe DEF StoreFails, Pcs
<1>13. CASE Finish(w)
  BY <1>13, FinishingIsSafe
<1> QED BY <1>4, <1>5, <1>6, <1>7, <1>8, <1>9, <1>10, <1>11, <1>12, <1>13 DEF Step

\* So does every other step.
LEMMA NextIsSafe == IInv /\ [Next]_vars => IInv'
<1> SUFFICES ASSUME IInv, [Next]_vars PROVE IInv'
  OBVIOUS
<1>a. budget \in Budget
  BY DEF IInv, TypeOK, Budget
<1>1. ASSUME NEW w \in Workers, Step(w) PROVE IInv'
  BY <1>1, StepIsSafe
<1>2. ASSUME NEW w \in Workers, Crash(w) PROVE IInv'
  <2>1. budget' \in Budget /\ budget'.verdict = budget.verdict
    BY <1>2, <1>a, ExportsAssumption DEF Crash, Spend, Budget
  <2> QED BY <1>2, <2>1, DyingIsSafe DEF Crash, Dies, IInv, TypeOK
<1>3. ASSUME NEW w \in Workers, NEW x \in Exports, Take(w, x) PROVE IInv'
  BY <1>3, TakingIsSafe
<1>4. ASSUME NEW x \in Exports, Enqueue(x) \/ Forget(x) PROVE IInv'
  <2> DEFINE B(state) == [bull[x] EXCEPT !.state = state]
  <2>1. bull[x] \in BullJob
    BY DEF IInv, TypeOK
  <2>2. \A state \in {"waiting", "removed"} :
          /\ B(state) \in BullJob /\ B(state).state = state
          /\ B(state).runs = bull[x].runs /\ B(state).stalls = bull[x].stalls
    BY <2>1 DEF BullJob
  <2>3. PICK state \in {"waiting", "removed"} :
          /\ bull' = [bull EXCEPT ![x] = B(state)]
          /\ bull[x].state \in {"none", "completed", "failed"}
          /\ state = "waiting" => bull[x].state = "none"
    BY <1>4 DEF Enqueue, Forget
  <2>4. UNCHANGED <<run, objects, result, poll, budget, lapsed, outages>>
    BY <1>4 DEF Enqueue, Forget
  <2>5. B(state).holder = bull[x].holder
    BY <2>1 DEF BullJob
  <2>6. budget.verdict = MaxVerdicts => \A w \in Workers : run[w].pc # "idle" => run[w].job # x
    BY <2>3 DEF IInv, Held
  <2> DEFINE C == B(state)
  <2>7. /\ C \in BullJob /\ C.state = state /\ C.runs = bull[x].runs /\ C.holder = bull[x].holder
        /\ C.stalls = bull[x].stalls /\ bull' = [bull EXCEPT ![x] = C]
    BY <2>2, <2>3, <2>5
  <2>8. /\ C.runs <= 1 + C.stalls
        /\ state = "waiting" => C.runs <= C.stalls /\ C.stalls <= MaxStalls
    BY <2>3, <2>7 DEF IInv, Counts
  <2> HIDE DEF C, B
  <2> QED BY <1>a, <2>4, <2>6, <2>7, <2>8, JobChanges
<1>5. ASSUME NEW x \in Exports, StallDetected(x) PROVE IInv'
  BY <1>a, <1>5, PuttingBackIsSafe DEF StallDetected, Abandoned
<1>6. ASSUME NEW x \in Exports, FalseStall(x) PROVE IInv'
  <2>1. budget' \in Budget /\ budget'.verdict # MaxVerdicts
    BY <1>6, <1>a, ExportsAssumption DEF FalseStall, Spend, Budget
  <2> QED BY <1>6, <2>1, PuttingBackIsSafe DEF FalseStall
<1>7. ASSUME NEW x \in Exports, ResultExpires(x) PROVE IInv'
  BY <1>7, PollingIsSafe DEF ResultExpires, IInv, TypeOK
<1>8. ASSUME NEW x \in Exports, ReadResult(x) \/ ReadState(x) PROVE IInv'
  <2>1. poll' \in [Exports -> [asking : BOOLEAN, answer : {"pending", "ready", "failed"}]]
    <3> DEFINE Poll == [asking : BOOLEAN, answer : {"pending", "ready", "failed"}]
    <3>1. poll \in [Exports -> Poll] /\ poll[x] \in Poll
      BY DEF IInv, TypeOK
    <3>2. [poll[x] EXCEPT !.asking = TRUE] \in Poll
      BY <3>1
    <3>3. \A status \in {"pending", "ready", "failed"} : Answered(status) \in Poll
      BY DEF Answered
    <3>4. PICK p \in Poll : poll' = [poll EXCEPT ![x] = p]
      BY <1>8, <3>1, <3>2, <3>3 DEF ReadResult, ReadState
    <3> HIDE DEF Poll
    <3>5. poll' \in [Exports -> Poll]
      BY <3>1, <3>4
    <3> QED BY <3>5 DEF Poll
  <2> QED BY <1>8, <2>1, PollingIsSafe DEF ReadResult, ReadState
<1>9. CASE UNCHANGED vars
  BY <1>9 DEF vars, IInv, TypeOK, BullJob, Locals, Counts, Order, Held, Key,
              ReadyIsDownloadable, CompletedHasUrl
<1> QED BY <1>1, <1>2, <1>3, <1>4, <1>5, <1>6, <1>7, <1>8, <1>9 DEF Next

\* What a worker in the middle of a run owes holds in every state.
THEOREM Safety == Spec => []IInv
<1> QED BY InitIsSafe, NextIsSafe, PTL DEF Spec

\* The state keeps its type, and no two workers are ever in the same run.
THEOREM TypeCorrect == Spec => []TypeOK
BY Safety, PTL DEF IInv

\* Every URL that is handed out is one of a complete file.
THEOREM UrlsAreDownloadable == Spec => []ReadyIsDownloadable
BY Safety, PTL DEF IInv

\* An export shown as completed has, or has had, its URL.
THEOREM CompletedExportsHaveUrls == Spec => []CompletedHasUrl
BY Safety, PTL DEF IInv

\* An export is run once, and once more for each stall BullMQ allows.
THEOREM RunsOnlyAfterStalls == Spec => []RunsAreBounded
<1>1. IInv => RunsAreBounded
  BY DEF IInv, Counts, RunsAreBounded
<1> QED BY <1>1, Safety, PTL

\* The work of a failed export is not heard of again, unless a live worker was
\* taken for dead: until then nobody runs an export whose job is not its own.
THEOREM FailuresAreFinal == Spec => FailedStaysFailed
<1>1. ASSUME IInv, [Next]_vars
      PROVE  \A x \in Exports :
               bull[x].state = "failed" /\ result[x] = 0 /\ budget.verdict = MaxVerdicts
                 => result'[x] = 0
  <2> SUFFICES ASSUME NEW x \in Exports, bull[x].state = "failed", result[x] = 0,
                      budget.verdict = MaxVerdicts
               PROVE  result'[x] = 0
    OBVIOUS
  <2>1. \A w \in Workers : run[w].pc # "idle" => run[w].job # x
    BY <1>1 DEF IInv, Held
  <2>2. result \in [Exports -> Nat]
    BY <1>1 DEF IInv, TypeOK
  <2>3. ASSUME NEW w \in Workers, StoreResult(w) \/ StoreFails(w) PROVE result'[x] = 0
    BY <2>1, <2>2, <2>3 DEF StoreResult, StoreFails
  <2>4. ASSUME NEW y \in Exports, ResultExpires(y) PROVE result'[x] = 0
    BY <2>2, <2>4 DEF ResultExpires
  <2>5. CASE UNCHANGED result
    BY <2>5
  <2> QED BY <1>1, <2>3, <2>4, <2>5
          DEF Next, Step, Connect, ConnectFails, Stream, StreamFails, PartFails, Upload,
              UploadFails, Finish, Crash, Take, Enqueue, StallDetected, FalseStall, Forget,
              ReadResult, ReadState, vars
<1> QED BY <1>1, Safety, PTL DEF Spec, FailedStaysFailed
=============================================================================
