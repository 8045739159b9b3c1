------------------------ MODULE EnrichmentRelayProofs ------------------------
(***************************************************************************)
(* Proofs about EnrichmentRelay, for any number of instances, rows, jobs   *)
(* and interruptions and any claim limit.                                  *)
(***************************************************************************)
EXTENDS EnrichmentRelay, TLAPS

\* What a worker that has taken a row has already achieved for it.
RowProgress ==
  \A w \in Workers :
    /\ relay[w].pc \in Holding => relay[w].row \in attempted
    /\ relay[w].pc \in {"read", "rescore"} => outbox[relay[w].row].company \in priced
    /\ relay[w].pc = "ack" =>
         relay[w].row \in unknown \/ outbox[relay[w].row].company \in priced

\* A score in a worker's hands is one that was stored.
HeldScore == \A w \in Workers : relay[w].pc = "rescore" => relay[w].score \in 60..Cap

\* Where w's bonus for a row may stand: not given before w writes it, and then
\* given once, until the row is marked.
CreditOf(w) ==
  /\ \A r \in credit[w] :
       /\ r \in DOMAIN outbox
       /\ outbox[r].processed \/ (relay[w].pc = "ack" /\ relay[w].row = r)
  /\ \A r \in relay[w].batch : r \notin credit[w]
  /\ relay[w].pc \in {"company", "read", "rescore"} => relay[w].row \notin credit[w]
  /\ relay[w].pc \in Holding => relay[w].row \notin relay[w].batch
  /\ relay[w].pc \in {"idle", "claim"} => relay[w].batch = {}

CreditPlace == \A w \in Workers : CreditOf(w)

\* Of a row in a worker's hands, another holds it too, or has given its bonus,
\* only if the two have held it at once.
SharedPlace ==
  \A w, v \in Workers : \A r \in Held(w) :
    v # w /\ (r \in Held(v) \/ r \in credit[v]) => r \in shared

-----------------------------------------------------------------------------
\* One worker's locals change, to locals L whose rows are in the outbox.
LEMMA LocalsChange ==
  ASSUME RelaysOK, NEW w \in Workers, NEW L \in Locals,
         relay' = [relay EXCEPT ![w] = L],
         L.batch \subseteq DOMAIN outbox', L.pc \in Holding => L.row \in DOMAIN outbox',
         DOMAIN outbox \subseteq DOMAIN outbox'
  PROVE  RelaysOK'
<1>1. relay' \in [Workers -> Locals]
  BY DEF RelaysOK
<1>2. ASSUME NEW v \in Workers
      PROVE  /\ relay'[v].batch \subseteq DOMAIN outbox'
             /\ relay'[v].pc \in Holding => relay'[v].row \in DOMAIN outbox'
  <2>1. CASE v = w
    BY <2>1 DEF RelaysOK
  <2>2. CASE v # w
    <3>1. relay'[v] = relay[v]
      BY <2>2 DEF RelaysOK
    <3> QED BY <3>1 DEF RelaysOK
  <2> QED BY <2>1, <2>2
<1> QED BY <1>1, <1>2 DEF RelaysOK

\* The rows of the outbox are numbered from one.
LEMMA RowNumbers ==
  TablesOK => DOMAIN outbox = 1..Len(outbox) /\ Len(outbox) \in Nat /\ DOMAIN outbox \subseteq Nat
BY DEF TablesOK

\* A worker takes row r out of its batch.
LEMMA TakeRow ==
  ASSUME NEW l \in Locals, NEW pc \in {"company", "ack"}, NEW r \in Nat,
         NEW batch \in SUBSET Nat
  PROVE  [l EXCEPT !.pc = pc, !.row = r, !.batch = batch] \in Locals
BY Zenon DEF Locals

\* A worker has written the score.
LEMMA Rescored ==
  ASSUME NEW l \in Locals, NEW score \in Int
  PROVE  /\ [l EXCEPT !.pc = "ack", !.score = score] \in Locals
         /\ [l EXCEPT !.pc = "ack", !.score = score].row = l.row
         /\ [l EXCEPT !.pc = "ack", !.score = score].batch = l.batch
BY Zenon DEF Locals

\* The locals of a worker between two runs.
LEMMA IdleIsLocals == Idle \in Locals /\ Idle.batch = {} /\ Idle.pc \notin Holding
BY DEF Idle, Locals, Holding

\* A bound on the rows takes behaviours away: what holds of Spec holds of FairSpec.
LEMMA BoundIsOnlyABound == FairSpec => Spec
<1>1. BoundedNext => Next
  BY DEF BoundedNext, Next
<1> QED BY <1>1, PTL DEF FairSpec, Spec

-----------------------------------------------------------------------------
\* The state keeps its type: rows name stored jobs, workers hold rows of the outbox.
THEOREM TypeCorrect == Spec => []TypeOK
<1>1. Init => TypeOK
  BY DEF Init, RelayInit, TypeOK, TablesOK, RelaysOK, HistoryOK, Idle, Locals, Holding
<1>2. TypeOK /\ [Next]_vars => TypeOK'
  <2> SUFFICES ASSUME TypeOK, [Next]_vars PROVE TypeOK'
    OBVIOUS
  <2>a. DOMAIN outbox \subseteq Nat
    BY RowNumbers DEF TypeOK
  <2>1. ASSUME NEW w \in Workers, Claim(w) PROVE TypeOK'
    <3>1. PICK batch \in SUBSET Unprocessed : Takes(w, batch)
      BY <2>1 DEF Claim
    <3> DEFINE L == [relay[w] EXCEPT !.pc = "lookup", !.batch = batch]
    <3>2. L \in Locals /\ L.batch \subseteq DOMAIN outbox /\ L.pc \notin Holding
      <4>1. relay[w] \in Locals /\ batch \in SUBSET Nat /\ batch \subseteq DOMAIN outbox
        BY <2>a DEF TypeOK, RelaysOK, Unprocessed
      <4> QED BY <4>1 DEF Locals, Holding
    <3>3. UNCHANGED <<jobs, outbox, priced, interrupts, attempted, unknown, credit>>
      BY <2>1 DEF Claim
    <3>a. relay' = [relay EXCEPT ![w] = L]
      BY <3>1 DEF Takes
    <3>b. shared' \subseteq shared \cup batch
      BY <3>1 DEF Takes
    <3> HIDE DEF L
    <3>4. RelaysOK'
      BY <3>a, <3>2, <3>3, LocalsChange DEF TypeOK
    <3>5. HistoryOK'
      BY <3>3, <3>b DEF TypeOK, HistoryOK, Unprocessed
    <3> QED BY <3>3, <3>4, <3>5 DEF TypeOK, TablesOK
  <2>b. ASSUME NEW w \in Workers, Start(w) PROVE TypeOK'
    <3> DEFINE L == [relay[w] EXCEPT !.pc = "claim"]
    <3>1. L \in Locals /\ L.batch \subseteq DOMAIN outbox /\ L.pc \notin Holding
      BY DEF TypeOK, RelaysOK, Locals, Holding
    <3>2. RelaysOK'
      BY <2>b, <3>1, LocalsChange DEF TypeOK, Start
    <3> QED BY <2>b, <3>2 DEF Start, TypeOK, TablesOK, HistoryOK, history
  <2>c. ASSUME NEW w \in Workers, ClaimRefused(w) PROVE TypeOK'
    <3>1. RelaysOK'
      BY <2>c, LocalsChange, IdleIsLocals DEF TypeOK, ClaimRefused
    <3> QED BY <2>c, <3>1 DEF ClaimRefused, TypeOK, TablesOK, HistoryOK, history
  <2>2. ASSUME NEW w \in Workers, Lookup(w) PROVE TypeOK'
    <3>1. PICK r \in relay[w].batch, pc \in {"company", "ack"} :
            /\ relay' = [relay EXCEPT ![w] = [@ EXCEPT !.pc = pc, !.row = r, !.batch = relay[w].batch \ {r}]]
            /\ attempted' = attempted \cup {r}
            /\ unknown' = IF pc = "ack" THEN unknown \cup {r} ELSE unknown
      BY <2>2 DEF Lookup
    <3> DEFINE L == [relay[w] EXCEPT !.pc = pc, !.row = r, !.batch = relay[w].batch \ {r}]
    <3>a. /\ relay[w] \in Locals /\ relay[w].batch \subseteq DOMAIN outbox
          /\ r \in DOMAIN outbox /\ r \in Nat
          /\ relay[w].batch \ {r} \in SUBSET Nat
      BY <2>a DEF TypeOK, RelaysOK
    <3>2. L \in Locals /\ L.batch = relay[w].batch \ {r} /\ L.row = r
      <4>1. pc \in {"company", "ack"} /\ r \in Nat /\ relay[w].batch \ {r} \in SUBSET Nat
        BY <3>a
      <4>2. relay[w] \in Locals
        BY <3>a
      <4>3. L \in Locals
        BY <4>1, <4>2, TakeRow, Zenon
      <4>4. L.batch = relay[w].batch \ {r}
        BY <4>2, Zenon DEF Locals
      <4>5. L.row = r
        BY <4>2, Zenon DEF Locals
      <4> QED BY <4>3, <4>4, <4>5
    <3>3. UNCHANGED <<jobs, outbox, priced, interrupts, credit, shared>>
      BY <2>2 DEF Lookup
    <3>b. relay' = [relay EXCEPT ![w] = L]
      BY <3>1
    <3> HIDE DEF L
    <3>4. RelaysOK'
      BY <3>b, <3>2, <3>3, <3>a, LocalsChange DEF TypeOK
    <3> QED BY <3>1, <3>3, <3>4 DEF TypeOK, TablesOK, HistoryOK, RelaysOK
  <2>3. ASSUME NEW w \in Workers, UpdateCompany(w) PROVE TypeOK'
    <3> DEFINE L == [relay[w] EXCEPT !.pc = "read"]
    <3>1. L \in Locals /\ L.batch \subseteq DOMAIN outbox /\ L.row \in DOMAIN outbox
      BY <2>3 DEF UpdateCompany, TypeOK, RelaysOK, Locals, Holding
    <3>2. outbox[relay[w].row].company \in Companies
      <4>1. outbox[relay[w].row] \in OutboxRow
        BY <2>3 DEF UpdateCompany, TypeOK, RelaysOK, TablesOK, Holding
      <4> QED BY <4>1 DEF OutboxRow
    <3>3. RelaysOK'
      BY <2>3, <3>1, LocalsChange DEF TypeOK, UpdateCompany
    <3> QED BY <2>3, <3>2, <3>3 DEF UpdateCompany, TypeOK, TablesOK, HistoryOK, history
  <2>4. ASSUME NEW w \in Workers, ReadJob(w) PROVE TypeOK'
    <3> DEFINE score == jobs[outbox[relay[w].row].job].score
               L == [relay[w] EXCEPT !.pc = "rescore", !.score = score]
    <3>1. score \in Int
      BY <2>4 DEF ReadJob, TypeOK, RelaysOK, TablesOK, OutboxRow, JobRow, Holding
    <3>2. L \in Locals /\ L.batch \subseteq DOMAIN outbox /\ L.row \in DOMAIN outbox
      BY <2>4, <3>1 DEF ReadJob, TypeOK, RelaysOK, Locals, Holding
    <3>3. RelaysOK'
      BY <2>4, <3>2, LocalsChange DEF TypeOK, ReadJob
    <3> QED BY <2>4, <3>3 DEF ReadJob, TypeOK, TablesOK, HistoryOK, history
  <2>5. ASSUME NEW w \in Workers, Rescore(w) PROVE TypeOK'
    <3> DEFINE L == [relay[w] EXCEPT !.pc = "ack", !.score = 0]
               u == outbox[relay[w].row].job
    <3>a. relay[w] \in Locals
      BY DEF TypeOK, RelaysOK
    <3>b. relay[w].batch \subseteq DOMAIN outbox /\ relay[w].row \in DOMAIN outbox
      BY <2>5 DEF Rescore, TypeOK, RelaysOK, Holding
    <3>1. L \in Locals /\ L.batch = relay[w].batch /\ L.row = relay[w].row
      <4>1. 0 \in Int
        OBVIOUS
      <4> QED BY <3>a, <4>1, Rescored, Zenon
    <3>2. RelaysOK'
      BY <2>5, <3>1, <3>b, LocalsChange DEF TypeOK, Rescore
    <3>3. u \in DOMAIN jobs /\ Capped(relay[w].score + Bonus) \in Int
      BY <2>5 DEF Rescore, TypeOK, RelaysOK, TablesOK, Locals, Holding, Capped, Cap, Bonus
    <3>4. DOMAIN jobs' = DOMAIN jobs /\ jobs' \in [DOMAIN jobs -> JobRow]
      BY <2>5, <3>3 DEF Rescore, TypeOK, TablesOK, JobRow
    <3>5. HistoryOK'
      BY <2>5, <3>b DEF Rescore, TypeOK, HistoryOK
    <3> QED BY <2>5, <3>2, <3>4, <3>5 DEF Rescore, TypeOK, TablesOK
  <2>6. ASSUME NEW w \in Workers, Ack(w) PROVE TypeOK'
    <3> DEFINE L == IF relay[w].batch = {} THEN Idle
                    ELSE [Idle EXCEPT !.pc = "lookup", !.batch = relay[w].batch]
               r == relay[w].row
    <3>1. L \in Locals /\ L.batch \subseteq DOMAIN outbox /\ L.pc \notin Holding
      BY IdleIsLocals DEF TypeOK, RelaysOK, Locals, Idle, Holding
    <3>2. r \in DOMAIN outbox
      BY <2>6 DEF Ack, TypeOK, RelaysOK, Holding
    <3>a. outbox[r] \in OutboxRow /\ [outbox[r] EXCEPT !.processed = TRUE] \in OutboxRow
      <4>1. outbox[r] \in OutboxRow
        BY <3>2 DEF TypeOK, TablesOK
      <4> QED BY <4>1 DEF OutboxRow
    <3>b. outbox' = [outbox EXCEPT ![r] = [outbox[r] EXCEPT !.processed = TRUE]]
      BY <2>6 DEF Ack
    <3>3. outbox' \in Seq(OutboxRow) /\ Len(outbox') = Len(outbox)
      BY <3>2, <3>a, <3>b DEF TypeOK, TablesOK
    <3>4. DOMAIN outbox' = DOMAIN outbox /\ \A q \in DOMAIN outbox : outbox'[q].job = outbox[q].job
      BY <2>6, <3>2, <3>3 DEF Ack, TypeOK, TablesOK, OutboxRow
    <3>5. RelaysOK'
      BY <2>6, <3>1, <3>4, LocalsChange DEF TypeOK, Ack
    <3> QED BY <2>6, <3>3, <3>4, <3>5 DEF Ack, TypeOK, TablesOK, HistoryOK, history
  <2>7. ASSUME NEW w \in Workers, Interrupt(w) PROVE TypeOK'
    <3>1. RelaysOK'
      BY <2>7, LocalsChange, IdleIsLocals DEF TypeOK, Interrupt
    <3>2. HistoryOK'
      BY <2>7 DEF Interrupt, TypeOK, HistoryOK
    <3> QED BY <2>7, <3>1, <3>2 DEF Interrupt, TypeOK, TablesOK
  <2>8. ASSUME NEW u \in Urls, NEW c \in Companies, NEW s \in ScrapeScores, Scrape(u, c, s)
        PROVE TypeOK'
    <3> DEFINE row == [job |-> u, company |-> c, processed |-> FALSE]
    <3>1. row \in OutboxRow /\ s \in Int
      BY DEF OutboxRow, ScrapeScores
    <3>2. /\ outbox' \in Seq(OutboxRow) /\ Len(outbox') = Len(outbox) + 1
          /\ DOMAIN outbox' = DOMAIN outbox \cup {Len(outbox) + 1}
          /\ \A r \in DOMAIN outbox : outbox'[r] = outbox[r]
          /\ outbox'[Len(outbox) + 1] = row
      <4>1. outbox \in Seq(OutboxRow) /\ outbox' = Append(outbox, row)
        BY <2>8 DEF Scrape, TypeOK, TablesOK
      <4> HIDE DEF row
      <4> QED BY <3>1, <4>1
    <3>3. DOMAIN jobs' = DOMAIN jobs \cup {u} /\ jobs' \in [DOMAIN jobs' -> JobRow]
      BY <2>8, <3>1 DEF Scrape, TypeOK, TablesOK, JobRow
    <3>4. \A r \in DOMAIN outbox' : outbox'[r].job \in DOMAIN jobs'
      BY <3>2, <3>3 DEF TypeOK, TablesOK
    <3>5. TablesOK'
      BY <2>8, <3>2, <3>3, <3>4 DEF Scrape, TypeOK, TablesOK
    <3>6. RelaysOK' /\ HistoryOK'
      BY <2>8, <3>2 DEF Scrape, TypeOK, RelaysOK, HistoryOK, history
    <3> QED BY <3>5, <3>6 DEF TypeOK
  <2>9. CASE UNCHANGED vars
    BY <2>9 DEF vars, TypeOK, TablesOK, RelaysOK, HistoryOK, history
  <2> QED
    BY <2>1, <2>b, <2>c, <2>2, <2>3, <2>4, <2>5, <2>6, <2>7, <2>8, <2>9 DEF Next, RelayStep
<1> QED BY <1>1, <1>2, PTL DEF Spec

-----------------------------------------------------------------------------
\* What each step of a worker leaves in its locals; the others' stay.
Others(w) == \A v \in Workers : v # w => relay'[v] = relay[v]

LEMMA StartEffect ==
  ASSUME TypeOK, NEW w \in Workers, Start(w)
  PROVE  /\ relay[w].pc = "idle" /\ Others(w)
         /\ relay'[w].pc = "claim" /\ relay'[w].batch = relay[w].batch
<1> DEFINE L == [relay[w] EXCEPT !.pc = "claim"]
<1>1. relay[w] \in Locals
  BY DEF TypeOK, RelaysOK
<1>2. L.pc = "claim" /\ L.batch = relay[w].batch
  BY <1>1, Zenon DEF Locals
<1>3. relay' = [relay EXCEPT ![w] = L] /\ relay[w].pc = "idle"
  BY DEF Start
<1> HIDE DEF L
<1>4. relay'[w] = L /\ Others(w)
  BY <1>3 DEF TypeOK, RelaysOK, Others
<1> QED BY <1>2, <1>3, <1>4

LEMMA ClaimEffect ==
  ASSUME TypeOK, NEW w \in Workers, Claim(w)
  PROVE  /\ relay[w].pc = "claim" /\ Others(w)
         /\ relay'[w].pc = "lookup" /\ relay'[w].batch \subseteq Unprocessed
         /\ shared \subseteq shared'
         /\ \A v \in Workers : \A r \in relay'[w].batch :
              v # w /\ r \in Held(v) => r \in shared'
<1>1. PICK batch \in SUBSET Unprocessed : Takes(w, batch)
  BY DEF Claim
<1> DEFINE L == [relay[w] EXCEPT !.pc = "lookup", !.batch = batch]
<1>2. relay[w] \in Locals
  BY DEF TypeOK, RelaysOK
<1>3. L.pc = "lookup" /\ L.batch = batch
  BY <1>2, Zenon DEF Locals
<1>4. relay' = [relay EXCEPT ![w] = L]
  BY <1>1 DEF Takes
<1> HIDE DEF L
<1>5. relay'[w] = L /\ Others(w)
  BY <1>4 DEF TypeOK, RelaysOK, Others
<1>6. shared' = shared \cup {r \in batch : \E v \in Workers \ {w} : r \in Held(v)}
  BY <1>1 DEF Takes
<1> QED BY <1>3, <1>5, <1>6 DEF Claim

LEMMA ClaimRefusedEffect ==
  ASSUME TypeOK, NEW w \in Workers, ClaimRefused(w)
  PROVE  Others(w) /\ relay'[w].pc = "idle" /\ relay'[w].batch = {}
BY DEF ClaimRefused, TypeOK, RelaysOK, Others, Idle

LEMMA LookupEffect ==
  ASSUME TypeOK, NEW w \in Workers, Lookup(w)
  PROVE  /\ relay[w].pc = "lookup" /\ Others(w)
         /\ \E r \in relay[w].batch :
              /\ relay'[w].row = r /\ relay'[w].batch = relay[w].batch \ {r}
              /\ attempted' = attempted \cup {r}
              /\ \/ relay'[w].pc = "company" /\ unknown' = unknown
                 \/ relay'[w].pc = "ack" /\ unknown' = unknown \cup {r}
<1>1. PICK r \in relay[w].batch, pc \in {"company", "ack"} :
        /\ relay' = [relay EXCEPT ![w] =
                       [relay[w] EXCEPT !.pc = pc, !.row = r, !.batch = relay[w].batch \ {r}]]
        /\ attempted' = attempted \cup {r}
        /\ unknown' = IF pc = "ack" THEN unknown \cup {r} ELSE unknown
  BY DEF Lookup
<1> DEFINE L == [relay[w] EXCEPT !.pc = pc, !.row = r, !.batch = relay[w].batch \ {r}]
<1>2. relay[w] \in Locals
  BY DEF TypeOK, RelaysOK
<1>3. L.pc = pc
  BY <1>2, Zenon DEF Locals
<1>4. L.row = r
  BY <1>2, Zenon DEF Locals
<1>5. L.batch = relay[w].batch \ {r}
  BY <1>2, Zenon DEF Locals
<1> HIDE DEF L
<1>6. relay'[w] = L /\ Others(w)
  BY <1>1 DEF TypeOK, RelaysOK, Others, L
<1>7. relay[w].pc = "lookup"
  BY DEF Lookup
<1>8. \/ relay'[w].pc = "company" /\ unknown' = unknown
      \/ relay'[w].pc = "ack" /\ unknown' = unknown \cup {r}
  BY <1>1, <1>3, <1>6
<1> QED BY <1>1, <1>4, <1>5, <1>6, <1>7, <1>8

LEMMA UpdateCompanyEffect ==
  ASSUME TypeOK, NEW w \in Workers, UpdateCompany(w)
  PROVE  /\ relay[w].pc = "company" /\ Others(w)
         /\ relay'[w].pc = "read"
         /\ relay'[w].row = relay[w].row /\ relay'[w].batch = relay[w].batch
<1> DEFINE L == [relay[w] EXCEPT !.pc = "read"]
<1>1. relay[w] \in Locals
  BY DEF TypeOK, RelaysOK
<1>2. L.pc = "read" /\ L.row = relay[w].row /\ L.batch = relay[w].batch
  BY <1>1, Zenon DEF Locals
<1>3. relay' = [relay EXCEPT ![w] = L] /\ relay[w].pc = "company"
  BY DEF UpdateCompany
<1> HIDE DEF L
<1>4. relay'[w] = L /\ Others(w)
  BY <1>3 DEF TypeOK, RelaysOK, Others
<1> QED BY <1>2, <1>3, <1>4

LEMMA ReadJobEffect ==
  ASSUME TypeOK, NEW w \in Workers, ReadJob(w)
  PROVE  /\ relay[w].pc = "read" /\ Others(w)
         /\ relay'[w].pc = "rescore"
         /\ relay'[w].score = jobs[outbox[relay[w].row].job].score
         /\ relay'[w].row = relay[w].row /\ relay'[w].batch = relay[w].batch
<1> DEFINE score == jobs[outbox[relay[w].row].job].score
           L == [relay[w] EXCEPT !.pc = "rescore", !.score = score]
<1>1. relay[w] \in Locals
  BY DEF TypeOK, RelaysOK
<1>2. L.pc = "rescore" /\ L.row = relay[w].row /\ L.batch = relay[w].batch
  BY <1>1, Zenon DEF Locals
<1>3. L.score = score
  BY <1>1, Zenon DEF Locals
<1>4. relay' = [relay EXCEPT ![w] = L] /\ relay[w].pc = "read"
  BY DEF ReadJob
<1> HIDE DEF L
<1>5. relay'[w] = L /\ Others(w)
  BY <1>4 DEF TypeOK, RelaysOK, Others
<1> QED BY <1>2, <1>3, <1>4, <1>5

LEMMA RescoreEffect ==
  ASSUME TypeOK, NEW w \in Workers, Rescore(w)
  PROVE  /\ relay[w].pc = "rescore" /\ Others(w)
         /\ relay'[w].pc = "ack"
         /\ relay'[w].row = relay[w].row /\ relay'[w].batch = relay[w].batch
<1> DEFINE L == [relay[w] EXCEPT !.pc = "ack", !.score = 0]
<1>1. relay[w] \in Locals
  BY DEF TypeOK, RelaysOK
<1>2. L.pc = "ack" /\ L.row = relay[w].row /\ L.batch = relay[w].batch
  BY <1>1, Zenon DEF Locals
<1>3. relay' = [relay EXCEPT ![w] = L] /\ relay[w].pc = "rescore"
  BY DEF Rescore
<1> HIDE DEF L
<1>4. relay'[w] = L /\ Others(w)
  BY <1>3 DEF TypeOK, RelaysOK, Others
<1> QED BY <1>2, <1>3, <1>4

LEMMA AckEffect ==
  ASSUME TypeOK, NEW w \in Workers, Ack(w)
  PROVE  /\ relay[w].pc = "ack" /\ Others(w)
         /\ relay'[w].pc \in {"idle", "lookup"} /\ relay'[w].batch = relay[w].batch
         /\ relay'[w].pc = "idle" => relay'[w].batch = {}
         /\ DOMAIN outbox' = DOMAIN outbox /\ Len(outbox') = Len(outbox)
         /\ \A r \in DOMAIN outbox :
              /\ outbox'[r].job = outbox[r].job /\ outbox'[r].company = outbox[r].company
              /\ outbox'[r].processed <=> (outbox[r].processed \/ r = relay[w].row)
<1> DEFINE L == IF relay[w].batch = {} THEN Idle
                ELSE [Idle EXCEPT !.pc = "lookup", !.batch = relay[w].batch]
           r == relay[w].row
<1>1. /\ L.pc \in {"idle", "lookup"} /\ L.batch = relay[w].batch
      /\ L.pc = "idle" => L.batch = {}
  BY DEF Idle
<1>2. relay' = [relay EXCEPT ![w] = L] /\ relay[w].pc = "ack"
  BY DEF Ack
<1> HIDE DEF L
<1>3. relay'[w] = L /\ Others(w)
  BY <1>2 DEF TypeOK, RelaysOK, Others
<1>4. r \in DOMAIN outbox
  BY <1>2 DEF TypeOK, RelaysOK, Holding
<1>5. outbox' = [outbox EXCEPT ![r] = [outbox[r] EXCEPT !.processed = TRUE]]
  BY DEF Ack
<1>6. outbox \in Seq(OutboxRow)
  BY DEF TypeOK, TablesOK
<1>7. DOMAIN outbox' = DOMAIN outbox /\ Len(outbox') = Len(outbox)
  BY <1>4, <1>5, <1>6
<1>8. ASSUME NEW q \in DOMAIN outbox
      PROVE  /\ outbox'[q].job = outbox[q].job /\ outbox'[q].company = outbox[q].company
             /\ outbox'[q].processed <=> (outbox[q].processed \/ q = r)
  <2>1. outbox[q] \in OutboxRow
    BY <1>6
  <2>2. CASE q = r
    BY <1>4, <1>5, <1>6, <2>1, <2>2, Zenon DEF OutboxRow
  <2>3. CASE q # r
    BY <1>4, <1>5, <1>6, <2>1, <2>3
  <2> QED BY <2>2, <2>3
<1> QED BY <1>1, <1>2, <1>3, <1>7, <1>8

LEMMA InterruptEffect ==
  ASSUME TypeOK, NEW w \in Workers, Interrupt(w)
  PROVE  Others(w) /\ relay'[w].pc = "idle" /\ relay'[w].batch = {}
BY DEF Interrupt, TypeOK, RelaysOK, Others, Idle

LEMMA ScrapeEffect ==
  ASSUME TypeOK, NEW u \in Urls, NEW c \in Companies, NEW s \in ScrapeScores, Scrape(u, c, s)
  PROVE  /\ Len(outbox) + 1 \notin DOMAIN outbox
         /\ DOMAIN outbox' = DOMAIN outbox \cup {Len(outbox) + 1}
         /\ Len(outbox') = Len(outbox) + 1
         /\ \A r \in DOMAIN outbox : outbox'[r] = outbox[r]
         /\ outbox'[Len(outbox) + 1].processed = FALSE
<1>1. outbox \in Seq(OutboxRow)
  BY DEF TypeOK, TablesOK
<1> DEFINE row == [job |-> u, company |-> c, processed |-> FALSE]
<1>2. row \in OutboxRow /\ row.processed = FALSE
  BY DEF OutboxRow
<1>3. outbox' = Append(outbox, row)
  BY DEF Scrape
<1> HIDE DEF row
<1> QED BY <1>1, <1>2, <1>3

-----------------------------------------------------------------------------
\* The inductive invariant: the type of the state and what the workers have in
\* their hands.  ScoreInRange needs HeldScore, because a score is written from
\* a read that another worker or a scrape may have overtaken; NoEnrichmentLost
\* needs RowProgress, because a row is marked steps after its lookup.
IInv == ScoreInRange /\ HeldScore /\ RowProgress /\ NoEnrichmentLost

LEMMA HandsStep ==
  ASSUME TypeOK, TypeOK', IInv, [Next]_vars
  PROVE  IInv'
<1>a. DOMAIN outbox \subseteq Nat /\ Len(outbox) \in Nat
  BY RowNumbers DEF TypeOK
<1>b. \A w \in Workers : relay[w].batch \subseteq DOMAIN outbox
  BY DEF TypeOK, RelaysOK
<1>c. \A w \in Workers : relay[w].pc \in Holding => relay[w].row \in DOMAIN outbox
  BY DEF TypeOK, RelaysOK
<1>1. ASSUME NEW w \in Workers, Claim(w) PROVE IInv'
  <2>1. UNCHANGED <<jobs, outbox, priced, attempted, unknown>>
    BY <1>1 DEF Claim
  <2>2. ScoreInRange' /\ NoEnrichmentLost'
    BY <2>1 DEF IInv, ScoreInRange, NoEnrichmentLost
  <2>3. HeldScore' /\ RowProgress'
    BY <1>1, <2>1, ClaimEffect DEF IInv, HeldScore, RowProgress, Others, Holding
  <2> QED BY <2>2, <2>3 DEF IInv
<1>d. ASSUME NEW w \in Workers, Start(w) \/ ClaimRefused(w) PROVE IInv'
  <2>1. UNCHANGED <<jobs, outbox, priced, attempted, unknown>>
    BY <1>d DEF Start, ClaimRefused, history
  <2>2. ScoreInRange' /\ NoEnrichmentLost'
    BY <2>1 DEF IInv, ScoreInRange, NoEnrichmentLost
  <2>3. HeldScore' /\ RowProgress'
    BY <1>d, <2>1, StartEffect, ClaimRefusedEffect DEF IInv, HeldScore, RowProgress, Others, Holding
  <2> QED BY <2>2, <2>3 DEF IInv
<1>2. ASSUME NEW w \in Workers, Lookup(w) PROVE IInv'
  <2>1. UNCHANGED <<jobs, outbox, priced>>
    BY <1>2 DEF Lookup
  <2>2. ScoreInRange' /\ NoEnrichmentLost'
    BY <1>2, <2>1, LookupEffect DEF IInv, ScoreInRange, NoEnrichmentLost
  <2>3. HeldScore' /\ RowProgress'
    BY <1>2, <2>1, LookupEffect DEF IInv, HeldScore, RowProgress, Others, Holding
  <2> QED BY <2>2, <2>3 DEF IInv
<1>3. ASSUME NEW w \in Workers, UpdateCompany(w) PROVE IInv'
  <2>1. UNCHANGED <<jobs, outbox, attempted, unknown>>
    BY <1>3 DEF UpdateCompany, history
  <2>2. priced' = priced \cup {outbox[relay[w].row].company}
    BY <1>3 DEF UpdateCompany
  <2>3. ScoreInRange' /\ NoEnrichmentLost'
    BY <2>1, <2>2 DEF IInv, ScoreInRange, NoEnrichmentLost
  <2>4. HeldScore' /\ RowProgress'
    BY <1>3, <2>1, <2>2, UpdateCompanyEffect DEF IInv, HeldScore, RowProgress, Others, Holding
  <2> QED BY <2>3, <2>4 DEF IInv
<1>4. ASSUME NEW w \in Workers, ReadJob(w) PROVE IInv'
  <2>1. UNCHANGED <<jobs, outbox, priced, attempted, unknown>>
    BY <1>4 DEF ReadJob, history
  <2>2. ScoreInRange' /\ NoEnrichmentLost'
    BY <2>1 DEF IInv, ScoreInRange, NoEnrichmentLost
  <2>3. relay[w].row \in DOMAIN outbox
    BY <1>4, <1>c, ReadJobEffect DEF Holding
  <2>4. outbox[relay[w].row].job \in DOMAIN jobs
    BY <2>3 DEF TypeOK, TablesOK
  <2>5. HeldScore'
    BY <1>4, <2>4, ReadJobEffect DEF IInv, HeldScore, ScoreInRange, Others
  <2>6. RowProgress'
    BY <1>4, <2>1, ReadJobEffect DEF IInv, RowProgress, Others, Holding
  <2> QED BY <2>2, <2>5, <2>6 DEF IInv
<1>5. ASSUME NEW w \in Workers, Rescore(w) PROVE IInv'
  <2>1. UNCHANGED <<outbox, priced, attempted, unknown>>
    BY <1>5 DEF Rescore
  <2>2. NoEnrichmentLost'
    BY <2>1 DEF IInv, NoEnrichmentLost
  <2>3. relay[w].score \in 60..Cap /\ relay[w].pc = "rescore"
    BY <1>5, RescoreEffect DEF IInv, HeldScore
  <2> DEFINE u == outbox[relay[w].row].job
             score == Capped(relay[w].score + Bonus)
  <2>4. score \in 60..Cap
    BY <2>3 DEF Capped, Cap, Bonus
  <2>5. jobs' = [jobs EXCEPT ![u] = [jobs[u] EXCEPT !.score = score]]
    BY <1>5 DEF Rescore
  <2>6. jobs \in [DOMAIN jobs -> JobRow]
    BY DEF TypeOK, TablesOK
  <2> HIDE DEF u, score
  <2>7. DOMAIN jobs' = DOMAIN jobs
    BY <2>5, <2>6
  <2>8. ASSUME NEW v \in DOMAIN jobs PROVE jobs'[v].score \in 60..Cap
    <3>1. jobs[v] \in JobRow /\ jobs[v].score \in 60..Cap
      BY <2>6 DEF IInv, ScoreInRange
    <3>2. CASE v = u
      <4>1. jobs'[v] = [jobs[v] EXCEPT !.score = score]
        BY <2>5, <2>6, <3>2
      <4>2. [jobs[v] EXCEPT !.score = score].score = score
        BY <3>1, Zenon DEF JobRow
      <4> QED BY <2>4, <4>1, <4>2
    <3>3. CASE v # u
      BY <2>5, <2>6, <3>1, <3>3
    <3> QED BY <3>2, <3>3
  <2>9. ScoreInRange'
    BY <2>7, <2>8 DEF ScoreInRange
  <2>10. HeldScore' /\ RowProgress'
    BY <1>5, <2>1, RescoreEffect DEF IInv, HeldScore, RowProgress, Others, Holding
  <2> QED BY <2>2, <2>9, <2>10 DEF IInv
<1>6. ASSUME NEW w \in Workers, Ack(w) PROVE IInv'
  <2>1. UNCHANGED <<jobs, priced, attempted, unknown>>
    BY <1>6 DEF Ack, history
  <2>2. ScoreInRange'
    BY <2>1 DEF IInv, ScoreInRange
  <2>3. relay[w].row \in attempted
        /\ (relay[w].row \in unknown \/ outbox[relay[w].row].company \in priced)
    BY <1>6, AckEffect DEF IInv, RowProgress, Holding
  <2>4. NoEnrichmentLost'
    BY <1>6, <2>1, <2>3, AckEffect DEF IInv, NoEnrichmentLost
  <2>5. HeldScore' /\ RowProgress'
    BY <1>6, <1>c, <2>1, AckEffect DEF IInv, HeldScore, RowProgress, Others, Holding
  <2> QED BY <2>2, <2>4, <2>5 DEF IInv
<1>7. ASSUME NEW w \in Workers, Interrupt(w) PROVE IInv'
  <2>1. UNCHANGED <<jobs, outbox, priced, attempted, unknown>>
    BY <1>7 DEF Interrupt
  <2>2. ScoreInRange' /\ NoEnrichmentLost'
    BY <2>1 DEF IInv, ScoreInRange, NoEnrichmentLost
  <2>3. HeldScore' /\ RowProgress'
    BY <1>7, <2>1, InterruptEffect DEF IInv, HeldScore, RowProgress, Others, Holding
  <2> QED BY <2>2, <2>3 DEF IInv
<1>8. ASSUME NEW u \in Urls, NEW c \in Companies, NEW s \in ScrapeScores, Scrape(u, c, s)
      PROVE  IInv'
  <2>1. UNCHANGED <<priced, relay, attempted, unknown>>
    BY <1>8 DEF Scrape, history
  <2>2. jobs' = [v \in DOMAIN jobs \cup {u} |->
                   IF v = u THEN [score |-> s, company |-> c] ELSE jobs[v]]
    BY <1>8 DEF Scrape
  <2>3. s \in 60..Cap
    BY DEF Cap, ScrapeScores
  <2>4. ScoreInRange'
    BY <2>2, <2>3 DEF IInv, ScoreInRange
  <2>5. HeldScore'
    BY <2>1 DEF IInv, HeldScore
  <2>6. RowProgress'
    BY <1>8, <1>c, <2>1, ScrapeEffect DEF IInv, RowProgress, Holding
  <2>7. NoEnrichmentLost'
    BY <1>8, <2>1, ScrapeEffect DEF IInv, NoEnrichmentLost
  <2> QED BY <2>4, <2>5, <2>6, <2>7 DEF IInv
<1>9. CASE UNCHANGED vars
  BY <1>9 DEF vars, history, IInv, ScoreInRange, HeldScore, RowProgress, NoEnrichmentLost
<1> QED
  BY <1>1, <1>d, <1>2, <1>3, <1>4, <1>5, <1>6, <1>7, <1>8, <1>9 DEF Next, RelayStep

LEMMA HandsInit == Init => IInv
BY DEF Init, RelayInit, Idle, IInv, ScoreInRange, HeldScore, RowProgress, NoEnrichmentLost, Holding

\* A stored score is never below the threshold and never above 100, however
\* relays and scrapes overwrite each other's scores.
THEOREM ScoresStayInRange == Spec => []ScoreInRange
<1>1. IInv => ScoreInRange
  BY DEF IInv
<1> QED BY <1>1, TypeCorrect, HandsInit, HandsStep, PTL DEF Spec

\* A row is marked only after its lookup, with its company priced if a salary
\* was found, whatever crashes and however many relays hold the row.
THEOREM EnrichmentIsNotLost == Spec => []NoEnrichmentLost
<1>1. IInv => NoEnrichmentLost
  BY DEF IInv
<1> QED BY <1>1, TypeCorrect, HandsInit, HandsStep, PTL DEF Spec

-----------------------------------------------------------------------------
\* Rows stay in the outbox, and stay marked.
OutboxGrows ==
  /\ DOMAIN outbox \subseteq DOMAIN outbox'
  /\ \A r \in DOMAIN outbox : outbox[r].processed => outbox'[r].processed

\* What another worker does to the outbox does not disturb v's bonuses.
LEMMA CreditStays ==
  ASSUME TypeOK, NEW v \in Workers, CreditOf(v), OutboxGrows,
         relay'[v] = relay[v], credit'[v] = credit[v]
  PROVE  CreditOf(v)'
BY DEF CreditOf, OutboxGrows

LEMMA CreditStep ==
  ASSUME TypeOK, TypeOK', CreditPlace, [Next]_vars
  PROVE  CreditPlace'
<1>a. DOMAIN outbox \subseteq Nat /\ Len(outbox) \in Nat
  BY RowNumbers DEF TypeOK
<1>b. \A w \in Workers : relay[w].batch \subseteq DOMAIN outbox
  BY DEF TypeOK, RelaysOK
<1>c. \A w \in Workers : relay[w].pc \in Holding => relay[w].row \in DOMAIN outbox
  BY DEF TypeOK, RelaysOK
<1>d. credit \in [Workers -> SUBSET DOMAIN outbox]
  BY DEF TypeOK, HistoryOK
<1>1. ASSUME NEW w \in Workers, Claim(w) PROVE CreditPlace'
  <2>1. UNCHANGED <<outbox, credit>>
    BY <1>1 DEF Claim
  <2>2. CreditOf(w)'
    BY <1>1, <1>a, <2>1, ClaimEffect DEF CreditPlace, CreditOf, Unprocessed, Holding
  <2> QED BY <1>1, <2>1, <2>2, ClaimEffect, CreditStays DEF CreditPlace, Others, OutboxGrows
<1>e. ASSUME NEW w \in Workers, Start(w) PROVE CreditPlace'
  <2>1. UNCHANGED <<outbox, credit>>
    BY <1>e DEF Start, history
  <2>2. CreditOf(w)'
    BY <1>e, <2>1, StartEffect DEF CreditPlace, CreditOf, Holding
  <2> QED BY <1>e, <2>1, <2>2, StartEffect, CreditStays DEF CreditPlace, Others, OutboxGrows
<1>f. ASSUME NEW w \in Workers, ClaimRefused(w) PROVE CreditPlace'
  <2>1. UNCHANGED <<outbox, credit>> /\ relay[w].pc = "claim"
    BY <1>f DEF ClaimRefused, history
  <2>2. CreditOf(w)'
    BY <1>f, <2>1, ClaimRefusedEffect DEF CreditPlace, CreditOf, Holding
  <2> QED BY <1>f, <2>1, <2>2, ClaimRefusedEffect, CreditStays DEF CreditPlace, Others, OutboxGrows
<1>2. ASSUME NEW w \in Workers, Lookup(w) PROVE CreditPlace'
  <2>1. UNCHANGED <<outbox, credit>>
    BY <1>2 DEF Lookup
  <2>2. CreditOf(w)'
    BY <1>2, <2>1, LookupEffect DEF CreditPlace, CreditOf, Holding
  <2> QED BY <1>2, <2>1, <2>2, LookupEffect, CreditStays DEF CreditPlace, Others, OutboxGrows
<1>3. ASSUME NEW w \in Workers, UpdateCompany(w) PROVE CreditPlace'
  <2>1. UNCHANGED <<outbox, credit>>
    BY <1>3 DEF UpdateCompany, history
  <2>2. CreditOf(w)'
    BY <1>3, <2>1, UpdateCompanyEffect DEF CreditPlace, CreditOf, Holding
  <2> QED BY <1>3, <2>1, <2>2, UpdateCompanyEffect, CreditStays DEF CreditPlace, Others, OutboxGrows
<1>4. ASSUME NEW w \in Workers, ReadJob(w) PROVE CreditPlace'
  <2>1. UNCHANGED <<outbox, credit>>
    BY <1>4 DEF ReadJob, history
  <2>2. CreditOf(w)'
    BY <1>4, <2>1, ReadJobEffect DEF CreditPlace, CreditOf, Holding
  <2> QED BY <1>4, <2>1, <2>2, ReadJobEffect, CreditStays DEF CreditPlace, Others, OutboxGrows
<1>5. ASSUME NEW w \in Workers, Rescore(w) PROVE CreditPlace'
  <2> DEFINE q == relay[w].row
  <2>1. UNCHANGED outbox /\ credit' = [credit EXCEPT ![w] = credit[w] \cup {q}]
    BY <1>5 DEF Rescore
  <2>2. q \in DOMAIN outbox /\ q \notin relay[w].batch
    BY <1>5, <1>c, RescoreEffect DEF CreditPlace, CreditOf, Holding
  <2>3. /\ credit'[w] = credit[w] \cup {q}
        /\ \A v \in Workers : v # w => credit'[v] = credit[v]
    BY <1>d, <2>1
  <2>4. CreditOf(w)'
    <3>1. /\ relay'[w].pc = "ack" /\ relay'[w].row = q /\ relay'[w].batch = relay[w].batch
          /\ relay[w].pc = "rescore"
      BY <1>5, RescoreEffect
    <3>2. CreditOf(w)
      BY DEF CreditPlace
    <3> QED BY <2>1, <2>2, <2>3, <3>1, <3>2 DEF CreditOf, Holding
  <2> QED BY <1>5, <2>1, <2>3, <2>4, RescoreEffect, CreditStays DEF CreditPlace, Others, OutboxGrows
<1>6. ASSUME NEW w \in Workers, Ack(w) PROVE CreditPlace'
  <2>1. UNCHANGED credit
    BY <1>6 DEF Ack, history
  <2>2. OutboxGrows
    BY <1>6, AckEffect DEF OutboxGrows
  <2>3. CreditOf(w)'
    <3>1. /\ relay[w].pc = "ack" /\ relay'[w].pc \in {"idle", "lookup"}
          /\ relay'[w].batch = relay[w].batch
          /\ relay'[w].pc = "idle" => relay'[w].batch = {}
          /\ DOMAIN outbox' = DOMAIN outbox
          /\ \A r \in DOMAIN outbox : outbox'[r].processed <=> (outbox[r].processed \/ r = relay[w].row)
      BY <1>6, AckEffect
    <3>2. CreditOf(w)
      BY DEF CreditPlace
    <3>3. \A r \in credit'[w] : r \in DOMAIN outbox' /\ outbox'[r].processed
      BY <2>1, <3>1, <3>2 DEF CreditOf
    <3>4. \A r \in relay'[w].batch : r \notin credit'[w]
      BY <2>1, <3>1, <3>2 DEF CreditOf
    <3>5. relay'[w].pc \notin Holding
      BY <3>1 DEF Holding
    <3> QED BY <3>1, <3>3, <3>4, <3>5 DEF CreditOf, Holding
  <2> QED BY <1>6, <2>1, <2>2, <2>3, AckEffect, CreditStays DEF CreditPlace, Others
<1>7. ASSUME NEW w \in Workers, Interrupt(w) PROVE CreditPlace'
  <2> DEFINE q == relay[w].row
  <2>1. UNCHANGED outbox
    BY <1>7 DEF Interrupt
  <2>2. /\ \A v \in Workers : v # w => credit'[v] = credit[v]
        /\ credit'[w] \subseteq credit[w]
        /\ relay[w].pc = "ack" => q \notin credit'[w]
    <3>1. CASE relay[w].pc = "ack"
      <4>1. credit' = [credit EXCEPT ![w] = credit[w] \ {q}]
        BY <1>7, <3>1 DEF Interrupt
      <4> QED BY <1>d, <3>1, <4>1
    <3>2. CASE relay[w].pc # "ack"
      BY <1>7, <3>2 DEF Interrupt
    <3> QED BY <3>1, <3>2
  <2>3. CreditOf(w)'
    <3>1. relay'[w].pc = "idle" /\ relay'[w].batch = {}
      BY <1>7, InterruptEffect
    <3>2. CreditOf(w)
      BY DEF CreditPlace
    <3> QED BY <2>1, <2>2, <3>1, <3>2 DEF CreditOf, Holding
  <2> QED BY <1>7, <2>1, <2>2, <2>3, InterruptEffect, CreditStays DEF CreditPlace, Others, OutboxGrows
<1>8. ASSUME NEW u \in Urls, NEW c \in Companies, NEW s \in ScrapeScores, Scrape(u, c, s)
      PROVE  CreditPlace'
  <2>1. UNCHANGED <<relay, credit>>
    BY <1>8 DEF Scrape, history
  <2> QED BY <1>8, <2>1, ScrapeEffect, CreditStays DEF CreditPlace, OutboxGrows
<1>9. CASE UNCHANGED vars
  BY <1>9 DEF vars, history, CreditPlace, CreditOf
<1> QED
  BY <1>1, <1>e, <1>f, <1>2, <1>3, <1>4, <1>5, <1>6, <1>7, <1>8, <1>9 DEF Next, RelayStep

\* Nobody takes a row, nobody is credited: SharedPlace stays.
LEMMA SharedStays ==
  ASSUME SharedPlace, shared \subseteq shared',
         \A w \in Workers : Held(w)' \subseteq Held(w) /\ credit'[w] \subseteq credit[w]
  PROVE  SharedPlace'
BY DEF SharedPlace

\* A worker whose locals stay holds what it held.
LEMMA HeldStays ==
  ASSUME NEW v \in Workers, relay'[v] = relay[v] PROVE Held(v)' = Held(v)
BY DEF Held

\* A claimed row is unmarked, so whoever has its bonus still holds it, and the
\* claim enters it in `shared`; a bonus is given for a row in the giver's hands.
LEMMA SharedStep ==
  ASSUME TypeOK, CreditPlace, SharedPlace, [Next]_vars
  PROVE  SharedPlace'
<1>a. credit \in [Workers -> SUBSET DOMAIN outbox]
  BY DEF TypeOK, HistoryOK
<1>1. ASSUME NEW w \in Workers, Claim(w) PROVE SharedPlace'
  <2>1. /\ Held(w)' = relay'[w].batch /\ relay'[w].batch \subseteq Unprocessed
        /\ \A v \in Workers : v # w => Held(v)' = Held(v)
    BY <1>1, ClaimEffect, HeldStays DEF Held, Others, Holding
  <2>2. UNCHANGED credit /\ shared \subseteq shared'
    BY <1>1, ClaimEffect DEF Claim
  <2>3. ASSUME NEW v \in Workers, v # w, NEW r \in Held(w)', r \in Held(v) \/ r \in credit[v]
        PROVE  r \in shared'
    <3>1. r \in Held(v)
      BY <2>1, <2>3 DEF CreditPlace, CreditOf, Unprocessed, Held, Holding
    <3> QED BY <1>1, <2>1, <2>3, <3>1, ClaimEffect
  <2>4. ASSUME NEW x \in Workers, NEW v \in Workers, NEW r \in Held(x)',
               v # x, r \in Held(v)' \/ r \in credit'[v]
        PROVE  r \in shared'
    <3>1. CASE x = w
      BY <2>1, <2>2, <2>3, <2>4, <3>1
    <3>2. CASE x # w /\ v = w /\ r \in Held(w)'
      BY <2>1, <2>3, <2>4, <3>2
    <3>3. CASE x # w /\ (v # w \/ r \in credit[v])
      BY <2>1, <2>2, <2>4, <3>3 DEF SharedPlace
    <3> QED BY <2>2, <2>4, <3>1, <3>2, <3>3
  <2> QED BY <2>4 DEF SharedPlace
<1>2. ASSUME NEW w \in Workers, Rescore(w) PROVE SharedPlace'
  <2> DEFINE q == relay[w].row
  <2>1. /\ relay[w].pc = "rescore" /\ relay'[w].pc = "ack"
        /\ relay'[w].row = q /\ relay'[w].batch = relay[w].batch /\ Others(w)
    BY <1>2, RescoreEffect
  <2>2. Held(w)' = Held(w) /\ q \in Held(w)
    BY <2>1 DEF Held, Holding
  <2>3. \A v \in Workers : Held(v)' = Held(v)
    BY <2>1, <2>2, HeldStays DEF Others
  <2>4. UNCHANGED shared /\ credit' = [credit EXCEPT ![w] = credit[w] \cup {q}]
    BY <1>2 DEF Rescore
  <2>5. \A v \in Workers : credit'[v] \subseteq credit[v] \cup (IF v = w THEN {q} ELSE {})
    BY <1>a, <2>4
  <2> HIDE DEF q
  <2> QED BY <2>2, <2>3, <2>4, <2>5 DEF SharedPlace
<1>3. ASSUME NEW w \in Workers, Others(w), Held(w)' \subseteq Held(w),
             credit'[w] \subseteq credit[w], \A v \in Workers : v # w => credit'[v] = credit[v],
             UNCHANGED shared
      PROVE  SharedPlace'
  <2>1. \A v \in Workers : Held(v)' \subseteq Held(v) /\ credit'[v] \subseteq credit[v]
    BY <1>3, HeldStays DEF Others
  <2> QED BY <1>3, <2>1, SharedStays
<1>4. ASSUME NEW w \in Workers, Start(w) \/ ClaimRefused(w) PROVE SharedPlace'
  <2>1. Others(w) /\ Held(w)' \subseteq Held(w)
    BY <1>4, StartEffect, ClaimRefusedEffect DEF Held, Holding
  <2>2. UNCHANGED <<credit, shared>>
    BY <1>4 DEF Start, ClaimRefused, history
  <2> QED BY <1>3, <2>1, <2>2
<1>5. ASSUME NEW w \in Workers, Lookup(w) PROVE SharedPlace'
  <2>1. Others(w) /\ Held(w)' \subseteq Held(w)
    BY <1>5, LookupEffect DEF Held, Holding
  <2>2. UNCHANGED <<credit, shared>>
    BY <1>5 DEF Lookup
  <2> QED BY <1>3, <2>1, <2>2
<1>6. ASSUME NEW w \in Workers, UpdateCompany(w) \/ ReadJob(w) PROVE SharedPlace'
  <2>1. Others(w) /\ Held(w)' \subseteq Held(w)
    BY <1>6, UpdateCompanyEffect, ReadJobEffect DEF Held, Holding
  <2>2. UNCHANGED <<credit, shared>>
    BY <1>6 DEF UpdateCompany, ReadJob, history
  <2> QED BY <1>3, <2>1, <2>2
<1>7. ASSUME NEW w \in Workers, Ack(w) PROVE SharedPlace'
  <2>1. Others(w) /\ Held(w)' \subseteq Held(w)
    BY <1>7, AckEffect DEF Held, Holding
  <2>2. UNCHANGED <<credit, shared>>
    BY <1>7 DEF Ack, history
  <2> QED BY <1>3, <2>1, <2>2
<1>8. ASSUME NEW w \in Workers, Interrupt(w) PROVE SharedPlace'
  <2>1. Others(w) /\ Held(w)' \subseteq Held(w)
    BY <1>8, InterruptEffect DEF Held, Holding
  <2>2. UNCHANGED shared
    BY <1>8 DEF Interrupt
  <2>3. credit' = credit \/ credit' = [credit EXCEPT ![w] = credit[w] \ {relay[w].row}]
    BY <1>8 DEF Interrupt
  <2>4. credit'[w] \subseteq credit[w] /\ \A v \in Workers : v # w => credit'[v] = credit[v]
    BY <1>a, <2>3
  <2> QED BY <1>3, <2>1, <2>2, <2>4
<1>9. ASSUME UNCHANGED <<relay, credit, shared>> PROVE SharedPlace'
  BY <1>9 DEF SharedPlace, Held
<1>10. ASSUME NEW u \in Urls, NEW c \in Companies, NEW s \in ScrapeScores, Scrape(u, c, s)
       PROVE  SharedPlace'
  BY <1>9, <1>10 DEF Scrape, history
<1>11. CASE UNCHANGED vars
  BY <1>9, <1>11 DEF vars, history
<1> QED
  BY <1>1, <1>2, <1>4, <1>5, <1>6, <1>7, <1>8, <1>10, <1>11 DEF Next, RelayStep

\* Who is about to write a row's score has not written it before, and another
\* worker has only if the two have held the row at once: what a worker has in
\* its hands it has not credited, and what it has credited it marks next.
THEOREM SecondBonusMeansSharedRow == Spec => []BonusOncePerHolder
<1>1. Init => CreditPlace /\ SharedPlace
  BY DEF Init, RelayInit, Idle, CreditPlace, CreditOf, SharedPlace, Held, Holding
<1>2. CreditPlace /\ SharedPlace => BonusOncePerHolder
  BY DEF CreditPlace, CreditOf, SharedPlace, Held, Holding, BonusOncePerHolder
<1> QED BY <1>1, <1>2, TypeCorrect, CreditStep, SharedStep, PTL DEF Spec

-----------------------------------------------------------------------------
\* Every step of the relay is a step of the abstract outbox, or a stutter: a
\* lookup handles an event, marking the row acknowledges it.
LEMMA DeliveryStep ==
  ASSUME TypeOK, IInv, [Next]_vars
  PROVE  [Delivery!Next]_(Delivery!vars)
<1> DEFINE Acked == {r \in DOMAIN outbox : outbox[r].processed}
<1>a. DOMAIN outbox = 1..Len(outbox) /\ Len(outbox) \in Nat
  BY RowNumbers DEF TypeOK
<1>b. \A w \in Workers : relay[w].batch \subseteq DOMAIN outbox
  BY DEF TypeOK, RelaysOK
<1>c. \A w \in Workers : relay[w].pc \in Holding => relay[w].row \in DOMAIN outbox
  BY DEF TypeOK, RelaysOK
<1>1. ASSUME UNCHANGED <<outbox, attempted>> PROVE UNCHANGED Delivery!vars
  BY <1>1 DEF Delivery!vars
<1>2. ASSUME NEW w \in Workers, Lookup(w) PROVE Delivery!Next
  <2>1. PICK r \in relay[w].batch : attempted' = attempted \cup {r}
    BY <1>2, LookupEffect
  <2>2. UNCHANGED outbox /\ r \in 1..Len(outbox)
    BY <1>2, <1>a, <1>b DEF Lookup
  <2>3. Delivery!Handle(r)
    BY <2>1, <2>2 DEF Delivery!Handle
  <2> QED BY <2>2, <2>3 DEF Delivery!Next
<1>3. ASSUME NEW w \in Workers, Ack(w) PROVE [Delivery!Next]_(Delivery!vars)
  <2>1. UNCHANGED attempted /\ relay[w].pc = "ack"
    BY <1>3, AckEffect DEF Ack, history
  <2>3. PICK r \in DOMAIN outbox : r = relay[w].row /\ r \in attempted
    BY <1>c, <2>1 DEF IInv, RowProgress, Holding
  <2>2. /\ DOMAIN outbox' = DOMAIN outbox /\ Len(outbox') = Len(outbox)
        /\ \A q \in DOMAIN outbox : outbox'[q].processed <=> (outbox[q].processed \/ q = r)
    BY <1>3, <2>3, AckEffect
  <2>4. Acked' = Acked \cup {r}
    BY <2>2, <2>3
  <2>5. CASE r \in Acked
    BY <2>1, <2>2, <2>4, <2>5 DEF Delivery!vars
  <2>6. CASE r \notin Acked
    <3>1. Delivery!Ack(r)
      BY <2>1, <2>2, <2>3, <2>4, <2>6 DEF Delivery!Ack
    <3> QED BY <1>a, <2>3, <3>1 DEF Delivery!Next
  <2> QED BY <2>5, <2>6
<1>4. ASSUME NEW u \in Urls, NEW c \in Companies, NEW s \in ScrapeScores, Scrape(u, c, s)
      PROVE  Delivery!Next
  <2>1. UNCHANGED attempted
    BY <1>4 DEF Scrape, history
  <2>2. Acked' = Acked /\ Len(outbox') = Len(outbox) + 1
    BY <1>4, ScrapeEffect
  <2>3. Delivery!Publish
    BY <2>1, <2>2 DEF Delivery!Publish
  <2> QED BY <2>3 DEF Delivery!Next
<1>5. ASSUME NEW w \in Workers,
             \/ Start(w) \/ Claim(w) \/ ClaimRefused(w)
             \/ UpdateCompany(w) \/ ReadJob(w) \/ Rescore(w) \/ Interrupt(w)
      PROVE  UNCHANGED <<outbox, attempted>>
  BY <1>5 DEF Start, Claim, ClaimRefused, UpdateCompany, ReadJob, Rescore, Interrupt, history
<1>6. CASE UNCHANGED vars
  BY <1>1, <1>6 DEF vars, history
<1> QED
  BY <1>1, <1>2, <1>3, <1>4, <1>5, <1>6 DEF Next, RelayStep

\* The relay implements an at-least-once outbox: what leaves the outbox has been
\* handled, whoever crashes.
THEOREM DeliversAtLeastOnce == Spec => AtLeastOnce
<1>1. Init => Delivery!Init
  BY DEF Init, RelayInit, Delivery!Init
<1> QED
  BY <1>1, TypeCorrect, HandsInit, HandsStep, DeliveryStep, PTL DEF Spec, AtLeastOnce, Delivery!Spec
=============================================================================
