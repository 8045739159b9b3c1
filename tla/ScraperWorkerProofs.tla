------------------------- MODULE ScraperWorkerProofs -------------------------
(***************************************************************************)
(* Proofs about the score (FreshnessScorer) for every listing, about a     *)
(* posting's life (PostingLife) for every posting the boards can publish,  *)
(* and about ScraperWorker, which rests on the first: for any number of    *)
(* instances, ticks, boards and listings, and any number of failures,      *)
(* crashes and lapsed keys.                                                *)
(***************************************************************************)
EXTENDS ScraperWorker, PostingLife, TLAPS

\* The values each term of the score can have.
LEMMA Terms ==
  ASSUME NEW l \in Listing, NEW isRepost \in BOOLEAN
  PROVE  /\ AgeScore(l) \in {0, 10, 20, 30} /\ SalaryScore(l) \in {0, 20}
         /\ DescriptionScore(l) \in {0, 8, 15} /\ RepostScore(isRepost) \in {0, 20}
BY DEF AgeScore, SalaryScore, DescriptionScore, RepostScore

\* FreshnessScorer.score is an integer from 0 to 85, so the relay's bonus of 15
\* never needs the cap of 100 on a fresh score.
THEOREM ScoreIsBounded ==
  ASSUME NEW l \in Listing, NEW isRepost \in BOOLEAN
  PROVE  Score(l, isRepost) \in 0..85
BY Terms DEF Score

\* What the scraper stores has a score from the threshold to 85.
LEMMA AcceptedScore ==
  ASSUME NEW l \in Listing, NEW isRepost \in BOOLEAN, Accepts(l, isRepost)
  PROVE  Score(l, isRepost) \in Threshold..85
BY ScoreIsBounded DEF Accepts, Threshold

\* A repost reaches the threshold exactly when its listing is complete and less
\* than a week old: there is no slack in 30 + 20 + 15.
THEOREM RepostIsComplete ==
  ASSUME NEW l \in Listing
  PROVE  Accepts(l, TRUE) <=> Complete(l)
<1>1. Complete(l) <=> AgeScore(l) = 30 /\ SalaryScore(l) = 20 /\ DescriptionScore(l) = 15
  BY DEF Complete, AgeScore, SalaryScore, DescriptionScore, Listing
<1>2. AgeScore(l) \in {0, 10, 20, 30} /\ SalaryScore(l) \in {0, 20}
      /\ DescriptionScore(l) \in {0, 8, 15}
  BY Terms
<1>3. Score(l, TRUE) = AgeScore(l) + SalaryScore(l) + DescriptionScore(l)
  BY <1>2 DEF Score, RepostScore
<1>4. ~(AgeScore(l) + SalaryScore(l) + DescriptionScore(l) < 60)
        <=> AgeScore(l) = 30 /\ SalaryScore(l) = 20 /\ DescriptionScore(l) = 15
  BY <1>2
<1>5. Accepts(l, TRUE) <=> ~(AgeScore(l) + SalaryScore(l) + DescriptionScore(l) < 60)
  BY <1>3 DEF Accepts, Threshold
<1> QED BY <1>1, <1>4, <1>5

\* A posting without a usable date, or a month old, is never stored, even when
\* it is first seen.
THEOREM UndatedIsRejected ==
  ASSUME NEW l \in Listing, NEW isRepost \in BOOLEAN, Accepts(l, isRepost)
  PROVE  l.postedAt = "valid" /\ l.age < 30
<1>1. AgeScore(l) # 0
  BY Terms DEF Accepts, Score, Threshold
<1> QED BY <1>1 DEF AgeScore, Listing

-----------------------------------------------------------------------------
\* A board, one of its postings, and whether the repost key is there.
Shape == board \in Boards /\ raw \in RawPosting /\ remembered \in BOOLEAN

\* Whatever a board publishes, its source makes a listing of it.
LEMMA SourcesMakeListings ==
  ASSUME NEW b \in Boards, NEW r \in RawPosting
  PROVE  FromBoard(b, r) \in Listing
<1>1. ASSUME NEW min \in BOOLEAN, NEW max \in BOOLEAN, NEW c \in Currencies, NEW d \in Nat
      PROVE  Quoted(r, min, max, c, d) \in Listing
  BY DEF Quoted, Listing, RawPosting
<1>2. RemoteOk(r) \in Listing
  BY <1>1 DEF RemoteOk, RawPosting, Currencies
<1>3. Remotive(r) \in Listing
  <2>1. (r.figures >= 2) \in BOOLEAN
    BY DEF RawPosting
  <2>2. r.text \in Nat
    BY DEF RawPosting
  <2>3. (IF r.figures >= 2 THEN "USD" ELSE "none") \in Currencies
    BY DEF Currencies
  <2> QED BY <1>1, <2>1, <2>2, <2>3 DEF Remotive
<1>4. WeWorkRemotely(r) \in Listing
  BY UnknownAssumption DEF WeWorkRemotely, Quoted, Listing, RawPosting, Currencies
<1> QED BY <1>2, <1>3, <1>4 DEF FromBoard, Boards

LEMMA ShapeHolds == LifeSpec => []Shape
<1>1. LifeInit => Shape
  BY RawsAssumption DEF LifeInit, Shape
<1>2. Shape /\ [LifeNext]_lifeVars => Shape'
  <2> SUFFICES ASSUME Shape, [LifeNext]_lifeVars PROVE Shape'
    OBVIOUS
  <2>1. CASE GrowOlder
    <3>1. raw' = [raw EXCEPT !.age = raw.age + 1] /\ raw.age + 1 \in Int
      BY <2>1 DEF GrowOlder, Shape, RawPosting
    <3>2. raw' \in RawPosting
      BY <3>1 DEF Shape, RawPosting
    <3> QED BY <2>1, <3>2 DEF GrowOlder, Shape
  <2>2. CASE KeyWritten
    BY <2>2 DEF KeyWritten, Shape
  <2>3. CASE KeyLapses
    BY <2>3 DEF KeyLapses, Shape
  <2>4. CASE UNCHANGED lifeVars
    BY <2>4 DEF lifeVars, Shape
  <2> QED BY <2>1, <2>2, <2>3, <2>4 DEF LifeNext
<1> QED BY <1>1, <1>2, PTL DEF LifeSpec

\* Scores are bounded, and every source returns a listing the scorer can score.
THEOREM ScoresAreBounded == LifeSpec => []ScoreBounds
<1>1. Shape => ScoreBounds
  BY SourcesMakeListings, ScoreIsBounded DEF Shape, ScoreBounds, listing, score
<1> QED BY <1>1, ShapeHolds, PTL

\* The stored row of a re-scraped posting is refreshed only by a complete,
\* week-old listing, on any board.
THEOREM RepostsNeedAll == LifeSpec => []RepostNeedsAll
<1>1. Shape => RepostNeedsAll
  BY SourcesMakeListings, RepostIsComplete DEF Shape, RepostNeedsAll, listing
<1> QED BY <1>1, ShapeHolds, PTL

\* No undated row reaches Postgres, and no repost from WeWorkRemotely.
THEOREM StoredAreDated == LifeSpec => []StoredListingsAreDated
<1>1. Shape => StoredListingsAreDated
  <2> SUFFICES ASSUME Shape, Accepts(listing, remembered)
               PROVE  /\ listing.postedAt = "valid" /\ listing.age < 30
                      /\ board = "weworkremotely" => ~remembered
    BY DEF StoredListingsAreDated
  <2>1. listing \in Listing /\ remembered \in BOOLEAN
    BY SourcesMakeListings DEF Shape, listing
  <2>2. listing.postedAt = "valid" /\ listing.age < 30
    BY <2>1, UndatedIsRejected
  <2>3. ASSUME board = "weworkremotely", remembered = TRUE PROVE FALSE
    <3>1. Complete(listing)
      BY <2>1, <2>3, RepostIsComplete
    <3>2. listing.salaryMin = FALSE
      BY <2>3 DEF listing, FromBoard, WeWorkRemotely, Quoted
    <3> QED BY <3>1, <3>2 DEF Complete
  <2> QED BY <2>1, <2>2, <2>3
<1> QED BY <1>1, ShapeHolds, PTL

\* A posting a day older is the same listing a day older.
LEMMA SameListingOlder ==
  ASSUME NEW b \in Boards, NEW r \in RawPosting, NEW q \in RawPosting,
         q = [r EXCEPT !.age = r.age + 1]
  PROVE  LET l == FromBoard(b, r)
             m == FromBoard(b, q)
         IN  /\ m.postedAt = l.postedAt /\ l.age \in Int /\ m.age = l.age + 1
             /\ m.salaryMin = l.salaryMin /\ m.salaryMax = l.salaryMax
             /\ m.currency = l.currency /\ m.desc = l.desc
<1>1. /\ q.date = r.date /\ q.salaryMin = r.salaryMin /\ q.salaryMax = r.salaryMax
      /\ q.figures = r.figures /\ q.text = r.text /\ q.markup = r.markup
      /\ r.age \in Int
  BY Zenon DEF RawPosting
<1>2. q.age = r.age + 1
  BY Zenon DEF RawPosting
<1>3. CASE b = "remoteok"
  BY <1>1, <1>2, <1>3 DEF FromBoard, RemoteOk, Quoted
<1>4. CASE b = "remotive"
  BY <1>1, <1>2, <1>4 DEF FromBoard, Remotive, Quoted
<1>5. CASE b = "weworkremotely"
  BY <1>1, <1>2, <1>5 DEF FromBoard, WeWorkRemotely, Quoted
<1> QED BY <1>3, <1>4, <1>5 DEF Boards

\* Growing older never raises the score; forgetting the key gives back twenty.
THEOREM ScoreOnlyFalls == LifeSpec => AgeingNeverRaises
<1> DEFINE Falls == score' <= score + (IF remembered /\ ~remembered' THEN 20 ELSE 0)
<1>1. ASSUME Shape, Shape', [LifeNext]_lifeVars PROVE [Falls]_lifeVars
  <2>a. listing \in Listing /\ listing' \in Listing
    BY <1>1, SourcesMakeListings DEF Shape, listing
  <2>b. /\ AgeScore(listing) \in Int /\ SalaryScore(listing) \in Int
        /\ DescriptionScore(listing) \in Int
    BY <2>a, <1>1, Terms DEF Shape
  <2>1. CASE GrowOlder
    <3>1. board' = board /\ raw' = [raw EXCEPT !.age = raw.age + 1] /\ remembered' = remembered
      BY <2>1 DEF GrowOlder
    <3>2. /\ listing'.postedAt = listing.postedAt
          /\ listing.age \in Int /\ listing'.age = listing.age + 1
          /\ listing'.salaryMin = listing.salaryMin /\ listing'.salaryMax = listing.salaryMax
          /\ listing'.currency = listing.currency /\ listing'.desc = listing.desc
      BY <1>1, <3>1, SameListingOlder DEF Shape, listing
    <3>3. AgeScore(listing') <= AgeScore(listing) /\ AgeScore(listing') \in Int
      BY <3>2 DEF AgeScore
    <3>4. /\ SalaryScore(listing') = SalaryScore(listing)
          /\ DescriptionScore(listing') = DescriptionScore(listing)
      BY <3>2 DEF SalaryScore, DescriptionScore
    <3>5. RepostScore(remembered') = RepostScore(remembered) /\ RepostScore(remembered) \in Int
      BY <3>1 DEF RepostScore
    <3> QED BY <2>b, <3>1, <3>3, <3>4, <3>5 DEF score, Score
  <2>2. ASSUME UNCHANGED <<board, raw>> PROVE Falls
    <3>1. listing' = listing
      BY <2>2 DEF listing
    <3>2. CASE remembered /\ ~remembered'
      BY <2>b, <3>1, <3>2 DEF score, Score, RepostScore
    <3>3. CASE ~(remembered /\ ~remembered')
      BY <1>1, <2>b, <3>1, <3>3 DEF score, Score, RepostScore, Shape
    <3> QED BY <3>2, <3>3
  <2>3. CASE KeyWritten \/ KeyLapses
    BY <2>2, <2>3 DEF KeyWritten, KeyLapses
  <2> QED BY <1>1, <2>1, <2>3 DEF LifeNext
<1> QED BY <1>1, ShapeHolds, PTL DEF LifeSpec, AgeingNeverRaises

-----------------------------------------------------------------------------
\* The other workers' locals stay as they are.
Others(w) == \A v \in Workers : v # w => run'[v] = run[v]

\* One entry of a table of counters is set.
LEMMA CreditSet ==
  ASSUME credit \in [Workers -> [Postings -> Nat]],
         NEW w \in Workers, NEW k \in Postings, NEW n \in Nat,
         credit' = [credit EXCEPT ![w][k] = n]
  PROVE  /\ credit' \in [Workers -> [Postings -> Nat]] /\ credit'[w][k] = n
         /\ \A v \in Workers, j \in Postings :
              v # w \/ j # k => credit'[v][j] = credit[v][j]
OBVIOUS

\* A worker that handles a listing has a listing at hand.
LEMMA ItemIsListing ==
  ASSUME TypeOK, NEW w \in Workers, run[w].pc \in {"reject", "commit", "remember"}
  PROVE  Item(w) \in Listing /\ Item(w).posting \in Postings
<1>1. run[w] \in Locals /\ Coherent(run[w])
  BY DEF TypeOK, RunsOK
<1>2. Item(w) \in Listing
  BY <1>1 DEF Item, Coherent, Locals
<1> QED BY <1>2 DEF Listing

\* A worker between two jobs, and one that starts a job.
LEMMA IdleIsLocals == Idle \in Locals /\ Coherent(Idle)
<1>1. <<>> \in Seq(Listing) /\ {} \in SUBSET Nat
  OBVIOUS
<1>2. Idle \in Locals
  BY <1>1 DEF Idle, Locals
<1>3. Coherent(Idle)
  BY DEF Idle, Coherent
<1> QED BY <1>2, <1>3

LEMMA StartingIsLocals ==
  ASSUME NEW t \in Ticks
  PROVE  /\ Starting(t) \in Locals /\ Coherent(Starting(t))
         /\ Starting(t).pc = "fetch" /\ Starting(t).job = t /\ Starting(t).accepted = 0
<1>1. Idle \in Locals /\ Idle.todo = {} /\ Idle.feed = <<>> /\ Idle.accepted = 0
  BY IdleIsLocals DEF Idle
<1>2. 1 \in 1..Len(Sources) /\ 1 \in Nat
  <2>1. Sources # <<>> /\ Sources \in Seq(Boards)
    BY ScraperAssumption
  <2> QED BY <2>1
<1>3. Starting(t) \in Locals
  BY <1>1, <1>2, Zenon DEF Starting, Locals
<1>4. Starting(t).pc = "fetch" /\ Starting(t).job = t /\ Starting(t).src = 1
  BY <1>1, Zenon DEF Starting, Locals
<1>5. Starting(t).todo = Idle.todo /\ Starting(t).feed = Idle.feed
      /\ Starting(t).accepted = Idle.accepted
  BY <1>1, Zenon DEF Starting, Locals
<1>6. Coherent(Starting(t))
  BY <1>1, <1>2, <1>4, <1>5 DEF Coherent
<1> QED BY <1>1, <1>3, <1>4, <1>5, <1>6

\* A worker that is through with a board goes to the next, or finishes.
LEMMA NextSourceIsLocals ==
  ASSUME NEW r \in Locals, r.src \in 1..Len(Sources), NEW failed \in BOOLEAN
  PROVE  /\ NextSource(r, failed) \in Locals /\ Coherent(NextSource(r, failed))
         /\ NextSource(r, failed).pc \in {"fetch", "finish"}
         /\ NextSource(r, failed).job = r.job /\ NextSource(r, failed).accepted = 0
<1> DEFINE src == IF r.src < Len(Sources) THEN r.src + 1 ELSE r.src
           pc == IF r.src < Len(Sources) THEN "fetch" ELSE "finish"
           failures == IF failed THEN r.failures + 1 ELSE r.failures
           N == [Idle EXCEPT !.pc = pc, !.job = r.job, !.src = src, !.failures = failures]
<1>1. Idle \in Locals /\ Idle.todo = {} /\ Idle.feed = <<>> /\ Idle.accepted = 0
  BY IdleIsLocals DEF Idle
<1>2. r.job \in Ticks \cup {"none"} /\ r.failures \in Nat /\ Len(Sources) \in Nat
  BY ScraperAssumption DEF Locals
<1>3. src \in 1..Len(Sources) /\ src \in Nat /\ failures \in Nat
  BY <1>2
<1>4. pc \in {"fetch", "finish"}
  OBVIOUS
<1>5. NextSource(r, failed) = N
  BY DEF NextSource
<1> HIDE DEF src, pc, failures
<1>6. N \in Locals
  BY <1>1, <1>2, <1>3, <1>4, Zenon DEF Locals
<1>7. N.pc = pc /\ N.job = r.job /\ N.src = src
  BY <1>1, Zenon DEF Locals
<1>8. N.todo = Idle.todo /\ N.feed = Idle.feed /\ N.accepted = Idle.accepted
  BY <1>1, Zenon DEF Locals
<1> HIDE DEF N
<1>9. Coherent(N)
  BY <1>1, <1>3, <1>4, <1>7, <1>8 DEF Coherent
<1> QED BY <1>1, <1>4, <1>5, <1>6, <1>7, <1>8, <1>9

\* One worker's locals change, to locals L.
LEMMA RunChange ==
  ASSUME RunsOK, NEW w \in Workers, NEW L, L \in Locals, Coherent(L),
         run' = [run EXCEPT ![w] = L], bull' \in [Ticks -> BullJob]
  PROVE  RunsOK' /\ run'[w] = L /\ Others(w)
<1>1. run'[w] = L /\ Others(w)
  BY DEF RunsOK, Others
<1>2. run' \in [Workers -> Locals]
  BY DEF RunsOK
<1>3. \A v \in Workers : Coherent(run'[v])
  BY <1>1 DEF RunsOK, Others
<1> QED BY <1>1, <1>2, <1>3 DEF RunsOK

-----------------------------------------------------------------------------
\* What each step of process() leaves in its worker's locals.
LEMMA TakeEffect ==
  ASSUME TypeOK, NEW w \in Workers, NEW t \in Ticks, Take(w, t)
  PROVE  /\ RunsOK' /\ Others(w) /\ run[w].pc = "idle"
         /\ run'[w].pc = "fetch" /\ run'[w].accepted = 0
<1>1. run[w].pc = "idle" /\ run' = [run EXCEPT ![w] = Starting(t)]
  BY DEF Take
<1>2. bull' \in [Ticks -> BullJob]
  <2> DEFINE b == [bull[t] EXCEPT !.state = "active", !.holder = w]
  <2>1. bull[t] \in BullJob
    BY DEF TypeOK, RunsOK
  <2>2. b \in BullJob
    BY <2>1, Zenon DEF BullJob
  <2>3. bull' = [bull EXCEPT ![t] = b]
    BY DEF Take
  <2> HIDE DEF b
  <2> QED BY <2>2, <2>3 DEF TypeOK, RunsOK
<1>3. Starting(t) \in Locals /\ Coherent(Starting(t)) /\ RunsOK
  BY StartingIsLocals DEF TypeOK
<1>4. RunsOK' /\ run'[w] = Starting(t) /\ Others(w)
  BY <1>1, <1>2, <1>3, RunChange
<1> QED BY <1>1, <1>4, StartingIsLocals

LEMMA FetchEffect ==
  ASSUME TypeOK, NEW w \in Workers, Fetch(w)
  PROVE  /\ RunsOK' /\ Others(w) /\ run[w].pc = "fetch"
         /\ run'[w].pc = "loop"
<1>1. PICK feed \in Feeds[Sources[run[w].src]] :
        run' = [run EXCEPT ![w] =
                  [run[w] EXCEPT !.pc = "loop", !.feed = feed,
                                 !.todo = {i \in DOMAIN feed : Keeps(feed[i])}]]
  BY DEF Fetch
<1> DEFINE todo == {i \in DOMAIN feed : Keeps(feed[i])}
           L == [run[w] EXCEPT !.pc = "loop", !.feed = feed, !.todo = todo]
<1>2. run[w] \in Locals /\ Coherent(run[w]) /\ run[w].pc = "fetch"
  BY DEF TypeOK, RunsOK, Fetch
<1>3. feed \in Seq(Listing)
  <2>1. run[w].src \in 1..Len(Sources)
    BY <1>2 DEF Coherent
  <2>2. Sources[run[w].src] \in Boards
    BY <2>1, ScraperAssumption
  <2> QED BY <2>2, ScraperAssumption
<1>4. todo \in SUBSET Nat /\ todo \subseteq DOMAIN feed
  BY <1>3
<1> HIDE DEF todo
<1>5. L \in Locals
  BY <1>2, <1>3, <1>4, Zenon DEF Locals
<1>6. L.pc = "loop" /\ L.feed = feed /\ L.todo = todo /\ L.src = run[w].src
  BY <1>2, Zenon DEF Locals
<1>7. Coherent(L)
  BY <1>2, <1>4, <1>6 DEF Coherent
<1> HIDE DEF L
<1>8. run' = [run EXCEPT ![w] = L] /\ bull' = bull
  BY <1>1 DEF L, todo, Fetch
<1> QED BY <1>2, <1>5, <1>6, <1>7, <1>8, RunChange DEF TypeOK, RunsOK

LEMMA SourceFailsEffect ==
  ASSUME TypeOK, NEW w \in Workers, run[w].pc # "idle", SourceFails(w)
  PROVE  /\ RunsOK' /\ Others(w)
         /\ run'[w].pc \in {"fetch", "finish"} /\ run'[w].accepted = 0
<1>1. run[w] \in Locals /\ run[w].src \in 1..Len(Sources)
  BY DEF TypeOK, RunsOK, Coherent
<1>2. run' = [run EXCEPT ![w] = NextSource(run[w], TRUE)] /\ bull' = bull
  BY DEF SourceFails
<1> QED BY <1>1, <1>2, NextSourceIsLocals, RunChange DEF TypeOK, RunsOK

LEMMA CheckRepostEffect ==
  ASSUME TypeOK, NEW w \in Workers, CheckRepost(w)
  PROVE  /\ RunsOK' /\ Others(w) /\ run[w].pc = "loop"
         /\ run'[w].accepted = run[w].accepted
         /\ run'[w].pc \in {"commit", "reject"}
         /\ Item(w)' \in Listing
         /\ run'[w].pc = "commit" => Accepts(Item(w)', run'[w].isRepost)
         /\ \/ credit' = [credit EXCEPT ![w][Item(w)'.posting] = 0]
            \/ /\ UNCHANGED credit
               /\ run'[w].isRepost <=> Item(w)'.posting \in repost
<1>1. PICK i \in run[w].todo, error \in BOOLEAN :
        LET l == run[w].feed[i]
            isRepost == ~error /\ l.posting \in repost
        IN  /\ run' = [run EXCEPT ![w] =
                         [run[w] EXCEPT !.pc = IF Accepts(l, isRepost) THEN "commit" ELSE "reject",
                                        !.item = i, !.todo = run[w].todo \ {i}, !.isRepost = isRepost]]
            /\ IF error THEN Spend("call") /\ Pardon(w, l.posting) ELSE UNCHANGED <<budget, credit>>
  BY DEF CheckRepost
<1> DEFINE l == run[w].feed[i]
           isRepost == ~error /\ l.posting \in repost
           pc == IF Accepts(l, isRepost) THEN "commit" ELSE "reject"
           todo == run[w].todo \ {i}
           L == [run[w] EXCEPT !.pc = pc, !.item = i, !.todo = todo, !.isRepost = isRepost]
<1>2. run[w] \in Locals /\ Coherent(run[w]) /\ run[w].pc = "loop"
  BY DEF TypeOK, RunsOK, CheckRepost
<1>3. i \in DOMAIN run[w].feed /\ i \in Nat /\ todo \in SUBSET Nat /\ todo \subseteq run[w].todo
  BY <1>2 DEF Locals, Coherent
<1>4. l \in Listing
  BY <1>2, <1>3 DEF Locals
<1>5. /\ pc \in {"commit", "reject"} /\ isRepost \in BOOLEAN
      /\ pc = "commit" => Accepts(l, isRepost)
  OBVIOUS
<1>6. run' = [run EXCEPT ![w] = L] /\ bull' = bull
  BY <1>1 DEF CheckRepost
<1>7. credit' = [credit EXCEPT ![w][l.posting] = 0] \/ (UNCHANGED credit /\ ~error)
  BY <1>1 DEF Pardon
<1>8. ~error => (isRepost <=> l.posting \in repost)
  OBVIOUS
<1> HIDE DEF pc, isRepost, todo
<1>9. L \in Locals
  BY <1>2, <1>3, <1>5, Zenon DEF Locals
<1>10. L.pc = pc /\ L.item = i /\ L.todo = todo
  BY <1>2, Zenon DEF Locals
<1>11. L.isRepost = isRepost /\ L.feed = run[w].feed /\ L.src = run[w].src
  BY <1>2, Zenon DEF Locals
<1>12. L.accepted = run[w].accepted
  BY <1>2, Zenon DEF Locals
<1>13. Coherent(L)
  BY <1>2, <1>3, <1>5, <1>10, <1>11 DEF Coherent
<1> HIDE DEF L
<1>14. RunsOK' /\ run'[w] = L /\ Others(w)
  BY <1>6, <1>9, <1>13, RunChange DEF TypeOK, RunsOK
<1>15. Item(w)' = l
  BY <1>10, <1>11, <1>14 DEF Item
<1> QED BY <1>2, <1>4, <1>5, <1>7, <1>8, <1>10, <1>11, <1>12, <1>14, <1>15

LEMMA RejectEffect ==
  ASSUME TypeOK, NEW w \in Workers, Reject(w)
  PROVE  /\ RunsOK' /\ Others(w) /\ run[w].pc = "reject"
         /\ run'[w].accepted = run[w].accepted /\ run'[w].pc = "loop"
<1> DEFINE L == [run[w] EXCEPT !.pc = "loop", !.rejected = run[w].rejected + 1]
<1>1. run[w] \in Locals /\ Coherent(run[w]) /\ run[w].pc = "reject"
  BY DEF TypeOK, RunsOK, Reject
<1>2. run[w].rejected + 1 \in Nat
  BY <1>1 DEF Locals
<1>3. L \in Locals
  BY <1>1, <1>2, Zenon DEF Locals
<1>4. L.pc = "loop" /\ L.todo = run[w].todo /\ L.feed = run[w].feed /\ L.src = run[w].src
  BY <1>1, Zenon DEF Locals
<1>5. L.accepted = run[w].accepted
  BY <1>1, Zenon DEF Locals
<1>6. run' = [run EXCEPT ![w] = L] /\ bull' = bull
  BY DEF Reject
<1> HIDE DEF L
<1>7. Coherent(L)
  BY <1>1, <1>4 DEF Coherent
<1>8. RunsOK' /\ run'[w] = L /\ Others(w)
  BY <1>3, <1>6, <1>7, RunChange DEF TypeOK, RunsOK
<1> QED BY <1>1, <1>4, <1>5, <1>8

LEMMA CommitEffect ==
  ASSUME TypeOK, NEW w \in Workers, Commit(w)
  PROVE  /\ RunsOK' /\ Others(w) /\ run[w].pc = "commit"
         /\ Item(w)' = Item(w) /\ Item(w) \in Listing
         /\ IF run[w].isRepost
            THEN run'[w].pc = "loop" /\ run'[w].accepted = run[w].accepted + 1 /\ UNCHANGED credit
            ELSE /\ run'[w].pc = "remember"
                 /\ credit' = [credit EXCEPT ![w][Item(w).posting] = @ + 1]
<1> DEFINE pc == IF run[w].isRepost THEN "loop" ELSE "remember"
           n == IF run[w].isRepost THEN run[w].accepted + 1 ELSE run[w].accepted
           L == [run[w] EXCEPT !.pc = pc, !.accepted = n]
<1>1. run[w] \in Locals /\ Coherent(run[w]) /\ run[w].pc = "commit"
  BY DEF TypeOK, RunsOK, Commit
<1>2. n \in Nat /\ pc \in {"loop", "remember"}
  BY <1>1 DEF Locals
<1>3. run' = [run EXCEPT ![w] = L] /\ bull' = bull
  BY DEF Commit
<1>4. Item(w) \in Listing
  BY <1>1 DEF Item, Coherent, Locals
<1>5. L \in Locals
  <2> HIDE DEF pc, n
  <2> QED BY <1>1, <1>2, Zenon DEF Locals
<1>6. /\ L.pc = pc /\ L.accepted = n /\ L.todo = run[w].todo
      /\ L.feed = run[w].feed /\ L.item = run[w].item /\ L.src = run[w].src
  <2> HIDE DEF pc, n
  <2>1. L.pc = pc /\ L.accepted = n /\ L.todo = run[w].todo
    BY <1>1, Zenon DEF Locals
  <2>2. L.feed = run[w].feed /\ L.item = run[w].item /\ L.src = run[w].src
    BY <1>1, Zenon DEF Locals
  <2> QED BY <2>1, <2>2
<1> HIDE DEF L
<1>7. Coherent(L)
  BY <1>1, <1>2, <1>6 DEF Coherent
<1>8. RunsOK' /\ run'[w] = L /\ Others(w)
  BY <1>3, <1>5, <1>7, RunChange DEF TypeOK, RunsOK
<1>9. Item(w)' = Item(w)
  BY <1>6, <1>8 DEF Item
<1>10. credit' = IF run[w].isRepost THEN credit
                 ELSE [credit EXCEPT ![w][Item(w).posting] = @ + 1]
  BY DEF Commit
<1> QED BY <1>1, <1>4, <1>6, <1>8, <1>9, <1>10

LEMMA RememberEffect ==
  ASSUME TypeOK, NEW w \in Workers, Remember(w)
  PROVE  /\ RunsOK' /\ Others(w) /\ run[w].pc = "remember"
         /\ Item(w) \in Listing
         /\ run'[w].pc = "loop" /\ run'[w].accepted = run[w].accepted + 1
<1> DEFINE L == [run[w] EXCEPT !.pc = "loop", !.accepted = run[w].accepted + 1]
<1>1. run[w] \in Locals /\ Coherent(run[w]) /\ run[w].pc = "remember"
  BY DEF TypeOK, RunsOK, Remember
<1>2. run[w].accepted + 1 \in Nat
  BY <1>1 DEF Locals
<1>3. L \in Locals
  BY <1>1, <1>2, Zenon DEF Locals
<1>4. L.pc = "loop" /\ L.todo = run[w].todo /\ L.feed = run[w].feed /\ L.src = run[w].src
  BY <1>1, Zenon DEF Locals
<1>5. L.accepted = run[w].accepted + 1
  BY <1>1, Zenon DEF Locals
<1>6. run' = [run EXCEPT ![w] = L] /\ bull' = bull
  BY DEF Remember
<1>7. Item(w) \in Listing
  BY <1>1 DEF Item, Coherent, Locals
<1> HIDE DEF L
<1>8. Coherent(L)
  BY <1>1, <1>4 DEF Coherent
<1>9. RunsOK' /\ run'[w] = L /\ Others(w)
  BY <1>3, <1>6, <1>8, RunChange DEF TypeOK, RunsOK
<1> QED BY <1>1, <1>4, <1>5, <1>7, <1>9

LEMMA SourceDoneEffect ==
  ASSUME TypeOK, NEW w \in Workers, Publish(w) \/ NothingStored(w)
  PROVE  /\ RunsOK' /\ Others(w) /\ run[w].pc = "loop"
         /\ run'[w].pc \in {"fetch", "finish"} /\ run'[w].accepted = 0
<1>1. run[w].pc = "loop" /\ run' = [run EXCEPT ![w] = NextSource(run[w], FALSE)] /\ bull' = bull
  BY DEF Publish, NothingStored
<1>2. run[w] \in Locals /\ run[w].src \in 1..Len(Sources)
  BY <1>1 DEF TypeOK, RunsOK, Coherent
<1> QED BY <1>1, <1>2, NextSourceIsLocals, RunChange DEF TypeOK, RunsOK

LEMMA FinishEffect ==
  ASSUME TypeOK, NEW w \in Workers, Finish(w)
  PROVE  /\ RunsOK' /\ Others(w) /\ run[w].pc = "finish" /\ run'[w] = Idle
<1> DEFINE t == run[w].job
           made == bull[t].made + 1
<1>1. run[w].pc = "finish" /\ run' = [run EXCEPT ![w] = Idle]
  BY DEF Finish
<1>2. PICK outcome \in {"completed", "waiting", "failed"} :
        bull' = IF bull[t].state = "active" /\ bull[t].holder = w
                THEN [bull EXCEPT ![t] = [bull[t] EXCEPT !.state = outcome, !.made = made]]
                ELSE bull
  BY DEF Finish
<1>3. bull' \in [Ticks -> BullJob]
  <2>1. CASE t \in Ticks
    <3> DEFINE b == [bull[t] EXCEPT !.state = outcome, !.made = made]
    <3>1. bull[t] \in BullJob /\ made \in Nat
      BY <2>1 DEF TypeOK, RunsOK, BullJob
    <3> HIDE DEF made
    <3>2. b \in BullJob
      BY <3>1, Zenon DEF BullJob
    <3>3. bull' = [bull EXCEPT ![t] = b] \/ bull' = bull
      BY <1>2 DEF b, made
    <3> HIDE DEF b
    <3> QED BY <3>2, <3>3 DEF TypeOK, RunsOK
  <2>2. CASE t \notin Ticks
    <3>1. [bull EXCEPT ![t] = [bull[t] EXCEPT !.state = outcome, !.made = made]] = bull
      BY <2>2 DEF TypeOK, RunsOK
    <3> QED BY <1>2, <3>1 DEF TypeOK, RunsOK
  <2> QED BY <2>1, <2>2
<1> QED BY <1>1, <1>3, IdleIsLocals, RunChange DEF TypeOK

LEMMA CrashEffect ==
  ASSUME TypeOK, NEW w \in Workers, Crash(w)
  PROVE  RunsOK' /\ Others(w) /\ run'[w] = Idle
<1>1. run' = [run EXCEPT ![w] = Idle] /\ bull' = bull
  BY DEF Crash
<1> QED BY <1>1, IdleIsLocals, RunChange DEF TypeOK, RunsOK

\* The stalled check and the scheduler change a tick's BullMQ job only.
LEMMA RequeuedIsBullJobs ==
  ASSUME RunsOK, NEW t \in Ticks
  PROVE  Requeued(t) \in [Ticks -> BullJob]
<1> DEFINE state == IF bull[t].stalls < MaxStalls THEN "waiting" ELSE "failed"
           b == [bull[t] EXCEPT !.state = state, !.stalls = bull[t].stalls + 1]
<1>1. bull[t] \in BullJob /\ bull[t].stalls + 1 \in Nat
  BY DEF RunsOK, BullJob
<1>2. state \in {"waiting", "failed"}
  OBVIOUS
<1>3. Requeued(t) = [bull EXCEPT ![t] = b]
  BY DEF Requeued
<1> HIDE DEF state
<1>4. b \in BullJob
  BY <1>1, <1>2, Zenon DEF BullJob
<1> HIDE DEF b
<1> QED BY <1>3, <1>4 DEF RunsOK

LEMMA TicksEffect ==
  ASSUME TypeOK, NEW t \in Ticks, Tick(t) \/ StallDetected(t) \/ FalseStall(t)
  PROVE  RunsOK' /\ UNCHANGED run
<1>1. UNCHANGED run
  BY DEF Tick, StallDetected, FalseStall
<1>2. bull' \in [Ticks -> BullJob]
  <2>1. CASE Tick(t)
    <3> DEFINE b == [bull[t] EXCEPT !.state = "waiting"]
    <3>1. bull[t] \in BullJob
      BY DEF TypeOK, RunsOK
    <3>2. b \in BullJob
      BY <3>1, Zenon DEF BullJob
    <3>3. bull' = [bull EXCEPT ![t] = b]
      BY <2>1 DEF Tick
    <3> HIDE DEF b
    <3> QED BY <3>2, <3>3 DEF TypeOK, RunsOK
  <2>2. CASE StallDetected(t) \/ FalseStall(t)
    BY <2>2, RequeuedIsBullJobs DEF StallDetected, FalseStall, TypeOK
  <2> QED BY <2>1, <2>2
<1> QED BY <1>1, <1>2 DEF TypeOK, RunsOK

-----------------------------------------------------------------------------
\* What the transaction leaves in the tables.
LEMMA PersistEffect ==
  ASSUME TypeOK, NEW w \in Workers, run[w].pc = "commit", Persist(w)
  PROVE  LET l == Item(w)
             event == [job |-> l.url, company |-> l.company, processed |-> FALSE]
         IN  /\ l \in Listing /\ TablesOK'
             /\ committed' = committed \cup {l.posting}
             /\ companies' = companies \cup {l.company}
             /\ DOMAIN jobs' = DOMAIN jobs \cup {l.url}
             /\ \A u \in DOMAIN jobs : u # l.url => jobs'[u] = jobs[u]
             /\ jobs'[l.url].score = Score(l, run[w].isRepost)
             /\ jobs'[l.url].company = l.company
             /\ outbox' = Append(outbox, event) /\ event \in OutboxRow
             /\ event.job = l.url /\ event.company = l.company
<1> DEFINE l == Item(w)
           points == Score(l, run[w].isRepost)
           source == Sources[run[w].src]
           row == [score |-> points, company |-> l.company, posting |-> l.posting,
                   source |-> IF l.url \in DOMAIN jobs THEN jobs[l.url].source ELSE source]
           event == [job |-> l.url, company |-> l.company, processed |-> FALSE]
<1>1. run[w] \in Locals /\ Coherent(run[w])
  BY DEF TypeOK, RunsOK
<1>2. l \in Listing /\ run[w].isRepost \in BOOLEAN
  BY <1>1 DEF Item, Coherent, Locals
<1>3. source \in Boards
  <2>1. run[w].src \in 1..Len(Sources)
    BY <1>1 DEF Coherent
  <2> QED BY <2>1, ScraperAssumption
<1>4. points \in 0..85
  BY <1>2, ScoreIsBounded
<1>5. l.url \in Urls /\ l.company \in Companies /\ l.posting \in Postings
  BY <1>2 DEF Listing
<1>6. /\ companies' = companies \cup {l.company} /\ committed' = committed \cup {l.posting}
      /\ outbox' = Append(outbox, event)
      /\ jobs' = [u \in DOMAIN jobs \cup {l.url} |->
                    IF u # l.url THEN jobs[u]
                    ELSE [score |-> points, company |-> l.company, posting |-> l.posting,
                          source |-> IF u \in DOMAIN jobs THEN jobs[u].source ELSE source]]
  BY DEF Persist, Upsert
<1>7. event \in OutboxRow /\ event.job = l.url /\ event.company = l.company
  BY <1>5 DEF OutboxRow
<1>8. row.score = points /\ row.company = l.company
  OBVIOUS
<1> HIDE DEF points, source
<1>9. row \in Rows
  <2>1. l.url \in DOMAIN jobs => jobs[l.url].source \in Boards
    BY DEF TypeOK, TablesOK, Rows
  <2> QED BY <1>3, <1>4, <1>5, <2>1 DEF Rows
<1>10. /\ DOMAIN jobs' = DOMAIN jobs \cup {l.url}
       /\ \A u \in DOMAIN jobs : u # l.url => jobs'[u] = jobs[u]
       /\ jobs'[l.url] = row
  BY <1>6
<1>11. jobs' \in [DOMAIN jobs' -> Rows]
  <2>1. jobs' = [u \in DOMAIN jobs' |-> jobs'[u]]
    BY <1>6
  <2>2. \A u \in DOMAIN jobs' : jobs'[u] \in Rows
    BY <1>9, <1>10 DEF TypeOK, TablesOK
  <2> QED BY <2>1, <2>2
<1>12. outbox' \in Seq(OutboxRow)
  <2> HIDE DEF event
  <2> QED BY <1>6, <1>7 DEF TypeOK, TablesOK
<1>13. TablesOK'
  BY <1>5, <1>6, <1>10, <1>11, <1>12 DEF TypeOK, TablesOK
<1> QED BY <1>2, <1>6, <1>7, <1>8, <1>10, <1>13 DEF points

\* The state keeps its type, whatever fails.
LEMMA TypeStep ==
  ASSUME TypeOK, [Next]_vars
  PROVE  TypeOK'
<1>a. /\ budget \in [call : Nat, crash : Nat, lapse : Nat]
      /\ credit \in [Workers -> [Postings -> Nat]]
      /\ counter \in [Workers -> [accepted : Nat, rejected : Nat]]
      /\ outbox \in Seq(OutboxRow) /\ Len(outbox) \in Nat
      /\ run \in [Workers -> Locals]
  BY DEF TypeOK, RestOK, TablesOK, RunsOK
<1>b. \A kind \in {"call", "crash", "lapse"} :
        Spend(kind) => budget' \in [call : Nat, crash : Nat, lapse : Nat]
  <2> SUFFICES ASSUME NEW kind \in {"call", "crash", "lapse"}, Spend(kind)
               PROVE  budget' \in [call : Nat, crash : Nat, lapse : Nat]
    OBVIOUS
  <2>1. budget[kind] - 1 \in Nat
    BY <1>a DEF Spend
  <2> QED BY <1>a, <2>1 DEF Spend
<1>c. \A w \in Workers, k \in Postings : Pardon(w, k) => credit' \in [Workers -> [Postings -> Nat]]
  BY <1>a DEF Pardon
<1>d. ASSUME NEW w \in Workers, run[w].pc # "idle", SourceFails(w), TablesOK',
             repost' \subseteq Postings, dlq' \in Nat, committed' \subseteq Postings,
             credit' \in [Workers -> [Postings -> Nat]]
      PROVE  TypeOK'
  <2>1. RunsOK'
    BY <1>d, SourceFailsEffect
  <2>2. Len(outbox') \in Nat
    BY <1>d DEF TablesOK
  <2>3. RestOK'
    BY <1>b, <1>d, <2>2 DEF SourceFails, TypeOK, RestOK
  <2> QED BY <1>d, <2>1, <2>3 DEF TypeOK
<1>1. ASSUME NEW w \in Workers, NEW t \in Ticks, Take(w, t) PROVE TypeOK'
  BY <1>1, TakeEffect DEF Take, TypeOK, TablesOK, RestOK, tables, history
<1>2. ASSUME NEW t \in Ticks, Tick(t) \/ StallDetected(t) PROVE TypeOK'
  BY <1>2, TicksEffect DEF Tick, StallDetected, TypeOK, TablesOK, RestOK, tables, history
<1>3. ASSUME NEW t \in Ticks, FalseStall(t) PROVE TypeOK'
  BY <1>b, <1>3, TicksEffect DEF FalseStall, TypeOK, TablesOK, RestOK, tables, history
<1>4. ASSUME NEW w \in Workers, Fetch(w) PROVE TypeOK'
  BY <1>4, FetchEffect DEF Fetch, TypeOK, TablesOK, RestOK, tables, history
<1>5. ASSUME NEW w \in Workers, FetchFails(w) PROVE TypeOK'
  <2>1. SourceFails(w) /\ run[w].pc = "fetch" /\ UNCHANGED <<tables, repost, dlq, committed, credit>>
    BY <1>5 DEF FetchFails
  <2> QED BY <1>d, <2>1 DEF TypeOK, TablesOK, RestOK, tables
<1>6. ASSUME NEW w \in Workers, CheckRepost(w) PROVE TypeOK'
  <2>1. RunsOK' /\ UNCHANGED <<tables, repost, dlq, counter, committed, announced, excused>>
    BY <1>6, CheckRepostEffect DEF CheckRepost
  <2>2. budget' \in [call : Nat, crash : Nat, lapse : Nat]
    BY <1>a, <1>b, <1>6 DEF CheckRepost
  <2>3. credit' \in [Workers -> [Postings -> Nat]]
    <3>1. PICK l \in Listing : credit' = [credit EXCEPT ![w][l.posting] = 0] \/ UNCHANGED credit
      BY <1>6, CheckRepostEffect
    <3>2. l.posting \in Postings
      BY DEF Listing
    <3>3. CASE UNCHANGED credit
      BY <1>a, <3>3
    <3>4. CASE credit' = [credit EXCEPT ![w][l.posting] = 0]
      BY <1>a, <3>2, <3>4, CreditSet
    <3> QED BY <3>1, <3>3, <3>4
  <2> QED BY <2>1, <2>2, <2>3 DEF TypeOK, TablesOK, RestOK, tables
<1>7. ASSUME NEW w \in Workers, Reject(w) PROVE TypeOK'
  <2>1. dlq' \in Nat
    BY <1>7 DEF Reject, TypeOK, RestOK
  <2> QED BY <1>7, <2>1, RejectEffect DEF Reject, TypeOK, TablesOK, RestOK, tables, history
<1>8. ASSUME NEW w \in Workers, RejectFails(w) PROVE TypeOK'
  <2>1. SourceFails(w) /\ run[w].pc = "reject" /\ UNCHANGED <<tables, repost, committed, credit>>
        /\ dlq' \in {dlq, dlq + 1}
    BY <1>8 DEF RejectFails
  <2>2. dlq' \in Nat
    BY <2>1 DEF TypeOK, RestOK
  <2> QED BY <1>d, <2>1, <2>2 DEF TypeOK, TablesOK, RestOK, tables
<1>9. ASSUME NEW w \in Workers, Commit(w) PROVE TypeOK'
  <2>1. TablesOK' /\ committed' \subseteq Postings
    BY <1>9, PersistEffect DEF Commit, TypeOK, RestOK, Listing
  <2>2. RunsOK' /\ UNCHANGED <<repost, dlq, counter, budget, announced, excused>>
    BY <1>9, CommitEffect DEF Commit
  <2>3. credit' \in [Workers -> [Postings -> Nat]]
    <3>1. PICK k \in Postings : k = Item(w).posting
      BY <1>9, CommitEffect, ItemIsListing
    <3>2. credit' = credit \/ credit' = [credit EXCEPT ![w][k] = credit[w][k] + 1]
      BY <1>9, <3>1 DEF Commit
    <3>3. credit[w][k] + 1 \in Nat
      BY <1>a
    <3>4. CASE credit' = [credit EXCEPT ![w][k] = credit[w][k] + 1]
      BY <1>a, <3>3, <3>4, CreditSet
    <3> QED BY <1>a, <3>2, <3>4
  <2> QED BY <2>1, <2>2, <2>3 DEF TypeOK, RestOK
<1>10. ASSUME NEW w \in Workers, CommitFails(w) PROVE TypeOK'
  <2>1. SourceFails(w) /\ run[w].pc = "commit" /\ UNCHANGED <<repost, dlq, credit>>
    BY <1>10 DEF CommitFails
  <2>2. TablesOK' /\ committed' \subseteq Postings
    <3>1. CASE UNCHANGED <<tables, committed>>
      BY <3>1 DEF TypeOK, TablesOK, RestOK, tables
    <3>2. CASE Persist(w)
      BY <2>1, <3>2, PersistEffect DEF TypeOK, RestOK, Listing
    <3> QED BY <1>10, <3>1, <3>2 DEF CommitFails
  <2> QED BY <1>d, <2>1, <2>2 DEF TypeOK, RestOK
<1>11. ASSUME NEW w \in Workers, Remember(w) PROVE TypeOK'
  BY <1>11, RememberEffect DEF Remember, TypeOK, TablesOK, RestOK, tables, history, Listing
<1>12. ASSUME NEW w \in Workers, RememberFails(w) PROVE TypeOK'
  <2>1. SourceFails(w) /\ run[w].pc = "remember" /\ UNCHANGED <<tables, dlq, committed>>
    BY <1>12 DEF RememberFails
  <2>2. Item(w).posting \in Postings
    BY <2>1, ItemIsListing
  <2>3. repost' \subseteq Postings /\ credit' \in [Workers -> [Postings -> Nat]]
    BY <1>a, <1>c, <1>12, <2>2 DEF RememberFails, TypeOK, RestOK
  <2> QED BY <1>d, <2>1, <2>3 DEF TypeOK, TablesOK, RestOK, tables
<1>13. ASSUME NEW w \in Workers, Publish(w) \/ NothingStored(w) PROVE TypeOK'
  <2>1. run[w].accepted \in Nat /\ run[w].rejected \in Nat
    BY <1>a DEF Locals
  <2>2. counter' \in [Workers -> [accepted : Nat, rejected : Nat]]
    <3>1. CASE Publish(w)
      BY <1>a, <2>1, <3>1 DEF Publish
    <3>2. CASE NothingStored(w)
      <4> DEFINE c == [counter[w] EXCEPT !.rejected = counter[w].rejected + run[w].rejected]
      <4>1. counter' = [counter EXCEPT ![w] = c]
        BY <3>2 DEF NothingStored
      <4>2. counter[w] \in [accepted : Nat, rejected : Nat]
            /\ counter[w].rejected + run[w].rejected \in Nat
        BY <1>a, <2>1
      <4>3. c \in [accepted : Nat, rejected : Nat]
        BY <4>2, Zenon
      <4> HIDE DEF c
      <4> QED BY <1>a, <4>1, <4>3
    <3> QED BY <1>13, <3>1, <3>2
  <2>3. RunsOK' /\ UNCHANGED <<tables, repost, dlq, budget, committed, credit, excused>>
        /\ announced' \in Nat
    BY <1>a, <1>13, SourceDoneEffect DEF Publish, NothingStored, history, TypeOK, RestOK
  <2> QED BY <2>2, <2>3 DEF TypeOK, TablesOK, RestOK, tables
<1>14. ASSUME NEW w \in Workers, PublishFails(w) PROVE TypeOK'
  <2>1. SourceFails(w) /\ run[w].pc = "loop" /\ UNCHANGED <<tables, repost, dlq, committed, credit>>
    BY <1>14 DEF PublishFails
  <2> QED BY <1>d, <2>1 DEF TypeOK, TablesOK, RestOK, tables
<1>15. ASSUME NEW w \in Workers, Finish(w) PROVE TypeOK'
  BY <1>15, FinishEffect DEF Finish, TypeOK, TablesOK, RestOK, tables, history
<1>16. ASSUME NEW w \in Workers, Crash(w) PROVE TypeOK'
  <2>1. RunsOK' /\ UNCHANGED <<tables, repost, dlq, committed, announced>>
    BY <1>16, CrashEffect DEF Crash
  <2>2. excused' \in Nat /\ budget' \in [call : Nat, crash : Nat, lapse : Nat]
    BY <1>a, <1>b, <1>16 DEF Crash
  <2>3. counter' \in [Workers -> [accepted : Nat, rejected : Nat]]
    BY <1>a, <1>16 DEF Crash
  <2>4. credit' \in [Workers -> [Postings -> Nat]]
    <3>1. run[w].pc = "remember" => Item(w).posting \in Postings
      BY ItemIsListing
    <3> QED BY <1>a, <1>c, <1>16, <3>1 DEF Crash
  <2> QED BY <2>1, <2>2, <2>3, <2>4 DEF TypeOK, TablesOK, RestOK, tables
<1>17. ASSUME NEW k \in Postings, KeyExpires(k) PROVE TypeOK'
  <2>1. UNCHANGED <<tables, dlq, bull, run, counter, committed, announced, excused>>
    BY <1>17 DEF KeyExpires
  <2>2. budget' \in [call : Nat, crash : Nat, lapse : Nat]
    BY <1>b, <1>17 DEF KeyExpires
  <2>3. repost' \subseteq Postings /\ credit' \in [Workers -> [Postings -> Nat]]
    BY <1>a, <1>17 DEF KeyExpires, TypeOK, RestOK
  <2> QED BY <2>1, <2>2, <2>3 DEF TypeOK, TablesOK, RunsOK, RestOK, tables
<1>18. CASE UNCHANGED vars
  BY <1>18 DEF vars, TypeOK, TablesOK, RunsOK, RestOK, tables, history
<1> QED
  BY <1>1, <1>2, <1>3, <1>4, <1>5, <1>6, <1>7, <1>8, <1>9, <1>10, <1>11, <1>12, <1>13,
     <1>14, <1>15, <1>16, <1>17, <1>18 DEF Next, Step

LEMMA TypeInit == Init => TypeOK
<1> SUFFICES ASSUME Init PROVE TypeOK
  OBVIOUS
<1>1. RunsOK
  BY IdleIsLocals, ScraperAssumption DEF Init, RunsOK, BullJob
<1>2. TablesOK
  BY DEF Init, TablesOK
<1>3. RestOK
  BY ScraperAssumption DEF Init, RestOK
<1> QED BY <1>1, <1>2, <1>3 DEF TypeOK

\* The tables, the locals of every worker and the BullMQ jobs keep their types,
\* and a worker that handles a listing has it in its feed.
THEOREM TypeCorrect == Spec => []TypeOK
BY TypeInit, TypeStep, PTL DEF Spec

-----------------------------------------------------------------------------
\* What a step can do to the tables, the keys and the locals, whoever takes it.
LEMMA StoreStep ==
  ASSUME [Next]_vars
  PROVE  \/ UNCHANGED <<jobs, companies, outbox, committed>>
         \/ \E w \in Workers : run[w].pc = "commit" /\ Persist(w)
<1>1. CASE \E w \in Workers : Commit(w) \/ CommitFails(w)
  BY <1>1 DEF Commit, CommitFails, tables
<1>2. CASE \E w \in Workers : Step(w) /\ ~Commit(w) /\ ~CommitFails(w)
  BY <1>2 DEF Step, Fetch, FetchFails, CheckRepost, Reject, RejectFails, Remember, RememberFails,
              Publish, PublishFails, NothingStored, Finish, tables, history
<1>3. CASE \E w \in Workers : Crash(w) \/ \E t \in Ticks : Take(w, t)
  BY <1>3 DEF Crash, Take, tables, history
<1>4. CASE \E t \in Ticks : Tick(t) \/ StallDetected(t) \/ FalseStall(t)
  BY <1>4 DEF Tick, StallDetected, FalseStall, tables, history
<1>5. CASE \E k \in Postings : KeyExpires(k)
  BY <1>5 DEF KeyExpires, tables
<1>6. CASE UNCHANGED vars
  BY <1>6 DEF vars, tables, history
<1> QED BY <1>1, <1>2, <1>3, <1>4, <1>5, <1>6 DEF Next

LEMMA KeysStep ==
  ASSUME [Next]_vars, NEW k \in repost'
  PROVE  k \in repost \/ \E w \in Workers : run[w].pc = "remember" /\ k = Item(w).posting
<1>1. CASE \E w \in Workers : Remember(w) \/ RememberFails(w)
  BY <1>1 DEF Remember, RememberFails
<1>2. CASE \E w \in Workers : Step(w) /\ ~Remember(w) /\ ~RememberFails(w)
  BY <1>2 DEF Step, Fetch, FetchFails, CheckRepost, Reject, RejectFails, Commit, CommitFails,
              Publish, PublishFails, NothingStored, Finish
<1>3. CASE \E w \in Workers : Crash(w) \/ \E t \in Ticks : Take(w, t)
  BY <1>3 DEF Crash, Take
<1>4. CASE \E t \in Ticks : Tick(t) \/ StallDetected(t) \/ FalseStall(t)
  BY <1>4 DEF Tick, StallDetected, FalseStall
<1>5. CASE \E j \in Postings : KeyExpires(j)
  BY <1>5 DEF KeyExpires
<1>6. CASE UNCHANGED vars
  BY <1>6 DEF vars
<1> QED BY <1>1, <1>2, <1>3, <1>4, <1>5, <1>6 DEF Next

LEMMA LocalsStep ==
  ASSUME TypeOK, [Next]_vars, NEW v \in Workers
  PROVE  \/ run'[v] = run[v] \/ run'[v].pc \notin {"commit", "remember"}
         \/ CheckRepost(v) \/ Commit(v)
<1>1. ASSUME NEW w \in Workers, SourceFails(w), run[w].pc # "idle"
      PROVE  run'[v] = run[v] \/ run'[v].pc \in {"fetch", "finish"}
  BY <1>1, SourceFailsEffect DEF Others
<1>2. ASSUME NEW w \in Workers, Step(w), ~Commit(w), ~CheckRepost(w)
      PROVE  run'[v] = run[v] \/ run'[v].pc \notin {"commit", "remember"}
  <2>1. CASE FetchFails(w) \/ RejectFails(w) \/ CommitFails(w) \/ RememberFails(w) \/ PublishFails(w)
    BY <1>1, <2>1 DEF FetchFails, RejectFails, CommitFails, RememberFails, PublishFails
  <2>2. CASE Fetch(w)
    BY <2>2, FetchEffect DEF Others
  <2>3. CASE Reject(w)
    BY <2>3, RejectEffect DEF Others
  <2>4. CASE Remember(w)
    BY <2>4, RememberEffect DEF Others
  <2>5. CASE Publish(w) \/ NothingStored(w)
    BY <2>5, SourceDoneEffect DEF Others
  <2>6. CASE Finish(w)
    BY <2>6, FinishEffect DEF Others, Idle
  <2> QED BY <1>2, <2>1, <2>2, <2>3, <2>4, <2>5, <2>6 DEF Step
<1>3. ASSUME NEW w \in Workers, Commit(w) \/ CheckRepost(w)
      PROVE  run'[v] = run[v] \/ CheckRepost(v) \/ Commit(v)
  BY <1>3, CommitEffect, CheckRepostEffect DEF Others
<1>4. ASSUME NEW w \in Workers, Crash(w) \/ \E t \in Ticks : Take(w, t)
      PROVE  run'[v] = run[v] \/ run'[v].pc \notin {"commit", "remember"}
  BY <1>4, CrashEffect, TakeEffect DEF Others, Idle
<1>5. CASE \E t \in Ticks : Tick(t) \/ StallDetected(t) \/ FalseStall(t)
  BY <1>5, TicksEffect
<1>6. CASE \E k \in Postings : KeyExpires(k)
  BY <1>6 DEF KeyExpires
<1>7. CASE UNCHANGED vars
  BY <1>7 DEF vars
<1> QED BY <1>2, <1>3, <1>4, <1>5, <1>6, <1>7 DEF Next

-----------------------------------------------------------------------------
\* A worker that is about to write a key has stored the listing.
StoredFirst ==
  RepostKeyJustified
  /\ \A w \in Workers : run[w].pc = "remember" => Item(w).posting \in committed

LEMMA StoredFirstStep ==
  ASSUME TypeOK, StoredFirst, [Next]_vars
  PROVE  StoredFirst'
<1>1. committed \subseteq committed'
  BY StoreStep DEF Persist
<1>2. repost' \subseteq committed'
  BY <1>1, KeysStep DEF StoredFirst, RepostKeyJustified
<1>3. ASSUME NEW w \in Workers, run'[w].pc = "remember"
      PROVE  Item(w)'.posting \in committed'
  <2>1. CASE run'[w] = run[w]
    <3>1. Item(w)' = Item(w)
      BY <2>1 DEF Item
    <3> QED BY <1>1, <1>3, <2>1, <3>1 DEF StoredFirst
  <2>2. CASE CheckRepost(w)
    BY <1>3, <2>2, CheckRepostEffect
  <2>3. CASE Commit(w)
    <3>1. Item(w)' = Item(w)
      BY <2>3, CommitEffect
    <3>2. Item(w).posting \in committed'
      BY <2>3 DEF Commit, Persist
    <3> QED BY <3>1, <3>2
  <2> QED BY <1>3, <2>1, <2>2, <2>3, LocalsStep
<1> QED BY <1>2, <1>3 DEF StoredFirst, RepostKeyJustified

\* The comment "Write repost key only after successful transaction" holds in
\* every interleaving and after every failure: a repost key stands for a
\* posting that a transaction has stored.
THEOREM KeysAreJustified == Spec => []RepostKeyJustified
<1>1. Init => StoredFirst
  BY DEF Init, StoredFirst, RepostKeyJustified, Idle
<1>2. TypeOK /\ StoredFirst /\ [Next]_vars => StoredFirst'
  BY StoredFirstStep
<1>3. StoredFirst => RepostKeyJustified
  BY DEF StoredFirst
<1> QED BY <1>1, <1>2, <1>3, TypeCorrect, PTL DEF Spec

-----------------------------------------------------------------------------
\* A worker that is about to store a listing has accepted it.
AcceptedFirst ==
  StoredRowsQualify
  /\ \A w \in Workers : run[w].pc = "commit" => Accepts(Item(w), run[w].isRepost)

LEMMA AcceptedFirstStep ==
  ASSUME TypeOK, AcceptedFirst, [Next]_vars
  PROVE  AcceptedFirst'
<1>1. StoredRowsQualify'
  <2>1. CASE UNCHANGED <<jobs, companies, outbox, committed>>
    BY <2>1 DEF AcceptedFirst, StoredRowsQualify
  <2>2. ASSUME NEW w \in Workers, run[w].pc = "commit", Persist(w)
        PROVE  StoredRowsQualify'
    <3> DEFINE l == Item(w)
    <3>1. l \in Listing /\ Accepts(l, run[w].isRepost) /\ run[w].isRepost \in BOOLEAN
      BY <2>2, ItemIsListing DEF AcceptedFirst, TypeOK, RunsOK, Locals
    <3>2. Score(l, run[w].isRepost) \in Threshold..85
      BY <3>1, AcceptedScore
    <3>3. /\ companies' = companies \cup {l.company}
          /\ DOMAIN jobs' = DOMAIN jobs \cup {l.url}
          /\ \A u \in DOMAIN jobs : u # l.url => jobs'[u] = jobs[u]
          /\ jobs'[l.url].score = Score(l, run[w].isRepost)
          /\ jobs'[l.url].company = l.company
      BY <2>2, PersistEffect
    <3> HIDE DEF l
    <3> QED BY <3>2, <3>3 DEF AcceptedFirst, StoredRowsQualify
  <2> QED BY <2>1, <2>2, StoreStep
<1>2. ASSUME NEW w \in Workers, run'[w].pc = "commit"
      PROVE  Accepts(Item(w)', run'[w].isRepost)
  <2>1. CASE run'[w] = run[w]
    <3>1. Item(w)' = Item(w)
      BY <2>1 DEF Item
    <3> QED BY <1>2, <2>1, <3>1 DEF AcceptedFirst
  <2>2. CASE CheckRepost(w)
    BY <1>2, <2>2, CheckRepostEffect
  <2>3. CASE Commit(w)
    BY <1>2, <2>3, CommitEffect
  <2> QED BY <1>2, <2>1, <2>2, <2>3, LocalsStep
<1> QED BY <1>1, <1>2 DEF AcceptedFirst, Accepts, Score

\* Whatever a worker read of the repost keys, and however much the keys changed
\* between its read and its commit, a stored row has a score from the threshold
\* to 85, and its company is in the companies table.
THEOREM RowsQualify == Spec => []StoredRowsQualify
<1>1. Init => AcceptedFirst
  BY DEF Init, AcceptedFirst, StoredRowsQualify, Idle
<1>2. TypeOK /\ AcceptedFirst /\ [Next]_vars => AcceptedFirst'
  BY AcceptedFirstStep
<1>3. AcceptedFirst => StoredRowsQualify
  BY DEF AcceptedFirst
<1> QED BY <1>1, <1>2, <1>3, TypeCorrect, PTL DEF Spec

-----------------------------------------------------------------------------
\* What a step can do to the credit of worker v for posting k: it is counted at
\* v's commit of a first sighting, or forgotten, and it is forgotten when the key
\* lapses and when v leaves "remember" without it.
LEMMA CreditStep ==
  ASSUME TypeOK, [Next]_vars, NEW v \in Workers, NEW k \in Postings
  PROVE  /\ \/ credit'[v][k] \in {0, credit[v][k]}
            \/ /\ Commit(v) /\ ~run[v].isRepost /\ k = Item(v).posting
               /\ credit'[v][k] = credit[v][k] + 1
         /\ k \in repost => k \in repost' \/ credit'[v][k] = 0
         /\ run[v].pc = "remember" /\ k = Item(v).posting =>
              run'[v] = run[v] \/ k \in repost' \/ credit'[v][k] = 0
<1> DEFINE Goal ==
      /\ \/ credit'[v][k] \in {0, credit[v][k]}
         \/ /\ Commit(v) /\ ~run[v].isRepost /\ k = Item(v).posting
            /\ credit'[v][k] = credit[v][k] + 1
      /\ k \in repost => k \in repost' \/ credit'[v][k] = 0
      /\ run[v].pc = "remember" /\ k = Item(v).posting =>
           run'[v] = run[v] \/ k \in repost' \/ credit'[v][k] = 0
<1>a. credit \in [Workers -> [Postings -> Nat]] /\ 0 \in Nat
  BY DEF TypeOK, RestOK
<1>b. ASSUME NEW w \in Workers, NEW j \in Postings, Pardon(w, j)
      PROVE  /\ credit'[w][j] = 0
             /\ \A u \in Workers, i \in Postings : u # w \/ i # j => credit'[u][i] = credit[u][i]
  BY <1>a, <1>b, CreditSet DEF Pardon
<1>c. ASSUME NEW w \in Workers, run[w].pc # "idle", SourceFails(w) PROVE Others(w)
  BY <1>c, SourceFailsEffect
<1>1. ASSUME NEW w \in Workers, UNCHANGED <<repost, credit>>, run[w].pc # "remember", Others(w)
      PROVE  Goal
  BY <1>1 DEF Others
<1>2. ASSUME NEW w \in Workers, Step(w), ~Commit(w), ~CheckRepost(w), ~Remember(w), ~RememberFails(w)
      PROVE  Goal
  <2>1. CASE FetchFails(w) \/ RejectFails(w) \/ CommitFails(w) \/ PublishFails(w)
    BY <1>1, <1>c, <2>1 DEF FetchFails, RejectFails, CommitFails, PublishFails
  <2>2. CASE Fetch(w) \/ Reject(w)
    BY <1>1, <2>2, FetchEffect, RejectEffect DEF Fetch, Reject, history
  <2>3. CASE Publish(w) \/ NothingStored(w) \/ Finish(w)
    BY <1>1, <2>3, SourceDoneEffect, FinishEffect DEF Publish, NothingStored, Finish, history
  <2> QED BY <1>2, <2>1, <2>2, <2>3 DEF Step
<1>3. ASSUME NEW w \in Workers, CheckRepost(w) PROVE Goal
  <2>1. Others(w) /\ run[w].pc = "loop" /\ repost' = repost
    BY <1>3, CheckRepostEffect DEF CheckRepost
  <2>2. PICK l \in Listing : credit' = [credit EXCEPT ![w][l.posting] = 0] \/ UNCHANGED credit
    BY <1>3, CheckRepostEffect
  <2>3. l.posting \in Postings
    BY DEF Listing
  <2>4. credit'[v][k] \in {0, credit[v][k]}
    BY <1>b, <2>2, <2>3 DEF Pardon
  <2> QED BY <2>1, <2>4 DEF Others
<1>4. ASSUME NEW w \in Workers, Commit(w) PROVE Goal
  <2>1. Others(w) /\ run[w].pc = "commit" /\ repost' = repost
    BY <1>4, CommitEffect DEF Commit
  <2>2. PICK j \in Postings : j = Item(w).posting
    BY <2>1, ItemIsListing
  <2>3. credit[w][j] + 1 \in Nat
    BY <1>a
  <2>4. \/ credit' = credit
        \/ ~run[w].isRepost /\ credit' = [credit EXCEPT ![w][j] = credit[w][j] + 1]
    BY <1>4, <2>2 DEF Commit
  <2>5. \/ credit'[v][k] = credit[v][k]
        \/ v = w /\ k = j /\ ~run[w].isRepost /\ credit'[v][k] = credit[v][k] + 1
    <3>1. CASE ~run[w].isRepost /\ credit' = [credit EXCEPT ![w][j] = credit[w][j] + 1]
      BY <1>a, <2>3, <3>1, CreditSet
    <3> QED BY <2>4, <3>1
  <2> QED BY <1>4, <2>1, <2>2, <2>5 DEF Others
<1>5. ASSUME NEW w \in Workers, Remember(w) PROVE Goal
  BY <1>5, RememberEffect DEF Remember, Others, history
<1>6. ASSUME NEW w \in Workers, RememberFails(w) PROVE Goal
  <2>1. Others(w) /\ run[w].pc = "remember" /\ repost \subseteq repost'
    BY <1>6, <1>c DEF RememberFails
  <2>2. PICK j \in Postings : j = Item(w).posting
    BY <2>1, ItemIsListing
  <2>3. Pardon(w, j) \/ (j \in repost' /\ UNCHANGED credit)
    BY <1>6, <2>2 DEF RememberFails
  <2> QED BY <1>b, <2>1, <2>2, <2>3 DEF Others
<1>7. ASSUME NEW w \in Workers, Crash(w) PROVE Goal
  <2>1. Others(w) /\ repost' = repost
    BY <1>7, CrashEffect DEF Crash
  <2>2. CASE run[w].pc = "remember"
    <3>1. PICK j \in Postings : j = Item(w).posting
      BY <2>2, ItemIsListing
    <3>2. Pardon(w, j)
      BY <1>7, <2>2, <3>1 DEF Crash
    <3> QED BY <1>b, <2>1, <3>1, <3>2 DEF Others
  <2>3. CASE run[w].pc # "remember"
    BY <1>1, <1>7, <2>1, <2>3 DEF Crash
  <2> QED BY <2>2, <2>3
<1>8. ASSUME NEW w \in Workers, NEW t \in Ticks, Take(w, t) PROVE Goal
  BY <1>1, <1>8, TakeEffect DEF Take, history
<1>9. ASSUME NEW t \in Ticks, Tick(t) \/ StallDetected(t) \/ FalseStall(t) PROVE Goal
  BY <1>9, TicksEffect DEF Tick, StallDetected, FalseStall, history
<1>10. ASSUME NEW j \in Postings, KeyExpires(j) PROVE Goal
  <2>1. credit'[v] = [credit[v] EXCEPT ![j] = 0] /\ repost' = repost \ {j} /\ UNCHANGED run
    BY <1>10 DEF KeyExpires
  <2> QED BY <1>a, <2>1
<1>11. CASE UNCHANGED vars
  BY <1>11 DEF vars, history
<1> QED
  BY <1>2, <1>3, <1>4, <1>5, <1>6, <1>7, <1>8, <1>9, <1>10, <1>11 DEF Next

\* A posting that has been credited is one whose key is set or about to be, and
\* a worker about to store a first sighting has not been credited for it.
CreditIsKeyed ==
  /\ \A w \in Workers, k \in Postings :
       credit[w][k] # 0 =>
         /\ credit[w][k] = 1
         /\ k \in repost \/ (run[w].pc = "remember" /\ k = Item(w).posting)
  /\ \A w \in Workers :
       run[w].pc = "commit" /\ ~run[w].isRepost => credit[w][Item(w).posting] = 0

LEMMA CreditIsKeyedStep ==
  ASSUME TypeOK, TypeOK', CreditIsKeyed, [Next]_vars
  PROVE  CreditIsKeyed'
<1>a. credit \in [Workers -> [Postings -> Nat]]
  BY DEF TypeOK, RestOK
<1>1. ASSUME NEW w \in Workers, NEW k \in Postings, credit'[w][k] # 0
      PROVE  credit'[w][k] = 1 /\ (k \in repost' \/ (run'[w].pc = "remember" /\ k = Item(w)'.posting))
  <2>1. CASE Commit(w) /\ ~run[w].isRepost /\ k = Item(w).posting /\ credit'[w][k] = credit[w][k] + 1
    <3>1. run[w].pc = "commit" /\ run'[w].pc = "remember" /\ Item(w)' = Item(w)
      BY <2>1, CommitEffect
    <3>2. credit[w][k] = 0
      BY <2>1, <3>1 DEF CreditIsKeyed
    <3> QED BY <2>1, <3>1, <3>2
  <2>2. CASE credit'[w][k] = credit[w][k]
    <3>1. credit[w][k] = 1 /\ (k \in repost \/ (run[w].pc = "remember" /\ k = Item(w).posting))
      BY <1>1, <2>2 DEF CreditIsKeyed
    <3>2. CASE k \in repost
      BY <1>1, <2>2, <3>1, <3>2, CreditStep
    <3>3. CASE run[w].pc = "remember" /\ k = Item(w).posting
      <4>1. run'[w] = run[w] \/ k \in repost'
        BY <1>1, <3>3, CreditStep
      <4>2. run'[w] = run[w] => Item(w)' = Item(w)
        BY DEF Item
      <4> QED BY <2>2, <3>1, <3>3, <4>1, <4>2
    <3> QED BY <3>1, <3>2, <3>3
  <2> QED BY <1>1, <2>1, <2>2, CreditStep
<1>2. ASSUME NEW w \in Workers, run'[w].pc = "commit", ~run'[w].isRepost
      PROVE  credit'[w][Item(w)'.posting] = 0
  <2>1. PICK k \in Postings : k = Item(w)'.posting
    <3>1. run'[w] \in Locals /\ Coherent(run'[w])
      BY DEF TypeOK, RunsOK
    <3>2. Coherent(run'[w]) = Coherent(run[w])'
      BY DEF Coherent
    <3>3. run'[w].feed[run'[w].item] \in Listing
      BY <1>2, <3>1 DEF Coherent, Locals
    <3> QED BY <3>3 DEF Item, Listing
  <2>2. CASE run'[w] = run[w]
    <3>1. Item(w)' = Item(w)
      BY <2>2 DEF Item
    <3>2. credit[w][k] = 0
      BY <1>2, <2>1, <2>2, <3>1 DEF CreditIsKeyed
    <3>3. ~Commit(w)
      BY <1>2, <2>2, CommitEffect
    <3> QED BY <2>1, <3>2, <3>3, CreditStep
  <2>3. CASE CheckRepost(w)
    <3>1. CASE credit' = [credit EXCEPT ![w][k] = 0]
      BY <1>a, <2>1, <3>1, CreditSet
    <3>2. CASE UNCHANGED credit /\ k \notin repost
      <4>1. run[w].pc = "loop"
        BY <2>3, CheckRepostEffect
      <4>2. credit[w][k] = 0
        BY <3>2, <4>1 DEF CreditIsKeyed
      <4> QED BY <2>1, <3>2, <4>2
    <3> QED BY <1>2, <2>1, <2>3, <3>1, <3>2, CheckRepostEffect
  <2>4. CASE Commit(w)
    BY <1>2, <2>4, CommitEffect
  <2> QED BY <1>2, <2>2, <2>3, <2>4, LocalsStep
<1> QED BY <1>1, <1>2 DEF CreditIsKeyed

\* A worker counts a posting as first seen at most once while its key lives: the
\* twenty points are not given again, whatever the other workers do, unless the
\* bookkeeping of that very posting failed.
THEOREM FirstSeenIsCreditedOnce == Spec => []FirstSeenOncePerWorker
<1>1. Init => CreditIsKeyed
  BY DEF Init, CreditIsKeyed, Idle
<1>2. TypeOK /\ TypeOK' /\ CreditIsKeyed /\ [Next]_vars => CreditIsKeyed'
  BY CreditIsKeyedStep
<1>3. CreditIsKeyed => FirstSeenOncePerWorker
  BY DEF CreditIsKeyed, FirstSeenOncePerWorker
<1> QED BY <1>1, <1>2, <1>3, TypeCorrect, PTL DEF Spec

-----------------------------------------------------------------------------
\* A worker that has stored something it has not announced.
Owes(w) == run[w].accepted > 0 \/ run[w].pc = "remember"

\* Whatever is neither announced nor excused is owed by a worker, and a worker
\* owes nothing before it reads a feed and after its last board.
AnnouncedOrOwed ==
  /\ Len(outbox) \in {announced, excused} \/ \E w \in Workers : Owes(w)
  /\ \A w \in Workers : run[w].pc \in {"idle", "fetch", "finish"} => run[w].accepted = 0

\* A step settles the outbox, or it leaves the outbox as it is.
LEMMA SettlesOrKeeps ==
  ASSUME TypeOK, [Next]_vars
  PROVE  \/ Len(outbox') \in {announced', excused'}
         \/ \E w \in Workers : Commit(w)
         \/ UNCHANGED <<outbox, announced, excused>>
<1>1. ASSUME NEW w \in Workers, Step(w), ~Commit(w)
      PROVE  Len(outbox') \in {announced', excused'} \/ UNCHANGED <<outbox, announced, excused>>
  <2>1. CASE FetchFails(w) \/ RejectFails(w) \/ CommitFails(w) \/ RememberFails(w) \/ PublishFails(w)
    BY <2>1 DEF FetchFails, RejectFails, CommitFails, RememberFails, PublishFails, SourceFails
  <2>2. CASE Publish(w)
    BY <2>2 DEF Publish, tables
  <2>3. CASE Fetch(w) \/ CheckRepost(w) \/ Reject(w) \/ Remember(w) \/ NothingStored(w) \/ Finish(w)
    BY <2>3 DEF Fetch, CheckRepost, Reject, Remember, NothingStored, Finish, tables, history
  <2> QED BY <1>1, <2>1, <2>2, <2>3 DEF Step
<1>2. ASSUME NEW w \in Workers, Crash(w) PROVE Len(outbox') = excused'
  BY <1>2 DEF Crash, tables
<1>3. CASE \E w \in Workers, t \in Ticks : Take(w, t)
  BY <1>3 DEF Take, tables, history
<1>4. CASE \E t \in Ticks : Tick(t) \/ StallDetected(t) \/ FalseStall(t)
  BY <1>4 DEF Tick, StallDetected, FalseStall, tables, history
<1>5. CASE \E k \in Postings : KeyExpires(k)
  BY <1>5 DEF KeyExpires, tables
<1>6. CASE UNCHANGED vars
  BY <1>6 DEF vars, tables, history
<1> QED BY <1>1, <1>2, <1>3, <1>4, <1>5, <1>6 DEF Next

\* A debt is settled, or it stays; and the locals between boards hold none.
LEMMA DebtsStay ==
  ASSUME TypeOK, AnnouncedOrOwed, [Next]_vars, NEW v \in Workers
  PROVE  /\ run'[v].pc \in {"idle", "fetch", "finish"} => run'[v].accepted = 0
         /\ Owes(v) => Owes(v)' \/ Len(outbox') \in {announced', excused'}
<1> DEFINE Goal ==
      /\ run'[v].pc \in {"idle", "fetch", "finish"} => run'[v].accepted = 0
      /\ Owes(v) => Owes(v)' \/ Len(outbox') \in {announced', excused'}
<1>a. \A w \in Workers : run[w].accepted \in Nat
  BY DEF TypeOK, RunsOK, Locals
<1>b. ASSUME NEW w \in Workers, Others(w), v # w PROVE Goal
  BY <1>b DEF Others, AnnouncedOrOwed, Owes
<1>c. ASSUME NEW w \in Workers, Others(w),
             run'[w].pc \in {"idle", "fetch", "finish"} => run'[w].accepted = 0,
             Owes(w) => Owes(w)' \/ Len(outbox') \in {announced', excused'}
      PROVE  Goal
  BY <1>b, <1>c
<1>d. ASSUME NEW w \in Workers, run[w].pc # "idle", SourceFails(w) PROVE Goal
  <2>1. Others(w) /\ run'[w].pc \in {"fetch", "finish"} /\ run'[w].accepted = 0
    BY <1>d, SourceFailsEffect
  <2>2. Len(outbox') = excused'
    BY <1>d DEF SourceFails
  <2> QED BY <1>c, <2>1, <2>2
<1>1. ASSUME NEW w \in Workers,
             FetchFails(w) \/ RejectFails(w) \/ CommitFails(w) \/ RememberFails(w) \/ PublishFails(w)
      PROVE  Goal
  BY <1>1, <1>d DEF FetchFails, RejectFails, CommitFails, RememberFails, PublishFails
<1>2. ASSUME NEW w \in Workers, Fetch(w) PROVE Goal
  BY <1>2, <1>a, <1>c, FetchEffect DEF Owes, AnnouncedOrOwed
<1>3. ASSUME NEW w \in Workers, CheckRepost(w) PROVE Goal
  BY <1>3, <1>c, CheckRepostEffect DEF Owes
<1>4. ASSUME NEW w \in Workers, Reject(w) PROVE Goal
  BY <1>4, <1>c, RejectEffect DEF Owes
<1>5. ASSUME NEW w \in Workers, Commit(w) PROVE Goal
  <2>1. Others(w) /\ run'[w].pc \in {"loop", "remember"} /\ Owes(w)'
    BY <1>5, <1>a, CommitEffect DEF Owes
  <2> QED BY <1>c, <2>1
<1>6. ASSUME NEW w \in Workers, Remember(w) PROVE Goal
  <2>1. Others(w) /\ run'[w].pc = "loop" /\ Owes(w)'
    BY <1>6, <1>a, RememberEffect DEF Owes
  <2> QED BY <1>c, <2>1
<1>7. ASSUME NEW w \in Workers, Publish(w) PROVE Goal
  <2>1. Len(outbox') = announced'
    BY <1>7 DEF Publish, tables
  <2> QED BY <1>7, <1>c, <2>1, SourceDoneEffect
<1>8. ASSUME NEW w \in Workers, NothingStored(w) PROVE Goal
  <2>1. ~Owes(w)
    BY <1>8 DEF NothingStored, Owes
  <2> QED BY <1>8, <1>c, <2>1, SourceDoneEffect
<1>9. ASSUME NEW w \in Workers, Finish(w) PROVE Goal
  <2>1. ~Owes(w) /\ run'[w] = Idle /\ Others(w)
    BY <1>9, FinishEffect DEF AnnouncedOrOwed, Owes
  <2> QED BY <1>c, <2>1 DEF Idle
<1>10. ASSUME NEW w \in Workers, Crash(w) PROVE Goal
  <2>1. run'[w] = Idle /\ Others(w) /\ Len(outbox') = excused'
    BY <1>10, CrashEffect DEF Crash, tables
  <2> QED BY <1>c, <2>1 DEF Idle
<1>11. ASSUME NEW w \in Workers, NEW t \in Ticks, Take(w, t) PROVE Goal
  <2>1. ~Owes(w) /\ run'[w].accepted = 0 /\ Others(w)
    BY <1>11, TakeEffect DEF AnnouncedOrOwed, Owes
  <2> QED BY <1>c, <2>1
<1>12. ASSUME UNCHANGED run PROVE Goal
  BY <1>12 DEF AnnouncedOrOwed, Owes
<1>13. ASSUME NEW t \in Ticks, Tick(t) \/ StallDetected(t) \/ FalseStall(t) PROVE Goal
  BY <1>12, <1>13, TicksEffect
<1>14. ASSUME NEW k \in Postings, KeyExpires(k) PROVE Goal
  BY <1>12, <1>14 DEF KeyExpires
<1>15. ASSUME UNCHANGED vars PROVE Goal
  BY <1>12, <1>15 DEF vars
<1> HIDE DEF Goal
<1>16. Goal
  BY <1>1, <1>2, <1>3, <1>4, <1>5, <1>6, <1>7, <1>8, <1>9, <1>10, <1>11, <1>13, <1>14, <1>15
     DEF Next, Step
<1> QED BY <1>16 DEF Goal

LEMMA AnnouncedOrOwedStep ==
  ASSUME TypeOK, AnnouncedOrOwed, [Next]_vars
  PROVE  AnnouncedOrOwed'
<1>1. \A w \in Workers : run'[w].pc \in {"idle", "fetch", "finish"} => run'[w].accepted = 0
  BY DebtsStay
<1>2. Len(outbox') \in {announced', excused'} \/ \E w \in Workers : Owes(w)'
  <2>1. CASE \E w \in Workers : Commit(w)
    <3>1. PICK w \in Workers : Commit(w)
      BY <2>1
    <3>2. run[w].accepted \in Nat
      BY DEF TypeOK, RunsOK, Locals
    <3> QED BY <3>1, <3>2, CommitEffect DEF Owes
  <2>2. CASE UNCHANGED <<outbox, announced, excused>>
    BY <2>2, DebtsStay DEF AnnouncedOrOwed
  <2> QED BY <2>1, <2>2, SettlesOrKeeps
<1> QED BY <1>1, <1>2 DEF AnnouncedOrOwed

\* When no scrape runs, every stored listing has been announced to the list
\* caches by an INVALIDATE_JOBS_CACHE that came after it, or its source or its
\* worker failed after it was stored.
THEOREM CommitsAreAnnounced == Spec => []NoSilentCommit
<1>1. Init => AnnouncedOrOwed
  BY DEF Init, AnnouncedOrOwed, Idle
<1>2. TypeOK /\ AnnouncedOrOwed /\ [Next]_vars => AnnouncedOrOwed'
  BY AnnouncedOrOwedStep
<1>3. TypeOK /\ AnnouncedOrOwed => NoSilentCommit
  BY DEF AnnouncedOrOwed, NoSilentCommit, Owes
<1> QED BY <1>1, <1>2, <1>3, TypeCorrect, PTL DEF Spec

-----------------------------------------------------------------------------
\* What w has counted as accepted, with the listings of its current board.
Count(w) ==
  counter[w].accepted + run[w].accepted + (IF run[w].pc = "remember" THEN 1 ELSE 0)

\* The strengthening of CountedWereStored: a listing that is stored and not yet
\* counted, because its key is still to be set, is covered as well.
CountsCovered == \A w \in Workers : Count(w) <= Len(outbox)

\* A step of another worker leaves v's count alone.
LEMMA CountOfOthers ==
  ASSUME NEW v \in Workers, NEW w \in Workers, v # w, Others(w),
         counter'[v] = counter[v], Len(outbox') >= Len(outbox),
         Len(outbox) \in Nat, Len(outbox') \in Nat, Count(v) \in Nat, Count(v) <= Len(outbox)
  PROVE  Count(v)' <= Len(outbox')
BY DEF Others, Count

\* No step shortens the outbox, and a commit lengthens it.
LEMMA OutboxLengthens ==
  ASSUME TypeOK, [Next]_vars
  PROVE  /\ Len(outbox) \in Nat /\ Len(outbox') \in Nat /\ Len(outbox') >= Len(outbox)
         /\ \A w \in Workers : Commit(w) => Len(outbox') = Len(outbox) + 1
<1>1. ASSUME NEW w \in Workers, run[w].pc = "commit", Persist(w)
      PROVE  Len(outbox') \in Nat /\ Len(outbox') = Len(outbox) + 1
  <2>1. PICK event \in OutboxRow : outbox' = Append(outbox, event)
    BY <1>1, PersistEffect
  <2>2. outbox \in Seq(OutboxRow)
    BY DEF TypeOK, TablesOK
  <2> QED BY <2>1, <2>2
<1>2. Len(outbox) \in Nat
  BY DEF TypeOK, TablesOK
<1>3. \A w \in Workers : Commit(w) => Len(outbox') = Len(outbox) + 1
  BY <1>1 DEF Commit
<1> QED BY <1>1, <1>2, <1>3, StoreStep

\* At the end of a board its accepted listings move from w's locals to its counter.
LEMMA BoardCounted ==
  ASSUME TypeOK, NEW w \in Workers, Publish(w) \/ NothingStored(w)
  PROVE  /\ counter'[w].accepted = counter[w].accepted + run[w].accepted
         /\ \A v \in Workers : v # w => counter'[v] = counter[v]
<1>1. counter \in [Workers -> [accepted : Nat, rejected : Nat]]
  BY DEF TypeOK, RestOK
<1>2. CASE Publish(w)
  BY <1>1, <1>2 DEF Publish
<1>3. CASE NothingStored(w)
  <2> DEFINE c == [counter[w] EXCEPT !.rejected = counter[w].rejected + run[w].rejected]
  <2>1. counter' = [counter EXCEPT ![w] = c] /\ run[w].accepted = 0
    BY <1>3 DEF NothingStored
  <2>2. c.accepted = counter[w].accepted
    BY <1>1
  <2> HIDE DEF c
  <2>3. counter'[w].accepted = counter[w].accepted /\ counter[w].accepted \in Nat
    BY <1>1, <2>1, <2>2
  <2> QED BY <1>1, <2>1, <2>3
<1> QED BY <1>2, <1>3

LEMMA CountsCoveredStep ==
  ASSUME TypeOK, CountsCovered, [Next]_vars, NEW v \in Workers
  PROVE  Count(v)' <= Len(outbox')
<1> DEFINE Goal == Count(v)' <= Len(outbox')
<1>a. /\ counter \in [Workers -> [accepted : Nat, rejected : Nat]]
      /\ \A w \in Workers : run[w].accepted \in Nat /\ counter[w].accepted \in Nat
  BY DEF TypeOK, RunsOK, RestOK, Locals
<1>b. Len(outbox) \in Nat /\ Len(outbox') \in Nat /\ Len(outbox') >= Len(outbox)
  BY OutboxLengthens
<1>c. \A w \in Workers : Count(w) \in Nat /\ Count(w) <= Len(outbox)
  BY <1>a DEF Count, CountsCovered
<1>d. ASSUME NEW w \in Workers, Others(w), v = w \/ counter'[v] = counter[v],
             v = w => Count(w)' <= Len(outbox')
      PROVE  Goal
  BY <1>b, <1>c, <1>d, CountOfOthers
<1>e. ASSUME NEW w \in Workers, Others(w), UNCHANGED counter, run'[w].pc # "remember",
             run'[w].accepted <= run[w].accepted, run'[w].accepted \in Nat
      PROVE  Goal
  <2>1. Count(w)' <= Count(w)
    BY <1>a, <1>e DEF Count
  <2>2. Count(w)' \in Nat
    BY <1>a, <1>e DEF Count
  <2> QED BY <1>b, <1>c, <1>d, <1>e, <2>1, <2>2
<1>f. ASSUME NEW w \in Workers, run[w].pc # "idle", SourceFails(w) PROVE Goal
  <2>1. Others(w) /\ run'[w].pc \in {"fetch", "finish"} /\ run'[w].accepted = 0
    BY <1>f, SourceFailsEffect
  <2>2. UNCHANGED counter
    BY <1>f DEF SourceFails
  <2>3. run'[w].pc # "remember" /\ run'[w].accepted <= run[w].accepted /\ run'[w].accepted \in Nat
    BY <1>a, <2>1
  <2> QED BY <1>e, <2>1, <2>2, <2>3
<1>1. ASSUME NEW w \in Workers,
             FetchFails(w) \/ RejectFails(w) \/ CommitFails(w) \/ RememberFails(w) \/ PublishFails(w)
      PROVE  Goal
  BY <1>1, <1>f DEF FetchFails, RejectFails, CommitFails, RememberFails, PublishFails
<1>2. ASSUME NEW w \in Workers, Fetch(w) PROVE Goal
  <2>1. run'[w].accepted = run[w].accepted
    BY <1>2 DEF Fetch, TypeOK, RunsOK, Locals
  <2>2. UNCHANGED counter
    BY <1>2 DEF Fetch
  <2> QED BY <1>2, <1>a, <1>e, <2>1, <2>2, FetchEffect
<1>3. ASSUME NEW w \in Workers, CheckRepost(w) PROVE Goal
  <2>1. UNCHANGED counter
    BY <1>3 DEF CheckRepost
  <2> QED BY <1>3, <1>a, <1>e, <2>1, CheckRepostEffect
<1>4. ASSUME NEW w \in Workers, Reject(w) PROVE Goal
  <2>1. UNCHANGED counter
    BY <1>4 DEF Reject
  <2> QED BY <1>4, <1>a, <1>e, <2>1, RejectEffect
<1>5. ASSUME NEW w \in Workers, Commit(w) PROVE Goal
  <2>1. UNCHANGED counter
    BY <1>5 DEF Commit
  <2>2. Others(w) /\ run[w].pc = "commit" /\ Len(outbox') = Len(outbox) + 1
    BY <1>5, CommitEffect, OutboxLengthens
  <2>3. Count(w)' = Count(w) + 1
    <3>1. CASE run[w].isRepost
      BY <1>5, <1>a, <2>1, <2>2, <3>1, CommitEffect DEF Count
    <3>2. CASE ~run[w].isRepost
      <4>1. run'[w].accepted = run[w].accepted
        BY <1>5, <3>2 DEF Commit, TypeOK, RunsOK, Locals
      <4> QED BY <1>5, <1>a, <2>1, <2>2, <3>2, <4>1, CommitEffect DEF Count
    <3> QED BY <3>1, <3>2
  <2> QED BY <1>b, <1>c, <1>d, <2>1, <2>2, <2>3
<1>6. ASSUME NEW w \in Workers, Remember(w) PROVE Goal
  <2>1. UNCHANGED counter
    BY <1>6 DEF Remember
  <2>2. Others(w) /\ Count(w)' = Count(w)
    BY <1>6, <1>a, <2>1, RememberEffect DEF Count
  <2> QED BY <1>b, <1>c, <1>d, <2>1, <2>2
<1>7. ASSUME NEW w \in Workers, Publish(w) \/ NothingStored(w) PROVE Goal
  <2>1. counter'[w].accepted = counter[w].accepted + run[w].accepted
        /\ (v # w => counter'[v] = counter[v])
    BY <1>7, BoardCounted
  <2>2. Others(w) /\ Count(w)' = Count(w)
    BY <1>7, <1>a, <2>1, SourceDoneEffect DEF Count
  <2> QED BY <1>b, <1>c, <1>d, <2>1, <2>2
<1>8. ASSUME NEW w \in Workers, Finish(w) PROVE Goal
  <2>1. UNCHANGED counter
    BY <1>8 DEF Finish
  <2> QED BY <1>8, <1>a, <1>e, <2>1, FinishEffect DEF Idle
<1>9. ASSUME NEW w \in Workers, Crash(w) PROVE Goal
  <2>1. counter'[w].accepted = 0 /\ (v # w => counter'[v] = counter[v])
    BY <1>9, <1>a DEF Crash
  <2>2. Others(w) /\ Count(w)' = 0
    BY <1>9, <2>1, CrashEffect DEF Count, Idle
  <2> QED BY <1>b, <1>c, <1>d, <2>1, <2>2
<1>10. ASSUME NEW w \in Workers, NEW t \in Ticks, Take(w, t) PROVE Goal
  <2>1. UNCHANGED counter
    BY <1>10 DEF Take
  <2> QED BY <1>10, <1>a, <1>e, <2>1, TakeEffect
<1>11. ASSUME UNCHANGED <<run, counter>> PROVE Goal
  <2>1. Count(v)' = Count(v)
    BY <1>11 DEF Count
  <2> QED BY <1>b, <1>c, <2>1
<1>12. ASSUME NEW t \in Ticks, Tick(t) \/ StallDetected(t) \/ FalseStall(t) PROVE Goal
  BY <1>11, <1>12 DEF Tick, StallDetected, FalseStall
<1>13. ASSUME NEW k \in Postings, KeyExpires(k) PROVE Goal
  BY <1>11, <1>13 DEF KeyExpires
<1>14. ASSUME UNCHANGED vars PROVE Goal
  BY <1>11, <1>14 DEF vars
<1> HIDE DEF Goal
<1>15. Goal
  BY <1>1, <1>2, <1>3, <1>4, <1>5, <1>6, <1>7, <1>8, <1>9, <1>10, <1>12, <1>13, <1>14
     DEF Next, Step
<1> QED BY <1>15 DEF Goal

\* A worker never counts a listing as accepted that was not stored, nor one twice,
\* over failed calls, crashes, retried ticks and any number of boards.
THEOREM CountsAreCovered == Spec => []CountedWereStored
<1>1. Init => CountsCovered
  BY DEF Init, CountsCovered, Count, Idle
<1>2. TypeOK /\ CountsCovered /\ [Next]_vars => CountsCovered'
  BY CountsCoveredStep DEF CountsCovered
<1>3. TypeOK /\ CountsCovered => CountedWereStored
  <2> SUFFICES ASSUME TypeOK, CountsCovered, NEW w \in Workers
               PROVE  counter[w].accepted + run[w].accepted <= Len(outbox)
    BY DEF CountedWereStored
  <2>1. run[w].accepted \in Nat /\ counter[w].accepted \in Nat /\ Len(outbox) \in Nat
    BY DEF TypeOK, RunsOK, RestOK, TablesOK, Locals
  <2> QED BY <2>1 DEF CountsCovered, Count
<1> QED BY <1>1, <1>2, <1>3, TypeCorrect, PTL DEF Spec

-----------------------------------------------------------------------------
\* The transaction writes the row and its event together.
LEMMA OutboxMatchesStep ==
  ASSUME TypeOK, OutboxMatchesJobs, [Next]_vars
  PROVE  OutboxMatchesJobs'
<1>1. CASE UNCHANGED <<jobs, companies, outbox, committed>>
  BY <1>1 DEF OutboxMatchesJobs
<1>2. ASSUME NEW w \in Workers, run[w].pc = "commit", Persist(w)
      PROVE  OutboxMatchesJobs'
  <2> DEFINE url == Item(w).url
             n == Len(outbox)
  <2>1. PICK event \in OutboxRow :
          /\ outbox' = Append(outbox, event)
          /\ event.job = url /\ event.company = Item(w).company
    BY <1>2, PersistEffect
  <2>2. /\ DOMAIN jobs' = DOMAIN jobs \cup {url}
        /\ \A u \in DOMAIN jobs : u # url => jobs'[u] = jobs[u]
        /\ jobs'[url].company = Item(w).company
    BY <1>2, PersistEffect
  <2> HIDE DEF url
  <2>3. /\ n \in Nat /\ DOMAIN outbox = 1..n /\ DOMAIN outbox' = 1..(n + 1)
        /\ outbox'[n + 1] = event /\ \A i \in 1..n : outbox'[i] = outbox[i]
    <3>1. outbox \in Seq(OutboxRow)
      BY DEF TypeOK, TablesOK
    <3> QED BY <2>1, <3>1
  <2> HIDE DEF n
  <2>4. {outbox'[i].job : i \in DOMAIN outbox'} = {outbox[i].job : i \in DOMAIN outbox} \cup {url}
    <3>1. \A i \in 1..(n + 1) : i \in 1..n \/ i = n + 1
      BY <2>3
    <3>2. \A i \in 1..n : i \in 1..(n + 1)
      BY <2>3
    <3>3. n + 1 \in 1..(n + 1)
      BY <2>3
    <3> QED BY <2>1, <2>3, <3>1, <3>2, <3>3
  <2>5. DOMAIN jobs' = {outbox'[i].job : i \in DOMAIN outbox'}
    BY <2>2, <2>4 DEF OutboxMatchesJobs
  <2>6. ASSUME NEW i \in DOMAIN outbox',
               \A j \in DOMAIN outbox' : j > i => outbox'[j].job # outbox'[i].job
        PROVE  outbox'[i].company = jobs'[outbox'[i].job].company
    <3>1. CASE i = n + 1
      BY <2>1, <2>2, <2>3, <3>1
    <3>2. CASE i # n + 1
      <4>1. i \in 1..n /\ n + 1 > i /\ n + 1 \in DOMAIN outbox'
        BY <2>3, <3>2
      <4>2. outbox'[i] = outbox[i] /\ outbox[i].job # url
        BY <2>1, <2>3, <2>6, <4>1
      <4>3. \A j \in DOMAIN outbox : j > i => outbox[j].job # outbox[i].job
        <5>1. \A j \in 1..n : j \in 1..(n + 1)
          BY <2>3
        <5> QED BY <2>3, <2>6, <4>2, <5>1
      <4>4. i \in DOMAIN outbox /\ outbox[i].job \in DOMAIN jobs
        BY <2>3, <4>1 DEF OutboxMatchesJobs
      <4>5. outbox[i].company = jobs[outbox[i].job].company
        BY <4>3, <4>4 DEF OutboxMatchesJobs
      <4> QED BY <2>2, <4>2, <4>4, <4>5
    <3> QED BY <3>1, <3>2
  <2> QED BY <2>5, <2>6 DEF OutboxMatchesJobs
<1> QED BY <1>1, <1>2, StoreStep

\* The outbox is transactional: whatever fails and whoever writes, a job is
\* stored exactly when an event was written for it, and its last event is current.
THEOREM OutboxIsTransactional == Spec => []OutboxMatchesJobs
<1>1. Init => OutboxMatchesJobs
  BY DEF Init, OutboxMatchesJobs
<1> QED BY <1>1, OutboxMatchesStep, TypeCorrect, PTL DEF Spec
-----------------------------------------------------------------------------
\* Boards that have failed in the attempt at t that is under way.
Underway(t) ==
  IF bull[t].state = "active" /\ ~Abandoned(t) THEN run[bull[t].holder].failures ELSE 0

\* A stall of t that has happened and has not been detected.
Undetected(t) == IF Abandoned(t) THEN 1 ELSE 0

\* The strengthening of GivenUpOnlyAfterWipeouts: calls that failed pay for every
\* attempt that was counted against t and for the one under way, and crashes and
\* wrong verdicts for every stall.  A stale worker, whose job BullMQ has given to
\* another, spends calls and is counted against nobody.
PaidFor(t) ==
  /\ bull[t].state = "active" => bull[t].holder \in Workers
  /\ bull[t].state # "completed" =>
       bull[t].made * Len(Sources) + Underway(t) <= CallFailures - budget.call
  /\ bull[t].stalls + Undetected(t) <= Crashes - budget.crash
  /\ bull[t].state = "failed" => bull[t].made >= MaxAttempts \/ bull[t].stalls > MaxStalls

AttemptsArePaidFor ==
  /\ \A w \in Workers : run[w].pc = "idle" => run[w].job = "none"
  /\ \A t \in Ticks : PaidFor(t)

\* Calls that fail are taken from one budget, crashes and verdicts from another.
LEMMA SpendEffect ==
  ASSUME RestOK, NEW kind \in {"call", "crash", "lapse"}, Spend(kind)
  PROVE  /\ budget' \in [call : Nat, crash : Nat, lapse : Nat]
         /\ budget'.call = IF kind = "call" THEN budget.call - 1 ELSE budget.call
         /\ budget'.crash = IF kind = "crash" THEN budget.crash - 1 ELSE budget.crash
BY DEF RestOK, Spend

\* A worker goes on with the tick it has, and adds no more failed boards to it
\* than there were failed calls.
GoesOn(w) ==
  /\ bull' = bull /\ Others(w) /\ budget'.crash = budget.crash
  /\ run[w].pc # "idle" /\ run'[w].pc # "idle" /\ run'[w].job = run[w].job
  /\ budget'.call <= budget.call
  /\ run'[w].failures - run[w].failures <= budget.call - budget'.call

\* Of the boards that failed, the next board's locals keep the count.
LEMMA NextSourceCounts ==
  ASSUME NEW r \in Locals, NEW failed \in BOOLEAN
  PROVE  NextSource(r, failed).failures = IF failed THEN r.failures + 1 ELSE r.failures
BY IdleIsLocals, Zenon DEF NextSource, Locals

\* A board that fails costs one call.
LEMMA SourceFailsGoesOn ==
  ASSUME TypeOK, NEW w \in Workers, run[w].pc # "idle", SourceFails(w)
  PROVE  GoesOn(w)
<1>1. run[w] \in Locals /\ Coherent(run[w]) /\ run[w].failures \in Nat
  BY DEF TypeOK, RunsOK, Locals
<1>2. run'[w] = NextSource(run[w], TRUE) /\ Others(w) /\ bull' = bull
  BY DEF SourceFails, TypeOK, RunsOK, Others
<1>3. budget'.call = budget.call - 1 /\ budget'.crash = budget.crash
  BY SpendEffect DEF SourceFails, TypeOK
<1>4. /\ run'[w].failures = run[w].failures + 1 /\ run'[w].job = run[w].job
      /\ run'[w].pc \in {"fetch", "finish"}
  BY <1>1, <1>2, NextSourceIsLocals, NextSourceCounts DEF Coherent
<1>5. budget.call \in Nat
  BY DEF TypeOK, RestOK
<1>6. /\ budget'.call <= budget.call
      /\ run'[w].failures - run[w].failures <= budget.call - budget'.call
  BY <1>1, <1>3, <1>4, <1>5
<1> QED BY <1>2, <1>3, <1>4, <1>6 DEF GoesOn

\* Every step of process() but its end goes on.
LEMMA StepGoesOn ==
  ASSUME TypeOK, NEW w \in Workers, Step(w), ~Finish(w)
  PROVE  GoesOn(w)
<1>1. run[w] \in Locals /\ Coherent(run[w]) /\ run[w].failures \in Nat /\ budget.call \in Nat
  BY DEF TypeOK, RunsOK, RestOK, Locals
<1>0. ASSUME run'[w].failures = run[w].failures, run'[w].job = run[w].job,
             run'[w].pc # "idle", run[w].pc # "idle", Others(w), UNCHANGED <<bull, budget>>
      PROVE  GoesOn(w)
  BY <1>1, <1>0 DEF GoesOn
<1>2. CASE FetchFails(w) \/ RejectFails(w) \/ CommitFails(w) \/ RememberFails(w) \/ PublishFails(w)
  BY <1>2, SourceFailsGoesOn DEF FetchFails, RejectFails, CommitFails, RememberFails, PublishFails
<1>3. CASE Publish(w) \/ NothingStored(w)
  <2>1. run'[w] = NextSource(run[w], FALSE) /\ Others(w)
    BY <1>3 DEF Publish, NothingStored, TypeOK, RunsOK, Others
  <2>2. bull' = bull /\ budget' = budget /\ run[w].pc = "loop"
    BY <1>3 DEF Publish, NothingStored
  <2>3. /\ run'[w].failures = run[w].failures /\ run'[w].job = run[w].job
        /\ run'[w].pc \in {"fetch", "finish"}
    <3>1. FALSE \in BOOLEAN /\ run[w].src \in 1..Len(Sources)
      BY <1>1, <2>2 DEF Coherent
    <3>2. /\ NextSource(run[w], FALSE).job = run[w].job
          /\ NextSource(run[w], FALSE).pc \in {"fetch", "finish"}
      BY <1>1, <3>1, NextSourceIsLocals
    <3>3. NextSource(run[w], FALSE).failures = run[w].failures
      BY <1>1, <3>1, NextSourceCounts
    <3> QED BY <2>1, <3>2, <3>3
  <2> QED BY <1>0, <2>1, <2>2, <2>3
<1>4. CASE Fetch(w)
  <2>1. PICK feed \in Feeds[Sources[run[w].src]] :
          run' = [run EXCEPT ![w] = [run[w] EXCEPT !.pc = "loop", !.feed = feed,
                                       !.todo = {i \in DOMAIN feed : Keeps(feed[i])}]]
    BY <1>4 DEF Fetch
  <2>2. run'[w] = [run[w] EXCEPT !.pc = "loop", !.feed = feed,
                                 !.todo = {i \in DOMAIN feed : Keeps(feed[i])}]
    BY <2>1 DEF TypeOK, RunsOK
  <2>3. run'[w].failures = run[w].failures /\ run'[w].job = run[w].job
    BY <1>1, <2>2, Zenon DEF Locals
  <2>4. Others(w) /\ run[w].pc # "idle" /\ run'[w].pc # "idle" /\ UNCHANGED <<bull, budget>>
    BY <1>4, FetchEffect DEF Fetch
  <2> QED BY <1>0, <2>3, <2>4
<1>5. CASE CheckRepost(w)
  <2>1. PICK i \in run[w].todo, error \in BOOLEAN :
          LET l == run[w].feed[i]
              isRepost == ~error /\ l.posting \in repost
          IN  /\ run' = [run EXCEPT ![w] =
                           [run[w] EXCEPT !.pc = IF Accepts(l, isRepost) THEN "commit" ELSE "reject",
                                          !.item = i, !.todo = run[w].todo \ {i}, !.isRepost = isRepost]]
              /\ IF error THEN Spend("call") /\ Pardon(w, l.posting) ELSE UNCHANGED <<budget, credit>>
    BY <1>5 DEF CheckRepost
  <2> DEFINE isRepost == ~error /\ run[w].feed[i].posting \in repost
             pc == IF Accepts(run[w].feed[i], isRepost) THEN "commit" ELSE "reject"
  <2>2. run'[w] = [run[w] EXCEPT !.pc = pc, !.item = i, !.todo = run[w].todo \ {i},
                                 !.isRepost = isRepost]
    BY <2>1 DEF TypeOK, RunsOK
  <2>3. budget' = budget \/ Spend("call")
    BY <2>1
  <2> HIDE DEF isRepost, pc
  <2>4. run'[w].failures = run[w].failures /\ run'[w].job = run[w].job
    BY <1>1, <2>2, Zenon DEF Locals
  <2>5. Others(w) /\ run[w].pc # "idle" /\ run'[w].pc # "idle" /\ bull' = bull
    BY <1>5, CheckRepostEffect DEF CheckRepost
  <2>6. budget'.crash = budget.crash /\ budget'.call <= budget.call /\ budget'.call \in Nat
    BY <1>1, <2>3, SpendEffect DEF TypeOK, RestOK
  <2> QED BY <1>1, <2>4, <2>5, <2>6 DEF GoesOn
<1>6. CASE Reject(w)
  <2>1. run'[w] = [run[w] EXCEPT !.pc = "loop", !.rejected = run[w].rejected + 1]
    BY <1>6 DEF Reject, TypeOK, RunsOK
  <2>2. run'[w].failures = run[w].failures /\ run'[w].job = run[w].job
    BY <1>1, <2>1, Zenon DEF Locals
  <2>3. Others(w) /\ run[w].pc # "idle" /\ run'[w].pc # "idle" /\ UNCHANGED <<bull, budget>>
    BY <1>6, RejectEffect DEF Reject
  <2> QED BY <1>0, <2>2, <2>3
<1>7. CASE Commit(w)
  <2> DEFINE pc == IF run[w].isRepost THEN "loop" ELSE "remember"
             accepted == IF run[w].isRepost THEN run[w].accepted + 1 ELSE run[w].accepted
  <2>1. run'[w] = [run[w] EXCEPT !.pc = pc, !.accepted = accepted]
    BY <1>7 DEF Commit, TypeOK, RunsOK
  <2> HIDE DEF pc, accepted
  <2>2. run'[w].failures = run[w].failures /\ run'[w].job = run[w].job
    BY <1>1, <2>1, Zenon DEF Locals
  <2>3. Others(w) /\ run[w].pc # "idle" /\ run'[w].pc # "idle" /\ UNCHANGED <<bull, budget>>
    BY <1>7, CommitEffect DEF Commit
  <2> QED BY <1>0, <2>2, <2>3
<1>8. CASE Remember(w)
  <2>1. run'[w] = [run[w] EXCEPT !.pc = "loop", !.accepted = run[w].accepted + 1]
    BY <1>8 DEF Remember, TypeOK, RunsOK
  <2>2. run'[w].failures = run[w].failures /\ run'[w].job = run[w].job
    BY <1>1, <2>1, Zenon DEF Locals
  <2>3. Others(w) /\ run[w].pc # "idle" /\ run'[w].pc # "idle" /\ UNCHANGED <<bull, budget>>
    BY <1>8, RememberEffect DEF Remember
  <2> QED BY <1>0, <2>2, <2>3
<1> QED BY <1>2, <1>3, <1>4, <1>5, <1>6, <1>7, <1>8 DEF Step

\* A worker's failures are counted in Nat.
LEMMA UnderwayIsNat ==
  ASSUME TypeOK, NEW t \in Ticks, PaidFor(t)
  PROVE  Underway(t) \in Nat
BY DEF Underway, PaidFor, TypeOK, RunsOK, Locals

\* What is added is what was spent.
LEMMA Carry ==
  ASSUME NEW a \in Nat, NEW all \in Nat, NEW m \in Nat, NEW n \in Nat,
         NEW left \in Nat, NEW less \in Nat, a + m <= all - left, n - m <= left - less
  PROVE  a + n <= all - less
OBVIOUS

\* A tick whose job stays as it is stays paid for, if what is added to it was spent.
LEMMA PaidForStays ==
  ASSUME TypeOK, TypeOK', NEW t \in Ticks, PaidFor(t), bull'[t] = bull[t],
         Underway(t)' \in Nat,
         Underway(t)' - Underway(t) <= budget.call - budget'.call,
         Undetected(t)' - Undetected(t) <= budget.crash - budget'.crash
  PROVE  PaidFor(t)'
<1>1. /\ bull[t].made \in Nat /\ bull[t].stalls \in Nat /\ Len(Sources) \in Nat
      /\ budget.call \in Nat /\ budget.crash \in Nat /\ budget'.call \in Nat /\ budget'.crash \in Nat
      /\ CallFailures \in Nat /\ Crashes \in Nat
  BY ScraperAssumption DEF TypeOK, RunsOK, RestOK, BullJob
<1>2. bull[t].made * Len(Sources) \in Nat
  BY <1>1
<1>3. Undetected(t) \in Nat
  BY DEF Undetected
<1>4. Undetected(t)' \in Nat
  BY DEF Undetected
<1>5. bull[t].state # "completed" =>
        bull[t].made * Len(Sources) + Underway(t)' <= CallFailures - budget'.call
  BY <1>1, <1>2, UnderwayIsNat, Carry DEF PaidFor
<1>6. bull[t].stalls + Undetected(t)' <= Crashes - budget'.crash
  BY <1>1, <1>3, <1>4, Carry DEF PaidFor
<1> QED BY <1>5, <1>6 DEF PaidFor

\* What a step of w leaves of the ticks that are counted against other workers.
LEMMA OtherTicksStay ==
  ASSUME TypeOK, NEW w \in Workers, Others(w), NEW t \in Ticks, PaidFor(t),
         bull'[t] = bull[t], bull[t].holder # w
  PROVE  Underway(t)' = Underway(t) /\ Undetected(t)' = Undetected(t)
<1>1. bull[t].state = "active" => run'[bull[t].holder] = run[bull[t].holder]
  BY DEF PaidFor, Others
<1>2. Abandoned(t)' <=> Abandoned(t)
  BY <1>1 DEF Abandoned
<1> QED BY <1>1, <1>2 DEF Underway, Undetected

\* A step that goes on leaves every tick paid for.
LEMMA GoesOnIsPaidFor ==
  ASSUME TypeOK, TypeOK', NEW w \in Workers, GoesOn(w), NEW t \in Ticks, PaidFor(t)
  PROVE  PaidFor(t)'
<1>1. bull'[t] = bull[t] /\ Others(w)
  BY DEF GoesOn
<1>2. /\ run[w].failures \in Nat /\ run'[w].failures \in Nat
      /\ budget.call \in Nat /\ budget'.call \in Nat /\ budget.crash \in Nat
  BY DEF TypeOK, RunsOK, RestOK, Locals
<1>3. Underway(t) \in Nat
  BY UnderwayIsNat
<1>4. CASE bull[t].holder # w
  BY <1>1, <1>2, <1>3, <1>4, OtherTicksStay, PaidForStays DEF GoesOn, Undetected
<1>5. CASE bull[t].holder = w
  <2>1. Abandoned(t)' <=> Abandoned(t)
    BY <1>1, <1>5 DEF GoesOn, Abandoned
  <2>2. \/ Underway(t)' = Underway(t)
        \/ Underway(t)' = run'[w].failures /\ Underway(t) = run[w].failures
    BY <1>1, <1>5, <2>1 DEF Underway
  <2>3. Underway(t)' \in Nat /\ Underway(t)' - Underway(t) <= budget.call - budget'.call
    BY <1>2, <1>3, <2>2 DEF GoesOn
  <2>4. Undetected(t)' - Undetected(t) <= budget.crash - budget'.crash
    BY <1>2, <2>1 DEF Undetected, GoesOn
  <2> QED BY <1>1, <2>3, <2>4, PaidForStays
<1> QED BY <1>4, <1>5

\* A tick whose job comes due.
LEMMA TickIsPaidFor ==
  ASSUME TypeOK, TypeOK', NEW t \in Ticks, PaidFor(t), Tick(t)
  PROVE  PaidFor(t)'
<1>1. /\ bull'[t].state = "waiting" /\ bull'[t].made = bull[t].made
      /\ bull'[t].stalls = bull[t].stalls /\ bull[t].state = "scheduled" /\ budget' = budget
  BY DEF Tick, TypeOK, RunsOK, BullJob
<1>2. ~Abandoned(t) /\ ~Abandoned(t)'
  BY <1>1 DEF Abandoned
<1> QED BY <1>1, <1>2 DEF PaidFor, Underway, Undetected

\* A stall that is counted was spent before, or is spent now.
LEMMA Charge ==
  ASSUME NEW n \in Nat, NEW owed \in Nat, NEW all \in Nat, NEW left \in Nat, NEW less \in Nat,
         n + owed <= all - left, less + 1 = left + owed
  PROVE  n + 1 <= all - less
OBVIOUS

\* A job that the stalled check puts back, or gives up.
LEMMA StallIsPaidFor ==
  ASSUME TypeOK, TypeOK', NEW t \in Ticks, PaidFor(t), StallDetected(t) \/ FalseStall(t)
  PROVE  PaidFor(t)'
<1>1. /\ bull'[t].state = (IF bull[t].stalls < MaxStalls THEN "waiting" ELSE "failed")
      /\ bull'[t].made = bull[t].made /\ bull'[t].stalls = bull[t].stalls + 1
  <2> DEFINE state == IF bull[t].stalls < MaxStalls THEN "waiting" ELSE "failed"
             stalls == bull[t].stalls + 1
  <2>1. bull[t] \in BullJob
    BY DEF TypeOK, RunsOK
  <2>2. bull'[t] = [bull[t] EXCEPT !.state = state, !.stalls = stalls]
    BY DEF StallDetected, FalseStall, Requeued, TypeOK, RunsOK
  <2> HIDE DEF state, stalls
  <2>3. bull'[t].state = state /\ bull'[t].made = bull[t].made /\ bull'[t].stalls = stalls
    BY <2>1, <2>2, Zenon DEF BullJob
  <2> QED BY <2>3 DEF state, stalls
<1>2. bull[t].state = "active"
  BY DEF StallDetected, FalseStall, Abandoned
<1>3. /\ bull[t].made \in Nat /\ bull[t].stalls \in Nat /\ Len(Sources) \in Nat /\ MaxStalls \in Nat
      /\ budget.call \in Nat /\ budget.crash \in Nat /\ CallFailures \in Nat /\ Crashes \in Nat
  BY ScraperAssumption DEF TypeOK, RunsOK, RestOK, BullJob
<1>4. Underway(t)' = 0 /\ Undetected(t)' = 0
  BY <1>1 DEF Underway, Undetected, Abandoned
<1>5. /\ budget'.call = budget.call
      /\ budget'.crash + 1 = budget.crash + Undetected(t)
  <2>1. CASE StallDetected(t)
    BY <1>3, <2>1 DEF StallDetected, Undetected
  <2>2. CASE FalseStall(t)
    <3>1. Spend("crash") /\ Undetected(t) = 0
      BY <2>2 DEF FalseStall, Undetected
    <3>2. budget'.call = budget.call /\ budget'.crash = budget.crash - 1
      BY <3>1, SpendEffect DEF TypeOK
    <3> QED BY <1>3, <3>1, <3>2
  <2> QED BY <2>1, <2>2
<1>6. bull[t].made * Len(Sources) \in Nat /\ Underway(t) \in Nat
  BY <1>3, UnderwayIsNat
<1>7. bull[t].made * Len(Sources) + Underway(t) <= CallFailures - budget.call
  BY <1>2 DEF PaidFor
<1>8. bull'[t].made * Len(Sources) + Underway(t)' <= CallFailures - budget'.call
  BY <1>1, <1>3, <1>4, <1>5, <1>6, <1>7
<1>9. bull'[t].stalls + Undetected(t)' <= Crashes - budget'.crash
  <2>1. Undetected(t) \in Nat /\ budget'.crash \in Nat
    BY DEF Undetected, TypeOK, RestOK
  <2>2. bull[t].stalls + Undetected(t) <= Crashes - budget.crash
    BY DEF PaidFor
  <2>3. bull[t].stalls + 1 <= Crashes - budget'.crash
    BY <1>3, <1>5, <2>1, <2>2, Charge
  <2> QED BY <1>1, <1>3, <1>4, <2>3
<1>10. bull'[t].state # "active" /\ (bull'[t].state = "failed" => bull'[t].stalls > MaxStalls)
  BY <1>1, <1>3
<1> QED BY <1>8, <1>9, <1>10 DEF PaidFor

\* An attempt starts with no failed board.
LEMMA TakeIsPaidFor ==
  ASSUME TypeOK, TypeOK', NEW w \in Workers, NEW t \in Ticks, PaidFor(t), Take(w, t)
  PROVE  PaidFor(t)'
<1>1. /\ bull'[t].state = "active" /\ bull'[t].holder = w /\ bull'[t].made = bull[t].made
      /\ bull'[t].stalls = bull[t].stalls /\ bull[t].state = "waiting" /\ budget' = budget
  BY DEF Take, TypeOK, RunsOK, BullJob
<1>2. run'[w] = Starting(t)
  BY DEF Take, TypeOK, RunsOK
<1>3. run'[w].job = t /\ run'[w].failures = 0
  <2>1. Idle \in Locals /\ Idle.failures = 0
    BY IdleIsLocals DEF Idle
  <2>2. Starting(t).job = t /\ Starting(t).failures = Idle.failures
    BY <2>1, Zenon DEF Starting, Locals
  <2> QED BY <1>2, <2>1, <2>2
<1>4. ~Abandoned(t) /\ ~Abandoned(t)'
  BY <1>1, <1>3 DEF Abandoned
<1> QED BY <1>1, <1>3, <1>4 DEF PaidFor, Underway, Undetected

\* The attempt of w at its own tick ends: if every board failed, the calls that
\* failed pay for it.
LEMMA FinishIsPaidFor ==
  ASSUME TypeOK, TypeOK', NEW w \in Workers, Finish(w), NEW t \in Ticks, PaidFor(t),
         run[w].job = t, bull[t].state = "active", bull[t].holder = w
  PROVE  PaidFor(t)'
<1> DEFINE wipeout == run[w].failures = Len(Sources)
<1>1. /\ bull'[t].made = bull[t].made + 1 /\ bull'[t].stalls = bull[t].stalls
      /\ bull'[t].state = (IF ~wipeout THEN "completed"
                           ELSE IF bull[t].made + 1 < MaxAttempts THEN "waiting" ELSE "failed")
  BY DEF Finish, TypeOK, RunsOK, BullJob
<1>2. budget' = budget
  BY DEF Finish
<1>3. /\ bull[t].made \in Nat /\ Len(Sources) \in Nat /\ MaxAttempts \in Nat
      /\ budget.call \in Nat /\ CallFailures \in Nat
  BY ScraperAssumption DEF TypeOK, RunsOK, RestOK, BullJob
<1>4. ~Abandoned(t) /\ ~Abandoned(t)' /\ bull'[t].state # "active"
  BY <1>1 DEF Abandoned
<1>5. wipeout => bull[t].made * Len(Sources) + Len(Sources) <= CallFailures - budget.call
  BY <1>4 DEF PaidFor, Underway
<1>6. (bull[t].made + 1) * Len(Sources) = bull[t].made * Len(Sources) + Len(Sources)
  BY <1>3
<1>7. bull'[t].state # "completed" => wipeout
  BY <1>1
<1>8. bull'[t].state # "completed" =>
        bull'[t].made * Len(Sources) + Underway(t)' <= CallFailures - budget'.call
  <2>1. Underway(t)' = 0
    BY <1>4 DEF Underway
  <2>2. (bull[t].made + 1) * Len(Sources) \in Nat
    BY <1>3
  <2> QED BY <1>1, <1>2, <1>3, <1>5, <1>6, <1>7, <2>1, <2>2
<1>9. bull'[t].state = "failed" => bull'[t].made >= MaxAttempts
  BY <1>1, <1>3
<1>10. bull'[t].stalls + Undetected(t)' <= Crashes - budget'.crash
  BY <1>1, <1>2, <1>4 DEF PaidFor, Undetected
<1> QED BY <1>4, <1>8, <1>9, <1>10 DEF PaidFor

\* A worker that ends its tick, or dies with it, leaves the ticks of the others as
\* they are; its own, if it is still its own, has stalled.
LEMMA LetsGo ==
  ASSUME TypeOK, TypeOK', NEW w \in Workers, Others(w), run'[w].job = "none",
         NEW t \in Ticks, PaidFor(t), bull'[t] = bull[t],
         budget'.call = budget.call, budget'.crash <= budget.crash,
         bull[t].state = "active" /\ bull[t].holder = w /\ run[w].job = t =>
           budget'.crash = budget.crash - 1
  PROVE  PaidFor(t)'
<1>1. /\ budget.call \in Nat /\ budget.crash \in Nat /\ budget'.crash \in Nat /\ "none" # t
  BY ScraperAssumption DEF TypeOK, RestOK
<1>2. Underway(t) \in Nat
  BY UnderwayIsNat
<1>3. CASE bull[t].holder # w
  <2>1. Underway(t)' = Underway(t) /\ Undetected(t)' = Undetected(t) /\ Undetected(t) \in Nat
    BY <1>3, OtherTicksStay DEF Undetected
  <2>2. Underway(t)' - Underway(t) <= budget.call - budget'.call
    BY <1>1, <1>2, <2>1
  <2>3. Undetected(t)' - Undetected(t) <= budget.crash - budget'.crash
    BY <1>1, <2>1
  <2> QED BY <1>2, <2>1, <2>2, <2>3, PaidForStays
<1>4. CASE bull[t].holder = w
  <2>1. Underway(t)' = 0
    BY <1>1, <1>4 DEF Underway, Abandoned
  <2>2. Underway(t)' - Underway(t) <= budget.call - budget'.call
    BY <1>1, <1>2, <2>1
  <2>3. Undetected(t)' - Undetected(t) <= budget.crash - budget'.crash
    <3>1. CASE bull[t].state # "active"
      BY <1>1, <3>1 DEF Undetected, Abandoned
    <3>2. CASE bull[t].state = "active" /\ run[w].job = t
      BY <1>1, <1>4, <3>2 DEF Undetected, Abandoned
    <3>3. CASE bull[t].state = "active" /\ run[w].job # t
      BY <1>1, <1>4, <3>3 DEF Undetected, Abandoned
    <3> QED BY <3>1, <3>2, <3>3
  <2> QED BY <2>1, <2>2, <2>3, PaidForStays
<1> QED BY <1>3, <1>4

\* AttemptsArePaidFor is inductive.
LEMMA AttemptsStep ==
  ASSUME TypeOK, TypeOK', AttemptsArePaidFor, [Next]_vars
  PROVE  AttemptsArePaidFor'
<1>a. ASSUME NEW t \in Ticks, bull'[t] = bull[t], UNCHANGED run,
             budget'.call = budget.call, budget'.crash <= budget.crash
      PROVE  PaidFor(t)'
  <2>1. budget.call \in Nat /\ budget.crash \in Nat /\ budget'.crash \in Nat
    BY DEF TypeOK, RestOK
  <2>2. /\ Underway(t)' = Underway(t) /\ Undetected(t)' = Undetected(t)
        /\ Underway(t) \in Nat /\ Undetected(t) \in Nat
    BY <1>a, UnderwayIsNat DEF AttemptsArePaidFor, Underway, Undetected, Abandoned
  <2>3. Underway(t)' - Underway(t) <= budget.call - budget'.call
    BY <1>a, <2>1, <2>2
  <2>4. Undetected(t)' - Undetected(t) <= budget.crash - budget'.crash
    BY <1>a, <2>1, <2>2
  <2> QED BY <1>a, <2>2, <2>3, <2>4, PaidForStays DEF AttemptsArePaidFor
<1>b. budget.call \in Nat /\ budget.crash \in Nat
  BY DEF TypeOK, RestOK
<1>c. Idle.pc = "idle" /\ Idle.job = "none"
  BY DEF Idle
<1>1. ASSUME NEW w \in Workers, Step(w), ~Finish(w) PROVE AttemptsArePaidFor'
  <2>1. GoesOn(w)
    BY <1>1, StepGoesOn
  <2> QED BY <2>1, GoesOnIsPaidFor DEF AttemptsArePaidFor, GoesOn, Others
<1>2. ASSUME NEW w \in Workers, Finish(w) PROVE AttemptsArePaidFor'
  <2>1. run'[w] = Idle /\ Others(w) /\ UNCHANGED budget
    BY <1>2, FinishEffect DEF Finish
  <2>2. ASSUME NEW t \in Ticks PROVE PaidFor(t)'
    <3>1. CASE run[w].job = t /\ bull[t].state = "active" /\ bull[t].holder = w
      BY <1>2, <3>1, FinishIsPaidFor DEF AttemptsArePaidFor
    <3>2. CASE ~(run[w].job = t /\ bull[t].state = "active" /\ bull[t].holder = w)
      <4>1. bull'[t] = bull[t]
        BY <1>2, <3>2 DEF Finish, TypeOK, RunsOK
      <4> QED BY <1>b, <1>c, <2>1, <3>2, <4>1, LetsGo DEF AttemptsArePaidFor
    <3> QED BY <3>1, <3>2
  <2> QED BY <1>c, <2>1, <2>2 DEF AttemptsArePaidFor, Others
<1>3. ASSUME NEW w \in Workers, Crash(w) PROVE AttemptsArePaidFor'
  <2>1. run'[w] = Idle /\ Others(w) /\ bull' = bull
    BY <1>3, CrashEffect DEF Crash
  <2>2. budget'.call = budget.call /\ budget'.crash = budget.crash - 1
    BY <1>3, SpendEffect DEF Crash, TypeOK
  <2>3. ASSUME NEW t \in Ticks PROVE PaidFor(t)'
    BY <1>b, <1>c, <2>1, <2>2, LetsGo DEF AttemptsArePaidFor
  <2> QED BY <1>c, <2>1, <2>3 DEF AttemptsArePaidFor, Others
<1>4. ASSUME NEW w \in Workers, NEW t \in Ticks, Take(w, t) PROVE AttemptsArePaidFor'
  <2>1. run'[w].pc = "fetch" /\ Others(w) /\ run[w].job = "none" /\ run'[w].job = t
    BY <1>4, TakeEffect, StartingIsLocals DEF Take, AttemptsArePaidFor, TypeOK, RunsOK
  <2>2. ASSUME NEW u \in Ticks, u # t PROVE PaidFor(u)'
    <3>1. bull'[u] = bull[u] /\ budget' = budget
      BY <1>4, <2>2 DEF Take, TypeOK, RunsOK
    <3>2. Abandoned(u)' <=> Abandoned(u)
      BY <2>1, <2>2, <3>1, ScraperAssumption DEF Abandoned, Others, AttemptsArePaidFor, PaidFor
    <3>3. Underway(u)' = Underway(u) /\ Undetected(u)' = Undetected(u)
      BY <2>1, <2>2, <3>1, <3>2, ScraperAssumption
         DEF Underway, Undetected, Abandoned, Others, AttemptsArePaidFor, PaidFor
    <3>4. Underway(u) \in Nat /\ Undetected(u) \in Nat
      BY UnderwayIsNat DEF Undetected, AttemptsArePaidFor
    <3>5. /\ Underway(u)' - Underway(u) <= budget.call - budget'.call
          /\ Undetected(u)' - Undetected(u) <= budget.crash - budget'.crash
      BY <1>b, <3>1, <3>3, <3>4
    <3> QED BY <3>1, <3>3, <3>4, <3>5, PaidForStays DEF AttemptsArePaidFor
  <2>3. PaidFor(t)'
    BY <1>4, TakeIsPaidFor DEF AttemptsArePaidFor
  <2> QED BY <2>1, <2>2, <2>3 DEF AttemptsArePaidFor, Others
<1>5. ASSUME NEW t \in Ticks, Tick(t) \/ StallDetected(t) \/ FalseStall(t)
      PROVE  AttemptsArePaidFor'
  <2>1. PaidFor(t)'
    BY <1>5, TickIsPaidFor, StallIsPaidFor DEF AttemptsArePaidFor
  <2>2. UNCHANGED run /\ budget'.call = budget.call /\ budget'.crash <= budget.crash
    <3>1. UNCHANGED budget \/ Spend("crash")
      BY <1>5 DEF Tick, StallDetected, FalseStall
    <3> QED BY <1>5, <1>b, <3>1, TicksEffect, SpendEffect DEF TypeOK
  <2>3. ASSUME NEW u \in Ticks, u # t PROVE PaidFor(u)'
    <3>1. bull'[u] = bull[u]
      BY <1>5, <2>3 DEF Tick, StallDetected, FalseStall, Requeued, TypeOK, RunsOK
    <3> QED BY <1>a, <2>2, <3>1
  <2> QED BY <2>1, <2>2, <2>3 DEF AttemptsArePaidFor
<1>6. ASSUME NEW k \in Postings, KeyExpires(k) PROVE AttemptsArePaidFor'
  <2>1. UNCHANGED <<run, bull>> /\ Spend("lapse")
    BY <1>6 DEF KeyExpires
  <2>2. budget'.call = budget.call /\ budget'.crash = budget.crash
    BY <2>1, SpendEffect DEF TypeOK
  <2> QED BY <1>a, <1>b, <2>1, <2>2 DEF AttemptsArePaidFor
<1>7. CASE UNCHANGED vars
  BY <1>7, <1>a, <1>b DEF vars, AttemptsArePaidFor
<1> QED BY <1>1, <1>2, <1>3, <1>4, <1>5, <1>6, <1>7 DEF Next

\* As many attempts of as many boards are at least as many calls.
LEMMA TimesGrows ==
  ASSUME NEW m \in Nat, NEW n \in Nat, NEW l \in Nat, m >= n
  PROVE  m * l >= n * l
<1>1. PICK d \in Nat : m = n + d
  <2>1. m - n \in Nat /\ m = n + (m - n)
    OBVIOUS
  <2> QED BY <2>1
<1>2. (n + d) * l = n * l + d * l
  OBVIOUS
<1>3. n * l \in Int /\ d * l \in Nat
  OBVIOUS
<1>4. m * l = n * l + d * l
  BY <1>1, <1>2
<1> DEFINE nl == n * l
           dl == d * l
<1>5. nl \in Int /\ dl \in Nat /\ m * l = nl + dl
  BY <1>3, <1>4
<1> HIDE DEF nl, dl
<1>6. m * l >= nl
  BY <1>5
<1> QED BY <1>6 DEF nl

\* What is at least as much as enough is enough.
LEMMA AtLeast ==
  ASSUME NEW n \in Int, NEW enough \in Int, NEW all \in Int, n >= enough, n <= all
  PROVE  all >= enough
OBVIOUS

\* One flaky board costs nothing: a tick is given up only after every board failed
\* in every one of its attempts, or after more crashes and wrong verdicts than
\* BullMQ forgives, whatever other workers do to it meanwhile.
THEOREM GivingUpIsEarned == Spec => []GivenUpOnlyAfterWipeouts
<1>1. Init => AttemptsArePaidFor
  <2> SUFFICES ASSUME Init PROVE AttemptsArePaidFor
    OBVIOUS
  <2>1. \A w \in Workers : run[w] = Idle
    BY DEF Init
  <2>2. ASSUME NEW t \in Ticks PROVE PaidFor(t)
    <3>1. /\ bull[t].state = "scheduled" /\ bull[t].made = 0 /\ bull[t].stalls = 0
          /\ budget.call = CallFailures /\ budget.crash = Crashes
      BY DEF Init
    <3>2. Underway(t) = 0 /\ Undetected(t) = 0
      BY <3>1 DEF Underway, Undetected, Abandoned
    <3>3. Len(Sources) \in Nat /\ CallFailures \in Nat /\ Crashes \in Nat
      BY ScraperAssumption
    <3>4. 0 * Len(Sources) = 0
      BY <3>3
    <3> QED BY <3>1, <3>2, <3>3, <3>4 DEF PaidFor
  <2> QED BY <2>1, <2>2 DEF AttemptsArePaidFor, Idle
<1>2. TypeOK /\ TypeOK' /\ AttemptsArePaidFor /\ [Next]_vars => AttemptsArePaidFor'
  BY AttemptsStep
<1>3. TypeOK /\ AttemptsArePaidFor => GivenUpOnlyAfterWipeouts
  <2> SUFFICES ASSUME TypeOK, AttemptsArePaidFor, NEW t \in Ticks, bull[t].state = "failed"
               PROVE  \/ CallFailures - budget.call >= MaxAttempts * Len(Sources)
                      \/ Crashes - budget.crash > MaxStalls
    BY DEF GivenUpOnlyAfterWipeouts
  <2>1. /\ bull[t].made \in Nat /\ bull[t].stalls \in Nat /\ Len(Sources) \in Nat
        /\ MaxAttempts \in Nat /\ MaxStalls \in Nat
        /\ budget.call \in Nat /\ budget.crash \in Nat /\ CallFailures \in Nat /\ Crashes \in Nat
    BY ScraperAssumption DEF TypeOK, RunsOK, RestOK, BullJob
  <2>2. /\ bull[t].made * Len(Sources) <= CallFailures - budget.call
        /\ bull[t].stalls <= Crashes - budget.crash
        /\ bull[t].made >= MaxAttempts \/ bull[t].stalls > MaxStalls
    BY <2>1 DEF AttemptsArePaidFor, PaidFor, Underway, Undetected, Abandoned
  <2>3. bull[t].made >= MaxAttempts =>
          bull[t].made * Len(Sources) >= MaxAttempts * Len(Sources)
    BY <2>1, TimesGrows
  <2>4. bull[t].made * Len(Sources) \in Nat /\ MaxAttempts * Len(Sources) \in Nat
    BY <2>1
  <2>5. CASE bull[t].made >= MaxAttempts
    <3>1. CallFailures - budget.call \in Int /\ MaxAttempts * Len(Sources) \in Int
      BY <2>1
    <3> QED BY <2>2, <2>3, <2>4, <2>5, <3>1, AtLeast
  <2>6. CASE bull[t].stalls > MaxStalls
    BY <2>1, <2>2, <2>6
  <2> QED BY <2>2, <2>5, <2>6
<1> QED BY <1>1, <1>2, <1>3, TypeCorrect, PTL DEF Spec
=============================================================================
