------------------------------- MODULE JobList -------------------------------
(***************************************************************************)
(* What GET /jobs answers from one state of the table, and under which key *)
(* it is cached: ListJobsDto (src/jobs/dto/list-jobs.dto.ts) and findAll() *)
(* (src/jobs/jobs.service.ts).  JobsCache models when each part happens;   *)
(* its Keys are the values of CacheKey, its versions the tables.           *)
(*                                                                         *)
(* A string is the sequence of the words between its commas: "a,b" is      *)
(* <<"a", "b">>, and <<"">> the empty string.                              *)
(***************************************************************************)
EXTENDS Integers, Sequences, FiniteSets, SequencesExt

CONSTANTS
  Words,          \* words of keywords and texts; not ""
  Rows,           \* ids of the rows, in the order of scrapedAt
  Scores,         \* freshness scores
  MaxWords,       \* bound: words of one `keywords` parameter
  MaxPage,        \* bound: pages asked for
  MaxLimit        \* bound: rows of a page (100 in the code)

ASSUME ListAssumption ==
  /\ Rows \subseteq Nat /\ IsFiniteSet(Rows) /\ Scores \subseteq Int
  /\ MaxWords \in Nat /\ MaxPage \in Nat /\ MaxLimit \in Nat

\* The empty word: a falsy string.
Blank == ""

\* The elements of a set in the order of their ranks: how many come before each.
ByRank(rank) ==
  [n \in 1..Cardinality(DOMAIN rank) |-> CHOOSE x \in DOMAIN rank : rank[x] = n - 1]

\* `keywords` of a parsed query is a sequence of strings, or undefined: a list that
\* no strings make, because a string has one word at least.
Absent == << <<>> >>

\* The transform of `keywords`: a parameter that occurs once is split at its
\* commas and loses its blanks; one that is repeated arrives as an array and is
\* taken as it is.  `given` is the sequence of the parameters.
Parse(given) ==
  CASE given = <<>>   -> Absent
    [] Len(given) = 1 -> LET kept == {n \in DOMAIN given[1] : given[1][n] # Blank}
                             place == ByRank([n \in kept |-> Cardinality({m \in kept : m < n})])
                         IN  [n \in DOMAIN place |-> <<given[1][place[n]]>>]
    [] OTHER          -> given

\* String(keywords): an array is joined by commas, and an absent one is spelled
\* out, because the field is declared and Object.entries() lists it.
Spelled(keywords) ==
  CASE keywords = Absent -> <<"undefined">>
    [] keywords = <<>>   -> <<Blank>>
    [] OTHER             -> FlattenSeq(keywords)

\* Mutation of CacheKey: one page answers for all.
CacheKeyNoPage(q) == <<Spelled(q.keywords), q.limit>>

\* The sorted "name=value" pairs; SHA-256 is injective on what is ever asked.
CacheKey(q) == <<Spelled(q.keywords), q.limit, q.page>>

\* ILIKE "%keyword%" over the title or the description.
Like(row, keyword) == keyword = <<Blank>> \/ keyword \in row.text

\* The WHERE clause: active, and ANY of the keywords when there are some.
Selected(row, keywords) ==
  /\ row.status = "active"
  /\ keywords \in {Absent, <<>>} \/ \E n \in DOMAIN keywords : Like(row, keywords[n])

\* ORDER BY freshness_score DESC, scraped_at DESC.
Before(a, b) == a.score > b.score \/ (a.score = b.score /\ a.id > b.id)

\* Mutation of Page: pages are counted from 0.
PageFromZero(list, q) ==
  LET skip == q.page * q.limit
  IN  SubSeq(list, skip + 1, IF skip + q.limit < Len(list) THEN skip + q.limit ELSE Len(list))

\* OFFSET and LIMIT.
Page(list, q) ==
  LET skip == (q.page - 1) * q.limit
  IN  SubSeq(list, skip + 1, IF skip + q.limit < Len(list) THEN skip + q.limit ELSE Len(list))

Listing(table, keywords) ==
  LET chosen == {row \in table : Selected(row, keywords)}
  IN  ByRank([row \in chosen |-> Cardinality({other \in chosen : Before(other, row)})])

FindAll(table, q) ==
  LET list == Listing(table, q.keywords)
  IN  [data |-> Page(list, q), total |-> Len(list)]

-----------------------------------------------------------------------------
\* One row per id, whatever its columns hold.
Columns == [score : Scores, status : {"active", "ghost"}, text : SUBSET {<<w>> : w \in Words}]
Tables ==
  {{[id |-> r, score |-> c[r].score, status |-> c[r].status, text |-> c[r].text] : r \in Rows} :
     c \in [Rows -> Columns]}

\* `keywords` does not occur, or once, or twice, with any words in each.
Strings == BoundedSeq(Words \cup {Blank}, MaxWords) \ {<<>>}
Given == {<<>>} \cup {<<s>> : s \in Strings} \cup {<<s, t>> : s, t \in Strings}
Queries == [keywords : {Parse(g) : g \in Given}, limit : 1..MaxLimit, page : 1..MaxPage]

\* Every keyword is one word, and the word "undefined" does not stand alone.
Plain(keywords) ==
  /\ keywords # << <<"undefined">> >>
  /\ \A n \in DOMAIN keywords : Len(keywords[n]) <= 1

PlainQueries == {q \in Queries : Plain(q.keywords)}

\* Two plain queries with one key have one answer, whatever the table holds.  It
\* is not so of the others: "?keywords=undefined" has the key of no keywords at
\* all, and "?keywords=a,b&keywords=c", which asks for the text "a,b" or "c", the
\* key of "?keywords=a,b,c" (jobs.service.ts:50-53).
OneAnswerPerKey ==
  \A p, q \in PlainQueries : p # q /\ CacheKey(p) = CacheKey(q) =>
    \A table \in Tables : FindAll(table, p) = FindAll(table, q)

\* The pages of one table, put together, are its list: every active job that
\* matches is on one page, once, and `total` counts them.
PagesPartitionList ==
  \A table \in Tables, keywords \in {q.keywords : q \in PlainQueries}, limit \in 1..MaxLimit :
    LET answer(n) == FindAll(table, [keywords |-> keywords, limit |-> limit, page |-> n])
        pages == FlattenSeq([n \in 1..Cardinality(Rows) |-> answer(n).data])
    IN  /\ \A n \in 1..Len(pages) : \A m \in 1..(n - 1) : Before(pages[m], pages[n])
        /\ {pages[n] : n \in DOMAIN pages} = {row \in table : Selected(row, keywords)}
        /\ answer(1).total = Len(pages)
=============================================================================
