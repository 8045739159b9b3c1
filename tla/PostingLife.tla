----------------------------- MODULE PostingLife ----------------------------
(***************************************************************************)
(* One posting on one board, as the hourly scrapes meet it: it grows older *)
(* by a day, its repost key is written and lapses again.  The module has   *)
(* no state of its own in the program; it drives the scoring functions     *)
(* through every listing the boards can produce.                           *)
(***************************************************************************)
EXTENDS JobSources

CONSTANTS Raws,       \* the raw postings considered, a subset of RawPosting
          MaxAge      \* bound: the age at which a posting is followed no more

ASSUME RawsAssumption == Raws \subseteq RawPosting /\ MaxAge \in Int

VARIABLES board, raw, remembered

lifeVars == <<board, raw, remembered>>

listing == FromBoard(board, raw)
score == Score(listing, remembered)

LifeInit == board \in Boards /\ raw \in Raws /\ remembered = FALSE

GrowOlder ==
  /\ raw.age < MaxAge
  /\ raw' = [raw EXCEPT !.age = @ + 1]
  /\ UNCHANGED <<board, remembered>>

KeyWritten ==
  /\ ~remembered /\ Accepts(listing, remembered)
  /\ remembered' = TRUE
  /\ UNCHANGED <<board, raw>>

KeyLapses ==
  /\ remembered
  /\ remembered' = FALSE
  /\ UNCHANGED <<board, raw>>

LifeNext == GrowOlder \/ KeyWritten \/ KeyLapses

LifeSpec == LifeInit /\ [][LifeNext]_lifeVars

-----------------------------------------------------------------------------
\* Everything a source returns is a listing the scorer can score, the score is
\* an integer from 0 to 85, and one enrichment bonus never reaches the cap of 100.
ScoreBounds == listing \in Listing /\ score \in 0..85

\* ScraperWorker re-scrapes hourly and a listing is its own repost from the
\* second hour on: the stored row is refreshed only by a complete listing of
\* less than a week, whatever it scored when it was first seen.
RepostNeedsAll == Accepts(listing, TRUE) <=> Complete(listing)

\* A listing without a usable date is never stored, so no row reaches Postgres
\* with a posted_at that is not a date, and a board without salaries
\* (WeWorkRemotely) gets a listing stored only while it is first seen.
StoredListingsAreDated ==
  Accepts(listing, remembered) =>
    /\ listing.postedAt = "valid" /\ listing.age < 30
    /\ board = "weworkremotely" => ~remembered

\* Growing older never raises the score, and the repost key costs exactly the
\* twenty points of a first sighting.
AgeingNeverRaises ==
  [][score' <= score + (IF remembered /\ ~remembered' THEN 20 ELSE 0)]_lifeVars
=============================================================================
