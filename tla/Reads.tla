-------------------------------- MODULE Reads --------------------------------
(***************************************************************************)
(* The reads of a profile: the pages of a structured search, or the hybrid *)
(* ranking of a text search.  The two share no state, so a behaviour is    *)
(* one of either, with the other at rest.                                  *)
(***************************************************************************)
EXTENDS Search

CONSTANTS
  Distances, MaxDistance, TextLimit, Scale  \* of Ranking

VARIABLES
  activity,  \* which of the two this behaviour is about
  words, distance, embedded, results  \* of Ranking

R == INSTANCE Ranking WITH Limit <- TextLimit

ASSUME RankConstants == R!RankingConstants

ranking == <<words, distance, embedded, results>>
reads == <<vars, ranking, activity>>

ReadsInit ==
  \/ activity = "search" /\ Init
     /\ words = <<>> /\ distance = <<>> /\ embedded = FALSE /\ results = <<>>
  \/ activity = "rank" /\ R!Init
     /\ Init /\ store = "postgres" /\ active = {}

ReadsNext ==
  /\ \/ activity = "search" /\ Next /\ UNCHANGED ranking
     \/ activity = "rank" /\ R!Next /\ UNCHANGED vars
  /\ UNCHANGED activity

ReadsSpec == ReadsInit /\ [][ReadsNext]_reads

----------------------------------------------------------------------------
(* Properties: those of Search, and *)

\* A record that is not behind another by its words nor, among the near ones,
\* by its distance, and is ahead by one of them, is ranked ahead of it; and
\* vectors only add: without one that is near enough, and without a vector of
\* the query, the search returns what the words found, in that order.
RankingSound == R!RanksByEvidence /\ R!FallsBackToWords

=============================================================================
