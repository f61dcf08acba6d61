------------------------------ MODULE Ranking ------------------------------
(***************************************************************************)
(* The hybrid ranking of a text search: the records found by their words   *)
(* and the records whose vectors are near to that of the query, merged by  *)
(* reciprocal rank.  One step ranks what the two queries found.            *)
(***************************************************************************)
EXTENDS Orders, SequencesExt

CONSTANTS
  Ids,          \* the visible records, in the order of their uuids
  Distances,    \* the cosine distances there are, in quarters
  MaxDistance,  \* DURABLE_MEMORY_EMBEDDING_MAX_DISTANCE, in quarters
  Limit,        \* how many results are asked for
  Scale         \* a common denominator of the reciprocal ranks

RankingConstants ==
  /\ Ids \subseteq Nat /\ IsFiniteSet(Ids)
  /\ Distances \subseteq 0..8 /\ MaxDistance \in 0..8
  /\ Limit \in 1..50
  /\ Scale \in Nat \ {0} /\ \A place \in 1..Limit : Scale % (60 + place) = 0

VARIABLES
  words,      \* the records found by their words, best first
  distance,   \* how far the vector of a record is, for those that have one
  embedded,   \* whether the query could be embedded
  results     \* the ranked records

vars == <<words, distance, embedded, results>>

Init ==
  /\ words \in UNION {[1..n -> Ids] : n \in 0..Limit}
  /\ IsInjective(words)
  /\ distance \in UNION {[near -> Distances] : near \in SUBSET Ids}
  /\ embedded \in BOOLEAN
  /\ results = <<>>

Nearer ==
  {p \in Ids \X Ids :
     \/ distance[p[1]] < distance[p[2]]
     \/ distance[p[1]] = distance[p[2]] /\ p[1] < p[2]}

\* Only the current, indexed projections; nothing where the query has no vector.
VectorSearch ==
  IF embedded
  THEN FirstOf(Sorted(DOMAIN distance, Nearer), Limit)
  ELSE <<>>

\* The place of a record in a list, 0 where it is not in it.
Place(s, i) == IF \E n \in DOMAIN s : s[n] = i
               THEN CHOOSE n \in DOMAIN s : s[n] = i ELSE 0

Reciprocal(place) == IF place = 0 THEN 0 ELSE Scale \div (60 + place)

\* A record too far off is passed over, but its place stays counted.
NearPlace(i) ==
  IF i \in DOMAIN distance /\ distance[i] <= MaxDistance
  THEN Place(VectorSearch, i) ELSE 0

\* Mutant of Score: what the words gave is overwritten.
ScoreLast(i) ==
  IF NearPlace(i) # 0
  THEN (8 - distance[i]) * Reciprocal(NearPlace(i))
  ELSE 8 * Reciprocal(Place(words, i))

\* Eight times the score: a hit at distance d counts for (1 - d / 2).
Score(i) ==
  8 * Reciprocal(Place(words, i))
    + (IF NearPlace(i) = 0 THEN 0
       ELSE (8 - distance[i]) * Reciprocal(NearPlace(i)))

Ranked == ToSet(words) \cup {i \in Ids : NearPlace(i) # 0}

Better ==
  {p \in Ids \X Ids :
     \/ Score(p[1]) > Score(p[2])
     \/ Score(p[1]) = Score(p[2]) /\ p[1] < p[2]}

HybridRank ==
  /\ results = <<>>
  /\ results' = FirstOf(Sorted(Ranked, Better), Limit)
  /\ UNCHANGED <<words, distance, embedded>>

Next == HybridRank

Spec == Init /\ [][Next]_vars

----------------------------------------------------------------------------
(* Properties *)

\* Ahead of in one list: a better place, or a place at all.
NotBehind(p, q) == q = 0 \/ (p # 0 /\ p <= q)

\* A record that is not behind another by its words nor, among the near ones,
\* by its distance, and is ahead by one of them, is ranked ahead of it: neither
\* list can be played out against the other.
RanksByEvidence ==
  results # <<>> =>
    \A i, j \in Ranked :
      /\ NotBehind(Place(words, i), Place(words, j))
      /\ NotBehind(NearPlace(i), NearPlace(j))
      /\ Place(words, i) # Place(words, j) \/ NearPlace(i) # NearPlace(j)
      => /\ Place(results, j) # 0 => Place(results, i) \in 1..(Place(results, j) - 1)

\* Vectors only add: without one that is near enough, and without a vector of
\* the query, the search returns what the words found, in that order.
FallsBackToWords ==
  /\ results # <<>>
  /\ ~embedded \/ \A i \in DOMAIN distance : distance[i] > MaxDistance
  => results = words

=============================================================================
