------------------------------ MODULE TurnSync ------------------------------
(***************************************************************************)
(* sync_turn: after a turn of the conversation the registered extractors   *)
(* yield candidates and the provider submits them, while extractors raise, *)
(* yield other things or more than is taken, submissions fail, and further *)
(* extractors are registered.  What a submission does is in Candidates.    *)
(***************************************************************************)
EXTENDS Naturals, Sequences, FiniteSets

CONSTANTS
  Candidates,     \* what extractors may yield and the provider may submit
  Junk,           \* something else an extractor may yield
  PerTurn,        \* _MAX_CANDIDATES_PER_TURN
  MaxExtractors,  \* bound: how many extractors are registered
  MaxTurns,       \* bound: how many turns are synchronised
  Null

\* What an extractor may yield.
Yields == UNION {[1..n -> Candidates \cup {Junk}] : n \in 0..(PerTurn + 1)}

SyncConstants ==
  /\ PerTurn \in Nat \ {0} /\ MaxExtractors \in Nat /\ MaxTurns \in Nat
  /\ Junk \notin Candidates /\ Null \notin Yields

VARIABLES
  extractors,  \* how many extractors are registered
  turns,       \* how many turns were synchronised
  turn,        \* the local variables of sync_turn
  due,         \* how many extractors were registered when the last turn began
  yielded,     \* what each extractor of the last turn yielded, Null if it raised
  tried,       \* the candidates of the last turn that were submitted, or failed
  stored       \* the candidates that were submitted

vars == <<extractors, turns, turn, due, yielded, tried, stored>>

Idle == [pc |-> "idle"]

Turn ==
  [pc : {"extract", "submit"}, left : 0..MaxExtractors, candidates : Seq(Candidates)]

\* The types of the variables; every extractor that was registered when the turn
\* began is asked at most once.
TypeOK ==
  /\ extractors \in 0..MaxExtractors /\ turns \in 0..MaxTurns
  /\ turn = Idle \/ turn \in Turn
  /\ due \in 0..extractors
  /\ tried \in Seq(Candidates)
  /\ stored \subseteq Candidates
  /\ turn # Idle => turn.left + Len(yielded) <= due

Init ==
  /\ extractors = 0 /\ turns = 0 /\ turn = Idle /\ due = 0
  /\ yielded = <<>> /\ tried = <<>> /\ stored = {}

\* register_extractor adds to a new tuple: a loop over the old one goes on.
Register ==
  /\ extractors < MaxExtractors
  /\ extractors' = extractors + 1
  /\ UNCHANGED <<turns, turn, due, yielded, tried, stored>>

\* Not without an extractor and a session, or with a context that is too large
\* or is no JSON.
Begin ==
  /\ turn = Idle /\ turns < MaxTurns /\ extractors > 0
  /\ turn' = [pc |-> "extract", left |-> extractors, candidates |-> <<>>]
  /\ turns' = turns + 1 /\ due' = extractors
  /\ yielded' = <<>> /\ tried' = <<>>
  /\ UNCHANGED <<extractors, stored>>

FirstOf(s) == SubSeq(s, 1, IF Len(s) < PerTurn THEN Len(s) ELSE PerTurn)
IsCandidate(item) == item # Junk

\* The candidates among the first items, of however many there are: the k-th
\* is at the place that has k of their places up to it.
Items(value) ==
  LET taken == FirstOf(value)
      places == {n \in DOMAIN taken : IsCandidate(taken[n])}
      Place(k) == CHOOSE n \in places : Cardinality({m \in places : m <= n}) = k
  IN [k \in 1..Cardinality(places) |-> taken[Place(k)]]

Extracted(left, candidates, value) ==
  /\ turn # Idle /\ turn.pc = "extract"
  /\ turn' = [pc |-> IF left = 0 THEN "submit" ELSE "extract",
              left |-> left, candidates |-> turn.candidates \o candidates]
  /\ yielded' = Append(yielded, value)
  /\ UNCHANGED <<extractors, turns, due, tried, stored>>

\* Also while its items are read: then none of them is taken.
ExtractorRaises == Extracted(turn.left - 1, <<>>, Null)

ExtractorYields(value) == Extracted(turn.left - 1, Items(value), value)

Submitting == turn # Idle /\ turn.pc = "submit" /\ turn.candidates # <<>>

Submitted(rest, more) ==
  /\ Submitting
  /\ tried' = Append(tried, Head(turn.candidates))
  /\ turn' = [turn EXCEPT !.candidates = rest]
  /\ stored' = stored \cup more
  /\ UNCHANGED <<extractors, turns, due, yielded>>

Submit == Submitted(Tail(turn.candidates), {Head(turn.candidates)})

\* Mutant of SubmitRaises: the rest is given up.
SubmitRaisesLast == Submitted(<<>>, {})

SubmitRaises == Submitted(Tail(turn.candidates), {})

End ==
  /\ turn # Idle /\ turn.pc = "submit" /\ turn.candidates = <<>>
  /\ turn' = Idle
  /\ UNCHANGED <<extractors, turns, due, yielded, tried, stored>>

Extract ==
  /\ turn # Idle /\ turn.pc = "extract"
  /\ ExtractorRaises \/ \E value \in Yields : ExtractorYields(value)

Sync == Extract \/ Submit \/ SubmitRaises \/ End

Next == Register \/ Begin \/ Sync

Spec == Init /\ [][Next]_vars

----------------------------------------------------------------------------
(* Properties *)

Times(s, c) == Cardinality({n \in DOMAIN s : s[n] = c})

\* How often the candidate is among the first items of those that did not raise.
Yielded(c) ==
  Cardinality({at \in (DOMAIN yielded) \X (1..PerTurn) :
    LET value == yielded[at[1]]
    IN value # Null /\ at[2] \in DOMAIN value /\ value[at[2]] = c})

\* Failures are isolated: a turn that ends has asked every extractor and tried
\* each candidate exactly as often as those that did not raise yielded it among
\* their first items, whatever raised before or between.
FailuresIsolated ==
  turn = Idle =>
    /\ Len(yielded) = due
    /\ \A c \in Candidates : Times(tried, c) = Yielded(c)

=============================================================================
