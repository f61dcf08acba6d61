--------------------------- MODULE Importer_proofs ---------------------------
(***************************************************************************)
(* Theorems about Importer for any number of profiles, runs and facts, any *)
(* size of a page and any checkpoints in use.                              *)
(***************************************************************************)
EXTENDS Importer, SequenceTheorems, TLAPS

USE ImporterConstants

\* A fact that is recorded was asked for.
RecordedAsked ==
  \A p \in Profiles, f \in Facts : recorded[p][f] # Null => asked[p][f] # {}

\* What an import still has to submit before its checkpoint moves to next.
Pending(me, f) == \E i \in 1..Len(me.candidates) : me.candidates[i].id = f

\* A run that submits does so for a whole page: unless it has started where a
\* dry run got to, each fact up to the end of the page is handled or among those
\* to come.
PageCovered(me) ==
  /\ me.pc # "page" => ~me.dry_run
  /\ me.pc = "page" => me.candidates = <<>>
  /\ me.pc # "page" /\ ~me.ahead =>
       \A f \in Facts : f <= me.next => Handled(me.profile, f) \/ Pending(me, f)

Balanced(report, open) ==
  report["seen"] = report["proposed"] + report["duplicates"]
                     + report["conflicts"] + report["rejected"] + open

\* The report of a run that submits counts what it has seen and not submitted.
Counted(me) == ~me.dry_run => Balanced(me.report, Len(me.candidates))

\* What a run has behind its checkpoint is handled, unless a dry run passed over it.
Behind(me) ==
  ~me.ahead => \A f \in Facts : f <= me.current => Handled(me.profile, f)

Good(me) == me # Idle => PageCovered(me) /\ Counted(me) /\ Behind(me)

\* NothingSkipped is not inductive: that a page is handled when its checkpoint
\* moves takes each submission before to have been answered, and that a run
\* which returns has submitted what is behind it, each page before.
IInv ==
  /\ TypeOK /\ NothingSkipped /\ ReportsExplained /\ RecordedAsked
  /\ \A r \in Runs : Good(run[r])

\* The parts of IInv that are about the tables, and about a run.
Tables ==
  /\ fact \in Seq(Contents) /\ Len(fact) <= MaxFacts
  /\ edits \in 0..MaxEdits /\ stops \in 0..MaxStops
  /\ asked \in [Profiles -> [Facts -> SUBSET Contents]]
  /\ recorded \in [Profiles -> [Facts -> Contents \cup {Null}]]
  /\ saved \in [Profiles -> Saved]
  /\ noted \in [Profiles -> Noted]

CheckpointsCovered ==
  \A p \in Profiles, f \in Facts :
    \/ f <= saved[p].checkpoint /\ ~saved[p].ahead
    \/ f <= noted[p].checkpoint /\ ~noted[p].ahead
    => Handled(p, f)

RunTyped(me) ==
  /\ me \in RunState \cup {Idle}
  /\ me # Idle => (me.pc = "submit" <=> me.candidates # <<>>)

----------------------------------------------------------------------------
(* Pages and reports *)

Fact == [id : Facts, content : Contents]

\* A page holds the rows after the checkpoint, in their order, and ends within
\* the source.
LEMMA PageIs ==
  ASSUME TypeOK, NEW a \in 0..MaxFacts
  PROVE  /\ Page(a) \in Seq(Fact)
         /\ Page(a) # <<>> => Len(Page(a)) > 0 /\ a + Len(Page(a)) <= Len(fact)
         /\ \A i \in 1..Len(Page(a)) : Page(a)[i].id = a + i
<1> DEFINE n == Least(a + BatchSize, Len(fact)) - a
           m == IF n < 0 THEN 0 ELSE n
           row(i) == [id |-> a + i, content |-> fact[a + i]]
<1>1. /\ Len(fact) \in Nat /\ Len(fact) <= MaxFacts /\ BatchSize \in Nat /\ a \in Nat
      /\ fact \in [1..Len(fact) -> Contents]
  BY LenProperties DEF TypeOK
<1>2. n \in Int /\ m \in Nat /\ 1..n = 1..m /\ (m > 0 => a + m <= Len(fact))
  BY <1>1 DEF Least
<1>3. Page(a) = [i \in 1..m |-> row(i)]
  BY <1>2 DEF Page
<1>4. \A i \in 1..m : row(i) \in Fact
  <2> SUFFICES ASSUME NEW i \in 1..m PROVE row(i) \in Fact
    OBVIOUS
  <2>1. a + i \in 1..Len(fact)
    BY <1>1, <1>2
  <2>2. a + i \in Facts /\ fact[a + i] \in Contents
    BY <1>1, <2>1 DEF Facts
  <2> QED
    BY <2>2 DEF Fact
<1> HIDE DEF m, row
<1>5. Page(a) \in [1..m -> Fact]
  BY <1>3, <1>4
<1>6. Page(a) \in Seq(Fact) /\ Len(Page(a)) = m
  BY <1>2, <1>5, LenProperties, SeqDef
<1>7. Page(a) # <<>> => m > 0
  BY <1>2, <1>6, EmptySeq
<1>8. \A i \in 1..m : Page(a)[i].id = a + i
  BY <1>3 DEF row
<1> QED
  BY <1>2, <1>6, <1>7, <1>8

\* A counter counts, and no other one changes.
LEMMA CountIs ==
  ASSUME NEW report \in Report, NEW counter \in Counters, NEW n \in Nat
  PROVE  /\ Count(report, counter, n) \in Report
         /\ Count(report, counter, n)[counter] = report[counter] + n
         /\ \A k \in Counters \ {counter} : Count(report, counter, n)[k] = report[k]
BY DEF Count, Report

\* Every counter is a number.
LEMMA ReportIs ==
  ASSUME NEW report \in Report
  PROVE  /\ report["seen"] \in Nat /\ report["proposed"] \in Nat
         /\ report["duplicates"] \in Nat /\ report["conflicts"] \in Nat
         /\ report["rejected"] \in Nat
BY DEF Report, Counters

Outcomes == {"proposed", "duplicates", "conflicts", "rejected"}

\* The candidates of a page that was read are open.
LEMMA SeenIs ==
  ASSUME NEW report \in Report, NEW n \in Nat
  PROVE  /\ Count(report, "seen", n) \in Report
         /\ Balanced(report, 0) => Balanced(Count(report, "seen", n), n)
<1> DEFINE new == Count(report, "seen", n)
<1>1. "seen" \in Counters /\ \A k \in Outcomes : k \in Counters \ {"seen"}
  BY DEF Counters, Outcomes
<1>2. /\ new \in Report /\ new["seen"] = report["seen"] + n
      /\ \A k \in Outcomes : new[k] = report[k]
  BY <1>1, CountIs
<1> HIDE DEF new
<1>3. /\ new["proposed"] = report["proposed"] /\ new["duplicates"] = report["duplicates"]
      /\ new["conflicts"] = report["conflicts"] /\ new["rejected"] = report["rejected"]
  BY <1>2 DEF Outcomes
<1>4. Balanced(report, 0) => Balanced(new, n)
  BY <1>2, <1>3, ReportIs DEF Balanced
<1> QED
  BY <1>2, <1>4 DEF new

\* An answer closes one.
LEMMA AnsweredIs ==
  ASSUME NEW report \in Report, NEW counter \in Outcomes, NEW n \in Nat,
         Balanced(report, n + 1)
  PROVE  Balanced(Count(report, counter, 1), n)
<1> DEFINE new == Count(report, counter, 1)
<1>1. counter \in Counters /\ counter # "seen" /\ \A k \in Outcomes : k \in Counters
  BY DEF Counters, Outcomes
<1>2. /\ new["seen"] = report["seen"] /\ new[counter] = report[counter] + 1
      /\ \A k \in Outcomes \ {counter} : new[k] = report[k]
  <2>1. "seen" \in Counters \ {counter}
    BY <1>1 DEF Counters
  <2> QED
    BY <1>1, <2>1, CountIs
<1> SUFFICES Balanced(new, n)
  OBVIOUS
<1> HIDE DEF new
<1>3. CASE counter = "proposed"
  BY <1>2, <1>3, ReportIs DEF Balanced, Outcomes
<1>4. CASE counter = "duplicates"
  BY <1>2, <1>4, ReportIs DEF Balanced, Outcomes
<1>5. CASE counter = "conflicts"
  BY <1>2, <1>5, ReportIs DEF Balanced, Outcomes
<1>6. CASE counter = "rejected"
  BY <1>2, <1>6, ReportIs DEF Balanced, Outcomes
<1> QED
  BY <1>3, <1>4, <1>5, <1>6 DEF Outcomes

\* A submission that was answered takes one candidate away and counts it.
LEMMA TakenIs ==
  ASSUME NEW me \in RunState, me.candidates # <<>>, me.pc = "submit",
         NEW counter \in Outcomes
  PROVE  /\ Taken(me, counter) \in RunState
         /\ Taken(me, counter).candidates = Tail(me.candidates)
         /\ Taken(me, counter).profile = me.profile
         /\ Taken(me, counter).dry_run = me.dry_run
         /\ Taken(me, counter).current = me.current
         /\ Taken(me, counter).ahead = me.ahead
         /\ Taken(me, counter).next = me.next
         /\ Taken(me, counter).report = Count(me.report, counter, 1)
         /\ Taken(me, counter).pc =
              IF Tail(me.candidates) = <<>> THEN "save" ELSE "submit"
         /\ Len(me.candidates) = Len(Tail(me.candidates)) + 1
         /\ Len(Tail(me.candidates)) \in Nat
<1> DEFINE rest == [me EXCEPT !.candidates = Tail(@), !.report = Count(@, counter, 1)]
<1>1. me.candidates \in Seq([id : Facts, content : Contents]) /\ me.report \in Report
  BY DEF RunState
<1>2. /\ Tail(me.candidates) \in Seq([id : Facts, content : Contents])
      /\ Len(Tail(me.candidates)) = Len(me.candidates) - 1
      /\ Len(me.candidates) \in Nat /\ Len(Tail(me.candidates)) \in Nat
  BY <1>1, HeadTailProperties, LenProperties
<1>3. Count(me.report, counter, 1) \in Report /\ counter \in Counters
  BY <1>1, CountIs DEF Counters, Outcomes
<1>4. /\ rest \in RunState /\ rest.candidates = Tail(me.candidates)
      /\ rest.profile = me.profile /\ rest.dry_run = me.dry_run
      /\ rest.current = me.current /\ rest.next = me.next /\ rest.ahead = me.ahead
      /\ rest.report = Count(me.report, counter, 1) /\ rest.pc = "submit"
  BY <1>2, <1>3 DEF RunState
<1>5. Taken(me, counter) = IF rest.candidates = <<>> THEN [rest EXCEPT !.pc = "save"]
                           ELSE rest
  BY DEF Taken
<1> HIDE DEF rest
<1>6. Taken(me, counter) = IF Tail(me.candidates) = <<>> THEN [rest EXCEPT !.pc = "save"]
                           ELSE rest
  BY <1>4, <1>5
<1>7. CASE Tail(me.candidates) = <<>>
  BY <1>2, <1>4, <1>6, <1>7 DEF RunState
<1>8. CASE Tail(me.candidates) # <<>>
  BY <1>2, <1>4, <1>6, <1>8
<1> QED
  BY <1>7, <1>8


----------------------------------------------------------------------------
(* One run moves *)

LEMMA Parts ==
  IInv <=> /\ Tables /\ CheckpointsCovered /\ ReportsExplained /\ RecordedAsked
           /\ run \in [Runs -> RunState \cup {Idle}]
           /\ \A r \in Runs : RunTyped(run[r]) /\ Good(run[r])
<1>1. TypeOK <=> /\ Tables /\ run \in [Runs -> RunState \cup {Idle}]
                 /\ \A r \in Runs : RunTyped(run[r])
  BY DEF TypeOK, Tables, RunTyped
<1>2. (\A r \in Runs : Good(run[r])) =>
        (NothingSkipped <=> CheckpointsCovered)
  BY DEF NothingSkipped, CheckpointsCovered, Good, Behind
<1> QED
  BY <1>1, <1>2 DEF IInv

\* Nothing that was asked for is forgotten.
Grown ==
  \A p \in Profiles, f \in Facts : asked[p][f] # {} => asked'[p][f] # {}

\* A run that has begun is of one profile.
LEMMA RunIs ==
  ASSUME IInv, NEW r \in Runs, run[r] # Idle
  PROVE  /\ run[r] \in RunState /\ run[r].profile \in Profiles /\ run[r].report \in Report
         /\ run[r].current \in 0..MaxFacts /\ run[r].next \in 0..MaxFacts
         /\ run[r].ahead \in BOOLEAN
         /\ run[r].candidates \in Seq(Fact)
         /\ PageCovered(run[r]) /\ Counted(run[r]) /\ Behind(run[r])
BY DEF IInv, TypeOK, RunState, Good, Fact

\* So what holds of a run that does not move holds of it still.
LEMMA RunStays ==
  ASSUME IInv, NEW t \in Runs, run'[t] = run[t], Grown
  PROVE  Good(run[t])'
<1> SUFFICES ASSUME run[t] # Idle PROVE Good(run[t])'
  BY DEF Good
<1>1. /\ run[t].profile \in Profiles
      /\ PageCovered(run[t]) /\ Counted(run[t]) /\ Behind(run[t])
  BY RunIs
<1>2. \A f \in Facts : Handled(run[t].profile, f) => Handled(run[t].profile, f)'
  BY <1>1 DEF Handled, Grown
<1>3. PageCovered(run[t])'
  BY <1>1, <1>2 DEF PageCovered, Pending
<1>4. Counted(run[t])'
  BY <1>1 DEF Counted, Balanced
<1>5. Behind(run[t])'
  BY <1>1, <1>2 DEF Behind
<1> QED
  BY <1>3, <1>4, <1>5 DEF Good

\* A create request is one more.
LEMMA AskedIs ==
  ASSUME TypeOK, NEW p \in Profiles, NEW f \in Facts, NEW content \in Contents,
         asked' = [asked EXCEPT ![p][f] = @ \cup {content}]
  PROVE  /\ asked' \in [Profiles -> [Facts -> SUBSET Contents]]
         /\ Grown /\ content \in asked'[p][f]
<1>1. asked \in [Profiles -> [Facts -> SUBSET Contents]] /\ asked[p] \in [Facts -> SUBSET Contents]
  BY DEF TypeOK
<1>2. asked' \in [Profiles -> [Facts -> SUBSET Contents]]
  BY <1>1
<1>3. asked'[p][f] = asked[p][f] \cup {content}
  BY <1>1
<1>4. \A q \in Profiles, g \in Facts :
        q # p \/ g # f => asked'[q][g] = asked[q][g]
  BY <1>1
<1> QED
  BY <1>2, <1>3, <1>4 DEF Grown

\* The rule by which the steps of a run keep the invariant.
LEMMA StepInv ==
  ASSUME IInv, NEW r \in Runs, \A t \in Runs : t # r => run'[t] = run[t],
         run' \in [Runs -> RunState \cup {Idle}], RunTyped(run'[r]), Good(run[r])',
         Tables', Grown, CheckpointsCovered', ReportsExplained', RecordedAsked'
  PROVE  IInv'
<1>1. \A t \in Runs : RunTyped(run'[t])
  BY Parts
<1>2. \A t \in Runs : Good(run[t])'
  BY RunStays
<1>3. TypeOK'
  BY <1>1 DEF TypeOK, Tables, RunTyped
<1>4. NothingSkipped'
  BY <1>2 DEF NothingSkipped, CheckpointsCovered, Good, Behind
<1> QED
  BY <1>2, <1>3, <1>4 DEF IInv

\* A run ends, and nothing was saved.
LEMMA IdleInv ==
  ASSUME IInv, NEW r \in Runs, run' = [run EXCEPT ![r] = Idle],
         UNCHANGED <<asked, recorded, saved>>, Tables', CheckpointsCovered'
  PROVE  IInv'
<1>1. /\ run'[r] = Idle /\ \A t \in Runs : t # r => run'[t] = run[t]
      /\ run' \in [Runs -> RunState \cup {Idle}]
  BY DEF IInv, TypeOK
<1>2. RunTyped(run'[r]) /\ Good(run[r])'
  BY <1>1 DEF RunTyped, Good
<1>3. Grown /\ ReportsExplained' /\ RecordedAsked'
  BY DEF Grown, IInv, ReportsExplained, RecordedAsked
<1> QED
  BY <1>1, <1>2, <1>3, StepInv

LEMMA StartImportInv ==
  ASSUME IInv, NEW r \in Runs, NEW p \in Profiles, NEW dry \in BOOLEAN,
         StartImport(r, p, dry)
  PROVE  IInv'
<1>1. PICK from \in {saved[p], NotNoted} \cup ({noted[p]} \ {NotNoted}) :
        StartFrom(r, p, dry, from)
  BY DEF StartImport
<1> DEFINE me == Started(p, dry, from)
<1>2. /\ UNCHANGED <<source, store, saved, noted, stops>> /\ TypeOK
      /\ run' = [run EXCEPT ![r] = me]
      /\ from.checkpoint \in 0..MaxFacts /\ from.ahead \in BOOLEAN
  <2>1. /\ saved[p].checkpoint \in 0..MaxFacts /\ saved[p].ahead \in BOOLEAN
        /\ noted[p].checkpoint \in 0..MaxFacts /\ noted[p].ahead \in BOOLEAN
        /\ NotNoted.checkpoint \in 0..MaxFacts /\ NotNoted.ahead \in BOOLEAN
    BY DEF IInv, TypeOK, Saved, Noted, NotNoted
  <2> QED
    BY <1>1, <2>1 DEF StartFrom, IInv
<1>3. /\ me \in RunState /\ me.pc = "page" /\ me.candidates = <<>>
      /\ me.current = from.checkpoint /\ me.ahead = from.ahead
      /\ me.profile = p /\ me.report = Zero
  <2>1. Zero \in Report /\ <<>> \in Seq([id : Facts, content : Contents])
    BY EmptySeq DEF Zero, Report
  <2>2. 0 \in 0..MaxFacts
    OBVIOUS
  <2> QED
    BY <1>2, <2>1, <2>2 DEF Started, RunState
<1>4. Zero["seen"] = 0 /\ \A k \in Outcomes : Zero[k] = 0
  BY DEF Zero, Counters, Outcomes
<1> HIDE DEF me
<1>5. /\ run'[r] = me /\ \A t \in Runs : t # r => run'[t] = run[t]
      /\ run' \in [Runs -> RunState \cup {Idle}]
  BY <1>2, <1>3 DEF TypeOK
<1>6. ~from.ahead => \A f \in Facts : f <= from.checkpoint => Handled(p, f)
  BY DEF IInv, NothingSkipped, NotNoted, Facts
<1>7. Good(run[r])'
  <2>1. PageCovered(run[r])'
    BY <1>3, <1>5 DEF PageCovered
  <2>2. Counted(run[r])'
    BY <1>3, <1>4, <1>5, EmptySeq DEF Counted, Balanced, Outcomes
  <2>3. Behind(run[r])'
    BY <1>2, <1>3, <1>5, <1>6 DEF Behind, Handled, store
  <2> QED
    BY <2>1, <2>2, <2>3 DEF Good
<1>8. RunTyped(run'[r])
  BY <1>3, <1>5 DEF RunTyped
<1>9. Tables' /\ CheckpointsCovered' /\ ReportsExplained' /\ RecordedAsked' /\ Grown
  BY <1>2, Parts
     DEF source, store, Tables, CheckpointsCovered, Handled, ReportsExplained,
         RecordedAsked, Grown
<1> QED
  BY <1>5, <1>7, <1>8, <1>9, StepInv


LEMMA ReadPageInv ==
  ASSUME IInv, NEW r \in Runs, ReadPage(r)
  PROVE  IInv'
<1> DEFINE me == run[r]
           page == Page(me.current)
           counted == [me EXCEPT !.report = Count(@, "seen", Len(page))]
<1>1. /\ me.pc = "page" /\ UNCHANGED <<source, store, saved, stops>> /\ TypeOK
  BY DEF ReadPage, IInv
<1>2. me # Idle
  BY <1>1 DEF Idle
<1>3. /\ me \in RunState /\ me.profile \in Profiles /\ me.report \in Report
      /\ me.current \in 0..MaxFacts /\ PageCovered(me) /\ Counted(me) /\ Behind(me)
      /\ me.candidates = <<>> /\ me.ahead \in BOOLEAN
  BY <1>1, <1>2, RunIs DEF PageCovered
<1>4. /\ page \in Seq(Fact) /\ Len(page) \in Nat /\ Len(fact) \in Nat
      /\ page # <<>> => Len(page) > 0 /\ me.current + Len(page) <= Len(fact)
      /\ \A i \in 1..Len(page) : page[i].id = me.current + i
      /\ Len(fact) <= MaxFacts
  BY <1>1, <1>3, PageIs, LenProperties DEF TypeOK
<1>5. Grown /\ ReportsExplained' /\ RecordedAsked'
  BY <1>1 DEF Grown, IInv, ReportsExplained, RecordedAsked, store
<1>6. CASE Return(r)
  <2>1. run' = [run EXCEPT ![r] = Idle]
    BY <1>6 DEF Return
  <2>2. /\ noted' \in [Profiles -> Noted]
        /\ \A p \in Profiles :
             noted'[p] = noted[p]
               \/ (p = me.profile /\ noted'[p].checkpoint = me.current
                     /\ noted'[p].ahead = me.ahead)
    BY <1>1, <1>3, <1>6 DEF Return, TypeOK, Noted
  <2>3. Tables'
    BY <1>1, <2>2 DEF Tables, TypeOK, source, store
  <2>4. CheckpointsCovered'
    BY <1>1, <1>3, <2>2
       DEF CheckpointsCovered, Handled, Behind, store, IInv, NothingSkipped
  <2> QED
    BY <1>1, <2>1, <2>3, <2>4, IdleInv DEF store
<1>7. CASE page # <<>> /\ UNCHANGED noted /\ run' = [run EXCEPT ![r] =
             IF me.dry_run THEN [counted EXCEPT !.current = @ + Len(page), !.ahead = TRUE]
             ELSE [counted EXCEPT !.pc = "submit", !.candidates = page,
                                  !.next = me.current + Len(page)]]
  <2>1. Tables' /\ CheckpointsCovered'
    BY <1>1, <1>7
       DEF Tables, TypeOK, source, store, CheckpointsCovered, Handled, IInv, NothingSkipped
  <2>2. /\ Count(me.report, "seen", Len(page)) \in Report
        /\ Balanced(me.report, 0) => Balanced(Count(me.report, "seen", Len(page)), Len(page))
    BY <1>3, <1>4, SeenIs
  <2>3. me.current + Len(page) \in 0..MaxFacts
    BY <1>3, <1>4, <1>7
  <2>4. /\ counted \in RunState /\ counted.pc = "page" /\ counted.profile = me.profile
        /\ counted.dry_run = me.dry_run /\ counted.current = me.current
        /\ counted.candidates = <<>> /\ counted.ahead = me.ahead
        /\ counted.report = Count(me.report, "seen", Len(page))
    BY <1>1, <1>3, <2>2 DEF RunState
  <2>5. page \in Seq([id : Facts, content : Contents])
    BY <1>4 DEF Fact
  <2> HIDE DEF page, counted
  <2>6. CASE me.dry_run
    <3> DEFINE new == [counted EXCEPT !.current = @ + Len(page), !.ahead = TRUE]
    <3>1. /\ new \in RunState /\ new.pc = "page" /\ new.dry_run
          /\ new.candidates = <<>> /\ new.ahead
      BY <2>3, <2>4, <2>6 DEF RunState
    <3>2. run' = [run EXCEPT ![r] = new]
      BY <1>7, <2>6
    <3> HIDE DEF new
    <3>3. /\ run'[r] = new /\ \A t \in Runs : t # r => run'[t] = run[t]
          /\ run' \in [Runs -> RunState \cup {Idle}]
      BY <1>1, <3>1, <3>2 DEF TypeOK
    <3>4. RunTyped(run'[r]) /\ Good(run[r])'
      BY <3>1, <3>3 DEF RunTyped, Good, PageCovered, Counted, Behind
    <3> QED
      BY <1>5, <2>1, <3>3, <3>4, StepInv
  <2>7. CASE ~me.dry_run
    <3> DEFINE new == [counted EXCEPT !.pc = "submit", !.candidates = page,
                                      !.next = me.current + Len(page)]
    <3>1. /\ new \in RunState /\ new.pc = "submit" /\ ~new.dry_run
          /\ new.candidates = page /\ new.next = me.current + Len(page)
          /\ new.profile = me.profile /\ new.current = me.current
          /\ new.ahead = me.ahead
          /\ new.report = Count(me.report, "seen", Len(page))
      BY <2>3, <2>4, <2>5, <2>7 DEF RunState
    <3>2. run' = [run EXCEPT ![r] = new]
      BY <1>7, <2>7
    <3> HIDE DEF new
    <3>3. /\ run'[r] = new /\ \A t \in Runs : t # r => run'[t] = run[t]
          /\ run' \in [Runs -> RunState \cup {Idle}]
      BY <1>1, <3>1, <3>2 DEF TypeOK
    <3>4. RunTyped(run'[r])
      BY <1>7, <3>1, <3>3 DEF RunTyped
    <3>5. ~me.ahead => \A f \in Facts : f <= me.current => Handled(me.profile, f)
      BY <1>3 DEF Behind
    <3>6. PageCovered(run[r])'
      <4> SUFFICES ASSUME NEW f \in Facts, f <= new.next, ~(f <= new.current)
                   PROVE  \E i \in 1..Len(new.candidates) : new.candidates[i].id = f
        BY <1>1, <3>1, <3>3, <3>5 DEF PageCovered, Pending, Handled, store
      <4>1. f \in Nat /\ me.current \in Nat
        BY <1>3 DEF Facts
      <4>2. f - me.current \in 1..Len(page)
        BY <1>4, <3>1, <4>1
      <4>3. page[f - me.current].id = f
        BY <1>4, <4>1, <4>2
      <4> QED
        BY <3>1, <4>2, <4>3
    <3>7. Counted(run[r])'
      <4>1. Balanced(me.report, 0)
        BY <1>3, <2>7, EmptySeq DEF Counted
      <4>2. Balanced(new.report, Len(page))
        BY <2>2, <3>1, <4>1
      <4> QED
        BY <3>1, <3>3, <4>2 DEF Counted
    <3>8. Behind(run[r])'
      BY <1>1, <3>1, <3>3, <3>5 DEF Behind, Handled, store
    <3> QED
      BY <1>5, <2>1, <3>3, <3>4, <3>6, <3>7, <3>8, StepInv DEF Good
  <2> QED
    BY <2>6, <2>7
<1> QED
  BY <1>6, <1>7 DEF ReadPage

LEMMA SubmitNextInv ==
  ASSUME IInv, NEW r \in Runs, SubmitNext(r)
  PROVE  IInv'
<1> DEFINE me == run[r]
           c == Head(me.candidates)
<1>1. me.pc = "submit" /\ UNCHANGED <<source, saved, noted, stops>> /\ TypeOK
  BY DEF SubmitNext, IInv
<1>2. me # Idle
  BY <1>1 DEF Idle
<1>3. /\ me \in RunState /\ me.profile \in Profiles /\ me.report \in Report
      /\ me.candidates \in Seq(Fact) /\ me.candidates # <<>>
      /\ PageCovered(me) /\ Counted(me) /\ Behind(me)
  BY <1>1, <1>2, RunIs DEF TypeOK
<1>4. /\ c = me.candidates[1] /\ c \in Fact /\ c.id \in Facts /\ c.content \in Contents
  <2>1. Len(me.candidates) \in Nat \ {0}
    BY <1>3, EmptySeq
  <2>2. me.candidates[1] \in Fact
    BY <1>3, <2>1, ElementOfSeq
  <2> QED
    BY <1>3, <2>1, <2>2 DEF Fact
<1>5. PICK counter \in Outcomes :
        /\ run' = [run EXCEPT ![r] = Taken(me, counter)]
        /\ \/ c.id \in Rejected /\ UNCHANGED store
           \/ recorded[me.profile][c.id] # Null /\ UNCHANGED store
           \/ /\ asked' = [asked EXCEPT ![me.profile][c.id] = @ \cup {c.content}]
              /\ UNCHANGED recorded
  <2>1. "rejected" \in Outcomes /\ Assessment(me.profile, c) \in Outcomes
    BY DEF Outcomes, Assessment
  <2>2. Assessment(me.profile, c) # "proposed" => recorded[me.profile][c.id] # Null
    BY DEF Assessment
  <2> QED
    BY <2>1, <2>2 DEF SubmitNext, Submitted
<1> HIDE DEF c
<1>6. /\ asked' \in [Profiles -> [Facts -> SUBSET Contents]] /\ UNCHANGED recorded /\ Grown
      /\ \/ c.id \in Rejected
         \/ recorded[me.profile][c.id] # Null
         \/ c.content \in asked'[me.profile][c.id]
  <2>1. CASE UNCHANGED store
    <3>1. asked' = asked /\ recorded' = recorded
      BY <2>1 DEF store
    <3>2. asked' \in [Profiles -> [Facts -> SUBSET Contents]] /\ Grown
      BY <1>1, <3>1 DEF TypeOK, Grown
    <3>3. \/ c.id \in Rejected \/ recorded[me.profile][c.id] # Null
          \/ asked' = [asked EXCEPT ![me.profile][c.id] = @ \cup {c.content}]
      BY <1>5
    <3>4. asked' = [asked EXCEPT ![me.profile][c.id] = @ \cup {c.content}]
            => c.content \in asked'[me.profile][c.id]
      BY <1>1, <1>3, <1>4, AskedIs
    <3> QED
      BY <3>1, <3>2, <3>3, <3>4
  <2>2. CASE /\ asked' = [asked EXCEPT ![me.profile][c.id] = @ \cup {c.content}]
             /\ UNCHANGED recorded
    BY <1>1, <1>3, <1>4, <2>2, AskedIs
  <2> QED
    BY <1>5, <2>1, <2>2
<1> DEFINE later(f) == f \in Rejected \/ asked'[me.profile][f] # {}
<1>7. later(c.id)
  <2>1. recorded[me.profile][c.id] # Null => asked[me.profile][c.id] # {}
    BY <1>3, <1>4 DEF IInv, RecordedAsked
  <2>2. asked[me.profile][c.id] # {} => asked'[me.profile][c.id] # {}
    BY <1>3, <1>4, <1>6 DEF Grown
  <2> QED
    BY <1>6, <2>1, <2>2
<1> DEFINE new == Taken(me, counter)
<1>8. /\ new \in RunState /\ new.candidates = Tail(me.candidates)
      /\ new.profile = me.profile /\ new.dry_run = me.dry_run
      /\ new.current = me.current /\ new.next = me.next /\ new.ahead = me.ahead
      /\ new.report = Count(me.report, counter, 1)
      /\ new.pc = IF Tail(me.candidates) = <<>> THEN "save" ELSE "submit"
      /\ Len(me.candidates) = Len(Tail(me.candidates)) + 1
      /\ Len(Tail(me.candidates)) \in Nat
  BY <1>1, <1>3, TakenIs
<1>9. run' = [run EXCEPT ![r] = new]
  BY <1>5
<1> HIDE DEF new
<1>10. /\ run'[r] = new /\ \A t \in Runs : t # r => run'[t] = run[t]
       /\ run' \in [Runs -> RunState \cup {Idle}]
  BY <1>1, <1>8, <1>9 DEF TypeOK
<1>11. RunTyped(run'[r])
  BY <1>8, <1>10 DEF RunTyped
<1>12. Grown
  BY <1>6
<1>13. \A f \in Facts : Handled(me.profile, f) => later(f)
  BY <1>3, <1>12 DEF Handled, Grown
<1>14. ~me.dry_run
  BY <1>1, <1>3 DEF PageCovered
<1>15. PageCovered(run[r])'
  <2> SUFFICES ASSUME ~me.ahead, NEW f \in Facts, f <= me.next, ~later(f)
               PROVE  \E i \in 1..Len(new.candidates) : new.candidates[i].id = f
    BY <1>8, <1>10, <1>14 DEF PageCovered, Pending, Handled
  <2>1. PICK i \in 1..Len(me.candidates) : me.candidates[i].id = f
    BY <1>1, <1>3, <1>13 DEF PageCovered, Pending
  <2>2. i # 1
    BY <1>4, <1>7, <2>1
  <2>3. i - 1 \in 1..Len(Tail(me.candidates)) /\ (i - 1) + 1 = i
    BY <1>8, <2>1, <2>2
  <2>4. Tail(me.candidates)[i - 1] = me.candidates[i]
    BY <1>3, <2>3, HeadTailProperties
  <2> QED
    BY <1>8, <2>1, <2>3, <2>4
<1>16. Counted(run[r])'
  <2>1. Balanced(me.report, Len(me.candidates))
    BY <1>3, <1>14 DEF Counted
  <2>2. Balanced(new.report, Len(new.candidates))
    BY <1>3, <1>8, <2>1, AnsweredIs
  <2> QED
    BY <1>10, <2>2 DEF Counted
<1>17. Behind(run[r])'
  BY <1>3, <1>8, <1>10, <1>13, <1>14 DEF Behind, Handled
<1>18. Tables'
  BY <1>1, <1>6 DEF Tables, TypeOK, source
<1>19. CheckpointsCovered'
  BY <1>1, <1>12 DEF CheckpointsCovered, IInv, NothingSkipped, Handled, Grown
<1>20. ReportsExplained' /\ RecordedAsked'
  BY <1>1, <1>6, <1>12 DEF IInv, ReportsExplained, RecordedAsked, Grown
<1> QED
  BY <1>10, <1>11, <1>12, <1>15, <1>16, <1>17, <1>18, <1>19, <1>20, StepInv DEF Good

LEMMA SaveCheckpointInv ==
  ASSUME IInv, NEW r \in Runs, SaveCheckpoint(r)
  PROVE  IInv'
<1> DEFINE me == run[r]
           new == [me EXCEPT !.pc = "page", !.current = me.next]
<1>1. me.pc = "save" /\ UNCHANGED <<source, store, noted, stops>> /\ TypeOK
  BY DEF SaveCheckpoint, IInv
<1>2. me # Idle
  BY <1>1 DEF Idle
<1>3. /\ me \in RunState /\ me.profile \in Profiles /\ me.report \in Report
      /\ me.next \in 0..MaxFacts /\ PageCovered(me) /\ Counted(me) /\ Behind(me)
      /\ me.ahead \in BOOLEAN
  BY <1>2, RunIs
<1>4. me.candidates = <<>> /\ ~me.dry_run
  BY <1>1, <1>2, <1>3 DEF TypeOK, PageCovered
<1>5. ~me.ahead => \A f \in Facts : f <= me.next => Handled(me.profile, f)
  BY <1>1, <1>3, <1>4, EmptySeq DEF PageCovered, Pending
<1>6. Balanced(me.report, 0)
  BY <1>3, <1>4, EmptySeq DEF Counted
<1>7. /\ new \in RunState /\ new.pc = "page" /\ new.candidates = <<>> /\ ~new.dry_run
      /\ new.current = me.next /\ new.profile = me.profile /\ new.report = me.report
      /\ new.ahead = me.ahead
  BY <1>3, <1>4 DEF RunState
<1>8. run' = [run EXCEPT ![r] = new]
  BY <1>1 DEF SaveCheckpoint, TypeOK
<1> HIDE DEF new
<1>9. /\ run'[r] = new /\ \A t \in Runs : t # r => run'[t] = run[t]
      /\ run' \in [Runs -> RunState \cup {Idle}]
  BY <1>1, <1>7, <1>8 DEF TypeOK
<1>10. RunTyped(run'[r]) /\ Grown
  BY <1>1, <1>7, <1>9 DEF RunTyped, Grown, store
<1>11. Good(run[r])'
  <2>1. PageCovered(run[r])'
    BY <1>7, <1>9 DEF PageCovered
  <2>2. Counted(run[r])'
    BY <1>6, <1>7, <1>9, EmptySeq DEF Counted
  <2>3. Behind(run[r])'
    BY <1>1, <1>5, <1>7, <1>9 DEF Behind, Handled, store
  <2> QED
    BY <2>1, <2>2, <2>3 DEF Good
<1>12. /\ saved' \in [Profiles -> Saved]
       /\ \A p \in Profiles :
            saved'[p] = saved[p]
              \/ (p = me.profile /\ saved'[p].checkpoint = me.next
                    /\ saved'[p].ahead = me.ahead /\ saved'[p].report = me.report)
  <2>1. saved \in [Profiles -> Saved]
    BY <1>1 DEF TypeOK
  <2> DEFINE entry == [checkpoint |-> me.next, ahead |-> me.ahead, report |-> me.report]
  <2>2. entry \in Saved
    BY <1>3 DEF Saved
  <2>3. entry.checkpoint = me.next /\ entry.ahead = me.ahead /\ entry.report = me.report
    OBVIOUS
  <2>4. saved' = saved \/ saved' = [saved EXCEPT ![me.profile] = entry]
    BY DEF SaveCheckpoint
  <2> HIDE DEF entry
  <2> QED
    BY <1>3, <2>1, <2>2, <2>3, <2>4
<1>13. Tables'
  BY <1>1, <1>12 DEF Tables, TypeOK, source, store
<1>14. CheckpointsCovered'
  BY <1>1, <1>5, <1>12 DEF CheckpointsCovered, Handled, store, IInv, NothingSkipped
<1>15. ReportsExplained'
  <2> SUFFICES ASSUME NEW p \in Profiles PROVE Balanced(saved'[p].report, 0)
    <3>1. \A p \in Profiles : saved'[p].report \in Report
      BY <1>12 DEF Saved
    <3> QED
      BY <3>1, ReportIs DEF ReportsExplained, Balanced
  <2>1. saved[p].report \in Report
    BY <1>1 DEF TypeOK, Saved
  <2>2. Balanced(saved[p].report, 0)
    BY <2>1, ReportIs DEF IInv, ReportsExplained, Balanced
  <2> QED
    BY <1>6, <1>12, <2>2
<1>16. RecordedAsked'
  BY <1>1 DEF IInv, RecordedAsked, store
<1> QED
  BY <1>9, <1>10, <1>11, <1>13, <1>14, <1>15, <1>16, StepInv

LEMMA StopInv ==
  ASSUME IInv, NEW r \in Runs, Stop(r)
  PROVE  IInv'
<1>1. /\ run' = [run EXCEPT ![r] = Idle] /\ stops' \in 0..MaxStops
      /\ UNCHANGED <<source, store, saved, noted>>
  BY DEF Stop, IInv, TypeOK
<1>2. Tables' /\ CheckpointsCovered'
  BY <1>1, Parts DEF Tables, CheckpointsCovered, Handled, source, store
<1> QED
  BY <1>1, <1>2, IdleInv DEF store

----------------------------------------------------------------------------
(* Meanwhile *)

\* The rule for steps that leave the runs alone.
LEMMA OutsideInv ==
  ASSUME IInv, UNCHANGED <<asked, saved, noted, run>>, Tables', RecordedAsked'
  PROVE  IInv'
<1>1. Grown /\ CheckpointsCovered' /\ ReportsExplained'
  BY Parts DEF Grown, CheckpointsCovered, ReportsExplained, Handled
<1>2. \A t \in Runs : Good(run[t])'
  BY <1>1, RunStays
<1>3. TypeOK'
  BY DEF IInv, TypeOK, Tables
<1>4. NothingSkipped'
  BY DEF IInv, NothingSkipped, Handled
<1> QED
  BY <1>1, <1>2, <1>3, <1>4 DEF IInv

LEMMA AddFactInv ==
  ASSUME IInv, NEW content \in Contents, AddFact(content)
  PROVE  IInv'
<1>1. /\ fact' = Append(fact, content) /\ Len(fact) < MaxFacts
      /\ UNCHANGED <<edits, asked, recorded, saved, noted, run, stops>> /\ Tables
  BY Parts DEF AddFact, store
<1>2. fact' \in Seq(Contents) /\ Len(fact') = Len(fact) + 1 /\ Len(fact) \in Nat
  BY <1>1, AppendProperties, LenProperties DEF Tables
<1>3. Tables'
  BY <1>1, <1>2 DEF Tables
<1> QED
  BY <1>1, <1>3, OutsideInv DEF IInv, RecordedAsked

LEMMA EditFactInv ==
  ASSUME IInv, NEW f \in Facts, NEW content \in Contents, EditFact(f, content)
  PROVE  IInv'
<1>1. /\ fact' = [fact EXCEPT ![f] = content] /\ edits' = edits + 1 /\ edits < MaxEdits
      /\ UNCHANGED <<asked, recorded, saved, noted, run, stops>> /\ Tables
      /\ f \in 1..Len(fact)
  BY Parts, LenProperties DEF EditFact, store, Facts, Tables
<1>2. fact' \in Seq(Contents) /\ Len(fact') = Len(fact)
  BY <1>1, ExceptSeq DEF Tables
<1>3. Tables'
  BY <1>1, <1>2 DEF Tables
<1> QED
  BY <1>1, <1>3, OutsideInv DEF IInv, RecordedAsked

LEMMA ApproveCreateInv ==
  ASSUME IInv, NEW p \in Profiles, NEW f \in Facts, NEW content \in Contents,
         ApproveCreate(p, f, content)
  PROVE  IInv'
<1>1. /\ recorded' = [recorded EXCEPT ![p][f] = content] /\ content \in asked[p][f]
      /\ UNCHANGED <<fact, edits, asked, saved, noted, run, stops>> /\ Tables
  BY Parts DEF ApproveCreate, source
<1>2. recorded' \in [Profiles -> [Facts -> Contents \cup {Null}]]
  BY <1>1 DEF Tables
<1>3. \A q \in Profiles, g \in Facts :
        (q = p /\ g = f) \/ recorded'[q][g] = recorded[q][g]
  BY <1>1 DEF Tables
<1>4. RecordedAsked'
  BY <1>1, <1>3 DEF IInv, RecordedAsked
<1>5. Tables'
  BY <1>1, <1>2 DEF Tables
<1> QED
  BY <1>1, <1>4, <1>5, OutsideInv

----------------------------------------------------------------------------
(* Theorems *)

LEMMA InitInv == Init => IInv
<1> SUFFICES ASSUME Init PROVE IInv
  OBVIOUS
<1>1. TypeOK
  <2>1. <<>> \in Seq(Contents) /\ Len(<<>>) = 0
    BY EmptySeq
  <2>2. Zero \in Report /\ 0 \in 0..MaxFacts
    BY DEF Zero, Report
  <2>3. NotSaved \in Saved /\ NotNoted \in Noted
    BY <2>2 DEF NotSaved, NotNoted, Saved, Noted
  <2> QED
    BY <2>1, <2>2, <2>3 DEF Init, TypeOK
<1>2. NothingSkipped
  BY DEF Init, NothingSkipped, NotSaved, NotNoted, Facts
<1>3. ReportsExplained
  <2>1. \A p \in Profiles : saved[p].report = Zero
    BY DEF Init, NotSaved
  <2> QED
    BY <2>1 DEF ReportsExplained, Zero, Counters
<1>4. RecordedAsked
  BY DEF Init, RecordedAsked
<1>5. \A r \in Runs : Good(run[r])
  BY DEF Init, Good
<1> QED
  BY <1>1, <1>2, <1>3, <1>4, <1>5 DEF IInv

LEMMA NextInv == IInv /\ [Next]_vars => IInv'
<1> SUFFICES ASSUME IInv, [Next]_vars PROVE IInv'
  OBVIOUS
<1>1. ASSUME NEW r \in Runs, NEW p \in Profiles, NEW dry \in BOOLEAN, StartImport(r, p, dry)
      PROVE  IInv'
  BY <1>1, StartImportInv
<1>2. ASSUME NEW r \in Runs, Step(r) \/ Stop(r)
      PROVE  IInv'
  BY <1>2, ReadPageInv, SubmitNextInv, SaveCheckpointInv, StopInv DEF Step
<1>3. ASSUME NEW content \in Written, AddFact(content)
      PROVE  IInv'
  BY <1>3, AddFactInv
<1>4. ASSUME NEW content \in Contents, NEW f \in Facts, EditFact(f, content)
      PROVE  IInv'
  BY <1>4, EditFactInv
<1>5. ASSUME NEW content \in Contents, NEW p \in Profiles, NEW f \in Facts,
             ApproveCreate(p, f, content)
      PROVE  IInv'
  BY <1>5, ApproveCreateInv
<1>6. CASE UNCHANGED vars
  <2>1. UNCHANGED <<fact, edits, asked, recorded, saved, noted, run, stops>>
    BY <1>6 DEF vars, source, store
  <2> QED
    <3>1. Tables' /\ RecordedAsked'
      BY <2>1, Parts DEF Tables, RecordedAsked
    <3> QED
      BY <2>1, <3>1, OutsideInv
<1> QED
  BY <1>1, <1>2, <1>3, <1>4, <1>5, <1>6 DEF Next

\* The inductive invariant of import_candidates holds however its runs overlap,
\* stop and resume.
THEOREM ImportsConsistent == Spec => []IInv
<1>1. Init => IInv
  BY InitInv
<1>2. IInv /\ [Next]_vars => IInv'
  BY NextInv
<1> QED
  BY <1>1, <1>2, PTL DEF Spec

\* No checkpoint import_candidates saves or returns, and none its next page
\* starts from, has a fact behind it that was neither submitted nor refused nor
\* passed over by a dry run; and what it saved with a checkpoint accounts for all
\* it has seen (importer.py:95-149).
THEOREM NothingIsLost == Spec => []NothingLost
<1>1. IInv => NothingLost
  BY DEF IInv, NothingLost
<1> QED
  BY <1>1, ImportsConsistent, PTL


=============================================================================
