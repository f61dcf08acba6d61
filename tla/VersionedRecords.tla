--------------------------- MODULE VersionedRecords ---------------------------
(***************************************************************************)
(* What the canonical store promises, whoever proposes and approves: a set *)
(* of cells, each born once at version 1, written only while live and one  *)
(* version at a time, closed for good, and at most one live cell per slot  *)
(* (namespace, record type, identity).  An erased cell never returns.      *)
(***************************************************************************)
EXTENDS Integers

CONSTANTS Ids, Slots, Contents

VARIABLE cell

\* A cell that was never born, and one whose every trace is gone.
Unborn == [state |-> "unborn"]
Erased == [state |-> "erased"]

Born == [state : {"live", "closed"}, slot : Slots, version : Nat \ {0},
         content : Contents]

Init == cell = [i \in Ids |-> Unborn]

\* A slot is taken while a live cell occupies it.
Free(slot) == \A i \in Ids : ~(cell[i].state = "live" /\ cell[i].slot = slot)

\* What a cell holds after a step is the step's choice.
Bear(i) ==
  /\ cell[i] = Unborn /\ cell'[i].state = "live"
  /\ cell'[i].slot \in {slot \in Slots : Free(slot)}
  /\ cell'[i].content \in Contents
  /\ cell' = [cell EXCEPT ![i] =
       [state |-> "live", slot |-> cell'[i].slot, version |-> 1,
        content |-> cell'[i].content]]

\* A write replaces the content and moves to the next version.
Write(i) ==
  /\ cell[i].state = "live" /\ cell'[i].state = "live"
  /\ cell'[i].content \in Contents
  /\ cell' = [cell EXCEPT ![i].version = @ + 1,
                          ![i].content = cell'[i].content]

\* A tombstone is the last version of the cell and keeps its content.
Delete(i) ==
  /\ cell[i].state = "live"
  /\ cell' = [cell EXCEPT ![i].version = @ + 1, ![i].state = "closed"]

\* Cells that lapse together keep version and content.
Lapse(S) ==
  /\ \A i \in S : cell[i].state = "live"
  /\ cell' = [i \in Ids |-> IF i \in S THEN [cell[i] EXCEPT !.state = "closed"]
                                       ELSE cell[i]]

Erase(i) ==
  /\ cell[i].state \in {"live", "closed"}
  /\ cell' = [cell EXCEPT ![i] = Erased]

Next ==
  \/ \E S \in SUBSET Ids : Lapse(S)
  \/ \E i \in Ids : Bear(i) \/ Write(i) \/ Delete(i) \/ Erase(i)

Spec == Init /\ [][Next]_cell

===============================================================================
