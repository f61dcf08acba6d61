---------------------------- MODULE MCRecordLocks ----------------------------
(* Instances of RecordLocks: creates of one identity, mutations of one record. *)
EXTENDS RecordLocks, TLC

SameIdentity == [r \in Creates |-> 1]
FirstRecord == [q \in Mutations |-> 1]

\* The connections differ in nothing but their names.
Symmetry == Permutations(Sessions)

=============================================================================
