--------------------------- MODULE MCInMemoryStore ---------------------------
(* Values of the constants of InMemoryStore for TLC. *)
EXTENDS InMemoryStore

CONSTANTS alice, bob, shared, k1, x, y

Patch(field, text) == [field |-> field, text |-> text]
MCCreates == {Patch(x, Keep)}
MCUpdates == {Patch(Keep, y)}

\* Creates and updates wait for a reviewer, deletes are applied at once.
MCPolicy == [o \in Operations |-> IF o = "delete" THEN "auto" ELSE "require"]

\* Alice proposes; Bob may come to decide with her, and to purge with her.
MCDeciders == {<<shared, bob, "approve">>, <<shared, bob, "admin">>}

\* Candidates end their window at the one moment the clock reaches; direct
\* creates, which name no window, stay open unless the namespace has a retention.
MCClosing == {[from |-> None, to |-> 1]}
=============================================================================
