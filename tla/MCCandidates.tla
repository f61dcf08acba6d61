---------------------------- MODULE MCCandidates ----------------------------
(* Values of the constants of Candidates for TLC. *)
EXTENDS Candidates

CONSTANTS alice, bob, shared, fact, k1, f1, x, y

\* Alice owns the namespace and decides; Bob submits what he may not read and,
\* an administrator, is the second person of a purge.
MCOwner == [n \in {shared} |-> alice]
MCInitialGrants == {<<shared, bob, "propose">>, <<shared, bob, "admin">>}

\* Requests wait until somebody decides; the policies stay.
MCRequire == [p \in {alice, bob} |-> [o \in Operations |-> "require"]]
MCNoPolicies == [p \in {alice, bob} |-> {}]

MCPayloads == {[f \in {f1} |-> x]}
MCInventoried == {<<shared, fact>>}

\* Everything is to end at the one moment the clock reaches.
MCWindow == {[valid_from |-> Null, valid_to |-> 1]}
=============================================================================
