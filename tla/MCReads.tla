------------------------------- MODULE MCReads -------------------------------
(* Values of the constants of Reads for TLC. *)
EXTENDS Reads

Three == 1..3

\* The decimals "9", "9.0" and "10": equal keys, and an order that is not that
\* of the strings they are in JSON.
Decimals == {[key |-> 9, json |-> 2], [key |-> 9, json |-> 3], [key |-> 10, json |-> 1]}

AtMostNine == {[op |-> "lte", bound |-> [key |-> 9, json |-> 2]]}

\* Equal, near, and too far.
Some == {0, 1, 2}
=============================================================================
