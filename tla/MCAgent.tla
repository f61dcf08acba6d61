------------------------------- MODULE MCAgent -------------------------------
(* Values of the constants of Agent for TLC. *)
EXTENDS Agent, TLC

CONSTANTS q1, q2, r1, r2, h1, h2, i1, i2, c1, c2

\* Two queries that share an answer.
MCAnswers == q1 :> {r1, r2} @@ q2 :> {r2}
=============================================================================
