----------------------------- MODULE MCImporter -----------------------------
(* Values of the constants of Importer for TLC. *)
EXTENDS Importer

CONSTANTS alpha, r1, r2, x, y
=============================================================================
