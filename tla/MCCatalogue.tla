---------------------------- MODULE MCCatalogue ----------------------------
(* A small instance of Catalogue for TLC. *)
EXTENDS Catalogue, TLC

CONSTANTS p1, p2, i1, i2, w1, w2, kAll, kOne

\* One list query finds both products, the other one of them.
MCMatches == kAll :> {p1, p2} @@ kOne :> {p1}

\* Processes, and the requests that name the files, are alike.
Alike == Permutations(Processes) \cup Permutations(Writers)
=============================================================================
