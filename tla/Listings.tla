------------------------------ MODULE Listings ------------------------------
(***************************************************************************)
(* ORDER BY and LIMIT of the SELECTs that return rows of a table: sequence *)
(* DESC for messages, rowid DESC for files, name for channels, each in the *)
(* field key of a row.                                                     *)
(***************************************************************************)
EXTENDS Integers, FiniteSets, SequencesExt

Sooner(listing, r, s) == IF listing = "channels" THEN r.key < s.key ELSE r.key > s.key

Before(listing, found, r) == {s \in found : Sooner(listing, s, r)}

(* The i-th row returned is the one that i - 1 others come before.         *)
InOrder(listing, found) ==
  [i \in 1..Cardinality(found) |->
     CHOOSE r \in found : Cardinality(Before(listing, found, r)) = i - 1]

Least(a, b) == IF a < b THEN a ELSE b

Prefix(s, n) == SubSeq(s, 1, Least(n, Len(s)))

=============================================================================
