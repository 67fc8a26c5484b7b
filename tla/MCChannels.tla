----------------------------- MODULE MCChannels -----------------------------
(* A small instance of Channels: two ordinary users, one retired           *)
(* administrator, one channel of an earlier release and one of this one.   *)
EXTENDS Channels, TLC

CONSTANTS u1, u2, admin, old, new, n1, n2, j1, j2, j3

MCAccount == [u \in {u1, u2, admin} |-> IF u = admin THEN "admin" ELSE "active"]

Symmetry == Permutations({u1, u2}) \cup Permutations({n1, n2})
              \cup Permutations({j1, j2, j3})

=============================================================================
