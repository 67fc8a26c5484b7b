----------------------------- MODULE MCPresence -----------------------------
(* A small instance of Presence: one user with two sessions and another    *)
(* with one, two workers and a stream.                                     *)
EXTENDS Presence

CONSTANTS alice, bob, a1, a2, b1, w1, w2, s1

MCUserOf == [k \in {a1, a2, b1} |-> IF k = b1 THEN bob ELSE alice]

=============================================================================
