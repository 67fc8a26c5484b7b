---------------------------- MODULE MCMessaging ----------------------------
(* A small instance of Messaging: a sender with a key it uses twice and a  *)
(* second message, two workers, one stream of another user.                *)
EXTENDS Messaging

CONSTANTS alice, bob, c1, c2, k1, k2, s1, w1, w2

MCCall == {[user |-> alice, key |-> k1, chan |-> c1],
           [user |-> alice, key |-> k1, chan |-> c2],
           [user |-> alice, key |-> k2, chan |-> c1]}
MCViewer == [s \in {s1} |-> bob]
MCChanging == {<<c1, bob>>}
MCWatched == [s \in {s1} |-> {c1}]

=============================================================================
