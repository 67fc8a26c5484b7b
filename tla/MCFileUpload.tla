---------------------------- MODULE MCFileUpload ----------------------------
(* A small instance of FileUpload: a call, its retry and a call that uses  *)
(* the same key for other content in another channel.                      *)
EXTENDS FileUpload

CONSTANTS alice, bob, c1, c2, k1, x1, x2, first, retry, reuse

MCHeader ==
  LET Head(c, x) == [user |-> alice, key |-> k1, chan |-> c, content |-> x]
  IN  [u \in {first, retry, reuse} |->
         IF u = reuse THEN Head(c2, x2) ELSE Head(c1, x1)]

=============================================================================
