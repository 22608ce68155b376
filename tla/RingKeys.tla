------------------------------ MODULE RingKeys ------------------------------
(***************************************************************************)
(* Keys on the ring of the distributed hash table: an encryption key is    *)
(* known by its hash, a number below Size, and the hashes form a circle.   *)
(* The operators of cyfer.cc compare keys as seen from "me" (pukeyhash).   *)
(* RingBytes shows that the byte arithmetic of cyfer.cc computes them.     *)
(***************************************************************************)
EXTENDS Integers

CONSTANT Size       \* how many keys there are: 2^256 in the code

ASSUME SizeAssumption == Size \in Nat \ {0}

Key == 0 .. Size - 1

\* How far b lies ahead of a, going round clockwise: encSub(b, a).
Ahead(a, b) == IF a <= b THEN b - a ELSE b - a + Size

\* encCmp(a, b) <= 0 at me: going round from me, a comes no later than b.
NoLater(me, a, b) == Ahead(me, a) <= Ahead(me, b)

\* The shorter way round between a and b.
Distance(a, b) ==
    IF 2 * Ahead(a, b) >= Size THEN Ahead(b, a) ELSE Ahead(a, b)

\* encCloser(a, b) at me: a is closer to b than me, or as close.
Closer(me, a, b) == Distance(a, b) <= Distance(me, b)

=============================================================================
