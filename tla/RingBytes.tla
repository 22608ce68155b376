------------------------------ MODULE RingBytes ------------------------------
(***************************************************************************)
(* The arithmetic of enc-cyfer/cyfer.cc on keys as strings of bytes, most  *)
(* significant first, with its carries.  A state is a choice of the three  *)
(* keys the operators take: me (pukeyhash), a and b; encAdd counts b round.*)
(***************************************************************************)
EXTENDS Integers

CONSTANTS
    Bits,       \* bits of a byte: 8 in the code
    Bytes       \* bytes of a key: 32 in the code

ASSUME BytesAssumption == Bits \in Nat \ {0} /\ Bytes \in Nat \ {0}

\* The powers of two that are counted with.
TwoTo[n \in 0 .. Bits * Bytes] == IF n = 0 THEN 1 ELSE 2 * TwoTo[n - 1]

Base == TwoTo[Bits]
Byte == 0 .. Base - 1
Key  == [1 .. Bytes -> Byte]

VARIABLES me, a, b

vars == <<me, a, b>>

-----------------------------------------------------------------------------
\* Both go from the last byte to the first: what is carried out of the last i bytes.
FromEnd(i) == Bytes + 1 - i

\* encSub takes the carry off the byte of x, then looks whether that of y fits in.
Borrows(x, y) ==
    LET c[i \in 0 .. Bytes] ==
            IF i = 0 THEN 0
            ELSE IF y[FromEnd(i)] > x[FromEnd(i)] - c[i - 1] THEN 1 ELSE 0
    IN  c

\* encAdd looks whether the sum and the carry fit in a byte.
Carries(x, y) ==
    LET c[i \in 0 .. Bytes] ==
            IF i = 0 THEN 0
            ELSE IF x[FromEnd(i)] + y[FromEnd(i)] + c[i - 1] >= Base THEN 1 ELSE 0
    IN  c

\* The carry out of the first byte is the remainder.
Sub(x, y) ==
    LET c == Borrows(x, y)
    IN  [bytes |-> [i \in 1 .. Bytes |->
                       (x[i] - c[Bytes - i]) - (y[i] - Base * c[FromEnd(i)])],
         carry |-> c[Bytes]]

Add(x, y) ==
    LET c == Carries(x, y)
    IN  [bytes |-> [i \in 1 .. Bytes |->
                       (x[i] + y[i] + c[Bytes - i]) - Base * c[FromEnd(i)]],
         carry |-> c[Bytes]]

encSub(x, y) == Sub(x, y).bytes
encAdd(x, y) == Add(x, y).bytes

\* encCmp subtracts pukeyhash from both and looks at the remainder.
MutEncCmp(x, y) ==
    IF Sub(x, y).carry # 0 THEN -1
    ELSE IF \E i \in DOMAIN x : encSub(x, y)[i] # 0 THEN 1 ELSE 0

encCmp(x, y) ==
    LET d == Sub(encSub(x, me), encSub(y, me))
    IN  IF d.carry # 0 THEN -1
        ELSE IF \E i \in DOMAIN d.bytes : d.bytes[i] # 0 THEN 1 ELSE 0

\* The top bit of the first byte says which way round is shorter.
Negative(x) == x[1] >= Base \div 2

Shorter(x, y) == IF Negative(encSub(y, x)) THEN encSub(x, y) ELSE encSub(y, x)

MutEncCloser(x, y) == Sub(encSub(y, me), encSub(y, x)).carry = 0
encCloser(x, y) == Sub(Shorter(me, y), Shorter(x, y)).carry = 0

\* encOffset sets bit "by" counted from the top of an empty key.
MutSingleBit(by) ==
    [i \in 1 .. Bytes |->
        IF i = (by \div Bits) + 1 THEN TwoTo[by % Bits] ELSE 0]

SingleBit(by) ==
    [i \in 1 .. Bytes |->
        IF i = (by \div Bits) + 1 THEN TwoTo[Bits - 1 - (by % Bits)] ELSE 0]

encOffset(by, reverse) ==
    IF reverse THEN encSub(me, SingleBit(by)) ELSE encAdd(me, SingleBit(by))

-----------------------------------------------------------------------------
One == [i \in 1 .. Bytes |-> IF i = Bytes THEN 1 ELSE 0]

Init ==
    /\ me \in Key
    /\ a \in Key
    /\ b = One

Next ==
    /\ b' = encAdd(b, One)
    /\ UNCHANGED <<me, a>>

Spec == Init /\ [][Next]_vars

-----------------------------------------------------------------------------
(* What the operators should compute.                                      *)

\* The number that the first i bytes are.
Leading(x) ==
    LET v[i \in 0 .. Bytes] == IF i = 0 THEN 0 ELSE v[i - 1] * Base + x[i]
    IN  v

Value(x) == Leading(x)[Bytes]

HowMany == TwoTo[Bits * Bytes]

Ring == INSTANCE RingKeys WITH Size <- HowMany

\* encCmp orders keys by how far ahead of me they lie (the comment of
\* enc.h: "subtract your own from both, then compare").
CmpIsClockwise ==
    encCmp(a, b) = LET x == Ring!Ahead(Value(me), Value(a))
                       y == Ring!Ahead(Value(me), Value(b))
                   IN  IF x < y THEN -1 ELSE IF x = y THEN 0 ELSE 1

\* encCloser compares the shorter ways round, whichever side the keys are.
CloserIsNearer ==
    encCloser(a, b) = Ring!Closer(Value(me), Value(a), Value(b))

\* Offset "by" is a half, a quarter, ... of the ring ahead of me, and the
\* reverse offset as much behind me, across any byte boundary.
OffsetsHalve ==
    \A by \in 0 .. Bits * Bytes - 1 :
        LET part == HowMany \div TwoTo[by + 1] IN
        /\ Ring!Ahead(Value(me), Value(encOffset(by, FALSE))) = part
        /\ Ring!Ahead(Value(encOffset(by, TRUE)), Value(me)) = part

=============================================================================
