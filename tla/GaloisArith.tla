---------------------------- MODULE GaloisArith ----------------------------
(***************************************************************************)
(* Rotation-step arithmetic of src/frontend/custom_task.py: the            *)
(* non-adjacent-form (NAF) decomposition get_glk_col/convert2naf, the      *)
(* sub-step list that rotate_cols and seal_rotate_cols build from it, and  *)
(* the Galois elements that name the column and row rotation keys.         *)
(*                                                                         *)
(* All operators are pure.  Integers follow Python semantics: x >> 1 is    *)
(* floor division by 2 and & and ^ act on the infinite two's-complement    *)
(* expansion, so negative rotation steps are handled as the code does.     *)
(***************************************************************************)
EXTENDS Integers, Sequences, SequencesExt

GALOIS_GEN == 5
SEAL_GALOIS_GEN == 3

(***************************************************************************)
(* Python's & and ^ on (possibly negative) integers.  0 and -1 are the two *)
(* fixed points of x >> 1; every other argument shrinks towards them.     *)
(***************************************************************************)
RECURSIVE BitAnd(_, _)
BitAnd(a, b) ==
    IF a = 0 \/ b = 0 THEN 0
    ELSE IF a = -1 THEN b
    ELSE IF b = -1 THEN a
    ELSE 2 * BitAnd(a \div 2, b \div 2) + (a % 2) * (b % 2)

RECURSIVE BitXor(_, _)
BitXor(a, b) ==
    IF a \in {0, -1} /\ b \in {0, -1}
    THEN IF a = b THEN 0 ELSE -1
    ELSE 2 * BitXor(a \div 2, b \div 2) + (((a % 2) + (b % 2)) % 2)

\* a * b % m for 0 <= a, b < m by doubling, so that no intermediate value
\* exceeds 2m.
RECURSIVE MulMod(_, _, _)
MulMod(a, b, m) ==
    IF b = 0 THEN 0
    ELSE (((2 * MulMod(a, b \div 2, m)) % m) + (IF b % 2 = 1 THEN a ELSE 0)) % m

\* pow(b, e, m) for e >= 0, by squaring; every product is reduced, and
\* above m = 2^15 a square is taken by MulMod, so that it stays within
\* TLC's 32-bit integers.
RECURSIVE PowMod(_, _, _)
PowMod(b, e, m) ==
    IF e = 0 THEN 1 % m
    ELSE LET h == PowMod(b, e \div 2, m)
             sq == IF m <= 2^15 THEN (h * h) % m ELSE MulMod(h, h, m)
         IN  IF e % 2 = 1 THEN (sq * (b % m)) % m ELSE sq

(***************************************************************************)
(* convert2naf(x): the positive-digit and negative-digit masks.           *)
(***************************************************************************)
\* Variant: the carry mask taken with & instead of ^.
Convert2NafAndMask(x) ==
    LET xh == x \div 2
        x3 == x + xh
        c  == BitAnd(xh, x3)
    IN  [pos |-> BitAnd(x3, c), neg |-> BitAnd(xh, c)]

Convert2Naf(x) ==
    LET xh == x \div 2
        x3 == x + xh
        c  == BitXor(xh, x3)
    IN  [pos |-> BitAnd(x3, c), neg |-> BitAnd(xh, c)]

\* Indices of the set bits of a non-negative v, from bit i upwards.
RECURSIVE SetBitsFrom(_, _)
SetBitsFrom(v, i) ==
    IF v = 0 THEN {}
    ELSE (IF v % 2 = 1 THEN {i} ELSE {}) \cup SetBitsFrom(v \div 2, i + 1)

\* The set bits most significant first: the order in which get_glk_col
\* walks the digits of bin(v)[2:].
SetBitsDesc(v) == SetToSortSeq(SetBitsFrom(v, 0), LAMBDA i, j : i > j)

(***************************************************************************)
(* get_glk_col(steps, poly_degree): positive indices whose power of two is *)
(* a non-zero rotation modulo n/2, and all negative indices.              *)
(***************************************************************************)
GlkColPosIdx(step, n) ==
    SelectSeq(SetBitsDesc(Convert2Naf(step).pos),
              LAMBDA i : BitAnd(2^i, n \div 2 - 1) # 0)

GlkColNegIdx(step, n) == SetBitsDesc(Convert2Naf(step).neg)

\* Variant: the negative digits appended without their sign.
SubStepsUnsigned(step, n) ==
    [k \in 1..Len(GlkColPosIdx(step, n)) |-> 2^GlkColPosIdx(step, n)[k]]
    \o [k \in 1..Len(GlkColNegIdx(step, n)) |-> 2^GlkColNegIdx(step, n)[k]]

\* The sub_steps list of rotate_cols / seal_rotate_cols.
SubSteps(step, n) ==
    [k \in 1..Len(GlkColPosIdx(step, n)) |-> 2^GlkColPosIdx(step, n)[k]]
    \o [k \in 1..Len(GlkColNegIdx(step, n)) |-> -(2^GlkColNegIdx(step, n)[k])]

\* rotate_cols skips a sub-step that is a whole number of turns of n/2.
IsIdentityRotation(r, n) == r % (n \div 2) = 0

AppliedSubSteps(step, n) ==
    SelectSeq(SubSteps(step, n), LAMBDA r : ~IsIdentityRotation(r, n))

\* seal_rotate_cols has no such skip: every sub-step becomes a rotation.
SealAppliedSubSteps(step, n) == SubSteps(step, n)

(***************************************************************************)
(* get_galois_element_for_column_rotation_by and ..._for_row_rotation.    *)
(***************************************************************************)
\* Variant: the power reduced modulo n instead of 2n.
GaloisElementColModN(rot, n, gen) == PowMod(gen, BitAnd(rot, 2 * n - 1), n)

GaloisElementCol(rot, n, gen) == PowMod(gen, BitAnd(rot, 2 * n - 1), 2 * n)

GaloisElementRow(n) == 2 * n - 1

(***************************************************************************)
(* get_rotations_for_bootstrapping(poly_degree): the hard-coded rotation  *)
(* lists for n = 2^13 and n = 2^16; any other n raises ValueError.        *)
(***************************************************************************)
BtpRotations13 ==
    << 1, 2, 3, 4, 8, 12, 16, 24, 32, 48, 64, 128, 192, 256, 512, 768, 1024, 2048,
       3072, 3584, 3840, 3904, 3968, 4032, 4064, 4080, 4084, 4088, 4092 >>

BtpRotations16 ==
    << 1, 2, 3, 4, 5, 6, 7, 8, 16, 24, 32, 64, 96, 128, 160, 192, 224, 256, 384, 512,
       768, 1024, 1536, 2048, 3072, 4096, 6144, 8192, 12288, 16384, 20480, 24576,
       28672, 30720, 31232, 31744, 32000, 32256, 32512, 32640, 32672, 32704, 32736,
       32744, 32752, 32760, 32764 >>

\* Variant: the two branches' ring degrees swapped.
GetRotationsForBootstrappingSwapped(n) ==
    IF n = 2^16 THEN BtpRotations13 ELSE BtpRotations16

GetRotationsForBootstrapping(n) ==
    IF n = 2^13 THEN BtpRotations13 ELSE BtpRotations16

-----------------------------------------------------------------------------
(***************************************************************************)
(* Reference definitions the code is checked against.                      *)
(***************************************************************************)

\* The textbook NAF: an odd v takes digit 2 - (v mod 4), in {1, -1}.
RECURSIVE RefNaf(_)
RefNaf(v) ==
    IF v = 0 THEN [pos |-> 0, neg |-> 0]
    ELSE IF v % 2 = 0
         THEN LET r == RefNaf(v \div 2) IN [pos |-> 2 * r.pos, neg |-> 2 * r.neg]
         ELSE LET d == 2 - (v % 4)
                  r == RefNaf((v - d) \div 2)
              IN  IF d = 1 THEN [pos |-> 2 * r.pos + 1, neg |-> 2 * r.neg]
                           ELSE [pos |-> 2 * r.pos, neg |-> 2 * r.neg + 1]

SeqSum(s) == FoldSeq(LAMBDA a, b : a + b, 0, s)
=============================================================================
