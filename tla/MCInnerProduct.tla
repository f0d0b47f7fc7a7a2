--------------------------- MODULE MCInnerProduct ---------------------------
(***************************************************************************)
(* One call of ct_pt_mult_accumulate or ct_pt_mult_accumulate_1 per       *)
(* state, on operands the client has just constructed: m ciphertexts at   *)
(* data indices 0..m-1, then m plaintexts or one compressed handle.  b is *)
(* the context the call leaves, lastCall how it ended, held the operands  *)
(* and the result.  Every step moves to the call on vectors one longer.                     *)
(***************************************************************************)
EXTENDS InnerProduct

CONSTANTS
    MaxLen,     \* the vector lengths m are 1..MaxLen
    CtForms,    \* <<class, is_ntt, is_mform>> of the ciphertext operands
    PtClasses,  \* classes of the plaintext operands
    Levels      \* levels of the operands

VARIABLE call   \* the arguments of the call

\* A compressed handle is only passed to ct_pt_mult_accumulate, and the
\* plaintexts of a call have the scheme of its ciphertexts.
Calls ==
    {a \in [variant: {"acc", "acc1"}, m: 1..MaxLen, ct: CtForms, level: Levels,
            pt: PtClasses, infoLen: 0..MaxLen + 1, outMForm: {"True", "False", "None"}] :
        /\ (a.ct[1] \in BfvClasses) = (a.pt \in BfvClasses)
        /\ a.pt = "BfvCmpPtRingt" => a.variant = "acc" /\ a.infoLen \in {a.m, a.m + 1}
        /\ a.pt # "BfvCmpPtRingt" => a.infoLen = a.m
        /\ a.variant = "acc1" => a.outMForm = "None"}

\* The calls a behaviour starts with: every call, or only spec scenario S4
\* (ct_pt_mult_accumulate on m = 5 operand pairs).
InitCalls == Calls
S4Calls   == {a \in Calls : a.variant = "acc" /\ a.m = 5}

\* Model values for the cfg: bootstrap is not called here; the ciphertext
\* forms are a fresh BFV ciphertext, one after to_ntt and to_mform, and a
\* fresh CKKS ciphertext.
IPBtpRotations == <<>>
IPCtForms == {<<"BfvCt", FALSE, FALSE>>, <<"BfvCt", TRUE, TRUE>>, <<"CkksCt", TRUE, FALSE>>}

Compressed(a) == a.pt = "BfvCmpPtRingt"

Xs(a) == [i \in 1..a.m |-> i - 1]
Ys(a) == IF Compressed(a) THEN <<a.m>> ELSE [i \in 1..a.m |-> a.m + i - 1]

\* The context after the operands' constructors.
Operands(a) ==
    LET k == IF Compressed(a) THEN a.m + 1 ELSE 2 * a.m
    IN  [node |-> [i \in 0..k - 1 |-> IF i < a.m THEN DataRec(a.ct[1], a.level, a.ct[2], a.ct[3])
                                      ELSE Fresh(a.pt, a.level)],
         op |-> <<>>, dag |-> [node |-> {}, edge |-> {}], keys |-> <<>>,
         uid |-> <<>>, dataCount |-> k, computeCount |-> 0]

Result(a) ==
    IF a.variant = "acc"
    THEN CtPtMultAccumulate(Operands(a), Xs(a), Ys(a), Compressed(a), a.infoLen, a.outMForm)
    ELSE CtPtMultAccumulate1(Operands(a), Xs(a), Ys(a))

\* The variables after the call with arguments a.
After(a) ==
    LET r == Result(a)
    IN  [call |-> a, b |-> r.s,
         held |-> Range(Xs(a)) \cup Range(Ys(a)) \cup Range(r.out),
         lastCall |-> IF r.ok THEN "ok" ELSE "raised"]

IPInit ==
    /\ emitted = NoTask /\ rotLog = {}
    /\ \E a \in InitCalls : LET v == After(a)
                        IN  call = a /\ b = v.b /\ held = v.held /\ lastCall = v.lastCall

\* The next call is the same one on vectors one longer, wrapping to m = 1.
NextLength(a1, a2) ==
    /\ a2.m = (a1.m % MaxLen) + 1
    /\ \A f \in {"variant", "ct", "level", "pt", "outMForm"} : a2[f] = a1[f]

IPNext ==
    /\ \E a \in {a \in Calls : NextLength(call, a)} :
           LET v == After(a)
           IN  call' = a /\ b' = v.b /\ held' = v.held /\ lastCall' = v.lastCall
    /\ UNCHANGED <<emitted, rotLog>>

IPVars == <<call, b, held, emitted, lastCall, rotLog>>

IPSpec == IPInit /\ [][IPNext]_IPVars

-----------------------------------------------------------------------------
Out == CHOOSE z \in held : z \notin Range(Xs(call)) \cup Range(Ys(call))

\* The compute nodes that form products: mult, CmpSum, CmpacSum.
ProductOps == {c \in DOMAIN b.op : b.op[c].type \in {"mult", "cmp_sum", "cmpac_sum"}}

\* The data nodes from which the nodes S are computed, S included.
RECURSIVE Upstream(_)
Upstream(S) ==
    LET S2 == S \cup UNION {Preds(b, c) : c \in UNION {Producers(b, v) : v \in S}}
    IN  IF S2 = S THEN S ELSE Upstream(S2)

\* The spec's slicing: widths largest-first from {16, 8, 4, 2, 1}.
RECURSIVE RefSlices(_)
RefSlices(rest) ==
    IF rest = 0 THEN <<>>
    ELSE LET w == SumWidths[SelectInSeq(SumWidths, LAMBDA v : rest >= v)]
         IN  <<w>> \o RefSlices(rest - w)

(***************************************************************************)
(* The slicing of ct_pt_mult_accumulate (a first CmpSum of 16 or 8, or a  *)
(* mult, then greedy CmpacSum slices fed the partial sum) and of          *)
(* ct_pt_mult_accumulate_1 (CmpSum slices chained by add): every          *)
(* ciphertext x[i] enters exactly one product op, and the result is       *)
(* computed from every x[i] and every plaintext operand.                  *)
(***************************************************************************)
EveryProductSummedOnce ==
    lastCall = "ok" =>
        /\ \A i \in DOMAIN Xs(call) :
               Cardinality({c \in ProductOps : Xs(call)[i] \in Preds(b, c)}) = 1
        /\ Range(Xs(call)) \cup Range(Ys(call)) \subseteq Upstream({Out})

(***************************************************************************)
(* compressed_block_info of the ops of a compressed inner product (the    *)
(* mult's [info[0]] and each slice's [info[n + i]]): read in op order,    *)
(* they list every block once, in order.  Spec 4.5: "the ordered sublist  *)
(* of block infos for the slice".                                         *)
(***************************************************************************)
CompressedBlocksInOrder ==
    lastCall = "ok" =>
        FlattenSeq([j \in 1..b.computeCount |-> b.op[j - 1].blocks])
            = IF Compressed(call) THEN [i \in 1..call.m |-> i - 1] ELSE <<>>

(***************************************************************************)
(* The result of the inner product is a ciphertext at the operands' level *)
(* and NTT form, in Montgomery form exactly when output_mform is True, or *)
(* None (always, for ct_pt_mult_accumulate_1) and x[0] is.                *)
(***************************************************************************)
ResultFollowsOperands ==
    lastCall = "ok" =>
        /\ DataTypeOf(b.node[Out].cls) = "ct"
        /\ b.node[Out].level = call.level
        /\ b.node[Out].ntt = call.ct[2]
        /\ b.node[Out].mform = (call.outMForm = "True" \/ (call.outMForm = "None" /\ call.ct[3]))

(***************************************************************************)
(* Spec S4 and 4.5: the products are cut largest-first into slices of     *)
(* {16, 8, 4, 2, 1}, the first a CmpSum and the others CmpacSums.         *)
(***************************************************************************)
SpecGreedySlicing ==
    lastCall = "ok" /\ call.variant = "acc" =>
        LET shape == [j \in 1..Cardinality(ProductOps) |->
                         <<b.op[j - 1].type, b.op[j - 1].sumCnt>>]
            ref   == RefSlices(call.m)
        IN  shape = [i \in DOMAIN ref |-> <<IF i = 1 THEN "cmp_sum" ELSE "cmpac_sum", ref[i]>>]

(***************************************************************************)
(* process_custom_task serialises an inner product: with the operands as  *)
(* inputs and the result as output, the task passes the finalizer's       *)
(* checks, including `op.pt_type.value` on each CmpSum and CmpacSum.      *)
(***************************************************************************)
InnerProductTaskFinalizes ==
    lastCall = "ok" => TaskValid(b, Range(Xs(call)) \cup Range(Ys(call)), {Out})

=============================================================================
