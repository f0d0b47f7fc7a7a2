---------------------------- MODULE InnerProduct ----------------------------
(***************************************************************************)
(* The fused inner product of custom_task.py: ct_pt_mult_accumulate_slice  *)
(* (one CmpSum over s products), ct_pt_mult_accumulate_add_ct_slice (one  *)
(* CmpacSum over s products and an accumulator), and the two drivers that *)
(* cut x[0..m-1] . y[0..m-1] into such slices: ct_pt_mult_accumulate and  *)
(* ct_pt_mult_accumulate_1.                                                *)
(*                                                                         *)
(* A plaintext operand of a slice is a pair <<node, block>>: block is     *)
(* NoBlock for an element of a plaintext list, and the block index i for *)
(* the tuple (y, i) of a compressed handle y.  Block i's info is written  *)
(* i, so compressed_block_info is a sequence of block indices.            *)
(***************************************************************************)
EXTENDS FheGraph

\* sum_cnt in [1, 2, 4, 8, 16]
SumWidths == <<16, 8, 4, 2, 1>>

\* The pt_type the `for yi in y` loop leaves: the last RingT or Plaintext
\* element decides; other plaintexts (PlaintextMul) and compressed tuples
\* leave it ''.
SlicePtType(s, ys) ==
    FoldLeft(LAMBDA p, e : IF e[2] # NoBlock THEN p
                           ELSE IF s.node[e[1]].cls \in {"BfvPtRingt", "BfvCmpPtRingt", "CkksPtRingt"}
                           THEN "pt_ringt"
                           ELSE IF s.node[e[1]].cls \in {"BfvPt", "CkksPt"} THEN "pt"
                           ELSE p,
             "", ys)

(***************************************************************************)
(* One slice.  type is "cmp_sum" (xs are the s products' ciphertexts) or  *)
(* "cmpac_sum" (xs ends with the accumulator).  The op is created before  *)
(* the operand asserts; the edges go from every x, then from every        *)
(* plaintext, or from the compressed handle once.  The ValueError for an  *)
(* x[0] of neither scheme passes the asserts only for rns_sp_decomp's     *)
(* CiphertextNode, which the inner-product runs never pass: left out.     *)
(***************************************************************************)
SumSlice(s, type, xs, ys) ==
    LET acc == IF type = "cmpac_sum" THEN 1 ELSE 0
        cnt == Len(xs) - acc
        X0  == s.node[xs[1]]
        cmp == ys[1][2] # NoBlock
        c   == s.computeCount
        s1  == [NewOp(s, type, 0, "lattigo") EXCEPT
                   !.op[c].sumCnt = cnt,
                   !.op[c].ptType = SlicePtType(s, ys),
                   !.op[c].blocks = IF cmp THEN [i \in DOMAIN ys |-> ys[i][2]] ELSE <<>>]
        xOk == \A i \in DOMAIN xs : DataTypeOf(s.node[xs[i]].cls) = "ct" /\ s.node[xs[i]].level = X0.level
        yOk == \A i \in DOMAIN ys : ys[i][2] # NoBlock =>
                   s.node[ys[i][1]].cls = "BfvCmpPtRingt" /\ s.node[ys[i][1]].level = 0
        yE  == IF cmp THEN {<<D(ys[1][1]), C(c)>>} ELSE {<<D(ys[i][1]), C(c)>> : i \in DOMAIN ys}
        s2  == Placeholder(AddEdges(s1, {<<D(xs[i]), C(c)>> : i \in DOMAIN xs} \cup yE))
    IN  IF Len(xs) # Len(ys) + acc \/ cnt \notin Range(SumWidths) THEN Fail(s)
        ELSE IF ~xOk \/ ~yOk THEN Fail(s1)
        ELSE Ok(Produce(s2, c, DataRec(X0.cls, X0.level, X0.ntt, FALSE)), s2.dataCount)

\* Variant: a compressed slice takes (y, i) instead of (y, n_processed + i).
SliceYsFromZero(ys, cmp, from, size) ==
    [i \in 1..size |-> IF cmp THEN <<ys[1], i - 1>> ELSE <<ys[from + i], NoBlock>>]

\* The plaintext operands from..from+size-1 (0-based): y[i], or (y, i).
SliceYs(ys, cmp, from, size) ==
    [i \in 1..size |-> IF cmp THEN <<ys[1], from + i - 1>> ELSE <<ys[from + i], NoBlock>>]

SliceXs(xs, from, size) == SubSeq(xs, from + 1, from + size)

\* next(x for x in widths if n_input - n_processed_mult >= x)
GreedyWidth(widths, rest) == widths[SelectInSeq(widths, LAMBDA w : rest >= w)]

\* The while loop of ct_pt_mult_accumulate: each slice is a CmpacSum over
\* the next products and the partial sum.
RECURSIVE AccumulateLoop(_, _, _, _, _)
AccumulateLoop(r, xs, ys, cmp, done) ==
    IF ~r.ok \/ done >= Len(xs) THEN r
    ELSE LET w == GreedyWidth(SumWidths, Len(xs) - done)
         IN  AccumulateLoop(SumSlice(r.s, "cmpac_sum", SliceXs(xs, done, w) \o r.out,
                                     SliceYs(ys, cmp, done, w)),
                            xs, ys, cmp, done + w)

\* The to_mform tail: output_mform True, or None and x[0] in Montgomery form.
MFormTail(r, wantMForm) == IF r.ok /\ wantMForm THEN ToMFormOp(r.s, r.out[1]) ELSE r

\* Variant: n_processed_mult is 1 whatever the first slice covered (the
\* commented-out `n_processed_mult: int = 1` after the first slice).
CtPtMultAccumulateProcessedOne(s, xs, ys, cmp, infoLen, outMForm) ==
    LET X0    == s.node[xs[1]]
        isCt  == X0.cls \in {"BfvCt", "CkksCt"}
        first == IF Len(xs) >= 16 /\ isCt THEN 16 ELSE IF Len(xs) >= 8 /\ isCt THEN 8 ELSE 1
        r1    == IF first > 1
                 THEN SumSlice(s, "cmp_sum", SliceXs(xs, 0, first), SliceYs(ys, cmp, 0, first))
                 ELSE MultOp(s, xs[1], ys[1], IF cmp THEN 0 ELSE NoBlock)
    IN  IF cmp /\ Len(xs) # infoLen THEN Fail(s)
        ELSE MFormTail(AccumulateLoop(r1, xs, ys, cmp, 1),
                       outMForm = "True" \/ (outMForm = "None" /\ X0.mform))

\* Variant: output_mform None does not follow x[0].is_mform.
CtPtMultAccumulateNoneIgnored(s, xs, ys, cmp, infoLen, outMForm) ==
    LET X0    == s.node[xs[1]]
        isCt  == X0.cls \in {"BfvCt", "CkksCt"}
        first == IF Len(xs) >= 16 /\ isCt THEN 16 ELSE IF Len(xs) >= 8 /\ isCt THEN 8 ELSE 1
        r1    == IF first > 1
                 THEN SumSlice(s, "cmp_sum", SliceXs(xs, 0, first), SliceYs(ys, cmp, 0, first))
                 ELSE MultOp(s, xs[1], ys[1], IF cmp THEN 0 ELSE NoBlock)
    IN  IF cmp /\ Len(xs) # infoLen THEN Fail(s)
        ELSE MFormTail(AccumulateLoop(r1, xs, ys, cmp, first), outMForm = "True")

(***************************************************************************)
(* ct_pt_mult_accumulate(x, y, output_mform).  ys is the plaintext list,  *)
(* or <<y>> for a compressed handle y with infoLen blocks; outMForm is    *)
(* "True", "False" or "None".  The first slice is a CmpSum of 16 or 8     *)
(* when that many products exist, else a single mult.                     *)
(***************************************************************************)
CtPtMultAccumulate(s, xs, ys, cmp, infoLen, outMForm) ==
    LET m     == Len(xs)
        X0    == s.node[xs[1]]
        isCt  == X0.cls \in {"BfvCt", "CkksCt"}
        first == IF m >= 16 /\ isCt THEN 16 ELSE IF m >= 8 /\ isCt THEN 8 ELSE 1
        r1    == IF first > 1
                 THEN SumSlice(s, "cmp_sum", SliceXs(xs, 0, first), SliceYs(ys, cmp, 0, first))
                 ELSE MultOp(s, xs[1], ys[1], IF cmp THEN 0 ELSE NoBlock)
        r2    == AccumulateLoop(r1, xs, ys, cmp, first)
    IN  IF cmp /\ m # infoLen THEN Fail(s)
        ELSE MFormTail(r2, outMForm = "True" \/ (outMForm = "None" /\ X0.mform))

\* The loop of ct_pt_mult_accumulate_1: a CmpSum per slice of at most 8,
\* the slices' results chained by add.
RECURSIVE Accumulate1Loop(_, _, _, _)
Accumulate1Loop(r, xs, ys, done) ==
    IF ~r.ok \/ done >= Len(xs) THEN r
    ELSE LET w  == GreedyWidth(<<8, 4, 2, 1>>, Len(xs) - done)
             cc == SumSlice(r.s, "cmp_sum", SliceXs(xs, done, w), SliceYs(ys, FALSE, done, w))
             r2 == IF ~cc.ok \/ r.out = <<>> THEN cc ELSE AddOp(cc.s, r.out[1], cc.out[1])
         IN  Accumulate1Loop(r2, xs, ys, done + w)

CtPtMultAccumulate1(s, xs, ys) ==
    MFormTail(Accumulate1Loop([ok |-> TRUE, s |-> s, out |-> <<>>], xs, ys, 0),
              s.node[xs[1]].mform)

=============================================================================
