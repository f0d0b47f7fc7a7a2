------------------------------ MODULE FheGraph ------------------------------
(***************************************************************************)
(* The graph builder of src/frontend/custom_task.py: the process-wide      *)
(* context (g_dag, g_swk_node_dict, data_node_count, compute_node_count),  *)
(* the operators that validate operands, create compute and data nodes and *)
(* bind keys, and process_custom_task, which validates and emits the task  *)
(* and clears the context.                                                 *)
(*                                                                         *)
(* Each operator is an operator from a context s to a result              *)
(* [ok, s, out]: on success s is the new context and out the returned      *)
(* nodes; when the code raises, s is the context as the code leaves it at  *)
(* the raise (counters bumped, edges already added).  Node ids, file I/O   *)
(* and the JSON layout are abstracted away; a node is its index.          *)
(***************************************************************************)
EXTENDS Integers, FiniteSets, Sequences, SequencesExt, Graphs, GaloisArith, TLC

CONSTANTS
    N,               \* g_param.n, the ring dimension
    MaxLevel,        \* g_param.max_level
    BtpOutputLevel,  \* CkksBtpParam.btp_output_level
    BtpRotations,    \* get_rotations_for_bootstrapping(n), as a sequence
    BtpSupported,    \* whether n has a hard-coded bootstrap rotation list
    CatchErrors      \* the client catches exceptions and keeps building

ASSUME \E k \in 3..14 : N = 2^k
ASSUME MaxLevel \in Nat /\ BtpOutputLevel \in 0..MaxLevel
ASSUME BtpSupported \in BOOLEAN /\ CatchErrors \in BOOLEAN

-----------------------------------------------------------------------------
(***************************************************************************)
(* Node classes (the Python classes) and their DataType.                   *)
(***************************************************************************)
BfvClasses  == {"BfvCt", "BfvCt3", "BfvPt", "BfvPtRingt", "BfvCmpPtRingt", "BfvPtMul"}
CkksClasses == {"CkksCt", "CkksCt3", "CkksPt", "CkksPtRingt", "CkksPtMul"}
KeyClasses  == {"Swk", "Rlk", "Glk"}
\* CiphertextNode itself, of neither scheme: rns_sp_decomp returns one.
Classes     == BfvClasses \cup CkksClasses \cup KeyClasses \cup {"Ct"}

\* isinstance(x, BfvPlaintextRingtNode) or isinstance(x, CkksPlaintextRingtNode)
RingtClasses == {"BfvPtRingt", "BfvCmpPtRingt", "CkksPtRingt"}

DataTypeOf(cls) ==
    CASE cls \in {"BfvCt", "CkksCt", "Ct"} -> "ct"
      [] cls \in {"BfvCt3", "CkksCt3"} -> "ct3"
      [] cls \in {"BfvPt", "CkksPt"}   -> "pt"
      [] cls \in RingtClasses          -> "pt_ringt"
      [] cls \in {"BfvPtMul", "CkksPtMul"} -> "pt_mul"
      [] cls = "Swk" -> "swk"
      [] cls = "Rlk" -> "rlk"
      [] cls = "Glk" -> "glk"

PtTypes == {"pt", "pt_ringt", "pt_mul"}

\* The polynomial degree each constructor passes to FheDataNode.
DegreeOf(cls) ==
    CASE cls \in {"BfvCt3", "CkksCt3"} -> 2
      [] DataTypeOf(cls) \in PtTypes   -> 0
      [] OTHER                         -> 1

DataRec(cls, level, ntt, mform) ==
    [cls |-> cls, level |-> level, degree |-> DegreeOf(cls), ntt |-> ntt, mform |-> mform]

\* A node as its constructor builds it: RingT plaintexts sit at level 0,
\* CKKS nodes and multiplication plaintexts start in NTT form, the latter
\* also in Montgomery form.
Fresh(cls, level) ==
    DataRec(cls,
            IF cls \in RingtClasses THEN 0 ELSE level,
            cls \in {"CkksCt", "CkksCt3", "CkksPt", "BfvPtMul", "CkksPtMul"},
            cls \in {"BfvPtMul", "CkksPtMul"})

\* Keys of g_swk_node_dict.
RLK == <<"rlk_ntt", 0>>
ROW == <<"glk_ntt_row", 0>>
COL(e) == <<"glk_ntt_col", e>>
DTS == <<"swk_dts", 0>>
STD == <<"swk_std", 0>>

\* Vertices of g_dag.
D(i) == <<"d", i>>
C(j) == <<"c", j>>

-----------------------------------------------------------------------------
(***************************************************************************)
(* Primitive steps on a context.                                           *)
(***************************************************************************)

\* A compute node: its OperationType, the step and lib of rotation units,
\* the sum_cnt and pt_type ('' until set) of CmpSum/CmpacSum, and
\* compressed_block_info (None, written here as the empty sequence).
OpRec(type, step, lib) ==
    [type |-> type, step |-> step, lib |-> lib, sumCnt |-> 0, ptType |-> "", blocks |-> <<>>,
     args |-> {}]

\* Variant: the compute index is taken but the counter is not advanced.
NewOpNoBump(s, type, step, lib) ==
    [s EXCEPT !.op = (s.computeCount :> OpRec(type, step, lib)) @@ s.op]

\* FheComputeNode(...): takes the next compute index.
NewOp(s, type, step, lib) ==
    [s EXCEPT !.op = (s.computeCount :> OpRec(type, step, lib)) @@ s.op,
              !.computeCount = s.computeCount + 1]

\* A data node constructor: takes the next data index.
NewData(s, rec) ==
    [s EXCEPT !.node = (s.dataCount :> rec) @@ s.node,
              !.dataCount = s.dataCount + 1]

\* The throw-away `z = CiphertextNode()` still consumes a data index.
Placeholder(s) == [s EXCEPT !.dataCount = s.dataCount + 1]

\* g_dag.add_edges_from: adds missing endpoints; an edge is added once.
AddEdges(s, E) ==
    [s EXCEPT !.dag = [node |-> s.dag.node \cup {e[1] : e \in E} \cup {e[2] : e \in E},
                       edge |-> s.dag.edge \cup E]]

\* Create the result node of compute node c and add the edge c -> z.
Produce(s, c, rec) == AddEdges(NewData(s, rec), {<<C(c), D(s.dataCount)>>})

\* Variant: an existing key keeps the level it was created at.
UseKeyNoRaise(s, k, cls, level) ==
    IF k \notin DOMAIN s.keys
    THEN [NewData(s, DataRec(cls, level, TRUE, TRUE)) EXCEPT !.keys = (k :> s.dataCount) @@ s.keys]
    ELSE s

\* relin/rotate: create the key at `level`, or raise its level to `level`.
UseKey(s, k, cls, level) ==
    IF k \notin DOMAIN s.keys
    THEN [NewData(s, DataRec(cls, level, TRUE, TRUE)) EXCEPT !.keys = (k :> s.dataCount) @@ s.keys]
    ELSE IF level > s.node[s.keys[k]].level
         THEN [s EXCEPT !.node[s.keys[k]].level = level]
         ELSE s

\* bootstrap: create the key at `level`, or overwrite its level.
SetKey(s, k, cls, level) ==
    IF k \notin DOMAIN s.keys
    THEN [NewData(s, DataRec(cls, level, TRUE, TRUE)) EXCEPT !.keys = (k :> s.dataCount) @@ s.keys]
    ELSE [s EXCEPT !.node[s.keys[k]].level = level]

\* bootstrap's switch keys: created once, never updated.
KeepKey(s, k, cls, level) ==
    IF k \notin DOMAIN s.keys
    THEN [NewData(s, DataRec(cls, level, TRUE, TRUE)) EXCEPT !.keys = (k :> s.dataCount) @@ s.keys]
    ELSE s

Ok(s, z) == [ok |-> TRUE, s |-> s, out |-> <<z>>]
Fail(s)  == [ok |-> FALSE, s |-> s, out |-> <<>>]

SameLevelAndNtt(X, Y) == X.level = Y.level /\ X.ntt = Y.ntt

\* x.id == y.id: a node the client named shares its id with every other
\* node given that name; a random id is unique.
SameId(s, x, y) == x = y \/ (x \in DOMAIN s.uid /\ y \in DOMAIN s.uid /\ s.uid[x] = s.uid[y])

\* The operand edges of add and mult: one edge when two ciphertexts have
\* the same id.  args (a ghost, not a field of FheComputeNode) records the
\* operands the call was given.
OperandEdges(s, x, y, c) ==
    IF DataTypeOf(s.node[x].cls) = "ct" /\ DataTypeOf(s.node[y].cls) = "ct" /\ SameId(s, x, y)
    THEN {<<D(x), C(c)>>}
    ELSE {<<D(x), C(c)>>, <<D(y), C(c)>>}

WithArgs(s, c, xs) == [s EXCEPT !.op[c].args = xs]

-----------------------------------------------------------------------------
(***************************************************************************)
(* The operators.  x and y are indices of nodes the caller holds.          *)
(***************************************************************************)

\* add(x, y): ct+ct, ct+pt, pt+ct; the result is built from x.
AddOp(s, x, y) ==
    LET X == s.node[x]  Y == s.node[y]  c == s.computeCount
        typesOk == \/ DataTypeOf(X.cls) = "ct" /\ DataTypeOf(Y.cls) \in {"ct", "pt", "pt_ringt"}
                   \/ DataTypeOf(X.cls) \in {"pt", "pt_ringt"} /\ DataTypeOf(Y.cls) = "ct"
        s1 == NewOp(s, "add", 0, "lattigo")
        s2 == Placeholder(AddEdges(WithArgs(s1, c, {x, y}), OperandEdges(s, x, y, c)))
        zcls == IF X.cls \in BfvClasses THEN "BfvCt" ELSE "CkksCt"
    IN  IF X.cls \notin RingtClasses /\ Y.cls \notin RingtClasses /\ ~SameLevelAndNtt(X, Y)
        THEN Fail(s)
        ELSE IF ~typesOk THEN Fail(s1)
        ELSE IF X.cls = "Ct" THEN Fail(s2)
        ELSE Ok(Produce(s2, c, DataRec(zcls, X.level, X.ntt, FALSE)), s2.dataCount)

\* sub(x, y): the edges are added before the operand types are checked.
SubOp(s, x, y) ==
    LET X == s.node[x]  Y == s.node[y]  c == s.computeCount
        s2 == AddEdges(NewOp(s, "sub", 0, "lattigo"), {<<D(x), C(c)>>, <<D(y), C(c)>>})
        s3 == Placeholder(s2)
    IN  IF Y.cls \notin RingtClasses /\ ~SameLevelAndNtt(X, Y) THEN Fail(s)
        ELSE IF ~(DataTypeOf(X.cls) = "ct" /\ DataTypeOf(Y.cls) \in {"ct", "pt", "pt_ringt"})
             THEN Fail(s2)
        ELSE IF X.cls = "Ct" THEN Fail(s3)
        ELSE Ok(Produce(s3, c, DataRec(X.cls, X.level, X.ntt, FALSE)), s3.dataCount)

\* neg(x): no check before the edge; a non-ciphertext raises after it.
NegOp(s, x) ==
    LET X == s.node[x]  c == s.computeCount
        s2 == Placeholder(AddEdges(NewOp(s, "neg", 0, "lattigo"), {<<D(x), C(c)>>}))
    IN  IF X.cls \notin {"BfvCt", "CkksCt"} THEN Fail(s2)
        ELSE Ok(Produce(s2, c, DataRec(X.cls, X.level, X.ntt, FALSE)), s2.dataCount)

\* to_mul, to_ntt, to_mform, to_inv_ntt: an assert on level and flags,
\* then one op and a BfvCiphertextNode with the new flags.
ConvertOp(s, x, type, pre, ntt, mform) ==
    LET X == s.node[x]  c == s.computeCount
    IN  IF ~(X.level >= 0 /\ pre) THEN Fail(s)
        ELSE Ok(Produce(AddEdges(NewOp(s, type, 0, "lattigo"), {<<D(x), C(c)>>}), c,
                        DataRec("BfvCt", X.level, ntt, mform)),
                s.dataCount)

ToMulOp(s, x) ==
    ConvertOp(s, x, "to_mul", ~s.node[x].ntt /\ ~s.node[x].mform, TRUE, TRUE)
ToNttOp(s, x) ==
    ConvertOp(s, x, "to_ntt", ~s.node[x].ntt, TRUE, FALSE)
ToMFormOp(s, x) ==
    ConvertOp(s, x, "to_mf", ~s.node[x].mform, s.node[x].ntt, TRUE)
ToInvNttOp(s, x) ==
    ConvertOp(s, x, "to_inv_ntt", s.node[x].ntt, FALSE, FALSE)

(***************************************************************************)
(* mult(x, y, start_block_idx), start NoBlock for None.  The op is created *)
(* before the asserts; a compressed plaintext needs a start block, whose   *)
(* info (block i's info is written i) goes to compressed_block_info.  The *)
(* result class and level come from x, the NTT flag from the ciphertext.  *)
(***************************************************************************)
NoBlock == -1

MultOp(s, x, y, start) ==
    LET X == s.node[x]  Y == s.node[y]  c == s.computeCount
        ctct == DataTypeOf(X.cls) = "ct" /\ DataTypeOf(Y.cls) = "ct"
        ctpt == DataTypeOf(X.cls) = "ct" /\ DataTypeOf(Y.cls) \in PtTypes
        ptct == DataTypeOf(X.cls) \in PtTypes /\ DataTypeOf(Y.cls) = "ct"
        assertsHold ==
            CASE ctct -> X.level = Y.level /\ X.degree = 1 /\ Y.degree = 1 /\ X.ntt = Y.ntt
              [] ctpt -> (X.level = Y.level \/ Y.level = 0) /\ X.degree = 1
              [] ptct -> (X.level = Y.level \/ X.level = 0) /\ Y.degree = 1
              [] OTHER -> FALSE
        pt == IF ctpt THEN Y ELSE X
        s1 == NewOp(s, "mult", 0, "lattigo")
        s2 == AddEdges(WithArgs(s1, c, {x, y}), OperandEdges(s, x, y, c))
        s3 == Placeholder(s2)
        zcls == IF X.cls \in BfvClasses THEN IF ctct THEN "BfvCt3" ELSE "BfvCt"
                                        ELSE IF ctct THEN "CkksCt3" ELSE "CkksCt"
    IN  IF ~assertsHold THEN Fail(s1)
        ELSE IF ~ctct /\ pt.cls = "BfvCmpPtRingt" /\ start = NoBlock THEN Fail(s2)
        ELSE LET s4 == IF ~ctct /\ pt.cls = "BfvCmpPtRingt"
                       THEN [s3 EXCEPT !.op[c].blocks = <<start>>] ELSE s3
             IN  IF X.cls = "Ct" THEN Fail(s4)
                 ELSE Ok(Produce(s4, c, DataRec(zcls, X.level, IF ptct THEN Y.ntt ELSE X.ntt, FALSE)),
                         s4.dataCount)

\* relin(x): binds rlk_ntt, raising its level to x's.
RelinOp(s, x) ==
    LET X == s.node[x]
        s1 == UseKey(s, RLK, "Rlk", X.level)
        c == s1.computeCount
        s3 == Placeholder(AddEdges(NewOp(s1, "relin", 0, "lattigo"),
                                   {<<D(x), C(c)>>, <<D(s1.keys[RLK]), C(c)>>}))
    IN  IF DataTypeOf(X.cls) # "ct3" THEN Fail(s)
        ELSE Ok(Produce(s3, c, DataRec(IF X.cls = "BfvCt3" THEN "BfvCt" ELSE "CkksCt",
                                       X.level, X.ntt, FALSE)),
                s3.dataCount)

\* mult_relin(x, y): relin of the mult's result; a raising mult ends it.
MultRelinOp(s, x, y) ==
    LET r == MultOp(s, x, y, NoBlock)
    IN  IF r.ok THEN RelinOp(r.s, r.out[1]) ELSE r

\* Variant: the result keeps x's level.
RescaleOpKeepLevel(s, x) ==
    LET X == s.node[x]  c == s.computeCount
        s2 == Placeholder(AddEdges(NewOp(s, "rescale", 0, "lattigo"), {<<D(x), C(c)>>}))
    IN  IF DataTypeOf(X.cls) # "ct" THEN Fail(s)
        ELSE IF X.cls = "Ct" THEN Fail(s2)
        ELSE Ok(Produce(s2, c, DataRec(X.cls, X.level, X.ntt, FALSE)), s2.dataCount)

\* rescale(x): one level down, with no lower bound on the level.
RescaleOp(s, x) ==
    LET X == s.node[x]  c == s.computeCount
        s2 == Placeholder(AddEdges(NewOp(s, "rescale", 0, "lattigo"), {<<D(x), C(c)>>}))
    IN  IF DataTypeOf(X.cls) # "ct" THEN Fail(s)
        ELSE IF X.cls = "Ct" THEN Fail(s2)
        ELSE Ok(Produce(s2, c, DataRec(X.cls, X.level - 1, X.ntt, FALSE)), s2.dataCount)

\* drop_level(x, k): a chain of k DropLevel ops, each result a fresh
\* CkksCiphertextNode (so in NTT form) one level below its input.
RECURSIVE DropChain(_, _, _)
DropChain(s, in, k) ==
    LET c == s.computeCount
        s1 == AddEdges(NewOp(s, "drop_level", 0, "lattigo"), {<<D(in), C(c)>>})
        z == s1.dataCount
        s2 == Produce(s1, c, DataRec("CkksCt", s.node[in].level - 1, TRUE, FALSE))
    IN  IF k = 1 THEN Ok(s2, z) ELSE DropChain(s2, z, k - 1)

\* k <= 0 leaves the loop body unexecuted and `return z` raises.
DropLevelOp(s, x, k) ==
    IF DataTypeOf(s.node[x].cls) # "ct" \/ s.node[x].level < k \/ k <= 0
    THEN Fail(s)
    ELSE DropChain(s, x, k)

\* rns_sp_decomp(x): no check at all; the result is a CiphertextNode of
\* neither scheme (the class "Ct", which stands for its
\* poly1_rns_sp_decomped flag) at x's level and NTT flag.
RnsSpDecompOp(s, x) ==
    LET c == s.computeCount
    IN  Ok(Produce(AddEdges(NewOp(s, "rns_sp_decomp", 0, "lattigo"), {<<D(x), C(c)>>}), c,
                   DataRec("Ct", s.node[x].level, s.node[x].ntt, FALSE)),
           s.dataCount)

-----------------------------------------------------------------------------
(***************************************************************************)
(* rotate_cols / seal_rotate_cols.  acc carries the context s, the memo    *)
(* rotated_input (a function from a running sub-step sum to the node      *)
(* holding x rotated by it), sub_steps_sum and the outputs so far.  The   *)
(* memo lives across all steps of one call.                                *)
(***************************************************************************)

\* One RotateColUnitNode: bind the Galois key, add the op from the node at
\* the current sum, and record its result under sum + r.  The id given to
\* the last sub-step's result is not modelled.  A CiphertextNode of
\* neither scheme raises once the key and the edges are in place.
RotUnitEnd(acc, X, r, s2, c) ==
    IF X.cls = "Ct" THEN [acc EXCEPT !.s = s2, !.ok = FALSE]
    ELSE [acc EXCEPT !.s = Produce(s2, c, DataRec(X.cls, X.level, X.ntt, FALSE)),
                     !.memo = (acc.sum + r :> s2.dataCount) @@ acc.memo]

RotUnitAt(acc, X, r, k, lib, s1, c) ==
    RotUnitEnd(acc, X, r, Placeholder(AddEdges(NewOp(s1, "rotate_col", r, lib),
                                      {<<D(acc.memo[acc.sum]), C(c)>>, <<D(s1.keys[k]), C(c)>>})), c)

RotUnit(acc, x, r, gen, lib) ==
    LET X  == acc.s.node[x]
        k  == COL(GaloisElementCol(r, N, gen))
        s1 == UseKey(acc.s, k, "Glk", X.level)
    IN  RotUnitAt(acc, X, r, k, lib, s1, s1.computeCount)

\* Variant: the running sum advances only when a unit is created.
RECURSIVE RotSubSumOnNew(_, _, _, _, _, _, _)
RotSubSumOnNew(acc, x, subs, i, skip, gen, lib) ==
    IF i > Len(subs) \/ ~acc.ok THEN acc
    ELSE LET r == subs[i]
             next == IF (skip /\ IsIdentityRotation(r, N)) \/ acc.sum + r \in DOMAIN acc.memo
                     THEN acc
                     ELSE LET a == RotUnit(acc, x, r, gen, lib) IN [a EXCEPT !.sum = a.sum + r]
         IN  RotSubSumOnNew(next, x, subs, i + 1, skip, gen, lib)

\* The inner `for sub_step in sub_steps` loop, from the i-th sub-step.
\* With skip (rotate_cols), an identity sub-step is passed over by
\* `continue`, so it does not enter the running sum either.
RECURSIVE RotSub(_, _, _, _, _, _, _)
RotSub(acc, x, subs, i, skip, gen, lib) ==
    IF i > Len(subs) \/ ~acc.ok THEN acc
    ELSE LET r == subs[i]
             a == IF acc.sum + r \in DOMAIN acc.memo THEN acc
                  ELSE RotUnit(acc, x, r, gen, lib)
             next == IF skip /\ IsIdentityRotation(r, N) THEN acc
                     ELSE [a EXCEPT !.sum = a.sum + r]
         IN  RotSub(next, x, subs, i + 1, skip, gen, lib)

\* The outer `for step in steps` loop.
RECURSIVE RotSteps(_, _, _, _, _, _, _)
RotSteps(acc, x, steps, i, skip, gen, lib) ==
    IF i > Len(steps) \/ ~acc.ok THEN acc
    ELSE LET a0 == [acc EXCEPT !.memo = (0 :> x) @@ acc.memo, !.sum = 0]
             a1 == RotSub(a0, x, SubSteps(steps[i], N), 1, skip, gen, lib)
         IN  IF ~a1.ok THEN a1
             ELSE RotSteps([a1 EXCEPT !.outs = Append(a1.outs, a1.memo[a1.sum])],
                           x, steps, i + 1, skip, gen, lib)

RotateColsWith(s, x, steps, skip, gen, lib) ==
    IF DataTypeOf(s.node[x].cls) # "ct" THEN Fail(s)
    ELSE LET a == RotSteps([ok |-> TRUE, s |-> s, memo |-> <<>>, sum |-> 0, outs |-> <<>>],
                           x, steps, 1, skip, gen, lib)
         IN  [ok |-> a.ok, s |-> a.s, out |-> IF a.ok THEN a.outs ELSE <<>>]

RotateColsOp(s, x, steps)     == RotateColsWith(s, x, steps, TRUE, GALOIS_GEN, "lattigo")
SealRotateColsOp(s, x, steps) == RotateColsWith(s, x, steps, FALSE, SEAL_GALOIS_GEN, "seal")

(***************************************************************************)
(* advanced_rotate_cols(x, steps, out_ct_type) / seal_advanced_rotate_cols *)
(* (x, steps): one RotateColUnitNode per step, from x, with the key of the *)
(* whole step's Galois element (no NAF, no identity skip).  A BFV result   *)
(* takes its NTT flag from out_ct_type, a CKKS one from x; Montgomery form *)
(* comes from out_ct_type.  The SEAL variant keeps x's NTT flag.           *)
(***************************************************************************)
OutCtTypes == {"ct", "ct-ntt", "ct-ntt-mf"}

AdvRotUnitEnd(X, s2, c, ntt, mform) ==
    IF X.cls = "Ct" THEN Fail(s2)
    ELSE Ok(Produce(s2, c, DataRec(X.cls, X.level, ntt, mform)), s2.dataCount)

AdvRotUnitAt(x, X, step, k, lib, ntt, mform, s1, c) ==
    AdvRotUnitEnd(X, Placeholder(AddEdges(NewOp(s1, "rotate_col", step, lib),
                                 {<<D(x), C(c)>>, <<D(s1.keys[k]), C(c)>>})), c, ntt, mform)

AdvRotUnit(s, x, step, gen, lib, ntt, mform) ==
    LET X  == s.node[x]
        k  == COL(GaloisElementCol(step, N, gen))
        s1 == UseKey(s, k, "Glk", X.level)
    IN  AdvRotUnitAt(x, X, step, k, lib, ntt, mform, s1, s1.computeCount)

\* Appends the outputs of one unit u to those of r, or stops at a raise.
ThenUnit(r, u) == [ok |-> u.ok, s |-> u.s, out |-> IF u.ok THEN r.out \o u.out ELSE <<>>]

AdvancedRotateColsOp(s, x, steps, outType) ==
    LET X == s.node[x]
        unit(r, step) ==
            IF ~r.ok THEN r ELSE
            ThenUnit(r, AdvRotUnit(r.s, x, step, GALOIS_GEN, "lattigo",
                                   IF X.cls \in BfvClasses THEN outType # "ct" ELSE X.ntt,
                                   outType = "ct-ntt-mf"))
    IN  IF DataTypeOf(X.cls) # "ct" THEN Fail(s)
        ELSE FoldLeft(unit, [ok |-> TRUE, s |-> s, out |-> <<>>], steps)

SealAdvancedRotateColsOp(s, x, steps) ==
    LET X == s.node[x]
        unit(r, step) ==
            IF ~r.ok THEN r ELSE
            ThenUnit(r, AdvRotUnit(r.s, x, step, SEAL_GALOIS_GEN, "seal", X.ntt, FALSE))
    IN  IF DataTypeOf(X.cls) # "ct" THEN Fail(s)
        ELSE FoldLeft(unit, [ok |-> TRUE, s |-> s, out |-> <<>>], steps)

\* rotate_rows / seal_rotate_rows: one RotateRowUnitNode with glk_ntt_row.
RotateRowsOp(s, x, lib) ==
    LET X  == s.node[x]
        s1 == UseKey(s, ROW, "Glk", X.level)
        c  == s1.computeCount
        s2 == Placeholder(AddEdges(NewOp(s1, "rotate_row", 0, lib),
                                   {<<D(x), C(c)>>, <<D(s1.keys[ROW]), C(c)>>}))
    IN  IF DataTypeOf(X.cls) # "ct" THEN Fail(s)
        ELSE IF X.cls = "Ct" THEN Fail(s2)
        ELSE Ok(Produce(s2, c, DataRec(X.cls, X.level, X.ntt, FALSE)), s2.dataCount)

(***************************************************************************)
(* bootstrap(x): rlk, the column keys of the hard-coded rotation list and  *)
(* the row key are set to max_level whatever level they had; the two      *)
(* switch keys are created once.  An unsupported n raises after the op,   *)
(* its input edge and rlk are in the graph.                                *)
(***************************************************************************)
BindKey(s, c, k) == AddEdges(s, {<<D(s.keys[k]), C(c)>>})

\* The `for rot in rots` loop, from the i-th rotation: a new key at
\* max_level, or an existing one set to max_level; then its edge.
RECURSIVE BtpColKeys(_, _, _)
BtpColKeys(s, c, i) ==
    IF i > Len(BtpRotations) THEN s
    ELSE LET k == COL(GaloisElementCol(BtpRotations[i], N, GALOIS_GEN))
         IN  IF k \notin DOMAIN s.keys
             THEN BtpColKeys(BindKey(SetKey(s, k, "Glk", MaxLevel), c, k), c, i + 1)
             ELSE BtpColKeys(BindKey([s EXCEPT !.node[s.keys[k]].level = MaxLevel], c, k), c, i + 1)

Bootstrap(s, x) ==
    LET X  == s.node[x]
        c  == s.computeCount
        s1 == AddEdges(NewOp(s, "bootstrap", 0, "lattigo"), {<<D(x), C(c)>>})
        s2 == BindKey(SetKey(s1, RLK, "Rlk", MaxLevel), c, RLK)
        s3 == BindKey(SetKey(BtpColKeys(s2, c, 1), ROW, "Glk", MaxLevel), c, ROW)
        s4 == BindKey(BindKey(KeepKey(KeepKey(s3, DTS, "Swk", 0), STD, "Swk", MaxLevel), c, DTS), c, STD)
    IN  IF DataTypeOf(X.cls) # "ct" \/ X.level # 0 THEN Fail(s)
        ELSE IF ~BtpSupported THEN Fail(s2)
        ELSE Ok(Produce(s4, c, DataRec("CkksCt", BtpOutputLevel, X.ntt, FALSE)), s4.dataCount)

-----------------------------------------------------------------------------
(***************************************************************************)
(* process_custom_task(input_args, output_args): ins and outs are the      *)
(* nodes of the arguments (ids, shapes and offline inputs abstracted).     *)
(***************************************************************************)

\* Variant: the row key is not registered.
KeyInputsNoRow(s) ==
    LET named(p) == {s.keys[k] : k \in {k \in DOMAIN s.keys : k[1] \in p}}
    IN  (IF RLK \in DOMAIN s.keys /\ s.node[s.keys[RLK]].level # -1
         THEN {s.keys[RLK]} ELSE {})
        \cup named({"glk_ntt_col"}) \cup named({"swk_dts", "swk_std"})

\* The key-table entries appended to the inputs: rlk unless its level is
\* the -1 of "no rlk", then every column and row key, then the switch keys.
KeyInputs(s) ==
    LET named(p) == {s.keys[k] : k \in {k \in DOMAIN s.keys : k[1] \in p}}
    IN  (IF RLK \in DOMAIN s.keys /\ s.node[s.keys[RLK]].level # -1
         THEN {s.keys[RLK]} ELSE {})
        \cup named({"glk_ntt_col", "glk_ntt_row"}) \cup named({"swk_dts", "swk_std"})

DataInDag(s) == {i \in DOMAIN s.node : D(i) \in s.dag.node}
Used(s, i)   == \E e \in s.dag.edge : e[1] = D(i)
OpsInDag(s)     == {v[2] : v \in {v \in s.dag.node : v[1] = "c"}}
Preds(s, c)     == {e[1][2] : e \in {e \in s.dag.edge : e[2] = C(c)}}
Producers(s, i) == {e[1][2] : e \in {e \in s.dag.edge : e[2] = D(i)}}
Results(s, c)   == {e[2][2] : e \in {e \in s.dag.edge : e[1] = C(c)}}

\* Every input is in the graph and used; every unused data node is an
\* output; and `op.pt_type.value` of each CmpSum/CmpacSum in the graph does
\* not raise, which it does on the str '' a slice leaves unset.
TaskValid(s, ins, outs) ==
    /\ \A i \in ins \cup KeyInputs(s) : D(i) \in s.dag.node /\ Used(s, i)
    /\ \A i \in DataInDag(s) : Used(s, i) \/ i \in outs
    /\ \A c \in OpsInDag(s) : s.op[c].type \in {"cmp_sum", "cmpac_sum"} => s.op[c].ptType # ""

\* An Argument: its id and its data, flattened in order (flatten); the
\* shape of the nesting is not modelled.
Argument(id, data) == [id |-> id, data |-> data]

ArgNodes(args) == UNION {Range(a.data) : a \in Range(args)}

\* process_data_args over the input, output and offline arguments, in that
\* order: an argument with no data, or with the id of an earlier argument
\* of any phase, raises.
ArgsAccepted(args) ==
    /\ \A j \in DOMAIN args : args[j].data # <<>>
    /\ \A j \in DOMAIN args : args[j].id \notin {args[k].id : k \in 1..(j - 1)}

\* The signature record of an argument takes the type and the level of its
\* first node.  actual (a ghost) holds the type and level of every node.
SigRecord(s, a, phase) ==
    [id |-> a.id, phase |-> phase,
     type |-> DataTypeOf(s.node[a.data[1]].cls), level |-> s.node[a.data[1]].level,
     actual |-> {<<DataTypeOf(s.node[i].cls), s.node[i].level>> : i \in Range(a.data)}]

SigRecords(s, args, phase) == [j \in DOMAIN args |-> SigRecord(s, args[j], phase)]

\* process_custom_task accepts the task: its arguments, then its graph.
Accepts(s, inArgs, outArgs, offArgs) ==
    /\ ArgsAccepted(inArgs \o outArgs \o offArgs)
    /\ TaskValid(s, ArgNodes(inArgs \o offArgs), ArgNodes(outArgs))

\* The emitted mega_ag and task_signature (online: the input then the
\* output records); on success g_swk_node_dict and g_dag are cleared,
\* while data_node_count and compute_node_count keep counting.
Emit(s, inArgs, outArgs, offArgs) ==
    [dag |-> s.dag,
     node |-> [i \in DataInDag(s) |-> s.node[i]],
     inputs |-> ArgNodes(inArgs \o offArgs) \cup KeyInputs(s),
     outputs |-> ArgNodes(outArgs),
     offline |-> ArgNodes(offArgs),
     online |-> SigRecords(s, inArgs, "in") \o SigRecords(s, outArgs, "out"),
     offlineSig |-> SigRecords(s, offArgs, "offline")]

\* Variant: g_swk_node_dict.clear() is missing.
ClearContextKeepKeys(s) ==
    [s EXCEPT !.dag = [node |-> {}, edge |-> {}]]

ClearContext(s) ==
    [s EXCEPT !.dag = [node |-> {}, edge |-> {}], !.keys = <<>>]

-----------------------------------------------------------------------------
(***************************************************************************)
(* The client script: it constructs input nodes, calls operators on nodes  *)
(* it holds, and finalizes the task.  It may keep any handle across tasks. *)
(***************************************************************************)
CONSTANTS
    ClientNodes,    \* <<class, level>> of the nodes the client constructs
    ClientIds,      \* the user ids the client gives constructed nodes
    RescaleFloor,   \* the client rescales only ciphertexts above this level
    DropCounts,     \* k of drop_level(x, k)
    StepLists,      \* steps lists of rotate_cols calls
    MaxData,        \* calls start only while data_node_count < MaxData
    MaxCompute,     \* ... and compute_node_count < MaxCompute
    Mistakes        \* the finalize mistakes the client makes, of FinalizeMistakes

VARIABLES
    b,         \* the builder context
    held,      \* data-node indices the client holds
    emitted,   \* the last mega_ag produced
    lastCall,  \* how the last call ended
    rotLog     \* ghost: [src, step, out] of each rotate_cols output this task

vars == <<b, held, emitted, lastCall, rotLog>>

NoTask == [dag |-> [node |-> {}, edge |-> {}], node |-> <<>>, inputs |-> {}, outputs |-> {},
           offline |-> {}, online |-> <<>>, offlineSig |-> <<>>]

Init ==
    /\ b = [node |-> <<>>, op |-> <<>>, dag |-> [node |-> {}, edge |-> {}],
            keys |-> <<>>, uid |-> <<>>, dataCount |-> 0, computeCount |-> 0]
    /\ held = {}
    /\ emitted = NoTask
    /\ lastCall = "none"
    /\ rotLog = {}

InBudget == b.dataCount < MaxData /\ b.computeCount < MaxCompute

\* The outcome of an operator: with CatchErrors the script survives a raise
\* and goes on with the context as the raise left it; otherwise a raising
\* call ends the script and is not a step.
Apply(r, log) ==
    /\ r.ok \/ CatchErrors
    /\ b' = r.s
    /\ held' = IF r.ok THEN held \cup Range(r.out) ELSE held
    /\ lastCall' = IF r.ok THEN "ok" ELSE "raised"
    /\ rotLog' = IF r.ok THEN rotLog \cup log ELSE rotLog
    /\ UNCHANGED emitted

Call(r) == Apply(r, {})

\* A constructor given id (a user id, or "random" for random_id()).
Named(s, i, id) == IF id = "random" THEN s ELSE [s EXCEPT !.uid = (i :> id) @@ s.uid]

Construct ==
    /\ b.dataCount < MaxData
    /\ \E n \in ClientNodes, id \in ClientIds \cup {"random"} :
           Call(Ok(Named(NewData(b, Fresh(n[1], n[2])), b.dataCount, id), b.dataCount))

CallAdd  == InBudget /\ \E x, y \in held : Call(AddOp(b, x, y))
CallSub  == InBudget /\ \E x, y \in held : Call(SubOp(b, x, y))
CallNeg  == InBudget /\ \E x \in held : Call(NegOp(b, x))
CallMult == InBudget /\ \E x, y \in held, start \in {NoBlock, 0} : Call(MultOp(b, x, y, start))
CallRelin == InBudget /\ \E x \in held : Call(RelinOp(b, x))
CallRescale ==
    InBudget /\ \E x \in held : b.node[x].level > RescaleFloor /\ Call(RescaleOp(b, x))
CallDropLevel == InBudget /\ \E x \in held, k \in DropCounts : Call(DropLevelOp(b, x, k))
CallToMul    == InBudget /\ \E x \in held : Call(ToMulOp(b, x))
CallToNtt    == InBudget /\ \E x \in held : Call(ToNttOp(b, x))
CallToMForm  == InBudget /\ \E x \in held : Call(ToMFormOp(b, x))
CallToInvNtt == InBudget /\ \E x \in held : Call(ToInvNttOp(b, x))
CallRotateRows == InBudget /\ \E x \in held, lib \in {"lattigo", "seal"} : Call(RotateRowsOp(b, x, lib))
CallBootstrap  == InBudget /\ \E x \in held : Call(Bootstrap(b, x))
CallRnsSpDecomp == InBudget /\ \E x \in held : Call(RnsSpDecompOp(b, x))

RotateLog(r, x, steps) ==
    {[src |-> x, step |-> steps[i], out |-> r.out[i]] : i \in DOMAIN steps}

ApplyRotation(r, x, steps) == Apply(r, RotateLog(r, x, steps))

CallRotateCols ==
    InBudget /\ \E x \in held, steps \in StepLists :
        ApplyRotation(RotateColsOp(b, x, steps), x, steps)

CallSealRotateCols ==
    InBudget /\ \E x \in held, steps \in StepLists :
        ApplyRotation(SealRotateColsOp(b, x, steps), x, steps)

CallAdvancedRotateCols ==
    InBudget /\ \E x \in held, steps \in StepLists, o \in OutCtTypes :
        ApplyRotation(AdvancedRotateColsOp(b, x, steps, o), x, steps)

CallSealAdvancedRotateCols ==
    InBudget /\ \E x \in held, steps \in StepLists :
        ApplyRotation(SealAdvancedRotateColsOp(b, x, steps), x, steps)

Finalize(inArgs, outArgs, offArgs) ==
    IF Accepts(b, inArgs, outArgs, offArgs)
    THEN /\ b' = ClearContext(b)
         /\ emitted' = Emit(b, inArgs, outArgs, offArgs)
         /\ lastCall' = "finalized"
         /\ rotLog' = {}
         /\ UNCHANGED held
    ELSE /\ CatchErrors
         /\ lastCall' = "raised"
         /\ UNCHANGED <<b, held, emitted, rotLog>>

\* The client declares the held sources of the graph as inputs (none
\* offline: every caller in the repository passes offline_input_args=[]),
\* and its sinks as outputs, one Argument per node
\* named after it, or makes one of the Mistakes: a handle not in the graph
\* (stale, or never used) among the inputs, a result left out of the
\* outputs, or a handle not in the graph (from an earlier task, or never
\* passed to an operator: constructors do not add nodes to g_dag) among
\* the outputs.
FinalizeMistakes == {"stale_input", "missing_output", "stale_output"}

HeldSources == {i \in held \cap DataInDag(b) : Producers(b, i) = {}}
HeldSinks   == {i \in held \cap DataInDag(b) : ~Used(b, i)}
Stale       == held \ DataInDag(b)

NodeArgs(S) == LET q == SetToSeq(S) IN [j \in DOMAIN q |-> Argument(q[j], <<q[j]>>)]

CallFinalize ==
    \E ins \in {HeldSources}
              \cup (IF "stale_input" \in Mistakes THEN {HeldSources \cup {i} : i \in Stale} ELSE {}),
       outs \in {HeldSinks}
              \cup (IF "missing_output" \in Mistakes THEN {HeldSinks \ {o} : o \in HeldSinks} ELSE {})
              \cup (IF "stale_output" \in Mistakes THEN {HeldSinks \cup {o} : o \in Stale} ELSE {}) :
        Finalize(NodeArgs(ins), NodeArgs(outs), <<>>)

Next ==
    \/ Construct
    \/ CallAdd \/ CallSub \/ CallNeg \/ CallMult \/ CallRelin \/ CallRescale
    \/ CallDropLevel \/ CallToMul \/ CallToNtt \/ CallToMForm \/ CallToInvNtt
    \/ CallRotateRows \/ CallBootstrap \/ CallRnsSpDecomp
    \/ CallRotateCols \/ CallSealRotateCols
    \/ CallAdvancedRotateCols \/ CallSealAdvancedRotateCols
    \/ CallFinalize

Spec == Init /\ [][Next]_vars

-----------------------------------------------------------------------------
(***************************************************************************)
(* Views of the graph used by the properties.                              *)
(***************************************************************************)

\* The offsets by which node v is src rotated, summed along the chains of
\* RotateColUnit ops (following each op's ciphertext operand) back to src.
\* The edges of the rotate_col ops of s: into them from their ciphertext
\* operand (not the key), and out of them to their result.
RotChainEdges(s) ==
    {e \in s.dag.edge :
        \/ e[1][1] = "c" /\ s.op[e[1][2]].type = "rotate_col"
        \/ e[2][1] = "c" /\ s.op[e[2][2]].type = "rotate_col" /\ e[1][2] \notin Range(s.keys)}

\* The rotations by which data node v is src rotated, over the chains of
\* rotate_col ops (edges E) that lead from src to v.
RECURSIVE RotOffsets(_, _, _, _, _)
RotOffsets(s, E, v, src, fuel) ==
    IF v = src THEN {0}
    ELSE IF fuel = 0 THEN {}
    ELSE UNION {UNION {{o + s.op[c].step : o \in RotOffsets(s, E, i, src, fuel - 1)}
                       : i \in {e[1][2] : e \in {e \in E : e[2] = C(c)}}}
                : c \in {e[1][2] : e \in {e \in E : e[2] = D(v)}}}

-----------------------------------------------------------------------------
(***************************************************************************)
(* Properties.                                                             *)
(***************************************************************************)

TypeOK ==
    /\ b.dataCount \in Nat /\ b.computeCount \in Nat
    /\ DOMAIN b.node \subseteq 0..(b.dataCount - 1)
    /\ DOMAIN b.op = 0..(b.computeCount - 1)
    /\ \A i \in DOMAIN b.node : b.node[i].cls \in Classes
    /\ Range(b.keys) \subseteq DOMAIN b.node
    /\ held \subseteq DOMAIN b.node
    /\ lastCall \in {"none", "ok", "raised", "finalized"}

(***************************************************************************)
(* Key levels (relin, rotate_cols, rotate_rows raise an existing key to   *)
(* the operand's level; bootstrap overwrites with max_level): every key    *)
(* feeding a compute node is at least at the level of each data operand    *)
(* of that node, even after later calls have reused and re-levelled the   *)
(* key.                                                                    *)
(***************************************************************************)
KeyLevelCoversUses ==
    \A c \in OpsInDag(b) :
        \A k \in Preds(b, c) \cap Range(b.keys), d \in Preds(b, c) \ Range(b.keys) :
            b.node[k].level >= b.node[d].level

(***************************************************************************)
(* rotate_cols / seal_rotate_cols (NAF sub-steps, identity skip, memo of  *)
(* partial sums shared by all steps of a call): each returned node is the  *)
(* input rotated, through a chain of RotateColUnit ops, by the requested   *)
(* step modulo n/2.                                                        *)
(***************************************************************************)
RotationOutputsRotatedBy ==
    LET E == RotChainEdges(b)
    IN  \A e \in rotLog :
            LET offs == RotOffsets(b, E, e.out, e.src, MaxCompute)
            IN  offs # {} /\ \A o \in offs : (o - e.step) % (N \div 2) = 0

(***************************************************************************)
(* process_custom_task registers the key table as inputs: every key node   *)
(* of an emitted graph is one of its inputs, so the runtime loads it.      *)
(***************************************************************************)
EmittedKeysAreInputs ==
    \A i \in DOMAIN emitted.node :
        emitted.node[i].cls \in KeyClasses => i \in emitted.inputs

(***************************************************************************)
(* Spec 4.6: mega_ag's outputs are indices of its data nodes.  process_   *)
(* custom_task checks the inputs against g_dag (line 1949) but emits the  *)
(* outputs by index unchecked (line 1931): every output of an emitted     *)
(* task is a data node of that task's graph.                              *)
(***************************************************************************)
EmittedOutputsInGraph ==
    emitted.outputs \subseteq DOMAIN emitted.node

(***************************************************************************)
(* process_data_args writes one signature record per Argument with the    *)
(* type and the level of its first node only: in an emitted task, every   *)
(* node of every argument has the type and level its record gives, so the *)
(* runtime loading the task by its signature reads each node as what it   *)
(* is.                                                                     *)
(***************************************************************************)
SignatureDescribesEveryNode ==
    \A r \in Range(emitted.online \o emitted.offlineSig) : r.actual = {<<r.type, r.level>>}

(***************************************************************************)
(* The context refines TaskContext: its graph is g_dag, a key's level is  *)
(* the level of the node g_swk_node_dict names, and the task handed on is *)
(* the graph of the last emitted mega_ag.                                 *)
(***************************************************************************)
TC == INSTANCE TaskContext
          WITH dag <- b.dag,
               keyLevel <- [k \in DOMAIN b.keys |-> b.node[b.keys[k]].level],
               task <- emitted.dag

(***************************************************************************)
(* Every operator call and every process_custom_task is a step of        *)
(* TaskContext: operators only add new                                     *)
(* nodes with their inputs and never lower a key, and finalization clears *)
(* g_dag and g_swk_node_dict after emitting the graph.                     *)
(***************************************************************************)
ImplementsTaskContext == TC!Spec

(***************************************************************************)
(* The spec (2.1): ids are unique across data nodes, so add(x, x) alone    *)
(* records a single edge: every operand an add or mult is given is an     *)
(* input of its compute node in the graph.                                 *)
(***************************************************************************)
OperandsAreInputs ==
    \A c \in OpsInDag(b) : b.op[c].args \subseteq Preds(b, c)

(***************************************************************************)
(* The spec (4.3): an add or mult result follows its ciphertext operand:   *)
(* the result of an op with a ciphertext operand has that operand's level  *)
(* and NTT flag.                                                           *)
(***************************************************************************)
CiphertextResultFollowsCiphertextOperand ==
    \A c \in OpsInDag(b) :
        b.op[c].type \in {"add", "mult"} =>
            \A d \in Preds(b, c), z \in Results(b, c) :
                DataTypeOf(b.node[d].cls) = "ct" =>
                    b.node[z].level = b.node[d].level /\ b.node[z].ntt = b.node[d].ntt

(***************************************************************************)
(* The spec (7): "partial graph mutation is forbidden": an operator that   *)
(* raises leaves the graph and the key table as they were.                 *)
(***************************************************************************)
FailedCallLeavesGraphUnchanged ==
    [][lastCall' = "raised" => b'.dag = b.dag /\ b'.keys = b.keys]_vars


(***************************************************************************)
(* Spec 1 and 4.3: the operators enforce scheme compatibility; bootstrap  *)
(* is for CKKS only and to_ntt, to_inv_ntt, to_mform and to_mul are BFV   *)
(* conversions.  So every ciphertext an op computes from a ciphertext has *)
(* that ciphertext's scheme.                                              *)
(***************************************************************************)
SchemeOf(cls) == IF cls \in BfvClasses THEN "BFV" ELSE IF cls \in CkksClasses THEN "CKKS" ELSE "none"

ResultKeepsScheme ==
    \A c \in OpsInDag(b) :
        \A d \in Preds(b, c), z \in Results(b, c) :
            DataTypeOf(b.node[d].cls) \in {"ct", "ct3"} => SchemeOf(b.node[z].cls) = SchemeOf(b.node[d].cls)

=============================================================================
