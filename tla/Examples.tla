------------------------------ MODULE Examples ------------------------------
(***************************************************************************)
(* The example scripts of src/examples, run one statement per step against *)
(* the builder of FheGraph at the ring dimension they set, n = 2^14.  A   *)
(* script is a sequence of instructions; an instruction names the nodes   *)
(* it reads and the Python variables it assigns, and reg maps each        *)
(* variable to the node it holds.  A name is a tuple: the variable and    *)
(* the list indices it is stored under.                                    *)
(*                                                                         *)
(* Every script runs in a process of its own (a fresh context); the       *)
(* set_fhe_param calls only choose n (always 2^14) and the scheme, which  *)
(* the builder's state does not depend on.                                *)
(***************************************************************************)
EXTENDS FheGraph

CONSTANTS
    Scripts,   \* the scripts run, names in ScriptNames
    NOp        \* n_op of benchmark_gpu.py (1024 in the code)

VARIABLES
    script,    \* the name of the script being run
    prog,      \* its instructions
    pc,        \* the index of its next instruction
    reg        \* variable name -> the data node it holds

-----------------------------------------------------------------------------
(***************************************************************************)
(* Instructions.                                                           *)
(***************************************************************************)
New(n, cls, level) == [op |-> "new", dst |-> <<n>>, args |-> <<>>, k |-> <<cls, level>>]
Op(op, n, args)    == [op |-> op, dst |-> <<n>>, args |-> args, k |-> <<>>]
RS(n, x)           == Op("rescale", n, <<x>>)
Rot(ns, x, steps)  == [op |-> "rotate_cols", dst |-> ns, args |-> <<x>>, k |-> steps]
Fin(ins, outs)     == [op |-> "process_custom_task", dst |-> <<>>, args |-> <<>>, k |-> [in |-> ins, out |-> outs]]

\* Argument(id, data) of a process_custom_task: the variables of its data.
A(id, names) == [id |-> id, names |-> names]

\* The instructions f[lo], ..., f[hi] of a `for` loop over lo..hi (the domain
\* of f), in order, flattened in blocks of 16 to keep FlattenSeq's recursion
\* shallow.
ForRange(f) ==
    LET n  == Cardinality(DOMAIN f)
        lo == IF n = 0 THEN 0 ELSE CHOOSE i \in DOMAIN f : i - 1 \notin DOMAIN f
    IN  FlattenSeq([k \in 1..((n + 15) \div 16) |->
                      FlattenSeq([j \in 1..(IF k * 16 <= n THEN 16 ELSE n - (k - 1) * 16) |->
                                     f[lo + (k - 1) * 16 + j - 1]])])

V(v, i) == <<v, i>>

\* The list v[0], ..., v[n - 1].
Vars(v, n) == [i \in 1..n |-> V(v, i - 1)]

-----------------------------------------------------------------------------
\* bfv_mult_cpu.py and project_template/bfv_mult.py: z = mult_relin(x, y).
BfvMult ==
    << New(V("x", 0), "BfvCt", 3), New(V("y", 0), "BfvCt", 3),
       Op("mult_relin", V("z", 0), <<V("x", 0), V("y", 0)>>),
       Fin(<<A("x", <<V("x", 0)>>), A("y", <<V("y", 0)>>)>>, <<A("z", <<V("z", 0)>>)>>) >>

\* bfv_poly_7_cpu.py: the powers x^1..x^7 at level 1 by a tree of
\* mult_relin and rescale, then y = a0 + sum a[i] * x^(i+1).
X(p, l) == <<"x", p, l>>
Y(i) == IF i = 0 THEN V("a", 0) ELSE V("y", i)
MRR(n, x, y) == << Op("mult_relin", <<"t", n>>, <<x, y>>), RS(n, <<"t", n>>) >>

BfvPoly7 ==
    << New(X(1, 4), "BfvCt", 4), New(V("a", 0), "BfvPt", 1) >>
    \o [i \in 1..7 |-> New(V("a", i), "BfvPtMul", 1)]
    \o MRR(X(2, 3), X(1, 4), X(1, 4)) \o << RS(X(1, 3), X(1, 4)) >>
    \o MRR(X(3, 2), X(1, 3), X(2, 3)) \o MRR(X(4, 2), X(2, 3), X(2, 3))
    \o << RS(X(2, 2), X(2, 3)) >>
    \o MRR(X(5, 1), X(2, 2), X(3, 2)) \o MRR(X(6, 1), X(3, 2), X(3, 2))
    \o MRR(X(7, 1), X(3, 2), X(4, 2))
    \o << RS(X(2, 1), X(2, 2)), RS(X(3, 1), X(3, 2)), RS(X(4, 1), X(4, 2)),
          RS(X(1, 2), X(1, 3)), RS(X(1, 1), X(1, 2)) >>
    \o ForRange([i \in 0..6 |-> << Op("mult", V("m", i), <<X(i + 1, 1), V("a", i + 1)>>),
                                    Op("add", Y(i + 1), <<Y(i), V("m", i)>>) >>])
    \o << Fin(<<A("x", <<X(1, 4)>>), A("a0", <<V("a", 0)>>), A("a", [i \in 1..7 |-> V("a", i)])>>,
              <<A("y", <<Y(7)>>)>>) >>

\* ckks_euclidean_distance(x_input, w_input, pack, skip) with its
\* __main__: n_ct pairs of ciphertexts at level.  u_rot_list[k] and the
\* running sum_ct after k additions.
URot(i, k)  == IF k = 0 THEN V("u", i) ELSE <<"u_rot", i, k>>
SumCt(i, k) == IF k = 0 THEN V("u", i) ELSE <<"sum", i, k>>
ESum(i, pack) == IF i = 0 THEN SumCt(0, pack - 1) ELSE V("sum", i)

EucCt(i, pack, skip) ==
    << Op("add", V("z", i), <<V("x", i), V("w", i)>>),
       Op("mult_relin", V("zz", i), <<V("z", i), V("z", i)>>), RS(V("u", i), V("zz", i)) >>
    \o ForRange([j \in 0..pack - 2 |-> << Rot(<<URot(i, j + 1)>>, V("u", i), <<skip * (j + 1)>>) >>])
    \o ForRange([k \in 1..pack - 1 |-> << Op("add", SumCt(i, k), <<SumCt(i, k - 1), URot(i, k)>>) >>])

CkksEuclideanDistance(nct, pack, skip, level) ==
    ForRange([i \in 0..nct - 1 |-> << New(V("x", i), "CkksCt", level), New(V("w", i), "CkksCt", level) >>])
    \o << New(V("mask", 0), "CkksPtRingt", 0) >>
    \o ForRange([i \in 0..nct - 1 |-> EucCt(i, pack, skip)])
    \o ForRange([i \in 1..nct - 1 |-> << Op("add", ESum(i, pack), <<ESum(i - 1, pack), SumCt(i, pack - 1)>>) >>])
    \o << Op("mult", V("dist", 0), <<ESum(nct - 1, pack), V("mask", 0)>>), RS(V("d", 0), V("dist", 0)),
          Fin(<<A("x_input", Vars("x", nct)), A("w_input_inv", Vars("w", nct)), A("mask", <<V("mask", 0)>>)>>,
              <<A("d", <<V("d", 0)>>)>>) >>

\* ckks_logistic_regression_cpu.py: n_rotate = ceil(log2 n_input_feature)
\* rotate-and-add steps 2^(n_rotate-1), ..., 1.  The float log is exact
\* for the script's 30 features.
CeilLog2(v) == CHOOSE k \in 0..20 : 2^k >= v /\ (k = 0 \/ 2^(k - 1) < v)
LogStep(nf, j) == (2^CeilLog2(nf) \div 2) \div 2^j
U(j) == V("u", j)

CkksLogisticRegression(nf, level) ==
    << New(V("x", 0), "CkksCt", level), New(V("w", 0), "CkksPtRingt", 0),
       New(V("b", 0), "CkksPt", level - 1), New(V("mask", 0), "CkksPtRingt", 0),
       Op("mult", V("xw", 0), <<V("x", 0), V("w", 0)>>), RS(U(0), V("xw", 0)) >>
    \o ForRange([j \in 0..CeilLog2(nf) - 1 |-> << Rot(<<V("u_rot", j)>>, U(j), <<LogStep(nf, j)>>),
                              Op("add", U(j + 1), <<U(j), V("u_rot", j)>>) >>])
    \o << Op("add", V("s", 0), <<U(CeilLog2(nf)), V("b", 0)>>),
          Op("mult", V("sm", 0), <<V("s", 0), V("mask", 0)>>), RS(V("y", 0), V("sm", 0)),
          Fin(<<A("x", <<V("x", 0)>>), A("w", <<V("w", 0)>>), A("b", <<V("b", 0)>>), A("mask", <<V("mask", 0)>>)>>,
              <<A("y", <<V("y", 0)>>)>>) >>

\* benchmark_gpu.py: three tasks, n_op operations each.

MultRelinTask(cls, n) ==
    ForRange([i \in 0..n - 1 |-> << New(V("x", i), cls, 3) >>])
    \o ForRange([i \in 0..n - 1 |-> << New(V("y", i), cls, 3) >>])
    \o ForRange([i \in 0..n - 1 |-> << Op("mult_relin", V("z", i), <<V("x", i), V("y", i)>>) >>])
    \o << Fin(<<A("xs", Vars("x", n)), A("ys", Vars("y", n))>>, <<A("zs", Vars("z", n))>>) >>

RotateColTask(n) ==
    ForRange([i \in 0..n - 1 |-> << New(V("x", i), "BfvCt", 3) >>])
    \o ForRange([i \in 0..n - 1 |-> << Rot(<<V("y", i)>>, V("x", i), <<1>>) >>])
    \o << Fin(<<A("xs", Vars("x", n))>>, <<A("ys", Vars("y", n))>>) >>

BenchmarkGpu(n) ==
    MultRelinTask("BfvCt", n) \o MultRelinTask("CkksCt", n) \o RotateColTask(n)

(***************************************************************************)
(* benchmark_convolution.py: gen_conv_benchmark for one configuration c   *)
(* = [nin, nout, h, w, kh, kw] (stride and skip 1, init_level 2) and     *)
(* Conv2DPackedLayer.call.  Channel ch of rotated_x is x[ch \div pack]  *)
(* rotated by (ch % pack) * h * w; its row of rotated_x_2d holds, at      *)
(* p * (2 r1 + 1) + q, that rotated by (p - r0) * w + (q - r1).          *)
(***************************************************************************)
CeilDiv(a, d) == (a + d - 1) \div d
Pack(c)  == (16384 \div 2) \div (c.h * c.w)
NPIn(c)  == CeilDiv(c.nin, Pack(c))
NPOut(c) == CeilDiv(c.nout, Pack(c))
KSize(c) == c.kh * c.kw
R0(c) == c.kw \div 2
R1(c) == c.kh \div 2

CX(i)       == V("input_0", i)
CW(o, i, k) == <<"convw", o, i, k>>
CB(o)       == V("convb", o)
RX(c, ch)   == IF ch % Pack(c) = 0 THEN CX(ch \div Pack(c)) ELSE V("rx", ch)
L1(c, ch, p)     == IF p = R0(c) THEN RX(c, ch) ELSE <<"r1", ch, p>>
RX2(c, ch, p, q) == IF q = R1(c) THEN L1(c, ch, p) ELSE <<"r2", ch, p, q>>
PS(o, t) == IF t = 0 THEN <<"prod", o, 0>> ELSE <<"ps", o, t>>

\* populate_rotations_2_sides(x, r, unit): one rotate_cols over the steps
\* -unit..-r*unit, unit..r*unit; result[p] (dst[p]) is x rotated by (p - r) * unit.
TwoSides(dst, x, r, unit) ==
    Rot([i \in 1..r |-> dst[r - i]] \o [i \in 1..r |-> dst[r + i]], x,
        [i \in 1..r |-> -i * unit] \o [i \in 1..r |-> i * unit])

ConvProduct(c, o, t) ==
    LET ch == t \div KSize(c)  idx == t % KSize(c)
    IN  << Op("mult", <<"prod", o, t>>,
              <<RX2(c, ch, idx \div (2 * R1(c) + 1), idx % (2 * R1(c) + 1)), CW(o, ch, idx)>>) >>
        \o (IF t = 0 THEN <<>> ELSE << Op("add", PS(o, t), <<PS(o, t - 1), <<"prod", o, t>>>>) >>)

Conv2DPackedCall(c) ==
    LET nch == NPIn(c) * Pack(c)
    IN  ForRange([i \in 0..NPIn(c) - 1 |-> << Rot([t \in 1..Pack(c) - 1 |-> RX(c, i * Pack(c) + t)], CX(i),
                                   [t \in 1..Pack(c) - 1 |-> t * c.h * c.w]) >>])
        \o ForRange([ch \in 0..nch - 1 |-> << TwoSides([p \in 0..2 * R0(c) |-> L1(c, ch, p)], RX(c, ch), R0(c), c.w) >>
                                \o ForRange([p \in 0..2 * R0(c) |-> << TwoSides([q \in 0..2 * R1(c) |-> RX2(c, ch, p, q)],
                                                                   L1(c, ch, p), R1(c), 1) >>])])
        \o ForRange([o \in 0..NPOut(c) - 1 |-> ForRange([t \in 0..nch * KSize(c) - 1 |-> ConvProduct(c, o, t)])
                               \o << RS(V("psr", o), PS(o, nch * KSize(c) - 1)),
                                     Op("add", V("out", o), <<V("psr", o), CB(o)>>) >>])

\* Mutant of GenConvBenchmark: the bias nodes (level 1) passed in the
\* weight Argument (level 2) instead of an Argument of their own.
GenConvBenchmarkOneWeightArg(c) ==
    LET nch == NPIn(c) * Pack(c)
        ws  == [j \in 1..NPOut(c) * nch * KSize(c) |->
                   LET t == j - 1 IN CW(t \div (nch * KSize(c)), (t \div KSize(c)) % nch, t % KSize(c))]
    IN  ForRange([i \in 0..NPIn(c) - 1 |-> << New(CX(i), "CkksCt", 2) >>])
        \o [j \in DOMAIN ws |-> New(ws[j], "CkksPt", 2)]
        \o ForRange([o \in 0..NPOut(c) - 1 |-> << New(CB(o), "CkksPt", 1) >>])
        \o Conv2DPackedCall(c)
        \o << Fin(<<A("input_0", Vars("input_0", NPIn(c))),
                    A("convw__conv1_Conv", ws \o Vars("convb", NPOut(c)))>>,
                  <<A("output", Vars("out", NPOut(c)))>>) >>

GenConvBenchmark(c) ==
    LET nch == NPIn(c) * Pack(c)
        ws  == [j \in 1..NPOut(c) * nch * KSize(c) |->
                   LET t == j - 1 IN CW(t \div (nch * KSize(c)), (t \div KSize(c)) % nch, t % KSize(c))]
    IN  ForRange([i \in 0..NPIn(c) - 1 |-> << New(CX(i), "CkksCt", 2) >>])
        \o [j \in DOMAIN ws |-> New(ws[j], "CkksPt", 2)]
        \o ForRange([o \in 0..NPOut(c) - 1 |-> << New(CB(o), "CkksPt", 1) >>])
        \o Conv2DPackedCall(c)
        \o << Fin(<<A("input_0", Vars("input_0", NPIn(c))), A("convw__conv1_Conv", ws),
                    A("convb__conv1_Conv", Vars("convb", NPOut(c)))>>,
                  <<A("output", Vars("out", NPOut(c)))>>) >>

Conv(nin, nout, h, w, kh, kw) == [nin |-> nin, nout |-> nout, h |-> h, w |-> w, kh |-> kh, kw |-> kw]

ScriptNames == {"bfv_mult", "bfv_poly_7", "ckks_euclidean_distance", "ckks_logistic_regression",
                "benchmark_gpu", "conv_1_1_32_32_5_5", "conv_1_1_64_64_5_5",
                "conv_1_32_32_32_3_3", "conv_4_4_32_32_3_3", "conv_32_1_32_32_3_3"}

ScriptOf(name) ==
    CASE name = "bfv_mult"                 -> BfvMult
      [] name = "bfv_poly_7"               -> BfvPoly7
      [] name = "ckks_euclidean_distance"  -> CkksEuclideanDistance(1, 4, 256, 3)
      [] name = "ckks_logistic_regression" -> CkksLogisticRegression(30, 3)
      [] name = "benchmark_gpu"            -> BenchmarkGpu(NOp)
      [] name = "conv_1_1_32_32_5_5"       -> GenConvBenchmark(Conv(1, 1, 32, 32, 5, 5))
      [] name = "conv_1_1_64_64_5_5"       -> GenConvBenchmark(Conv(1, 1, 64, 64, 5, 5))
      [] name = "conv_1_32_32_32_3_3"      -> GenConvBenchmark(Conv(1, 32, 32, 32, 3, 3))
      [] name = "conv_4_4_32_32_3_3"       -> GenConvBenchmark(Conv(4, 4, 32, 32, 3, 3))
      [] name = "conv_32_1_32_32_3_3"      -> GenConvBenchmark(Conv(32, 1, 32, 32, 3, 3))

-----------------------------------------------------------------------------
(***************************************************************************)
(* The interpreter: one statement of the script per step.  An operator    *)
(* that raises, or a process_custom_task that raises, ends the script     *)
(* (no example catches it), so no step follows.                           *)
(***************************************************************************)
Arg(i, j) == reg[i.args[j]]

OpResult(i) ==
    CASE i.op = "new"         -> Ok(NewData(b, Fresh(i.k[1], i.k[2])), b.dataCount)
      [] i.op = "add"         -> AddOp(b, Arg(i, 1), Arg(i, 2))
      [] i.op = "mult"        -> MultOp(b, Arg(i, 1), Arg(i, 2), NoBlock)
      [] i.op = "mult_relin"  -> MultRelinOp(b, Arg(i, 1), Arg(i, 2))
      [] i.op = "rescale"     -> RescaleOp(b, Arg(i, 1))
      [] i.op = "rotate_cols" -> RotateColsOp(b, Arg(i, 1), i.k)

\* The assignment of the returned nodes to the instruction's variables.
Bind(dst, out) == [n \in Range(dst) |-> out[CHOOSE j \in DOMAIN dst : dst[j] = n]]

ExInit ==
    /\ Init
    /\ script \in Scripts
    /\ prog = ScriptOf(script)
    /\ pc = 1
    /\ reg = <<>>

\* The Arguments of a process_custom_task: its variables' nodes.
ArgsOf(as) == [j \in DOMAIN as |-> Argument(as[j].id, [k \in DOMAIN as[j].names |-> reg[as[j].names[k]]])]
Ins(i)  == ArgsOf(i.k.in)
Outs(i) == ArgsOf(i.k.out)

Exec ==
    /\ pc <= Len(prog)
    /\ LET i == prog[pc]
       IN  IF i.op = "process_custom_task"
           THEN /\ Finalize(Ins(i), Outs(i), <<>>)
                /\ UNCHANGED reg
           ELSE LET r == OpResult(i)
                IN  /\ Apply(r, IF i.op = "rotate_cols" THEN RotateLog(r, Arg(i, 1), i.k) ELSE {})
                    /\ reg' = Bind(i.dst, r.out) @@ reg
    /\ pc' = pc + 1
    /\ UNCHANGED <<script, prog>>

\* The script has returned: the process exits.
Done == pc = Len(prog) + 1 /\ UNCHANGED <<b, held, emitted, lastCall, rotLog, script, prog, pc, reg>>

ExVars == <<b, held, emitted, lastCall, rotLog, script, prog, pc, reg>>

ExSpec == ExInit /\ [][Exec \/ Done]_ExVars

-----------------------------------------------------------------------------
(***************************************************************************)
(* Every example script runs to its end: in the context each script has   *)
(* built so far, its next statement succeeds.  No operator it calls       *)
(* raises (the level, degree and NTT asserts of mult, add and rescale     *)
(* along the whole script), and each process_custom_task accepts its task *)
(* (every input used, every unused node an output).                       *)
(***************************************************************************)
NextStatementSucceeds ==
    pc <= Len(prog) =>
        LET i == prog[pc]
        IN  IF i.op = "process_custom_task" THEN Accepts(b, Ins(i), Outs(i), <<>>)
            ELSE OpResult(i).ok

=============================================================================
