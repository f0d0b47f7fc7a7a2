# TLA+ models of the LattiSense graph builder

This directory holds TLA+ models of `src/frontend/custom_task.py`, the Python front end that builds FHE computation graphs, and of the client scripts under `src/examples` that drive it. TLC checks them.

## The system

The builder is single-threaded. It keeps one process-wide context:

- `g_dag`: a networkx `DiGraph` of data and compute nodes.
- `g_swk_node_dict`: the key table, mapping a key name to its key node.
- `data_node_count` and `compute_node_count`: the counters behind every node's index.
- `g_param`: the parameters.

Its parts, and how they interact:

| Part | Source (custom_task.py) | What it does |
|---|---|---|
| Rotation arithmetic | `get_glk_col`/`convert2naf` 96–131, Galois elements 133–139 | Splits a rotation step into NAF power-of-two sub-steps. Names each column key by its Galois element. |
| Bootstrap rotation lists | `get_rotations_for_bootstrapping` 142–226 | Hard-coded rotation lists for n = 2^13 (29 rotations) and n = 2^16 (47). Any other n raises. |
| Node classes | 470–790 | Data nodes (plaintexts, ciphertexts, keys) take a data index at construction. Compute nodes take a compute index. |
| Operator layer | 791–1560, 1763–1814, `rns_sp_decomp` 1176–1184 | Each operator checks its operands, creates a compute node and its result node, and adds edges. Some also bind keys in the key table, creating a key or raising its level. |
| Fused inner product | `ct_pt_mult_accumulate*` 1562–1760 | Cuts an inner product of m ciphertexts and m plaintexts into CmpSum/CmpacSum slices of 16, 8, 4, 2 or 1 products. |
| Task finalizer | `process_custom_task` 1817–2037 | Registers the key table as inputs, checks inputs and sinks, and emits `mega_ag.json` and `task_signature.json`. Then it clears the graph and the key table. |
| Parameters | `Param`, `set_fhe_param` 238–443 | Load the ring parameters. |

A client script (the examples, the unit tests) works in the order below. Each example script runs in a process of its own. `benchmark_gpu.py` builds three tasks one after another in that process, and `benchmark_convolution.py`'s `main` builds eleven.
1. It constructs input nodes.
2. It calls operators on the nodes it holds.
3. It calls `process_custom_task`.
4. It may go on to build another task in the same process, keeping its old node handles.

## Modules

- **GaloisArith.tla** models the rotation arithmetic as pure operators, in Python's integer semantics.
  - Python's `>>` is floor division by 2. Python's `&` and `^` act on infinite two's complement, written here as the recursive `BitAnd` and `BitXor`.
  - `pow(g, e, 2n)` is `PowMod`. Above a modulus of 2^15 it squares through `MulMod`, so that n = 2^16 stays within TLC's 32-bit integers.
  - `RefNaf` is the textbook non-adjacent form that `Convert2Naf` is checked against.
  - `GetRotationsForBootstrapping` holds the two hard-coded lists.
- **MCGaloisArith.tla** checks `seal_rotate_cols`' sub-steps call by call: a state is one call `(n, step)`. The other rotation arithmetic is checked by the keys run of MCFheGraph.
- **TaskContext.tla** is the abstract specification of what the context promises its client:
  - between two `process_custom_task` calls, the graph only grows, by new vertices with their incoming edges, so a node's inputs are fixed once it exists;
  - a key stays in the table, and its level never goes down;
  - `process_custom_task` hands the graph on and empties the graph and the key table.
- **FheGraph.tla** models the builder context and the operators.
  - The context is a record `b`:
    - `node`: index ↦ class, level, degree, is_ntt, is_mform.
    - `op`: index ↦ type, step, lib, sum_cnt, pt_type and compressed_block_info. It also holds the ghost `args`: the operands an add or mult was given.
    - `dag`: a `Graphs` record of vertices `<<"d", i>>`, `<<"c", j>>` and edges.
    - `keys`: key name ↦ node index.
    - `uid`: data index ↦ the id the client gave the node. Nodes with a `random_id` are left out, because that id is unique.
    - `dataCount` and `computeCount`.
  - Node classes are the Python class names. `"Ct"` is `CiphertextNode` itself, of neither scheme; only `rns_sp_decomp` returns one. Every operator that picks its result class with `isinstance(x, Bfv...)`/`isinstance(x, Ckks...)` raises on it at the code's `else: raise ValueError()`.
  - Each operator is a pure operator `XxxOp(s, ...)` that returns `[ok, s, out]`.
    - It follows the code's statements in order: index allocation, edges, the throw-away `z = CiphertextNode()` that still takes a data index, key creation or level raise, and the result.
    - When the code raises, `s` is the context as it stands at the `raise`. That keeps the partial mutations.
  - add and mult keep the code's `x.id == y.id` test (`SameId`, `OperandEdges`).
  - `rotate_cols` is the recursion `RotSteps`/`RotSub`/`RotUnit`. It carries the `rotated_input` memo, which is shared by all steps of a call, and `sub_steps_sum`.
  - `advanced_rotate_cols` and its SEAL variant are one `AdvRotUnit` per step, with the whole step's Galois key.
  - A unit is split into key binding (`RotUnit`, `AdvRotUnit`), op and edges (`...At`) and result (`...End`). The intermediate contexts are passed as operator parameters, not as LET definitions referenced several times. This keeps TLC's `-coverage` profiling, which walks every reference of a definition, small. `ThenUnit` appends a unit's outputs or stops at a raise.
  - `RotationOutputsRotatedBy` follows `RotChainEdges`, the edges into and out of the rotate_col ops, collected once per state.
  - bootstrap's `for rot in rots` loop is the recursion `BtpColKeys`. It branches on the key table as the code does, so each step's context is evaluated before the next; a fold over the 29 rotations of n = 2^13 exceeds TLC's stack.
  - `process_custom_task` is modelled by `Accepts`, `KeyInputs`, `TaskValid`, `Emit` and `ClearContext`.
    - Its arguments are `Argument(id, data)` records, with the data flattened.
    - `ArgsAccepted` is `process_data_args`' checks in its order (input, output, then offline arguments). An argument with no data raises, and so does an id already used by an argument of any phase.
    - `SigRecord` is the signature record, which takes the type and level of the argument's first node. Its ghost field `actual` holds the types and levels of all the argument's nodes.
    - Offline arguments are inputs and are listed in `offline`. The client in FheGraph passes none, like every caller in the repository (every unit test passes `offline_input_args=[]`), and gives each node an Argument of its own (`NodeArgs`). The examples pass their own Arguments (`A`, `ArgsOf`).
  - The client is a set of actions: `Construct`, with a user id from `ClientIds` or a random one, one `CallXxx` per operator, and `CallFinalize`. Each action is enabled while the context is within the named bounds `MaxData` and `MaxCompute`.
  - `CatchErrors` selects the client's error handling:
    - When FALSE, a raising call ends the script, so it is not a step.
    - When TRUE, the client catches the exception and goes on with the partially mutated context.
  - `held` is the set of node handles the client holds. They survive finalization, as Python objects do.
  - `rotLog` is a ghost variable. It records each rotation output with its input and step.
  - `TC == INSTANCE TaskContext WITH dag <- b.dag, keyLevel <- ..., task <- emitted.dag` is the refinement mapping. `ImplementsTaskContext` is `TC!Spec`.
- **MCFheGraph.tla** instantiates FheGraph at n = 8. It defines client profiles, each a subset of the operators explored to a useful depth:
  - `KeysNext`: the key-binding operators and all rotations;
  - `ArithNext`: add, sub, neg, mult, drop_level, the conversions and `rns_sp_decomp`;
  - `DupIdNext`: construction under a user id, add and mult;
  - `SchemeNext`: bootstrap and the BFV conversions.
  
  It also states the checks that do not depend on the state: the rotation arithmetic over n ∈ {8, 16, 32}, and bootstrap at n = 2^13 through `S5 == INSTANCE FheGraph WITH N <- 2^13, ...`. Each is guarded by `AtStart` (data_node_count is still 0), so TLC evaluates it in the initial state only.
- **InnerProduct.tla** models the fused inner product over the FheGraph context:
  - `SumSlice` is both slice functions. Their `pt_type` loop is `SlicePtType`.
  - `CtPtMultAccumulate` has its first slice (CmpSum of 16 or 8, or a single mult), the greedy loop `AccumulateLoop`, and the `to_mform` tail.
  - `CtPtMultAccumulate1` has CmpSum slices of at most 8, chained by add.
  - A compressed plaintext operand is the pair `<<handle, block>>`.
- **MCInnerProduct.tla** is one call per state, on fresh operands. The call takes vectors of length m = 1..`MaxLen`, both variants, plain or compressed plaintexts, three ciphertext forms, and `output_mform` ∈ {True, False, None}. Each step moves to the same call on vectors one longer.
- **Examples.tla** runs the example scripts one Python statement per step against FheGraph at n = 2^14.
  - A script is a sequence of instructions: `New`, `Op`, `RS`, `Rot` and `Fin`.
  - `reg` maps each script variable (a name with its list indices) to the node it holds.
  - Each script's loops are `ForRange`, and the convolution layer's index arithmetic is `Pack`, `NPIn`, `RX`, `L1`, `RX2` and the rest.
  - The interpreter `Exec` calls the FheGraph operator, or `Finalize`, with the nodes the variables hold.
- **MCExamples.tla** sets `BtpRotations` to the empty list, because no example bootstraps.

## Runs

| Run | Expect | What it shows |
|---|---|---|
| `galois_seal` | violation | `seal_rotate_cols` does not skip identity sub-steps. At n = 8, step −3 = +1 − 4, and it builds a unit rotation by −4. |
| `keys` | pass | With mult, relin, rescale, bootstrap, finalize and every rotation operator (`rotate_cols`, `seal_rotate_cols`, `advanced_rotate_cols` with each `out_ct_type`, `seal_advanced_rotate_cols`, `rotate_rows`): every key feeding an op is at least at the level of that op's operands, even after later calls re-level the shared key. NAF and exact-key rotations share `glk_ntt_col_*` keys (`KeyLevelCoversUses`). Every key node of an emitted task is a task input (`EmittedKeysAreInputs`). Every rotation output is its input rotated by the requested step mod n/2, following the chain of unit ops back to the input; this includes memo hits across the steps of one call and identity digits (`RotationOutputsRotatedBy`). Every step refines TaskContext (`ImplementsTaskContext`). Checked once, in the initial state: for n ∈ {8, 16, 32} and steps −40..40, `convert2naf` is the textbook NAF; the sub-steps `rotate_cols` applies sum to the step mod n/2; two rotations share a column-key name exactly when they are equal mod n/2, for generator 5 (Lattigo) and 3 (SEAL). At n = 2^13, bootstrap on an empty context binds the 29 column keys, the row key, rlk and both switch keys of spec S5, and returns a ciphertext at `btp_output_level`; the 47 rotations of n = 2^16 name 47 distinct keys (`BootstrapKeySetsAsSpecified`). |
| `unlisted_output` | violation | With `ArithNext` and a client that may declare a node not in the graph as an output: a constructed node never passed to an operator (constructors do not add nodes to `g_dag`) is accepted as the output of an empty task, and `mega_ag`'s outputs name an index with no data entry (`EmittedOutputsInGraph`). A handle from an earlier task is accepted the same way. |
| `inner_product` | pass | For m = 1..24, both drivers: every ciphertext enters exactly one product op, and the result depends on every operand. Compressed block infos are listed once each, in order. The result has the operands' level and NTT form, and Montgomery form as `output_mform` asks. |
| `examples` | pass | bfv_mult, bfv_poly_7, ckks_euclidean_distance, ckks_logistic_regression, benchmark_gpu, and five convolution configs: 32×32 and 64×64 with a 5×5 kernel, and 32×32 3×3 with 1→32, 4→4 and 32→1 channels. In each, every statement succeeds: no operator assert fires, and each `process_custom_task` accepts its task. Rotations are correct. Every Argument holds nodes of one type and level, so the signature record written from its first node describes all of them (`SignatureDescribesEveryNode`). Its mutant passes the convolution biases (level 1) in the weight Argument (level 2). |
| `ringt_operand_first` | violation | `add(pt_ringt, ct)` yields a ciphertext at the plaintext's level 0. Spec §4.3 says the result follows the ciphertext operand. |
| `partial_mutation` | violation | An operator that raises (sub, neg, mult, bootstrap) has already changed the graph. Spec §7 forbids this. |
| `rlk_level_minus_one` | violation | rescale at level 0, then mult, then relin puts `rlk_ntt` at level −1. Level −1 is also the "no rlk" sentinel, so finalize leaves the key out of the inputs. |
| `inner_product_s4` | violation | On spec scenario S4 alone (`InitCalls <- S4Calls`, m = 5), the code builds mult, then CmpacSum(4), then `to_mform`. Spec S4 says CmpSum(4), then CmpacSum(1). |
| `inner_product_pt_type` | violation | A compressed inner product leaves `pt_type` unset, so `op.pt_type.value` raises in `process_custom_task`. |
| `duplicate_id` | violation | Two ciphertexts constructed with the same user id, then `add(x, y)`: the op has only x as input. Ids are not checked for uniqueness, and the code collapses the edges when `x.id == y.id`. |
| `bootstrap_bfv` | violation | bootstrap checks only the type and the level, so a BFV ciphertext at level 0 is bootstrapped into a CKKS ciphertext. The to_* conversions always build a BFV ciphertext, whatever the scheme of their operand. Spec 1 and 4.3 say the operators enforce scheme compatibility (`ResultKeepsScheme`). |

Each property of a passing run is paired with a mutant in PROJECT.json: a plausible bug in the definition it depends on, which TLC then catches. The mutants are:
- `UseKeyNoRaise`: a key is not raised to the operand's level.
- `RotSubSumOnNew`: a memo hit does not advance the sum.
- `KeyInputsNoRow`: the row key is not registered.
- `NewOpNoBump`: the compute counter is not advanced.
- `ClearContextKeepKeys`: finalize does not clear the key table.
- `RescaleOpKeepLevel`: rescale keeps the level.
- `CtPtMultAccumulateProcessedOne`: the commented-out `n_processed_mult = 1` is restored.
- `CtPtMultAccumulateNoneIgnored`: `output_mform=None` ignores `x[0].is_mform`.
- `SliceYsFromZero`: compressed slices restart at block 0.
- `Convert2NafAndMask`, `SubStepsUnsigned` and `GaloisElementColModN`: the NAF and Galois-element variants in GaloisArith.
- `GetRotationsForBootstrappingSwapped`: the two rotation lists' ring degrees swapped.

Two hazards in PROJECT.json have no property, and each has a note saying why. One is that the counters are never reset (line 2033); a property could only restate the two increments. The other is drop_level's level check (line 1159); with a client that rescales only above level 0, a levels-in-range invariant would only restate that guard.

No passing run explores `ArithNext`. The only invariant such a run could hold for add, sub, neg, drop_level, the conversions and `rns_sp_decomp` would restate their guards. Those operators are checked instead by the `partial_mutation` and `unlisted_output` violation runs, and add, mult and rescale by the examples run.

`rns_sp_decomp` is exposed to two hazards. Operators given its result raise after the graph has changed, which the `partial_mutation` run covers, because `ArithNext` calls it. drop_level and bootstrap turn its result into a CKKS ciphertext. `ResultKeepsScheme` states that, but the `bootstrap_bfv` run leaves `rns_sp_decomp` out, so that its counterexample stays the bootstrap one.

## Bounds, and why they are enough

- n = 8 gives four slots per row. At this size:
  - +4 is an identity rotation, so the NAF of 3 (+4 −1) exercises the identity skip and the positive-digit mask;
  - Galois elements for steps 1, 2 and 3 are distinct;
  - the step list `<<1, 1>>` hits the `rotated_input` memo, and `<<-2, 2>>` makes two steps of one call share a Galois key.
- `MaxLevel` = 2 with client levels 0 and 1 reaches a rescale to level 0, bootstrap (which needs level 0), and re-levelling a key from 0 to 1 and then to max_level.
- `MaxData`/`MaxCompute` are 6/4 in the keys run. These allow:
  - two dependent operator calls followed by finalize;
  - relin after mult;
  - two rotations sharing a key;
  - a task built after a finalize.
- `get_rotations_for_bootstrapping` only has lists for n = 2^13 and 2^16. The state-space runs stay at n = 8 and take a three-rotation stand-in list. It keeps bootstrap's structure: an rlk, a column key per rotation, the row key and two switch keys, all re-levelled. The real list is checked once, on an empty context, through the n = 2^13 instance `S5`.
- The inner product runs to m = 24. That crosses both first-slice widths (8 and 16) and every tail width. The violation runs need only m ≤ 5.
- The examples run at the scripts' own n = 2^14, with their own levels, steps and loop counts. Two things are reduced:
  - benchmark_gpu's `n_op` of 1024 is `NOp` = 2. Every iteration of its loops is the same call on fresh nodes.
  - Of benchmark_convolution's eleven configs, the five with at most 7 rotation steps per call are checked. Those are 32×32 and 64×64 with a 5×5 kernel, and the three 32×32 3×3 configs. The 4×4, 8×8 and 16×16 configs rotate by 31 to 511 steps in one `rotate_cols`, and that recursion exceeds TLC's stack.
  - Each config runs from a fresh context. In `main` they share one process, but `process_custom_task` clears the graph and keys between them, and only the counters carry over, which no check reads.
- The parameters are absent from the repository, so `MaxLevel` for the examples is 4, the highest level a script uses.

## Fairness

None. The builder is a single-threaded library driven by a client script, and nothing in it must eventually happen on its own.
- In the MCFheGraph runs, a client may stop at any point, which is why those cfgs say `CHECK_DEADLOCK FALSE`.
- The examples are deterministic scripts. Each is one process with no thread, callback or wait, so weak fairness of `Exec` would be justified. Under it, "the script reaches its end" follows from two things TLC checks:
  - `NextStatementSucceeds` holds in every state, so `Exec` is enabled at every statement;
  - `pc` goes up by one at each `Exec`, and the scripts are finite.
  
  The liveness property itself is not run. Checking `WF_ExVars(Exec)` makes TLC evaluate `ENABLED Exec`, and in that mode it does not cache LET definitions, so a single `rotate_cols` statement of the examples took minutes. Deadlock checking stays on, so a statement that raised would be reported as a deadlock before the script's end.

## Not modelled

- The `hoisted` branches of `rotate_cols` and `advanced_rotate_cols`. `rot_type` is hard-coded to `hybrid`, so they are dead code. `rns_sp_decomp`, which they call, is modelled as an operator the client calls.
- `random_id`'s string generation. A random id is drawn outside the live set, so it is unique, and the model leaves it out.
- The nested shape of `Argument` data (`shape`), and the JSON files. `task_signature.json` is reduced to its online and offline records. `mega_ag.json` is reduced to its graph, inputs, offline inputs and outputs.
- Parameter loading (`Param`, `set_fhe_param`, `CkksBtpParam`). This is I/O plus constant data; its values are the constants `N`, `MaxLevel` and `BtpOutputLevel`.
- The unit tests. They build graphs like the examples do and then run them on the native library.
- The ids the examples give their nodes. They are all distinct, as their f-strings show, so the examples never meet the duplicate-id case, and Examples leaves `uid` empty.
- benchmark_convolution's 4×4, 8×8 and 16×16 configs (see Bounds).
