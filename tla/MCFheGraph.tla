----------------------------- MODULE MCFheGraph -----------------------------
(***************************************************************************)
(* Instantiates FheGraph for TLC: a ring of n = 8 (four slots per row), a  *)
(* handful of client nodes, and a stand-in rotation list for bootstrap     *)
(* (the hard-coded lists exist only for n >= 2^13).  Each run lets the    *)
(* client call a group of operators, so that each group is explored to a  *)
(* useful depth.                                                           *)
(***************************************************************************)
EXTENDS FheGraph

\* Three rotations with distinct Galois elements, as bootstrap's list.
MCBtpRotations == <<1, 2, 3>>

\* rotate_cols step lists: a repeated step (a memo hit across steps), a
\* two-digit NAF (3 = 4 - 1, the +4 being an identity at n = 8), a step
\* whose only digit is an identity (-4) and a negative step.
MCStepLists == {<<1, 1>>, <<3>>, <<-4>>, <<-2, 2>>}

\* A BFV ciphertext at level 0 (its out_ct_type flags) and a CKKS one at
\* level 1, so that a key bound by one is re-levelled by the other.
MCKeyNodes == {<<"BfvCt", 0>>, <<"CkksCt", 1>>}

\* BFV ciphertexts at two levels, a RingT and a compressed RingT plaintext.
MCArithNodes == {<<"BfvCt", 1>>, <<"BfvCt", 0>>, <<"BfvPtRingt", 0>>, <<"BfvCmpPtRingt", 0>>}

\* Two BFV ciphertexts the client may give the same id.
MCDupIdNodes == {<<"BfvCt", 0>>}

\* Construction under a user id, add and mult.
DupIdNext == Construct \/ CallAdd \/ CallMult \/ CallFinalize

DupIdSpec == Init /\ [][DupIdNext]_vars

\* A BFV ciphertext at level 0, which bootstrap accepts, and the BFV
\* conversions applied to what it returns.
MCSchemeNodes == {<<"BfvCt", 0>>}

SchemeNext == Construct \/ CallBootstrap \/ CallToMForm \/ CallToInvNtt \/ CallFinalize

SchemeSpec == Init /\ [][SchemeNext]_vars

\* A client that also rescales ciphertexts at level 0.
MCNoRescaleFloor == -1

\* Key-binding operators: relin (after a ct x ct mult), rescale, bootstrap
\* and the rotations of both libraries, NAF and exact-key, which share
\* glk_ntt_col keys.
KeysNext ==
    \/ Construct \/ CallMult \/ CallRelin \/ CallRescale
    \/ CallRotateRows \/ CallRotateCols \/ CallBootstrap \/ CallFinalize
    \/ CallSealRotateCols \/ CallAdvancedRotateCols \/ CallSealAdvancedRotateCols

\* Arithmetic, form conversions and rns_sp_decomp, whose results the
\* others then take as operands.
ArithNext ==
    \/ Construct \/ CallAdd \/ CallSub \/ CallNeg \/ CallMult \/ CallRnsSpDecomp
    \/ CallDropLevel \/ CallToMul \/ CallToNtt \/ CallToMForm \/ CallToInvNtt
    \/ CallFinalize

KeysSpec  == Init /\ [][KeysNext]_vars
ArithSpec == Init /\ [][ArithNext]_vars

-----------------------------------------------------------------------------
(***************************************************************************)
(* The rotation arithmetic of GaloisArith, checked over bounded inputs:    *)
(* every ring degree of GaloisDegrees and every step of GaloisSteps.  The  *)
(* checks do not depend on the state, so each is evaluated in the initial *)
(* state only (AtStart), where data_node_count is still 0.                *)
(***************************************************************************)
GaloisDegrees == {8, 16, 32}
GaloisSteps   == -40..40

AtStart == b.dataCount = 0

\* convert2naf's three-line bit trick yields exactly the textbook
\* non-adjacent form of the step, negative steps included.
NafMatchesReference ==
    AtStart =>
        \A st \in GaloisSteps : Convert2Naf(st) = RefNaf(st)

\* The chain of unit rotations that rotate_cols builds for a step (NAF
\* digits filtered by the n/2 mask, identity sub-steps skipped) rotates
\* by the step modulo the n/2 slots of a row.
RotateColsRotatesBy ==
    AtStart =>
        \A n \in GaloisDegrees, st \in GaloisSteps :
            SeqSum(AppliedSubSteps(st, n)) % (n \div 2) = st % (n \div 2)

\* Keys are deduplicated by the name glk_ntt_col_<galois element>: two
\* rotations share a key exactly when they are the same rotation modulo
\* n/2, for the Lattigo generator 5 and the SEAL generator 3 alike.
KeyNameIdentifiesRotation ==
    AtStart =>
        \A n \in GaloisDegrees, st \in GaloisSteps, g \in {GALOIS_GEN, SEAL_GALOIS_GEN} :
            \A r \in -(2 * n)..(2 * n) :
                (GaloisElementCol(st, n, g) = GaloisElementCol(r, n, g)) <=> (st - r) % (n \div 2) = 0

(***************************************************************************)
(* bootstrap at the ring degrees that have a rotation list.  S5 is the    *)
(* builder at n = 2^13 with get_rotations_for_bootstrapping's list there. *)
(***************************************************************************)
S5 == INSTANCE FheGraph
          WITH N <- 2^13, BtpRotations <- GetRotationsForBootstrapping(2^13), BtpSupported <- TRUE

\* Spec S5 and 4.3: bootstrap of a CKKS ciphertext at level 0 on an empty
\* context, at n = 2^13, binds exactly 29 column Galois keys (one per entry
\* of the hard-coded list, no two sharing a Galois element), the row key,
\* rlk_ntt and the two switch keys, all as inputs of its op, and returns a
\* ciphertext at btp_output_level.  The 47 rotations of n = 2^16 likewise
\* name 47 distinct column keys.
BootstrapKeySetsAsSpecified ==
    AtStart =>
        LET s0   == [b EXCEPT !.node = (0 :> Fresh("CkksCt", 0)), !.dataCount = 1]
            r    == S5!Bootstrap(s0, 0)
            keys == DOMAIN r.s.keys
        IN  /\ r.ok
            /\ Cardinality({k \in keys : k[1] = "glk_ntt_col"}) = 29
            /\ keys \ {k \in keys : k[1] = "glk_ntt_col"} = {RLK, ROW, DTS, STD}
            /\ S5!Preds(r.s, 0) = {0} \cup Range(r.s.keys)
            /\ r.s.node[r.out[1]].level = BtpOutputLevel
            /\ Cardinality({GaloisElementCol(rot, 2^16, GALOIS_GEN) :
                               rot \in Range(GetRotationsForBootstrapping(2^16))}) = 47
=============================================================================
