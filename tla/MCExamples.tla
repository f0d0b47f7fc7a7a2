---------------------------- MODULE MCExamples -----------------------------
(***************************************************************************)
(* Runs every example script at n = 2^14.  parameter.json, which holds    *)
(* max_level, is not in the repository: MaxLevel is 4, the highest level  *)
(* an example constructs.  No example bootstraps.                         *)
(***************************************************************************)
EXTENDS Examples

ExBtpRotations == <<>>
=============================================================================
