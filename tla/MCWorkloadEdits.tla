-------------------------- MODULE MCWorkloadEdits ---------------------------
(* Instances of WorkloadEdits for TLC: one object, an editor of its YAML and *)
(* a second user; the configurations give all the constants their values.    *)
EXTENDS WorkloadEdits
=============================================================================
