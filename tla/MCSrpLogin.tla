----------------------------- MODULE MCSrpLogin -----------------------------
(* Instances of SrpLogin for TLC: a kind environment, and each of the      *)
(* things that the environment may do.                                     *)
EXTENDS SrpLogin

MCEnvs == {{}} \cup {{k} : k \in EnvKinds}

Failures == {{"cm_id_failure"}}
=============================================================================
