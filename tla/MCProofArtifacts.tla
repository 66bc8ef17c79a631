-------------------------- MODULE MCProofArtifacts --------------------------
(* Instances of ProofArtifacts for TLC. *)
EXTENDS ProofArtifacts
=============================================================================
