-------------------------- MODULE MCArtifactBuild --------------------------
(***************************************************************************)
(* An instance of ArtifactBuild for TLC: all artifacts have one version    *)
(* and one format, so that every build meets every other one.              *)
(***************************************************************************)
EXTENDS ArtifactBuild

CONSTANT Count   \* number of artifacts

MCArtifacts == 1 .. Count
MCVersion == [a \in 1 .. Count |-> "v1"]
MCFormat == [a \in 1 .. Count |-> "yolo"]
=============================================================================
