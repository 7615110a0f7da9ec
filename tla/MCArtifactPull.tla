---------------------------- MODULE MCArtifactPull ----------------------------
(***************************************************************************)
(* A long archive served with byte ranges and a short one of the same      *)
(* version served without: what is left of either may be shorter than, as  *)
(* long as or longer than the one that is asked for next.  Both have an    *)
(* image at the same path, and the manifest comes last.                    *)
(***************************************************************************)
EXTENDS ArtifactPull

CONSTANTS yolo, coco, v1, w1, w2

MCVersionOf == [a \in Served |-> v1]

MCFilesOf == [a \in Served |-> IF a = yolo THEN 3 ELSE 2]

MCManifestAt == MCFilesOf

MCPathOf ==
  [a \in Served |-> IF a = yolo THEN <<"images/a.jpg", "labels/a.txt", "manifest.json">>
                    ELSE <<"images/a.jpg", "manifest.json">>]
=============================================================================
