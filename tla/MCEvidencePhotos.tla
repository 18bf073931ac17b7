-------------------------- MODULE MCEvidencePhotos --------------------------
(* Values for TLC: two zone names with one slug, and a third.              *)
EXTENDS EvidencePhotos

CONSTANTS monday, tuesday

MCKeys  == {monday, tuesday}
MCZones == {"desk", "Desk!", "sink"}
MCSlug  == [z \in MCZones |-> IF z = "sink" THEN "sink" ELSE "desk"]
=============================================================================
