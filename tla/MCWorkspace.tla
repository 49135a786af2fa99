---------------------------- MODULE MCWorkspace -----------------------------
(* Small instances of Workspace for TLC: one name, so that every glossary  *)
(* collides with every other, and one version kept.                        *)
EXTENDS Workspace

OneName     == {1}
AllFeatures == {"delete", "wipe", "now", "confirm"}
=============================================================================
