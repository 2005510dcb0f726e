---------------------------- MODULE MCProvenance ----------------------------
(* Small instances of Provenance for TLC. *)
EXTENDS Provenance

CONSTANTS main, other, evil, good

OneNamespace == {main}
TwoNamespaces == {main, other}
OneSource == {evil}
TwoSources == {evil, good}
=============================================================================
