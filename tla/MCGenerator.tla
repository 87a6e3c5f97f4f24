---------------------------- MODULE MCGenerator -----------------------------
(* Small instances of Generator for TLC. *)
EXTENDS Generator

\* Two platforms, always with language packs, and with or without.
WithLangpacks == [hw_rev : {"v1_5", "snowy_dvt"}, langpacks : {TRUE}]
MixedRequests == [hw_rev : {"v1_5", "snowy_dvt"}, langpacks : BOOLEAN]

=============================================================================
