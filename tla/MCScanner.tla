---------------------------- MODULE MCScanner ----------------------------
(* Two inventory providers, as in the scanner's default configuration. *)
EXTENDS Scanner, TLC

MCProviders == <<"syft", "cve-bin-tool">>
Interchangeable == Permutations(Component)
OneProvider == <<"syft">>
=============================================================================
