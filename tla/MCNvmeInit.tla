----------------------------- MODULE MCNvmeInit -----------------------------
(* Constants for the TLC runs of NvmeInit: a controller with two command   *)
(* sets, one of whose lists takes more than one page.                      *)
EXTENDS NvmeInit, TLC

TwoSets == (0 :> {1, 3}) @@ (2 :> {2, 4, 5})
OneSet == 0 :> {1, 2}
============================================================================
