---------------------------- MODULE MCLoadRunner ----------------------------
(***************************************************************************)
(* Instances of LoadRunner for TLC: channels shorter than the bursts, so   *)
(* that tokens are dropped and workers wait for the collector.             *)
(***************************************************************************)
EXTENDS LoadRunner

CONSTANTS w1, w2
============================================================================
