----------------------------- MODULE MCBatcher -----------------------------
(***************************************************************************)
(* An instance of BatcherAlone for TLC: fewer places in the channel and in *)
(* a batch than callers, so that senders block and batches fill.           *)
(***************************************************************************)
EXTENDS BatcherAlone

CONSTANTS c1, c2, c3

(* One call may be told that its code is taken and insert again.           *)
MCMaxInserts == [c \in Callers |-> IF c = c1 THEN 2 ELSE 1]
============================================================================
