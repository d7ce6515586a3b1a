------------------------------ MODULE Delivery ------------------------------
(***************************************************************************)
(* What a topic promises the handler of one consumer group: every message  *)
(* is handled, in order and at least once, before the group's offset goes  *)
(* past it.  Consumer implements this; the pipelines are built on it.      *)
(***************************************************************************)
EXTENDS Naturals, Sequences

CONSTANTS
  Messages,    (* what the topic can hold                                  *)
  Poison,      (* those that do not decode, and are passed over            *)
  Refused      (* those that the handler fails on, every time              *)

VARIABLES
  log,         (* the partition                                            *)
  committed,   (* the offset of the group: messages 1..committed are done  *)
  applied      (* how often the handler took effect on each message        *)

Init ==
  /\ log = <<>>
  /\ committed = 0
  /\ \A i \in DOMAIN applied : applied[i] = 0

Produce(m) ==
  /\ log' = Append(log, m)
  /\ UNCHANGED <<committed, applied>>

(* The handler is given the message after the offset, or again one before  *)
(* it: a rebalance can send the reader back behind a commit under way.     *)
Apply(i) ==
  /\ i \in 1..Len(log) /\ i <= committed + 1
  /\ log[i] \notin Poison \cup Refused
  /\ applied' = [applied EXCEPT ![i] = @ + 1]
  /\ UNCHANGED <<log, committed>>

Commit(i) ==
  /\ i = committed + 1 /\ i <= Len(log)
  /\ log[i] \in Poison \/ applied[i] > 0
  /\ committed' = i
  /\ UNCHANGED <<log, applied>>

Next ==
  \/ \E m \in Messages : Produce(m)
  \/ \E i \in DOMAIN log : Apply(i) \/ Commit(i)

Spec == Init /\ [][Next]_<<log, committed, applied>>
============================================================================
