------------------------------- MODULE LoadSeed -------------------------------
(* The seeding of a load test that reads (internal/runner/runner.go): links  *)
(* are shortened one after the other, and then the last one alone is probed  *)
(* until the resolver redirects it or PropagationTimeout has passed. The     *)
(* reads that follow pick any of the links, so this is enough only because   *)
(* events reach the resolver in the order of their commits: the outbox is    *)
(* read from the WAL into a topic of one partition.                          *)
EXTENDS Naturals, Sequences, SequencesExt

CONSTANTS
  SeedCount,           \* links to shorten
  PropagationTimeout,  \* how long the probes go on
  MaxOthers,           \* bound on the links of other users
  MaxClock             \* bound on the time at which the probing begins

VARIABLES
  log,       \* the commits at the shortener: "seed" or "other"
  applied,   \* how many of them the resolver's cache holds
  codes,     \* the links shortened so far, as positions of log
  pc, clock, deadline, ended

vars == <<log, applied, codes, pc, clock, deadline, ended>>

Init ==
  /\ log = <<>> /\ applied = 0 /\ codes = <<>>
  /\ pc = "shorten" /\ clock = 0 /\ deadline = 0 /\ ended = FALSE

(* The services, the clock and the caller. *)
Other ==
  /\ Len(SelectSeq(log, LAMBDA x : x = "other")) < MaxOthers
  /\ log' = Append(log, "other")
  /\ UNCHANGED <<applied, codes, pc, clock, deadline, ended>>

Hydrate ==
  /\ applied < Len(log)
  /\ applied' = applied + 1
  /\ UNCHANGED <<log, codes, pc, clock, deadline, ended>>

Tick ==
  /\ clock < MaxClock \/ clock < deadline
  /\ clock' = clock + 1
  /\ UNCHANGED <<log, applied, codes, pc, deadline, ended>>

CallerLeaves ==
  /\ ~ended /\ ended' = TRUE
  /\ UNCHANGED <<log, applied, codes, pc, clock, deadline>>

(* The loop sees that ctx is done, before a request or by its failure. *)
Cancelled ==
  /\ pc \in {"shorten", "probe"} /\ ended
  /\ pc' = "failed"
  /\ UNCHANGED <<log, applied, codes, clock, deadline, ended>>

(* shorten: the row is stored and its code comes back within SeedTimeout. *)
Shorten ==
  /\ pc = "shorten" /\ Len(codes) < SeedCount
  /\ log' = Append(log, "seed") /\ codes' = Append(codes, Len(log) + 1)
  /\ UNCHANGED <<applied, pc, clock, deadline, ended>>

(* It does not, stored or not: seeding has failed. *)
ShortenFails ==
  /\ pc = "shorten" /\ Len(codes) < SeedCount
  /\ log' \in {log, Append(log, "seed")}
  /\ pc' = "failed"
  /\ UNCHANGED <<applied, codes, clock, deadline, ended>>

SeededAll ==
  /\ pc = "shorten" /\ Len(codes) = SeedCount
  /\ IF codes = <<>> THEN pc' = "failed" /\ UNCHANGED deadline
     ELSE pc' = "probe" /\ deadline' = clock + PropagationTimeout
  /\ UNCHANGED <<log, applied, codes, clock, ended>>

(* Mutant: the first link is probed. *)
probedFirst == Head(codes)

(* The link that is probed. *)
probed == Last(codes)

(* Another probe, before the deadline. *)
Probe ==
  /\ pc = "probe" /\ clock < deadline
  /\ pc' = "asking"
  /\ UNCHANGED <<log, applied, codes, clock, deadline, ended>>

(* probeRedirect: a redirect ends the seeding; anything else, a failed       *)
(* request included, leads back to the loop's head.                          *)
ProbeReturns ==
  /\ pc = "asking"
  /\ \/ probed <= applied /\ pc' = "drive"
     \/ pc' = "probe"
  /\ UNCHANGED <<log, applied, codes, clock, deadline, ended>>

DidNotCatchUp ==
  /\ pc = "probe" /\ clock >= deadline
  /\ pc' = "failed"
  /\ UNCHANGED <<log, applied, codes, clock, deadline, ended>>

seed == Cancelled \/ Shorten \/ ShortenFails \/ SeededAll \/ Probe \/ ProbeReturns \/ DidNotCatchUp
Next == seed \/ Other \/ Hydrate \/ Tick \/ CallerLeaves

Spec == Init /\ [][Next]_vars

------------------------------------------------------------------------------
(* Properties *)

(* The variables have their types, and a seeded link is a commit of the run's *)
(* own, of which there are no more than asked for.                           *)
TypeOK ==
  /\ log \in Seq({"seed", "other"}) /\ applied \in 0 .. Len(log)
  /\ pc \in {"shorten", "probe", "asking", "drive", "failed"}
  /\ Len(codes) <= SeedCount
  /\ \A i \in DOMAIN codes : log[codes[i]] = "seed"

(* When the reads begin every seeded link redirects, not only the probed one. *)
ReadsFindTheirLinks ==
  TypeOK /\ (pc = "drive" => \A i \in DOMAIN codes : codes[i] <= applied)
==============================================================================
