------------------------------ MODULE Latencies ------------------------------
(* Two programs of the load generator summarise latencies, each with its own *)
(* rule: the runner's samples (internal/runner/percentile.go) and the        *)
(* simulator's reports (cmd/simulate). Both are compared with the definition *)
(* of a percentile over every short window. Latencies are naturals, a        *)
(* percentile is given in percent. Pure.                                     *)
EXTENDS Naturals, FiniteSets, Functions

CONSTANTS
  Actions,     \* what a simulated user does
  Latency,     \* the latencies a sample may have, above zero
  MaxSamples   \* bound on the window

(* stats.window: samples in the order of record. *)
Windows == UNION {[1 .. n -> [act : Actions, dur : Latency]] : n \in 1 .. MaxSamples}

Count(durs) == Cardinality(DOMAIN durs)

(* What sort.Float64s and sort.Slice leave: a rearrangement that is in order. *)
Sorted(durs) ==
  LET n     == Count(durs)
      order == CHOOSE f \in Bijection(1 .. n, DOMAIN durs) :
                 \A i, j \in 1 .. n : i <= j => durs[f[i]] <= durs[f[j]]
  IN  [i \in 1 .. n |-> durs[order[i]]]

(* The runner's index into n sorted samples, from 0. *)
index(n, p) == ((n - 1) * p) \div 100

pick(sorted, p) ==
  LET n == Count(sorted)
  IN  IF n = 0 THEN 0
      ELSE sorted[1 + IF index(n, p) >= n THEN n - 1 ELSE index(n, p)]
Percentiles(durs) == [p \in {50, 95, 99} |-> pick(Sorted(durs), p)]

(* Mutant: one rank too far. *)
percentileNext(durs, p) == Sorted(durs)[1 + (p * Count(durs)) \div 100]

(* The simulator's rank: the ceiling of p percent of the samples. *)
percentile(durs, p) ==
  LET i == (p * Count(durs) + 99) \div 100
  IN  Sorted(durs)[IF i = 0 THEN 1 ELSE i]

(* The latencies of an action, by their places in the window. *)
DursOf(win, a) == [i \in {j \in DOMAIN win : win[j].act = a} |-> win[i].dur]

(* What flush prints of a window: a row for each action that has a sample.   *)
flush(win) ==
  [a \in {x \in Actions : Count(DursOf(win, x)) > 0} |->
     [n |-> Count(DursOf(win, a)), p50 |-> percentile(DursOf(win, a), 50),
      p95 |-> percentile(DursOf(win, a), 95)]]

------------------------------------------------------------------------------
(* Properties *)

(* How many of durs are at most v. *)
AtMost(durs, v) == Cardinality({i \in DOMAIN durs : durs[i] <= v})

(* The definition: the least sample that p percent of the samples do not     *)
(* exceed.                                                                   *)
IsPercentile(v, durs, p) ==
  /\ v \in Range(durs) /\ 100 * AtMost(durs, v) >= p * Count(durs)
  /\ \A w \in Range(durs) : w < v => 100 * AtMost(durs, w) < p * Count(durs)

(* The simulator prints percentiles, and its rows account for the window.    *)
RowsArePercentiles(win) ==
  LET printed == flush(win)
  IN  /\ \A a \in DOMAIN printed :
           /\ IsPercentile(printed[a].p50, DursOf(win, a), 50)
           /\ IsPercentile(printed[a].p95, DursOf(win, a), 95)
      /\ Cardinality(UNION {{a} \X (1 .. printed[a].n) : a \in DOMAIN printed}) = Count(win)

(* The runner's are samples, in order, and never above the percentile: with  *)
(* few samples they may be the sample below it.                              *)
RunnerIsBelow(durs) ==
  LET ps == Percentiles(durs)
  IN  /\ ps[50] <= ps[95] /\ ps[95] <= ps[99]
      /\ \A p \in DOMAIN ps :
           /\ ps[p] \in Range(durs) /\ ps[p] <= percentile(durs, p)
           /\ 100 * AtMost(durs, ps[p]) >= p * (Count(durs) - 1)

(* Over every window, the simulator's reports give the percentiles of each   *)
(* action, and the runner's samples are never above them.                    *)
SummariesArePercentiles ==
  \A win \in Windows : RowsArePercentiles(win) /\ RunnerIsBelow([i \in DOMAIN win |-> win[i].dur])
==============================================================================
