------------------------------ MODULE LoadPlan ------------------------------
(* What the load generator makes of a request (internal/runner/preset.go):   *)
(* a plan of a scenario, a rate and a duration, or a refusal. Pure.          *)
EXTENDS Naturals

CONSTANTS
  RpsValues,   \* the rates a request may carry
  Seconds      \* the durations a request may carry

ValidScenario == {"read", "write", "mixed"}
Presets == {"LOW", "MEDIUM", "HIGH", "XHIGH", "XXHIGH", "INSANE"}

(* The scenario is trimmed and lower-cased before it is looked at: what is   *)
(* left of it is a scenario, something else, or nothing.                     *)
Requests == [preset : Presets \cup {"UNSPECIFIED", "CUSTOM"},
             scenario : ValidScenario \cup {"other", ""},
             rps : RpsValues, seconds : Seconds]

plan(scenario, rps, seconds) == [scenario |-> scenario, rps |-> rps, seconds |-> seconds]

planFromPreset(preset) ==
  CASE preset = "LOW"    -> plan("read", 100, 10)
    [] preset = "MEDIUM" -> plan("read", 1000, 15)
    [] preset = "HIGH"   -> plan("read", 5000, 20)
    [] preset = "XHIGH"  -> plan("read", 10000, 20)
    [] preset = "XXHIGH" -> plan("mixed", 25000, 20)
    [] preset = "INSANE" -> plan("mixed", 50000, 30)

(* PlanFromRequest: presets win over the explicit fields. *)
Refused(req) ==
  /\ req.preset \notin Presets
  /\ req.scenario \notin ValidScenario \/ req.rps = 0 \/ req.seconds = 0

PlanFromRequest(req) ==
  IF req.preset \in Presets THEN planFromPreset(req.preset)
  ELSE plan(req.scenario, req.rps, req.seconds)

(* What Run checks again. *)
Runnable(p) == p.scenario \in ValidScenario /\ p.rps # 0 /\ p.seconds # 0
Seeds(p) == p.scenario \in {"read", "mixed"}

(* The producer's tick, in nanoseconds; time.NewTicker panics on zero.       *)
Second == 1000000000
Microsecond == 1000
interval(p) == IF Second \div p.rps = 0 THEN Microsecond ELSE Second \div p.rps

defaultWorkerCount(rps) ==
  IF rps <= 200 THEN 16
  ELSE IF rps <= 2000 THEN 64
  ELSE IF rps <= 10000 THEN 256
  ELSE IF rps <= 25000 THEN 512
  ELSE 1024
==============================================================================
