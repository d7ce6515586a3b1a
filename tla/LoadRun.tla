------------------------------- MODULE LoadRun -------------------------------
(* What Runner.Run promises its caller, whatever goes on inside: samples one *)
(* after the other, then a terminal one, unless the sink fails.              *)
EXTENDS Naturals, Sequences

CONSTANTS MaxRunning   \* bound on the RUNNING samples

VARIABLES
  said,    \* the statuses of the samples the sink took
  broken,  \* the sink has refused one
  over     \* Run has returned

Init == said = <<>> /\ broken = FALSE /\ over = FALSE

Sample ==
  /\ ~over /\ ~broken /\ Len(said) < MaxRunning
  /\ said' = Append(said, "RUNNING")
  /\ UNCHANGED <<broken, over>>

(* The time is over; or the plan is bad, seeding failed, the caller has left. *)
Terminal ==
  /\ ~over /\ ~broken
  /\ \E status \in {"COMPLETED", "FAILED"} : said' = Append(said, status)
  /\ over' = TRUE
  /\ UNCHANGED broken

(* The sink refuses a sample; the last one, perhaps, which is where Run ends. *)
SinkFails ==
  /\ ~over /\ ~broken
  /\ broken' = TRUE /\ over' \in BOOLEAN
  /\ UNCHANGED said

GivesUp ==
  /\ ~over /\ broken
  /\ over' = TRUE
  /\ UNCHANGED <<said, broken>>

Next == Sample \/ Terminal \/ SinkFails \/ GivesUp
Spec == Init /\ [][Next]_<<said, broken, over>>
==============================================================================
