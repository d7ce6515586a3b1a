--------------------------- MODULE SimulatorCrowd ---------------------------
(* The conductor of the simulator's crowd (loadgen/cmd/simulate/chaos.go):   *)
(* once a second it steps through steady, spike, lull and attack, and then   *)
(* stores the attack flag, the viral link and the crowd's size one after the *)
(* other, in atomics that the users read at any moment.                      *)
EXTENDS Integers

CONSTANTS
  Base,      \* -users
  Most,      \* -max-users: the number of users spawned
  Shortest,  \* the shortest phase, in seconds (10 in the code)
  Longest,   \* bound on the length of a phase (40 in the code)
  MaxLinks   \* bound on the settled links of the pool

VARIABLES
  phase, left, target,
  cur,     \* conductor.cur, rounded
  event,   \* the step just done has an event to report
  at,      \* conduct: "select", or what it stores next
  active, viral, attack,  \* the crowd's atomics
  links    \* the settled links of the pool: newest() is the last one

vars == <<phase, left, target, cur, event, at, active, viral, attack, links>>

Phases == {"steady", "spike", "lull", "attack"}
NoLink == 0
Smaller(a, b) == IF a < b THEN a ELSE b
Larger(a, b) == IF a > b THEN a ELSE b
clamp(v, lo, hi) == Larger(lo, Smaller(v, hi))

users(size) == clamp(size, 0, Most)

Init ==
  /\ phase = "steady" /\ left = 0 /\ target = Base /\ cur = Base /\ event = FALSE
  /\ at = "select" /\ active = Base /\ viral = NoLink /\ attack = FALSE /\ links = 0

------------------------------------------------------------------------------
(* step *)

(* Back to steady once no second is left. *)
Over == phase # "steady" /\ left <= 1
BackToSteady ==
  /\ Over
  /\ phase' = "steady" /\ target' = Base /\ left' = left - 1 /\ event' = TRUE

GoesOn ==
  /\ phase # "steady" /\ ~Over
  /\ left' = left - 1 /\ event' = FALSE
  /\ UNCHANGED <<phase, target>>

(* A phase starts from steady only, never in the second that ended another. *)
MayStart == phase = "steady"

StartPhase ==
  /\ MayStart
  /\ left' \in Shortest .. Longest /\ event' = TRUE
  /\ \/ phase' = "spike" /\ target' \in {Smaller(Base * k, Most) : k \in 3 .. 8}
     \/ phase' = "lull" /\ target' \in 0 .. Base \div 5
     \/ phase' = "attack" /\ target' = target

Drift ==
  /\ phase = "steady"
  /\ \E d \in -2 .. 2 : target' = clamp(target + d, Base \div 2, (Base * 3) \div 2)
  /\ event' = FALSE /\ UNCHANGED <<phase, left>>

(* cur eases toward target by a fifth or a half: rounded, it ends anywhere   *)
(* from where it was to the target.                                          *)
Eases == cur' \in Smaller(cur, target') .. Larger(cur, target')

(* A tick: the step, then what its event calls for. *)
Step ==
  /\ at = "select"
  /\ BackToSteady \/ GoesOn \/ StartPhase \/ Drift
  /\ Eases
  /\ at' = IF event' THEN "attack" ELSE "active"
  /\ UNCHANGED <<active, viral, attack, links>>

------------------------------------------------------------------------------
(* conduct *)

StoreAttack ==
  /\ at = "attack"
  /\ attack' = (phase = "attack") /\ at' = "viral"
  /\ UNCHANGED <<phase, left, target, cur, event, active, viral, links>>

(* Mutant: only a lull clears the viral link. *)
StoreViralOnly ==
  /\ at = "viral"
  /\ viral' = IF phase = "spike" /\ links # 0 THEN links
              ELSE IF phase = "lull" THEN NoLink ELSE viral
  /\ at' = "active"
  /\ UNCHANGED <<phase, left, target, cur, event, active, attack, links>>

(* A spike makes the newest settled link viral, if there is one; any other  *)
(* event clears it.                                                         *)
StoreViral ==
  /\ at = "viral"
  /\ viral' = IF phase # "spike" THEN NoLink ELSE IF links = 0 THEN viral ELSE links
  /\ at' = "active"
  /\ UNCHANGED <<phase, left, target, cur, event, active, attack, links>>

StoreActive ==
  /\ at = "active"
  /\ active' = users(cur) /\ at' = "select"
  /\ UNCHANGED <<phase, left, target, cur, event, viral, attack, links>>

(* A link of the pool comes of age. *)
Settles ==
  /\ links < MaxLinks
  /\ links' = links + 1
  /\ UNCHANGED <<phase, left, target, cur, event, at, active, viral, attack>>

Next == Step \/ StoreAttack \/ StoreViral \/ StoreActive \/ Settles

Spec == Init /\ [][Next]_vars

------------------------------------------------------------------------------
(* Properties *)

(* The variables have their types; no phase is longer than it was drawn, a   *)
(* viral link is one of the pool's, and the conductor asks for no user that  *)
(* was not spawned, even when the drift of a steady crowd leads above the    *)
(* cap.                                                                      *)
TypeOK ==
  /\ phase \in Phases /\ left \in 0 .. Longest /\ target \in Nat /\ cur \in Nat
  /\ at \in {"select", "attack", "viral", "active"} /\ event \in BOOLEAN
  /\ active \in 0 .. Larger(Base, Most) /\ viral \in 0 .. links /\ attack \in BOOLEAN

(* Whatever the phase went through, the flags never outlive it: between two  *)
(* ticks an attack is on exactly in the attack phase and a link is viral in  *)
(* a spike only.                                                             *)
FlagsFollowPhase ==
  TypeOK /\ (at = "select" => attack = (phase = "attack") /\ (viral # NoLink => phase = "spike"))
==============================================================================
