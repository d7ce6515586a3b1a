---------------------------- MODULE MCAnalytics ----------------------------
(***************************************************************************)
(* An instance of Analytics for TLC, and one of ClickTime, which justifies *)
(* that Analytics takes instants for numbers.                              *)
(***************************************************************************)
EXTENDS Naturals

CONSTANTS
  Clicked, MaxDay, NoDate, BadDate, Calls, MaxClicks, MaxStops,
  MaxSecond, Digits, Width

ASSUME DateAssumption == MaxDay \in Nat /\ {NoDate, BadDate} \cap Nat = {}

ASSUME BoundAssumption == {MaxClicks, MaxStops} \subseteq Nat

ASSUME TimeAssumption ==
  MaxSecond \in Nat /\ Width \in Nat /\ {0, 9} \subseteq Digits /\ Digits \subseteq 0..9

VARIABLES
  clicks, stream, offset, handled, process, stops,
  pc, query, total, last, daily, seen, result

Stats == INSTANCE Analytics
           WITH Codes <- Clicked, MaxLog <- MaxClicks, MaxFaults <- MaxStops,
                log <- stream, committed <- offset, applied <- handled, faults <- stops

Time == INSTANCE ClickTime

StatsSpec == Stats!Spec

(* Analytics': a row for every delivery of a click.                        *)
CountsDeliveries == Stats!CountsDeliveries

(* Analytics': what Stats answers is of the range that was asked for.      *)
TotalWithinDays == Stats!TotalWithinDays

(* ClickTime's: SQLite, which compares the texts, orders the instants.     *)
(* (There is no state in it: it is looked at where a behaviour begins.)    *)
TextsOrderInstants == Stats!Init => Time!TextsOrderInstants
============================================================================
