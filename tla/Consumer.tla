------------------------------ MODULE Consumer ------------------------------
(***************************************************************************)
(* The Kafka consumer of the resolver and of analytics                     *)
(* (services/platform-events/events/consumer.go): fetch, decode, handle,   *)
(* commit the offset, each Kafka call retried until it succeeds, the       *)
(* context ends or giveUp has passed; and the process around it, which     *)
(* exits when Run fails and, on shutdown, without waiting for Run.         *)
(*                                                                         *)
(* One partition of one topic and one member of its group.  The broker and *)
(* kafka-go are modelled from how Run uses them.  An offset here is the    *)
(* number of messages before it, so message i is committed at offset i.    *)
(***************************************************************************)
EXTENDS Naturals, Sequences

CONSTANTS
  GiveUp,      (* Consumer.giveUp, in ticks                                *)
  MaxLog,      (* bound: messages produced                                 *)
  MaxFaults    (* bound: outages, rebalances, crashes, shutdowns, failures *)
               (* of the handler, together                                 *)

ASSUME ConsumerAssumption ==
  GiveUp \in Nat \ {0} /\ MaxLog \in Nat /\ MaxFaults \in Nat

(* "poison" does not decode; "bad" decodes, but the handler refuses it     *)
(* every time (a ShortURLCreated without a code).                          *)
Message == {"good", "poison", "bad"}

VARIABLES
  log,         (* the partition                                            *)
  committed,   (* the group's offset at the broker                         *)
  broker,      (* "up" or "down"                                           *)
  pc,          (* where Run stands; "down": there is no process            *)
  cancelled,   (* ctx of Run has ended                                     *)
  position,    (* the reader's place in the partition                      *)
  msg,         (* the message in hand, 0 for none                          *)
  waited,      (* ticks since start of the present retry, up to GiveUp     *)
  err,         (* what Run returned                                        *)
  faults,      (* faults so far                                            *)
  applied,     (* how often the handler took effect on each message        *)
  outage,      (* ticks since the present retry first failed, up to GiveUp *)
  failing,     (* the present retry has failed                             *)
  hits,        (* faults that cost each message another delivery           *)
  exits        (* the same, for main returning while Run was at work       *)

again == <<hits, exits>>

kafkaVars == <<log, committed, broker>>

ghosts == <<applied, outage, failing, again>>

vars == <<kafkaVars, pc, cancelled, position, msg, waited, err, faults, ghosts>>

Init ==
  /\ log = <<>>
  /\ committed = 0
  /\ broker = "up"
  /\ pc = "fetch"
  /\ cancelled = FALSE
  /\ position = 0
  /\ msg = 0
  /\ waited = 0
  /\ err = "none"
  /\ faults = 0
  /\ applied = [i \in 1..MaxLog |-> 0]
  /\ outage = 0
  /\ failing = FALSE
  /\ hits = [i \in 1..MaxLog |-> 0]
  /\ exits = [i \in 1..MaxLog |-> 0]

Fault == faults < MaxFaults /\ faults' = faults + 1

(* The message in hand is not committed, and the reader is past it: if the *)
(* reader now goes back to the group's offset, it is delivered again.      *)
InHand ==
  /\ pc \in {"decode", "handle", "commit", "commitWait", "finalCommit"}
  /\ committed < msg /\ msg <= position

(* It has been applied as well.                                            *)
Uncommitted ==
  InHand /\ log[msg] = "good" /\ pc \in {"commit", "commitWait", "finalCommit"}

Hit(count, cond) == IF cond THEN [count EXCEPT ![msg] = @ + 1] ELSE count

----------------------------------------------------------------------------
(* retry: a fresh clock, a failed attempt, the end of the wait.            *)

StartRetry == waited' = 0 /\ outage' = 0 /\ failing' = FALSE

KeepClock == UNCHANGED <<waited, outage, failing>>

(* Mutant: retry for ever.                                                 *)
NeverGivesUp == FALSE

PastGiveUp == waited >= GiveUp

(* Time passes while Run is in a Kafka call or between two attempts.       *)
Tick ==
  /\ pc \in {"fetch", "fetchWait", "commit", "commitWait"}
  /\ waited < GiveUp \/ (failing /\ outage < GiveUp)
  /\ waited' = IF waited < GiveUp THEN waited + 1 ELSE waited
  /\ outage' = IF failing /\ outage < GiveUp THEN outage + 1 ELSE outage
  /\ UNCHANGED <<kafkaVars, pc, cancelled, position, msg, err, faults, failing,
                 applied, again>>

(* The end of a wait: another attempt.                                     *)
WaitOver ==
  /\ \/ pc = "fetchWait" /\ pc' = "fetch"
     \/ pc = "commitWait" /\ pc' = "commit"
  /\ KeepClock
  /\ UNCHANGED <<kafkaVars, cancelled, position, msg, err, faults, applied, again>>

----------------------------------------------------------------------------
(* Run.                                                                    *)

(* FetchMessage returns the next message; after the retry, done(ctx).      *)
Fetched ==
  /\ pc = "fetch"
  /\ broker = "up"
  /\ position < Len(log)
  /\ IF cancelled
     THEN pc' = "returned" /\ UNCHANGED <<position, msg>>
     ELSE pc' = "decode" /\ position' = position + 1 /\ msg' = position + 1
  /\ KeepClock
  /\ UNCHANGED <<kafkaVars, cancelled, err, faults, applied, again>>

FetchFails ==
  /\ pc = "fetch"
  /\ broker = "down" \/ cancelled
  /\ failing' = TRUE
  /\ \/ cancelled /\ pc' = "returned" /\ UNCHANGED err
     \/ ~cancelled /\ PastGiveUp /\ pc' = "returned" /\ err' = "fetch"
     \/ ~cancelled /\ ~PastGiveUp /\ pc' = "fetchWait" /\ UNCHANGED err
  /\ UNCHANGED <<kafkaVars, cancelled, position, msg, waited, outage, faults,
                 applied, again>>

(* The wait for the next fetch is cut short by shutdown.                   *)
FetchCancelled ==
  /\ pc = "fetchWait" /\ cancelled
  /\ pc' = "returned"
  /\ KeepClock
  /\ UNCHANGED <<kafkaVars, cancelled, position, msg, err, faults, applied, again>>

(* Mutants: an undecodable message ends Run; it is skipped uncommitted.    *)
DecodeStops ==
  /\ pc = "decode"
  /\ IF log[msg] = "poison" THEN pc' = "returned" ELSE pc' = "handle"
  /\ StartRetry
  /\ UNCHANGED <<kafkaVars, cancelled, position, msg, err, faults, applied, again>>

DecodeSkips ==
  /\ pc = "decode"
  /\ IF log[msg] = "poison" THEN pc' = "fetch" ELSE pc' = "handle"
  /\ StartRetry
  /\ UNCHANGED <<kafkaVars, cancelled, position, msg, err, faults, applied, again>>

(* A message that does not decode is committed without being handled.      *)
Decode ==
  /\ pc = "decode"
  /\ IF log[msg] = "poison" THEN pc' = "commit" ELSE pc' = "handle"
  /\ StartRetry
  /\ UNCHANGED <<kafkaVars, cancelled, position, msg, err, faults, applied, again>>

Handled ==
  /\ pc = "handle"
  /\ log[msg] = "good"
  /\ pc' = "commit"
  /\ applied' = [applied EXCEPT ![msg] = @ + 1]
  /\ StartRetry
  /\ UNCHANGED <<kafkaVars, cancelled, position, msg, err, faults, again>>

(* The handler fails, its database write done or not.                      *)
HandlerFails ==
  /\ pc = "handle"
  /\ pc' = "returned"
  /\ err' = "handler"
  /\ \/ /\ log[msg] = "bad"
        /\ UNCHANGED <<faults, applied, hits>>
     \/ /\ log[msg] = "good"
        /\ Fault
        /\ \/ UNCHANGED <<applied, hits>>
           \/ /\ applied' = [applied EXCEPT ![msg] = @ + 1]
              /\ hits' = Hit(hits, InHand)
  /\ KeepClock
  /\ UNCHANGED <<kafkaVars, cancelled, position, msg, exits>>

(* The offset is committed; then done(ctx), or the next fetch.             *)
CommitOk ==
  /\ pc = "commit"
  /\ broker = "up"
  /\ committed' = msg
  /\ msg' = 0
  /\ IF cancelled THEN pc' = "returned" ELSE pc' = "fetch"
  /\ StartRetry
  /\ UNCHANGED <<log, broker, cancelled, position, err, faults, applied, again>>

(* A failed attempt: the last one before shutdown's, the last one of all,  *)
(* or one to repeat.                                                       *)
AfterFailedCommit ==
  \/ cancelled /\ pc' = "finalCommit" /\ UNCHANGED <<err, hits>>
  \/ /\ ~cancelled /\ PastGiveUp
     /\ pc' = "returned" /\ err' = "commit" /\ hits' = Hit(hits, Uncommitted)
  \/ ~cancelled /\ ~PastGiveUp /\ pc' = "commitWait" /\ UNCHANGED <<err, hits>>

CommitFails ==
  /\ pc = "commit"
  /\ broker = "down" \/ cancelled
  /\ failing' = TRUE
  /\ AfterFailedCommit
  /\ UNCHANGED <<kafkaVars, cancelled, position, msg, waited, outage, faults, applied, exits>>

(* The broker takes the offset, and goes down before it says so.           *)
CommitLost ==
  /\ pc = "commit"
  /\ broker = "up"
  /\ Fault
  /\ committed' = msg
  /\ broker' = "down"
  /\ failing' = TRUE
  /\ AfterFailedCommit
  /\ UNCHANGED <<log, cancelled, position, msg, waited, outage, applied, exits>>

(* Mutant: shutdown ends a commit retry without one more attempt.          *)
CommitAbandoned ==
  /\ pc = "commitWait" /\ cancelled
  /\ pc' = "returned"
  /\ KeepClock
  /\ UNCHANGED <<kafkaVars, cancelled, position, msg, err, faults, applied, again>>

CommitCancelled ==
  /\ pc = "commitWait" /\ cancelled
  /\ pc' = "finalCommit"
  /\ KeepClock
  /\ UNCHANGED <<kafkaVars, cancelled, position, msg, err, faults, applied, again>>

(* Shutdown's one attempt, on a deadline of its own; Run returns nil.      *)
FinalCommit ==
  /\ pc = "finalCommit"
  /\ \/ broker = "up" /\ committed' = msg /\ UNCHANGED hits
     \/ broker = "down" /\ hits' = Hit(hits, Uncommitted) /\ UNCHANGED committed
  /\ pc' = "returned"
  /\ KeepClock
  /\ UNCHANGED <<log, broker, cancelled, position, msg, err, faults, applied, exits>>

Run ==
  \/ WaitOver
  \/ Fetched \/ FetchFails \/ FetchCancelled
  \/ Decode
  \/ Handled \/ HandlerFails
  \/ CommitOk \/ CommitFails \/ CommitLost \/ CommitCancelled \/ FinalCommit

----------------------------------------------------------------------------
(* The process.                                                            *)

(* SIGTERM ends ctx.                                                       *)
Shutdown ==
  /\ pc # "down" /\ ~cancelled
  /\ Fault
  /\ cancelled' = TRUE
  /\ UNCHANGED <<kafkaVars, pc, position, msg, waited, err, ghosts>>

(* main returns: Run did, or ctx has ended and the servers have stopped.   *)
MainReturns ==
  /\ pc = "returned" \/ (cancelled /\ pc # "down")
  /\ pc' = "down"
  /\ exits' = Hit(exits, Uncommitted)
  /\ UNCHANGED <<kafkaVars, cancelled, position, msg, waited, err, faults, applied,
                 outage, failing, hits>>

(* The process dies.                                                       *)
Crash ==
  /\ pc # "down"
  /\ Fault
  /\ pc' = "down"
  /\ hits' = Hit(hits, Uncommitted)
  /\ UNCHANGED <<kafkaVars, cancelled, position, msg, waited, err, applied, outage,
                 failing, exits>>

(* Mutant: the reader goes on where the old one had got to.                *)
RestartWhereItWas ==
  /\ pc = "down"
  /\ pc' = "fetch"
  /\ cancelled' = FALSE
  /\ msg' = 0
  /\ err' = "none"
  /\ StartRetry
  /\ UNCHANGED <<kafkaVars, position, faults, applied, again>>

(* The pod is started again; its reader begins at the group's offset.      *)
Restart ==
  /\ pc = "down"
  /\ pc' = "fetch"
  /\ cancelled' = FALSE
  /\ position' = committed
  /\ msg' = 0
  /\ err' = "none"
  /\ StartRetry
  /\ UNCHANGED <<kafkaVars, faults, applied, again>>

----------------------------------------------------------------------------
(* The broker.                                                             *)

Produce(m) ==
  /\ Len(log) < MaxLog
  /\ log' = Append(log, m)
  /\ UNCHANGED <<committed, broker, pc, cancelled, position, msg, waited, err, faults,
                 ghosts>>

BrokerDown ==
  /\ broker = "up"
  /\ Fault
  /\ broker' = "down"
  /\ UNCHANGED <<log, committed, pc, cancelled, position, msg, waited, err, ghosts>>

BrokerUp ==
  /\ broker = "down"
  /\ broker' = "up"
  /\ UNCHANGED <<log, committed, pc, cancelled, position, msg, waited, err, faults, ghosts>>

(* A new generation of the group: the reader goes back to the group's      *)
(* offset, while Run may still hold a message of the old one.              *)
Rebalance ==
  /\ broker = "up" /\ pc # "down"
  /\ Fault
  /\ position' = committed
  /\ hits' = Hit(hits, InHand)
  /\ UNCHANGED <<kafkaVars, pc, cancelled, msg, waited, err, applied, outage, failing,
                 exits>>

(* Everything consumed, and nothing more to come.                          *)
Idle ==
  /\ pc = "fetch"
  /\ committed = MaxLog
  /\ UNCHANGED vars

Next ==
  \/ Run
  \/ Tick
  \/ Shutdown \/ MainReturns \/ Crash \/ Restart
  \/ \E m \in Message : Produce(m)
  \/ BrokerDown \/ BrokerUp \/ Rebalance
  \/ Idle

Spec == Init /\ [][Next]_vars

(* The goroutine runs, time passes, main returns and the pod is restarted. *)
(* Nothing is assumed of the broker.                                       *)
FairSpec == Spec /\ WF_vars(Run) /\ WF_vars(Tick) /\ WF_vars(MainReturns) /\ WF_vars(Restart)

----------------------------------------------------------------------------
(* The variables have their types, the counters their bounds, and the      *)
(* reader is never ahead of the message in hand (so one message at most    *)
(* is delivered and not committed).                                        *)
TypeOK ==
  /\ log \in Seq(Message) /\ Len(log) <= MaxLog
  /\ committed \in 0..Len(log)
  /\ broker \in {"up", "down"}
  /\ pc \in {"fetch", "fetchWait", "decode", "handle", "commit", "commitWait",
             "finalCommit", "returned", "down"}
  /\ cancelled \in BOOLEAN
  /\ position \in 0..Len(log) /\ position <= committed + 1
  /\ msg \in 0..Len(log)
  /\ pc \in {"decode", "handle", "commit", "commitWait", "finalCommit"} => msg > 0
  /\ waited \in 0..GiveUp /\ outage \in 0..waited
  /\ err \in {"none", "fetch", "handler", "commit"}
  /\ faults \in 0..MaxFaults
  /\ applied \in [1..MaxLog -> 0..(1 + MaxFaults)]
  /\ failing \in BOOLEAN
  /\ hits \in [1..MaxLog -> 0..MaxFaults]
  /\ exits \in [1..MaxLog -> 0..MaxFaults]

(* The handler applies a message again only when a fault of the broker,    *)
(* the handler or the process, or main's return, came between its delivery *)
(* and its commit: neither a commit retried nor one made at shutdown costs *)
(* a second application.                                                   *)
AppliedOncePerFault ==
  TypeOK /\ \A i \in 1..MaxLog : applied[i] <= 1 + hits[i] + exits[i]

(* Once the broker stays up, every message is committed, unless one is     *)
(* before it that the handler refuses: poison blocks nothing.              *)
Passable(i) == i <= Len(log) /\ \A j \in 1..i : log[j] # "bad"

EventuallyCommitted ==
  <>[](broker = "up") =>
    \A i \in 1..MaxLog : Passable(i) ~> committed >= i

(* A broker that never comes back keeps ending Run with an error, so that  *)
(* the fault shows (consumer_test.go, GivesUpOnPermanentFetchError).       *)
OutageShows == <>[](broker = "down") => []<>(err = "fetch")

(* Run, with retries, faults and restarts, delivers as a topic is to:      *)
(* the offset moves by one message at a time, past none that was not       *)
(* handled or cannot be decoded, and no message is handled ahead of it.    *)
D == INSTANCE Delivery WITH
       Messages <- Message, Poison <- {"poison"}, Refused <- {"bad"}

InOrderAtLeastOnce == D!Spec

(* What consumer.go 55-56 and 147-151 say: Run gives up on fetching only   *)
(* when fetches have failed, without a break, for giveUp.                  *)
GivesUpOnlyAfterOutage == err = "fetch" => outage >= GiveUp

(* What consumer.go 60-64 and consumer_test.go 259-260 want: a shutdown    *)
(* with no other fault does not make a message be applied twice.           *)
ShutdownAppliesOnce ==
  \A i \in 1..MaxLog : applied[i] <= 1 + hits[i]
============================================================================
