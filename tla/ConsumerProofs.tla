--------------------------- MODULE ConsumerProofs ---------------------------
(***************************************************************************)
(* Safety of the consumer for any log, any number of faults and any        *)
(* giveUp: its offset is kept as Delivery promises, and the handler is     *)
(* applied to a message once more only for a fault that cost a delivery.   *)
(***************************************************************************)
EXTENDS Consumer, TLAPS

(* The process has a reader.                                               *)
Running == pc \notin {"returned", "down"}

(* A message is in hand.                                                   *)
InMessage == pc \in {"decode", "handle", "commit", "commitWait", "finalCommit"}

(* The message in hand is handled or skipped, and not yet committed.       *)
AtCommit == pc \in {"commit", "commitWait", "finalCommit"}

(* The reader, the message in hand and the group's offset are never more   *)
(* than one apart, and what is to be committed is done with.               *)
ReaderInv ==
  /\ pc \in {"fetch", "fetchWait"} => position <= committed /\ committed <= position + 1
  /\ InMessage =>
       /\ msg > 0
       /\ committed <= msg /\ msg <= committed + 1
       /\ position <= msg /\ msg <= position + 1
  /\ AtCommit => log[msg] = "poison" \/ applied[msg] > 0
  /\ \A i \in 1..MaxLog : applied[i] > 0 => i <= Len(log) /\ log[i] = "good"

(* A condition as a number.                                                *)
Bit(b) == IF b THEN 1 ELSE 0

(* The message is still to be fetched, by this process or by the next.     *)
ToFetch(i) == Bit(IF Running THEN i > position ELSE i > committed)

(* The message is fetched and not yet handled.                             *)
ToHandle(i) == Bit(pc \in {"decode", "handle"} /\ i = msg)

(* Applications made, and those still owed, are covered by one delivery    *)
(* and the faults that cost another.                                       *)
CountInv(i) == applied[i] + ToFetch(i) + ToHandle(i) <= 1 + hits[i] + exits[i]

(* Each of those has a fault of its own; a shutdown and an outage that     *)
(* have not yet cost one may still do so.                                  *)
FaultInv(i) ==
  hits[i] + exits[i] + Bit(cancelled /\ pc # "down") + Bit(broker = "down" /\ InMessage)
    <= faults

(* The types of the variables, without the bounds that the counts give.    *)
Typing ==
  /\ log \in Seq(Message) /\ Len(log) <= MaxLog
  /\ committed \in 0..Len(log)
  /\ broker \in {"up", "down"}
  /\ pc \in {"fetch", "fetchWait", "decode", "handle", "commit", "commitWait",
             "finalCommit", "returned", "down"}
  /\ cancelled \in BOOLEAN
  /\ position \in 0..Len(log) /\ position <= committed + 1
  /\ msg \in 0..Len(log)
  /\ waited \in 0..GiveUp /\ outage \in 0..waited
  /\ err \in {"none", "fetch", "handler", "commit"}
  /\ faults \in 0..MaxFaults
  /\ failing \in BOOLEAN
  /\ applied \in [1..MaxLog -> Nat]
  /\ hits \in [1..MaxLog -> Nat]
  /\ exits \in [1..MaxLog -> Nat]

(* The inductive invariant: an application too many cannot be told from    *)
(* the counters of TypeOK alone.                                           *)
Inv == Typing /\ ReaderInv /\ \A i \in 1..MaxLog : CountInv(i) /\ FaultInv(i)
----------------------------------------------------------------------------
(* The counts bound the counters of TypeOK.                                *)
LEMMA InvTypeOK == Inv => TypeOK
  <1> SUFFICES ASSUME Inv PROVE TypeOK
    OBVIOUS
  <1>1. ASSUME NEW i \in 1..MaxLog
        PROVE  /\ applied[i] \in 0..(1 + MaxFaults)
               /\ hits[i] \in 0..MaxFaults
               /\ exits[i] \in 0..MaxFaults
    <2>1. /\ applied[i] \in Nat /\ hits[i] \in Nat /\ exits[i] \in Nat
          /\ faults \in Nat /\ faults <= MaxFaults /\ MaxFaults \in Nat
      BY ConsumerAssumption DEF Inv, Typing
    <2>2. hits[i] + exits[i] <= faults
      BY <2>1 DEF Inv, FaultInv, Bit
    <2>3. applied[i] <= 1 + hits[i] + exits[i]
      BY <2>1 DEF Inv, CountInv, ToFetch, ToHandle, Bit
    <2> QED
      BY <2>1, <2>2, <2>3
  <1>2. InMessage => msg > 0
    BY DEF Inv, ReaderInv
  <1> QED
    BY <1>1, <1>2 DEF Inv, Typing, TypeOK, InMessage

(* An empty log and a process that starts satisfy the invariant.           *)
LEMMA InitInv == Init => Inv
  <1> SUFFICES ASSUME Init PROVE Inv
    OBVIOUS
  <1>1. Typing
    <2>1. /\ log \in Seq(Message) /\ Len(log) = 0 /\ MaxLog \in Nat
          /\ committed = 0 /\ position = 0 /\ msg = 0
          /\ waited = 0 /\ outage = 0 /\ faults = 0
      BY ConsumerAssumption DEF Init
    <2>2. /\ applied \in [1..MaxLog -> Nat]
          /\ hits \in [1..MaxLog -> Nat]
          /\ exits \in [1..MaxLog -> Nat]
      BY DEF Init
    <2>3. /\ Len(log) <= MaxLog /\ committed \in 0..Len(log)
          /\ position \in 0..Len(log) /\ position <= committed + 1
          /\ msg \in 0..Len(log)
          /\ waited \in 0..GiveUp /\ outage \in 0..waited /\ faults \in 0..MaxFaults
      BY <2>1, ConsumerAssumption
    <2>4. /\ broker = "up" /\ pc = "fetch" /\ err = "none"
          /\ cancelled \in BOOLEAN /\ failing \in BOOLEAN
      BY DEF Init
    <2> QED
      BY <2>1, <2>2, <2>3, <2>4 DEF Typing
  <1>2. ReaderInv
    BY DEF Init, ReaderInv, InMessage, AtCommit
  <1>3. ASSUME NEW i \in 1..MaxLog
        PROVE  CountInv(i) /\ FaultInv(i)
    BY <1>3 DEF Init, CountInv, FaultInv, ToFetch, ToHandle, Bit, InMessage
  <1> QED
    BY <1>1, <1>2, <1>3 DEF Inv

(* A count is one higher for the message in hand, and that only.           *)
LEMMA HitCounts ==
  ASSUME Typing, NEW f \in [1..MaxLog -> Nat], NEW cond \in BOOLEAN, cond => msg > 0
  PROVE  /\ Hit(f, cond) \in [1..MaxLog -> Nat]
         /\ \A i \in 1..MaxLog : Hit(f, cond)[i] = f[i] + Bit(cond /\ i = msg)
  <1>1. cond => msg \in 1..MaxLog
    BY ConsumerAssumption DEF Typing
  <1>2. CASE cond
    BY <1>1, <1>2 DEF Hit, Bit
  <1>3. CASE ~cond
    BY <1>3 DEF Hit, Bit
  <1> QED
    BY <1>2, <1>3

(* The numbers a step computes with.                                       *)
LEMMA Numbers ==
  ASSUME Inv
  PROVE  /\ committed \in Nat /\ position \in Nat /\ msg \in Nat /\ faults \in Nat
         /\ \A i \in 1..MaxLog :
              i \in Nat /\ applied[i] \in Nat /\ hits[i] \in Nat /\ exits[i] \in Nat
         /\ InMessage => msg \in 1..MaxLog
  <1>1. /\ Len(log) \in Nat /\ Len(log) <= MaxLog /\ MaxLog \in Nat
        /\ committed \in 0..Len(log) /\ position \in 0..Len(log) /\ msg \in 0..Len(log)
    BY ConsumerAssumption DEF Inv, Typing
  <1>2. committed \in Nat /\ position \in Nat /\ msg \in Nat
    BY <1>1
  <1>3. faults \in Nat
    BY ConsumerAssumption DEF Inv, Typing
  <1>4. \A i \in 1..MaxLog :
          i \in Nat /\ applied[i] \in Nat /\ hits[i] \in Nat /\ exits[i] \in Nat
    BY DEF Inv, Typing
  <1>5. InMessage => msg \in 1..MaxLog
    BY <1>1 DEF Inv, ReaderInv
  <1> QED
    BY <1>2, <1>3, <1>4, <1>5

(* The two kinds of counter a step sets.                                   *)
LEMMA CounterSteps ==
  ASSUME Inv
  PROVE  /\ Fault => faults' = faults + 1 /\ faults' \in 0..MaxFaults
         /\ StartRetry =>
              waited' \in 0..GiveUp /\ outage' \in 0..waited' /\ failing' \in BOOLEAN
  <1>1. faults \in Nat /\ MaxFaults \in Nat
    BY ConsumerAssumption DEF Inv, Typing
  <1>2. Fault => faults' = faults + 1 /\ faults' \in 0..MaxFaults
    <2>1. faults < MaxFaults => faults + 1 \in 0..MaxFaults
      BY <1>1
    <2> QED
      BY <2>1 DEF Fault
  <1>3. 0 \in 0..GiveUp /\ 0 \in 0..0
    BY ConsumerAssumption
  <1> QED
    BY <1>2, <1>3 DEF StartRetry

(* A step that leaves the reader's place and the counts alone, and stays   *)
(* between the same calls of Run.                                          *)
SameReader ==
  /\ UNCHANGED <<log, committed, position, msg, applied, again>>
  /\ (Running' <=> Running) /\ (InMessage' <=> InMessage)
  /\ (pc' \in {"decode", "handle"} <=> pc \in {"decode", "handle"})
  /\ pc' \in {"fetch", "fetchWait"} => pc \in {"fetch", "fetchWait"}
  /\ AtCommit' => AtCommit

(* A step that leaves the reader and the counters alone keeps what is said *)
(* of them.                                                                *)
LEMMA SameReaderKeeps ==
  ASSUME Inv, SameReader
  PROVE  ReaderInv' /\ \A i \in 1..MaxLog : CountInv(i)'
  <1>1. ReaderInv'
    BY DEF Inv, ReaderInv, SameReader
  <1>2. ASSUME NEW i \in 1..MaxLog
        PROVE  CountInv(i)'
    BY DEF Inv, CountInv, ToFetch, ToHandle, SameReader, again
  <1> QED
    BY <1>1, <1>2

(* The pause before the next attempt ends.                                 *)
LEMMA WaitOverInv ==
  ASSUME Inv, WaitOver
  PROVE  Inv'
  <1> USE DEF WaitOver, KeepClock, kafkaVars, again
  <1>1. Typing'
    BY DEF Inv, Typing
  <1>2. SameReader
    BY DEF SameReader, Running, InMessage, AtCommit
  <1>3. ASSUME NEW i \in 1..MaxLog
        PROVE  FaultInv(i)'
    BY DEF Inv, FaultInv, InMessage
  <1> QED
    BY <1>1, <1>2, <1>3, SameReaderKeeps DEF Inv

(* The clock of the retries moves.                                         *)
LEMMA TickInv ==
  ASSUME Inv, Tick
  PROVE  Inv'
  <1> USE DEF Tick, kafkaVars, again
  <1>1. Typing'
    <2>1. waited' \in 0..GiveUp /\ outage' \in 0..waited'
      BY ConsumerAssumption DEF Inv, Typing
    <2> QED
      BY <2>1 DEF Inv, Typing
  <1>2. SameReader
    BY DEF SameReader, Running, InMessage, AtCommit
  <1>3. ASSUME NEW i \in 1..MaxLog
        PROVE  FaultInv(i)'
    BY DEF Inv, FaultInv, InMessage
  <1> QED
    BY <1>1, <1>2, <1>3, SameReaderKeeps DEF Inv

(* The broker goes away, which is a fault, or comes back.                  *)
LEMMA BrokerInv ==
  ASSUME Inv, BrokerDown \/ BrokerUp
  PROVE  Inv'
  <1> USE DEF BrokerDown, BrokerUp, ghosts, again
  <1>1. Typing'
    BY CounterSteps DEF Inv, Typing
  <1>2. SameReader
    BY DEF SameReader, Running, InMessage, AtCommit
  <1>3. ASSUME NEW i \in 1..MaxLog
        PROVE  FaultInv(i)'
    BY Numbers, CounterSteps DEF Inv, FaultInv, InMessage, Bit
  <1> QED
    BY <1>1, <1>2, <1>3, SameReaderKeeps DEF Inv

(* A shutdown is a fault that has yet to cost a delivery.                  *)
LEMMA ShutdownInv ==
  ASSUME Inv, Shutdown
  PROVE  Inv'
  <1> USE DEF Shutdown, ghosts, again, kafkaVars
  <1>1. Typing'
    BY CounterSteps DEF Inv, Typing
  <1>2. SameReader
    BY DEF SameReader, Running, InMessage, AtCommit
  <1>3. ASSUME NEW i \in 1..MaxLog
        PROVE  FaultInv(i)'
    BY Numbers, CounterSteps DEF Inv, FaultInv, InMessage, Bit
  <1> QED
    BY <1>1, <1>2, <1>3, SameReaderKeeps DEF Inv

(* The next message is in hand, or Run returns.                            *)
LEMMA FetchedInv ==
  ASSUME Inv, Fetched
  PROVE  Inv'
  <1> USE DEF Fetched, KeepClock, kafkaVars, again
  <1>0. Len(log) \in Nat /\ Len(log) <= MaxLog /\ committed <= Len(log)
    BY DEF Inv, Typing
  <1>1. /\ position <= committed /\ committed <= position + 1
        /\ ~AtCommit' /\ pc' \notin {"fetch", "fetchWait"}
    BY DEF Inv, ReaderInv, AtCommit
  <1>2. Typing'
    <2>1. position' \in 0..Len(log) /\ position' <= committed + 1 /\ msg' \in 0..Len(log)
      BY <1>0, <1>1, Numbers DEF Inv, Typing
    <2> QED
      BY <2>1 DEF Inv, Typing
  <1>3. ReaderInv'
    BY <1>1, Numbers DEF Inv, ReaderInv, InMessage
  <1>4. ASSUME NEW i \in 1..MaxLog
        PROVE  CountInv(i)'
    <2>1. /\ ToFetch(i) = Bit(i > position) /\ ToHandle(i) = 0
          /\ UNCHANGED <<applied, hits, exits>>
      BY DEF ToFetch, ToHandle, Running, Bit
    <2>2. ToFetch(i)' + ToHandle(i)' <= Bit(i > position)
      <3>1. CASE cancelled
        BY <1>1, <3>1, Numbers DEF ToFetch, ToHandle, Running, Bit
      <3>2. CASE ~cancelled
        BY <3>2, Numbers DEF ToFetch, ToHandle, Running, Bit
      <3> QED
        BY <3>1, <3>2
    <2> QED
      BY <2>1, <2>2, Numbers DEF Inv, CountInv, ToFetch, ToHandle, Bit
  <1>5. ASSUME NEW i \in 1..MaxLog
        PROVE  FaultInv(i)'
    BY DEF Inv, FaultInv, InMessage
  <1> QED
    BY <1>2, <1>3, <1>4, <1>5 DEF Inv

(* A fetch that fails pauses, gives up or ends with the context.           *)
LEMMA FetchFailsInv ==
  ASSUME Inv, FetchFails \/ FetchCancelled
  PROVE  Inv'
  <1> USE DEF FetchFails, FetchCancelled, KeepClock, kafkaVars, again
  <1>1. /\ position <= committed /\ pc \in {"fetch", "fetchWait"}
        /\ pc' \in {"fetchWait", "returned"}
        /\ UNCHANGED <<log, committed, position, msg, applied, hits, exits, faults,
                       cancelled, broker>>
    BY DEF Inv, ReaderInv
  <1>2. Typing'
    BY DEF Inv, Typing
  <1>3. ReaderInv'
    BY <1>1 DEF Inv, ReaderInv, InMessage, AtCommit
  <1>4. ASSUME NEW i \in 1..MaxLog
        PROVE  CountInv(i)'
    BY <1>1, Numbers DEF Inv, CountInv, ToFetch, ToHandle, Running, Bit
  <1>5. ASSUME NEW i \in 1..MaxLog
        PROVE  FaultInv(i)'
    BY <1>1 DEF Inv, FaultInv, InMessage
  <1> QED
    BY <1>2, <1>3, <1>4, <1>5 DEF Inv

(* A message that does not decode goes straight to its commit.             *)
LEMMA DecodeInv ==
  ASSUME Inv, Decode
  PROVE  Inv'
  <1> USE DEF Decode, kafkaVars, again
  <1>1. /\ pc = "decode" /\ pc' \in {"commit", "handle"}
        /\ pc' = "commit" => log[msg] = "poison"
        /\ UNCHANGED <<log, committed, position, msg, applied, hits, exits, faults,
                       cancelled, broker>>
    OBVIOUS
  <1>2. Typing'
    BY CounterSteps DEF Inv, Typing
  <1>3. ReaderInv'
    BY <1>1 DEF Inv, ReaderInv, InMessage, AtCommit
  <1>4. ASSUME NEW i \in 1..MaxLog
        PROVE  CountInv(i)'
    BY <1>1, Numbers DEF Inv, CountInv, ToFetch, ToHandle, Running, Bit
  <1>5. ASSUME NEW i \in 1..MaxLog
        PROVE  FaultInv(i)'
    BY <1>1 DEF Inv, FaultInv, InMessage
  <1> QED
    BY <1>2, <1>3, <1>4, <1>5 DEF Inv
----------------------------------------------------------------------------
(* When Run or the process stops, a message is owed once more only if it   *)
(* was in hand, past the handler, and not committed.                       *)
LEMMA StoppingOwes ==
  ASSUME Inv, pc' \in {"returned", "down"}, committed' = committed, NEW i \in 1..MaxLog
  PROVE  /\ ToFetch(i)' \in {0, 1} /\ ToHandle(i)' = 0
         /\ ToFetch(i)' <= ToFetch(i) + ToHandle(i) + Bit(InHand /\ AtCommit /\ i = msg)
  <1>1. ToHandle(i)' = 0 /\ ToFetch(i)' = Bit(i > committed)
    BY DEF ToHandle, ToFetch, Running, Bit
  <1>2. ToFetch(i) \in {0, 1} /\ ToHandle(i) \in {0, 1}
    BY DEF ToHandle, ToFetch, Bit
  <1>3. CASE i <= committed
    BY <1>1, <1>2, <1>3, Numbers DEF Bit
  <1>4. CASE i > committed /\ ~Running
    BY <1>1, <1>2, <1>4, Numbers DEF ToFetch, Bit
  <1>5. CASE i > committed /\ Running
    <2>1. CASE i > position
      BY <1>1, <1>2, <1>5, <2>1, Numbers DEF ToFetch, Bit
    <2>2. CASE i <= position
      <3>1. pc \notin {"fetch", "fetchWait"}
        BY <1>5, <2>2, Numbers DEF Inv, ReaderInv
      <3>2. InMessage
        BY <1>5, <3>1 DEF Running, InMessage, Inv, Typing
      <3>3. i = msg /\ InHand
        BY <1>5, <2>2, <3>2, Numbers DEF Inv, ReaderInv, InHand, InMessage
      <3>4. AtCommit \/ ToHandle(i) = 1
        BY <3>2, <3>3 DEF AtCommit, InMessage, ToHandle, Bit
      <3> QED
        BY <1>1, <1>2, <3>3, <3>4 DEF Bit
    <2> QED
      BY <2>1, <2>2, Numbers
  <1> QED
    BY <1>3, <1>4, <1>5, Numbers

(* ... and one of the two counts has it, if it was applied.                *)
LEMMA StoppingCounts ==
  ASSUME Inv, pc' \in {"returned", "down"}, UNCHANGED <<committed, log, applied>>,
         \/ hits' = Hit(hits, Uncommitted) /\ exits' = exits
         \/ exits' = Hit(exits, Uncommitted) /\ hits' = hits,
         NEW i \in 1..MaxLog
  PROVE  CountInv(i)'
  <1>1. /\ hits'[i] + exits'[i] = hits[i] + exits[i] + Bit(Uncommitted /\ i = msg)
        /\ hits'[i] \in Nat /\ exits'[i] \in Nat
    <2>0. Bit(Uncommitted /\ i = msg) \in {0, 1}
      BY DEF Bit
    <2>1. /\ hits \in [1..MaxLog -> Nat] /\ exits \in [1..MaxLog -> Nat]
          /\ Uncommitted \in BOOLEAN /\ (Uncommitted => msg > 0)
      BY Numbers DEF Inv, Typing, Uncommitted, InHand
    <2>2. CASE hits' = Hit(hits, Uncommitted) /\ exits' = exits
      <3>1. hits'[i] = hits[i] + Bit(Uncommitted /\ i = msg) /\ exits'[i] = exits[i]
        BY <2>1, <2>2, HitCounts DEF Inv
      <3> QED
        BY <2>0, <3>1, Numbers
    <2>3. CASE exits' = Hit(exits, Uncommitted) /\ hits' = hits
      <3>1. exits'[i] = exits[i] + Bit(Uncommitted /\ i = msg) /\ hits'[i] = hits[i]
        BY <2>1, <2>3, HitCounts DEF Inv
      <3> QED
        BY <2>0, <3>1, Numbers
    <2> QED
      BY <2>1, <2>2, <2>3
  <1>2. /\ ToFetch(i) \in {0, 1} /\ ToHandle(i) \in {0, 1}
        /\ Bit(Uncommitted /\ i = msg) \in {0, 1}
    BY DEF ToHandle, ToFetch, Bit
  <1>0. /\ applied'[i] = applied[i] /\ applied[i] \in Nat /\ hits[i] \in Nat /\ exits[i] \in Nat
        /\ applied[i] + ToFetch(i) + ToHandle(i) <= 1 + hits[i] + exits[i]
    BY Numbers DEF Inv, CountInv
  <1>3. CASE InHand /\ AtCommit /\ i = msg /\ log[i] # "good"
    <2>1. applied[i] = 0
      BY <1>3, Numbers DEF Inv, ReaderInv
    <2>2. 0 <= hits'[i] + exits'[i]
      BY <1>1, <1>2, Numbers
    <2> QED
      BY <1>0, <1>1, <2>1, <2>2, StoppingOwes DEF CountInv
  <1>4. CASE ~(InHand /\ AtCommit /\ i = msg /\ log[i] # "good")
    <2>1. Bit(InHand /\ AtCommit /\ i = msg) = Bit(Uncommitted /\ i = msg)
      BY <1>4 DEF Uncommitted, AtCommit, Bit
    <2>2. ToFetch(i)' <= ToFetch(i) + ToHandle(i) + Bit(Uncommitted /\ i = msg)
      BY <2>1, StoppingOwes
    <2> QED
      BY <1>0, <1>1, <1>2, <2>2, StoppingOwes DEF CountInv
  <1> QED
    BY <1>3, <1>4

(* The handler's effect is one more application.                           *)
LEMMA AppliedOnce ==
  ASSUME Inv, InMessage, applied' = [applied EXCEPT ![msg] = @ + 1]
  PROVE  /\ applied' \in [1..MaxLog -> Nat]
         /\ \A i \in 1..MaxLog : applied'[i] = applied[i] + Bit(i = msg)
         /\ applied'[msg] > 0
  <1>1. applied \in [1..MaxLog -> Nat] /\ msg \in 1..MaxLog
    BY Numbers DEF Inv, Typing
  <1> QED
    BY <1>1 DEF Bit

(* The handler is applied: one is made that was owed.                      *)
LEMMA HandledInv ==
  ASSUME Inv, Handled
  PROVE  Inv'
  <1> USE DEF Handled, kafkaVars, again
  <1>1. /\ InMessage /\ InMessage' /\ Running /\ Running'
        /\ UNCHANGED <<log, committed, position, msg, hits, exits, faults, cancelled, broker>>
        /\ log[msg] = "good" /\ pc = "handle" /\ pc' = "commit"
    BY DEF InMessage, Running
  <1>2. Typing'
    BY <1>1, AppliedOnce, CounterSteps DEF Inv, Typing
  <1>3. ReaderInv'
    <2>1. ASSUME NEW i \in 1..MaxLog, applied'[i] > 0
          PROVE  i <= Len(log) /\ log[i] = "good"
      <3>1. CASE i = msg
        BY <1>1, <3>1 DEF Inv, Typing
      <3>2. CASE i # msg
        BY <1>1, <2>1, <3>2, AppliedOnce, Numbers DEF Inv, ReaderInv, Bit
      <3> QED
        BY <3>1, <3>2
    <2> QED
      BY <1>1, <2>1, AppliedOnce DEF Inv, ReaderInv
  <1>4. ASSUME NEW i \in 1..MaxLog
        PROVE  CountInv(i)'
    <2>1. /\ ToFetch(i)' = ToFetch(i) /\ ToFetch(i) \in {0, 1}
          /\ ToHandle(i) = Bit(i = msg) /\ ToHandle(i)' = 0
      BY <1>1 DEF ToFetch, ToHandle, Bit
    <2>2. applied'[i] = applied[i] + Bit(i = msg)
      BY <1>1, AppliedOnce
    <2> QED
      BY <1>1, <2>1, <2>2, Numbers DEF Inv, CountInv, Bit
  <1>5. ASSUME NEW i \in 1..MaxLog
        PROVE  FaultInv(i)'
    BY <1>1 DEF Inv, FaultInv
  <1> QED
    BY <1>2, <1>3, <1>4, <1>5 DEF Inv
(* The handler fails: what it did is done again, on another delivery.      *)
LEMMA HandlerFailsInv ==
  ASSUME Inv, HandlerFails
  PROVE  Inv'
  <1> USE DEF HandlerFails, KeepClock, kafkaVars
  <1>1. /\ InMessage /\ ~InMessage' /\ Running /\ ~Running'
        /\ UNCHANGED <<log, committed, position, msg, exits, cancelled, broker>>
        /\ pc = "handle" /\ pc' = "returned"
    BY DEF InMessage, Running
  <1>2. \/ UNCHANGED <<faults, applied, hits>>
        \/ Fault /\ UNCHANGED <<applied, hits>>
        \/ /\ Fault /\ log[msg] = "good"
           /\ applied' = [applied EXCEPT ![msg] = @ + 1]
           /\ hits' = Hit(hits, InHand)
    OBVIOUS
  <1>3. /\ InHand \in BOOLEAN /\ (InHand => msg > 0)
        /\ InHand <=> committed < msg /\ msg <= position
        /\ hits \in [1..MaxLog -> Nat] /\ msg \in 1..MaxLog
    BY <1>1, Numbers DEF InHand, Inv, Typing
  <1>4. Typing'
    <2>1. faults' \in 0..MaxFaults
      BY <1>2, CounterSteps DEF Inv, Typing
    <2>2. hits' \in [1..MaxLog -> Nat] /\ applied' \in [1..MaxLog -> Nat]
      BY <1>1, <1>2, <1>3, HitCounts, AppliedOnce DEF Inv, Typing
    <2> QED
      BY <1>1, <2>1, <2>2 DEF Inv, Typing
  <1>5. ReaderInv'
    <2>1. ASSUME NEW i \in 1..MaxLog, applied'[i] > 0
          PROVE  i <= Len(log) /\ log[i] = "good"
      <3>1. CASE applied'[i] = applied[i]
        BY <2>1, <3>1 DEF Inv, ReaderInv
      <3>2. CASE applied'[i] # applied[i]
        <4>1. i = msg /\ log[msg] = "good"
          BY <1>1, <1>2, <3>2, AppliedOnce, Numbers DEF Bit
        <4> QED
          BY <4>1 DEF Inv, Typing
      <3> QED
        BY <3>1, <3>2
    <2> QED
      BY <1>1, <2>1 DEF ReaderInv, InMessage, AtCommit
  <1>6. ASSUME NEW i \in 1..MaxLog
        PROVE  /\ CountInv(i)'
               /\ hits'[i] + exits'[i] <= hits[i] + exits[i] + (faults' - faults)
    <2>1. /\ ToFetch(i) = Bit(i > position) /\ ToHandle(i) = Bit(i = msg)
          /\ ToFetch(i)' = Bit(i > committed) /\ ToHandle(i)' = 0
      BY <1>1 DEF ToFetch, ToHandle, Running, Bit
    <2>2. /\ applied[i] + Bit(i > position) + Bit(i = msg) <= 1 + hits[i] + exits[i]
          /\ committed <= msg /\ msg <= committed + 1
          /\ position <= msg /\ msg <= position + 1
      BY <1>1, <2>1 DEF Inv, CountInv, ReaderInv
    <2>3. CASE UNCHANGED <<applied, hits>>
      <3>1. Bit(i > committed) <= Bit(i > position) + Bit(i = msg)
        BY <2>2, Numbers DEF Bit
      <3>2. faults' - faults >= 0
        BY <1>2, CounterSteps, Numbers
      <3>3. Bit(i > committed) \in {0, 1} /\ Bit(i > position) \in {0, 1} /\ Bit(i = msg) \in {0, 1}
        BY DEF Bit
      <3>4. CountInv(i)'
        BY <1>1, <2>1, <2>2, <2>3, <3>1, <3>3, Numbers DEF CountInv
      <3>5. faults' \in Nat
        BY <1>2, CounterSteps, Numbers
      <3> QED
        BY <1>1, <2>3, <3>2, <3>4, <3>5, Numbers
    <2>4. CASE /\ Fault /\ applied' = [applied EXCEPT ![msg] = @ + 1]
               /\ hits' = Hit(hits, InHand)
      <3>1. /\ applied'[i] = applied[i] + Bit(i = msg)
            /\ hits'[i] = hits[i] + Bit(InHand /\ i = msg)
            /\ exits'[i] = exits[i] /\ faults' = faults + 1
        <4>1. applied'[i] = applied[i] + Bit(i = msg)
          BY <1>1, <2>4, AppliedOnce
        <4>2. hits'[i] = hits[i] + Bit(InHand /\ i = msg)
          BY <1>3, <2>4, HitCounts DEF Inv
        <4> QED
          BY <1>1, <2>4, <4>1, <4>2, CounterSteps
      <3>2. Bit(i > committed) <= Bit(i > position) + Bit(InHand /\ i = msg)
        BY <1>3, <2>2, Numbers DEF Bit
      <3>3. /\ Bit(i > committed) \in {0, 1} /\ Bit(i > position) \in {0, 1}
            /\ Bit(i = msg) \in {0, 1} /\ Bit(InHand /\ i = msg) \in {0, 1}
        BY DEF Bit
      <3>4. CountInv(i)'
        BY <2>1, <2>2, <3>1, <3>2, <3>3, Numbers DEF CountInv
      <3> QED
        BY <3>1, <3>3, <3>4, Numbers
    <2> QED
      BY <1>2, <2>3, <2>4
  <1>7. ASSUME NEW i \in 1..MaxLog
        PROVE  FaultInv(i)'
    <2>1. faults' \in Nat /\ hits'[i] \in Nat /\ exits'[i] \in Nat
      BY <1>4, ConsumerAssumption DEF Typing
    <2> QED
      BY <1>1, <1>6, <2>1, Numbers DEF Inv, FaultInv, Bit
  <1> QED
    BY <1>4, <1>5, <1>6, <1>7 DEF Inv
----------------------------------------------------------------------------
(* The offset moves to the message in hand, or stays there.                *)
LEMMA CommitOkInv ==
  ASSUME Inv, CommitOk
  PROVE  Inv'
  <1> USE DEF CommitOk, again
  <1>1. /\ InMessage /\ Running /\ ~InMessage' /\ ~AtCommit' /\ pc = "commit"
        /\ committed' = msg /\ msg' = 0 /\ pc' \in {"fetch", "returned"}
        /\ UNCHANGED <<log, position, applied, hits, exits, faults, cancelled, broker>>
        /\ msg \in 1..MaxLog /\ position <= msg /\ msg <= position + 1
    BY Numbers DEF InMessage, AtCommit, Running, Inv, ReaderInv
  <1>2. Typing'
    <2>1. /\ committed' \in 0..Len(log) /\ msg' \in 0..Len(log)
          /\ position <= committed' + 1
      BY <1>1, Numbers DEF Inv, Typing
    <2> QED
      BY <1>1, <2>1, CounterSteps DEF Inv, Typing
  <1>3. ReaderInv'
    BY <1>1 DEF Inv, ReaderInv
  <1>4. ASSUME NEW i \in 1..MaxLog
        PROVE  CountInv(i)'
    <2>1. ToFetch(i) = Bit(i > position) /\ ToHandle(i) = 0 /\ ToHandle(i)' = 0
      BY <1>1 DEF ToFetch, ToHandle, Bit
    <2>2. ToFetch(i)' <= Bit(i > position) /\ ToFetch(i)' \in {0, 1}
      BY <1>1, Numbers DEF ToFetch, Running, Bit
    <2>3. Bit(i > position) \in {0, 1}
      BY DEF Bit
    <2> QED
      BY <1>1, <2>1, <2>2, <2>3, Numbers DEF Inv, CountInv
  <1>5. ASSUME NEW i \in 1..MaxLog
        PROVE  FaultInv(i)'
    BY <1>1, Numbers DEF Inv, FaultInv, Bit
  <1> QED
    BY <1>2, <1>3, <1>4, <1>5 DEF Inv

(* Steps that go on with the commit, the offset as it was.                 *)
LEMMA CommitGoesOnInv ==
  ASSUME Inv,
         \/ CommitFails /\ pc' # "returned"
         \/ CommitCancelled
  PROVE  Inv'
  <1> USE DEF CommitFails, AfterFailedCommit, CommitCancelled, KeepClock, kafkaVars, again
  <1>1. /\ AtCommit /\ AtCommit' /\ UNCHANGED <<hits, exits, cancelled, broker, faults>>
        /\ Typing'
    BY DEF AtCommit, Inv, Typing
  <1>2. SameReader
    BY <1>1 DEF SameReader, Running, InMessage, AtCommit
  <1>3. ASSUME NEW i \in 1..MaxLog
        PROVE  FaultInv(i)'
    BY <1>1 DEF Inv, FaultInv, InMessage, AtCommit
  <1> QED
    BY <1>1, <1>2, <1>3, SameReaderKeeps DEF Inv

(* Run gives a commit up while the broker is down.                         *)
CommitGivenUp ==
  /\ pc \in {"commit", "finalCommit"} /\ pc' = "returned"
  /\ broker = "down" /\ hits' = Hit(hits, Uncommitted)
  /\ err' \in {err, "commit"} /\ failing' \in BOOLEAN
  /\ UNCHANGED <<kafkaVars, cancelled, position, msg, waited, outage, faults, applied, exits>>

(* The consumer returns with the message uncommitted, and it is owed       *)
(* again: the outage or the shutdown behind it is the fault that pays.     *)
LEMMA CommitGivenUpInv ==
  ASSUME Inv, CommitGivenUp
  PROVE  Inv'
  <1> USE DEF CommitGivenUp, kafkaVars
  <1>1. InMessage /\ ~InMessage' /\ ~AtCommit' /\ pc # "down" /\ pc' # "down"
    BY DEF InMessage, AtCommit
  <1>2. /\ hits \in [1..MaxLog -> Nat] /\ Uncommitted \in BOOLEAN /\ (Uncommitted => msg > 0)
    BY <1>1, Numbers DEF Inv, Typing, Uncommitted, InHand
  <1>3. Typing'
    BY <1>2, HitCounts DEF Inv, Typing
  <1>4. ReaderInv'
    BY <1>1 DEF Inv, ReaderInv
  <1>5. ASSUME NEW i \in 1..MaxLog
        PROVE  CountInv(i)'
    BY StoppingCounts
  <1>6. ASSUME NEW i \in 1..MaxLog
        PROVE  FaultInv(i)'
    <2>1. hits'[i] = hits[i] + Bit(Uncommitted /\ i = msg)
      BY <1>2, HitCounts DEF Inv
    <2> QED
      BY <1>1, <2>1, Numbers DEF Inv, FaultInv, Bit
  <1> QED
    BY <1>3, <1>4, <1>5, <1>6 DEF Inv

(* Shutdown's attempt succeeds.                                            *)
LEMMA FinalCommitOkInv ==
  ASSUME Inv, FinalCommit, broker = "up"
  PROVE  Inv'
  <1> USE DEF FinalCommit, KeepClock
  <1>1. /\ InMessage /\ Running /\ ~InMessage' /\ ~AtCommit'
        /\ pc = "finalCommit" /\ pc' = "returned" /\ committed' = msg
        /\ UNCHANGED <<log, position, applied, hits, exits, faults, cancelled, broker>>
        /\ msg \in 1..MaxLog /\ position <= msg
    BY Numbers DEF InMessage, AtCommit, Running, Inv, ReaderInv
  <1>2. Typing'
    <2>1. committed' \in 0..Len(log) /\ position <= committed' + 1
      BY <1>1, Numbers DEF Inv, Typing
    <2> QED
      BY <1>1, <2>1 DEF Inv, Typing
  <1>3. ReaderInv'
    BY <1>1 DEF Inv, ReaderInv
  <1>4. ASSUME NEW i \in 1..MaxLog
        PROVE  CountInv(i)'
    <2>1. ToFetch(i) = Bit(i > position) /\ ToHandle(i) = 0 /\ ToHandle(i)' = 0
      BY <1>1 DEF ToFetch, ToHandle, Bit
    <2>2. ToFetch(i)' <= Bit(i > position) /\ ToFetch(i)' \in {0, 1}
      BY <1>1, Numbers DEF ToFetch, Running, Bit
    <2>3. Bit(i > position) \in {0, 1}
      BY DEF Bit
    <2> QED
      BY <1>1, <2>1, <2>2, <2>3, Numbers DEF Inv, CountInv
  <1>5. ASSUME NEW i \in 1..MaxLog
        PROVE  FaultInv(i)'
    BY <1>1, Numbers DEF Inv, FaultInv, Bit
  <1> QED
    BY <1>2, <1>3, <1>4, <1>5 DEF Inv

(* The broker takes the offset and is gone: a fault that costs nothing, or *)
(* counts as one that does.                                                *)
LEMMA CommitLostInv ==
  ASSUME Inv, CommitLost
  PROVE  Inv'
  <1> USE DEF CommitLost, AfterFailedCommit
  <1>1. /\ InMessage /\ Running /\ pc = "commit" /\ committed' = msg
        /\ pc' \in {"finalCommit", "commitWait", "returned"}
        /\ InMessage' => AtCommit'
        /\ hits' = hits \/ (hits' = Hit(hits, Uncommitted) /\ ~InMessage')
        /\ Fault /\ broker = "up" /\ pc' # "down"
        /\ UNCHANGED <<log, position, msg, applied, exits, cancelled>>
        /\ msg \in 1..MaxLog /\ position <= msg /\ msg <= position + 1
    BY Numbers DEF InMessage, AtCommit, Running, Inv, ReaderInv
  <1>2. /\ hits \in [1..MaxLog -> Nat] /\ Uncommitted \in BOOLEAN /\ (Uncommitted => msg > 0)
    BY <1>1, Numbers DEF Inv, Typing, Uncommitted, InHand
  <1>3. /\ hits' \in [1..MaxLog -> Nat]
        /\ \A i \in 1..MaxLog :
             /\ hits[i] <= hits'[i]
             /\ hits'[i] <= hits[i] + 1
             /\ InMessage' => hits'[i] = hits[i]
    <2>1. CASE hits' = hits
      BY <1>2, <2>1, Numbers
    <2>2. CASE hits' = Hit(hits, Uncommitted) /\ ~InMessage'
      <3>1. /\ hits' \in [1..MaxLog -> Nat]
            /\ \A i \in 1..MaxLog : hits'[i] = hits[i] + Bit(Uncommitted /\ i = msg)
        BY <1>2, <2>2, HitCounts DEF Inv
      <3> QED
        BY <2>2, <3>1, Numbers DEF Bit
    <2> QED
      BY <1>1, <2>1, <2>2
  <1>4. Typing'
    <2>1. committed' \in 0..Len(log) /\ position <= committed' + 1
      BY <1>1, Numbers DEF Inv, Typing
    <2> QED
      BY <1>1, <1>3, <2>1, CounterSteps DEF Inv, Typing
  <1>5. ReaderInv'
    <2>1. log[msg] = "poison" \/ applied[msg] > 0
      BY <1>1 DEF Inv, ReaderInv, AtCommit
    <2> QED
      BY <1>1, <2>1, Numbers DEF Inv, ReaderInv
  <1>6. ASSUME NEW i \in 1..MaxLog
        PROVE  CountInv(i)'
    <2>1. ToFetch(i) = Bit(i > position) /\ ToHandle(i) = 0 /\ ToHandle(i)' = 0
      BY <1>1 DEF ToFetch, ToHandle, Bit
    <2>2. ToFetch(i)' <= Bit(i > position) /\ ToFetch(i)' \in {0, 1}
      BY <1>1, Numbers DEF ToFetch, Running, Bit
    <2>3. Bit(i > position) \in {0, 1} /\ hits'[i] \in Nat
      BY <1>3 DEF Bit
    <2>4. applied[i] + Bit(i > position) <= 1 + hits[i] + exits[i]
      BY <2>1, <2>3, Numbers DEF Inv, CountInv
    <2>5. /\ applied'[i] = applied[i] /\ exits'[i] = exits[i] /\ hits[i] <= hits'[i]
          /\ applied[i] \in Nat /\ exits[i] \in Nat /\ hits[i] \in Nat
      BY <1>1, <1>3, Numbers
    <2> QED
      BY <2>1, <2>2, <2>3, <2>4, <2>5 DEF CountInv
  <1>7. ASSUME NEW i \in 1..MaxLog
        PROVE  FaultInv(i)'
    <2>1. hits'[i] \in Nat /\ faults' = faults + 1
      BY <1>1, <1>3, CounterSteps
    <2>2. /\ hits[i] + exits[i] + Bit(cancelled) <= faults
          /\ Bit(cancelled) \in {0, 1} /\ Bit(cancelled)' = Bit(cancelled)
      BY <1>1, Numbers DEF Inv, FaultInv, Bit
    <2>3. hits'[i] + Bit(broker = "down" /\ InMessage)' <= hits[i] + 1
      BY <1>3, <2>1, Numbers DEF Bit
    <2>4. /\ Bit(cancelled /\ pc # "down")' = Bit(cancelled) /\ exits'[i] = exits[i]
          /\ Bit(broker = "down" /\ InMessage)' \in {0, 1}
      BY <1>1 DEF Bit
    <2> QED
      BY <2>1, <2>2, <2>3, <2>4, Numbers DEF FaultInv
  <1> QED
    BY <1>4, <1>5, <1>6, <1>7 DEF Inv
----------------------------------------------------------------------------
(* The process ends; what main's return costs was paid for by the          *)
(* shutdown that let main return.                                          *)
LEMMA MainReturnsInv ==
  ASSUME Inv, MainReturns
  PROVE  Inv'
  <1> USE DEF MainReturns, kafkaVars
  <1>1. /\ ~InMessage' /\ ~AtCommit' /\ pc' = "down" /\ pc # "down"
        /\ Uncommitted => InMessage /\ cancelled
        /\ UNCHANGED <<log, committed, applied, hits, faults, broker, cancelled, position, msg>>
        /\ exits' = Hit(exits, Uncommitted)
    BY DEF InMessage, AtCommit, Uncommitted, InHand
  <1>2. /\ exits \in [1..MaxLog -> Nat] /\ Uncommitted \in BOOLEAN /\ (Uncommitted => msg > 0)
    BY <1>1, Numbers DEF Inv, Typing, Uncommitted, InHand
  <1>3. Typing'
    BY <1>1, <1>2, HitCounts DEF Inv, Typing
  <1>4. ReaderInv'
    BY <1>1 DEF Inv, ReaderInv
  <1>5. ASSUME NEW i \in 1..MaxLog
        PROVE  CountInv(i)'
    BY <1>1, StoppingCounts
  <1>6. ASSUME NEW i \in 1..MaxLog
        PROVE  FaultInv(i)'
    <2>1. exits'[i] = exits[i] + Bit(Uncommitted /\ i = msg)
      <3>1. Hit(exits, Uncommitted)[i] = exits[i] + Bit(Uncommitted /\ i = msg)
        BY <1>2, HitCounts DEF Inv
      <3> QED
        BY <1>1, <3>1
    <2>2. hits'[i] = hits[i] /\ faults' = faults
      BY <1>1
    <2>3. hits[i] + exits[i] + Bit(cancelled /\ pc # "down") <= faults
      BY Numbers DEF Inv, FaultInv, Bit
    <2>4. Bit(Uncommitted /\ i = msg) <= Bit(cancelled /\ pc # "down")
      BY <1>1 DEF Bit
    <2>5. /\ Bit(Uncommitted /\ i = msg) \in {0, 1} /\ Bit(cancelled /\ pc # "down") \in {0, 1}
          /\ Bit(cancelled /\ pc # "down")' = 0 /\ Bit(broker = "down" /\ InMessage)' = 0
      BY <1>1 DEF Bit
    <2> QED
      BY <2>1, <2>2, <2>3, <2>4, <2>5, Numbers DEF FaultInv
  <1> QED
    BY <1>3, <1>4, <1>5, <1>6 DEF Inv

(* A crash is a fault of its own, and the message in hand is owed again.   *)
LEMMA CrashInv ==
  ASSUME Inv, Crash
  PROVE  Inv'
  <1> USE DEF Crash, kafkaVars
  <1>1. /\ ~InMessage' /\ ~AtCommit' /\ pc' = "down" /\ pc # "down" /\ Fault
        /\ Uncommitted => InMessage
        /\ UNCHANGED <<log, committed, applied, exits, broker, cancelled, position, msg>>
        /\ hits' = Hit(hits, Uncommitted)
    BY DEF InMessage, AtCommit, Uncommitted, InHand
  <1>2. /\ hits \in [1..MaxLog -> Nat] /\ Uncommitted \in BOOLEAN /\ (Uncommitted => msg > 0)
    BY <1>1, Numbers DEF Inv, Typing, Uncommitted, InHand
  <1>3. Typing'
    BY <1>1, <1>2, HitCounts, CounterSteps DEF Inv, Typing
  <1>4. ReaderInv'
    BY <1>1 DEF Inv, ReaderInv
  <1>5. ASSUME NEW i \in 1..MaxLog
        PROVE  CountInv(i)'
    BY <1>1, StoppingCounts
  <1>6. ASSUME NEW i \in 1..MaxLog
        PROVE  FaultInv(i)'
    <2>1. /\ hits'[i] = hits[i] + Bit(Uncommitted /\ i = msg)
          /\ exits'[i] = exits[i] /\ faults' = faults + 1
      <3>1. Hit(hits, Uncommitted)[i] = hits[i] + Bit(Uncommitted /\ i = msg)
        BY <1>2, HitCounts DEF Inv
      <3> QED
        BY <1>1, <3>1, CounterSteps
    <2>2. hits[i] + exits[i] <= faults
      BY Numbers DEF Inv, FaultInv, Bit
    <2>3. /\ Bit(Uncommitted /\ i = msg) \in {0, 1}
          /\ Bit(cancelled /\ pc # "down")' = 0 /\ Bit(broker = "down" /\ InMessage)' = 0
      BY <1>1 DEF Bit
    <2> QED
      BY <2>1, <2>2, <2>3, Numbers DEF FaultInv
  <1> QED
    BY <1>3, <1>4, <1>5, <1>6 DEF Inv

(* The next process reads from the group's offset.                         *)
LEMMA RestartInv ==
  ASSUME Inv, Restart
  PROVE  Inv'
  <1> USE DEF Restart, kafkaVars, again
  <1>1. /\ ~Running /\ Running' /\ ~InMessage' /\ ~AtCommit'
        /\ pc = "down" /\ pc' = "fetch" /\ position' = committed /\ ~cancelled'
        /\ UNCHANGED <<log, committed, applied, hits, exits, faults, broker>>
    BY DEF InMessage, AtCommit, Running
  <1>2. Typing'
    <2>1. /\ position' \in 0..Len(log) /\ position' <= committed + 1 /\ msg' \in 0..Len(log)
      <3>1. committed \in 0..Len(log) /\ Len(log) \in Nat /\ msg' = 0
        BY DEF Inv, Typing
      <3> QED
        BY <1>1, <3>1
    <2> QED
      BY <1>1, <2>1, CounterSteps DEF Inv, Typing
  <1>3. ReaderInv'
    BY <1>1, Numbers DEF Inv, ReaderInv
  <1>4. ASSUME NEW i \in 1..MaxLog
        PROVE  CountInv(i)'
    <2>1. ToFetch(i)' = ToFetch(i) /\ ToHandle(i)' = 0 /\ ToHandle(i) = 0
      BY <1>1 DEF ToFetch, ToHandle, Bit
    <2> QED
      BY <1>1, <2>1 DEF Inv, CountInv
  <1>5. ASSUME NEW i \in 1..MaxLog
        PROVE  FaultInv(i)'
    BY <1>1, Numbers DEF Inv, FaultInv, Bit
  <1> QED
    BY <1>2, <1>3, <1>4, <1>5 DEF Inv

(* A new message has not been applied, nor is it in hand.                  *)
LEMMA ProduceInv ==
  ASSUME Inv, NEW m \in Message, Produce(m)
  PROVE  Inv'
  <1> USE DEF Produce, ghosts, again
  <1>1. /\ log \in Seq(Message) /\ log' \in Seq(Message) /\ Len(log') = Len(log) + 1
        /\ Len(log') <= MaxLog
        /\ \A i \in 1..Len(log) : log'[i] = log[i]
    BY ConsumerAssumption DEF Inv, Typing
  <1>2. Typing'
    <2>1. committed \in 0..Len(log') /\ position \in 0..Len(log') /\ msg \in 0..Len(log')
      BY <1>1 DEF Inv, Typing
    <2> QED
      BY <1>1, <2>1 DEF Inv, Typing
  <1>3. ReaderInv'
    <2>1. ASSUME NEW i \in 1..MaxLog, applied[i] > 0
          PROVE  i <= Len(log') /\ log'[i] = "good"
      BY <1>1, <2>1 DEF Inv, ReaderInv
    <2>2. AtCommit => log'[msg] = "poison" \/ applied[msg] > 0
      <3>1. AtCommit => msg \in 1..Len(log)
        BY DEF AtCommit, Inv, Typing, ReaderInv, InMessage
      <3> QED
        BY <1>1, <3>1 DEF Inv, ReaderInv
    <2> QED
      BY <2>1, <2>2 DEF Inv, ReaderInv, InMessage, AtCommit
  <1>4. ASSUME NEW i \in 1..MaxLog
        PROVE  CountInv(i)' /\ FaultInv(i)'
    BY DEF Inv, CountInv, FaultInv, ToFetch, ToHandle, Running, InMessage
  <1> QED
    BY <1>2, <1>3, <1>4 DEF Inv

(* The reader goes back: past at most the message in hand, which is owed   *)
(* once more.                                                              *)
LEMMA RebalanceInv ==
  ASSUME Inv, Rebalance
  PROVE  Inv'
  <1> USE DEF Rebalance, kafkaVars
  <1>1. /\ position' = committed /\ Fault /\ hits' = Hit(hits, InHand)
        /\ UNCHANGED <<log, committed, applied, exits, pc, msg, cancelled, broker>>
        /\ (Running' <=> Running) /\ (InMessage' <=> InMessage) /\ (AtCommit' <=> AtCommit)
        /\ pc # "down" /\ broker # "down"
    BY DEF Running, InMessage, AtCommit
  <1>2. /\ hits \in [1..MaxLog -> Nat] /\ InHand \in BOOLEAN /\ (InHand => msg > 0)
    BY Numbers DEF Inv, Typing, InHand
  <1>3. Typing'
    BY <1>1, <1>2, HitCounts, CounterSteps, Numbers DEF Inv, Typing
  <1>4. ReaderInv'
    BY <1>1, Numbers DEF Inv, ReaderInv
  <1>5. ASSUME NEW i \in 1..MaxLog
        PROVE  /\ hits'[i] = hits[i] + Bit(InHand /\ i = msg)
               /\ exits'[i] = exits[i] /\ faults' = faults + 1
               /\ Bit(InHand /\ i = msg) \in {0, 1}
    <2>1. hits'[i] = hits[i] + Bit(InHand /\ i = msg)
      <3>1. Hit(hits, InHand)[i] = hits[i] + Bit(InHand /\ i = msg)
        BY <1>2, HitCounts DEF Inv
      <3> QED
        BY <1>1, <3>1
    <2> QED
      BY <1>1, <2>1, CounterSteps DEF Bit
  <1>6. ASSUME NEW i \in 1..MaxLog
        PROVE  CountInv(i)'
    <2>1. ToHandle(i)' = ToHandle(i) /\ ToHandle(i) \in {0, 1}
      BY <1>1 DEF ToHandle, Bit
    <2>2. /\ ToFetch(i)' <= ToFetch(i) + Bit(InHand /\ i = msg)
          /\ ToFetch(i) \in {0, 1} /\ ToFetch(i)' \in {0, 1}
      <3>1. CASE ~Running
        BY <1>1, <1>5, <3>1 DEF ToFetch, Bit
      <3>2. CASE Running /\ ~(committed < i /\ i <= position)
        BY <1>1, <1>5, <3>2, Numbers DEF ToFetch, Bit
      <3>3. CASE Running /\ committed < i /\ i <= position
        <4>1. InMessage
          BY <3>3, Numbers DEF Inv, Typing, ReaderInv, Running, InMessage
        <4>2. i = msg /\ InHand
          BY <3>3, <4>1, Numbers DEF Inv, ReaderInv, InHand, InMessage
        <4> QED
          BY <4>2 DEF ToFetch, Bit
      <3> QED
        BY <3>1, <3>2, <3>3
    <2>3. applied[i] + ToFetch(i) + ToHandle(i) <= 1 + hits[i] + exits[i] /\ applied'[i] = applied[i]
      BY <1>1 DEF Inv, CountInv
    <2> QED
      BY <1>5, <2>1, <2>2, <2>3, Numbers DEF CountInv
  <1>7. ASSUME NEW i \in 1..MaxLog
        PROVE  FaultInv(i)'
    BY <1>1, <1>5, Numbers DEF Inv, FaultInv, Bit
  <1> QED
    BY <1>3, <1>4, <1>6, <1>7 DEF Inv

(* A step that changes nothing.                                            *)
LEMMA StutterInv ==
  ASSUME Inv, UNCHANGED vars
  PROVE  Inv'
  BY DEF vars, kafkaVars, ghosts, again, Inv, Typing, ReaderInv, CountInv, FaultInv,
         ToFetch, ToHandle, Running, InMessage, AtCommit

(* Every step of Run, a failed commit being tried again or given up.       *)
LEMMA RunInv ==
  ASSUME Inv, Run
  PROVE  Inv'
  <1>1. ASSUME CommitFails, pc' = "returned"
        PROVE  CommitGivenUp
    BY <1>1 DEF CommitFails, AfterFailedCommit, CommitGivenUp, kafkaVars
  <1>2. ASSUME FinalCommit, broker # "up"
        PROVE  CommitGivenUp
    BY <1>2 DEF FinalCommit, CommitGivenUp, KeepClock, kafkaVars, Inv, Typing
  <1> QED
    BY <1>1, <1>2, WaitOverInv, FetchedInv, FetchFailsInv, DecodeInv, HandledInv,
       HandlerFailsInv, CommitOkInv, CommitGoesOnInv, CommitGivenUpInv, CommitLostInv,
       FinalCommitOkInv DEF Run

(* The invariant is inductive.                                             *)
LEMMA StepInv == Inv /\ [Next]_vars => Inv'
  <1> SUFFICES ASSUME Inv, [Next]_vars PROVE Inv'
    OBVIOUS
  <1>1. CASE Run
    BY <1>1, RunInv
  <1>2. CASE Tick \/ Shutdown \/ MainReturns \/ Crash \/ Restart
    BY <1>2, TickInv, ShutdownInv, MainReturnsInv, CrashInv, RestartInv
  <1>3. CASE (\E m \in Message : Produce(m)) \/ BrokerDown \/ BrokerUp \/ Rebalance
    BY <1>3, ProduceInv, BrokerInv, RebalanceInv
  <1>4. CASE UNCHANGED vars
    BY <1>4, StutterInv
  <1> QED
    BY <1>1, <1>2, <1>3, <1>4 DEF Next, Idle

(* The consumer's invariant holds in every behaviour.                      *)
THEOREM ConsumerInvariant == Spec => []Inv
  BY InitInv, StepInv, PTL DEF Spec

(* The handler takes effect on a message at most once, and once more for   *)
(* each fault that cost it a delivery and each exit of main while it was   *)
(* applied and not committed, whatever the faults and their order.         *)
THEOREM ConsumerAppliesOncePerFault == Spec => []AppliedOncePerFault
  <1>1. Inv => AppliedOncePerFault
    <2> SUFFICES ASSUME Inv PROVE AppliedOncePerFault
      OBVIOUS
    <2>1. ASSUME NEW i \in 1..MaxLog
          PROVE  applied[i] <= 1 + hits[i] + exits[i]
      BY Numbers DEF Inv, CountInv, ToFetch, ToHandle, Bit
    <2> QED
      BY <2>1, InvTypeOK DEF AppliedOncePerFault
  <1> QED
    BY <1>1, ConsumerInvariant, PTL

----------------------------------------------------------------------------
(* The abstract steps.                                                     *)
LEMMA AppliesMessage ==
  ASSUME Inv, InMessage, log[msg] = "good", UNCHANGED <<log, committed>>,
         applied' = [applied EXCEPT ![msg] = @ + 1]
  PROVE  D!Next
  <1>1. msg \in 1..Len(log) /\ msg <= committed + 1
    BY Numbers DEF Inv, Typing, ReaderInv
  <1>2. D!Apply(msg)
    BY <1>1 DEF D!Apply
  <1>3. msg \in DOMAIN log
    BY <1>1 DEF Inv, Typing
  <1> QED
    BY <1>2, <1>3 DEF D!Next

(* A commit of the message in hand is the one Delivery allows next, or     *)
(* commits again what is committed.                                        *)
LEMMA CommitsMessage ==
  ASSUME Inv, AtCommit, UNCHANGED <<log, applied>>, committed' = msg
  PROVE  D!Next \/ UNCHANGED <<log, committed, applied>>
  <1>1. msg \in 1..Len(log) /\ (msg = committed \/ msg = committed + 1)
    BY Numbers DEF Inv, Typing, ReaderInv, InMessage, AtCommit
  <1>2. log[msg] \in {"poison"} \/ applied[msg] > 0
    BY DEF Inv, ReaderInv
  <1>3. CASE msg = committed + 1
    <2>1. D!Commit(msg)
      BY <1>1, <1>2, <1>3 DEF D!Commit
    <2>2. msg \in DOMAIN log
      BY <1>1 DEF Inv, Typing
    <2> QED
      BY <2>1, <2>2 DEF D!Next
  <1>4. CASE msg = committed
    BY <1>4
  <1> QED
    BY <1>1, <1>3, <1>4

(* Run, with its retries, faults, restarts and rebalances, delivers as     *)
(* Delivery promises: every step is a message produced, applied after all  *)
(* before it are done with, or committed once done with, or none of these. *)
THEOREM ConsumerImplementsDelivery == Spec => InOrderAtLeastOnce
  <1>1. Init => D!Init
    <2> SUFFICES ASSUME Init PROVE D!Init
      OBVIOUS
    <2>1. log = <<>> /\ committed = 0 /\ applied = [i \in 1..MaxLog |-> 0]
      BY DEF Init
    <2> QED
      BY <2>1 DEF D!Init
  <1>2. Inv /\ [Next]_vars => [D!Next]_<<log, committed, applied>>
    <2> SUFFICES ASSUME Inv, [Next]_vars
                 PROVE  D!Next \/ UNCHANGED <<log, committed, applied>>
      OBVIOUS
    <2>1. CASE Handled
      BY <2>1, AppliesMessage DEF Handled, kafkaVars, InMessage
    <2>2. CASE HandlerFails
      BY <2>2, AppliesMessage DEF HandlerFails, kafkaVars, InMessage
    <2>3. CASE CommitOk \/ CommitLost
      BY <2>3, CommitsMessage DEF CommitOk, CommitLost, AtCommit
    <2>4. CASE FinalCommit
      BY <2>4, CommitsMessage DEF FinalCommit, AtCommit
    <2>5. CASE WaitOver \/ Fetched \/ FetchFails \/ FetchCancelled \/ Decode \/ CommitFails
               \/ CommitCancelled
      BY <2>5 DEF WaitOver, Fetched, FetchFails, FetchCancelled, Decode, CommitFails,
                  CommitCancelled, kafkaVars
    <2>6. CASE Tick \/ Shutdown \/ MainReturns \/ Crash \/ Restart
      BY <2>6 DEF Tick, Shutdown, MainReturns, Crash, Restart, kafkaVars, ghosts
    <2>7. CASE BrokerDown \/ BrokerUp \/ Rebalance
      BY <2>7 DEF BrokerDown, BrokerUp, Rebalance, kafkaVars, ghosts
    <2>8. ASSUME NEW m \in Message, Produce(m)
          PROVE  D!Next
      <3>1. D!Produce(m)
        BY <2>8 DEF Produce, D!Produce, ghosts
      <3> QED
        BY <3>1 DEF D!Next
    <2>9. CASE UNCHANGED vars
      BY <2>9 DEF vars, kafkaVars, ghosts
    <2> QED
      BY <2>1, <2>2, <2>3, <2>4, <2>5, <2>6, <2>7, <2>8, <2>9 DEF Next, Run, Idle
  <1> QED
    BY <1>1, <1>2, ConsumerInvariant, PTL DEF Spec, D!Spec, InOrderAtLeastOnce
=============================================================================
