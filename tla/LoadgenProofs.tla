---------------------------- MODULE LoadgenProofs ----------------------------
(***************************************************************************)
(* A run of the load generator accounts for what it did, for any number of *)
(* workers, any channels and any number of ticks and samples: no result is *)
(* lost between the channel, the three counters, the windows and the       *)
(* shutdown, and Run keeps the promise of its comment.                     *)
(* After it the other programs that use the services, each for any value   *)
(* of its constants: the simulator and its crowd, the seeding of a load    *)
(* test and its stream to the page, the page of links, and what the        *)
(* programs print of latencies.                                            *)
(***************************************************************************)
EXTENDS LoadRunner, MCClients, FiniteSetTheorems, TLAPS

(* A statement as a number, to be added up.                                *)
Bit(b) == IF b THEN 1 ELSE 0

(* How many workers are in one of these states.                            *)
At(states) == {w \in Workers : worker[w] \in states}

Number(states) == Cardinality(At(states))

(* How many of the results waiting in the channel are errors.              *)
ErrorsAt(s) == {i \in DOMAIN s : s[i] = "err"}

Errors(s) == Cardinality(ErrorsAt(s))

States == {"idle", "busy", "ok", "err", "gone"}

Status == Terminal \cup {"RUNNING"}

SentSample == [status : Status, rps : Nat, total : Nat, errors : Nat, sum : Nat]

(* The types, without the bounds that the rest implies.                    *)
Typing ==
  /\ clock \in 0..2
  /\ cancelled \in BOOLEAN /\ runCancelled \in BOOLEAN
  /\ tokens \in 0..MaxTokens /\ dropped \in Nat /\ jobsClosed \in BOOLEAN
  /\ jobs \in 0..JobCap
  /\ worker \in [Workers -> States]
  /\ results \in Seq({"ok", "err"}) /\ Len(results) <= ResultCap
  /\ resultsClosed \in BOOLEAN
  /\ collector \in {"recv", "error", "window", "done"} /\ held \in {"ok", "err"}
  /\ totalReq \in Nat /\ totalErr \in Nat /\ windowReq \in Nat
  /\ main \in {"seed", "loop", "total", "send", "join", "drain", "returned", "failed"}
  /\ draft \in [status : Status, rps : Nat, total : Nat]
  /\ sent \in Seq(SentSample)
  /\ sinkFailed \in BOOLEAN
  /\ executed \in [all : Nat, failed : Nat]

(* Every token is somewhere, and so is the outcome of every request.       *)
FlowInv ==
  /\ tokens = dropped + jobs + Number({"busy"}) + executed.all
  /\ executed.all = totalReq + Len(results) + Number({"ok", "err"})
  /\ executed.failed = totalErr + Bit(collector = "error" /\ held = "err")
                         + Errors(results) + Number({"err"})
  /\ executed.failed <= executed.all
  /\ totalErr + Bit(collector = "error") <= totalReq

(* Who has gone when the next one goes.                                    *)
ShutInv ==
  /\ resultsClosed => \A w \in Workers : worker[w] = "gone"
  /\ collector = "done" => results = <<>> /\ resultsClosed
  /\ main = "returned" => collector = "done"

(* Where drive stands, and what it is saying.                              *)
MainInv ==
  /\ main \in {"seed", "loop", "total", "send"} => ~sinkFailed
  /\ main = "seed" => sent = <<>>
  /\ main \notin {"total", "send"} => draft = NoDraft
  /\ main = "total" => draft.total = 0
  /\ main \in {"total", "send"} /\ draft.status = "RUNNING" => Len(sent) < MaxSamples
  /\ main \in {"total", "send"} /\ draft.status # "RUNNING" =>
       collector = "done" /\ windowReq = 0

(* The windows share out the counter, but for one that the sink refused,   *)
(* and no sample is ahead of the counters.                                 *)
SampleInv ==
  /\ windowReq + draft.rps + SumSent + Bit(collector \in {"error", "window"}) <= totalReq
  /\ ~sinkFailed =>
       windowReq + draft.rps + SumSent + Bit(collector \in {"error", "window"}) = totalReq
  /\ \A i \in DOMAIN sent :
       sent[i].rps <= sent[i].sum /\ sent[i].total <= totalReq /\ sent[i].errors <= totalErr
  /\ main = "send" =>
       /\ draft.total <= totalReq
       /\ draft.status # "RUNNING" => draft.total = totalReq
       /\ draft.rps + SumSent <= draft.total
       /\ \A i \in DOMAIN sent : sent[i].total <= draft.total /\ sent[i].errors <= draft.total

Inv ==
  Typing /\ FlowInv /\ ShutInv /\ MainInv /\ SampleInv /\ SamplesCatchUp
    /\ TerminalSampleAccounts
----------------------------------------------------------------------------
(* A number of workers is a number.                                        *)
LEMMA Numbers ==
  ASSUME NEW states
  PROVE  IsFiniteSet(At(states)) /\ Number(states) \in Nat
  <1>1. At(states) \in SUBSET Workers
    BY DEF At
  <1>2. IsFiniteSet(At(states))
    BY <1>1, FS_Subset, LoadAssumption
  <1> QED
    BY <1>2, FS_CardinalityType DEF Number

(* A worker that moves leaves one number and joins another.                *)
LEMMA Moves ==
  ASSUME Typing, NEW w \in Workers, NEW to, worker' = [worker EXCEPT ![w] = to],
         NEW states
  PROVE  /\ Number(states) \in Nat /\ Number(states)' \in Nat
         /\ Number(states)' + Bit(worker[w] \in states) = Number(states) + Bit(to \in states)
  <1> DEFINE A == At(states)
             B == {v \in Workers : worker'[v] \in states}
  <1>1. IsFiniteSet(A) /\ Number(states) \in Nat /\ Number(states) = Cardinality(A)
    BY Numbers DEF Number
  <1>2. Number(states)' = Cardinality(B)
    BY DEF Number, At
  <1>3. \A v \in Workers : worker'[v] = IF v = w THEN to ELSE worker[v]
    BY DEF Typing
  <1>4. (w \in A <=> worker[w] \in states) /\ (w \in B <=> to \in states)
    BY <1>3 DEF At
  <1>5. B = IF to \in states THEN A \cup {w} ELSE A \ {w}
    BY <1>3 DEF At
  <1> HIDE DEF A, B
  <1>6. CASE to \in states
    <2>1. Cardinality(B) = IF w \in A THEN Cardinality(A) ELSE Cardinality(A) + 1
      BY <1>1, <1>5, <1>6, FS_AddElement
    <2> QED
      BY <1>1, <1>2, <1>4, <1>6, <2>1 DEF Bit
  <1>7. CASE to \notin states
    <2>1. Cardinality(B) = IF w \in A THEN Cardinality(A) - 1 ELSE Cardinality(A)
      BY <1>1, <1>5, <1>7, FS_RemoveElement
    <2>2. IsFiniteSet(B) /\ Cardinality(B) \in Nat
      BY <1>1, <1>5, <1>7, FS_RemoveElement, FS_CardinalityType
    <2> QED
      BY <1>1, <1>2, <1>4, <1>7, <2>1, <2>2 DEF Bit
  <1> QED
    BY <1>6, <1>7

(* A result sent is counted once.                                          *)
LEMMA ErrorsOfAppend ==
  ASSUME NEW s \in Seq({"ok", "err"}), NEW x \in {"ok", "err"}
  PROVE  Errors(s) \in Nat /\ Errors(Append(s, x)) = Errors(s) + Bit(x = "err")
  <1>1. IsFiniteSet(ErrorsAt(s))
    <2>1. IsFiniteSet(1..Len(s)) /\ ErrorsAt(s) \in SUBSET (1..Len(s))
      BY FS_Interval DEF ErrorsAt
    <2> QED
      BY <2>1, FS_Subset
  <1>2. ErrorsAt(Append(s, x)) = IF x = "err" THEN ErrorsAt(s) \cup {Len(s) + 1} ELSE ErrorsAt(s)
    BY DEF ErrorsAt
  <1>3. Len(s) + 1 \notin ErrorsAt(s)
    BY DEF ErrorsAt
  <1> QED
    BY <1>1, <1>2, <1>3, FS_AddElement, FS_CardinalityType DEF Errors, Bit

(* A result received was one of those.                                     *)
LEMMA ErrorsOfTail ==
  ASSUME NEW s \in Seq({"ok", "err"}), s # <<>>
  PROVE  /\ Errors(s) \in Nat /\ Errors(Tail(s)) \in Nat
         /\ Errors(s) = Errors(Tail(s)) + Bit(Head(s) = "err")
  <1> DEFINE A == ErrorsAt(s)
             B == ErrorsAt(Tail(s))
             F == [i \in A \ {1} |-> i - 1]
  <1>1. /\ Len(s) \in Nat \ {0} /\ DOMAIN s = 1..Len(s) /\ DOMAIN Tail(s) = 1..(Len(s) - 1)
        /\ \A i \in DOMAIN Tail(s) : Tail(s)[i] = s[i + 1]
        /\ Head(s) = s[1]
    OBVIOUS
  <1>2. IsFiniteSet(A)
    <2>1. IsFiniteSet(1..Len(s)) /\ A \in SUBSET (1..Len(s))
      BY <1>1, FS_Interval DEF ErrorsAt
    <2> QED
      BY <2>1, FS_Subset
  <1>3. IsFiniteSet(A \ {1})
        /\ Cardinality(A \ {1}) = IF 1 \in A THEN Cardinality(A) - 1 ELSE Cardinality(A)
    BY <1>2, FS_RemoveElement
  <1>4. F \in Bijection(A \ {1}, B)
    <2>1. \A i \in A \ {1} : i \in Nat /\ i - 1 \in B /\ (i - 1) + 1 = i
      BY <1>1 DEF ErrorsAt
    <2>2. \A j \in B : j \in Nat /\ j + 1 \in A \ {1} /\ (j + 1) - 1 = j
      BY <1>1 DEF ErrorsAt
    <2>3. F \in [A \ {1} -> B]
      BY <2>1
    <2> HIDE DEF A, B
    <2>4. \A a, b \in A \ {1} : F[a] = F[b] => a = b
      BY <2>1
    <2>5. \A j \in B : \E i \in A \ {1} : F[i] = j
      BY <2>2
    <2> QED
      BY <2>3, <2>4, <2>5 DEF Bijection, Injection, Surjection, IsInjective
  <1>5. Cardinality(B) = Cardinality(A \ {1}) /\ IsFiniteSet(B)
    BY <1>3, <1>4, FS_Bijection DEF ExistsBijection
  <1>6. 1 \in A <=> Head(s) = "err"
    BY <1>1 DEF ErrorsAt
  <1>7. Cardinality(A) \in Nat /\ Cardinality(B) \in Nat
    BY <1>2, <1>5, FS_CardinalityType
  <1> HIDE DEF A, B
  <1> QED
    BY <1>3, <1>5, <1>6, <1>7 DEF Errors, Bit, A, B
----------------------------------------------------------------------------
(* The run begins with nothing to account for.                             *)
LEMMA InitInv == Init => Inv
  <1> SUFFICES ASSUME Init PROVE Inv
    OBVIOUS
  <1>1. Typing
    <2>1. 0 \in 0..MaxTokens /\ 0 \in 0..JobCap /\ 0 <= ResultCap /\ 0 \in 0..2
      BY LoadAssumption
    <2>2. draft \in [status : Status, rps : Nat, total : Nat]
      BY DEF Init, NoDraft, Status
    <2>3. worker \in [Workers -> States] /\ executed \in [all : Nat, failed : Nat]
      BY DEF Init, States
    <2>4. results \in Seq({"ok", "err"}) /\ Len(results) = 0 /\ sent \in Seq(SentSample)
      BY DEF Init
    <2> QED
      BY <2>1, <2>2, <2>3, <2>4 DEF Init, Typing
  <1>2. FlowInv
    <2>1. At({"busy"}) = {} /\ At({"ok", "err"}) = {} /\ At({"err"}) = {} /\ ErrorsAt(results) = {}
      BY DEF Init, At, ErrorsAt
    <2>2. Number({"busy"}) = 0 /\ Number({"ok", "err"}) = 0 /\ Number({"err"}) = 0
          /\ Errors(results) = 0
      BY <2>1, FS_EmptySet DEF Number, Errors
    <2> QED
      BY <2>2 DEF Init, FlowInv, Bit
  <1>3. ShutInv /\ MainInv /\ SampleInv /\ SamplesCatchUp /\ TerminalSampleAccounts
    BY DEF Init, ShutInv, MainInv, SampleInv, SamplesCatchUp, TerminalSampleAccounts, NoDraft,
           SumSent, Bit
  <1> QED
    BY <1>1, <1>2, <1>3 DEF Inv

(* What drive says is not disturbed by the goroutines around it: what they *)
(* add to the counter they add to the window or still hold, and the        *)
(* counters of a collector that has gone stand still.                      *)
LEMMA AroundDrive ==
  ASSUME Inv, Typing', FlowInv', ShutInv', UNCHANGED mainVars,
         totalReq <= totalReq', totalErr <= totalErr',
         windowReq' + Bit(collector' \in {"error", "window"}) + totalReq
           = windowReq + Bit(collector \in {"error", "window"}) + totalReq',
         collector = "done" =>
           UNCHANGED <<collector, windowReq, totalReq, totalErr, executed>>
  PROVE  Inv'
  <1> USE DEF mainVars
  <1>1. /\ windowReq \in Nat /\ totalReq \in Nat /\ totalErr \in Nat
        /\ windowReq' \in Nat /\ totalReq' \in Nat /\ totalErr' \in Nat
        /\ draft.rps \in Nat /\ draft.total \in Nat /\ SumSent \in Nat /\ SumSent' = SumSent
        /\ \A i \in DOMAIN sent : /\ sent[i].rps \in Nat /\ sent[i].sum \in Nat
                                  /\ sent[i].total \in Nat /\ sent[i].errors \in Nat
    <2>1. sent \in Seq(SentSample)
      BY DEF Inv, Typing
    <2>2. \A i \in DOMAIN sent : /\ sent[i].rps \in Nat /\ sent[i].sum \in Nat
                                 /\ sent[i].total \in Nat /\ sent[i].errors \in Nat
      <3>1. \A i \in DOMAIN sent : sent[i] \in SentSample
        BY <2>1
      <3> QED
        BY <3>1 DEF SentSample
    <2>3. SumSent \in Nat
      BY <2>1, <2>2 DEF SumSent, Last
    <2> QED
      BY <2>2, <2>3 DEF Inv, Typing, SumSent
  <1>2. /\ Bit(collector \in {"error", "window"}) \in {0, 1}
        /\ Bit(collector' \in {"error", "window"}) \in {0, 1}
    BY DEF Bit
  <1>3. MainInv'
    BY DEF Inv, MainInv
  <1>4. SampleInv'
    <2>1. /\ windowReq' + draft.rps + SumSent + Bit(collector' \in {"error", "window"}) <= totalReq'
          /\ ~sinkFailed =>
               windowReq' + draft.rps + SumSent + Bit(collector' \in {"error", "window"}) = totalReq'
      BY <1>1, <1>2 DEF Inv, SampleInv
    <2>2. \A i \in DOMAIN sent :
            sent[i].rps <= sent[i].sum /\ sent[i].total <= totalReq' /\ sent[i].errors <= totalErr'
      BY <1>1 DEF Inv, SampleInv
    <2>3. main = "send" =>
            /\ draft.total <= totalReq'
            /\ draft.status # "RUNNING" => draft.total = totalReq'
            /\ draft.rps + SumSent <= draft.total
            /\ \A i \in DOMAIN sent :
                 sent[i].total <= draft.total /\ sent[i].errors <= draft.total
      BY <1>1 DEF Inv, SampleInv, MainInv
    <2> QED
      BY <1>1, <2>1, <2>2, <2>3 DEF SampleInv
  <1>5. SamplesCatchUp'
    BY DEF Inv, SamplesCatchUp
  <1>6. TerminalSampleAccounts'
    BY DEF Inv, ShutInv, TerminalSampleAccounts
  <1> QED
    BY <1>3, <1>4, <1>5, <1>6 DEF Inv

(* The numbers that the steps below add up are numbers.                    *)
LEMMA Sizes ==
  ASSUME Typing
  PROVE  /\ Number({"busy"}) \in Nat /\ Number({"ok", "err"}) \in Nat /\ Number({"err"}) \in Nat
         /\ Errors(results) \in Nat /\ Len(results) \in Nat
         /\ executed.all \in Nat /\ executed.failed \in Nat
         /\ tokens \in Nat /\ MaxTokens \in Nat /\ tokens <= MaxTokens
         /\ jobs \in Nat /\ JobCap \in Nat /\ jobs <= JobCap
         /\ dropped \in Nat /\ totalReq \in Nat /\ totalErr \in Nat /\ windowReq \in Nat
  BY LoadAssumption, Numbers, ErrorsOfAppend DEF Typing

(* A tick of the producer makes a token or drops it; then it returns.      *)
LEMMA ProducerInv ==
  ASSUME Inv, Producer
  PROVE  Inv'
  <1> USE DEF timeVars, producerVars, collectorVars, counters
  <1>1. Typing /\ FlowInv
    BY DEF Inv
  <1>2. UNCHANGED <<clock, cancelled, runCancelled, worker, results, resultsClosed, collector,
                    held, totalReq, totalErr, windowReq, mainVars, executed>>
    BY DEF Producer, Tick, ProducerReturns
  <1>3. /\ tokens' \in 0..MaxTokens /\ dropped' \in Nat /\ jobs' \in 0..JobCap
        /\ jobsClosed' \in BOOLEAN
        /\ tokens' + dropped + jobs = tokens + dropped' + jobs'
    <2>1. CASE Tick
      <3>1. /\ tokens < MaxTokens /\ tokens' = tokens + 1 /\ jobsClosed' = jobsClosed
            /\ \/ jobs < JobCap /\ jobs' = jobs + 1 /\ dropped' = dropped
               \/ dropped' = dropped + 1 /\ jobs' = jobs
        BY <2>1 DEF Tick
      <3>2. jobsClosed \in BOOLEAN
        BY DEF Inv, Typing
      <3> QED
        <4>1. tokens' \in 0..MaxTokens
          <5>1. tokens \in Nat /\ MaxTokens \in Nat
            BY <1>1, Sizes
          <5>2. tokens < MaxTokens /\ tokens' = tokens + 1
            BY <3>1
          <5> QED
            BY <5>1, <5>2
        <4>2. dropped' \in Nat /\ jobs' \in 0..JobCap
          <5>1. dropped \in Nat /\ jobs \in Nat /\ JobCap \in Nat /\ jobs <= JobCap
            BY <1>1, Sizes
          <5>2. \/ jobs < JobCap /\ jobs' = jobs + 1 /\ dropped' = dropped
                \/ dropped' = dropped + 1 /\ jobs' = jobs
            BY <3>1
          <5> QED
            BY <5>1, <5>2
        <4>3. tokens' + dropped + jobs = tokens + dropped' + jobs'
          <5>1. tokens \in Nat /\ dropped \in Nat /\ jobs \in Nat
            BY <1>1, Sizes
          <5> QED
            BY <3>1, <5>1
        <4> QED
          BY <3>1, <3>2, <4>1, <4>2, <4>3
    <2>2. CASE ProducerReturns
      BY <2>2, Sizes DEF ProducerReturns, Inv, Typing
    <2> QED
      BY <2>1, <2>2 DEF Producer
  <1>4. Typing'
    BY <1>2, <1>3 DEF mainVars, Inv, Typing
  <1>5. Number({"busy"})' = Number({"busy"}) /\ Number({"ok", "err"})' = Number({"ok", "err"})
        /\ Number({"err"})' = Number({"err"})
    BY <1>2 DEF Number, At
  <1>6. FlowInv'
    <2>1. tokens' = dropped' + jobs' + Number({"busy"}) + executed.all
      <3>1. tokens = dropped + jobs + Number({"busy"}) + executed.all
        BY <1>1 DEF FlowInv
      <3>2. tokens' \in Nat /\ jobs' \in Nat /\ dropped' \in Nat
        BY <1>1, <1>3, Sizes
      <3>3. /\ tokens \in Nat /\ jobs \in Nat /\ dropped \in Nat
            /\ Number({"busy"}) \in Nat /\ executed.all \in Nat
        BY <1>1, Sizes
      <3> QED
        BY <1>3, <3>1, <3>2, <3>3
    <2> QED
      BY <1>1, <1>2, <1>5, <2>1 DEF FlowInv
  <1>7. ShutInv'
    BY <1>2 DEF mainVars, Inv, ShutInv
  <1> QED
    BY <1>2, <1>4, <1>6, <1>7, AroundDrive DEF Typing

(* The three numbers that FlowInv adds up, when a worker moves.            *)
LEMMA Moved ==
  ASSUME Typing, NEW w \in Workers, NEW to, worker' = [worker EXCEPT ![w] = to]
  PROVE  /\ Number({"busy"})' \in Nat /\ Number({"ok", "err"})' \in Nat
         /\ Number({"err"})' \in Nat
         /\ Number({"busy"})' + Bit(worker[w] = "busy") = Number({"busy"}) + Bit(to = "busy")
         /\ Number({"ok", "err"})' + Bit(worker[w] \in {"ok", "err"})
              = Number({"ok", "err"}) + Bit(to \in {"ok", "err"})
         /\ Number({"err"})' + Bit(worker[w] = "err") = Number({"err"}) + Bit(to = "err")
  <1>1. \A x : (x \in {"busy"} <=> x = "busy") /\ (x \in {"err"} <=> x = "err")
    OBVIOUS
  <1>2. /\ Number({"busy"})' \in Nat
        /\ Number({"busy"})' + Bit(worker[w] \in {"busy"}) = Number({"busy"}) + Bit(to \in {"busy"})
    BY Moves
  <1>3. /\ Number({"ok", "err"})' \in Nat
        /\ Number({"ok", "err"})' + Bit(worker[w] \in {"ok", "err"})
             = Number({"ok", "err"}) + Bit(to \in {"ok", "err"})
    BY Moves
  <1>4. /\ Number({"err"})' \in Nat
        /\ Number({"err"})' + Bit(worker[w] \in {"err"}) = Number({"err"}) + Bit(to \in {"err"})
    BY Moves
  <1> QED
    BY <1>1, <1>2, <1>3, <1>4 DEF Bit

(* A worker takes a token, or leaves.                                      *)
LEMMA TakeJobInv ==
  ASSUME Inv, NEW w \in Workers, Driving, TakeJob(w) \/ WorkerReturns(w)
  PROVE  Inv'
  <1> USE DEF timeVars, producerVars, collectorVars, counters
  <1>1. Typing /\ FlowInv
    BY DEF Inv
  <1>2. PICK to \in {"busy", "gone"} :
          /\ worker[w] = "idle" /\ worker' = [worker EXCEPT ![w] = to]
          /\ IF to = "busy" THEN jobs > 0 /\ jobs' = jobs - 1 ELSE jobs' = jobs
    BY DEF TakeJob, WorkerReturns
  <1>3. UNCHANGED <<clock, cancelled, runCancelled, tokens, dropped, jobsClosed, results,
                    resultsClosed, collector, held, totalReq, totalErr, windowReq, mainVars,
                    executed>>
    BY DEF TakeJob, WorkerReturns
  <1>4. /\ jobs \in Nat /\ JobCap \in Nat /\ jobs <= JobCap /\ dropped \in Nat
        /\ Number({"busy"}) \in Nat /\ Number({"ok", "err"}) \in Nat /\ Number({"err"}) \in Nat
        /\ executed.all \in Nat
    BY <1>1, Sizes
  <1>5. /\ Number({"busy"})' = Number({"busy"}) + Bit(to = "busy")
        /\ Number({"ok", "err"})' = Number({"ok", "err"}) /\ Number({"err"})' = Number({"err"})
    <2>1. /\ Number({"busy"})' \in Nat /\ Number({"ok", "err"})' \in Nat
          /\ Number({"err"})' \in Nat
          /\ Number({"busy"})' + Bit(worker[w] = "busy") = Number({"busy"}) + Bit(to = "busy")
          /\ Number({"ok", "err"})' + Bit(worker[w] \in {"ok", "err"})
               = Number({"ok", "err"}) + Bit(to \in {"ok", "err"})
          /\ Number({"err"})' + Bit(worker[w] = "err") = Number({"err"}) + Bit(to = "err")
      BY <1>1, <1>2, Moved
    <2>2. /\ Bit(worker[w] = "busy") = 0 /\ Bit(worker[w] \in {"ok", "err"}) = 0
          /\ Bit(worker[w] = "err") = 0
          /\ Bit(to = "busy") \in {0, 1} /\ Bit(to \in {"ok", "err"}) = 0 /\ Bit(to = "err") = 0
      BY <1>2 DEF Bit
    <2> QED
      BY <1>4, <2>1, <2>2
  <1>6. jobs' \in 0..JobCap /\ jobs' + Bit(to = "busy") = jobs
    BY <1>2, <1>4 DEF Bit
  <1>7. Typing'
    <2>1. worker' \in [Workers -> States]
      BY <1>1, <1>2 DEF Typing, States
    <2> QED
      BY <1>1, <1>3, <1>6, <2>1 DEF mainVars, Typing
  <1>8. FlowInv'
    <2>1. tokens = dropped + jobs + Number({"busy"}) + executed.all
      BY <1>1 DEF FlowInv
    <2>2. tokens = dropped + jobs' + Number({"busy"})' + executed.all
      BY <1>2, <1>4, <1>5, <2>1 DEF Bit
    <2> QED
      BY <1>1, <1>3, <1>5, <2>2 DEF FlowInv
  <1>9. ShutInv'
    BY <1>1, <1>2, <1>3 DEF mainVars, Inv, ShutInv, Typing
  <1> QED
    BY <1>3, <1>7, <1>8, <1>9, AroundDrive, <1>1 DEF Typing

(* A request ends, well or badly.                                          *)
LEMMA ExecOneInv ==
  ASSUME Inv, NEW w \in Workers, Driving, ExecOne(w)
  PROVE  Inv'
  <1> USE DEF timeVars, producerVars, collectorVars, counters
  <1>1. Typing /\ FlowInv
    BY DEF Inv
  <1>2. PICK outcome \in {"ok", "err"} :
          /\ worker[w] = "busy" /\ worker' = [worker EXCEPT ![w] = outcome]
          /\ executed' = [all |-> executed.all + 1,
                          failed |-> executed.failed + (IF outcome = "err" THEN 1 ELSE 0)]
    BY DEF ExecOne
  <1>3. UNCHANGED <<clock, cancelled, runCancelled, tokens, dropped, jobsClosed, jobs, results,
                    resultsClosed, collector, held, totalReq, totalErr, windowReq, mainVars>>
    BY DEF ExecOne
  <1>4. /\ jobs \in Nat /\ dropped \in Nat /\ totalReq \in Nat /\ totalErr \in Nat
        /\ Number({"busy"}) \in Nat /\ Number({"ok", "err"}) \in Nat /\ Number({"err"}) \in Nat
        /\ executed.all \in Nat /\ executed.failed \in Nat /\ Len(results) \in Nat
        /\ Errors(results) \in Nat
    BY <1>1, Sizes
  <1>5. /\ Number({"busy"})' \in Nat /\ Number({"busy"})' + 1 = Number({"busy"})
        /\ Number({"ok", "err"})' = Number({"ok", "err"}) + 1
        /\ Number({"err"})' = Number({"err"}) + Bit(outcome = "err")
    <2>1. /\ Number({"busy"})' \in Nat /\ Number({"ok", "err"})' \in Nat
          /\ Number({"err"})' \in Nat
          /\ Number({"busy"})' + Bit(worker[w] = "busy") = Number({"busy"}) + Bit(outcome = "busy")
          /\ Number({"ok", "err"})' + Bit(worker[w] \in {"ok", "err"})
               = Number({"ok", "err"}) + Bit(outcome \in {"ok", "err"})
          /\ Number({"err"})' + Bit(worker[w] = "err") = Number({"err"}) + Bit(outcome = "err")
      BY <1>1, <1>2, Moved
    <2>2. /\ Bit(worker[w] = "busy") = 1 /\ Bit(worker[w] \in {"ok", "err"}) = 0
          /\ Bit(worker[w] = "err") = 0
          /\ Bit(outcome = "busy") = 0 /\ Bit(outcome \in {"ok", "err"}) = 1
          /\ Bit(outcome = "err") \in {0, 1}
      BY <1>2 DEF Bit
    <2> QED
      BY <1>4, <2>1, <2>2
  <1>6. /\ executed'.all = executed.all + 1
        /\ executed'.failed = executed.failed + Bit(outcome = "err")
        /\ Bit(outcome = "err") \in {0, 1}
    BY <1>2 DEF Bit
  <1>7. Typing'
    <2>1. worker' \in [Workers -> States]
      BY <1>1, <1>2 DEF Typing, States
    <2>2. executed' \in [all : Nat, failed : Nat]
      BY <1>2, <1>4
    <2> QED
      BY <1>1, <1>3, <2>1, <2>2 DEF mainVars, Typing
  <1>8. FlowInv'
    <2> DEFINE held1 == Bit(collector = "error" /\ held = "err")
    <2>1. /\ tokens = dropped + jobs + Number({"busy"}) + executed.all
          /\ executed.all = totalReq + Len(results) + Number({"ok", "err"})
          /\ executed.failed = totalErr + held1 + Errors(results) + Number({"err"})
          /\ executed.failed <= executed.all
          /\ held1 \in {0, 1}
      BY <1>1 DEF FlowInv, Bit
    <2> HIDE DEF held1
    <2>2. /\ tokens = dropped + jobs + Number({"busy"})' + executed'.all
          /\ executed'.all = totalReq + Len(results) + Number({"ok", "err"})'
      <3>1. executed'.all = executed.all + 1 /\ executed.all \in Nat
        BY <1>4, <1>6
      <3>2. tokens = dropped + jobs + (Number({"busy"})' + 1) + executed.all
        BY <1>5, <2>1
      <3>3. tokens = dropped + jobs + Number({"busy"})' + executed'.all
        BY <1>4, <1>5, <3>1, <3>2
      <3>4. executed'.all = totalReq + Len(results) + Number({"ok", "err"})'
        BY <1>4, <1>5, <2>1, <3>1
      <3> QED
        BY <3>3, <3>4
    <2>3. executed'.failed = totalErr + held1 + Errors(results) + Number({"err"})'
      <3>1. Bit(outcome = "err") \in Nat /\ held1 \in Nat
        BY <1>6, <2>1
      <3>2. executed'.failed
              = (totalErr + held1 + Errors(results) + Number({"err"})) + Bit(outcome = "err")
        BY <1>6, <2>1
      <3> QED
        BY <1>4, <1>5, <3>1, <3>2
    <2>4. executed'.failed <= executed'.all
      <3>1. PICK f \in Nat, a \in Nat : f = executed.failed /\ a = executed.all
        BY <1>4
      <3>2. f <= a
        BY <2>1, <3>1
      <3>3. executed'.failed = f + Bit(outcome = "err") /\ executed'.all = a + 1
        BY <1>6, <3>1
      <3>4. f + Bit(outcome = "err") <= a + 1
        <4>1. CASE Bit(outcome = "err") = 0
          BY <3>2, <4>1
        <4>2. CASE Bit(outcome = "err") = 1
          BY <3>2, <4>2
        <4> QED
          BY <1>6, <4>1, <4>2
      <3> QED
        BY <3>3, <3>4
    <2> QED
      BY <1>1, <1>3, <2>2, <2>3, <2>4 DEF FlowInv, held1
  <1>9. ShutInv' /\ collector # "done"
    <2>1. worker[w] # "gone" /\ ~resultsClosed
      BY <1>2 DEF Inv, ShutInv
    <2> QED
      BY <1>3, <2>1 DEF mainVars, Inv, ShutInv
  <1> QED
    BY <1>3, <1>7, <1>8, <1>9, AroundDrive, <1>1 DEF Typing

(* The outcome goes to the collector.                                      *)
LEMMA SendResultInv ==
  ASSUME Inv, NEW w \in Workers, Driving, SendResult(w)
  PROVE  Inv'
  <1> USE DEF timeVars, producerVars, collectorVars, counters
  <1>1. Typing /\ FlowInv
    BY DEF Inv
  <1>2. /\ worker[w] \in {"ok", "err"} /\ worker' = [worker EXCEPT ![w] = "idle"]
        /\ Len(results) < ResultCap /\ results' = Append(results, worker[w])
    BY DEF SendResult
  <1>3. UNCHANGED <<clock, cancelled, runCancelled, tokens, dropped, jobsClosed, jobs,
                    resultsClosed, collector, held, totalReq, totalErr, windowReq, mainVars,
                    executed>>
    BY DEF SendResult
  <1>4. /\ totalReq \in Nat /\ totalErr \in Nat
        /\ Number({"busy"}) \in Nat /\ Number({"ok", "err"}) \in Nat /\ Number({"err"}) \in Nat
        /\ Len(results) \in Nat /\ Errors(results) \in Nat
    BY <1>1, Sizes
  <1>5. /\ Number({"busy"})' = Number({"busy"})
        /\ Number({"ok", "err"})' \in Nat /\ Number({"ok", "err"})' + 1 = Number({"ok", "err"})
        /\ Number({"err"})' \in Nat
        /\ Number({"err"})' + Bit(worker[w] = "err") = Number({"err"})
    <2>1. /\ Number({"busy"})' \in Nat /\ Number({"ok", "err"})' \in Nat
          /\ Number({"err"})' \in Nat
          /\ Number({"busy"})' + Bit(worker[w] = "busy") = Number({"busy"}) + Bit("idle" = "busy")
          /\ Number({"ok", "err"})' + Bit(worker[w] \in {"ok", "err"})
               = Number({"ok", "err"}) + Bit("idle" \in {"ok", "err"})
          /\ Number({"err"})' + Bit(worker[w] = "err") = Number({"err"}) + Bit("idle" = "err")
      BY <1>1, <1>2, Moved
    <2>2. /\ Bit(worker[w] = "busy") = 0 /\ Bit(worker[w] \in {"ok", "err"}) = 1
          /\ Bit(worker[w] = "err") \in {0, 1}
          /\ Bit("idle" = "busy") = 0 /\ Bit("idle" \in {"ok", "err"}) = 0
          /\ Bit("idle" = "err") = 0
      BY <1>2 DEF Bit
    <2> QED
      BY <1>4, <2>1, <2>2
  <1>6. /\ results \in Seq({"ok", "err"}) /\ results' \in Seq({"ok", "err"})
        /\ Len(results') = Len(results) + 1 /\ Len(results') <= ResultCap
    BY <1>1, <1>2, LoadAssumption DEF Typing
  <1>7. Errors(results') = Errors(results) + Bit(worker[w] = "err")
        /\ Bit(worker[w] = "err") \in {0, 1}
    BY <1>2, <1>6, ErrorsOfAppend DEF Bit
  <1>8. Typing'
    <2>1. worker' \in [Workers -> States]
      BY <1>1, <1>2 DEF Typing, States
    <2> QED
      BY <1>1, <1>3, <1>6, <2>1 DEF mainVars, Typing
  <1>9. FlowInv'
    <2> DEFINE held1 == Bit(collector = "error" /\ held = "err")
    <2>1. /\ executed.all = totalReq + Len(results) + Number({"ok", "err"})
          /\ executed.failed = totalErr + held1 + Errors(results) + Number({"err"})
          /\ held1 \in {0, 1}
      BY <1>1 DEF FlowInv, Bit
    <2> HIDE DEF held1
    <2>2. executed.all = totalReq + Len(results') + Number({"ok", "err"})'
      BY <1>4, <1>5, <1>6, <2>1
    <2>3. executed.failed = totalErr + held1 + Errors(results') + Number({"err"})'
      BY <1>4, <1>5, <1>7, <2>1
    <2> QED
      BY <1>1, <1>3, <1>5, <2>2, <2>3 DEF FlowInv, held1, Errors
  <1>10. ShutInv' /\ collector # "done"
    <2>1. worker[w] # "gone" /\ ~resultsClosed
      BY <1>2 DEF Inv, ShutInv
    <2> QED
      BY <1>3, <2>1 DEF mainVars, Inv, ShutInv
  <1> QED
    BY <1>3, <1>8, <1>9, <1>10, AroundDrive, <1>1 DEF Typing

(* The collector takes a result and counts the request.                    *)
LEMMA CountRequestInv ==
  ASSUME Inv, Driving, CountRequest
  PROVE  Inv'
  <1> USE DEF timeVars, producerVars, collectorVars, counters
  <1>1. Typing /\ FlowInv
    BY DEF Inv
  <1>2. /\ collector = "recv" /\ collector' = "error" /\ results # <<>>
        /\ held' = Head(results) /\ results' = Tail(results) /\ totalReq' = totalReq + 1
    BY DEF CountRequest
  <1>3. UNCHANGED <<clock, cancelled, runCancelled, tokens, dropped, jobsClosed, jobs, worker,
                    resultsClosed, totalErr, windowReq, mainVars, executed>>
    BY DEF CountRequest
  <1>4. /\ totalReq \in Nat /\ totalErr \in Nat /\ windowReq \in Nat
        /\ Number({"ok", "err"}) \in Nat /\ Number({"err"}) \in Nat
        /\ Len(results) \in Nat /\ Errors(results) \in Nat
    BY <1>1, Sizes
  <1>5. /\ results \in Seq({"ok", "err"}) /\ results' \in Seq({"ok", "err"})
        /\ Len(results') \in Nat /\ Len(results') + 1 = Len(results)
        /\ Len(results') <= ResultCap /\ held' \in {"ok", "err"}
    BY <1>1, <1>2, LoadAssumption DEF Typing
  <1>6. /\ Errors(results') \in Nat
        /\ Errors(results) = Errors(results') + Bit(held' = "err")
        /\ Bit(held' = "err") \in {0, 1}
    BY <1>2, <1>5, ErrorsOfTail DEF Bit
  <1>7. Typing'
    BY <1>1, <1>2, <1>3, <1>4, <1>5 DEF mainVars, Typing
  <1>8. /\ Number({"busy"})' = Number({"busy"}) /\ Number({"ok", "err"})' = Number({"ok", "err"})
        /\ Number({"err"})' = Number({"err"})
    BY <1>3 DEF Number, At
  <1>9. FlowInv'
    <2>1. /\ executed.all = totalReq + Len(results) + Number({"ok", "err"})
          /\ executed.failed = totalErr + 0 + Errors(results) + Number({"err"})
          /\ totalErr + 0 <= totalReq
      BY <1>1, <1>2 DEF FlowInv, Bit
    <2>2. executed.all = totalReq' + Len(results') + Number({"ok", "err"})'
      BY <1>2, <1>4, <1>5, <1>8, <2>1
    <2>3. executed.failed = totalErr + Bit(held' = "err") + Errors(results') + Number({"err"})'
      BY <1>4, <1>6, <1>8, <2>1
    <2>4. totalErr + 1 <= totalReq'
      BY <1>2, <1>4, <2>1
    <2>5. /\ Bit(collector' = "error" /\ held' = "err") = Bit(held' = "err")
          /\ Bit(collector' = "error") = 1
      BY <1>2 DEF Bit
    <2> QED
      BY <1>1, <1>3, <1>8, <2>2, <2>3, <2>4, <2>5 DEF FlowInv, Errors
  <1>10. ShutInv'
    BY <1>2, <1>3 DEF mainVars, Inv, ShutInv
  <1>11. /\ totalReq <= totalReq' /\ totalErr <= totalErr'
         /\ windowReq' + Bit(collector' \in {"error", "window"}) + totalReq
              = windowReq + Bit(collector \in {"error", "window"}) + totalReq'
    BY <1>2, <1>3, <1>4 DEF Bit
  <1> QED
    BY <1>2, <1>3, <1>7, <1>9, <1>10, <1>11, AroundDrive

(* Then the error, if it is one.                                           *)
LEMMA CountErrorInv ==
  ASSUME Inv, Driving, CountError
  PROVE  Inv'
  <1> USE DEF timeVars, producerVars, collectorVars, counters
  <1>1. Typing /\ FlowInv
    BY DEF Inv
  <1>2. /\ collector = "error" /\ collector' = "window"
        /\ totalErr' = IF held = "err" THEN totalErr + 1 ELSE totalErr
    BY DEF CountError
  <1>3. UNCHANGED <<clock, cancelled, runCancelled, tokens, dropped, jobsClosed, jobs, worker,
                    results, resultsClosed, held, totalReq, windowReq, mainVars, executed>>
    BY DEF CountError
  <1>4. totalReq \in Nat /\ totalErr \in Nat /\ windowReq \in Nat
    BY <1>1, Sizes
  <1>5. /\ totalErr' = totalErr + Bit(held = "err") /\ Bit(held = "err") \in {0, 1}
        /\ Bit(collector = "error" /\ held = "err") = Bit(held = "err")
        /\ Bit(collector = "error") = 1
        /\ Bit(collector' = "error" /\ held = "err") = 0 /\ Bit(collector' = "error") = 0
        /\ Bit(collector' \in {"error", "window"}) = Bit(collector \in {"error", "window"})
    BY <1>2, <1>4 DEF Bit
  <1>6. Typing'
    BY <1>1, <1>2, <1>3, <1>4 DEF mainVars, Typing
  <1>7. FlowInv'
    <2>1. /\ Number({"busy"})' = Number({"busy"})
          /\ Number({"ok", "err"})' = Number({"ok", "err"}) /\ Number({"err"})' = Number({"err"})
          /\ Errors(results)' = Errors(results)
      BY <1>3 DEF Number, At, Errors
    <2>2. totalErr' + 0 = totalErr + Bit(held = "err") /\ totalErr' + 0 <= totalReq
      BY <1>1, <1>4, <1>5 DEF FlowInv
    <2> QED
      BY <1>1, <1>3, <1>5, <2>1, <2>2 DEF FlowInv
  <1>8. ShutInv'
    BY <1>2, <1>3 DEF mainVars, Inv, ShutInv
  <1>9. totalErr <= totalErr' /\ totalReq <= totalReq'
    BY <1>3, <1>4, <1>5
  <1> QED
    BY <1>2, <1>3, <1>5, <1>6, <1>7, <1>8, <1>9, AroundDrive

(* Then the window, or it leaves.                                          *)
LEMMA CountWindowInv ==
  ASSUME Inv, Driving, CountWindow \/ CollectorReturns
  PROVE  Inv'
  <1> USE DEF timeVars, producerVars, collectorVars, counters
  <1>1. Typing /\ FlowInv
    BY DEF Inv
  <1>2. /\ collector \in {"window", "recv"} /\ collector' \in {"recv", "done"}
        /\ collector = "window" => collector' = "recv" /\ windowReq' = windowReq + 1
        /\ collector = "recv" => UNCHANGED windowReq
        /\ collector' = "done" => results = <<>> /\ resultsClosed
    BY DEF CountWindow, CollectorReturns
  <1>3. UNCHANGED <<clock, cancelled, runCancelled, tokens, dropped, jobsClosed, jobs, worker,
                    results, resultsClosed, held, totalReq, totalErr, mainVars, executed>>
    BY DEF CountWindow, CollectorReturns
  <1>4. totalReq \in Nat /\ totalErr \in Nat /\ windowReq \in Nat
    BY <1>1, Sizes
  <1>5. /\ Bit(collector = "error" /\ held = "err") = 0 /\ Bit(collector = "error") = 0
        /\ Bit(collector' = "error" /\ held = "err") = 0 /\ Bit(collector' = "error") = 0
        /\ Bit(collector' \in {"error", "window"}) = 0
        /\ windowReq' = windowReq + Bit(collector \in {"error", "window"})
        /\ windowReq' \in Nat /\ Bit(collector \in {"error", "window"}) \in Nat
    BY <1>2, <1>4 DEF Bit
  <1>6. Typing'
    BY <1>1, <1>2, <1>3, <1>5 DEF mainVars, Typing
  <1>7. FlowInv'
    <2>1. /\ Number({"busy"})' = Number({"busy"})
          /\ Number({"ok", "err"})' = Number({"ok", "err"}) /\ Number({"err"})' = Number({"err"})
          /\ Errors(results)' = Errors(results)
      BY <1>3 DEF Number, At, Errors
    <2> QED
      BY <1>1, <1>3, <1>5, <2>1 DEF FlowInv
  <1>8. ShutInv'
    BY <1>2, <1>3 DEF mainVars, Inv, ShutInv
  <1>9. /\ windowReq' + Bit(collector' \in {"error", "window"}) + totalReq
             = windowReq + Bit(collector \in {"error", "window"}) + totalReq'
        /\ totalErr <= totalErr' /\ totalReq <= totalReq'
    BY <1>3, <1>4, <1>5
  <1> QED
    BY <1>2, <1>3, <1>6, <1>7, <1>8, <1>9, AroundDrive

(* Time passes, or the caller leaves.                                      *)
LEMMA OutsideInv ==
  ASSUME Inv, TimePasses \/ CallerLeaves
  PROVE  Inv'
  <1> USE DEF timeVars, producerVars, collectorVars, counters
  <1>1. Typing /\ FlowInv
    BY DEF Inv
  <1>2. /\ clock' \in 0..2 /\ cancelled' \in BOOLEAN
        /\ UNCHANGED <<runCancelled, tokens, dropped, jobsClosed, jobs, worker, results,
                       resultsClosed, collector, held, totalReq, totalErr, windowReq, mainVars,
                       executed>>
    <2>1. CASE TimePasses
      BY <1>1, <2>1 DEF TimePasses, Typing
    <2>2. CASE CallerLeaves
      BY <1>1, <2>2 DEF CallerLeaves, Typing
    <2> QED
      BY <2>1, <2>2
  <1>3. Typing'
    BY <1>1, <1>2 DEF mainVars, Typing
  <1>4. FlowInv'
    BY <1>1, <1>2 DEF FlowInv, Number, At, Errors
  <1>5. ShutInv'
    BY <1>2 DEF mainVars, Inv, ShutInv
  <1>6. totalReq \in Nat /\ totalErr \in Nat
    BY <1>1, Sizes
  <1> QED
    BY <1>2, <1>3, <1>4, <1>5, <1>6, AroundDrive
----------------------------------------------------------------------------
(* drive leaves the goroutines alone.                                      *)
LEMMA DriveAlone ==
  ASSUME Inv, OthersUnchanged
  PROVE  /\ FlowInv'
         /\ UNCHANGED <<clock, cancelled, tokens, dropped, jobsClosed, jobs, worker, results,
                        collector, held, totalReq, totalErr, executed>>
  <1>1. UNCHANGED <<clock, cancelled, tokens, dropped, jobsClosed, jobs, worker, results,
                    collector, held, totalReq, totalErr, executed>>
    BY DEF OthersUnchanged, producerVars, counters
  <1> QED
    BY <1>1 DEF Inv, FlowInv, Number, At, Errors

(* The steps of drive that say nothing.                                    *)
LEMMA SilentInv ==
  ASSUME Inv, Seeded \/ LoopEnds \/ Join \/ SinkErrorReturned
  PROVE  Inv'
  <1>1. OthersUnchanged /\ UNCHANGED <<windowReq, draft, sent, sinkFailed>>
    BY DEF Seeded, LoopEnds, Join, SinkErrorReturned
  <1>2. FlowInv' /\ UNCHANGED <<clock, cancelled, tokens, dropped, jobsClosed, jobs, worker,
                                results, collector, held, totalReq, totalErr, executed>>
    BY <1>1, DriveAlone
  <1>3. /\ main \in {"seed", "loop", "join", "drain"}
        /\ main' \in {"loop", "join", "drain", "returned"}
        /\ main' = "loop" => main = "seed"
        /\ main' = "returned" => sinkFailed /\ collector = "done"
    BY DEF Seeded, LoopEnds, Join, SinkErrorReturned
  <1>4. resultsClosed' \in BOOLEAN /\ runCancelled' \in BOOLEAN
    BY DEF Seeded, LoopEnds, Join, SinkErrorReturned, Inv, Typing
  <1>5. /\ resultsClosed' => resultsClosed \/ \A w \in Workers : worker[w] = "gone"
        /\ resultsClosed => resultsClosed'
    BY DEF Seeded, LoopEnds, Join, SinkErrorReturned
  <1>6. Typing'
    BY <1>1, <1>2, <1>3, <1>4 DEF Inv, Typing
  <1>7. ShutInv'
    BY <1>2, <1>3, <1>5 DEF Inv, ShutInv
  <1>8. MainInv'
    BY <1>1, <1>2, <1>3 DEF Inv, MainInv
  <1>9. SampleInv' /\ SamplesCatchUp' /\ TerminalSampleAccounts'
    BY <1>1, <1>2, <1>3 DEF Inv, SampleInv, SumSent, SamplesCatchUp, TerminalSampleAccounts
  <1> QED
    BY <1>2, <1>6, <1>7, <1>8, <1>9 DEF Inv

(* The run fails before it drives.                                         *)
LEMMA RunFailsInv ==
  ASSUME Inv, RunFails
  PROVE  Inv'
  <1> DEFINE failed == [status |-> "FAILED", rps |-> 0, total |-> 0, errors |-> 0, sum |-> 0]
  <1>1. OthersUnchanged /\ UNCHANGED <<runCancelled, resultsClosed, windowReq, draft>>
        /\ main = "seed" /\ main' = "failed"
    BY DEF RunFails
  <1>2. FlowInv' /\ UNCHANGED <<clock, cancelled, tokens, dropped, jobsClosed, jobs, worker,
                                results, collector, held, totalReq, totalErr, executed>>
    BY <1>1, DriveAlone
  <1>3. /\ sent = <<>> /\ (sent' = <<>> \/ sent' = <<failed>>) /\ ~sinkFailed
        /\ sinkFailed' \in BOOLEAN
    BY <1>1 DEF RunFails, Inv, MainInv, Typing
  <1>4. failed \in SentSample
    BY DEF SentSample, Status, Terminal
  <1> HIDE DEF failed
  <1>5. Typing'
    <2>1. <<>> \in Seq(SentSample) /\ <<failed>> \in Seq(SentSample)
      BY <1>4
    <2>2. sent' \in Seq(SentSample)
      BY <1>3, <2>1
    <2> QED
      BY <1>1, <1>2, <1>3, <2>2 DEF Inv, Typing
  <1>6. ShutInv' /\ MainInv'
    BY <1>1, <1>2 DEF Inv, ShutInv, MainInv
  <1>7. SumSent = 0 /\ SumSent' = 0
    BY <1>3 DEF SumSent, Last, failed
  <1>8. \A i \in DOMAIN sent' : i = 1 /\ sent'[i] = failed
    BY <1>3
  <1>9. totalReq \in Nat /\ totalErr \in Nat
    BY DEF Inv, Typing
  <1>10. SampleInv' /\ SamplesCatchUp'
    BY <1>1, <1>2, <1>3, <1>7, <1>8, <1>9 DEF Inv, SampleInv, SamplesCatchUp, failed
  <1>11. TerminalSampleAccounts'
    BY <1>1 DEF TerminalSampleAccounts
  <1> QED
    BY <1>2, <1>5, <1>6, <1>10, <1>11 DEF Inv

(* The amounts that the samples are about.                                 *)
LEMMA Amounts ==
  ASSUME Inv
  PROVE  /\ windowReq \in Nat /\ totalReq \in Nat /\ totalErr \in Nat
         /\ draft.rps \in Nat /\ draft.total \in Nat /\ SumSent \in Nat
         /\ sent \in Seq(SentSample)
         /\ \A i \in DOMAIN sent : /\ sent[i].rps \in Nat /\ sent[i].sum \in Nat
                                   /\ sent[i].total \in Nat /\ sent[i].errors \in Nat
         /\ Bit(collector \in {"error", "window"}) \in {0, 1}
         /\ totalErr <= totalReq
  <1>1. sent \in Seq(SentSample)
    BY DEF Inv, Typing
  <1>2. \A i \in DOMAIN sent : /\ sent[i].rps \in Nat /\ sent[i].sum \in Nat
                               /\ sent[i].total \in Nat /\ sent[i].errors \in Nat
    <2>1. \A i \in DOMAIN sent : sent[i] \in SentSample
      BY <1>1
    <2> QED
      BY <2>1 DEF SentSample
  <1>3. SumSent \in Nat
    BY <1>1, <1>2 DEF SumSent, Last
  <1>4. totalReq \in Nat /\ totalErr \in Nat
    BY DEF Inv, Typing
  <1>5. totalErr + Bit(collector = "error") <= totalReq /\ Bit(collector = "error") \in {0, 1}
    BY DEF Inv, FlowInv, Bit
  <1>6. totalErr <= totalReq
    BY <1>4, <1>5
  <1> QED
    BY <1>1, <1>2, <1>3, <1>4, <1>6 DEF Inv, Typing, Bit

(* emit takes the window: what was in it is now in the draft.              *)
LEMMA EmitInv ==
  ASSUME Inv, EmitRunning \/ EmitTerminal
  PROVE  Inv'
  <1>1. PICK status \in Status :
          /\ main' = "total" /\ windowReq' = 0
          /\ draft' = [status |-> status, rps |-> windowReq, total |-> 0]
          /\ OthersUnchanged /\ UNCHANGED <<runCancelled, resultsClosed, sent, sinkFailed>>
          /\ main \in {"loop", "drain"} /\ ~sinkFailed
          /\ status = "RUNNING" => Len(sent) < MaxSamples
          /\ status # "RUNNING" => collector = "done"
    BY DEF EmitRunning, EmitTerminal, Emit, Status, Terminal, Inv, MainInv
  <1>2. FlowInv' /\ UNCHANGED <<clock, cancelled, tokens, dropped, jobsClosed, jobs, worker,
                                results, collector, held, totalReq, totalErr, executed>>
    BY <1>1, DriveAlone
  <1>3. draft = NoDraft /\ draft.rps = 0 /\ draft'.rps = windowReq /\ draft'.status = status
        /\ draft'.total = 0
    BY <1>1 DEF Inv, MainInv, NoDraft
  <1>4. /\ windowReq \in Nat /\ totalReq \in Nat /\ SumSent \in Nat
        /\ Bit(collector \in {"error", "window"}) \in {0, 1} /\ SumSent' = SumSent
    BY <1>1, Amounts DEF SumSent
  <1>5. Typing'
    <2>1. draft' \in [status : Status, rps : Nat, total : Nat]
      BY <1>1, <1>4
    <2> QED
      BY <1>1, <1>2, <2>1 DEF Inv, Typing
  <1>6. ShutInv' /\ MainInv'
    BY <1>1, <1>2, <1>3 DEF Inv, ShutInv, MainInv
  <1>7. SampleInv'
    <2>1. windowReq + 0 + SumSent + Bit(collector \in {"error", "window"}) = totalReq
      BY <1>1, <1>3 DEF Inv, SampleInv
    <2>2. /\ 0 + windowReq + SumSent + Bit(collector \in {"error", "window"}) = totalReq
          /\ 0 + windowReq + SumSent + Bit(collector \in {"error", "window"}) <= totalReq
      BY <1>4, <2>1
    <2>3. \A i \in DOMAIN sent :
            sent[i].rps <= sent[i].sum /\ sent[i].total <= totalReq /\ sent[i].errors <= totalErr
      BY DEF Inv, SampleInv
    <2> QED
      BY <1>1, <1>2, <1>3, <1>4, <2>2, <2>3 DEF SampleInv
  <1>8. SamplesCatchUp' /\ TerminalSampleAccounts'
    BY <1>1 DEF Inv, SamplesCatchUp, TerminalSampleAccounts
  <1> QED
    BY <1>2, <1>5, <1>6, <1>7, <1>8 DEF Inv

(* It loads the total: no sample before is ahead of it.                    *)
LEMMA LoadTotalInv ==
  ASSUME Inv, LoadTotal
  PROVE  Inv'
  <1>1. /\ main = "total" /\ main' = "send" /\ draft' = [draft EXCEPT !.total = totalReq]
        /\ OthersUnchanged
        /\ UNCHANGED <<runCancelled, resultsClosed, windowReq, sent, sinkFailed>>
    BY DEF LoadTotal
  <1>2. FlowInv' /\ UNCHANGED <<clock, cancelled, tokens, dropped, jobsClosed, jobs, worker,
                                results, collector, held, totalReq, totalErr, executed>>
    BY <1>1, DriveAlone
  <1>3. /\ draft \in [status : Status, rps : Nat, total : Nat]
        /\ draft'.status = draft.status /\ draft'.rps = draft.rps /\ draft'.total = totalReq
        /\ draft' \in [status : Status, rps : Nat, total : Nat]
    BY <1>1, Amounts DEF Inv, Typing
  <1>4. /\ windowReq \in Nat /\ totalReq \in Nat /\ totalErr \in Nat /\ SumSent \in Nat
        /\ draft.rps \in Nat /\ totalErr <= totalReq
        /\ Bit(collector \in {"error", "window"}) \in {0, 1} /\ SumSent' = SumSent
        /\ \A i \in DOMAIN sent : sent[i].total \in Nat /\ sent[i].errors \in Nat
    BY <1>1, Amounts DEF SumSent
  <1>5. Typing'
    BY <1>1, <1>2, <1>3 DEF Inv, Typing
  <1>6. ShutInv' /\ MainInv'
    BY <1>1, <1>2, <1>3 DEF Inv, ShutInv, MainInv
  <1>7. SampleInv'
    <2>1. /\ windowReq + draft.rps + SumSent + Bit(collector \in {"error", "window"}) <= totalReq
          /\ ~sinkFailed =>
               windowReq + draft.rps + SumSent + Bit(collector \in {"error", "window"}) = totalReq
          /\ \A i \in DOMAIN sent :
               sent[i].rps <= sent[i].sum /\ sent[i].total <= totalReq /\ sent[i].errors <= totalErr
      BY DEF Inv, SampleInv
    <2>2. draft.rps + SumSent <= totalReq
      BY <1>4, <2>1
    <2>3. \A i \in DOMAIN sent : sent[i].total <= totalReq /\ sent[i].errors <= totalReq
      BY <1>4, <2>1
    <2>4. totalReq <= totalReq
      BY <1>4
    <2> QED
      BY <1>1, <1>2, <1>3, <1>4, <2>1, <2>2, <2>3, <2>4 DEF SampleInv
  <1>8. SamplesCatchUp' /\ TerminalSampleAccounts'
    BY <1>1 DEF Inv, SamplesCatchUp, TerminalSampleAccounts
  <1> QED
    BY <1>2, <1>5, <1>6, <1>7, <1>8 DEF Inv

(* The sink fails: a draft is lost.                                        *)
LEMMA SendFailsInv ==
  ASSUME Inv, SendFails
  PROVE  Inv'
  <1>1. /\ main = "send" /\ sinkFailed' = TRUE /\ draft' = NoDraft
        /\ OthersUnchanged /\ UNCHANGED <<resultsClosed, windowReq, sent>>
        /\ main' \in {"join", "returned"} /\ runCancelled' \in BOOLEAN
        /\ main' = "returned" => draft.status # "RUNNING"
    BY DEF SendFails, Inv, Typing
  <1>2. FlowInv' /\ UNCHANGED <<clock, cancelled, tokens, dropped, jobsClosed, jobs, worker,
                                results, collector, held, totalReq, totalErr, executed>>
    BY <1>1, DriveAlone
  <1>3. draft' \in [status : Status, rps : Nat, total : Nat] /\ draft'.rps = 0
    BY <1>1 DEF NoDraft, Status
  <1>4. /\ windowReq \in Nat /\ totalReq \in Nat /\ SumSent \in Nat /\ draft.rps \in Nat
        /\ Bit(collector \in {"error", "window"}) \in {0, 1} /\ SumSent' = SumSent
    BY <1>1, Amounts DEF SumSent
  <1>5. Typing'
    BY <1>1, <1>2, <1>3 DEF Inv, Typing
  <1>6. ShutInv' /\ MainInv'
    BY <1>1, <1>2 DEF Inv, ShutInv, MainInv
  <1>7. SampleInv'
    <2>1. windowReq + draft.rps + SumSent + Bit(collector \in {"error", "window"}) <= totalReq
      BY DEF Inv, SampleInv
    <2>2. windowReq + 0 + SumSent + Bit(collector \in {"error", "window"}) <= totalReq
      BY <1>4, <2>1
    <2> QED
      BY <1>1, <1>2, <1>3, <1>4, <2>2 DEF Inv, SampleInv
  <1>8. SamplesCatchUp' /\ TerminalSampleAccounts'
    BY <1>1 DEF Inv, SamplesCatchUp, TerminalSampleAccounts
  <1> QED
    BY <1>2, <1>5, <1>6, <1>7, <1>8 DEF Inv

(* The sink takes the sample: it is ahead of none before, and a terminal   *)
(* one is taken when there is nothing left to count.                       *)
LEMMA SentInv ==
  ASSUME Inv, Sent
  PROVE  Inv'
  <1>1. /\ main = "send" /\ draft' = NoDraft /\ sent' = Append(sent, Sample)
        /\ OthersUnchanged /\ UNCHANGED <<runCancelled, resultsClosed, windowReq, sinkFailed>>
        /\ main' = IF draft.status = "RUNNING" THEN "loop" ELSE "returned"
    BY DEF Sent
  <1>2. FlowInv' /\ UNCHANGED <<clock, cancelled, tokens, dropped, jobsClosed, jobs, worker,
                                results, collector, held, totalReq, totalErr, executed>>
    BY <1>1, DriveAlone
  <1>3. draft' \in [status : Status, rps : Nat, total : Nat] /\ draft'.rps = 0
    BY <1>1 DEF NoDraft, Status
  <1>4. /\ windowReq \in Nat /\ totalReq \in Nat /\ totalErr \in Nat /\ SumSent \in Nat
        /\ draft.rps \in Nat /\ draft.total \in Nat /\ sent \in Seq(SentSample)
        /\ Bit(collector \in {"error", "window"}) \in {0, 1}
        /\ \A i \in DOMAIN sent : /\ sent[i].rps \in Nat /\ sent[i].sum \in Nat
                                  /\ sent[i].total \in Nat /\ sent[i].errors \in Nat
    BY Amounts
  <1>5. /\ Sample.status = draft.status /\ Sample.rps = draft.rps /\ Sample.total = draft.total
        /\ Sample.errors = totalErr /\ Sample.sum = SumSent + draft.rps
        /\ Sample \in SentSample
    <2>1. draft.status \in Status
      BY DEF Inv, Typing
    <2> QED
      BY <1>4, <2>1 DEF Sample, SentSample
  <1> DEFINE n == Len(sent) + 1
  <1>6. /\ n \in Nat /\ sent' \in Seq(SentSample) /\ Len(sent') = n
        /\ DOMAIN sent' = DOMAIN sent \cup {n} /\ n \notin DOMAIN sent
        /\ sent'[n] = Sample /\ \A i \in DOMAIN sent : sent'[i] = sent[i] /\ i \in Nat /\ i < n
        /\ Last(sent') = Sample /\ sent' # <<>>
    BY <1>1, <1>4, <1>5 DEF Last
  <1> HIDE DEF n
  <1>7. SumSent' = SumSent + draft.rps
    BY <1>5, <1>6 DEF SumSent
  <1>8. Typing'
    BY <1>1, <1>2, <1>3, <1>6 DEF Inv, Typing
  <1>9. ShutInv' /\ MainInv'
    BY <1>1, <1>2 DEF Inv, ShutInv, MainInv
  <1>10. /\ draft.total <= totalReq /\ draft.rps + SumSent <= draft.total
         /\ \A i \in DOMAIN sent :
              /\ sent[i].rps <= sent[i].sum /\ sent[i].errors <= totalErr
              /\ sent[i].total <= totalReq
              /\ sent[i].total <= draft.total /\ sent[i].errors <= draft.total
    BY <1>1 DEF Inv, SampleInv
  <1>11. SampleInv'
    <2>1. ~sinkFailed
          /\ windowReq + draft.rps + SumSent + Bit(collector \in {"error", "window"}) = totalReq
      BY <1>1 DEF Inv, MainInv, SampleInv
    <2>2. windowReq + 0 + (SumSent + draft.rps) + Bit(collector \in {"error", "window"}) = totalReq
      BY <1>4, <2>1
    <2>3. windowReq + 0 + (SumSent + draft.rps) + Bit(collector \in {"error", "window"}) <= totalReq
      BY <1>4, <2>2
    <2>4. draft.rps <= SumSent + draft.rps /\ totalErr <= totalErr
      BY <1>4
    <2>5. \A i \in DOMAIN sent' : /\ sent'[i].rps <= sent'[i].sum /\ sent'[i].total <= totalReq
                                  /\ sent'[i].errors <= totalErr
      BY <1>5, <1>6, <1>10, <2>4
    <2> QED
      BY <1>1, <1>2, <1>3, <1>7, <2>2, <2>3, <2>5 DEF SampleInv
  <1>12. SamplesCatchUp'
    <2>1. SumSent + draft.rps <= draft.total
      BY <1>4, <1>10
    <2>2. \A i \in DOMAIN sent' : sent'[i].sum <= sent'[i].total
      BY <1>5, <1>6, <2>1 DEF Inv, SamplesCatchUp
    <2>3. \A i, j \in DOMAIN sent' : i < j =>
            /\ sent'[i].total <= sent'[j].total /\ sent'[i].errors <= sent'[j].errors
            /\ sent'[i].errors <= sent'[j].total
      <3> SUFFICES ASSUME NEW i \in DOMAIN sent', NEW j \in DOMAIN sent', i < j
                   PROVE  /\ sent'[i].total <= sent'[j].total
                          /\ sent'[i].errors <= sent'[j].errors
                          /\ sent'[i].errors <= sent'[j].total
        OBVIOUS
      <3>1. i \in DOMAIN sent
        BY <1>6
      <3>2. CASE j \in DOMAIN sent
        BY <1>6, <3>1, <3>2 DEF Inv, SamplesCatchUp
      <3>3. CASE j = n
        BY <1>5, <1>6, <1>10, <3>1, <3>3
      <3> QED
        BY <1>6, <3>2, <3>3
    <2> QED
      BY <2>2, <2>3 DEF SamplesCatchUp
  <1>13. TerminalSampleAccounts'
    <2> SUFFICES ASSUME draft.status # "RUNNING"
                 PROVE  /\ draft.total = executed.all /\ totalErr = executed.failed
                        /\ SumSent + draft.rps = executed.all
      BY <1>1, <1>2, <1>5, <1>6 DEF TerminalSampleAccounts
    <2>1. /\ collector = "done" /\ windowReq = 0 /\ ~sinkFailed /\ draft.total = totalReq
          /\ results = <<>> /\ \A w \in Workers : worker[w] = "gone"
      BY <1>1 DEF Inv, MainInv, ShutInv, SampleInv
    <2>2. At({"ok", "err"}) = {} /\ At({"err"}) = {} /\ ErrorsAt(results) = {}
      BY <2>1 DEF At, ErrorsAt
    <2>3. Number({"ok", "err"}) = 0 /\ Number({"err"}) = 0 /\ Errors(results) = 0
          /\ Len(results) = 0
      BY <2>1, <2>2, FS_EmptySet DEF Number, Errors
    <2>4. executed.all = totalReq + 0 + 0 /\ executed.failed = totalErr + 0 + 0 + 0
      BY <2>1, <2>3 DEF Inv, FlowInv, Bit
    <2>5. 0 + draft.rps + SumSent + 0 = totalReq
      BY <2>1 DEF Inv, SampleInv, Bit
    <2> QED
      BY <1>4, <2>1, <2>4, <2>5
  <1> QED
    BY <1>2, <1>8, <1>9, <1>11, <1>12, <1>13 DEF Inv
----------------------------------------------------------------------------
(* Every step keeps the invariant.                                         *)
LEMMA StepInv == Inv /\ [Next]_vars => Inv'
  <1> SUFFICES ASSUME Inv, [Next]_vars PROVE Inv'
    OBVIOUS
  <1>1. CASE TimePasses \/ CallerLeaves
    BY <1>1, OutsideInv
  <1>2. CASE Producer
    BY <1>2, ProducerInv
  <1>3. ASSUME NEW w \in Workers, Worker(w) PROVE Inv'
    BY <1>3, TakeJobInv, ExecOneInv, SendResultInv DEF Worker
  <1>4. CASE Collector
    BY <1>4, CountRequestInv, CountErrorInv, CountWindowInv DEF Collector
  <1>5. CASE Drive
    BY <1>5, SilentInv, RunFailsInv, EmitInv, LoadTotalInv, SentInv, SendFailsInv DEF Drive
  <1>6. CASE UNCHANGED vars
    <2>1. UNCHANGED <<timeVars, producerVars, jobs, worker, results, resultsClosed,
                      collectorVars, mainVars, executed>>
      BY <1>6 DEF vars
    <2>2. Typing' /\ FlowInv' /\ ShutInv'
      BY <2>1 DEF timeVars, producerVars, collectorVars, counters, mainVars, Inv, Typing,
                  FlowInv, ShutInv, Number, At, Errors
    <2>3. UNCHANGED <<mainVars, collector, windowReq, totalReq, totalErr, executed>>
      BY <2>1 DEF collectorVars, counters
    <2>4. totalReq \in Nat /\ totalErr \in Nat
      BY Amounts
    <2> QED
      BY <2>2, <2>3, <2>4, AroundDrive
  <1> QED
    BY <1>1, <1>2, <1>3, <1>4, <1>5, <1>6 DEF Next, Returned

(* The run's invariant holds in every behaviour.                           *)
THEOREM LoadRunnerInvariant == Spec => []Inv
  BY InitInv, StepInv, PTL DEF Spec

(* The types have the bounds of TypeOK: no counter is ahead of the tokens. *)
LEMMA InvTypeOK == Inv => TypeOK
  <1> SUFFICES ASSUME Inv PROVE TypeOK
    OBVIOUS
  <1>1. Typing /\ FlowInv
    BY DEF Inv
  <1>2. /\ tokens \in Nat /\ MaxTokens \in Nat /\ tokens <= MaxTokens
        /\ jobs \in Nat /\ dropped \in Nat /\ Len(results) \in Nat
        /\ executed.all \in Nat /\ executed.failed \in Nat
        /\ Number({"busy"}) \in Nat /\ Number({"ok", "err"}) \in Nat
    BY <1>1, Sizes
  <1>3. /\ windowReq \in Nat /\ totalReq \in Nat /\ totalErr \in Nat
        /\ draft.rps \in Nat /\ draft.total \in Nat /\ SumSent \in Nat
        /\ sent \in Seq(SentSample)
        /\ \A i \in DOMAIN sent : /\ sent[i].rps \in Nat /\ sent[i].sum \in Nat
                                  /\ sent[i].total \in Nat /\ sent[i].errors \in Nat
        /\ Bit(collector \in {"error", "window"}) \in {0, 1}
        /\ totalErr <= totalReq
    BY Amounts
  <1>4. /\ dropped <= tokens /\ executed.all <= MaxTokens /\ executed.failed <= MaxTokens
    <2>1. /\ tokens = dropped + jobs + Number({"busy"}) + executed.all
          /\ executed.failed <= executed.all
      BY <1>1 DEF FlowInv
    <2> QED
      BY <1>2, <2>1
  <1>5. totalReq <= MaxTokens /\ totalErr <= MaxTokens
    <2>1. executed.all = totalReq + Len(results) + Number({"ok", "err"})
      BY <1>1 DEF FlowInv
    <2>2. totalReq <= executed.all
      BY <1>2, <1>3, <2>1
    <2> QED
      BY <1>2, <1>3, <1>4, <2>2
  <1>6. windowReq <= MaxTokens /\ draft.rps <= MaxTokens
    <2>1. windowReq + draft.rps + SumSent + Bit(collector \in {"error", "window"}) <= totalReq
      BY DEF Inv, SampleInv
    <2> QED
      BY <1>2, <1>3, <1>5, <2>1
  <1>7. draft.total <= MaxTokens
    <2>1. CASE main = "send"
      BY <1>2, <1>3, <1>5, <2>1 DEF Inv, SampleInv
    <2>2. CASE main # "send"
      <3>1. draft.total = 0
        BY <2>2 DEF Inv, MainInv, NoDraft
      <3> QED
        BY <1>2, <3>1
    <2> QED
      BY <2>1, <2>2
  <1>8. sent \in Seq([status : Terminal \cup {"RUNNING"}, rps : 0..MaxTokens,
                      total : 0..MaxTokens, errors : 0..MaxTokens, sum : 0..MaxTokens])
    <2> DEFINE Bounded == [status : Terminal \cup {"RUNNING"}, rps : 0..MaxTokens,
                           total : 0..MaxTokens, errors : 0..MaxTokens, sum : 0..MaxTokens]
    <2>1. ASSUME NEW i \in DOMAIN sent PROVE sent[i] \in Bounded
      <3>1. sent[i] \in SentSample
        BY <1>3
      <3>2. /\ sent[i].rps <= sent[i].sum /\ sent[i].total <= totalReq
            /\ sent[i].errors <= totalErr /\ sent[i].sum <= sent[i].total
        BY DEF Inv, SampleInv, SamplesCatchUp
      <3>3. /\ sent[i].rps \in 0..MaxTokens /\ sent[i].sum \in 0..MaxTokens
            /\ sent[i].total \in 0..MaxTokens /\ sent[i].errors \in 0..MaxTokens
        <4>1. /\ sent[i].rps \in Nat /\ sent[i].sum \in Nat
              /\ sent[i].total \in Nat /\ sent[i].errors \in Nat
          BY <1>3
        <4>2. /\ sent[i].total <= MaxTokens /\ sent[i].errors <= MaxTokens
          BY <1>2, <1>3, <1>5, <3>2, <4>1
        <4>3. sent[i].sum <= MaxTokens
          BY <1>2, <3>2, <4>1, <4>2
        <4>4. sent[i].rps <= MaxTokens
          BY <1>2, <3>2, <4>1, <4>3
        <4> QED
          BY <1>2, <4>1, <4>2, <4>3, <4>4
      <3> QED
        BY <3>1, <3>3 DEF SentSample, Status
    <2> HIDE DEF Bounded
    <2>2. sent \in Seq(Bounded)
      BY <1>3, <2>1
    <2> QED
      BY <2>2 DEF Bounded
  <1>9. /\ dropped \in 0..tokens /\ totalReq \in 0..MaxTokens /\ totalErr \in 0..totalReq
        /\ windowReq \in 0..MaxTokens
        /\ executed \in [all : 0..MaxTokens, failed : 0..MaxTokens]
        /\ draft \in [status : Terminal \cup {"RUNNING"}, rps : 0..MaxTokens,
                      total : 0..MaxTokens]
    <2>1. dropped \in 0..tokens /\ totalReq \in 0..MaxTokens /\ totalErr \in 0..totalReq
          /\ windowReq \in 0..MaxTokens
      BY <1>2, <1>3, <1>4, <1>5, <1>6
    <2>2. executed.all \in 0..MaxTokens /\ executed.failed \in 0..MaxTokens
          /\ draft.rps \in 0..MaxTokens /\ draft.total \in 0..MaxTokens
      BY <1>2, <1>3, <1>4, <1>6, <1>7
    <2> QED
      BY <1>1, <2>1, <2>2 DEF Typing, Status
  <1> QED
    BY <1>1, <1>8, <1>9 DEF Typing, States, TypeOK

(* results is closed behind the last worker, and the collector leaves none *)
(* of it behind.                                                           *)
THEOREM LoadRunnerClosesBehindSenders == Spec => []ClosedAfterLastSend
  <1>1. Inv => ClosedAfterLastSend
    BY InvTypeOK DEF Inv, ShutInv, ClosedAfterLastSend
  <1> QED
    BY <1>1, LoadRunnerInvariant, PTL

(* The terminal sample accounts for every request, and so do the windows.  *)
THEOREM LoadRunnerAccounts == Spec => []TerminalSampleAccounts
  <1>1. Inv => TerminalSampleAccounts
    BY DEF Inv
  <1> QED
    BY <1>1, LoadRunnerInvariant, PTL

(* Samples never fall back, and each catches up with those before.         *)
THEOREM LoadRunnerSamplesCatchUp == Spec => []SamplesCatchUp
  <1>1. Inv => SamplesCatchUp
    BY DEF Inv
  <1> QED
    BY <1>1, LoadRunnerInvariant, PTL
----------------------------------------------------------------------------
(* What LoadRun calls said.                                                *)
Said == [i \in DOMAIN sent |-> sent[i].status]

(* A sample that is sent is one more that is said.                         *)
LEMMA SaidGrows ==
  ASSUME Typing, NEW s \in SentSample, sent' = Append(sent, s)
  PROVE  Said' = Append(Said, s.status)
  <1>1. sent \in Seq(SentSample)
    BY DEF Typing
  <1> DEFINE n == Len(sent)
  <1>2. /\ n \in Nat /\ DOMAIN sent = 1..n /\ DOMAIN sent' = 1..(n + 1)
        /\ sent'[n + 1] = s /\ \A i \in 1..n : sent'[i] = sent[i]
    BY <1>1
  <1>3. \A i \in 1..n : sent[i].status \in Status
    <2>1. \A i \in 1..n : sent[i] \in SentSample
      BY <1>1, <1>2
    <2> QED
      BY <2>1 DEF SentSample
  <1>4. Said = [i \in 1..n |-> sent[i].status] /\ Said' = [i \in 1..(n + 1) |-> sent'[i].status]
    BY <1>2 DEF Said
  <1> HIDE DEF n
  <1>5. Said \in Seq(Status) /\ Len(Said) = n
    BY <1>2, <1>3, <1>4
  <1>6. s.status \in Status
    BY DEF SentSample
  <1>7. Append(Said, s.status) = [i \in 1..(n + 1) |-> IF i = n + 1 THEN s.status ELSE Said[i]]
    BY <1>5, <1>6
  <1>8. ASSUME NEW i \in 1..(n + 1)
        PROVE  sent'[i].status = IF i = n + 1 THEN s.status ELSE Said[i]
    BY <1>2, <1>4
  <1> QED
    BY <1>4, <1>7, <1>8

(* Every step of a run is one of what LoadRun promises, or says nothing.   *)
LEMMA StepPromised ==
  ASSUME Inv, [Next]_vars
  PROVE  [Promise!Next]_<<Said, sinkFailed, Over>>
  <1> USE DEF Said
  <1>1. CASE TimePasses \/ CallerLeaves \/ Producer \/ (\E w \in Workers : Worker(w)) \/ Collector
             \/ Returned \/ UNCHANGED vars
    <2>1. UNCHANGED mainVars
      BY <1>1 DEF TimePasses, CallerLeaves, Producer, Tick, ProducerReturns, Worker, TakeJob,
         WorkerReturns, ExecOne, SendResult, Collector, CountRequest, CountError, CountWindow,
         CollectorReturns, Returned, vars
    <2> QED
      BY <2>1 DEF mainVars, Over
  <1>2. CASE Seeded \/ EmitRunning \/ EmitTerminal \/ LoadTotal \/ LoopEnds \/ Join
    <2>1. UNCHANGED <<sent, sinkFailed>> /\ ~Over /\ ~Over'
      BY <1>2 DEF Seeded, EmitRunning, EmitTerminal, Emit, LoadTotal, LoopEnds, Join, Over
    <2> QED
      BY <2>1 DEF Over
  <1>3. CASE RunFails
    <2> DEFINE failed == [status |-> "FAILED", rps |-> 0, total |-> 0, errors |-> 0, sum |-> 0]
    <2>1. sent = <<>> /\ ~sinkFailed /\ ~Over /\ Over'
      BY <1>3 DEF RunFails, Over, Inv, MainInv
    <2>2. CASE sent' = <<failed>> /\ sinkFailed' = sinkFailed
      <3>1. failed \in SentSample /\ failed.status = "FAILED"
        BY DEF SentSample, Status, Terminal
      <3> HIDE DEF failed
      <3>2. sent' = Append(sent, failed)
        BY <2>1, <2>2
      <3>3. Said' = Append(Said, "FAILED")
        BY <3>1, <3>2, SaidGrows DEF Inv
      <3> QED
        BY <2>1, <2>2, <3>3 DEF Promise!Next, Promise!Terminal
    <2>3. CASE sent' = sent /\ sinkFailed' = TRUE
      BY <2>1, <2>3 DEF Promise!Next, Promise!SinkFails
    <2> QED
      BY <1>3, <2>2, <2>3 DEF RunFails
  <1>4. CASE Sent
    <2>1. /\ main = "send" /\ ~sinkFailed /\ sinkFailed' = sinkFailed
          /\ sent' = Append(sent, Sample) /\ Sample.status = draft.status
          /\ main' = IF draft.status = "RUNNING" THEN "loop" ELSE "returned"
          /\ draft.status = "RUNNING" => Len(sent) < MaxSamples
      BY <1>4 DEF Sent, Sample, Inv, MainInv
    <2>2. Sample \in SentSample /\ draft.status \in Status
      BY Amounts DEF Sample, SentSample, Inv, Typing
    <2> HIDE DEF Said
    <2>3. Said' = Append(Said, draft.status)
      BY <2>1, <2>2, SaidGrows DEF Inv
    <2>4. CASE draft.status = "RUNNING"
      <3>1. Len(Said) < MaxSamples
        BY <2>1, <2>4 DEF Said, Inv, Typing
      <3> QED
        BY <2>1, <2>3, <2>4, <3>1 DEF Promise!Next, Promise!Sample, Over, Said
    <2>5. CASE draft.status # "RUNNING"
      BY <2>1, <2>2, <2>3, <2>5 DEF Promise!Next, Promise!Terminal, Over, Said, Status, Terminal
    <2> QED
      BY <2>4, <2>5
  <1>5. CASE SendFails
    <2>1. /\ main = "send" /\ ~sinkFailed /\ sinkFailed' = TRUE /\ sent' = sent
          /\ main' \in {"join", "returned"}
      BY <1>5 DEF SendFails, Inv, MainInv
    <2>2. ~Over /\ Over' \in BOOLEAN /\ Said' = Said
      BY <2>1 DEF Over
    <2> HIDE DEF Said
    <2>3. Promise!SinkFails
      BY <2>1, <2>2 DEF Promise!SinkFails, Said
    <2> QED
      BY <2>3 DEF Promise!Next
  <1>6. CASE SinkErrorReturned
    BY <1>6 DEF SinkErrorReturned, Promise!Next, Promise!GivesUp, Over
  <1> QED
    BY <1>1, <1>2, <1>3, <1>4, <1>5, <1>6 DEF Next, Drive

(* A run is what the comment of Runner.Run promises: samples one after the *)
(* other, then a terminal one, unless the sink fails.                      *)
THEOREM LoadRunnerImplementsPromise == Spec => Implements
  <1>1. Init => Promise!Init
    BY DEF Init, Promise!Init, Over
  <1>2. Inv /\ [Next]_vars =>
          [Promise!Next]_<<[i \in DOMAIN sent |-> sent[i].status], sinkFailed, Over>>
    BY StepPromised DEF Said
  <1> QED
    BY <1>1, <1>2, LoadRunnerInvariant, PTL DEF Spec, Implements, Promise!Spec
----------------------------------------------------------------------------
(* The simulator's crowd.                                                  *)

(* Attack and viral link are stored one after the other: between the two   *)
(* stores only the first one is up to date.                                *)
CrowdInv ==
  /\ Crowd!TypeOK
  /\ comeOfAge \in Nat
  /\ phase # "steady" => left > 0
  /\ at # "attack" => attack = (phase = "attack")
  /\ at \in {"select", "active"} /\ viral # 0 => phase = "spike"

(* A second of the conductor, with its next phase and its size.            *)
LEMMA CrowdStep ==
  ASSUME CrowdInv, Crowd!Step
  PROVE  CrowdInv'
  <1>0. /\ phase \in Crowd!Phases /\ left \in 0..Longest
        /\ target \in Nat /\ cur \in Nat
        /\ phase # "steady" => left > 0
    BY DEF CrowdInv, Crowd!TypeOK
  <1> USE <1>0, CrowdAssumption DEF Crowd!Phases, Crowd!Smaller,
                   Crowd!Larger
  <1>1. phase' \in Crowd!Phases /\ left' \in 0..Longest /\ target' \in Nat
          /\ event' \in BOOLEAN
          /\ (phase' # "steady" => left' > 0)
          /\ (~event' => phase' = phase)
    <2>1. CASE Crowd!BackToSteady
      BY <2>1 DEF Crowd!BackToSteady, Crowd!Over
    <2>2. CASE Crowd!GoesOn
      <3>1. phase # "steady" /\ left > 1 /\ left' = left - 1 /\ event' = FALSE
              /\ phase' = phase /\ target' = target
        BY <2>2 DEF Crowd!GoesOn, Crowd!Over
      <3>2. left' \in 0..Longest /\ left' > 0
        BY <3>1
      <3> QED
        BY <3>1, <3>2
    <2>3. CASE Crowd!StartPhase
      <3>1. left' \in Shortest..Longest /\ event' = TRUE /\ phase' \in {"spike", "lull", "attack"}
        BY <2>3 DEF Crowd!StartPhase
      <3>2. target' \in Nat
        BY <2>3 DEF Crowd!StartPhase
      <3> QED
        BY <3>1, <3>2
    <2>4. CASE Crowd!Drift
      <3>1. PICK d \in -2..2 :
              target' = Crowd!clamp(target + d, Base \div 2, (Base * 3) \div 2)
        BY <2>4 DEF Crowd!Drift
      <3>2. Base \div 2 \in Nat /\ (Base * 3) \div 2 \in Nat
        OBVIOUS
      <3>3. target' \in Nat
        BY <3>1, <3>2 DEF Crowd!clamp
      <3>4. phase' = phase /\ left' = left /\ event' = FALSE /\ phase = "steady"
        BY <2>4 DEF Crowd!Drift
      <3> QED
        BY <3>3, <3>4
    <2> QED
      BY <2>1, <2>2, <2>3, <2>4 DEF Crowd!Step
  <1>2. cur' \in Nat
    BY <1>1 DEF Crowd!Step, Crowd!Eases
  <1>3. /\ at = "select" /\ at' = IF event' THEN "attack" ELSE "active"
        /\ UNCHANGED <<active, viral, attack, comeOfAge>>
    BY DEF Crowd!Step
  <1> QED
    BY <1>1, <1>2, <1>3 DEF CrowdInv, Crowd!TypeOK

(* Each step of the conductor and of the pool.                             *)
LEMMA CrowdStepInv ==
  ASSUME CrowdInv, [Crowd!Next]_crowdVars
  PROVE  CrowdInv'
  <1> USE CrowdAssumption DEF CrowdInv, Crowd!TypeOK, Crowd!NoLink
  <1>1. CASE Crowd!Step
    BY <1>1, CrowdStep
  <1>2. CASE Crowd!StoreAttack
    BY <1>2 DEF Crowd!StoreAttack
  <1>3. CASE Crowd!StoreViral
    BY <1>3 DEF Crowd!StoreViral
  <1>4. CASE Crowd!StoreActive
    BY <1>4 DEF Crowd!StoreActive, Crowd!users, Crowd!clamp,
                Crowd!Smaller, Crowd!Larger
  <1>5. CASE Crowd!Settles
    BY <1>5 DEF Crowd!Settles
  <1>6. CASE UNCHANGED crowdVars
    BY <1>6 DEF crowdVars
  <1> QED
    BY <1>1, <1>2, <1>3, <1>4, <1>5, <1>6 DEF Crowd!Next

----------------------------------------------------------------------------
(* The seeding of a load test.                                             *)

(* Links are stored in the order in which they are shortened, so that the  *)
(* last one is the last to reach the resolver.                             *)
SeedInv ==
  /\ Seed!TypeOK
  /\ seeded \in Seq(Nat)
  /\ \A i \in DOMAIN seeded : seeded[i] \in 1..Len(log)
  /\ \A i, j \in DOMAIN seeded : i <= j => seeded[i] <= seeded[j]
  /\ seedPc \in {"probe", "asking", "drive"} => seeded # <<>>
  /\ seedPc = "drive" => seeded[Len(seeded)] <= applied

(* Another commit, of whomever, leaves the seeded links where they are.    *)
LEMMA CommitKeepsSeeds ==
  ASSUME SeedInv, NEW who \in {"seed", "other"}, log' = Append(log, who),
         seeded' = seeded, applied' = applied, seedPc' \in {seedPc, "failed"}
  PROVE  SeedInv'
  BY DEF SeedInv, Seed!TypeOK

(* Each step of the seeding, of the services and of the clock.             *)
LEMMA SeedStepInv ==
  ASSUME SeedInv, [Seed!Next]_seedVars
  PROVE  SeedInv'
  <1> USE SeedAssumption DEF SeedInv, Seed!TypeOK
  <1>1. CASE Seed!Other \/ Seed!ShortenFails
    <2>1. CASE log' = log
      BY <1>1, <2>1 DEF Seed!Other, Seed!ShortenFails
    <2>2. CASE log' # log
      <3>1. PICK who \in {"seed", "other"} : log' = Append(log, who)
        BY <1>1, <2>2 DEF Seed!Other, Seed!ShortenFails
      <3> QED
        BY <1>1, <3>1, CommitKeepsSeeds DEF Seed!Other, Seed!ShortenFails
    <2> QED
      BY <2>1, <2>2
  <1>2. CASE Seed!Hydrate
    BY <1>2 DEF Seed!Hydrate
  <1>3. CASE Seed!Tick \/ Seed!CallerLeaves
    BY <1>3 DEF Seed!Tick, Seed!CallerLeaves
  <1>4. CASE Seed!Cancelled \/ Seed!DidNotCatchUp
    BY <1>4 DEF Seed!Cancelled, Seed!DidNotCatchUp
  <1>5. CASE Seed!Shorten
    <2>1. /\ log' = Append(log, "seed") /\ seeded' = Append(seeded, Len(log) + 1)
          /\ UNCHANGED <<applied, seedPc>> /\ seedPc = "shorten" /\ Len(seeded) < SeedCount
      BY <1>5 DEF Seed!Shorten
    <2>2. /\ log' \in Seq({"seed", "other"}) /\ Len(log') = Len(log) + 1
          /\ log'[Len(log) + 1] = "seed"
          /\ \A i \in 1..Len(log) : log'[i] = log[i]
      BY <2>1
    <2>3. /\ seeded' \in Seq(Nat) /\ Len(seeded') = Len(seeded) + 1
          /\ seeded'[Len(seeded) + 1] = Len(log) + 1
          /\ \A i \in 1..Len(seeded) : seeded'[i] = seeded[i]
      BY <2>1
    <2>4. \A i \in 1..(Len(seeded) + 1) :
            seeded'[i] \in 1..(Len(log) + 1) /\ log'[seeded'[i]] = "seed"
      <3> SUFFICES ASSUME NEW i \in 1..(Len(seeded) + 1)
                   PROVE  seeded'[i] \in 1..(Len(log) + 1) /\ log'[seeded'[i]] = "seed"
        OBVIOUS
      <3>0. Len(seeded) \in Nat /\ DOMAIN seeded = 1..Len(seeded)
        OBVIOUS
      <3>1. CASE i = Len(seeded) + 1
        BY <2>2, <2>3, <3>1
      <3>2. CASE i # Len(seeded) + 1
        <4>1. i \in DOMAIN seeded /\ seeded'[i] = seeded[i]
          BY <2>3, <3>0, <3>2
        <4>2. seeded[i] \in 1..Len(log) /\ log[seeded[i]] = "seed"
          BY <4>1
        <4> QED
          BY <2>2, <4>1, <4>2
      <3> QED
        BY <3>1, <3>2
    <2>5. \A i, j \in DOMAIN seeded' : i <= j => seeded'[i] <= seeded'[j]
      <3> SUFFICES ASSUME NEW i \in 1..(Len(seeded) + 1), NEW j \in 1..(Len(seeded) + 1),
                          i <= j
                   PROVE  seeded'[i] <= seeded'[j]
        BY <2>3
      <3>0. Len(seeded) \in Nat /\ DOMAIN seeded = 1..Len(seeded) /\ Len(log) \in Nat
        OBVIOUS
      <3>1. CASE j = Len(seeded) + 1
        <4>1. seeded'[i] \in 1..(Len(log) + 1)
          BY <2>4
        <4> QED
          BY <2>3, <3>0, <3>1, <4>1
      <3>2. CASE j # Len(seeded) + 1
        <4>1. i \in DOMAIN seeded /\ j \in DOMAIN seeded
          BY <3>0, <3>2
        <4> QED
          BY <2>3, <3>0, <4>1
      <3> QED
        BY <3>1, <3>2
    <2> QED
      BY <2>1, <2>2, <2>3, <2>4, <2>5
  <1>6. CASE Seed!SeededAll \/ Seed!Probe
    BY <1>6 DEF Seed!SeededAll, Seed!Probe
  <1>7. CASE Seed!ProbeReturns
    BY <1>7 DEF Seed!ProbeReturns, Seed!probed, Seed!Last
  <1>8. CASE UNCHANGED seedVars
    BY <1>8 DEF seedVars
  <1> QED
    BY <1>1, <1>2, <1>3, <1>4, <1>5, <1>6, <1>7, <1>8 DEF Seed!Next, Seed!seed

----------------------------------------------------------------------------
(* The page of links.                                                      *)

(* The rows are those of the latest effect, and so is every request whose  *)
(* answer is still wanted.                                                 *)
HomeInv ==
  /\ Home!NoStaleRow
  /\ codes \in Seq(Codes)
  /\ effect \in Nat
  /\ DOMAIN cause = DOMAIN rows
  /\ \A r \in asked : r.of \in Nat /\ r.of <= effect /\ (r.of = effect => r.code \in DOMAIN rows)

(* pushCode keeps the list short and its codes different.                  *)
LEMMA PushKeepsList ==
  ASSUME HomeInv, NEW code \in Codes
  PROVE  LET list == Home!pushCode(code) IN
         list \in Seq(Codes) /\ Len(list) <= MaxRecent /\ Home!IsInjective(list)
  <1> USE HomeAssumption DEF HomeInv, Home!NoStaleRow, Home!TypeOK
  <1>1. CASE code \in Home!ToSet(codes)
    BY <1>1 DEF Home!pushCode
  <1>2. CASE code \notin Home!ToSet(codes)
    <2> DEFINE n == IF Len(codes) < MaxRecent THEN Len(codes) + 1 ELSE MaxRecent
    <2>1. PICK all : all = <<code>> \o codes
      OBVIOUS
    <2>2. /\ all \in Seq(Codes) /\ Len(all) = Len(codes) + 1 /\ all[1] = code
          /\ \A i \in 2..Len(all) : all[i] = codes[i - 1]
      BY <2>1
    <2>3. \A i \in DOMAIN codes : codes[i] # code
      BY <1>2 DEF Home!ToSet
    <2>4. \A i, j \in DOMAIN all : all[i] = all[j] => i = j
      <3>1. \A i, j \in DOMAIN codes : codes[i] = codes[j] => i = j
        BY DEF Home!IsInjective
      <3> SUFFICES ASSUME NEW i \in DOMAIN all, NEW j \in DOMAIN all, all[i] = all[j], i < j
                   PROVE  FALSE
        BY <2>2
      <3>2. j \in 2..Len(all) /\ j - 1 \in DOMAIN codes /\ all[j] = codes[j - 1]
        BY <2>2
      <3>3. CASE i = 1
        BY <2>2, <2>3, <3>2, <3>3
      <3>4. CASE i # 1
        <4>1. i \in 2..Len(all) /\ i - 1 \in DOMAIN codes /\ all[i] = codes[i - 1]
          BY <2>2, <3>4
        <4>2. i - 1 = j - 1
          BY <3>1, <3>2, <4>1
        <4> QED
          BY <2>2, <4>2
      <3> QED
        BY <3>3, <3>4
    <2>5. n \in Nat /\ n <= MaxRecent /\ n <= Len(all)
      BY <2>2
    <2>6. PICK list : list = SubSeq(all, 1, n)
      OBVIOUS
    <2>7. list \in Seq(Codes) /\ Len(list) = n /\ \A i \in 1..n : list[i] = all[i]
      BY <2>2, <2>5, <2>6
    <2>8. Home!IsInjective(list)
      <3>1. DOMAIN list = 1..n /\ DOMAIN all = 1..Len(all)
        BY <2>2, <2>7
      <3>2. \A i \in DOMAIN list : i \in DOMAIN all /\ list[i] = all[i]
        BY <2>5, <2>2, <2>7, <3>1
      <3> HIDE DEF n
      <3> QED
        BY <2>4, <3>2 DEF Home!IsInjective
    <2>9. Home!pushCode(code) = list
      BY <1>2, <2>1, <2>6 DEF Home!pushCode
    <2> QED
      BY <2>5, <2>7, <2>8, <2>9
  <1> QED
    BY <1>1, <1>2

(* Each step of the page.                                                  *)
LEMMA HomeStepInv ==
  ASSUME HomeInv, [Home!Next]_homeVars
  PROVE  HomeInv'
  <1> USE HomeAssumption DEF HomeInv, Home!NoStaleRow, Home!TypeOK
  <1>1. CASE Home!Submit \/ UNCHANGED homeVars
    BY <1>1 DEF Home!Submit, homeVars, Home!ToSet, Home!IsInjective
  <1>2. CASE Home!Answered
    <2>1. codes' \in Seq(Codes) /\ Len(codes') <= MaxRecent /\ Home!IsInjective(codes')
      BY <1>2, PushKeepsList DEF Home!Answered
    <2>2. UNCHANGED <<listed, effect, asked, rows, cause>>
      BY <1>2 DEF Home!Answered
    <2> QED
      BY <2>1, <2>2 DEF Home!ToSet, Home!IsInjective
  <1>3. CASE Home!Effect
    <2> DEFINE new == {[of |-> effect', code |-> c] : c \in Home!ToSet(codes)}
    <2>1. /\ listed' = codes /\ effect' = effect + 1 /\ codes' = codes
          /\ rows' = [c \in Home!ToSet(codes) |-> "loading"]
          /\ cause' = [c \in Home!ToSet(codes) |-> effect']
          /\ asked' = asked \cup new
      BY <1>3 DEF Home!Effect
    <2>2. DOMAIN rows' = Home!ToSet(codes) /\ DOMAIN cause' = DOMAIN rows'
      BY <2>1
    <2>3. \A r \in new : r.of = effect' /\ r.code \in DOMAIN rows'
      BY <2>2
    <2>4. \A r \in asked' : r.of \in Nat /\ r.of <= effect' /\ (r.of = effect' => r.code \in DOMAIN rows')
      <3> HIDE DEF new
      <3> QED
        BY <2>1, <2>3
    <2>5. \A c \in DOMAIN rows' : rows'[c] = "loading" /\ cause'[c] = effect'
      BY <2>1
    <2>6. DOMAIN rows' = Home!ToSet(listed')
      BY <2>1, <2>2
    <2>7. Home!TypeOK'
      BY <2>1, <2>5, <2>6 DEF Home!ToSet, Home!IsInjective
    <2> QED
      BY <2>1, <2>2, <2>4, <2>5, <2>7
  <1>4. CASE Home!RowAnswered
    <2>1. PICK r \in asked, status \in {"ok", "error"} :
            /\ asked' = asked \ {r}
            /\ IF Home!wanted(r.of)
               THEN /\ rows' = [c \in DOMAIN rows \cup {r.code} |->
                                  IF c = r.code THEN status ELSE rows[c]]
                    /\ cause' = [c \in DOMAIN rows \cup {r.code} |->
                                   IF c = r.code THEN r.of ELSE cause[c]]
               ELSE UNCHANGED <<rows, cause>>
            /\ UNCHANGED <<busy, codes, listed, effect>>
      BY <1>4 DEF Home!RowAnswered
    <2>2. DOMAIN rows' = DOMAIN rows /\ DOMAIN cause' = DOMAIN rows
      BY <2>1 DEF Home!wanted
    <2>3. \A c \in DOMAIN rows' : rows'[c] \in {"loading", "ok", "error"} /\ cause'[c] = effect
      BY <2>1, <2>2 DEF Home!wanted
    <2> QED
      BY <2>1, <2>2, <2>3 DEF Home!ToSet, Home!IsInjective
  <1> QED
    BY <1>1, <1>2, <1>3, <1>4 DEF Home!Next

----------------------------------------------------------------------------
(* A load test between its run and its page.                               *)

(* The statuses of samples.                                                *)
SampleStatus == {"RUNNING", "COMPLETED", "FAILED"}

StreamTyping ==
  /\ Stream!TypeOK
  /\ said \in Seq(SampleStatus) /\ shown \in Seq(SampleStatus)
  /\ hop1 \in Seq(SampleStatus) /\ hop2 \in Seq(SampleStatus)
  /\ gateway = "send" => forwarded \in SampleStatus
  /\ broken \in BOOLEAN /\ over \in BOOLEAN

(* How many samples have come to the page's connection; to the gateway.    *)
Taken == Len(shown) + Len(hop2)
Copied == Taken + Bit(gateway = "send")

(* Shown, on the way to the page, in the gateway's hand and on the way to  *)
(* the gateway: one after the other these are how the run began, and all   *)
(* of it as long as both connections are up.                               *)
TransitInv ==
  /\ Taken <= Len(said)
  /\ \A i \in DOMAIN shown : shown[i] = said[i]
  /\ \A i \in DOMAIN hop2 : hop2[i] = said[Len(shown) + i]
  /\ 2 \in connections /\ gateway # "returned" =>
       /\ gateway = "send" => forwarded = said[Copied]
       /\ Copied + Len(hop1) <= Len(said)
       /\ \A i \in DOMAIN hop1 : hop1[i] = said[Copied + i]
       /\ 1 \in connections => Copied + Len(hop1) = Len(said)

(* A run and its streams end one after the other, each well only if the    *)
(* one before it did.                                                      *)
EndInv ==
  /\ over /\ ~broken => said # <<>> /\ said[Len(said)] \in {"COMPLETED", "FAILED"}
  /\ status1 # "open" => server = "returned"
  /\ status1 = "ok" => over /\ ~broken
  /\ status2 = "ok" => gateway = "returned"
  /\ status2 = "ok" /\ 2 \in connections => status1 = "ok" /\ Taken = Len(said)

StreamInv == StreamTyping /\ TransitInv /\ EndInv

(* The rate of a request that is not refused gives a tick above zero.      *)
LEMMA PlansRun ==
  ASSUME NEW r \in Stream!Requests, ~Stream!Refused(r)
  PROVE  LET p == Stream!PlanFromRequest(r) IN
         /\ Stream!Runnable(p)
         /\ Stream!interval(p) > 0
         /\ Stream!defaultWorkerCount(p.rps) > 0
  <1> DEFINE p == Stream!PlanFromRequest(r)
  <1>1. /\ p.scenario \in Stream!ValidScenario
        /\ p.rps \in Nat \ {0}
        /\ p.seconds \in Nat \ {0}
    <2>1. CASE r.preset \in Stream!Presets
      BY <2>1 DEF Stream!Presets, Stream!PlanFromRequest,
                  Stream!planFromPreset, Stream!plan,
                  Stream!ValidScenario
    <2>2. CASE r.preset \notin Stream!Presets
      <3>1. r.rps \in Nat /\ r.seconds \in Nat
        BY RequestAssumption DEF Stream!Requests
      <3> QED
        BY <2>2, <3>1 DEF Stream!Refused, Stream!PlanFromRequest,
                          Stream!plan
    <2> QED
      BY <2>1, <2>2
  <1> HIDE DEF p
  <1>2. Stream!Runnable(p)
    BY <1>1 DEF Stream!Runnable
  <1>3. Stream!interval(p) > 0
    <2>1. Stream!Second \div p.rps \in Nat
      BY <1>1 DEF Stream!Second
    <2> QED
      BY <2>1 DEF Stream!interval, Stream!Microsecond
  <1>4. Stream!defaultWorkerCount(p.rps) > 0
    BY <1>1 DEF Stream!defaultWorkerCount
  <1> QED
    BY <1>2, <1>3, <1>4 DEF p

(* What is one place further in a sequence.                                *)
LEMMA TailAt ==
  ASSUME NEW S, NEW s \in Seq(S), s # <<>>
  PROVE  /\ Head(s) = s[1] /\ Head(s) \in S
         /\ Tail(s) \in Seq(S) /\ Len(Tail(s)) = Len(s) - 1 /\ Len(s) > 0
         /\ \A i \in 1..(Len(s) - 1) : Tail(s)[i] = s[i + 1]
         /\ DOMAIN s = 1..Len(s) /\ DOMAIN Tail(s) = 1..(Len(s) - 1)
  OBVIOUS

(* What is appended stands behind what was there.                          *)
LEMMA AppendAt ==
  ASSUME NEW S, NEW s \in Seq(S), NEW e \in S
  PROVE  /\ Append(s, e) \in Seq(S) /\ Len(Append(s, e)) = Len(s) + 1 /\ Len(s) \in Nat
         /\ Append(s, e)[Len(s) + 1] = e
         /\ \A i \in 1..Len(s) : Append(s, e)[i] = s[i]
         /\ DOMAIN s = 1..Len(s) /\ DOMAIN Append(s, e) = 1..(Len(s) + 1)
  OBVIOUS

(* The run speaks: a sample, a terminal one perhaps, enters the first      *)
(* connection.                                                             *)
LEMMA SendSampleInv ==
  ASSUME StreamInv, Stream!SendSample
  PROVE  StreamInv'
  <1>1. PICK status \in SampleStatus :
          /\ said' = Append(said, status)
          /\ broken' = broken /\ over' \in BOOLEAN
          /\ over' => status \in {"COMPLETED", "FAILED"}
    <2>1. CASE Stream!Run!Sample
      <3>1. said' = Append(said, "RUNNING") /\ broken' = broken /\ over' = over /\ ~over
        BY <2>1 DEF Stream!Run!Sample
      <3>2. over' = FALSE
        BY <3>1 DEF StreamInv, StreamTyping
      <3> QED
        BY <3>1, <3>2 DEF SampleStatus
    <2>2. CASE Stream!Run!Terminal
      BY <2>2 DEF Stream!Run!Terminal, SampleStatus
    <2> QED
      BY <2>1, <2>2 DEF Stream!SendSample
  <1>2. /\ said' \in Seq(SampleStatus) /\ Len(said') = Len(said) + 1 /\ Len(said) \in Nat
        /\ said'[Len(said) + 1] = status
        /\ \A i \in 1..Len(said) : said'[i] = said[i]
    BY <1>1, AppendAt DEF StreamInv, StreamTyping
  <1>3. hop1' = Append(hop1, status)
    BY <1>2 DEF Stream!SendSample, Stream!Last
  <1>4. /\ hop1' \in Seq(SampleStatus) /\ Len(hop1') = Len(hop1) + 1 /\ Len(hop1) \in Nat
        /\ hop1'[Len(hop1) + 1] = status
        /\ \A i \in 1..Len(hop1) : hop1'[i] = hop1[i]
        /\ DOMAIN hop1 = 1..Len(hop1) /\ DOMAIN hop1' = 1..(Len(hop1) + 1)
    BY <1>3, AppendAt DEF StreamInv, StreamTyping
  <1>5. /\ UNCHANGED <<req, server, status1, gateway, forwarded, hop2, status2, page, shown,
                       connections, process, waited>>
        /\ server = "run" /\ 1 \in connections
    BY DEF Stream!SendSample, Stream!Running, Stream!pageVars
  <1>6. StreamTyping'
    BY <1>1, <1>2, <1>4, <1>5 DEF StreamInv, StreamTyping, Stream!TypeOK
  <1>7. TransitInv'
    <2>1. /\ Taken \in Nat /\ Copied \in Nat /\ Taken' = Taken /\ Copied' = Copied
          /\ Taken <= Len(said) /\ (gateway = "send" => Copied = Taken + 1)
          /\ DOMAIN shown = 1..Len(shown) /\ DOMAIN hop2 = 1..Len(hop2)
          /\ Len(shown) \in Nat /\ Len(hop2) \in Nat /\ Taken = Len(shown) + Len(hop2)
      BY <1>5 DEF StreamInv, StreamTyping, TransitInv, Taken, Copied, Bit
    <2>2. \A i \in DOMAIN shown : shown[i] = said'[i]
      BY <1>2, <2>1 DEF StreamInv, TransitInv
    <2>3. \A i \in DOMAIN hop2 : hop2[i] = said'[Len(shown) + i]
      BY <1>2, <2>1 DEF StreamInv, TransitInv
    <2>4. ASSUME 2 \in connections, gateway # "returned"
          PROVE  /\ gateway = "send" => forwarded = said'[Copied]
                 /\ Copied + Len(hop1') = Len(said')
                 /\ \A i \in DOMAIN hop1' : hop1'[i] = said'[Copied + i]
      <3>1. /\ gateway = "send" => forwarded = said[Copied]
            /\ Copied + Len(hop1) = Len(said)
            /\ \A i \in DOMAIN hop1 : hop1[i] = said[Copied + i]
        BY <1>5, <2>4 DEF StreamInv, TransitInv
      <3>2. gateway = "send" => Copied \in 1..Len(said)
        BY <1>4, <2>1, <3>1
      <3>3. ASSUME NEW i \in 1..(Len(hop1) + 1)
            PROVE  hop1'[i] = said'[Copied + i]
        <4>1. CASE i = Len(hop1) + 1
          <5>0. Copied \in Nat /\ Len(hop1) \in Nat /\ Len(said) \in Nat
            BY <1>2, <1>4, <2>1
          <5>1. Copied + i = Len(said) + 1
            BY <3>1, <4>1, <5>0
          <5> QED
            BY <1>2, <1>4, <4>1, <5>1
        <4>2. CASE i # Len(hop1) + 1
          <5>1. i \in DOMAIN hop1 /\ Copied + i \in 1..Len(said)
            BY <1>4, <2>1, <3>1, <4>2
          <5> QED
            BY <1>2, <1>4, <3>1, <5>1
        <4> QED
          BY <4>1, <4>2
      <3>4. gateway = "send" => forwarded = said'[Copied]
        BY <1>2, <3>1, <3>2
      <3>5. Copied + Len(hop1') = Len(said')
        BY <1>2, <1>4, <2>1, <3>1
      <3> QED
        BY <1>4, <3>3, <3>4, <3>5
    <2>5. Taken' <= Len(said')
      BY <1>2, <2>1
    <2> QED
      BY <1>4, <1>5, <2>1, <2>2, <2>3, <2>4, <2>5, <1>2 DEF TransitInv
  <1>8. EndInv'
    BY <1>1, <1>2, <1>5 DEF StreamInv, StreamTyping, EndInv, SampleStatus
  <1> QED
    BY <1>6, <1>7, <1>8 DEF StreamInv

(* The gateway takes a sample from the first connection.                   *)
LEMMA RecvInv ==
  ASSUME StreamInv, Stream!Recv
  PROVE  StreamInv'
  <1>1. /\ gateway = "recv" /\ gateway' = "send" /\ hop1 # <<>>
        /\ forwarded' = Head(hop1) /\ hop1' = Tail(hop1)
        /\ UNCHANGED <<req, server, said, broken, over, status1, hop2, status2, page, shown,
                       connections, process, waited>>
    BY DEF Stream!Recv, Stream!runVars, Stream!pageVars
  <1>2. /\ forwarded' = hop1[1] /\ forwarded' \in SampleStatus
        /\ hop1' \in Seq(SampleStatus) /\ Len(hop1') = Len(hop1) - 1 /\ Len(hop1) \in Nat
        /\ Len(hop1) > 0
        /\ \A i \in 1..(Len(hop1) - 1) : hop1'[i] = hop1[i + 1]
        /\ DOMAIN hop1 = 1..Len(hop1) /\ DOMAIN hop1' = 1..(Len(hop1) - 1)
    BY <1>1, TailAt DEF StreamInv, StreamTyping
  <1>3. StreamTyping'
    BY <1>1, <1>2 DEF StreamInv, StreamTyping, Stream!TypeOK
  <1>4. TransitInv'
    <2>1. Taken \in Nat /\ Copied = Taken /\ Taken' = Taken /\ Copied' = Taken + 1
      BY <1>1 DEF StreamInv, StreamTyping, Taken, Copied, Bit
    <2>2. ASSUME 2 \in connections
          PROVE  /\ forwarded' = said[Taken + 1]
                 /\ Taken + 1 + Len(hop1') <= Len(said)
                 /\ \A i \in DOMAIN hop1' : hop1'[i] = said[Taken + 1 + i]
                 /\ 1 \in connections => Taken + 1 + Len(hop1') = Len(said)
      <3>1. /\ Taken + Len(hop1) <= Len(said)
            /\ \A i \in DOMAIN hop1 : hop1[i] = said[Taken + i]
            /\ 1 \in connections => Taken + Len(hop1) = Len(said)
        BY <1>1, <2>1, <2>2 DEF StreamInv, TransitInv
      <3>2. forwarded' = said[Taken + 1]
        BY <1>2, <3>1
      <3>3. ASSUME NEW i \in 1..(Len(hop1) - 1)
            PROVE  hop1'[i] = said[Taken + 1 + i]
        <4>1. i + 1 \in DOMAIN hop1 /\ Taken + (i + 1) = Taken + 1 + i
          BY <1>2, <2>1
        <4> QED
          BY <1>2, <3>1, <4>1
      <3>4. Taken + 1 + Len(hop1') = Taken + Len(hop1)
        BY <1>2, <2>1
      <3> QED
        BY <1>2, <3>1, <3>2, <3>3, <3>4
    <2> QED
      BY <1>1, <2>1, <2>2 DEF StreamInv, TransitInv
  <1>5. EndInv'
    BY <1>1 DEF StreamInv, EndInv, Taken
  <1> QED
    BY <1>3, <1>4, <1>5 DEF StreamInv

(* It hands the sample on.                                                 *)
LEMMA ForwardInv ==
  ASSUME StreamInv, Stream!Forward
  PROVE  StreamInv'
  <1>1. /\ gateway = "send" /\ gateway' = "recv" /\ 2 \in connections
        /\ hop2' = Append(hop2, forwarded) /\ forwarded' = "none"
        /\ UNCHANGED <<req, server, said, broken, over, hop1, status1, status2, page, shown,
                       connections, process, waited>>
    BY DEF Stream!Forward, Stream!runVars, Stream!pageVars,
           Stream!NoSample
  <1>2. /\ hop2' \in Seq(SampleStatus) /\ Len(hop2') = Len(hop2) + 1 /\ Len(hop2) \in Nat
        /\ hop2'[Len(hop2) + 1] = forwarded
        /\ \A i \in 1..Len(hop2) : hop2'[i] = hop2[i]
        /\ DOMAIN hop2 = 1..Len(hop2) /\ DOMAIN hop2' = 1..(Len(hop2) + 1)
    BY <1>1, AppendAt DEF StreamInv, StreamTyping
  <1>3. StreamTyping'
    BY <1>1, <1>2 DEF StreamInv, StreamTyping, Stream!TypeOK, Stream!NoSample
  <1>4. /\ Taken \in Nat /\ Copied = Taken + 1 /\ Taken' = Taken + 1 /\ Copied' = Taken + 1
        /\ Len(hop1) \in Nat /\ Len(shown) \in Nat /\ Taken = Len(shown) + Len(hop2)
    BY <1>1, <1>2 DEF StreamInv, StreamTyping, Taken, Copied, Bit
  <1>5. /\ forwarded = said[Taken + 1]
        /\ Taken + 1 + Len(hop1) <= Len(said)
        /\ \A i \in DOMAIN hop1 : hop1[i] = said[Taken + 1 + i]
        /\ 1 \in connections => Taken + 1 + Len(hop1) = Len(said)
    BY <1>1, <1>4 DEF StreamInv, TransitInv
  <1>6. TransitInv'
    <2>1. ASSUME NEW i \in 1..(Len(hop2) + 1)
          PROVE  hop2'[i] = said[Len(shown) + i]
      <3>1. CASE i = Len(hop2) + 1
        <4>1. Len(shown) + i = Taken + 1
          BY <1>2, <1>4, <3>1
        <4> QED
          BY <1>2, <1>5, <3>1, <4>1
      <3>2. CASE i # Len(hop2) + 1
        BY <1>2, <3>2 DEF StreamInv, TransitInv
      <3> QED
        BY <3>1, <3>2
    <2>2. Taken' <= Len(said)
      BY <1>4, <1>5 DEF StreamInv, StreamTyping
    <2> QED
      BY <1>1, <1>2, <1>4, <1>5, <2>1, <2>2 DEF StreamInv, TransitInv
  <1>7. EndInv'
    BY <1>1 DEF StreamInv, EndInv
  <1> QED
    BY <1>3, <1>6, <1>7 DEF StreamInv

(* The page shows a sample.                                                *)
LEMMA ShowInv ==
  ASSUME StreamInv, Stream!Show
  PROVE  StreamInv'
  <1>1. /\ hop2 # <<>> /\ shown' = Append(shown, Head(hop2)) /\ hop2' = Tail(hop2)
        /\ UNCHANGED <<req, server, said, broken, over, hop1, status1, gateway, forwarded,
                       status2, connections, process, waited>>
    BY DEF Stream!Show, Stream!runVars
  <1>2. page' \in {"running", "completed", "failed"}
    <2>1. page \in {"running", "completed", "failed"}
      BY DEF StreamInv, StreamTyping, Stream!TypeOK
    <2>2. page' \in {"completed", "failed", page}
      BY Zenon DEF Stream!Show
    <2> QED
      BY <2>1, <2>2
  <1>3. /\ Head(hop2) = hop2[1] /\ Head(hop2) \in SampleStatus
        /\ hop2' \in Seq(SampleStatus) /\ Len(hop2') = Len(hop2) - 1 /\ Len(hop2) \in Nat
        /\ Len(hop2) > 0
        /\ \A i \in 1..(Len(hop2) - 1) : hop2'[i] = hop2[i + 1]
        /\ DOMAIN hop2 = 1..Len(hop2) /\ DOMAIN hop2' = 1..(Len(hop2) - 1)
    BY <1>1, TailAt DEF StreamInv, StreamTyping
  <1>4. /\ shown' \in Seq(SampleStatus) /\ Len(shown') = Len(shown) + 1 /\ Len(shown) \in Nat
        /\ shown'[Len(shown) + 1] = hop2[1]
        /\ \A i \in 1..Len(shown) : shown'[i] = shown[i]
        /\ DOMAIN shown = 1..Len(shown) /\ DOMAIN shown' = 1..(Len(shown) + 1)
    BY <1>1, <1>3, AppendAt DEF StreamInv, StreamTyping
  <1>5. StreamTyping'
    BY <1>1, <1>2, <1>3, <1>4 DEF StreamInv, StreamTyping, Stream!TypeOK
  <1>6. Taken' = Taken /\ Copied' = Copied
    BY <1>1, <1>3, <1>4 DEF Taken, Copied
  <1>7. TransitInv'
    <2>1. ASSUME NEW i \in 1..(Len(shown) + 1)
          PROVE  shown'[i] = said[i]
      <3>1. CASE i = Len(shown) + 1
        <4>1. 1 \in DOMAIN hop2
          BY <1>3
        <4>2. hop2[1] = said[Len(shown) + 1]
          BY <4>1 DEF StreamInv, TransitInv
        <4> QED
          BY <1>4, <3>1, <4>2
      <3>2. CASE i # Len(shown) + 1
        BY <1>4, <3>2 DEF StreamInv, TransitInv
      <3> QED
        BY <3>1, <3>2
    <2>2. ASSUME NEW i \in 1..(Len(hop2) - 1)
          PROVE  hop2'[i] = said[Len(shown') + i]
      <3>1. i + 1 \in DOMAIN hop2 /\ Len(shown) + (i + 1) = Len(shown') + i
        BY <1>3, <1>4
      <3>2. hop2[i + 1] = said[Len(shown) + (i + 1)]
        BY <3>1 DEF StreamInv, TransitInv
      <3> QED
        BY <1>3, <3>1, <3>2
    <2> QED
      BY <1>1, <1>3, <1>4, <1>6, <2>1, <2>2 DEF StreamInv, TransitInv
  <1>8. EndInv'
    BY <1>1, <1>6 DEF StreamInv, EndInv
  <1> QED
    BY <1>5, <1>7, <1>8 DEF StreamInv

(* The ends: of the run, of its call, of the gateway's, of the page's; and *)
(* the end of the process.                                                 *)
LEMMA EndsInv ==
  ASSUME StreamInv,
         \/ Stream!PlanRequest \/ Stream!SinkGone
         \/ Stream!RunLoadTestReturns \/ Stream!GracefulStop
         \/ Stream!Stop \/ Stream!Signal \/ Stream!ShutdownDurPasses
         \/ Stream!RecvEnds \/ Stream!ForwardFails
         \/ Stream!StreamEnds
  PROVE  StreamInv'
  <1>1. UNCHANGED <<said, shown, hop1, hop2, forwarded>>
    BY DEF Stream!PlanRequest, Stream!SinkGone, Stream!Run!SinkFails,
           Stream!Run!GivesUp, Stream!RunLoadTestReturns,
           Stream!GracefulStop, Stream!Stop, Stream!Exit,
           Stream!Signal, Stream!ShutdownDurPasses, Stream!RecvEnds,
           Stream!ForwardFails, Stream!StreamEnds, Stream!runVars,
           Stream!pageVars
  <1>2. connections' \subseteq connections /\ gateway' \in {gateway, "returned"}
    BY DEF Stream!PlanRequest, Stream!SinkGone,
           Stream!RunLoadTestReturns,
           Stream!GracefulStop, Stream!Stop, Stream!Exit,
           Stream!Signal, Stream!ShutdownDurPasses, Stream!RecvEnds,
           Stream!ForwardFails, Stream!StreamEnds
  <1>3. TransitInv'
    BY <1>1, <1>2 DEF StreamInv, TransitInv, Taken, Copied
  <1>4. StreamTyping' /\ EndInv'
    <2>0. /\ Stream!TypeOK
          /\ EndInv
          /\ broken \in BOOLEAN /\ over \in BOOLEAN
      BY DEF StreamInv, StreamTyping
    <2>1. /\ said' \in Seq(SampleStatus) /\ shown' \in Seq(SampleStatus)
          /\ hop1' \in Seq(SampleStatus) /\ hop2' \in Seq(SampleStatus)
          /\ gateway' = "send" => forwarded' \in SampleStatus
      BY <1>1, <1>2 DEF StreamInv, StreamTyping
    <2>2. /\ Stream!TypeOK'
          /\ broken' \in BOOLEAN /\ over' \in BOOLEAN
          /\ EndInv'
      <3> USE <2>0 DEF EndInv, Stream!TypeOK, Stream!Open, Taken
      <3>1. CASE Stream!PlanRequest
        BY <1>1, <3>1 DEF Stream!PlanRequest, Stream!runVars,
              Stream!pageVars
      <3>2. CASE Stream!SinkGone
        <4>1. /\ server = "run" /\ broken' = TRUE /\ over' \in BOOLEAN
              /\ UNCHANGED <<req, server, status1, gateway, status2, page, connections,
                             process, waited>>
          BY <3>2 DEF Stream!SinkGone, Stream!Running,
             Stream!Run!SinkFails, Stream!Run!GivesUp, Stream!pageVars
        <4> QED
          BY <1>1, <4>1
      <3>3. CASE Stream!RunLoadTestReturns
        <4>1. /\ server = "run" /\ over /\ server' = "returned"
              /\ status1' \in {"ok", "error"} /\ (status1' = "ok" => ~broken)
              /\ UNCHANGED <<req, broken, over, gateway, status2, page, connections,
                             process, waited>>
          BY <3>3 DEF Stream!RunLoadTestReturns, Stream!Running,
             Stream!runVars, Stream!pageVars
        <4> QED
          BY <1>1, <4>1
      <3>4. CASE \/ Stream!GracefulStop \/ Stream!Stop
                 \/ Stream!Signal \/ Stream!ShutdownDurPasses
        <4>1. /\ process' \in {"stopping", "killed"}
                   \/ (process' = "clean" /\ server = "returned")
              /\ UNCHANGED <<req, server, broken, over, status1, gateway, status2, page>>
          BY <3>4 DEF Stream!GracefulStop, Stream!Stop, Stream!Exit,
             Stream!HandlersReturned, Stream!Signal,
             Stream!ShutdownDurPasses, Stream!runVars,
             Stream!pageVars
        <4> QED
          BY <1>1, <1>2, <4>1
      <3>5. CASE Stream!RecvEnds
        <4>1. 2 \in connections /\ 1 \in connections => Taken = Len(said)
          BY <3>5 DEF Stream!RecvEnds, TransitInv, Copied, Bit, StreamInv, StreamTyping
        <4>2. /\ gateway' = "returned" /\ status2' \in {"ok", "error"}
              /\ status2' = "ok" => status1 = "ok" /\ 1 \in connections
              /\ UNCHANGED <<req, server, broken, over, status1, page, connections, process,
                             waited>>
          BY <3>5 DEF Stream!RecvEnds, Stream!runVars, Stream!pageVars
        <4> QED
          BY <1>1, <4>1, <4>2
      <3>6. CASE Stream!ForwardFails
        BY <1>1, <3>6 DEF Stream!ForwardFails, Stream!runVars,
              Stream!pageVars
      <3>7. CASE Stream!StreamEnds
        BY <1>1, <3>7 DEF Stream!StreamEnds, Stream!runVars
      <3> QED
        BY <3>1, <3>2, <3>3, <3>4, <3>5, <3>6, <3>7
    <2> QED
      BY <2>1, <2>2 DEF StreamTyping
  <1> QED
    BY <1>3, <1>4 DEF StreamInv

(* A connection breaks, and what is on its way may be lost.                *)
LEMMA BreakInv ==
  ASSUME StreamInv, NEW link \in {1, 2}, Stream!Break(link)
  PROVE  StreamInv'
  <1>1. /\ connections' = connections \ {link}
        /\ hop1' \in {<<>>, hop1} /\ hop2' \in {<<>>, hop2}
        /\ link = 1 => hop2' = hop2
        /\ link = 2 => hop1' = hop1
        /\ UNCHANGED <<req, server, said, broken, over, status1, gateway, forwarded, status2,
                       page, shown, process, waited>>
    BY DEF Stream!Break, Stream!runVars, Stream!pageVars
  <1>2. StreamTyping'
    <2>1. Stream!TypeOK'
      BY <1>1 DEF StreamInv, StreamTyping, Stream!TypeOK
    <2> QED
      <3>1. hop1' \in Seq(SampleStatus) /\ hop2' \in Seq(SampleStatus)
        <4>1. /\ <<>> \in Seq(SampleStatus)
              /\ hop1 \in Seq(SampleStatus) /\ hop2 \in Seq(SampleStatus)
          BY DEF StreamInv, StreamTyping
        <4> QED
          BY <1>1, <4>1
      <3>2. UNCHANGED <<said, shown, gateway, forwarded, broken, over>>
        BY <1>1
      <3> QED
        BY <2>1, <3>1, <3>2 DEF StreamInv, StreamTyping
  <1>3. CASE link = 1
    <2>1. Taken' = Taken /\ Copied' = Copied /\ Copied \in Nat
      BY <1>1, <1>3 DEF Taken, Copied, Bit, StreamInv, StreamTyping
    <2>2. Len(hop1') \in Nat /\ Len(hop1') <= Len(hop1) /\ Len(hop1) \in Nat /\ Len(said) \in Nat
      BY <1>1 DEF StreamInv, StreamTyping
    <2>3. \A i \in DOMAIN hop1' : i \in DOMAIN hop1 /\ hop1'[i] = hop1[i]
      BY <1>1
    <2> QED
      BY <1>1, <1>2, <1>3, <2>1, <2>2, <2>3 DEF StreamInv, TransitInv, EndInv
  <1>4. CASE link = 2
    <2>1. 2 \notin connections'
      BY <1>1, <1>4
    <2>2. Taken' <= Taken /\ Taken' \in Nat /\ Taken \in Nat /\ Len(said) \in Nat
      BY <1>1 DEF Taken, StreamInv, StreamTyping
    <2>3. \A i \in DOMAIN hop2' : i \in DOMAIN hop2 /\ hop2'[i] = hop2[i]
      BY <1>1
    <2> QED
      BY <1>1, <1>2, <2>1, <2>2, <2>3 DEF StreamInv, TransitInv, EndInv
  <1> QED
    BY <1>3, <1>4

(* Each step of the load generator, of the gateway and of the page.        *)
LEMMA StreamStepInv ==
  ASSUME StreamInv, [Stream!Next]_streamVars
  PROVE  StreamInv'
  <1>1. CASE UNCHANGED streamVars
    BY <1>1 DEF streamVars, StreamInv, StreamTyping, Stream!TypeOK, TransitInv,
                EndInv, Taken, Copied
  <1> QED
    BY <1>1, SendSampleInv, RecvInv, ForwardInv, ShowInv, EndsInv, BreakInv
       DEF Stream!Next, Stream!LoadGen, Stream!Gateway,
           Stream!Page

(* The invariant is enough: a clean end comes behind the last sample.      *)
LEMMA StreamInvWhole ==
  ASSUME StreamInv
  PROVE  Stream!CleanEndIsWhole
  <1>1. Stream!PlansAreRunnable
    <2>1. Stream!Refused(Stream!NoRequest)
      BY DEF Stream!Refused, Stream!NoRequest, Stream!Presets,
             Stream!ValidScenario
    <2>2. req \in Stream!Requests \cup {Stream!NoRequest}
      BY DEF StreamInv, StreamTyping, Stream!TypeOK
    <2> QED
      BY <2>1, <2>2, PlansRun DEF Stream!PlansAreRunnable
  <1>2. /\ Len(shown) \in Nat /\ Len(hop2) \in Nat /\ Len(said) \in Nat
        /\ Taken = Len(shown) + Len(hop2) /\ Taken <= Len(said)
        /\ DOMAIN shown = 1..Len(shown)
        /\ \A i \in 1..Len(shown) : shown[i] = said[i]
    BY DEF StreamInv, StreamTyping, TransitInv, Taken
  <1>3. Stream!IsPrefix(shown, said)
    <2>1. Len(shown) <= Len(said)
      BY <1>2
    <2>2. PICK a, b : a = SubSeq(shown, 1, Len(shown)) /\ b = SubSeq(said, 1, Len(shown))
      OBVIOUS
    <2>3. a = [i \in 1..Len(shown) |-> shown[i]] /\ b = [i \in 1..Len(shown) |-> said[i]]
      BY <1>2, <2>1, <2>2 DEF StreamInv, StreamTyping
    <2>4. a = b
      BY <1>2, <2>3
    <2> QED
      BY <2>1, <2>2, <2>4 DEF Stream!IsPrefix
  <1>4. ASSUME status2 = "ok", 2 \in connections, hop2 = <<>>
        PROVE  shown = said /\ said # <<>> /\ said[Len(said)] \in {"COMPLETED", "FAILED"}
    <2>1. Len(shown) = Len(said) /\ over /\ ~broken
      BY <1>2, <1>4 DEF StreamInv, EndInv
    <2>2. shown = said
      BY <1>2, <2>1 DEF StreamInv, StreamTyping
    <2> QED
      BY <2>1, <2>2 DEF StreamInv, EndInv
  <1> QED
    BY <1>1, <1>3, <1>4
       DEF Stream!CleanEndIsWhole, Stream!Last, StreamInv, StreamTyping

----------------------------------------------------------------------------
(* The simulator's users and their pool of links.                          *)

(* The fields of a user; what is a sequence, of whatever.                  *)
Fields == {"pc", "kind", "n", "code", "lastKey"}
IsSequence(s) == s \in Seq({s[i] : i \in DOMAIN s})

(* What a user has counted of the pool is still old enough, and a link     *)
(* that it picked was stored so long ago that the resolver has it.         *)
UserInv(u) ==
  /\ DOMAIN user[u] = Fields
  /\ user[u].kind \in {"created", "other"}
  /\ user[u].n \in 0..Len(pool)
  /\ user[u].code \in {0} \cup DOMAIN links
  /\ user[u].pc = "picking" => \A i \in 1..user[u].n : pool[i].born + Settle <= now
  /\ user[u].pc = "read" =>
       /\ user[u].code \in DOMAIN links
       /\ links[user[u].code].at + Settle <= now

(* The pool is in the order of its stamps, and none is before the commit.  *)
PoolInv ==
  /\ now \in Nat
  /\ IsSequence(links)
  /\ \A i \in DOMAIN links : links[i].at \in Nat /\ links[i].at <= now
  /\ pool \in Seq([code : Nat, born : Nat])
  /\ \A i \in DOMAIN pool :
       /\ pool[i].code \in DOMAIN links
       /\ links[pool[i].code].at <= pool[i].born
       /\ pool[i].born <= now
  /\ \A i, j \in DOMAIN pool : i <= j => pool[i].born <= pool[j].born

CountersInv ==
  /\ totals \in [{"created", "missed", "other"} -> Nat]
  /\ window \in 0..Traffic!Total
  /\ reporter \in {"reporting", "waiting", "printed"}

UsersInv == user = [u \in Users |-> user[u]] /\ \A u \in Users : UserInv(u)

SimulatorInv ==
  now \in 0..MaxClock /\ UsersInv /\ PoolInv /\ CountersInv

(* A sequence grows.                                                       *)
LEMMA AppendAny ==
  ASSUME NEW s, IsSequence(s), NEW e
  PROVE  /\ IsSequence(Append(s, e)) /\ Len(Append(s, e)) = Len(s) + 1 /\ Len(s) \in Nat
         /\ Append(s, e)[Len(s) + 1] = e
         /\ \A i \in 1..Len(s) : Append(s, e)[i] = s[i]
         /\ DOMAIN s = 1..Len(s) /\ DOMAIN Append(s, e) = 1..(Len(s) + 1)
  <1> DEFINE S == {s[i] : i \in DOMAIN s}
             T == S \cup {e}
             U == {Append(s, e)[i] : i \in DOMAIN Append(s, e)}
  <1>1. s \in Seq(S)
    BY DEF IsSequence
  <1>2. s \in Seq(T) /\ e \in T
    BY <1>1
  <1> HIDE DEF S, T
  <1>3. /\ Append(s, e) \in Seq(T) /\ Len(Append(s, e)) = Len(s) + 1 /\ Len(s) \in Nat
        /\ Append(s, e)[Len(s) + 1] = e
        /\ \A i \in 1..Len(s) : Append(s, e)[i] = s[i]
        /\ DOMAIN s = 1..Len(s) /\ DOMAIN Append(s, e) = 1..(Len(s) + 1)
    BY <1>2
  <1>4. PICK t : t = Append(s, e)
    OBVIOUS
  <1>5. t \in Seq(T) /\ Len(t) \in Nat
    BY <1>3, <1>4
  <1>6. t \in Seq({t[i] : i \in DOMAIN t})
    BY <1>5
  <1> QED
    BY <1>3, <1>4, <1>6 DEF IsSequence

(* What the pool's entries are.                                            *)
LEMMA PoolEntries ==
  ASSUME PoolInv, NEW i \in DOMAIN pool
  PROVE  pool[i].code \in Nat /\ pool[i].born \in Nat
  <1> DEFINE E == [code : Nat, born : Nat]
  <1>1. pool \in Seq(E)
    BY DEF PoolInv
  <1> HIDE DEF E
  <1>2. pool[i] \in E
    BY <1>1
  <1> QED
    BY <1>2 DEF E

(* Time passes and rows are added.                                         *)
Grows ==
  /\ now' \in Nat /\ now <= now'
  /\ Len(links') \in Nat /\ DOMAIN links' = 1..Len(links')
  /\ \A i \in DOMAIN links : i \in DOMAIN links' /\ links'[i] = links[i]
  /\ Len(pool') \in Nat /\ Len(pool) <= Len(pool')
  /\ \A i \in DOMAIN pool : pool'[i] = pool[i]

(* Which disturbs nobody.                                                  *)
LEMMA BystanderInv ==
  ASSUME Settle \in Nat, SimulatorInv, Grows, NEW v \in Users, user'[v] = user[v]
  PROVE  UserInv(v)'
  <1>1. UserInv(v) /\ Len(pool) \in Nat /\ DOMAIN pool = 1..Len(pool) /\ now \in Nat
    BY DEF SimulatorInv, UsersInv, PoolInv
  <1>2. user[v].n \in 0..Len(pool')
    BY <1>1 DEF UserInv, Grows
  <1>3. user[v].code \in {0} \cup DOMAIN links'
    BY <1>1 DEF UserInv, Grows
  <1>4. ASSUME user[v].pc = "picking", NEW i \in 1..user[v].n
        PROVE  pool'[i].born + Settle <= now'
    <2>1. i \in DOMAIN pool /\ pool[i].born + Settle <= now
      BY <1>1, <1>4 DEF UserInv
    <2>2. pool[i].born \in Nat
      BY <2>1, PoolEntries DEF SimulatorInv
    <2> QED
      BY <1>1, <2>1, <2>2 DEF Grows
  <1>5. ASSUME user[v].pc = "read"
        PROVE  user[v].code \in DOMAIN links' /\ links'[user[v].code].at + Settle <= now'
    <2>1. user[v].code \in DOMAIN links /\ links[user[v].code].at + Settle <= now
      BY <1>1, <1>5 DEF UserInv
    <2>2. links[user[v].code].at \in Nat
      BY <2>1 DEF SimulatorInv, PoolInv
    <2> QED
      BY <1>1, <2>1, <2>2 DEF Grows
  <1> QED
    BY <1>1, <1>2, <1>3, <1>4, <1>5 DEF UserInv

(* What Goes does to a user.                                               *)
LEMMA Going ==
  ASSUME SimulatorInv, NEW u \in Users, NEW r, Traffic!Goes(u, r)
  PROVE  /\ user' = [v \in Users |-> user'[v]]
         /\ \A v \in Users : v # u => user'[v] = user[v]
         /\ user'[u] = [x \in Fields |-> IF x \in DOMAIN r THEN r[x] ELSE user[u][x]]
  BY DEF SimulatorInv, UsersInv, UserInv, Traffic!Goes

(* A move to where nothing is known of a link.                             *)
Calm(r) ==
  /\ "pc" \in DOMAIN r /\ r["pc"] \notin {"picking", "read"}
  /\ "kind" \in DOMAIN r => r["kind"] \in {"created", "other"}
  /\ "n" \in DOMAIN r => r["n"] = 0
  /\ "code" \in DOMAIN r => r["code"] = 0

(* Such a move keeps what is known of the users.                           *)
LEMMA CalmMove ==
  ASSUME Settle \in Nat, SimulatorInv, Grows, NEW u \in Users, NEW r, Calm(r),
         Traffic!Goes(u, r)
  PROVE  UsersInv'
  <1>1. /\ user' = [v \in Users |-> user'[v]]
        /\ \A v \in Users : v # u => user'[v] = user[v]
        /\ user'[u] = [x \in Fields |-> IF x \in DOMAIN r THEN r[x] ELSE user[u][x]]
    BY Going
  <1>2. ASSUME NEW v \in Users, v # u
        PROVE  UserInv(v)'
    BY <1>1, <1>2, BystanderInv
  <1>3. UserInv(u)'
    <2>1. UserInv(u) /\ Len(pool) \in Nat
      BY DEF SimulatorInv, UsersInv, PoolInv
    <2>2. /\ DOMAIN user'[u] = Fields
          /\ user'[u].pc \notin {"picking", "read"}
          /\ user'[u].kind \in {"created", "other"}
          /\ user'[u].n \in {0, user[u].n}
          /\ user'[u].code \in {0, user[u].code}
      BY <1>1, <2>1 DEF Calm, Fields, UserInv
    <2>3. user'[u].n \in 0..Len(pool')
      BY <2>1, <2>2 DEF UserInv, Grows
    <2>4. user'[u].code \in {0} \cup DOMAIN links'
      BY <2>1, <2>2 DEF UserInv, Grows
    <2> QED
      BY <2>2, <2>3, <2>4 DEF UserInv
  <1> QED
    BY <1>1, <1>2, <1>3 DEF UsersInv

(* Nothing is added when pool and links are left alone.                    *)
LEMMA Stays ==
  ASSUME SimulatorInv, UNCHANGED <<now, links, pool>>
  PROVE  Grows /\ PoolInv'
  <1>1. IsSequence(links)
    BY DEF SimulatorInv, PoolInv
  <1>2. Len(links) \in Nat /\ DOMAIN links = 1..Len(links)
    BY <1>1, AppendAny
  <1> QED
    BY <1>2 DEF SimulatorInv, PoolInv, Grows, IsSequence

(* The links that are old enough are the first ones of the pool.           *)
LEMMA SettledAreFirst ==
  ASSUME SimulatorInv
  PROVE  /\ Traffic!Settled \in 0..Len(pool)
         /\ \A i \in 1..Traffic!Settled : i \in DOMAIN pool /\ pool[i].born + Settle <= now
  <1> DEFINE A == {i \in DOMAIN pool : pool[i].born + Settle <= now}
  <1>1. /\ DOMAIN pool = 1..Len(pool) /\ Len(pool) \in Nat /\ now \in Nat /\ Settle \in Nat
        /\ \A i \in DOMAIN pool : pool[i].born \in Nat
        /\ \A i, j \in DOMAIN pool : i <= j => pool[i].born <= pool[j].born
    <2>1. \A i \in DOMAIN pool : pool[i].born \in Nat
      BY PoolEntries DEF SimulatorInv
    <2>2. DOMAIN pool = 1..Len(pool) /\ Len(pool) \in Nat
      BY DEF SimulatorInv, PoolInv
    <2> QED
      BY <2>1, <2>2, SimulatorAssumption DEF SimulatorInv, PoolInv
  <1>2. Traffic!Settled = Cardinality(A)
    BY DEF Traffic!Settled, Traffic!Cardinality, Cardinality
  <1>3. ASSUME NEW n \in Nat, A \subseteq 1..n
        PROVE  Cardinality(A) \in 0..n
    <2>1. IsFiniteSet(1..n) /\ Cardinality(1..n) = n
      BY FS_Interval
    <2>2. IsFiniteSet(A) /\ Cardinality(A) <= Cardinality(1..n)
      BY <1>3, <2>1, FS_Subset
    <2> QED
      BY <2>1, <2>2, FS_CardinalityType
  <1>4. Cardinality(A) \in 0..Len(pool)
    BY <1>1, <1>3
  <1>5. ASSUME NEW i \in 1..Cardinality(A)
        PROVE  i \in A
    <2> SUFFICES ASSUME i \notin A PROVE FALSE
      OBVIOUS
    <2>1. i \in 1..Len(pool)
      BY <1>4
    <2>2. ASSUME NEW j \in A PROVE j \in 1..(i - 1)
      <3>1. j \in 1..Len(pool) /\ pool[j].born + Settle <= now
        BY <1>1
      <3>2. CASE i <= j
        BY <1>1, <2>1, <3>1, <3>2
      <3> QED
        BY <2>1, <3>1, <3>2
    <2>3. Cardinality(A) \in 0..(i - 1)
      BY <1>3, <2>1, <2>2
    <2> QED
      BY <1>4, <2>3
  <1> QED
    BY <1>2, <1>4, <1>5

(* A user that looks at the pool, and one that picks from it.              *)
LEMMA LookInv ==
  ASSUME SimulatorInv, NEW u \in Users,
         UNCHANGED <<now, links, pool>>,
         \/ Traffic!Creates(u)
         \/ Traffic!Goes(u, [pc |-> "picking", n |-> Traffic!Settled])
         \/ /\ user[u].pc = "picking"
            /\ \E i \in Traffic!Picks(user[u].n) :
                 Traffic!Goes(u, [pc |-> "read", n |-> 0, code |-> pool[i].code])
  PROVE  UsersInv'
  <1>1. Grows /\ Settle \in Nat
    BY Stays, SimulatorAssumption
  <1>2. CASE Traffic!Creates(u)
    <2>1. PICK r : Calm(r) /\ Traffic!Goes(u, r)
      <3>1. CASE \E key \in {Traffic!NoKey, Traffic!Cardinality(Traffic!Keys \ {Traffic!NoKey}) + 1} :
                   Traffic!Goes(u, [pc |-> "shorten", lastKey |-> key, n |-> 0])
        <4>1. PICK key : Traffic!Goes(u, [pc |-> "shorten", lastKey |-> key, n |-> 0])
          BY <3>1
        <4>2. Calm([pc |-> "shorten", lastKey |-> key, n |-> 0])
          BY DEF Calm
        <4> QED
          BY <4>1, <4>2
      <3>2. CASE Traffic!Goes(u, [pc |-> "replay", n |-> 0])
        <4>1. Calm([pc |-> "replay", n |-> 0])
          BY DEF Calm
        <4> QED
          BY <3>2, <4>1
      <3> QED
        BY <1>2, <3>1, <3>2 DEF Traffic!Creates
    <2> QED
      BY <1>1, <2>1, CalmMove
  <1>3. ASSUME NEW r, Traffic!Goes(u, r), UserInv(u)'
        PROVE  UsersInv'
    <2>1. ASSUME NEW v \in Users, v # u
          PROVE  UserInv(v)'
      BY <1>1, <1>3, <2>1, Going, BystanderInv
    <2> QED
      BY <1>3, <2>1, Going DEF UsersInv
  <1>4. UserInv(u) /\ DOMAIN pool = 1..Len(pool) /\ Len(pool) \in Nat
    BY DEF SimulatorInv, UsersInv, PoolInv
  <1>5. CASE Traffic!Goes(u, [pc |-> "picking", n |-> Traffic!Settled])
    <2>1. user'[u] = [x \in Fields |-> IF x \in {"pc", "n"}
                                       THEN [pc |-> "picking", n |-> Traffic!Settled][x]
                                       ELSE user[u][x]]
      BY <1>5, Going
    <2>2. /\ DOMAIN user'[u] = Fields
          /\ user'[u].pc = "picking" /\ user'[u].n = Traffic!Settled
          /\ user'[u].kind = user[u].kind /\ user'[u].code = user[u].code
      BY <2>1 DEF Fields
    <2>3. UserInv(u)'
      BY <1>4, <2>2, SettledAreFirst DEF UserInv
    <2> QED
      BY <1>3, <1>5, <2>3
  <1>6. ASSUME user[u].pc = "picking", NEW i \in Traffic!Picks(user[u].n),
               Traffic!Goes(u, [pc |-> "read", n |-> 0, code |-> pool[i].code])
        PROVE  UsersInv'
    <2>1. user'[u] = [x \in Fields |-> IF x \in {"pc", "n", "code"}
                                       THEN [pc |-> "read", n |-> 0, code |-> pool[i].code][x]
                                       ELSE user[u][x]]
      BY <1>6, Going
    <2>2. /\ DOMAIN user'[u] = Fields
          /\ user'[u].pc = "read" /\ user'[u].n = 0
          /\ user'[u].kind = user[u].kind /\ user'[u].code = pool[i].code
      BY <2>1 DEF Fields
    <2>3. i \in 1..user[u].n /\ i \in DOMAIN pool
      BY <1>4 DEF Traffic!Picks, UserInv
    <2>4. /\ pool[i].code \in DOMAIN links /\ links[pool[i].code].at <= pool[i].born
          /\ pool[i].born + Settle <= now /\ pool[i].born \in Nat
          /\ links[pool[i].code].at \in Nat
      <3>1. pool[i].born + Settle <= now
        BY <1>4, <1>6, <2>3 DEF UserInv
      <3>2. pool[i].born \in Nat
        BY <2>3, PoolEntries DEF SimulatorInv
      <3>3. pool[i].code \in DOMAIN links /\ links[pool[i].code].at <= pool[i].born
        BY <2>3 DEF SimulatorInv, PoolInv
      <3> QED
        BY <3>1, <3>2, <3>3 DEF SimulatorInv, PoolInv
    <2>5. links[pool[i].code].at + Settle <= now
      BY <1>1, <2>4 DEF SimulatorInv
    <2>6. UserInv(u)'
      BY <1>4, <2>2, <2>4, <2>5 DEF UserInv
    <2> QED
      BY <1>3, <1>6, <2>6
  <1> QED
    BY <1>2, <1>5, <1>6

(* The services store a row, now or before.                                *)
LEMMA AnswersGrow ==
  ASSUME SimulatorInv, NEW key, NEW code, Traffic!Answers(key, code), now' = now, pool' = pool
  PROVE  /\ Grows /\ PoolInv'
         /\ code \in DOMAIN links' /\ links'[code].at <= now
  <1>1. IsSequence(links)
    BY DEF SimulatorInv, PoolInv
  <1>2. Len(links) \in Nat /\ DOMAIN links = 1..Len(links)
    BY <1>1, AppendAny
  <1>3. CASE links' = links /\ code \in DOMAIN links
    <2>1. Grows /\ PoolInv'
      BY <1>3, Stays
    <2> QED
      BY <1>3, <2>1 DEF SimulatorInv, PoolInv
  <1>4. CASE links' = Traffic!Store(key) /\ code = Len(links) + 1
    <2>1. PICK e : e = [key |-> key, at |-> now]
      OBVIOUS
    <2>2. links' = Append(links, e) /\ e.at = now
      BY <1>4, <2>1 DEF Traffic!Store
    <2>3. /\ IsSequence(links') /\ Len(links') = Len(links) + 1
          /\ links'[Len(links) + 1] = e
          /\ \A i \in 1..Len(links) : links'[i] = links[i]
          /\ DOMAIN links' = 1..(Len(links) + 1)
      BY <1>1, <2>2, AppendAny
    <2>4. \A i \in DOMAIN links' : links'[i].at \in Nat /\ links'[i].at <= now
      <3>1. now \in Nat
        BY DEF SimulatorInv, PoolInv
      <3> SUFFICES ASSUME NEW i \in DOMAIN links'
                   PROVE  links'[i].at \in Nat /\ links'[i].at <= now
        OBVIOUS
      <3>2. CASE i = Len(links) + 1
        BY <2>2, <2>3, <3>1, <3>2
      <3>3. CASE i # Len(links) + 1
        <4>1. i \in DOMAIN links /\ links'[i] = links[i]
          BY <1>2, <2>3, <3>3
        <4> QED
          BY <4>1 DEF SimulatorInv, PoolInv
      <3> QED
        BY <3>2, <3>3
    <2>5. Grows
      BY <1>2, <2>3 DEF SimulatorInv, PoolInv, Grows
    <2>6. PoolInv'
      BY <2>3, <2>4, <2>5 DEF SimulatorInv, PoolInv, Grows
    <2> QED
      BY <1>2, <1>4, <2>3, <2>4, <2>5, <2>6
  <1> QED
    BY <1>3, <1>4 DEF Traffic!Answers, Traffic!RowOf

(* A shorten that fails adds a row or none.                                *)
LEMMA LostInv ==
  ASSUME SimulatorInv, NEW u \in Users, Traffic!Lost(u), now' = now
  PROVE  UsersInv' /\ PoolInv'
  <1>1. Grows /\ PoolInv'
    <2>1. pool' = pool
      BY DEF Traffic!Lost
    <2>2. CASE links' = links
      BY <2>1, <2>2, Stays
    <2>3. CASE \E code \in 1..MaxLinks : Traffic!Answers(user[u].lastKey, code)
      BY <2>1, <2>3, AnswersGrow
    <2> QED
      BY <2>2, <2>3 DEF Traffic!Lost
  <1>2. Traffic!Goes(u, [pc |-> "report", kind |-> "other", n |-> 0, code |-> 0])
    BY DEF Traffic!Lost, Traffic!Reports, Traffic!NoCode
  <1>3. Calm([pc |-> "report", kind |-> "other", n |-> 0, code |-> 0])
    BY DEF Calm
  <1>4. UsersInv'
    BY <1>1, <1>2, <1>3, CalmMove, SimulatorAssumption
  <1> QED
    BY <1>1, <1>4

(* A link that was shortened enters the pool last, with the latest stamp.  *)
LEMMA CreatedInv ==
  ASSUME SimulatorInv, NEW u \in Users, NEW code \in 1..MaxLinks,
         Traffic!Answers(user[u].lastKey, code),
         pool' = Append(pool, [code |-> code, born |-> now]),
         Traffic!Goes(u, [pc |-> "report", kind |-> "created"]), now' = now
  PROVE  UsersInv' /\ PoolInv'
  <1> DEFINE e == [code |-> code, born |-> now]
             Entry == [code : Nat, born : Nat]
  <1>1. pool \in Seq(Entry) /\ now \in Nat /\ code \in Nat
    BY SimulatorAssumption DEF SimulatorInv, PoolInv
  <1>2. e \in Entry /\ e.code = code /\ e.born = now
    BY <1>1
  <1> HIDE DEF e, Entry
  <1>3. /\ pool' \in Seq(Entry) /\ Len(pool') = Len(pool) + 1 /\ Len(pool) \in Nat
        /\ pool'[Len(pool) + 1] = e
        /\ \A i \in 1..Len(pool) : pool'[i] = pool[i]
        /\ DOMAIN pool = 1..Len(pool) /\ DOMAIN pool' = 1..(Len(pool) + 1)
    BY <1>1, <1>2, AppendAt DEF e
  <1>4. /\ IsSequence(links') /\ Len(links') \in Nat /\ DOMAIN links' = 1..Len(links')
        /\ \A i \in DOMAIN links : i \in DOMAIN links' /\ links'[i] = links[i]
        /\ \A i \in DOMAIN links' : links'[i].at \in Nat /\ links'[i].at <= now
        /\ code \in DOMAIN links'
    <2>1. IsSequence(links)
      BY DEF SimulatorInv, PoolInv
    <2>2. Len(links) \in Nat /\ DOMAIN links = 1..Len(links)
      BY <2>1, AppendAny
    <2>3. CASE links' = links /\ code \in DOMAIN links
      BY <2>1, <2>2, <2>3 DEF SimulatorInv, PoolInv
    <2>4. CASE links' = Traffic!Store(user[u].lastKey) /\ code = Len(links) + 1
      <3>1. PICK row : row = [key |-> user[u].lastKey, at |-> now]
        OBVIOUS
      <3>2. links' = Append(links, row) /\ row.at = now
        BY <2>4, <3>1 DEF Traffic!Store
      <3>3. /\ IsSequence(links') /\ Len(links') = Len(links) + 1
            /\ links'[Len(links) + 1] = row
            /\ \A i \in 1..Len(links) : links'[i] = links[i]
            /\ DOMAIN links' = 1..(Len(links) + 1)
        BY <2>1, <3>2, AppendAny
      <3> QED
        BY <1>1, <2>2, <2>4, <3>2, <3>3 DEF SimulatorInv, PoolInv
    <2> QED
      BY <2>3, <2>4 DEF Traffic!Answers, Traffic!RowOf
  <1>5. Grows
    BY <1>1, <1>3, <1>4 DEF Grows
  <1>6. UsersInv'
    <2>1. Calm([pc |-> "report", kind |-> "created"])
      BY DEF Calm
    <2> QED
      BY <1>5, <2>1, CalmMove, SimulatorAssumption
  <1>7. ASSUME NEW i \in DOMAIN pool'
        PROVE  /\ pool'[i].code \in DOMAIN links'
               /\ links'[pool'[i].code].at <= pool'[i].born
               /\ pool'[i].born <= now
               /\ \A j \in DOMAIN pool' : j <= i => pool'[j].born <= pool'[i].born
    <2>1. \A j \in DOMAIN pool : pool[j].born <= now /\ pool[j].born \in Nat
      BY PoolEntries DEF SimulatorInv, PoolInv
    <2>2. CASE i = Len(pool) + 1
      <3>1. pool'[i].code = code /\ pool'[i].born = now
        BY <1>2, <1>3, <2>2
      <3>2. \A j \in DOMAIN pool' : pool'[j].born <= now
        BY <1>1, <1>2, <1>3, <2>1
      <3> QED
        BY <1>1, <1>4, <3>1, <3>2
    <2>3. CASE i # Len(pool) + 1
      <3>1. i \in DOMAIN pool /\ pool'[i] = pool[i]
        BY <1>3, <2>3
      <3>2. pool[i].code \in DOMAIN links /\ links[pool[i].code].at <= pool[i].born
        BY <3>1 DEF SimulatorInv, PoolInv
      <3>3. ASSUME NEW j \in DOMAIN pool', j <= i
            PROVE  pool'[j].born <= pool'[i].born
        <4>1. j \in DOMAIN pool /\ pool'[j] = pool[j]
          BY <1>3, <3>1, <3>3
        <4> QED
          BY <3>1, <3>3, <4>1 DEF SimulatorInv, PoolInv
      <3> QED
        BY <1>4, <2>1, <3>1, <3>2, <3>3
    <2> QED
      BY <2>2, <2>3
  <1>8. PoolInv'
    BY <1>1, <1>3, <1>4, <1>7 DEF PoolInv, Entry
  <1> QED
    BY <1>6, <1>8

(* An answer to a click, a report or a probe leaves the pool alone.        *)
LEMMA QuietInv ==
  ASSUME SimulatorInv, NEW u \in Users,
         \/ Traffic!Leave(u) \/ Traffic!ReadReturns(u) \/ Traffic!SendBad(u)
         \/ Traffic!Record(u)
  PROVE  UsersInv'
  <1>1. Grows /\ Settle \in Nat
    BY Stays, SimulatorAssumption DEF Traffic!Leave, Traffic!ReadReturns, Traffic!SendBad,
                 Traffic!Record
  <1> SUFFICES \E r : Calm(r) /\ Traffic!Goes(u, r)
    BY <1>1, CalmMove
  <1>2. Calm([pc |-> "gone"]) /\ Calm([pc |-> "loop", kind |-> "other"])
    BY DEF Calm
  <1>3. Calm([pc |-> "report", kind |-> "other", n |-> 0, code |-> 0])
    BY DEF Calm
  <1>4. CASE Traffic!Leave(u) \/ Traffic!Record(u)
    BY <1>2, <1>4 DEF Traffic!Leave, Traffic!Record
  <1>5. CASE Traffic!SendBad(u)
    BY <1>3, <1>5 DEF Traffic!SendBad, Traffic!Reports, Traffic!NoCode
  <1>6. CASE Traffic!ReadReturns(u)
    <2>1. PICK kind \in Traffic!ReadKinds(user[u].code) : Traffic!Reports(u, kind)
      BY <1>6 DEF Traffic!ReadReturns
    <2>2. /\ user[u].code \in DOMAIN links
          /\ links[user[u].code].at + Settle <= now
      BY <1>6 DEF Traffic!ReadReturns, Traffic!At, SimulatorInv, UsersInv, UserInv
    <2>3. ~(now < links[user[u].code].at + Lag)
      BY <2>2, SimulatorAssumption DEF SimulatorInv, PoolInv
    <2>4. kind = "other"
      BY <2>1, <2>3 DEF Traffic!ReadKinds
    <2> QED
      BY <1>3, <2>1, <2>4 DEF Traffic!Reports, Traffic!NoCode
  <1> QED
    BY <1>4, <1>5, <1>6

(* The counters, whoever records.                                          *)
LEMMA CountersStepInv ==
  ASSUME SimulatorInv, [Traffic!Next]_simulatorVars
  PROVE  CountersInv'
  <1> USE DEF CountersInv, Traffic!Total
  <1>0. CountersInv
    BY DEF SimulatorInv
  <1>1. CASE UNCHANGED <<totals, window>> /\ reporter' \in {reporter, "waiting", "printed"}
    BY <1>0, <1>1
  <1>2. CASE Traffic!Flush
    BY <1>0, <1>2 DEF Traffic!Flush
  <1>3. ASSUME NEW u \in Users, Traffic!Record(u)
        PROVE  CountersInv'
    <2>1. CASE ended
      BY <1>0, <1>3, <2>1 DEF Traffic!Record
    <2>2. CASE ~ended
      <3>1. /\ totals' = [totals EXCEPT ![user[u].kind] = @ + 1]
            /\ window' = window + 1 /\ reporter' = reporter
        BY <1>3, <2>2 DEF Traffic!Record
      <3>2. user[u].kind \in {"created", "other"}
        BY DEF SimulatorInv, UsersInv, UserInv
      <3> QED
        BY <1>0, <3>1, <3>2
    <2> QED
      BY <2>1, <2>2
  <1> QED
    BY <1>1, <1>2, <1>3
       DEF Traffic!Next, Traffic!UserStep, Traffic!Tick, Traffic!End, Traffic!Stop,
           Traffic!PrintTotals, Traffic!Leave, Traffic!Look, Traffic!Pick,
           Traffic!ShortenReturns, Traffic!ReplayReturns, Traffic!ReadReturns,
           Traffic!SendBad, simulatorVars

(* Each step of a user, of main and of the clock.                          *)
LEMMA SimulatorStepInv ==
  ASSUME SimulatorInv, [Traffic!Next]_simulatorVars
  PROVE  SimulatorInv'
  <1> SUFFICES now' \in 0..MaxClock /\ UsersInv' /\ PoolInv'
    BY CountersStepInv DEF SimulatorInv
  <1>0. now \in 0..MaxClock /\ MaxClock \in Nat /\ Settle \in Nat
    BY SimulatorAssumption DEF SimulatorInv
  <1>1. ASSUME UNCHANGED <<now, links, pool, user>>
        PROVE  now' \in 0..MaxClock /\ UsersInv' /\ PoolInv'
    <2>1. Grows /\ PoolInv'
      BY <1>1, Stays
    <2>2. UsersInv'
      BY <1>0, <1>1, <2>1, BystanderInv DEF SimulatorInv, UsersInv
    <2> QED
      BY <1>0, <1>1, <2>1, <2>2
  <1>2. CASE Traffic!Tick
    <2>1. UNCHANGED <<links, pool, user>> /\ now' = now + 1 /\ now < MaxClock
      BY <1>2 DEF Traffic!Tick
    <2>2. Grows
      <3>1. Len(links) \in Nat /\ DOMAIN links = 1..Len(links)
        BY AppendAny DEF SimulatorInv, PoolInv
      <3> QED
        BY <1>0, <2>1, <3>1 DEF Grows, SimulatorInv, PoolInv
    <2>3. UsersInv'
      BY <1>0, <2>1, <2>2, BystanderInv DEF SimulatorInv, UsersInv
    <2>4. PoolInv'
      <3>1. now' \in Nat /\ now <= now'
        BY <1>0, <2>1
      <3>2. \A i \in DOMAIN links : links[i].at \in Nat /\ links[i].at <= now'
        BY <1>0, <2>1 DEF SimulatorInv, PoolInv
      <3>3. \A i \in DOMAIN pool : pool[i].born <= now'
        <4> SUFFICES ASSUME NEW i \in DOMAIN pool PROVE pool[i].born <= now'
          OBVIOUS
        <4>1. pool[i].born \in Nat /\ pool[i].born <= now
          BY PoolEntries DEF SimulatorInv, PoolInv
        <4> QED
          BY <1>0, <2>1, <4>1
      <3> QED
        BY <2>1, <3>1, <3>2, <3>3 DEF SimulatorInv, PoolInv, IsSequence
    <2> QED
      BY <1>0, <2>1, <2>3, <2>4
  <1>3. ASSUME NEW u \in Users, Traffic!UserStep(u)
        PROVE  now' \in 0..MaxClock /\ UsersInv' /\ PoolInv'
    <2>1. now' = now
      BY <1>3 DEF Traffic!UserStep, Traffic!Leave, Traffic!Look, Traffic!Pick,
         Traffic!ShortenReturns, Traffic!ReplayReturns, Traffic!ReadReturns,
         Traffic!SendBad, Traffic!Record
    <2>2. CASE Traffic!Look(u) \/ Traffic!Pick(u)
      <3>1. UNCHANGED <<now, links, pool>>
        BY <2>2 DEF Traffic!Look, Traffic!Pick
      <3>2. UsersInv'
        BY <2>2, <3>1, LookInv DEF Traffic!Look, Traffic!Pick, Traffic!At
      <3> QED
        BY <1>0, <2>1, <3>1, <3>2, Stays
    <2>3. CASE Traffic!ShortenReturns(u) \/ Traffic!ReplayReturns(u)
      <3>1. UsersInv' /\ PoolInv'
        BY <2>1, <2>3, LostInv, CreatedInv DEF Traffic!ShortenReturns, Traffic!ReplayReturns
      <3> QED
        BY <1>0, <2>1, <3>1
    <2>4. CASE \/ Traffic!Leave(u) \/ Traffic!ReadReturns(u) \/ Traffic!SendBad(u)
               \/ Traffic!Record(u)
      <3>1. UNCHANGED <<now, links, pool>>
        BY <2>4 DEF Traffic!Leave, Traffic!ReadReturns, Traffic!SendBad, Traffic!Record
      <3> QED
        BY <1>0, <2>1, <2>4, <3>1, Stays, QuietInv
    <2> QED
      BY <1>3, <2>2, <2>3, <2>4 DEF Traffic!UserStep
  <1> QED
    BY <1>1, <1>2, <1>3
       DEF Traffic!Next, Traffic!Flush, Traffic!End, Traffic!Stop, Traffic!PrintTotals,
           simulatorVars

(* The invariant is enough.                                                *)
LEMMA SimulatorInvNoMiss ==
  ASSUME SimulatorInv
  PROVE  Traffic!NoClickMisses
  <1>1. /\ \A i \in DOMAIN links : links[i].at <= now
        /\ \A i \in DOMAIN pool : pool[i].code \in DOMAIN links /\ pool[i].born <= now
    BY DEF SimulatorInv, PoolInv
  <1>2. \A u \in Users : /\ user[u].code \in {0} \cup DOMAIN links /\ user[u].n <= Len(pool)
                         /\ user[u].kind # "missed"
    BY DEF SimulatorInv, UsersInv, UserInv, PoolInv
  <1> QED
    BY <1>1, <1>2
       DEF SimulatorInv, CountersInv, Traffic!NoClickMisses, Traffic!TypeOK, Traffic!Kinds,
           Traffic!NoCode

----------------------------------------------------------------------------
(* The clients together share nothing.                                     *)

(* A step is one of one client, and the others stutter.                    *)
LEMMA EachAlone ==
  ASSUME [MCNext]_MCVars
  PROVE  /\ [Traffic!Next]_simulatorVars
         /\ [Crowd!Next]_crowdVars
         /\ [Seed!Next]_seedVars
         /\ [Stream!Next]_streamVars
         /\ [Home!Next]_homeVars
  BY DEF MCNext, MCVars, InStream

(* Each begins within its invariant.                                       *)
LEMMA ClientsBegin ==
  ASSUME MCInit
  PROVE  SimulatorInv /\ CrowdInv /\ SeedInv /\ StreamInv /\ HomeInv
  <1>1. SimulatorInv
    <2>1. /\ now = 0 /\ links = <<>> /\ pool = <<>> /\ window = 0 /\ reporter = "reporting"
          /\ totals = [k \in {"created", "missed", "other"} |-> 0]
          /\ user = [u \in Users |-> [pc |-> "loop", kind |-> "other", n |-> 0, code |-> 0,
                                      lastKey |-> 0]]
      BY DEF MCInit, Traffic!Init, Traffic!Kinds, Traffic!NoCode, Traffic!NoKey
    <2>2. UsersInv
      BY <2>1 DEF UsersInv, UserInv, Fields
    <2>3. PoolInv
      BY <2>1 DEF PoolInv, IsSequence
    <2>4. CountersInv
      BY <2>1 DEF CountersInv, Traffic!Total
    <2> QED
      BY <2>1, <2>2, <2>3, <2>4, SimulatorAssumption DEF SimulatorInv
  <1>2. CrowdInv
    <2>1. /\ phase = "steady" /\ left = 0 /\ target = Base /\ cur = Base /\ event = FALSE
          /\ at = "select" /\ active = Base /\ viral = 0 /\ attack = FALSE /\ comeOfAge = 0
      BY DEF MCInit, Crowd!Init, Crowd!NoLink
    <2>2. Crowd!TypeOK
      <3>1. Longest \in Nat /\ Base \in 0..Crowd!Larger(Base, Most)
        BY CrowdAssumption DEF Crowd!Larger
      <3>2. event \in BOOLEAN /\ attack \in BOOLEAN
        BY <2>1
      <3> QED
        BY <2>1, <3>1, <3>2, CrowdAssumption DEF Crowd!TypeOK, Crowd!Phases
    <2>3. (phase = "attack") = FALSE
      BY <2>1
    <2> QED
      BY <2>1, <2>2, <2>3 DEF CrowdInv
  <1>3. SeedInv
    <2>1. /\ log = <<>> /\ applied = 0 /\ seeded = <<>>
          /\ seedPc = "shorten" /\ seedClock = 0 /\ deadline = 0 /\ seedEnded = FALSE
      BY DEF MCInit, Seed!Init
    <2> QED
      BY <2>1, SeedAssumption DEF SeedInv, Seed!TypeOK
  <1>4. StreamInv
    <2>1. /\ req \in Stream!Requests /\ server = "plan" /\ page = "running"
          /\ said = <<>> /\ broken = FALSE /\ over = FALSE /\ gateway = "recv"
          /\ hop1 = <<>> /\ hop2 = <<>> /\ shown = <<>> /\ status1 = "open" /\ status2 = "open"
          /\ connections = {1, 2} /\ process = "serving" /\ waited = FALSE /\ forwarded = "none"
      BY DEF MCInit, Stream!Init, Stream!Run!Init, Stream!Open,
             Stream!NoSample
    <2>2. StreamTyping
      <3>1. Stream!TypeOK
        BY <2>1 DEF Stream!TypeOK, Stream!Open, Stream!NoSample
      <3>2. broken \in BOOLEAN /\ over \in BOOLEAN
        BY <2>1
      <3> QED
        BY <2>1, <3>1, <3>2 DEF StreamTyping, SampleStatus
    <2>3. TransitInv
      BY <2>1 DEF TransitInv, Taken, Copied, Bit
    <2>4. EndInv
      BY <2>1 DEF EndInv, Taken
    <2> QED
      BY <2>2, <2>3, <2>4 DEF StreamInv
  <1>5. HomeInv
    BY HomeAssumption DEF MCInit, Home!Init, HomeInv, Home!NoStaleRow, Home!TypeOK,
           Home!ToSet, Home!IsInjective
  <1> QED
    BY <1>1, <1>2, <1>3, <1>4, <1>5

(* As long as links spread within -settle, no click of the simulator       *)
(* misses, for any users, any pool and any interleaving: pick counts the   *)
(* settled links under one lock and takes one under another.               *)
THEOREM SimulatorClicksFindLinks == MCSpec => []NoClickMisses
  <1>1. MCInit => SimulatorInv
    BY ClientsBegin
  <1>2. SimulatorInv /\ [MCNext]_MCVars => SimulatorInv'
    BY EachAlone, SimulatorStepInv
  <1>3. SimulatorInv => NoClickMisses
    BY SimulatorInvNoMiss DEF NoClickMisses
  <1> QED
    BY <1>1, <1>2, <1>3, PTL DEF MCSpec

(* Attack and viral link, stored one after the other, never outlive the    *)
(* phase that set them, whatever the sizes of the crowd.                   *)
THEOREM CrowdFlagsFollowPhase == MCSpec => []FlagsFollowPhase
  <1>1. MCInit => CrowdInv
    BY ClientsBegin
  <1>2. CrowdInv /\ [MCNext]_MCVars => CrowdInv'
    BY EachAlone, CrowdStepInv
  <1>3. CrowdInv => FlagsFollowPhase
    BY DEF CrowdInv, FlagsFollowPhase, Crowd!FlagsFollowPhase, Crowd!NoLink
  <1> QED
    BY <1>1, <1>2, <1>3, PTL DEF MCSpec

(* However many links are seeded among whoever else's: when the reads      *)
(* begin, the resolver redirects all of them, since it has the last one.   *)
THEOREM SeededReadsFindLinks == MCSpec => []ReadsFindTheirLinks
  <1>1. MCInit => SeedInv
    BY ClientsBegin
  <1>2. SeedInv /\ [MCNext]_MCVars => SeedInv'
    BY EachAlone, SeedStepInv
  <1>3. SeedInv => ReadsFindTheirLinks
    <2> SUFFICES ASSUME SeedInv, seedPc = "drive", NEW i \in DOMAIN seeded
                 PROVE  seeded[i] <= applied
      BY DEF SeedInv, ReadsFindTheirLinks, Seed!ReadsFindTheirLinks
    <2>1. seeded \in Seq(Nat) /\ seeded # <<>>
      BY DEF SeedInv
    <2>2. Len(seeded) \in DOMAIN seeded /\ i <= Len(seeded)
      BY <2>1
    <2>3. seeded[i] \in Nat /\ seeded[Len(seeded)] \in Nat /\ applied \in Nat
      BY <2>1, <2>2 DEF SeedInv, Seed!TypeOK
    <2>4. seeded[i] <= seeded[Len(seeded)] /\ seeded[Len(seeded)] <= applied
      BY <2>2 DEF SeedInv
    <2> QED
      BY <2>3, <2>4
  <1> QED
    BY <1>1, <1>2, <1>3, PTL DEF MCSpec

(* Whatever breaks or stops on its way, a stream of a load test that the   *)
(* page sees end well has shown it the whole run, its terminal sample      *)
(* last, and no other prefix of it out of order; for any requests, windows *)
(* and numbers of samples.                                                 *)
THEOREM CleanStreamIsWhole == MCSpec => []CleanEndIsWhole
  <1>1. MCInit => StreamInv
    BY ClientsBegin
  <1>2. StreamInv /\ [MCNext]_MCVars => StreamInv'
    BY EachAlone, StreamStepInv
  <1>3. StreamInv => CleanEndIsWhole
    BY StreamInvWhole DEF CleanEndIsWhole
  <1> QED
    BY <1>1, <1>2, <1>3, PTL DEF MCSpec

(* Server and stream ask nothing of a run that LoadRun does not promise,   *)
(* whatever breaks or stops around it; and LoadRunner keeps that promise   *)
(* (LoadRunnerImplementsPromise).                                          *)
THEOREM StreamUsesRun == MCSpec => Stream!Run!Spec
  <1>1. MCInit => Stream!Run!Init
    BY DEF MCInit, Stream!Init
  <1>2. ASSUME [Stream!Next]_streamVars
        PROVE  [Stream!Run!Next]_<<said, broken, over>>
    <2>1. CASE Stream!SendSample \/ Stream!SinkGone
      BY <2>1 DEF Stream!SendSample, Stream!SinkGone, Stream!Run!Next
    <2>2. CASE \/ Stream!PlanRequest \/ Stream!RunLoadTestReturns
               \/ Stream!GracefulStop \/ Stream!Stop
      BY <2>2 DEF Stream!PlanRequest, Stream!RunLoadTestReturns, Stream!GracefulStop,
                  Stream!Stop, Stream!Exit, Stream!runVars
    <2>3. CASE Stream!Gateway \/ Stream!Page
      BY <2>3 DEF Stream!Gateway, Stream!Recv, Stream!RecvEnds, Stream!Forward,
                  Stream!ForwardFails, Stream!Page, Stream!Show, Stream!StreamEnds,
                  Stream!runVars
    <2>4. CASE Stream!Signal \/ Stream!ShutdownDurPasses
               \/ \E link \in {1, 2} : Stream!Break(link)
      BY <2>4 DEF Stream!Signal, Stream!ShutdownDurPasses, Stream!Break, Stream!runVars
    <2>5. CASE UNCHANGED streamVars
      BY <2>5 DEF streamVars
    <2> QED
      BY <1>2, <2>1, <2>2, <2>3, <2>4, <2>5 DEF Stream!Next, Stream!LoadGen
  <1>3. [MCNext]_MCVars => [Stream!Run!Next]_<<said, broken, over>>
    BY <1>2, EachAlone
  <1> QED
    BY <1>1, <1>3, PTL DEF MCSpec, Stream!Run!Spec

(* Whenever the answers come, a row of the page shows what the latest      *)
(* effect asked for, and its list holds no code twice; for any codes and   *)
(* any length of the list.                                                 *)
THEOREM HomeRowsAreFresh == MCSpec => []NoStaleRow
  <1>1. MCInit => HomeInv
    BY ClientsBegin
  <1>2. HomeInv /\ [MCNext]_MCVars => HomeInv'
    BY EachAlone, HomeStepInv
  <1>3. HomeInv => NoStaleRow
    BY DEF HomeInv, NoStaleRow
  <1> QED
    BY <1>1, <1>2, <1>3, PTL DEF MCSpec

(* The summary is printed when every user has gone.                        *)
PrintedInv == reporter = "printed" => Traffic!EveryoneGone

(* A user that has gone does nothing more.                                 *)
LEMMA PrintedStep ==
  ASSUME PrintedInv, [Traffic!Next]_simulatorVars
  PROVE  PrintedInv' /\ (reporter = "printed" => UNCHANGED <<pool, totals>>)
  <1> USE DEF PrintedInv, Traffic!EveryoneGone, Traffic!At
  <1>1. CASE \E u \in Users : Traffic!UserStep(u)
    <2>1. PICK u \in Users : Traffic!UserStep(u)
      BY <1>1
    <2>2. user[u].pc # "gone" /\ reporter' = reporter
      BY <2>1 DEF Traffic!UserStep, Traffic!Leave, Traffic!Look, Traffic!Pick,
         Traffic!ShortenReturns, Traffic!ReplayReturns, Traffic!ReadReturns,
         Traffic!SendBad, Traffic!Record
    <2> QED
      BY <2>2
  <1>2. CASE Traffic!PrintTotals
    BY <1>2 DEF Traffic!PrintTotals
  <1>3. CASE \/ Traffic!Tick \/ Traffic!Flush \/ Traffic!End \/ Traffic!Stop
             \/ UNCHANGED simulatorVars
    BY <1>3 DEF Traffic!Tick, Traffic!Flush, Traffic!End, Traffic!Stop, simulatorVars
  <1> QED
    BY <1>1, <1>2, <1>3 DEF Traffic!Next

(* The final summary, read without a lock, reads what nobody writes any    *)
(* more, however many users there were.                                    *)
THEOREM SimulatorSummaryIsFinal == MCSpec => SummaryIsFinal
  <1>1. MCInit => PrintedInv
    BY DEF MCInit, Traffic!Init, PrintedInv
  <1>2. PrintedInv /\ [MCNext]_MCVars => PrintedInv'
    BY EachAlone, PrintedStep
  <1>3. PrintedInv /\ [MCNext]_MCVars =>
          [reporter = "printed" => UNCHANGED <<pool, totals>>]_(Traffic!vars)
    BY EachAlone, PrintedStep DEF simulatorVars, Traffic!vars
  <1> QED
    BY <1>1, <1>2, <1>3, PTL DEF MCSpec, SummaryIsFinal, Traffic!SummaryIsFinal

-----------------------------------------------------------------------------
(* Latencies: a window can always be sorted, whichever of its orders       *)
(* sorting finds, and a rank in the sorted window is a count in the window.*)

(* A set of numbers that is not empty has a least one.                     *)
LEMMA Smallest ==
  ASSUME NEW T \in SUBSET Nat, T # {}
  PROVE  \E n \in T : \A k \in T : n <= k
  <1>1. PICK n \in T : \A k \in T : ~(<<k, n>> \in OpToRel(<, Nat))
    BY NatLessThanWellFounded, WFMin
  <1>2. ASSUME NEW k \in T PROVE n <= k
    <2>1. ~(k < n)
      BY <1>1 DEF OpToRel
    <2> QED
      BY <2>1
  <1> QED
    BY <1>2

(* The orders in which sorting may leave the latencies d at T.             *)
OrdersOf(d, T) ==
  {f \in Bijection(1..Cardinality(T), T) :
     \A i, j \in 1..Cardinality(T) : i <= j => d[f[i]] <= d[f[j]]}

(* A least one, before an order of the others.                             *)
LEMMA LeastFirst ==
  ASSUME NEW T, IsFiniteSet(T), NEW d, \A x \in T : d[x] \in Nat,
         NEW x \in T, \A y \in T : d[x] <= d[y],
         NEW g \in OrdersOf(d, T \ {x})
  PROVE  OrdersOf(d, T) # {}
  <1> DEFINE n == Cardinality(T)
             f == [i \in 1..n |-> IF i = 1 THEN x ELSE g[i - 1]]
  <1>1. n \in Nat /\ Cardinality(T \ {x}) = n - 1
    BY FS_CardinalityType, FS_RemoveElement
  <1>2. n > 0
    <2>1. Cardinality(T) # 0
      BY FS_EmptySet
    <2> QED
      BY <1>1, <2>1
  <1> HIDE DEF n
  <1>3. /\ g \in [1..(n - 1) -> T \ {x}]
        /\ \A i, j \in 1..(n - 1) : g[i] = g[j] => i = j
        /\ \A y \in T \ {x} : \E i \in 1..(n - 1) : g[i] = y
        /\ \A i, j \in 1..(n - 1) : i <= j => d[g[i]] <= d[g[j]]
    BY <1>1 DEF OrdersOf, Bijection, Injection, Surjection, IsInjective
  <1>4. ASSUME NEW i \in 1..n PROVE i = 1 \/ (i # 1 /\ i - 1 \in 1..(n - 1))
    BY <1>1
  <1>5. f[1] = x /\ \A i \in 1..n : i # 1 => f[i] = g[i - 1] /\ f[i] \in T \ {x}
    <2>1. 1 \in 1..n
      BY <1>1, <1>2
    <2> QED
      BY <1>3, <1>4, <2>1
  <1>6. f \in [1..n -> T]
    BY <1>5
  <1> HIDE DEF f
  <1>7. ASSUME NEW i \in 1..n, NEW j \in 1..n, f[i] = f[j] PROVE i = j
    <2>1. CASE i = 1 \/ j = 1
      BY <1>5, <1>7, <2>1
    <2>2. CASE i # 1 /\ j # 1
      <3>1. g[i - 1] = g[j - 1] /\ i - 1 \in 1..(n - 1) /\ j - 1 \in 1..(n - 1)
        BY <1>4, <1>5, <1>7, <2>2
      <3>2. i - 1 = j - 1
        BY <1>3, <3>1
      <3> QED
        BY <1>1, <3>2
    <2> QED
      BY <2>1, <2>2
  <1>8. ASSUME NEW y \in T PROVE \E i \in 1..n : f[i] = y
    <2>1. CASE y = x
      BY <1>1, <1>2, <1>5, <2>1
    <2>2. CASE y # x
      <3>1. PICK k \in 1..(n - 1) : g[k] = y
        BY <1>3, <2>2
      <3>2. k + 1 \in 1..n /\ k + 1 # 1 /\ (k + 1) - 1 = k
        BY <1>1
      <3>3. f[k + 1] = y
        <4>1. f[k + 1] = g[(k + 1) - 1]
          BY <1>5, <3>2
        <4> QED
          BY <3>1, <3>2, <4>1
      <3> QED
        BY <3>2, <3>3
    <2> QED
      BY <2>1, <2>2
  <1>9. ASSUME NEW i \in 1..n, NEW j \in 1..n, i <= j PROVE d[f[i]] <= d[f[j]]
    <2>1. f[j] \in T
      BY <1>6
    <2>2. CASE i = 1
      BY <1>5, <2>1, <2>2
    <2>3. CASE i # 1
      <3>1. j # 1 /\ i - 1 <= j - 1
        BY <1>1, <1>9, <2>3
      <3>2. i - 1 \in 1..(n - 1) /\ j - 1 \in 1..(n - 1)
        BY <1>4, <2>3, <3>1
      <3>3. d[g[i - 1]] <= d[g[j - 1]]
        BY <1>3, <3>1, <3>2
      <3> QED
        BY <1>5, <2>3, <3>1, <3>3
    <2> QED
      BY <2>2, <2>3
  <1>10. f \in OrdersOf(d, T)
    <2>1. f \in Bijection(1..n, T)
      BY <1>6, <1>7, <1>8 DEF Bijection, Injection, Surjection, IsInjective
    <2> QED
      BY <1>9, <2>1 DEF OrdersOf, n
  <1> QED
    BY <1>10

(* There is always an order: of the sets without one a least would have    *)
(* one after all.                                                          *)
LEMMA OrderExists ==
  ASSUME NEW S, IsFiniteSet(S), NEW d \in [S -> Nat]
  PROVE  OrdersOf(d, S) # {}
  <1> DEFINE Without == {T \in SUBSET S : OrdersOf(d, T) = {}}
             Counts == {Cardinality(T) : T \in Without}
  <1> SUFFICES ASSUME S \in Without PROVE FALSE
    OBVIOUS
  <1>1. Counts \in SUBSET Nat /\ Counts # {}
    BY FS_Subset, FS_CardinalityType
  <1>2. PICK n \in Counts : \A k \in Counts : n <= k
    <2> HIDE DEF Counts
    <2> QED
      BY <1>1, Smallest
  <1>3. PICK T \in SUBSET S : OrdersOf(d, T) = {} /\ Cardinality(T) = n
    OBVIOUS
  <1>4. IsFiniteSet(T) /\ n \in Nat
    BY <1>1, FS_Subset
  <1>5. T # {}
    <2> SUFFICES ASSUME T = {} PROVE FALSE
      OBVIOUS
    <2>1. Cardinality(T) = 0 /\ 1..0 = {}
      BY FS_EmptySet
    <2>2. <<>> \in [{} -> T] /\ DOMAIN <<>> = {}
      OBVIOUS
    <2>3. <<>> \in OrdersOf(d, T)
      BY <2>1, <2>2 DEF OrdersOf, Bijection, Injection, Surjection, IsInjective
    <2> QED
      BY <1>3, <2>3
  <1>6. PICK x \in T : \A y \in T : d[x] <= d[y]
    <2>1. {d[y] : y \in T} \in SUBSET Nat /\ {d[y] : y \in T} # {}
      BY <1>5
    <2>2. PICK v \in {d[y] : y \in T} : \A w \in {d[y] : y \in T} : v <= w
      BY <2>1, Smallest
    <2> QED
      BY <2>2
  <1>7. Cardinality(T \ {x}) = n - 1
    BY <1>3, <1>4, FS_RemoveElement
  <1>8. T \ {x} \notin Without
    <2>1. ~(n <= n - 1)
      BY <1>4
    <2> QED
      BY <1>2, <1>7, <2>1
  <1>9. PICK g : g \in OrdersOf(d, T \ {x})
    BY <1>8
  <1>10. \A y \in T : d[y] \in Nat
    OBVIOUS
  <1>11. OrdersOf(d, T) # {}
    BY <1>4, <1>6, <1>9, <1>10, LeastFirst
  <1> QED
    BY <1>3, <1>11

(* What sorting leaves, of any latencies.                                  *)
LEMMA SortedFacts ==
  ASSUME NEW S, IsFiniteSet(S), NEW d \in [S -> Nat], NEW n, n = Cardinality(S)
  PROVE  /\ n \in Nat /\ Summaries!Count(d) = n
         /\ \E f \in Bijection(1..n, S) :
              /\ \A i, j \in 1..n : i <= j => d[f[i]] <= d[f[j]]
              /\ Summaries!Sorted(d) = [i \in 1..n |-> d[f[i]]]
  <1>1. n \in Nat
    BY FS_CardinalityType
  <1>2. DOMAIN d = S
    OBVIOUS
  <1>3. Summaries!Count(d) = n
    BY <1>2 DEF Summaries!Count, Summaries!Cardinality, Cardinality
  <1>4. \A A, B : Summaries!Bijection(A, B) = Bijection(A, B)
    BY DEF Summaries!Bijection, Summaries!Injection, Summaries!Surjection, Summaries!IsInjective,
           Bijection, Injection, Surjection, IsInjective
  <1> DEFINE order == CHOOSE f \in Bijection(1..n, S) :
                        \A i, j \in 1..n : i <= j => d[f[i]] <= d[f[j]]
  <1>5. order \in Bijection(1..n, S) /\ \A i, j \in 1..n : i <= j => d[order[i]] <= d[order[j]]
    <2>1. PICK f : f \in OrdersOf(d, S)
      BY OrderExists
    <2>2. f \in Bijection(1..n, S) /\ \A i, j \in 1..n : i <= j => d[f[i]] <= d[f[j]]
      BY <2>1 DEF OrdersOf
    <2> QED
      BY <2>2
  <1>6. Summaries!Sorted(d) = [i \in 1..n |-> d[order[i]]]
    <2>1. Summaries!Sorted(d) =
            LET m     == Summaries!Count(d)
                first == CHOOSE f \in Summaries!Bijection(1..m, DOMAIN d) :
                           \A i, j \in 1..m : i <= j => d[f[i]] <= d[f[j]]
            IN  [i \in 1..m |-> d[first[i]]]
      BY DEF Summaries!Sorted
    <2>2. Summaries!Bijection(1..n, S) = Bijection(1..n, S)
      BY <1>4
    <2> QED
      BY <1>2, <1>3, <2>1, <2>2
  <1> HIDE DEF order
  <1> QED
    BY <1>1, <1>3, <1>5, <1>6

(* A rank and the count of the latencies up to it.                         *)
LEMMA RankCounts ==
  ASSUME NEW S, IsFiniteSet(S), NEW d \in [S -> Nat], NEW n, n = Cardinality(S),
         NEW k \in 1..n
  PROVE  /\ Summaries!Sorted(d)[k] \in Summaries!Range(d)
         /\ Summaries!Sorted(d)[k] \in Nat
         /\ \A j \in 1..n : k <= j => Summaries!Sorted(d)[k] <= Summaries!Sorted(d)[j]
         /\ Summaries!AtMost(d, Summaries!Sorted(d)[k]) \in Nat
         /\ k <= Summaries!AtMost(d, Summaries!Sorted(d)[k])
         /\ \A w \in Nat : w < Summaries!Sorted(d)[k] =>
              Summaries!AtMost(d, w) \in Nat /\ Summaries!AtMost(d, w) < k
  <1>1. n \in Nat /\ k \in Nat /\ k <= n
    <2>1. n \in Nat
      BY SortedFacts
    <2> QED
      BY <2>1
  <1>2. PICK f \in Bijection(1..n, S) :
          /\ \A i, j \in 1..n : i <= j => d[f[i]] <= d[f[j]]
          /\ Summaries!Sorted(d) = [i \in 1..n |-> d[f[i]]]
    BY SortedFacts
  <1>3. /\ f \in [1..n -> S] /\ DOMAIN d = S
        /\ \A i, j \in 1..n : f[i] = f[j] => i = j
        /\ \A x \in S : \E i \in 1..n : f[i] = x
    BY <1>2 DEF Bijection, Injection, Surjection, IsInjective
  <1>4. \A i \in 1..n : Summaries!Sorted(d)[i] = d[f[i]] /\ f[i] \in S /\ d[f[i]] \in Nat
    BY <1>2, <1>3
  <1>5. \A v : Summaries!AtMost(d, v) = Cardinality({x \in S : d[x] <= v})
    BY <1>3 DEF Summaries!AtMost, Summaries!Cardinality, Cardinality
  <1>6. \A v : /\ IsFiniteSet({x \in S : d[x] <= v})
               /\ Cardinality({x \in S : d[x] <= v}) \in Nat
    <2> SUFFICES ASSUME NEW v PROVE /\ IsFiniteSet({x \in S : d[x] <= v})
                                    /\ Cardinality({x \in S : d[x] <= v}) \in Nat
      OBVIOUS
    <2>1. {x \in S : d[x] <= v} \in SUBSET S
      OBVIOUS
    <2>2. IsFiniteSet({x \in S : d[x] <= v})
      BY <2>1, FS_Subset
    <2> QED
      BY <2>2, FS_CardinalityType
  <1>7. Summaries!Sorted(d)[k] \in Summaries!Range(d)
    BY <1>3, <1>4 DEF Summaries!Range
  <1>8. \A j \in 1..n : k <= j => Summaries!Sorted(d)[k] <= Summaries!Sorted(d)[j]
    BY <1>2, <1>4
  <1>9. k <= Cardinality({x \in S : d[x] <= d[f[k]]})
    <2> DEFINE T == {x \in S : d[x] <= d[f[k]]}
               g == [i \in 1..k |-> f[i]]
    <2>1. \A i \in 1..k : i \in 1..n /\ i <= k /\ f[i] \in T
      BY <1>1, <1>2, <1>4
    <2>2. g \in Injection(1..k, T)
      BY <1>3, <2>1 DEF Injection, IsInjective
    <2>3. IsFiniteSet(1..k) /\ Cardinality(1..k) = k
      BY <1>1, FS_Interval
    <2>4. IsFiniteSet(T)
      BY <1>6
    <2> HIDE DEF T, g
    <2>5. Cardinality(1..k) <= Cardinality(T)
      BY <2>2, <2>4, FS_Injection
    <2> QED
      BY <2>3, <2>5 DEF T
  <1>10. ASSUME NEW w \in Nat, w < d[f[k]]
         PROVE  Cardinality({x \in S : d[x] <= w}) < k
    <2> DEFINE T == {x \in S : d[x] <= w}
               g == [i \in 1..(k - 1) |-> f[i]]
               V == {f[i] : i \in 1..(k - 1)}
    <2>1. ASSUME NEW x \in T PROVE x \in V
      <3>1. PICK i \in 1..n : f[i] = x
        BY <1>3
      <3>2. ~(k <= i)
        <4>1. d[f[i]] \in Nat /\ d[f[k]] \in Nat /\ ~(d[f[k]] <= d[f[i]])
          BY <1>4, <1>10, <3>1
        <4> QED
          BY <1>2, <4>1
      <3>3. i \in 1..(k - 1)
        BY <1>1, <3>2
      <3> QED
        BY <3>1, <3>3
    <2>2. g \in Surjection(1..(k - 1), V)
      BY DEF Surjection
    <2>3. IsFiniteSet(1..(k - 1)) /\ Cardinality(1..(k - 1)) = k - 1
      <3>1. k - 1 \in Nat /\ k - 1 \in Int /\ 1 \in Int
        BY <1>1
      <3>2. /\ IsFiniteSet(1..(k - 1))
            /\ Cardinality(1..(k - 1)) = IF 1 > k - 1 THEN 0 ELSE (k - 1) - 1 + 1
        BY <3>1, FS_Interval
      <3> QED
        BY <3>1, <3>2
    <2> HIDE DEF T, g, V
    <2>4. IsFiniteSet(V) /\ Cardinality(V) <= Cardinality(1..(k - 1))
      BY <2>2, <2>3, FS_Surjection
    <2>5. T \in SUBSET V
      BY <2>1
    <2>6. Cardinality(T) <= Cardinality(V)
      BY <2>4, <2>5, FS_Subset
    <2>7. Cardinality(T) \in Nat
      BY <1>6 DEF T
    <2>8. Cardinality(V) \in Nat
      BY <2>4, FS_CardinalityType
    <2>9. Cardinality(T) < k
      BY <1>1, <2>3, <2>4, <2>6, <2>7, <2>8
    <2> QED
      BY <2>9 DEF T
  <1>11. Summaries!Sorted(d)[k] = d[f[k]] /\ d[f[k]] \in Nat
    BY <1>4
  <1>12. ASSUME NEW w \in Nat, w < Summaries!Sorted(d)[k]
         PROVE  Summaries!AtMost(d, w) \in Nat /\ Summaries!AtMost(d, w) < k
    BY <1>5, <1>6, <1>10, <1>11, <1>12
  <1>13. /\ Summaries!AtMost(d, Summaries!Sorted(d)[k]) \in Nat
         /\ k <= Summaries!AtMost(d, Summaries!Sorted(d)[k])
    BY <1>5, <1>6, <1>9, <1>11
  <1> QED
    BY <1>7, <1>8, <1>11, <1>12, <1>13

(* The simulator's rank is a ceiling.                                      *)
LEMMA Ranks ==
  ASSUME NEW n \in Nat \ {0}, NEW p \in {50, 95, 99}
  PROVE  /\ (p * n + 99) \div 100 \in 1..n
         /\ 100 * ((p * n + 99) \div 100) >= p * n
         /\ 100 * ((p * n + 99) \div 100 - 1) < p * n
  OBVIOUS

(* The index grows with the percentage.                                    *)
LEMMA IndexGrows ==
  ASSUME NEW n \in Nat \ {0}
  PROVE  /\ Summaries!index(n, 50) <= Summaries!index(n, 95)
         /\ Summaries!index(n, 95) <= Summaries!index(n, 99)
  BY DEF Summaries!index

(* What the simulator prints of an action is a percentile.                 *)
LEMMA PrintsPercentiles ==
  ASSUME NEW S, IsFiniteSet(S), S # {}, NEW d \in [S -> Nat], NEW p \in {50, 95}
  PROVE  Summaries!IsPercentile(Summaries!percentile(d, p), d, p)
  <1> DEFINE n == Cardinality(S)
             k == (p * n + 99) \div 100
             v == Summaries!Sorted(d)[k]
  <1>1. n \in Nat /\ Summaries!Count(d) = n
    BY SortedFacts
  <1>2. n # 0
    BY FS_EmptySet
  <1>3. n \in Nat \ {0} /\ p \in Nat
    BY <1>1, <1>2
  <1>4. k \in 1..n /\ 100 * k >= p * n /\ 100 * (k - 1) < p * n
    <2> HIDE DEF n
    <2>1. p \in {50, 95, 99}
      OBVIOUS
    <2> QED
      BY <1>3, <2>1, Ranks
  <1>5. k # 0 /\ k \in Nat /\ p * n \in Nat
    <2> HIDE DEF n
    <2>1. k \in 1..n => k # 0 /\ k \in Nat
      BY <1>3
    <2>2. \A a, b \in Nat : a * b \in Nat
      OBVIOUS
    <2> QED
      BY <1>3, <1>4, <2>1, <2>2
  <1>6. Summaries!percentile(d, p) = v
    BY <1>1, <1>5 DEF Summaries!percentile
  <1>7. /\ v \in Summaries!Range(d) /\ v \in Nat
        /\ Summaries!AtMost(d, v) \in Nat /\ k <= Summaries!AtMost(d, v)
        /\ \A w \in Nat : w < v => Summaries!AtMost(d, w) \in Nat /\ Summaries!AtMost(d, w) < k
    BY <1>4, RankCounts
  <1>8. \A w \in Summaries!Range(d) : w \in Nat
    BY DEF Summaries!Range
  <1> HIDE DEF n, k, v
  <1>9. 100 * Summaries!AtMost(d, v) >= p * n
    <2> PICK a : a = Summaries!AtMost(d, v)
      OBVIOUS
    <2> PICK q : q = p * n
      OBVIOUS
    <2>1. a \in Nat /\ q \in Nat /\ k \in Nat /\ k <= a /\ 100 * k >= q
      BY <1>4, <1>5, <1>7
    <2> QED
      BY <2>1
  <1>10. ASSUME NEW w \in Summaries!Range(d), w < v
         PROVE  100 * Summaries!AtMost(d, w) < p * n
    <2> PICK a : a = Summaries!AtMost(d, w)
      OBVIOUS
    <2> PICK q : q = p * n
      OBVIOUS
    <2>1. a \in Nat /\ q \in Nat /\ k \in Nat /\ a < k /\ 100 * (k - 1) < q
      BY <1>4, <1>5, <1>7, <1>8, <1>10
    <2> QED
      BY <2>1
  <1> QED
    BY <1>1, <1>6, <1>7, <1>9, <1>10 DEF Summaries!IsPercentile

(* What the runner samples is a latency, in order, and at most one rank    *)
(* below the percentile.                                                   *)
LEMMA RunnerSamples ==
  ASSUME NEW S, IsFiniteSet(S), S # {}, NEW d \in [S -> Nat]
  PROVE  Summaries!RunnerIsBelow(d)
  <1> DEFINE n == Cardinality(S)
             place(p) == 1 + Summaries!index(n, p)
             k(p) == (p * n + 99) \div 100
             sorted == Summaries!Sorted(d)
             ps == Summaries!Percentiles(d)
  <1>1. n \in Nat /\ Summaries!Count(d) = n
    BY SortedFacts
  <1>2. n # 0
    BY FS_EmptySet
  <1>3. n \in Nat \ {0}
    BY <1>1, <1>2
  <1>4. DOMAIN sorted = 1..n
    BY SortedFacts
  <1>5. Summaries!Count(sorted) = n
    <2>1. Cardinality(1..n) = n
      <3> HIDE DEF n
      <3> QED
        BY <1>3, FS_Interval
    <2> QED
      BY <1>4, <2>1 DEF Summaries!Count, Summaries!Cardinality, Cardinality
  <1>6. ASSUME NEW p \in {50, 95, 99}
        PROVE  /\ k(p) \in 1..n /\ place(p) \in 1..n /\ place(p) <= k(p) /\ k(p) # 0
               /\ Summaries!index(n, p) \in 0..(n - 1)
               /\ 100 * place(p) >= p * (n - 1)
    <2> HIDE DEF n
    <2>3. PICK m \in Nat \ {0} : m = n
      BY <1>3
    <2>4. /\ (p * m + 99) \div 100 \in 1..m
          /\ Summaries!index(m, p) \in 0..(m - 1)
          /\ 100 * (1 + Summaries!index(m, p)) >= p * (m - 1)
          /\ 1 + Summaries!index(m, p) <= (p * m + 99) \div 100
      BY DEF Summaries!index
    <2>1. /\ k(p) \in 1..n /\ Summaries!index(n, p) \in 0..(n - 1)
          /\ 100 * place(p) >= p * (n - 1) /\ place(p) <= k(p)
      BY <2>3, <2>4, Zenon
    <2>2. place(p) \in 1..n /\ k(p) # 0
      BY <1>3, <2>1
    <2> QED
      BY <2>1, <2>2
  <1>7. ASSUME NEW p \in {50, 95, 99}
        PROVE  ps[p] = sorted[place(p)] /\ Summaries!percentile(d, p) = sorted[k(p)]
    <2>1. ps[p] = Summaries!pick(sorted, p)
      BY DEF Summaries!Percentiles
    <2>2. ~(Summaries!index(n, p) >= n)
      <3> HIDE DEF n
      <3> QED
        BY <1>3, <1>6
    <2>3. Summaries!pick(sorted, p) = sorted[place(p)]
      <3> HIDE DEF n, sorted
      <3> QED
        BY <1>2, <1>5, <2>2 DEF Summaries!pick
    <2>4. Summaries!percentile(d, p) = sorted[k(p)]
      BY <1>1, <1>6 DEF Summaries!percentile
    <2> QED
      BY <2>1, <2>3, <2>4
  <1>8. ASSUME NEW i \in 1..n
        PROVE  /\ sorted[i] \in Summaries!Range(d)
               /\ \A j \in 1..n : i <= j => sorted[i] <= sorted[j]
               /\ Summaries!AtMost(d, sorted[i]) \in Nat
               /\ i <= Summaries!AtMost(d, sorted[i])
    BY RankCounts
  <1>9. place(50) <= place(95) /\ place(95) <= place(99)
    <2>1. Summaries!index(n, 50) <= Summaries!index(n, 95) /\ Summaries!index(n, 95) <= Summaries!index(n, 99)
      <3> HIDE DEF n
      <3> QED
        BY <1>3, IndexGrows
    <2>2. /\ Summaries!index(n, 50) \in 0..(n - 1) /\ Summaries!index(n, 95) \in 0..(n - 1)
          /\ Summaries!index(n, 99) \in 0..(n - 1)
      BY <1>6
    <2> HIDE DEF n
    <2> QED
      BY <1>3, <2>1, <2>2
  <1> HIDE DEF n, place, k, sorted, ps
  <1>10. ps[50] <= ps[95] /\ ps[95] <= ps[99]
    BY <1>6, <1>7, <1>8, <1>9
  <1>11. ASSUME NEW p \in {50, 95, 99}
         PROVE  /\ ps[p] \in Summaries!Range(d) /\ ps[p] <= Summaries!percentile(d, p)
                /\ 100 * Summaries!AtMost(d, ps[p]) >= p * (n - 1)
    <2>1. ps[p] \in Summaries!Range(d) /\ ps[p] <= Summaries!percentile(d, p)
      BY <1>6, <1>7, <1>8
    <2> PICK a : a = Summaries!AtMost(d, ps[p])
      OBVIOUS
    <2> PICK q : q = p * (n - 1)
      OBVIOUS
    <2> PICK r : r = place(p)
      OBVIOUS
    <2>2. r \in 1..n /\ 100 * r >= q
      BY <1>6
    <2>3. a \in Nat /\ r <= a
      BY <1>6, <1>7, <1>8
    <2>4. q \in Int /\ r \in Nat
      <3>1. n - 1 \in Int /\ p \in Int
        BY <1>3
      <3>2. \A x, y \in Int : x * y \in Int
        OBVIOUS
      <3> QED
        BY <1>3, <2>2, <3>1, <3>2
    <2>5. 100 * a >= q
      BY <2>2, <2>3, <2>4
    <2> QED
      BY <2>1, <2>5
  <1>12. DOMAIN ps = {50, 95, 99}
    BY DEF ps, Summaries!Percentiles
  <1> QED
    BY <1>1, <1>10, <1>11, <1>12 DEF Summaries!RunnerIsBelow, ps

(* The samples of m actions, numbered within each action.                  *)
SharesOf(act, m) ==
  UNION {{a} \X (1..Cardinality({i \in 1..m : act[i] = a})) :
           a \in {b \in Actions : Cardinality({i \in 1..m : act[i] = b}) > 0}}

(* The rows that flush prints share out the samples of the window.         *)
LEMMA RowsAccount ==
  ASSUME NEW m \in Nat, NEW act \in [1..m -> Actions]
  PROVE  Cardinality(SharesOf(act, m)) = m
  <1> DEFINE Places(a) == {i \in 1..m : act[i] = a}
             R == {b \in Actions : Cardinality(Places(b)) > 0}
             Shares == UNION {{a} \X (1..Cardinality(Places(a))) : a \in R}
             share == [a \in Actions |-> CHOOSE f \in Bijection(1..Cardinality(Places(a)), Places(a)) : TRUE]
             place == [x \in Shares |-> share[x[1]][x[2]]]
  <1>1. IsFiniteSet(1..m) /\ Cardinality(1..m) = m
    BY FS_Interval
  <1>2. ASSUME NEW a \in Actions
        PROVE  /\ IsFiniteSet(Places(a)) /\ Cardinality(Places(a)) \in Nat
               /\ share[a] \in Bijection(1..Cardinality(Places(a)), Places(a))
    <2>1. Places(a) \in SUBSET (1..m)
      OBVIOUS
    <2> HIDE DEF Places
    <2>2. IsFiniteSet(Places(a))
      BY <1>1, <2>1, FS_Subset
    <2>3. Cardinality(Places(a)) \in Nat /\ ExistsBijection(1..Cardinality(Places(a)), Places(a))
      BY <2>2, FS_CardinalityType
    <2> QED
      BY <2>2, <2>3 DEF ExistsBijection
  <1>3. ASSUME NEW a \in Actions
        PROVE  /\ \A k \in 1..Cardinality(Places(a)) : share[a][k] \in 1..m /\ act[share[a][k]] = a
               /\ \A k, l \in 1..Cardinality(Places(a)) : share[a][k] = share[a][l] => k = l
               /\ \A i \in 1..m : act[i] = a => \E k \in 1..Cardinality(Places(a)) : share[a][k] = i
    <2> HIDE DEF share
    <2>1. /\ share[a] \in [1..Cardinality(Places(a)) -> Places(a)]
          /\ \A k, l \in 1..Cardinality(Places(a)) : share[a][k] = share[a][l] => k = l
          /\ \A i \in Places(a) : \E k \in 1..Cardinality(Places(a)) : share[a][k] = i
      BY <1>2 DEF Bijection, Injection, Surjection, IsInjective
    <2> QED
      BY <2>1
  <1> HIDE DEF share
  <1>4. ASSUME NEW x \in Shares
        PROVE  \E a \in R : \E k \in 1..Cardinality(Places(a)) : x = <<a, k>>
    <2> HIDE DEF Places
    <2>1. PICK a \in R : x \in {a} \X (1..Cardinality(Places(a)))
      OBVIOUS
    <2> QED
      BY <2>1
  <1>5. ASSUME NEW a \in R, NEW k \in 1..Cardinality(Places(a)) PROVE <<a, k>> \in Shares
    <2> HIDE DEF Places
    <2>1. <<a, k>> \in {a} \X (1..Cardinality(Places(a)))
      OBVIOUS
    <2> QED
      BY <2>1
  <1>6. \A a \in R : a \in Actions
    OBVIOUS
  <1> HIDE DEF Shares
  <1>7. \A a \in R : \A k \in 1..Cardinality(Places(a)) : place[<<a, k>>] = share[a][k]
    BY <1>5
  <1>8. place \in Injection(Shares, 1..m)
    <2>1. ASSUME NEW x \in Shares PROVE place[x] \in 1..m
      <3> HIDE DEF place, Places
      <3>1. PICK a \in R : \E k \in 1..Cardinality(Places(a)) : x = <<a, k>>
        BY <1>4
      <3>2. PICK k \in 1..Cardinality(Places(a)) : x = <<a, k>>
        BY <3>1
      <3>3. place[x] = share[a][k]
        BY <1>7, <3>2
      <3>4. share[a][k] \in 1..m
        BY <1>3, <1>6
      <3> QED
        BY <3>3, <3>4
    <2>2. ASSUME NEW x \in Shares, NEW y \in Shares, place[x] = place[y] PROVE x = y
      <3>1. PICK a \in R : \E k \in 1..Cardinality(Places(a)) : x = <<a, k>>
        BY <1>4
      <3>2. PICK k \in 1..Cardinality(Places(a)) : x = <<a, k>>
        BY <3>1
      <3>3. PICK b \in R : \E l \in 1..Cardinality(Places(b)) : y = <<b, l>>
        BY <1>4
      <3>4. PICK l \in 1..Cardinality(Places(b)) : y = <<b, l>>
        BY <3>3
      <3>5. share[a][k] = share[b][l]
        BY <1>7, <2>2, <3>2, <3>4
      <3>6. a = b
        BY <1>3, <1>6, <3>5
      <3>7. k = l
        <4> HIDE DEF R, Places
        <4>1. a \in Actions /\ l \in 1..Cardinality(Places(a)) /\ share[a][k] = share[a][l]
          BY <1>6, <3>5, <3>6
        <4> QED
          BY <1>3, <4>1
      <3> QED
        BY <3>2, <3>4, <3>6, <3>7
    <2>3. DOMAIN place = Shares /\ place \in [Shares -> 1..m]
      BY <2>1
    <2> QED
      BY <2>2, <2>3 DEF Injection, IsInjective
  <1>9. place \in Surjection(Shares, 1..m)
    <2>1. ASSUME NEW i \in 1..m PROVE \E x \in Shares : place[x] = i
      <3>1. act[i] \in Actions
        OBVIOUS
      <3>2. PICK k \in 1..Cardinality(Places(act[i])) : share[act[i]][k] = i
        BY <1>3, <3>1
      <3>3. Cardinality(Places(act[i])) > 0
        <4>1. Cardinality(Places(act[i])) \in Nat
          BY <1>2, <3>1
        <4> HIDE DEF Places
        <4> QED
          BY <3>2, <4>1
      <3>4. act[i] \in R
        BY <3>1, <3>3
      <3> QED
        BY <1>5, <1>7, <3>2, <3>4
    <2>2. place \in [Shares -> 1..m]
      BY <1>8 DEF Injection
    <2> QED
      BY <2>1, <2>2 DEF Surjection
  <1> HIDE DEF place
  <1>10. Cardinality(Shares) = Cardinality(1..m)
    BY <1>1, <1>8, <1>9, FS_Injection
  <1> QED
    BY <1>1, <1>10 DEF Shares, SharesOf

(* Whatever is in a window, the simulator prints percentiles of each       *)
(* action's latencies, its rows account for the window, and the runner's   *)
(* samples are latencies, in order, and never above the percentile.        *)
THEOREM SummariesAreRight == MCSpec => []SummariesArePercentiles
  <1>1. ASSUME NEW win \in Summaries!Windows
        PROVE  Summaries!RowsArePercentiles(win)
               /\ Summaries!RunnerIsBelow([i \in DOMAIN win |-> win[i].dur])
    <2>1. PICK m \in 1..MaxLatencies : win \in [1..m -> [act : Actions, dur : Latency]]
      BY DEF Summaries!Windows
    <2>2. m \in Nat /\ m > 0
      BY LatencyAssumption
    <2>3. /\ DOMAIN win = 1..m
          /\ \A i \in 1..m : win[i].act \in Actions /\ win[i].dur \in Nat
      BY <2>1, LatencyAssumption
    <2>4. IsFiniteSet(1..m) /\ Cardinality(1..m) = m /\ 1..m # {}
      <3>1. IsFiniteSet(1..m) /\ Cardinality(1..m) = IF 1 > m THEN 0 ELSE m - 1 + 1
        BY <2>2, FS_Interval
      <3> QED
        BY <2>2, <3>1
    <2>5. Summaries!RunnerIsBelow([i \in DOMAIN win |-> win[i].dur])
      <3>1. [i \in DOMAIN win |-> win[i].dur] \in [1..m -> Nat]
        BY <2>3
      <3> QED
        BY <2>4, <3>1, RunnerSamples
    <2> DEFINE Places(a) == {i \in 1..m : win[i].act = a}
               R == {a \in Actions : Cardinality(Places(a)) > 0}
               printed == Summaries!flush(win)
    <2>6. ASSUME NEW a \in Actions
          PROVE  /\ IsFiniteSet(Places(a)) /\ Summaries!DursOf(win, a) \in [Places(a) -> Nat]
                 /\ Summaries!Count(Summaries!DursOf(win, a)) = Cardinality(Places(a))
      <3>1. Places(a) \in SUBSET (1..m)
        OBVIOUS
      <3>2. IsFiniteSet(Places(a))
        <4> HIDE DEF Places
        <4> QED
          BY <2>4, <3>1, FS_Subset
      <3>3. Summaries!DursOf(win, a) = [i \in Places(a) |-> win[i].dur]
        BY <2>3 DEF Summaries!DursOf
      <3>4. Summaries!DursOf(win, a) \in [Places(a) -> Nat]
        BY <2>3, <3>3
      <3> HIDE DEF Places
      <3> QED
        BY <3>2, <3>4, SortedFacts
    <2>7. DOMAIN printed = R
      BY <2>6 DEF Summaries!flush
    <2>8. ASSUME NEW a \in R
          PROVE  /\ printed[a].n = Cardinality(Places(a))
                 /\ Summaries!IsPercentile(printed[a].p50, Summaries!DursOf(win, a), 50)
                 /\ Summaries!IsPercentile(printed[a].p95, Summaries!DursOf(win, a), 95)
      <3>1. Places(a) # {} /\ a \in Actions
        <4> HIDE DEF Places
        <4> QED
          BY FS_EmptySet
      <3>2. /\ printed[a].n = Summaries!Count(Summaries!DursOf(win, a))
            /\ printed[a].p50 = Summaries!percentile(Summaries!DursOf(win, a), 50)
            /\ printed[a].p95 = Summaries!percentile(Summaries!DursOf(win, a), 95)
        BY <2>7 DEF Summaries!flush
      <3> HIDE DEF Places, printed
      <3>3. \A p \in {50, 95} : Summaries!IsPercentile(
                Summaries!percentile(Summaries!DursOf(win, a), p), Summaries!DursOf(win, a), p)
        BY <2>6, <3>1, PrintsPercentiles
      <3> QED
        BY <2>6, <3>1, <3>2, <3>3
    <2>9. Cardinality(UNION {{a} \X (1..printed[a].n) : a \in DOMAIN printed}) = m
      <3>1. PICK act : act = [i \in 1..m |-> win[i].act]
        OBVIOUS
      <3>2. \A i \in 1..m : act[i] = win[i].act /\ act[i] \in Actions
        BY <2>3, <3>1
      <3>3. \A a : {i \in 1..m : act[i] = a} = Places(a)
        BY <3>2
      <3>4. Cardinality(UNION {{a} \X (1..Cardinality({i \in 1..m : act[i] = a})) : a \in R}) = m
        <4>1. R = {a \in Actions : Cardinality({i \in 1..m : act[i] = a}) > 0}
          BY <3>3
        <4>2. m \in Nat /\ act \in [1..m -> Actions]
          BY <2>2, <2>3, <3>1
        <4>3. Cardinality(SharesOf(act, m)) = m
          BY <4>2, RowsAccount
        <4> HIDE DEF R
        <4> QED
          BY <4>1, <4>3 DEF SharesOf
      <3>5. {{a} \X (1..printed[a].n) : a \in DOMAIN printed} =
              {{a} \X (1..Cardinality({i \in 1..m : act[i] = a})) : a \in R}
        <4>1. \A a \in R : printed[a].n = Cardinality({i \in 1..m : act[i] = a})
          BY <2>8, <3>3
        <4> HIDE DEF R, printed
        <4> QED
          BY <2>7, <4>1
      <3> QED
        BY <3>4, <3>5
    <2>10. Summaries!Count(win) = m
      BY <2>3, <2>4 DEF Summaries!Count, Summaries!Cardinality, Cardinality
    <2>11. Summaries!RowsArePercentiles(win)
      <3>1. Summaries!Cardinality(UNION {{a} \X (1..printed[a].n) : a \in DOMAIN printed}) = m
        BY <2>9 DEF Summaries!Cardinality, Cardinality
      <3>2. \A a \in DOMAIN printed :
              /\ Summaries!IsPercentile(printed[a].p50, Summaries!DursOf(win, a), 50)
              /\ Summaries!IsPercentile(printed[a].p95, Summaries!DursOf(win, a), 95)
        BY <2>7, <2>8
      <3> QED
        BY <2>10, <3>1, <3>2 DEF Summaries!RowsArePercentiles
    <2> QED
      BY <2>5, <2>11
  <1>2. SummariesArePercentiles
    BY <1>1 DEF SummariesArePercentiles, Summaries!SummariesArePercentiles
  <1> QED
    BY <1>2, PTL
=============================================================================
