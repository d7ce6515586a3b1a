----------------------------- MODULE LoadRunner -----------------------------
(***************************************************************************)
(* One run of the load generator                                           *)
(* (services/loadgen/internal/runner/runner.go): after seeding, drive      *)
(* starts a producer of tokens, a pool of workers and a collector, sends a *)
(* sample per second, and takes them all down again when the time is over, *)
(* the caller leaves or the sink fails.                                    *)
(*                                                                         *)
(* Left out: latencies and percentiles, and what a request is; a request   *)
(* ends, well or badly (each has a deadline of its own).                   *)
(***************************************************************************)
EXTENDS Naturals, FiniteSets, Sequences, SequencesExt

CONSTANTS
  Workers,
  JobCap,      (* capacity of jobs (twice the workers in the code)         *)
  ResultCap,   (* capacity of results (four times the workers)             *)
  MaxTokens,   (* bound: ticks of the producer                             *)
  MaxSamples   (* bound: RUNNING samples                                   *)

ASSUME LoadAssumption ==
  /\ IsFiniteSet(Workers)
  /\ JobCap \in Nat \ {0} /\ ResultCap \in Nat \ {0}
  /\ MaxTokens \in Nat /\ MaxSamples \in Nat

VARIABLES
  clock,          (* 0; 1 past the producer's end; 2 past drive's own end  *)
  cancelled,      (* the caller's ctx has ended                            *)
  runCancelled,   (* cancelRun was called                                  *)
  tokens,         (* ticks of the producer so far                          *)
  dropped,        (* ticks that found jobs full                            *)
  jobs,           (* tokens in the channel jobs                            *)
  jobsClosed,     (* the producer has returned                             *)
  worker,         (* "ok" and "err": with a result to send                 *)
  results,        (* the channel results                                   *)
  resultsClosed,
  collector,      (* where the collector stands                            *)
  held,           (* the result it is counting                             *)
  totalReq, totalErr, windowReq,
  main,           (* where drive stands                                    *)
  draft,          (* the sample emit is putting together                   *)
  sent,           (* samples the sink took, and history: the sum of the    *)
                  (* rps of a sample and of those before it                *)
  sinkFailed,
  executed        (* requests made and how many of them failed             *)

timeVars == <<clock, cancelled, runCancelled>>
producerVars == <<tokens, dropped, jobsClosed>>
counters == <<totalReq, totalErr>>
collectorVars == <<collector, held, counters, windowReq>>
mainVars == <<main, draft, sent, sinkFailed>>

vars == <<timeVars, producerVars, jobs, worker, results, resultsClosed,
          collectorVars, mainVars, executed>>

Terminal == {"COMPLETED", "FAILED"}

NoDraft == [status |-> "RUNNING", rps |-> 0, total |-> 0]

Init ==
  /\ clock = 0 /\ cancelled = FALSE /\ runCancelled = FALSE
  /\ tokens = 0 /\ dropped = 0
  /\ jobs = 0 /\ jobsClosed = FALSE
  /\ worker = [w \in Workers |-> "idle"]
  /\ results = <<>> /\ resultsClosed = FALSE
  /\ collector = "recv" /\ held = "ok"
  /\ totalReq = 0 /\ totalErr = 0 /\ windowReq = 0
  /\ main = "seed" /\ draft = NoDraft /\ sent = <<>> /\ sinkFailed = FALSE
  /\ executed = [all |-> 0, failed |-> 0]

RunDone == cancelled \/ runCancelled

----------------------------------------------------------------------------
(* The producer: a token per tick, dropped when the channel is full.       *)

(* A tick stamped before the end may be handled after it (t.Before(end)    *)
(* looks at the stamp), and after a cancellation: select takes either.     *)
Tick ==
  /\ ~jobsClosed
  /\ tokens < MaxTokens
  /\ tokens' = tokens + 1
  /\ \/ jobs < JobCap /\ jobs' = jobs + 1 /\ UNCHANGED dropped
     \/ jobs = JobCap /\ dropped' = dropped + 1 /\ UNCHANGED jobs
  /\ UNCHANGED <<timeVars, jobsClosed, worker, results, resultsClosed,
                 collectorVars, mainVars, executed>>

ProducerReturns ==
  /\ ~jobsClosed
  /\ RunDone \/ clock > 0
  /\ jobsClosed' = TRUE
  /\ UNCHANGED <<timeVars, tokens, dropped, jobs, worker, results, resultsClosed,
                 collectorVars, mainVars, executed>>

----------------------------------------------------------------------------
(* The workers.                                                            *)

TakeJob(w) ==
  /\ worker[w] = "idle"
  /\ jobs > 0
  /\ jobs' = jobs - 1
  /\ worker' = [worker EXCEPT ![w] = "busy"]
  /\ UNCHANGED <<timeVars, producerVars, results, resultsClosed, collectorVars,
                 mainVars, executed>>

(* ctx is done, or jobs is closed and drained.                             *)
WorkerReturns(w) ==
  /\ worker[w] = "idle"
  /\ RunDone \/ (jobsClosed /\ jobs = 0)
  /\ worker' = [worker EXCEPT ![w] = "gone"]
  /\ UNCHANGED <<timeVars, producerVars, jobs, results, resultsClosed,
                 collectorVars, mainVars, executed>>

ExecOne(w) ==
  /\ worker[w] = "busy"
  /\ \E outcome \in {"ok", "err"} :
       /\ worker' = [worker EXCEPT ![w] = outcome]
       /\ executed' = [all |-> executed.all + 1,
                       failed |-> executed.failed + (IF outcome = "err" THEN 1 ELSE 0)]
  /\ UNCHANGED <<timeVars, producerVars, jobs, results, resultsClosed,
                 collectorVars, mainVars>>

SendResult(w) ==
  /\ worker[w] \in {"ok", "err"}
  /\ Len(results) < ResultCap
  /\ results' = Append(results, worker[w])
  /\ worker' = [worker EXCEPT ![w] = "idle"]
  /\ UNCHANGED <<timeVars, producerVars, jobs, resultsClosed, collectorVars,
                 mainVars, executed>>

----------------------------------------------------------------------------
(* The collector: three counters, one after the other.                     *)

CountRequest ==
  /\ collector = "recv"
  /\ results # <<>>
  /\ held' = Head(results) /\ results' = Tail(results)
  /\ totalReq' = totalReq + 1
  /\ collector' = "error"
  /\ UNCHANGED <<timeVars, producerVars, jobs, worker, resultsClosed, totalErr,
                 windowReq, mainVars, executed>>

CountError ==
  /\ collector = "error"
  /\ totalErr' = IF held = "err" THEN totalErr + 1 ELSE totalErr
  /\ collector' = "window"
  /\ UNCHANGED <<timeVars, producerVars, jobs, worker, results, resultsClosed,
                 held, totalReq, windowReq, mainVars, executed>>

CountWindow ==
  /\ collector = "window"
  /\ windowReq' = windowReq + 1
  /\ collector' = "recv"
  /\ UNCHANGED <<timeVars, producerVars, jobs, worker, results, resultsClosed,
                 held, counters, mainVars, executed>>

(* Mutant: the collector watches the context and leaves when it ends.      *)
CollectorQuits ==
  /\ collector = "recv"
  /\ RunDone
  /\ collector' = "done"
  /\ UNCHANGED <<timeVars, producerVars, jobs, worker, results, resultsClosed,
                 held, counters, windowReq, mainVars, executed>>

CollectorReturns ==
  /\ collector = "recv"
  /\ results = <<>> /\ resultsClosed
  /\ collector' = "done"
  /\ UNCHANGED <<timeVars, producerVars, jobs, worker, results, resultsClosed,
                 held, counters, windowReq, mainVars, executed>>

----------------------------------------------------------------------------
(* Run and drive.                                                          *)

OthersUnchanged ==
  UNCHANGED <<clock, cancelled, producerVars, jobs, worker, results, collector,
              held, counters, executed>>

Seeded ==
  /\ main = "seed"
  /\ main' = "loop"
  /\ UNCHANGED <<runCancelled, resultsClosed, windowReq, draft, sent, sinkFailed>>
  /\ OthersUnchanged

(* fail: a bad plan, or seeding did not work out.                          *)
RunFails ==
  /\ main = "seed"
  /\ main' = "failed"
  /\ \/ /\ sent' = <<[status |-> "FAILED", rps |-> 0, total |-> 0, errors |-> 0, sum |-> 0]>>
        /\ UNCHANGED sinkFailed
     \/ sinkFailed' = TRUE /\ UNCHANGED sent
  /\ UNCHANGED <<runCancelled, resultsClosed, windowReq, draft>>
  /\ OthersUnchanged

(* emit, under windowMu: take the window.                                  *)
Emit(status) ==
  /\ main' = "total"
  /\ draft' = [status |-> status, rps |-> windowReq, total |-> 0]
  /\ windowReq' = 0
  /\ UNCHANGED <<runCancelled, resultsClosed, sent, sinkFailed>>
  /\ OthersUnchanged

(* A second has passed and the end has not.                                *)
EmitRunning ==
  /\ main = "loop"
  /\ clock < 2
  /\ Len(sent) < MaxSamples
  /\ Emit("RUNNING")

(* History: the rates of the samples sent so far, all together.             *)
SumSent == IF sent = <<>> THEN 0 ELSE Last(sent).sum

(* Mutant: a sample's total is that of the windows sent so far.            *)
TotalOfWindows ==
  /\ main = "total"
  /\ draft' = [draft EXCEPT !.total = SumSent + draft.rps]
  /\ main' = "send"
  /\ UNCHANGED <<runCancelled, resultsClosed, windowReq, sent, sinkFailed>>
  /\ OthersUnchanged

LoadTotal ==
  /\ main = "total"
  /\ draft' = [draft EXCEPT !.total = totalReq]
  /\ main' = "send"
  /\ UNCHANGED <<runCancelled, resultsClosed, windowReq, sent, sinkFailed>>
  /\ OthersUnchanged

Sample ==
  [status |-> draft.status, rps |-> draft.rps, total |-> draft.total,
   errors |-> totalErr, sum |-> SumSent + draft.rps]

Sent ==
  /\ main = "send"
  /\ sent' = Append(sent, Sample)
  /\ main' = IF draft.status = "RUNNING" THEN "loop" ELSE "returned"
  /\ draft' = NoDraft
  /\ UNCHANGED <<runCancelled, resultsClosed, windowReq, sinkFailed>>
  /\ OthersUnchanged

(* The sink fails: the loop ends, or the terminal sample is lost.          *)
SendFails ==
  /\ main = "send"
  /\ sinkFailed' = TRUE
  /\ IF draft.status = "RUNNING"
     THEN main' = "join" /\ runCancelled' = TRUE
     ELSE main' = "returned" /\ UNCHANGED runCancelled
  /\ draft' = NoDraft
  /\ UNCHANGED <<resultsClosed, windowReq, sent>>
  /\ OthersUnchanged

(* The caller has left, or the second that passed was the last.            *)
LoopEnds ==
  /\ main = "loop"
  /\ cancelled \/ clock = 2
  /\ runCancelled' = TRUE
  /\ main' = "join"
  /\ UNCHANGED <<resultsClosed, windowReq, draft, sent, sinkFailed>>
  /\ OthersUnchanged

(* Mutant: results is closed when the producer is back.                    *)
JoinProducer ==
  /\ main = "join"
  /\ jobsClosed
  /\ resultsClosed' = TRUE
  /\ main' = "drain"
  /\ UNCHANGED <<runCancelled, windowReq, draft, sent, sinkFailed>>
  /\ OthersUnchanged

(* Producer and workers are back: close(results).                          *)
Join ==
  /\ main = "join"
  /\ jobsClosed /\ \A w \in Workers : worker[w] = "gone"
  /\ resultsClosed' = TRUE
  /\ main' = "drain"
  /\ UNCHANGED <<runCancelled, windowReq, draft, sent, sinkFailed>>
  /\ OthersUnchanged

SinkErrorReturned ==
  /\ main = "drain" /\ collector = "done"
  /\ sinkFailed
  /\ main' = "returned"
  /\ UNCHANGED <<runCancelled, resultsClosed, windowReq, draft, sent, sinkFailed>>
  /\ OthersUnchanged

(* Mutants: not waiting for the collector; a cancelled run says nothing.   *)
EmitTerminalEarly ==
  /\ main = "drain"
  /\ ~sinkFailed
  /\ Emit(IF cancelled THEN "FAILED" ELSE "COMPLETED")

EmitCompletedOnly ==
  /\ main = "drain" /\ collector = "done"
  /\ ~sinkFailed
  /\ IF cancelled
     THEN /\ main' = "returned"
          /\ UNCHANGED <<runCancelled, resultsClosed, windowReq, draft, sent, sinkFailed>>
          /\ OthersUnchanged
     ELSE Emit("COMPLETED")

EmitTerminal ==
  /\ main = "drain" /\ collector = "done"
  /\ ~sinkFailed
  /\ Emit(IF cancelled THEN "FAILED" ELSE "COMPLETED")

----------------------------------------------------------------------------
(* drive has been called.                                                  *)
Driving == main \notin {"seed", "failed"}

TimePasses ==
  /\ Driving
  /\ clock < 2
  /\ clock' = clock + 1
  /\ UNCHANGED <<cancelled, runCancelled, producerVars, jobs, worker, results,
                 resultsClosed, collectorVars, mainVars, executed>>

CallerLeaves ==
  /\ ~cancelled /\ main \notin {"returned", "failed"}
  /\ cancelled' = TRUE
  /\ UNCHANGED <<clock, runCancelled, producerVars, jobs, worker, results,
                 resultsClosed, collectorVars, mainVars, executed>>

Producer == Driving /\ (Tick \/ ProducerReturns)

Worker(w) ==
  /\ Driving
  /\ TakeJob(w) \/ WorkerReturns(w) \/ ExecOne(w) \/ SendResult(w)

Collector ==
  /\ Driving
  /\ CountRequest \/ CountError \/ CountWindow \/ CollectorReturns

Drive ==
  \/ Seeded \/ RunFails
  \/ EmitRunning \/ LoadTotal \/ Sent \/ SendFails
  \/ LoopEnds
  \/ Join
  \/ SinkErrorReturned \/ EmitTerminal

Over == main \in {"returned", "failed"}

Returned == Over /\ UNCHANGED vars

Next ==
  \/ TimePasses \/ CallerLeaves
  \/ Producer
  \/ \E w \in Workers : Worker(w)
  \/ Collector
  \/ Drive
  \/ Returned

Spec == Init /\ [][Next]_vars

(* Every goroutine runs, requests end, Send returns, time passes.          *)
FairSpec ==
  /\ Spec
  /\ WF_vars(Producer) /\ WF_vars(Collector) /\ WF_vars(Drive) /\ WF_vars(TimePasses)
  /\ \A w \in Workers : WF_vars(Worker(w))

----------------------------------------------------------------------------
TypeOK ==
  /\ clock \in 0..2
  /\ {cancelled, runCancelled, jobsClosed, resultsClosed, sinkFailed} \subseteq BOOLEAN
  /\ tokens \in 0..MaxTokens /\ dropped \in 0..tokens
  /\ jobs \in 0..JobCap
  /\ worker \in [Workers -> {"idle", "busy", "ok", "err", "gone"}]
  /\ results \in Seq({"ok", "err"}) /\ Len(results) <= ResultCap
  /\ collector \in {"recv", "error", "window", "done"} /\ held \in {"ok", "err"}
  /\ totalReq \in 0..MaxTokens /\ totalErr \in 0..totalReq
  /\ windowReq \in 0..MaxTokens
  /\ main \in {"seed", "loop", "total", "send", "join", "drain", "returned",
               "failed"}
  /\ draft \in [status : Terminal \cup {"RUNNING"}, rps : 0..MaxTokens,
                total : 0..MaxTokens]
  /\ sent \in Seq([status : Terminal \cup {"RUNNING"}, rps : 0..MaxTokens,
                   total : 0..MaxTokens, errors : 0..MaxTokens, sum : 0..MaxTokens])
  /\ executed \in [all : 0..MaxTokens, failed : 0..MaxTokens]

(* results is closed only when no worker will send on it again (a send     *)
(* would panic), and the collector has not left results behind.            *)
ClosedAfterLastSend ==
  /\ TypeOK
  /\ resultsClosed => \A w \in Workers : worker[w] = "gone"
  /\ collector = "done" => results = <<>>

(* The terminal sample accounts for every request that was made, and the   *)
(* rates of all samples add up to its total: no result is lost between the *)
(* counters, the windows and the shutdown, or counted in two windows.      *)
TerminalSampleAccounts ==
  main = "returned" /\ ~sinkFailed =>
    /\ Last(sent).total = executed.all
    /\ Last(sent).errors = executed.failed
    /\ Last(sent).sum = executed.all

(* The counters are loaded one after the other while the collector moves    *)
(* on, so a RUNNING sample may count an error and not its request. Still no *)
(* counter ever falls, the next sample has caught up, and no sample shows    *)
(* more requests per second, all in all, than its total.                     *)
SamplesCatchUp ==
  \A i \in DOMAIN sent :
    /\ sent[i].sum <= sent[i].total
    /\ \A j \in DOMAIN sent : i < j =>
         /\ sent[i].total <= sent[j].total /\ sent[i].errors <= sent[j].errors
         /\ sent[i].errors <= sent[j].total

(* The run is what Run's comment promises.                                 *)
Promise ==
  INSTANCE LoadRun WITH MaxRunning <- MaxSamples,
    said <- [i \in DOMAIN sent |-> sent[i].status], broken <- sinkFailed, over <- Over
Implements == Promise!Spec

(* A run whose time is over, or whose caller has left, returns: producer,  *)
(* workers, collector and drive do not wait for each other in a circle.    *)
RunReturns == (Driving /\ (cancelled \/ clock = 2)) ~> main = "returned"

(* What the comment in drive says: a token dropped on a full channel       *)
(* counts as an error.                                                     *)
DropsAreErrors ==
  main = "returned" /\ ~sinkFailed => Last(sent).errors >= dropped
============================================================================
