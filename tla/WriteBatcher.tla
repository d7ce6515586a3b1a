---------------------------- MODULE WriteBatcher ----------------------------
(***************************************************************************)
(* The write batcher (services/shortener/internal/batcher/batcher.go):     *)
(* Insert hands its row to a buffered channel and waits for a reply of its *)
(* own or for its context; one goroutine gathers rows until the batch is   *)
(* full, the timer fires or the channel is closed and drained, runs        *)
(* InsertBatch, and replies row by row.                                    *)
(*                                                                         *)
(* InsertBatch is left open: BatcherAlone answers it freely,               *)
(* BatchedShortener runs the repository's transaction.                     *)
(***************************************************************************)
EXTENDS Naturals, Sequences

CONSTANTS
  Callers,    (* callers of Insert                                         *)
  BatchSize,  (* WriteBatcher.size                                         *)
  QueueCap    (* capacity of the channel in (1024 in the code)             *)

ASSUME BatchAssumption == BatchSize \in Nat \ {0} /\ QueueCap \in Nat \ {0}

VARIABLES
  queue,     (* the channel in                                             *)
  closed,    (* close(in) has been called                                  *)
  loop,      (* where the goroutine stands                                 *)
  gathered,  (* the batch, as far as it is not replied to                  *)
  results,   (* what InsertBatch said, in step with gathered               *)
  last,      (* the loop returns after this batch                          *)
  stage,     (* where each caller stands in Insert                         *)
  reply      (* its reply channel, of capacity one                         *)

loopVars == <<loop, gathered, results, last>>

batcherVars == <<queue, closed, loopVars, stage, reply>>

Outcome == {"ok", "duplicateCode", "duplicateKey", "error"}

BatcherInit ==
  /\ queue = <<>>
  /\ closed = FALSE
  /\ loop = "wait"
  /\ gathered = <<>>
  /\ results = <<>>
  /\ last = FALSE
  /\ stage = [c \in Callers |-> "out"]
  /\ reply = [c \in Callers |-> "empty"]

----------------------------------------------------------------------------
(* Insert.                                                                 *)

(* A fresh reply channel for each call.                                    *)
Enter(c) ==
  /\ stage[c] = "out"
  /\ stage' = [stage EXCEPT ![c] = "sending"]
  /\ reply' = [reply EXCEPT ![c] = "empty"]
  /\ UNCHANGED <<queue, closed, loopVars>>

Send(c, r) ==
  /\ stage[c] = "sending"
  /\ Len(queue) < QueueCap
  /\ queue' = Append(queue, [call |-> c, row |-> r])
  /\ stage' = [stage EXCEPT ![c] = "waiting"]
  /\ UNCHANGED <<closed, loopVars, reply>>

(* The outcome is taken out of the channel.                                *)
Receive(c) ==
  /\ stage[c] = "waiting"
  /\ reply[c] # "empty"
  /\ stage' = [stage EXCEPT ![c] = "out"]
  /\ reply' = [reply EXCEPT ![c] = "empty"]
  /\ UNCHANGED <<queue, closed, loopVars>>

(* The caller's context ends; the row may already be queued or inserted.   *)
Cancel(c) ==
  /\ stage[c] \in {"sending", "waiting"}
  /\ stage' = [stage EXCEPT ![c] = "out"]
  /\ UNCHANGED <<queue, closed, loopVars, reply>>

(* Close, called when the gRPC server has seen every handler return.       *)
CloseIn ==
  /\ ~closed
  /\ \A c \in Callers : stage[c] = "out"
  /\ closed' = TRUE
  /\ UNCHANGED <<queue, loopVars, stage, reply>>

----------------------------------------------------------------------------
(* The loop.                                                               *)

(* Room(batch): the batch takes another row.                               *)
Room(batch) == Len(batch) < BatchSize

(* The first row of a batch; the timer starts.                             *)
TakeFirst ==
  /\ loop = "wait"
  /\ queue # <<>>
  /\ gathered' = <<Head(queue)>>
  /\ queue' = Tail(queue)
  /\ loop' = "gather"
  /\ UNCHANGED <<closed, results, last, stage, reply>>

LoopReturns ==
  /\ loop = "wait"
  /\ queue = <<>> /\ closed
  /\ loop' = "stopped"
  /\ UNCHANGED <<queue, closed, gathered, results, last, stage, reply>>

TakeMore ==
  /\ loop = "gather"
  /\ Room(gathered)
  /\ queue # <<>>
  /\ gathered' = Append(gathered, Head(queue))
  /\ queue' = Tail(queue)
  /\ UNCHANGED <<closed, loop, results, last, stage, reply>>

(* The channel is closed and drained: flush and return.                    *)
LastBatch ==
  /\ loop = "gather"
  /\ Room(gathered)
  /\ queue = <<>> /\ closed
  /\ loop' = "flush"
  /\ last' = TRUE
  /\ UNCHANGED <<queue, closed, gathered, results, stage, reply>>

(* The batch is full, or its timer fires.                                  *)
StopGathering ==
  /\ loop = "gather"
  /\ loop' = "flush"
  /\ UNCHANGED <<queue, closed, gathered, results, last, stage, reply>>

(* flush: InsertBatch is called with the gathered rows, in order ...       *)
Rows == [i \in DOMAIN gathered |-> gathered[i].row]

CallInsertBatch ==
  /\ loop = "flush"
  /\ loop' = "insert"
  /\ UNCHANGED <<queue, closed, gathered, results, last, stage, reply>>

(* ... and returns an outcome per row, or one error for all of them.       *)
InsertBatchReturns(outcomes) ==
  /\ loop = "insert"
  /\ loop' = "reply"
  /\ results' = outcomes
  /\ UNCHANGED <<queue, closed, gathered, last, stage, reply>>

AllFailed == [i \in DOMAIN gathered |-> "error"]

(* Mutant: a reply channel without a buffer.                               *)
CanReplyUnbuffered(c) == reply[c] = "empty" /\ stage[c] = "waiting"

(* A reply needs room in a channel that nobody may be reading any more.    *)
CanReply(c) == reply[c] = "empty"

(* Mutant: rows and outcomes are matched from opposite ends.               *)
SendReplyFromEnd ==
  /\ loop = "reply"
  /\ gathered # <<>>
  /\ CanReply(Head(gathered).call)
  /\ reply' = [reply EXCEPT ![Head(gathered).call] = results[Len(results)]]
  /\ gathered' = Tail(gathered)
  /\ results' = SubSeq(results, 1, Len(results) - 1)
  /\ UNCHANGED <<queue, closed, loop, last, stage>>

(* The i-th row of the batch is told the i-th outcome.                     *)
SendReply ==
  /\ loop = "reply"
  /\ gathered # <<>>
  /\ CanReply(Head(gathered).call)
  /\ reply' = [reply EXCEPT ![Head(gathered).call] = Head(results)]
  /\ gathered' = Tail(gathered)
  /\ results' = Tail(results)
  /\ UNCHANGED <<queue, closed, loop, last, stage>>

(* Mutant: flush gives up at the first row that failed.                    *)
FlushDoneAtError ==
  /\ loop = "reply"
  /\ gathered = <<>> \/ Head(results) = "error"
  /\ gathered' = <<>> /\ results' = <<>>
  /\ loop' = IF last THEN "stopped" ELSE "wait"
  /\ UNCHANGED <<queue, closed, last, stage, reply>>

FlushDone ==
  /\ loop = "reply"
  /\ gathered = <<>>
  /\ loop' = IF last THEN "stopped" ELSE "wait"
  /\ UNCHANGED <<queue, closed, gathered, results, last, stage, reply>>

(* The goroutine's steps outside InsertBatch.                              *)
LoopStep ==
  \/ TakeFirst
  \/ LoopReturns
  \/ TakeMore
  \/ LastBatch
  \/ StopGathering
  \/ SendReply
  \/ FlushDone

----------------------------------------------------------------------------
Pending(Row) == [call : Callers, row : Row]

BatcherTypeOK(Row) ==
  /\ queue \in Seq(Pending(Row)) /\ Len(queue) <= QueueCap
  /\ closed \in BOOLEAN
  /\ loop \in {"wait", "gather", "flush", "insert", "reply", "stopped"}
  /\ gathered \in Seq(Pending(Row)) /\ Len(gathered) <= BatchSize
  /\ results \in Seq(Outcome)
  /\ last \in BOOLEAN
  /\ stage \in [Callers -> {"out", "sending", "waiting"}]
  /\ reply \in [Callers -> Outcome \cup {"empty"}]
============================================================================
