-------------------------- MODULE BatchedShortener --------------------------
(***************************************************************************)
(* The shortener with SHORTENER_BATCH_SIZE > 1 (cmd/server/main.go's       *)
(* batchingRepo): handlers insert through the write batcher, whose one     *)
(* goroutine runs InsertBatch on rows of several calls at a time.  Unlike  *)
(* in Shortener, a call may give up while its row is still on its way, one *)
(* bad row may fail its neighbours, and rows of one batch can conflict     *)
(* with each other.                                                        *)
(*                                                                         *)
(* A second transaction identity is needed only for a COMMIT that the      *)
(* server still carries out after the process that sent it has died.       *)
(***************************************************************************)
EXTENDS ShortenService, WriteBatcher

CONSTANTS NoTx

ASSUME CallersAssumption == Callers = Calls

ASSUME NoTxAssumption == NoTx \notin Txs

VARIABLES flushTx   (* the transaction of the batch being flushed          *)

vars == <<repoVars, svcVars, batcherVars, flushTx>>

Init ==
  /\ RepoInit
  /\ ServiceInit
  /\ BatcherInit
  /\ flushTx = NoTx

----------------------------------------------------------------------------
(* Handlers.                                                               *)

CallInsert(c) ==
  /\ \E code \in Codes : Generate(c, code)
  /\ Enter(c)
  /\ UNCHANGED <<repoVars, flushTx>>

SendRow(c) ==
  /\ Send(c, row[c])
  /\ UNCHANGED <<repoVars, svcVars, flushTx>>

ReturnInsert(c) ==
  /\ Receive(c)
  /\ InsertReturns(c, reply[c])
  /\ UNCHANGED <<repoVars, flushTx>>

(* The call's context ends: Insert returns an error, the row goes its way. *)
CancelInsert(c) ==
  /\ Cancel(c)
  /\ InsertReturns(c, "error")
  /\ UNCHANGED <<repoVars, flushTx>>

Elsewhere == UNCHANGED <<batcherVars, flushTx>>

Handler(c) ==
  \/ ServiceProgress(c) /\ Elsewhere
  \/ CallInsert(c)
  \/ SendRow(c)
  \/ ReturnInsert(c)

----------------------------------------------------------------------------
(* The batcher's goroutine and its transaction.                            *)

FlushBegins ==
  /\ CallInsertBatch
  /\ \E t \in Txs : Begin(t, Rows) /\ flushTx' = t
  /\ UNCHANGED svcVars

(* InsertBatch's result: per-row outcomes, or its error for every row.     *)
FlushReturns ==
  /\ flushTx # NoTx
  /\ End(flushTx)
  /\ InsertBatchReturns(IF phase[flushTx] = "failed" THEN AllFailed
                        ELSE errs[flushTx])
  /\ flushTx' = NoTx
  /\ UNCHANGED svcVars

Goroutine ==
  \/ LoopStep /\ UNCHANGED <<repoVars, svcVars, flushTx>>
  \/ FlushBegins
  \/ FlushReturns

Repo(t) ==
  /\ RepoProgress(t) \/ RepoFault(t)
  /\ UNCHANGED <<svcVars, batcherVars, flushTx>>

(* The pod dies: handlers, queue and batch are gone.  Its replacement      *)
(* starts with an empty batcher.                                           *)
Crash ==
  /\ \E c \in Calls : pc[c] \notin {"idle", "done"}
  /\ LoseCalls
  /\ DropConnections
  /\ queue' = <<>> /\ gathered' = <<>> /\ results' = <<>>
  /\ loop' = "wait"
  /\ stage' = [c \in Calls |-> "out"]
  /\ reply' = [c \in Calls |-> "empty"]
  /\ flushTx' = NoTx
  /\ UNCHANGED <<closed, last>>

(* The server forgets the transaction of a dead process.                   *)
Forget(t) ==
  /\ t # flushTx
  /\ End(t)
  /\ UNCHANGED <<svcVars, batcherVars, flushTx>>

Finished ==
  /\ \A c \in Calls : pc[c] = "done"
  /\ \A t \in Txs : phase[t] = "closed"
  /\ loop = "wait" /\ queue = <<>>
  /\ UNCHANGED vars

Next ==
  \/ \E c \in Calls :
       \/ ServiceAsk(c) /\ Elsewhere
       \/ Handler(c)
       \/ StepFails(c) /\ Elsewhere
       \/ CancelInsert(c)
  \/ Goroutine
  \/ \E t \in Txs : Repo(t) \/ Forget(t)
  \/ Crash
  \/ Finished

Spec == Init /\ [][Next]_vars

----------------------------------------------------------------------------
(* The variables have their types; a flush runs in a transaction of its own.*)
TypeOK ==
  /\ RepoTypeOK
  /\ ServiceTypeOK
  /\ BatcherTypeOK(Row)
  /\ flushTx \in Txs \cup {NoTx}

(* No text Postgres refuses reaches a shared batch, where it would fail    *)
(* the rows of other callers (the validation's reason for being).          *)
NoPoisonRow ==
  TypeOK /\ \A t \in Txs : \A i \in DOMAIN batch[t] : Storable(batch[t][i])
============================================================================
