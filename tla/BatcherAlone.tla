---------------------------- MODULE BatcherAlone ----------------------------
(***************************************************************************)
(* The write batcher under callers that insert, retry after a duplicate    *)
(* code, lose patience, and are finally shut down the way                  *)
(* services/shortener/cmd/server/main.go does: no new calls, every handler *)
(* back, then Close.  InsertBatch answers anything.  Not modelled: that    *)
(* after ten seconds of shutdown the process exits with the batch unsaid   *)
(* (BatchedShortener's Crash).                                             *)
(***************************************************************************)
EXTENDS WriteBatcher

CONSTANTS
  MaxInserts   (* bound: Inserts of each call (the service's maxRetries)   *)

ASSUME InsertsAssumption == MaxInserts \in [Callers -> Nat]

VARIABLES
  accepting,   (* the gRPC server takes new calls                          *)
  inserts,     (* Inserts each call has begun                              *)
  said,        (* what InsertBatch said of the row of its latest Insert    *)
  returned     (* what its latest Insert returned                          *)

callerVars == <<accepting, inserts, returned>>

vars == <<batcherVars, callerVars, said>>

(* The row of an insert is named by its call and attempt.                  *)
RowOf(c) == <<c, inserts[c]>>

Init ==
  /\ BatcherInit
  /\ accepting = TRUE
  /\ inserts = [c \in Callers |-> 0]
  /\ said = [c \in Callers |-> "nothing"]
  /\ returned = [c \in Callers |-> "nothing"]

(* A handler calls Insert, again only after a duplicate code.              *)
BeginInsert(c) ==
  /\ \/ inserts[c] = 0 /\ accepting
     \/ returned[c] = "duplicateCode"
  /\ inserts[c] < MaxInserts[c]
  /\ Enter(c)
  /\ inserts' = [inserts EXCEPT ![c] = @ + 1]
  /\ said' = [said EXCEPT ![c] = "nothing"]
  /\ returned' = [returned EXCEPT ![c] = "nothing"]
  /\ UNCHANGED accepting

SendRow(c) == Send(c, RowOf(c)) /\ UNCHANGED <<callerVars, said>>

InsertReplied(c) ==
  /\ Receive(c)
  /\ returned' = [returned EXCEPT ![c] = reply[c]]
  /\ UNCHANGED <<accepting, inserts, said>>

InsertCancelled(c) ==
  /\ Cancel(c)
  /\ returned' = [returned EXCEPT ![c] = "cancelled"]
  /\ UNCHANGED <<accepting, inserts, said>>

(* GracefulStop: no new calls.                                             *)
StopAccepting ==
  /\ accepting
  /\ accepting' = FALSE
  /\ UNCHANGED <<batcherVars, inserts, said, returned>>

(* A handler run is over: it will not call Insert again.                   *)
HandlerOver(c) ==
  /\ stage[c] = "out"
  /\ ~(returned[c] = "duplicateCode" /\ inserts[c] < MaxInserts[c])

(* Mutant: Close without waiting for GracefulStop.                         *)
CloseAtOnce ==
  /\ ~accepting
  /\ ~closed
  /\ closed' = TRUE
  /\ UNCHANGED <<queue, loopVars, stage, reply, callerVars, said>>

Close ==
  /\ ~accepting
  /\ \A c \in Callers : HandlerOver(c)
  /\ CloseIn
  /\ UNCHANGED <<callerVars, said>>

BatchReturns ==
  \E outcomes \in {AllFailed} \cup [DOMAIN gathered -> Outcome \ {"error"}] :
    /\ InsertBatchReturns(outcomes)
    /\ said' = [c \in Callers |->
                  IF \E i \in DOMAIN gathered : gathered[i].row = RowOf(c)
                  THEN outcomes[CHOOSE i \in DOMAIN gathered :
                                  gathered[i].row = RowOf(c)]
                  ELSE said[c]]
    /\ UNCHANGED callerVars

Loop ==
  \/ (LoopStep \/ CallInsertBatch) /\ UNCHANGED <<callerVars, said>>
  \/ BatchReturns

Stopped ==
  /\ loop = "stopped"
  /\ UNCHANGED vars

Handler(c) == BeginInsert(c) \/ SendRow(c) \/ InsertReplied(c)

Next ==
  \/ \E c \in Callers : Handler(c) \/ InsertCancelled(c)
  \/ StopAccepting
  \/ Close
  \/ Loop
  \/ Stopped

Spec == Init /\ [][Next]_vars

(* The goroutine runs, InsertBatch returns (it has a 30 s deadline), a     *)
(* handler past Insert goes on, and shutdown proceeds once begun.          *)
FairSpec ==
  /\ Spec
  /\ WF_vars(Loop)
  /\ WF_vars(Close)
  /\ \A c \in Callers :
       /\ SF_vars(SendRow(c))
       /\ WF_vars(InsertReplied(c))
       /\ WF_vars(returned[c] = "duplicateCode" /\ BeginInsert(c))

----------------------------------------------------------------------------
AllRows == UNION {{c} \X (1..MaxInserts[c]) : c \in Callers}

TypeOK ==
  /\ BatcherTypeOK(AllRows)
  /\ accepting \in BOOLEAN
  /\ inserts \in [Callers -> Nat]
  /\ \A c \in Callers : inserts[c] <= MaxInserts[c]
  /\ said \in [Callers -> Outcome \cup {"nothing"}]
  /\ returned \in [Callers -> Outcome \cup {"nothing", "cancelled"}]

(* Insert returns what InsertBatch said of its own row and attempt, never  *)
(* of a neighbour's: batch, rows and result.Errors stay in step by         *)
(* position, and each outcome goes to the channel of its own row.          *)
OwnOutcome ==
  \A c \in Callers : returned[c] \in {"nothing", "cancelled", said[c]}

(* A row that was sent is in exactly one place: queued, in the batch, or   *)
(* answered; so InsertBatch sees it once and no row is dropped.            *)
Places(r) ==
  {<<"queue", i>> : i \in {j \in DOMAIN queue : queue[j].row = r}} \cup
  {<<"batch", i>> : i \in {j \in DOMAIN gathered : gathered[j].row = r}}

SentRowsKept ==
  TypeOK /\ \A c \in Callers :
    /\ \A p, q \in Places(RowOf(c)) : p = q
    /\ stage[c] = "waiting" /\ reply[c] = "empty" => Places(RowOf(c)) # {}
    /\ reply[c] # "empty" => Places(RowOf(c)) = {} /\ said[c] = reply[c]

(* No Insert is under way on a closed channel (a send would panic), and    *)
(* the loop leaves nothing behind when it returns.                         *)
CleanClose ==
  /\ closed => \A c \in Callers : HandlerOver(c)
  /\ loop = "stopped" => closed /\ queue = <<>> /\ gathered = <<>>

(* Every Insert returns, whatever its neighbours do, and so does Close: the*)
(* loop is never stuck on the reply channel of a caller that has gone.     *)
EverybodyReturns ==
  /\ \A c \in Callers : stage[c] # "out" ~> stage[c] = "out"
  /\ closed ~> loop = "stopped"
============================================================================
