----------------------------- MODULE Shortener -----------------------------
(***************************************************************************)
(* The shortener service as it runs by default, SHORTENER_BATCH_SIZE <= 1: *)
(* every Insert is an InsertBatch of one row in a transaction of its own,  *)
(* run by the handler's goroutine (Repository.Insert).  Handlers run       *)
(* concurrently, statements interleave, any statement may fail, and the    *)
(* process may die and come back at any point.                             *)
(***************************************************************************)
EXTENDS ShortenService

ASSUME DirectAssumption == Txs = Calls

vars == <<repoVars, svcVars>>

(* repo.Insert is entered with the row of this attempt.                    *)
CallInsert(c) ==
  \E code \in Codes : Generate(c, code) /\ Begin(c, <<NewRow(c, code)>>)

(* Repository.Insert returns the error of its only row.                    *)
InsertError(c) == IF phase[c] = "failed" THEN "error" ELSE errs[c][1]

ReturnInsert(c) ==
  /\ End(c)
  /\ InsertReturns(c, InsertError(c))

Repo(t) == (RepoProgress(t) \/ RepoFault(t)) /\ UNCHANGED svcVars

(* The pod dies and is replaced (one replica, strategy Recreate).          *)
Crash ==
  /\ \E c \in Calls : pc[c] \notin {"idle", "done"}
  /\ LoseCalls
  /\ DropConnections

(* Every client has been answered and no transaction is left open.         *)
Finished ==
  /\ \A c \in Calls : pc[c] = "done"
  /\ \A t \in Txs : ~Open(t)
  /\ UNCHANGED vars

Handler(c) == ServiceProgress(c) \/ CallInsert(c) \/ ReturnInsert(c)

Next ==
  \/ \E c \in Calls : ServiceAsk(c) \/ Handler(c) \/ StepFails(c)
  \/ \E t \in Txs : Repo(t)
  \/ Crash
  \/ Finished

Init == RepoInit /\ ServiceInit

(* Handlers and Postgres keep running; clients need not ask, and faults    *)
(* need not happen.                                                        *)
Fairness ==
  /\ \A c \in Calls : WF_vars(Handler(c))
  /\ \A t \in Txs : WF_vars(RepoProgress(t) /\ UNCHANGED svcVars)

Spec == Init /\ [][Next]_vars

FairSpec == Spec /\ Fairness

----------------------------------------------------------------------------
TypeOK == RepoTypeOK /\ ServiceTypeOK

(* Every accepted call is answered or lost with its process: transactions  *)
(* that wait for each other's rows do not wait for ever.                   *)
EveryCallEnds == \A c \in Calls : pc[c] # "idle" ~> pc[c] = "done"
============================================================================
