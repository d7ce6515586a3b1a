-------------------------- MODULE ShortenerProofs --------------------------
(***************************************************************************)
(* Safety of the shortener for any number of concurrent calls, any codes,  *)
(* any requests and any retry bound.  What the repository and the handlers *)
(* guarantee (ShortenServiceProofs) is joined with what ties a call to its *)
(* transaction.                                                            *)
(***************************************************************************)
EXTENDS Shortener, ShortenServiceProofs

(* The transaction of a call carries the row of its latest attempt.        *)
Linked(c) ==
  /\ pc[c] = "insert" => phase[c] # "closed"
  /\ pc[c] \notin {"insert", "done"} => phase[c] = "closed"
  /\ phase[c] # "closed" =>
       /\ batch[c] = <<row[c]>>
       /\ req[c] \in Requests
       /\ BuiltBy(c, row[c])

(* A committed row of a call is the row of its latest attempt, and the     *)
(* call will not try again.                                                *)
Stamped(c) ==
  \A r \in short_urls :
    r.createdAt = c =>
      /\ r = row[c]
      /\ req[c] \in Requests
      /\ BuiltBy(c, r)
      /\ ~Open(c)
      /\ pc[c] \in {"insert", "done"}
      /\ pc[c] = "insert" /\ phase[c] = "returned" => errs[c] = <<"ok">>

(* What holds of every call.                                               *)
CallInv(c) == Answering(c) /\ Linked(c) /\ Stamped(c)

(* The inductive invariant.                                                *)
Inv == RepoInv /\ ServiceTypeOK /\ \A c \in Calls : CallInv(c)

----------------------------------------------------------------------------
(* In a batch of one, the transaction holds its row exactly when the only  *)
(* outcome is ok.                                                          *)
LEMMA BatchOfOne ==
  ASSUME RepoInv, NEW t \in Txs, NEW r, batch[t] = <<r>>
  PROVE  /\ Inserted(t) \subseteq {r}
         /\ phase[t] \in {"commit", "returned"} =>
              Len(errs[t]) = 1 /\ errs[t][1] \in RowOutcome
         /\ Inserted(t) # {} => errs[t] = <<"ok">>
         /\ errs[t] = <<"ok">> => Inserted(t) = {r}
  <1>1. errs[t] \in Seq(RowOutcome) /\ Len(errs[t]) <= 1
    BY DEF RepoInv, RepoTypeOK, BatchShape
  <1>2. DOMAIN errs[t] = {} \/ (DOMAIN errs[t] = {1} /\ errs[t] = <<errs[t][1]>>)
    <2>1. CASE Len(errs[t]) = 0
      BY <1>1, <2>1
    <2>2. CASE Len(errs[t]) = 1
      BY <1>1, <2>2
    <2> QED
      BY <1>1, <2>1, <2>2
  <1>3. Inserted(t) \subseteq {r}
    BY <1>2 DEF Inserted
  <1>4. Inserted(t) # {} => errs[t] = <<"ok">>
    BY <1>2 DEF Inserted
  <1>5. errs[t] = <<"ok">> => Inserted(t) = {r}
    BY DEF Inserted
  <1>6. phase[t] \in {"commit", "returned"} =>
          Len(errs[t]) = 1 /\ errs[t][1] \in RowOutcome
    <2>1. Len(batch[t]) = 1
      OBVIOUS
    <2>2. phase[t] \in {"commit", "returned"} => Len(errs[t]) = 1
      BY <2>1 DEF RepoInv, BatchShape
    <2> QED
      BY <1>1, <2>2
  <1> QED
    BY <1>3, <1>4, <1>5, <1>6

(* The initial state.                                                      *)
LEMMA InitInv == Init => Inv
  <1> SUFFICES ASSUME Init PROVE Inv
    OBVIOUS
  <1>1. RepoInv /\ ServiceTypeOK
    BY RepoInitInv, ServiceInitType DEF Init
  <1>2. \A c \in Calls : Linked(c) /\ Stamped(c)
    BY DirectAssumption DEF Init, ServiceInit, RepoInit, Linked, Stamped
  <1> QED
    BY <1>1, <1>2, ServiceInitAnswering DEF Init, Inv, CallInv

(* A call that a step does not touch stays tied to its transaction.        *)
LEMMA TiesFrame ==
  ASSUME UNCHANGED <<short_urls, phase, batch, errs>>, NEW d \in Calls,
         Linked(d), Stamped(d), row'[d] = row[d],
         \/ pc'[d] = pc[d] /\ req'[d] = req[d]
         \/ pc[d] \notin {"insert", "done"} /\ pc'[d] # "insert"
  PROVE  Linked(d)' /\ Stamped(d)'
  <1>1. CASE pc'[d] = pc[d] /\ req'[d] = req[d]
    BY <1>1 DEF Linked, Stamped, BuiltBy, NewRow, Open
  <1>2. CASE pc[d] \notin {"insert", "done"} /\ pc'[d] # "insert"
    <2>1. phase[d] = "closed" /\ \A r \in short_urls : r.createdAt # d
      BY <1>2 DEF Linked, Stamped
    <2> QED
      BY <1>2, <2>1 DEF Linked, Stamped
  <1> QED
    BY <1>1, <1>2

(* Asking, reading and failing have no tie to a transaction.               *)
LEMMA BetweenKeepsInv ==
  ASSUME Inv, NEW c \in Calls, Between(c)
  PROVE  Inv'
  <1>1. /\ ServiceTypeOK /\ short_urls \subseteq Row /\ RepoInv
        /\ \A d \in Calls : Answering(d) /\ Linked(d) /\ Stamped(d)
    BY DEF Inv, CallInv, RepoInv, RepoTypeOK
  <1>2. UNCHANGED <<repoVars, row>>
    BY <1>1, BetweenOthers
  <1>3. RepoInv' /\ ServiceTypeOK'
    BY <1>1, <1>2, RepoStutterKeepsInv, BetweenType
  <1>4. \A d \in Calls : Answering(d)'
    BY <1>1, BetweenAnswering
  <1>5. ASSUME NEW d \in Calls
        PROVE  Linked(d)' /\ Stamped(d)'
    <2>1. UNCHANGED <<short_urls, phase, batch, errs>> /\ row'[d] = row[d]
      BY <1>2 DEF repoVars
    <2>2. \/ pc'[d] = pc[d] /\ req'[d] = req[d]
          \/ pc[d] \notin {"insert", "done"} /\ pc'[d] # "insert"
      BY <1>1, BetweenOthers, BetweenPlaces
    <2>3. Linked(d) /\ Stamped(d)
      BY <1>1
    <2>4. UNCHANGED <<short_urls, phase, batch, errs>>
      BY <2>1
    <2> QED
      BY <2>1, <2>2, <2>3, <2>4, TiesFrame
  <1> QED
    BY <1>3, <1>4, <1>5 DEF Inv, CallInv

----------------------------------------------------------------------------
(* Inserts.                                                                *)

(* A new attempt starts only when no row of the call exists.               *)
LEMMA CallInsertKeepsInv ==
  ASSUME Inv, NEW c \in Calls, CallInsert(c)
  PROVE  Inv'
  <1>1. PICK code \in Codes : Generate(c, code) /\ Begin(c, <<NewRow(c, code)>>)
    BY DEF CallInsert
  <1> DEFINE r == NewRow(c, code)
  <1>2. /\ ServiceTypeOK /\ RepoInv
        /\ \A d \in Calls : Answering(d) /\ Linked(d) /\ Stamped(d)
        /\ short_urls' = short_urls /\ errs' = errs
    BY <1>1 DEF Inv, CallInv, Begin
  <1>3. /\ \A d \in Calls : Answering(d)'
        /\ pc[c] = "generate" /\ pc'[c] = "insert"
        /\ req[c] \in Requests /\ req' = req
        /\ row'[c] = r /\ r \in Row
        /\ \A d \in Calls : d # c => pc'[d] = pc[d] /\ row'[d] = row[d]
    BY <1>1, <1>2, GenerateAnswering
  <1>4. ServiceTypeOK'
    BY <1>1, <1>2, <1>3, GenerateType
  <1>5. RepoInv'
    <2> DEFINE rows == <<r>>
    <2>1. rows \in Seq(Row)
      BY <1>3
    <2>2. Begin(c, rows) /\ c \in Txs
      BY <1>1, DirectAssumption
    <2> HIDE DEF rows
    <2> QED
      BY <1>2, <2>1, <2>2, BeginKeepsInv
  <1>6. /\ phase'[c] = "insert" /\ batch'[c] = <<r>>
        /\ \A d \in Calls : d # c => phase'[d] = phase[d] /\ batch'[d] = batch[d]
    BY <1>1, <1>2, DirectAssumption DEF Begin, RepoInv, RepoTypeOK
  <1>7. ASSUME NEW d \in Calls, d # c
        PROVE  Linked(d)' /\ Stamped(d)'
    BY <1>2, <1>3, <1>6, <1>7 DEF Linked, Stamped, BuiltBy, NewRow, Open
  <1>8. Linked(c)' /\ Stamped(c)'
    <2>1. \A s \in short_urls : s.createdAt # c
      BY <1>2, <1>3 DEF Stamped
    <2>2. BuiltBy(c, row[c])'
      BY <1>3 DEF BuiltBy, NewRow
    <2> HIDE DEF r
    <2>3. Linked(c)'
      BY <1>3, <1>6, <2>2 DEF Linked
    <2>4. Stamped(c)'
      BY <1>2, <2>1 DEF Stamped
    <2> QED
      BY <2>3, <2>4
  <1> QED
    BY <1>3, <1>4, <1>5, <1>7, <1>8 DEF Inv, CallInv

(* What the transaction of a call says of its row is true.                 *)
LEMMA InsertErrorTrue ==
  ASSUME Inv, NEW c \in Calls, pc[c] = "insert", phase[c] \in {"returned", "failed"}
  PROVE  /\ BuiltBy(c, row[c])
         /\ InsertError(c) = "ok" => row[c] \in short_urls
         /\ InsertError(c) \in {"duplicateCode", "duplicateKey"} =>
              \A r \in short_urls : r.createdAt # c
         /\ InsertError(c) = "duplicateKey" => \E s \in short_urls : SameKey(row[c], s)
  <1>1. /\ CallInv(c) /\ RepoInv /\ batch[c] = <<row[c]>> /\ BuiltBy(c, row[c])
    BY DEF Inv, CallInv, Linked
  <1>2. phase[c] = "returned" => errs[c] = <<errs[c][1]>> /\ errs[c][1] \in RowOutcome
    <2>1. errs[c] \in Seq(RowOutcome)
      BY <1>1, DirectAssumption DEF RepoInv, RepoTypeOK
    <2>2. phase[c] = "returned" => Len(errs[c]) = 1 /\ errs[c][1] \in RowOutcome
      BY <1>1, BatchOfOne, DirectAssumption
    <2> QED
      BY <2>1, <2>2
  <1>3. CASE InsertError(c) = "ok"
    <2>1. phase[c] = "returned" /\ errs[c] = <<"ok">>
      BY <1>2, <1>3 DEF InsertError
    <2>2. Inserted(c) = {row[c]}
      BY <1>1, <2>1, BatchOfOne, DirectAssumption
    <2> QED
      BY <1>1, <1>3, <2>1, <2>2, DirectAssumption DEF RepoInv, OutcomesTrue
  <1>4. CASE InsertError(c) \in {"duplicateCode", "duplicateKey"}
    <2>1. /\ phase[c] = "returned" /\ errs[c] # <<"ok">> /\ Inserted(c) = {}
          /\ errs[c][1] = InsertError(c) /\ 1 \in DOMAIN errs[c]
      BY <1>1, <1>2, <1>4, BatchOfOne, DirectAssumption DEF InsertError
    <2>2. \A r \in short_urls : r.createdAt # c
      BY <1>1, <2>1 DEF CallInv, Stamped
    <2>3. InsertError(c) = "duplicateKey" => \E s \in short_urls : SameKey(row[c], s)
      BY <1>1, <2>1, DirectAssumption DEF RepoInv, OutcomesTrue, Visible
    <2> QED
      BY <1>1, <1>4, <2>2, <2>3
  <1>5. CASE InsertError(c) \notin {"ok", "duplicateCode", "duplicateKey"}
    BY <1>1, <1>5
  <1> QED
    BY <1>3, <1>4, <1>5

(* So what the handler concludes from it is.                               *)
LEMMA ReturnInsertKeepsInv ==
  ASSUME Inv, NEW c \in Calls, ReturnInsert(c)
  PROVE  Inv'
  <1> DEFINE err == InsertError(c)
  <1>1. /\ ServiceTypeOK /\ RepoInv /\ InsertReturns(c, err) /\ End(c)
        /\ \A d \in Calls : Answering(d) /\ Linked(d) /\ Stamped(d)
        /\ short_urls' = short_urls
        /\ pc[c] = "insert" /\ phase[c] \in {"returned", "failed"}
    BY DEF Inv, CallInv, ReturnInsert, InsertReturns, End
  <1>2. /\ BuiltBy(c, row[c])
        /\ err = "ok" => row[c] \in short_urls
        /\ err \in {"duplicateCode", "duplicateKey"} =>
             \A r \in short_urls : r.createdAt # c
        /\ err = "duplicateKey" => \E s \in short_urls : SameKey(row[c], s)
    BY <1>1, InsertErrorTrue
  <1> HIDE DEF err
  <1>3. RepoInv' /\ ServiceTypeOK'
    BY <1>1, <1>2, RepoStepKeepsInv, ReturnsType, DirectAssumption DEF BuiltBy
  <1>4. /\ \A d \in Calls : Answering(d)'
        /\ UNCHANGED <<req, row>>
        /\ err \notin {"duplicateCode", "duplicateKey"} => pc'[c] = "done"
        /\ err \in {"duplicateCode", "duplicateKey"} => pc'[c] \in {"generate", "reread"}
        /\ \A d \in Calls : d # c => pc'[d] = pc[d]
    BY <1>1, <1>2, ReturnsAnswering
  <1>5. /\ phase'[c] = "closed"
        /\ \A d \in Calls : d # c =>
             phase'[d] = phase[d] /\ batch'[d] = batch[d] /\ errs'[d] = errs[d]
    BY <1>1, DirectAssumption DEF End, RepoInv, RepoTypeOK
  <1>6. ASSUME NEW d \in Calls, d # c
        PROVE  Linked(d)' /\ Stamped(d)'
    BY <1>1, <1>4, <1>5, <1>6 DEF Linked, Stamped, BuiltBy, NewRow, Open
  <1>7. Linked(c)' /\ Stamped(c)'
    BY <1>1, <1>2, <1>4, <1>5 DEF Linked, Stamped, BuiltBy, NewRow, Open
  <1> QED
    BY <1>3, <1>4, <1>6, <1>7 DEF Inv, CallInv

(* A statement of one transaction leaves every call's ties intact: rows    *)
(* appear only at a commit, and they are that call's latest.               *)
LEMMA RepoStepKeepsCalls ==
  ASSUME Inv, NEW t \in Txs, Repo(t)
  PROVE  Inv'
  <1>1. /\ RepoInv /\ Open(t) /\ phase'[t] # "closed" /\ batch' = batch
        /\ \A u \in Txs : u # t => phase'[u] = phase[u] /\ errs'[u] = errs[u]
        /\ UNCHANGED svcVars
    BY DEF Inv, Repo, RepoProgress, RepoFault, InsertRow, SkipRow, CodeTaken,
           NothingInserted, ClearOutbox, Commit, CommitLost, Fail, Open, RepoInv,
           RepoTypeOK
  <1>2. /\ short_urls \subseteq short_urls'
        /\ short_urls' \subseteq short_urls \cup Inserted(t)
        /\ short_urls' # short_urls =>
             phase'[t] \in {"returned", "failed"} /\ errs' = errs
    BY <1>1
       DEF Repo, RepoProgress, RepoFault, InsertRow, SkipRow, CodeTaken,
           NothingInserted, ClearOutbox, Commit, CommitLost, Committed, Fail,
           RepoInv, RepoTypeOK
  <1>3. /\ CallInv(t) /\ batch[t] = <<row[t]>> /\ req[t] \in Requests
        /\ BuiltBy(t, row[t])
        /\ pc[t] \in {"insert", "done"}
    BY <1>1, DirectAssumption DEF Inv, CallInv, Linked, Open
  <1>4. Inserted(t) \subseteq {row[t]} /\ (Inserted(t) # {} => errs[t] = <<"ok">>)
    BY <1>1, <1>3, BatchOfOne
  <1>5. row[t].createdAt = t
    BY <1>3 DEF BuiltBy, NewRow
  <1>6. ASSUME NEW d \in Calls
        PROVE  CallInv(d)'
    <2>1. CallInv(d)
      BY DEF Inv
    <2>2. Answering(d)'
      BY <1>1, <1>2, <2>1, AnsweringFrame DEF CallInv, svcVars
    <2>3. Linked(d)'
      BY <1>1, <2>1, DirectAssumption DEF CallInv, Linked, svcVars, BuiltBy, NewRow, Open
    <2>4. CASE d # t
      <3>1. \A r \in short_urls' : r.createdAt = d => r \in short_urls
        BY <1>2, <1>4, <1>5, <2>4
      <3>2. Stamped(d)'
        BY <1>1, <2>1, <2>4, <3>1, DirectAssumption
           DEF CallInv, Stamped, svcVars, Open, BuiltBy, NewRow
      <3> QED
        BY <2>2, <2>3, <3>2 DEF CallInv
    <2>5. CASE d = t
      <3>1. \A r \in short_urls : r.createdAt # t
        BY <1>1, <1>3 DEF CallInv, Stamped
      <3>2. \A r \in short_urls' :
              r.createdAt = t => r = row[t] /\ errs'[t] = <<"ok">> /\ ~Open(t)'
        BY <1>2, <1>4, <3>1 DEF Open
      <3>3. Stamped(t)'
        BY <1>1, <1>3, <3>2 DEF Stamped, svcVars, BuiltBy, NewRow
      <3> QED
        BY <2>2, <2>3, <2>5, <3>3 DEF CallInv
    <2> QED
      BY <2>4, <2>5
  <1>7. RepoInv' /\ ServiceTypeOK'
    BY <1>1, RepoStepKeepsInv DEF Inv, Repo, svcVars, ServiceTypeOK
  <1> QED
    BY <1>6, <1>7 DEF Inv

(* When the process dies no call can try again.                            *)
LEMMA CrashKeepsInv ==
  ASSUME Inv, Crash
  PROVE  Inv'
  <1>1. PICK c \in Calls : TRUE
    BY DEF Crash
  <1>2. RepoInv' /\ ServiceTypeOK'
    BY <1>1, RepoStepKeepsInv, LoseCallsType, DirectAssumption DEF Inv, Crash
  <1>3. ASSUME NEW d \in Calls
        PROVE  CallInv(d)'
    <2>1. /\ CallInv(d) /\ LoseCalls
          /\ req' = req /\ row' = row
          /\ short_urls' = short_urls /\ batch' = batch /\ errs' = errs
          /\ phase'[d] = IF phase[d] \in {"insert", "classify"} THEN "failed" ELSE phase[d]
      BY DirectAssumption DEF Inv, Crash, LoseCalls, DropConnections
    <2>2. Answering(d)' /\ pc'[d] = IF pc[d] = "idle" THEN "idle" ELSE "done"
      BY <2>1, LoseCallsAnswering DEF CallInv
    <2>3. Linked(d)'
      BY <2>1, <2>2 DEF CallInv, Linked, BuiltBy, NewRow
    <2>4. Stamped(d)'
      BY <2>1, <2>2 DEF CallInv, Stamped, BuiltBy, NewRow, Open
    <2> QED
      BY <2>2, <2>3, <2>4 DEF CallInv
  <1> QED
    BY <1>2, <1>3 DEF Inv

(* The invariant is inductive.                                             *)
LEMMA NextKeepsInv ==
  ASSUME Inv, [Next]_vars
  PROVE  Inv'
  <1>1. ASSUME NEW c \in Calls, ServiceAsk(c) \/ Handler(c) \/ StepFails(c)
        PROVE  Inv'
    BY <1>1, BetweenKeepsInv, CallInsertKeepsInv, ReturnInsertKeepsInv DEF Handler, Between
  <1>2. CASE UNCHANGED vars
    <2>1. UNCHANGED repoVars /\ UNCHANGED svcVars
      BY <1>2 DEF vars
    <2>2. ASSUME NEW d \in Calls
          PROVE  CallInv(d)'
      <3>1. Answering(d) /\ Linked(d) /\ Stamped(d)
        BY DEF Inv, CallInv
      <3>2. /\ UNCHANGED <<short_urls, phase, batch, errs>> /\ row'[d] = row[d]
            /\ pc'[d] = pc[d] /\ req'[d] = req[d] /\ wanted'[d] = wanted[d]
            /\ resp'[d] = resp[d]
        BY <2>1 DEF svcVars, repoVars
      <3>3. Answering(d)'
        BY <3>1, <3>2, AnsweringFrame
      <3>4. Linked(d)' /\ Stamped(d)'
        BY <3>1, <3>2 DEF Linked, Stamped, BuiltBy, NewRow, Open
      <3> QED
        BY <3>3, <3>4 DEF CallInv
    <2> QED
      BY <2>1, <2>2, RepoStutterKeepsInv DEF Inv, svcVars, ServiceTypeOK
  <1> QED
    BY <1>1, <1>2, RepoStepKeepsCalls, CrashKeepsInv DEF Next, Finished

(* The inductive invariant holds of every behaviour.                       *)
THEOREM Invariance == Spec => []Inv
  <1>1. Init => Inv
    BY InitInv
  <1>2. Inv /\ [Next]_vars => Inv'
    BY NextKeepsInv
  <1> QED
    BY <1>1, <1>2, PTL DEF Spec

----------------------------------------------------------------------------
(* What the invariant says to clients and to the pipeline behind the table.*)

(* Type correctness.                                                       *)
THEOREM TypeCorrect == Spec => []TypeOK
  <1>1. Inv => TypeOK
    BY DEF Inv, RepoInv, TypeOK
  <1> QED
    BY <1>1, Invariance, PTL

(* No two committed rows share a code or an (owner, key), although the     *)
(* transactions that wrote them could not see each other.                  *)
THEOREM RowsUnique == Spec => []UniqueRows
  <1>1. Inv => UniqueRows
    BY DEF Inv, RepoInv
  <1> QED
    BY <1>1, Invariance, PTL

(* Every committed row has its event in exactly one commit, and no event   *)
(* lacks its row.                                                          *)
THEOREM EventsMatchRows == Spec => []EventPerRow
  <1>1. Inv => EventPerRow
    BY DEF Inv, RepoInv
  <1> QED
    BY <1>1, Invariance, PTL

(* What Debezium decodes never has a code twice: a commit adds rows with   *)
(* new codes to the WAL, and no other step touches it.  OutboxPipeline     *)
(* relies on this (CommitRow).                                             *)
THEOREM WalHasNewCodes == Spec => [][CommitsNewRows]_wal
  <1>1. ASSUME Inv, [Next]_vars
        PROVE  [CommitsNewRows]_wal
    <2>1. ASSUME NEW t \in Txs, Repo(t)
          PROVE  [CommitsNewRows]_wal
      BY <1>1, <2>1, WalGrows DEF Repo, Inv
    <2>2. ASSUME NEW c \in Calls, ServiceAsk(c) \/ Handler(c) \/ StepFails(c)
          PROVE  UNCHANGED wal
      BY <2>2, ProgressCases
         DEF ServiceAsk, Accept, Reject, AskGet, Handler, LookupFinds, LookupMisses,
             Exhausted, RereadFinds, RereadMisses, GetReads, StepFails, CallInsert,
             ReturnInsert, Begin, End, repoVars
    <2>3. CASE Crash
      BY <2>3 DEF Crash, DropConnections
    <2>4. CASE UNCHANGED vars
      BY <2>4 DEF vars, repoVars
    <2> QED
      BY <1>1, <2>1, <2>2, <2>3, <2>4 DEF Next, Finished
  <1> QED
    BY <1>1, Invariance, PTL DEF Spec

(* The outbox table never keeps a row.                                     *)
THEOREM OutboxStaysEmpty == Spec => []OutboxEmpty
  <1>1. Inv => OutboxEmpty
    BY DEF Inv, RepoInv, OutboxCleared, OutboxEmpty
  <1> QED
    BY <1>1, Invariance, PTL

(* Answered codes are committed, with the row the client was shown.        *)
THEOREM Durable == Spec => []AnswersDurable
  <1>1. Inv => AnswersDurable
    BY DEF Inv, CallInv, Answering, Told, AnswersDurable
  <1> QED
    BY <1>1, Invariance, PTL

(* The dedup guarantee of Shorten: one owner and one key, one code.        *)
THEOREM Dedup == Spec => []Idempotent
  <1>1. Inv => Idempotent
    BY ToldIsIdempotent DEF Inv, RepoInv, CallInv, Answering
  <1> QED
    BY <1>1, Invariance, PTL

(* One insertion is reported as created to one call only.                  *)
THEOREM CreatedReportedOnce == Spec => []CreatedOnce
  <1>1. Inv => CreatedOnce
    BY DEF Inv, CallInv, Answering, Created, CreatedOnce
  <1> QED
    BY <1>1, Invariance, PTL

(* A call leaves at most one row behind, whatever failed on the way.       *)
THEOREM AtMostOneRow == Spec => []OneRowPerCall
  <1>1. ASSUME Inv PROVE OneRowPerCall
    <2>1. ASSUME NEW r \in short_urls, NEW s \in short_urls, r.createdAt = s.createdAt
          PROVE  r = s
      <3>1. r.createdAt \in Calls
        BY <1>1, StampAssumption DEF Inv, RepoInv, RepoTypeOK, Row
      <3> QED
        BY <1>1, <2>1, <3>1 DEF Inv, CallInv, Stamped
    <2> QED
      BY <2>1 DEF OneRowPerCall
  <1> QED
    BY <1>1, Invariance, PTL

(* The loser of a race on a key always finds the winner's row.             *)
THEOREM WinnerFound == Spec => []WinnerReadable
  <1>1. Inv => WinnerReadable
    BY DEF Inv, CallInv, Answering, Winner, WinnerReadable
  <1> QED
    BY <1>1, Invariance, PTL

(* A Get of an answered code never says NotFound.                          *)
THEOREM NoNotFoundAfterAnswer == Spec => ReadYourWrites
  <1> DEFINE Step(c, d) ==
        /\ resp[d].status = "OK"
        /\ pc[c] = "get"
        /\ wanted[c] = resp[d].row.code
        => resp'[c].status # "NotFound"
  <1>1. ASSUME Inv, [Next]_vars, NEW c \in Calls, NEW d \in Calls
        PROVE  Step(c, d)
    <2>1. SUFFICES ASSUME resp[d].status = "OK", pc[c] = "get",
                          wanted[c] = resp[d].row.code
          PROVE  resp'[c].status # "NotFound"
      OBVIOUS
    <2>2. /\ resp[c] = Failure("none") /\ ServiceTypeOK
          /\ GetByCode(wanted[c]) # {}
      BY <1>1, <2>1 DEF Inv, CallInv, Answering, Placed, Told, GetByCode
    <2>3. CASE resp'[c] = resp[c]
      BY <2>2, <2>3 DEF Failure
    <2>4. CASE GetReads(c)
      BY <2>2, <2>4 DEF GetReads, Answer, Success, ServiceTypeOK
    <2>5. CASE StepFails(c)
      BY <2>2, <2>5 DEF StepFails, Answer, Failure, ServiceTypeOK
    <2>6. CASE Crash
      BY <2>2, <2>6 DEF Crash, LoseCalls, Failure
    <2>7. ASSUME NEW e \in Calls, e # c, ServiceAsk(e) \/ Handler(e) \/ StepFails(e)
          PROVE  resp'[c] = resp[c]
      BY <2>2, <2>7, ProgressCases
         DEF ServiceAsk, Accept, Reject, AskGet, Handler, LookupFinds,
             LookupMisses, Exhausted, RereadFinds, RereadMisses, GetReads, StepFails,
             CallInsert, Generate, ReturnInsert, InsertReturns, Answer, Goto,
             ServiceTypeOK
    <2>8. CASE ServiceAsk(c) \/ Handler(c)
      BY <2>1, <2>4, <2>8, ProgressCases
         DEF ServiceAsk, Accept, Reject, AskGet, Handler, LookupFinds,
             LookupMisses, Exhausted, RereadFinds, RereadMisses, CallInsert, Generate,
             ReturnInsert, InsertReturns
    <2>9. CASE UNCHANGED svcVars
      BY <2>3, <2>9 DEF svcVars
    <2> QED
      BY <1>1, <2>3, <2>4, <2>5, <2>6, <2>7, <2>8, <2>9 DEF Next, Repo, Finished, vars
  <1>2. Inv /\ [Next]_vars => [\A c, d \in Calls : Step(c, d)]_<<repoVars, svcVars>>
    BY <1>1
  <1> QED
    BY <1>2, Invariance, PTL DEF Spec, ReadYourWrites, vars

----------------------------------------------------------------------------
(* The shortener implements its contract.                                  *)

----------------------------------------------------------------------------
(* Concurrency, retries, faults and crashes of the shortener are invisible *)
(* behind its contract, for every instance.                                *)
THEOREM ImplementsContract == Spec => Contract
  <1>1. Init => C!Init
    BY InitRefines DEF Init
  <1>2. ASSUME Inv, Inv', [Next]_vars
        PROVE  [C!Next]_C!vars
    <2>1. ASSUME NEW c \in Calls, Between(c)
          PROVE  [C!Next]_C!vars
      BY <1>2, <2>1, BetweenRefines DEF Inv, CallInv, Answering
    <2>2. ASSUME NEW c \in Calls, CallInsert(c)
          PROVE  [C!Next]_C!vars
      BY <2>2 DEF CallInsert, Generate, Goto, Begin, C!vars
    <2>3. ASSUME NEW c \in Calls, ReturnInsert(c)
          PROVE  [C!Next]_C!vars
      <3>1. /\ pc[c] = "insert" /\ phase[c] \in {"returned", "failed"}
            /\ short_urls' = short_urls
        BY <2>3 DEF ReturnInsert, InsertReturns, End
      <3> QED
        BY <1>2, <2>3, <3>1, InsertErrorTrue, ReturnsRefines
           DEF ReturnInsert, Inv, CallInv, Answering
    <2>4. ASSUME NEW t \in Txs, Repo(t)
          PROVE  [C!Next]_C!vars
      <3>1. UNCHANGED svcVars /\ short_urls \subseteq short_urls' /\ RepoInv'
        BY <1>2, <2>4
           DEF Repo, RepoProgress, RepoFault, InsertRow, SkipRow, CodeTaken,
               NothingInserted, ClearOutbox, Commit, CommitLost, Committed, Fail, Inv
      <3>2. ASSUME NEW r \in short_urls'
            PROVE  /\ r = row[r.createdAt] /\ BuiltBy(r.createdAt, r)
                   /\ req[r.createdAt] \in Requests
        <4>1. r.createdAt \in Calls
          BY <1>2, StampAssumption DEF Inv, RepoInv, RepoTypeOK, Row
        <4> QED
          BY <1>2, <3>1, <4>1 DEF Inv, CallInv, Stamped, svcVars, BuiltBy, NewRow
      <3> QED
        BY <3>1, <3>2, CommitRefines DEF C!Next
    <2>5. CASE Crash
      BY <1>2, <2>5, LoseCallsRefines
         DEF Crash, DropConnections, Inv, CallInv, Answering, C!Next
    <2>6. CASE UNCHANGED vars
      BY <2>6 DEF vars, repoVars, svcVars, C!vars
    <2> QED
      BY <1>2, <2>1, <2>2, <2>3, <2>4, <2>5, <2>6 DEF Next, Finished, Handler, Between
  <1> QED
    BY <1>1, <1>2, Invariance, PTL DEF Spec, Contract, C!Spec
============================================================================
