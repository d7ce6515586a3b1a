----------------------- MODULE BatchedShortenerProofs -----------------------
(***************************************************************************)
(* Safety of the shortener behind the write batcher, for any number of     *)
(* calls, any batch size, any channel capacity and any retry bound.  What  *)
(* the repository and the handlers guarantee (ShortenServiceProofs) is     *)
(* joined with what follows a row from its call through the channel, the   *)
(* batch and the transaction, also when its call has left or its process   *)
(* has died.                                                               *)
(***************************************************************************)
EXTENDS BatchedShortener, ShortenServiceProofs

(* An item of s is of call c; no call has two.                             *)
Holds(s, c) == \E i \in DOMAIN s : s[i].call = c

Distinct(s) == \A i, j \in DOMAIN s : s[i].call = s[j].call => i = j

(* No row of c is committed; none of the calls of s.                       *)
NoneStored(c) == \A r \in short_urls : r.createdAt # c

Fresh(s) == \A i \in DOMAIN s : NoneStored(s[i].call)

(* The call has given its row away: it will not try again, unless it is    *)
(* told that the row was not inserted.                                     *)
Settled(c) ==
  \/ pc[c] = "done"
  \/ stage[c] = "waiting" /\ reply[c] \notin {"duplicateCode", "duplicateKey"}

(* It is told later, or left without asking.                               *)
Awaiting(c) == pc[c] = "done" \/ (stage[c] = "waiting" /\ reply[c] = "empty")

(* A row is the latest one of its call, which has given it away.           *)
Issued(r) ==
  /\ r.createdAt \in Calls
  /\ r = row[r.createdAt]
  /\ BuiltBy(r.createdAt, r)
  /\ req[r.createdAt] \in Requests
  /\ Valid(req[r.createdAt])
  /\ Settled(r.createdAt)

(* An item carries the row of its call.                                    *)
OnItsWay(item) ==
  /\ item.row.createdAt = item.call
  /\ Issued(item.row)
  /\ Awaiting(item.call)

Carried(s) == \A i \in DOMAIN s : OnItsWay(s[i])

(* Wherever a row is.                                                      *)
RowsInv ==
  /\ \A r \in short_urls : Issued(r)
  /\ \A t \in Txs : \A i \in DOMAIN batch[t] : Issued(batch[t][i])
  /\ Carried(queue)
  /\ Carried(gathered)

(* A call has one row on its way, and the transaction of a dead process    *)
(* has none of them.                                                       *)
PathInv ==
  /\ Distinct(queue) /\ Distinct(gathered)
  /\ \A c \in Calls : ~(Holds(queue, c) /\ Holds(gathered, c))
  /\ \A t \in Txs : t # flushTx =>
       \A i \in DOMAIN batch[t] :
         /\ pc[batch[t][i].createdAt] = "done"
         /\ ~Holds(queue, batch[t][i].createdAt)
         /\ ~Holds(gathered, batch[t][i].createdAt)

(* Rows are not committed before the commit of their batch, nor then, if   *)
(* their outcome is not ok.                                                *)
StoreInv ==
  /\ Fresh(queue)
  /\ loop \in {"gather", "flush"} => Fresh(gathered)
  /\ loop = "insert" /\ Open(flushTx) => Fresh(gathered)
  /\ loop = "insert" /\ phase[flushTx] = "returned" =>
       \A i \in DOMAIN gathered :
         errs[flushTx][i] # "ok" => NoneStored(gathered[i].call)

(* What an outcome says of the row of an item.                             *)
Reported(outcome, item) ==
  /\ outcome = "ok" => item.row \in short_urls
  /\ outcome \in {"duplicateCode", "duplicateKey"} => NoneStored(item.call)
  /\ outcome = "duplicateKey" => \E s \in short_urls : SameKey(item.row, s)

(* The goroutine, its batch and its transaction keep step.                 *)
FlushInv ==
  /\ flushTx # NoTx <=> loop = "insert"
  /\ loop = "insert" => phase[flushTx] # "closed" /\ batch[flushTx] = Rows
  /\ loop = "wait" => gathered = <<>>
  /\ loop = "reply" =>
       /\ Len(results) = Len(gathered)
       /\ \A i \in DOMAIN gathered : Reported(results[i], gathered[i])

(* A call inserts while it is in the batcher; what it is told is true.     *)
CallerInv(c) ==
  /\ pc[c] = "insert" <=> stage[c] # "out"
  /\ pc[c] = "insert" => BuiltBy(c, row[c])
  /\ stage[c] = "sending" => reply[c] = "empty"
  /\ stage[c] = "waiting" =>
       /\ reply[c] = "ok" => row[c] \in short_urls
       /\ reply[c] = "duplicateKey" => \E s \in short_urls : SameKey(row[c], s)

(* A crash ends the batcher; Close is not part of this module.             *)
Running == ~closed /\ ~last /\ loop # "stopped"

BatchInv ==
  /\ BatcherTypeOK(Row)
  /\ flushTx \in Txs \cup {NoTx}
  /\ Running
  /\ RowsInv
  /\ PathInv
  /\ StoreInv
  /\ FlushInv

(* The inductive invariant.                                                *)
Inv ==
  /\ RepoInv
  /\ ServiceTypeOK
  /\ \A c \in Calls : Answering(c) /\ CallerInv(c)
  /\ BatchInv
----------------------------------------------------------------------------
(* Sequences of items.                                                     *)

(* An item of a tail is an item of the sequence, at a later place.         *)
LEMMA TailItems ==
  ASSUME NEW S, NEW s \in Seq(S), s # <<>>
  PROVE  /\ Tail(s) \in Seq(S) /\ Len(Tail(s)) = Len(s) - 1
         /\ 1 \in DOMAIN s /\ Head(s) = s[1] /\ Head(s) \in S
         /\ \A i \in DOMAIN Tail(s) :
              i \in Nat /\ i # 0 /\ i + 1 \in DOMAIN s /\ Tail(s)[i] = s[i + 1]
  OBVIOUS

(* An appended sequence, by its elements.                                  *)
LEMMA AppendItems ==
  ASSUME NEW S, NEW s \in Seq(S), NEW e \in S
  PROVE  /\ Append(s, e) \in Seq(S) /\ Len(Append(s, e)) = Len(s) + 1
         /\ DOMAIN Append(s, e) = DOMAIN s \cup {Len(s) + 1}
         /\ \A i \in DOMAIN s : i # Len(s) + 1 /\ Append(s, e)[i] = s[i]
         /\ Append(s, e)[Len(s) + 1] = e
  OBVIOUS

(* The calls of a tail are those of the sequence, but its head's.          *)
LEMMA TailCalls ==
  ASSUME NEW S, NEW s \in Seq(S), s # <<>>, Distinct(s)
  PROVE  /\ Distinct(Tail(s))
         /\ ~Holds(Tail(s), Head(s).call)
         /\ \A c : Holds(Tail(s), c) => Holds(s, c)
         /\ Holds(s, Head(s).call)
  <1>1. /\ 1 \in DOMAIN s /\ Head(s) = s[1]
        /\ \A i \in DOMAIN Tail(s) :
             i \in Nat /\ i # 0 /\ i + 1 \in DOMAIN s /\ Tail(s)[i] = s[i + 1]
    BY TailItems
  <1>2. Distinct(Tail(s))
    <2> SUFFICES ASSUME NEW i \in DOMAIN Tail(s), NEW j \in DOMAIN Tail(s),
                        Tail(s)[i].call = Tail(s)[j].call
                 PROVE  i = j
      BY DEF Distinct
    <2>1. i + 1 = j + 1 /\ i \in Nat /\ j \in Nat
      BY <1>1 DEF Distinct
    <2> QED
      BY <2>1
  <1>3. ~Holds(Tail(s), Head(s).call)
    <2> SUFFICES ASSUME NEW i \in DOMAIN Tail(s), Tail(s)[i].call = Head(s).call
                 PROVE  FALSE
      BY DEF Holds
    <2>1. i + 1 = 1 /\ i \in Nat /\ i # 0
      BY <1>1 DEF Distinct
    <2> QED
      BY <2>1
  <1> QED
    BY <1>1, <1>2, <1>3 DEF Holds

(* The calls of an appended sequence.                                      *)
LEMMA AppendCalls ==
  ASSUME NEW S, NEW s \in Seq(S), NEW e \in S
  PROVE  /\ \A c : Holds(Append(s, e), c) <=> Holds(s, c) \/ e.call = c
         /\ Distinct(s) /\ ~Holds(s, e.call) => Distinct(Append(s, e))
  <1>1. /\ DOMAIN Append(s, e) = DOMAIN s \cup {Len(s) + 1}
        /\ \A i \in DOMAIN s : i # Len(s) + 1 /\ Append(s, e)[i] = s[i]
        /\ Append(s, e)[Len(s) + 1] = e
    BY AppendItems
  <1>2. \A c : Holds(Append(s, e), c) <=> Holds(s, c) \/ e.call = c
    BY <1>1 DEF Holds
  <1>3. Distinct(s) /\ ~Holds(s, e.call) => Distinct(Append(s, e))
    BY <1>1 DEF Distinct, Holds
  <1> QED
    BY <1>2, <1>3

----------------------------------------------------------------------------
(* What keeps rows and items.                                              *)

(* A row stays issued as long as its call does not take it back.           *)
LEMMA IssuedStays ==
  ASSUME NEW r, Issued(r),
         row'[r.createdAt] = row[r.createdAt],
         req'[r.createdAt] = req[r.createdAt],
         Settled(r.createdAt)'
  PROVE  Issued(r)'
  BY DEF Issued, BuiltBy, NewRow, Valid, ValidOwnerKey

(* A step that settles calls and takes nothing back.                       *)
Settling ==
  \A c \in Calls :
    /\ Settled(c) => Settled(c)' /\ row'[c] = row[c] /\ req'[c] = req[c]
    /\ Awaiting(c) => Awaiting(c)'
    /\ pc[c] = "done" => pc'[c] = "done"

(* Under such a step rows stay issued.                                     *)
LEMMA SettlingKeeps ==
  ASSUME Settling, NEW r, Issued(r)
  PROVE  Issued(r)'
  <1>1. r.createdAt \in Calls /\ Settled(r.createdAt)
    BY DEF Issued
  <1>2. /\ Settled(r.createdAt)'
        /\ row'[r.createdAt] = row[r.createdAt] /\ req'[r.createdAt] = req[r.createdAt]
    BY <1>1 DEF Settling
  <1> QED
    BY <1>2, IssuedStays

(* And items on their way.                                                 *)
LEMMA SettlingItems ==
  ASSUME Settling, NEW item, OnItsWay(item)
  PROVE  OnItsWay(item)'
  <1>1. Issued(item.row)' /\ item.call \in Calls
    BY SettlingKeeps DEF OnItsWay, Issued
  <1>2. Awaiting(item.call)'
    BY <1>1 DEF OnItsWay, Settling
  <1> QED
    BY <1>1, <1>2 DEF OnItsWay

(* A step that settles calls and moves no row.                             *)
LEMMA SettlingRows ==
  ASSUME RowsInv, PathInv, Settling,
         UNCHANGED <<short_urls, batch, queue, gathered, flushTx>>
  PROVE  RowsInv' /\ PathInv'
  <1>1. RowsInv'
    <2>1. \A r : Issued(r) => Issued(r)'
      BY SettlingKeeps
    <2>2. \A r \in short_urls' : Issued(r)'
      BY <2>1 DEF RowsInv
    <2>3. \A t \in Txs : \A i \in DOMAIN batch'[t] : Issued(batch[t][i])'
      BY <2>1 DEF RowsInv
    <2>4. \A item : OnItsWay(item) => OnItsWay(item)'
      BY SettlingItems
    <2>5. Carried(queue)' /\ Carried(gathered)'
      BY <2>4 DEF RowsInv, Carried
    <2> QED
      BY <2>2, <2>3, <2>4, <2>5 DEF RowsInv
  <1>2. PathInv'
    <2>1. \A c : (Holds(queue, c)' <=> Holds(queue, c)) /\ (Holds(gathered, c)' <=> Holds(gathered, c))
      BY DEF Holds
    <2>2. Distinct(queue)' /\ Distinct(gathered)'
      BY DEF PathInv, Distinct
    <2>3. ASSUME NEW t \in Txs, t # flushTx, NEW i \in DOMAIN batch[t]
          PROVE  /\ pc'[batch[t][i].createdAt] = "done"
                 /\ ~Holds(queue, batch[t][i].createdAt)
                 /\ ~Holds(gathered, batch[t][i].createdAt)
      <3>1. batch[t][i].createdAt \in Calls
        BY DEF RowsInv, Issued
      <3> QED
        BY <2>3, <3>1 DEF PathInv, Settling
    <2> QED
      BY <2>1, <2>2, <2>3 DEF PathInv
  <1> QED
    BY <1>1, <1>2

(* A step of a handler that neither sends a row nor dies leaves the        *)
(* goroutine and its transaction where they are.                           *)
LEMMA SettlingStep ==
  ASSUME RowsInv, PathInv, StoreInv, FlushInv, Running, Settling,
         UNCHANGED <<repoVars, queue, loopVars, closed, flushTx>>
  PROVE  RowsInv' /\ PathInv' /\ StoreInv' /\ FlushInv' /\ Running'
  <1> USE DEF repoVars, loopVars
  <1>1. RowsInv' /\ PathInv'
    BY SettlingRows
  <1>2. StoreInv'
    BY DEF StoreInv, Fresh, NoneStored, Open
  <1>3. FlushInv'
    BY DEF FlushInv, Rows, Reported, NoneStored, SameKey
  <1> QED
    BY <1>1, <1>2, <1>3 DEF Running

----------------------------------------------------------------------------
(* The handlers.                                                           *)

(* The initial state.                                                      *)
LEMMA InitInv == Init => Inv
  <1> SUFFICES ASSUME Init PROVE Inv
    OBVIOUS
  <1>1. RepoInv /\ ServiceTypeOK /\ \A c \in Calls : Answering(c)
    BY RepoInitInv, ServiceInitType, ServiceInitAnswering DEF Init
  <1>2. /\ short_urls = {} /\ queue = <<>> /\ gathered = <<>> /\ results = <<>>
        /\ loop = "wait" /\ flushTx = NoTx /\ ~closed /\ ~last
        /\ \A t \in Txs : batch[t] = <<>>
        /\ \A c \in Calls : pc[c] = "idle" /\ stage[c] = "out" /\ reply[c] = "empty"
    BY CallersAssumption DEF Init, RepoInit, ServiceInit, BatcherInit
  <1>3. BatcherTypeOK(Row)
    <2>1. /\ queue \in Seq(Pending(Row)) /\ Len(queue) <= QueueCap
          /\ gathered \in Seq(Pending(Row)) /\ Len(gathered) <= BatchSize
          /\ results \in Seq(Outcome)
      BY <1>2, BatchAssumption
    <2>2. /\ stage \in [Callers -> {"out", "sending", "waiting"}]
          /\ reply \in [Callers -> Outcome \cup {"empty"}]
          /\ closed \in BOOLEAN /\ last \in BOOLEAN
      BY DEF Init, BatcherInit
    <2> QED
      BY <1>2, <2>1, <2>2 DEF BatcherTypeOK
  <1>4. RowsInv /\ PathInv /\ StoreInv /\ FlushInv /\ Running
    BY <1>2 DEF RowsInv, Carried, PathInv, Distinct, Holds, StoreInv, Fresh, FlushInv, Running
  <1>5. \A c \in Calls : CallerInv(c)
    BY <1>2 DEF CallerInv
  <1> QED
    BY <1>1, <1>2, <1>3, <1>4, <1>5 DEF Inv, BatchInv

(* The places of a call that is not touched.                               *)
LEMMA CallerStays ==
  ASSUME NEW d \in Calls, CallerInv(d), short_urls \subseteq short_urls',
         pc'[d] = pc[d], row'[d] = row[d], req'[d] = req[d],
         stage'[d] = stage[d], reply'[d] = reply[d]
  PROVE  CallerInv(d)'
  BY DEF CallerInv, BuiltBy, NewRow, SameKey

(* Asking, reading and failing have nothing to do with the batcher.        *)
LEMMA BetweenKeepsInv ==
  ASSUME Inv, NEW c \in Calls, Between(c), Elsewhere
  PROVE  Inv'
  <1>1. /\ ServiceTypeOK /\ short_urls \subseteq Row /\ RepoInv /\ BatchInv
        /\ \A d \in Calls : Answering(d) /\ CallerInv(d)
    BY DEF Inv, RepoInv, RepoTypeOK
  <1>2. /\ UNCHANGED <<repoVars, row>>
        /\ \A d \in Calls : d # c => pc'[d] = pc[d] /\ req'[d] = req[d]
        /\ pc[c] \notin {"insert", "done"} /\ pc'[c] # "insert"
    BY <1>1, BetweenOthers, BetweenPlaces
  <1>3. RepoInv' /\ ServiceTypeOK' /\ \A d \in Calls : Answering(d)'
    BY <1>1, <1>2, RepoStutterKeepsInv, BetweenType, BetweenAnswering
  <1>4. UNCHANGED <<queue, loopVars, closed, flushTx, stage, reply>>
    BY DEF Elsewhere, batcherVars
  <1>5. ASSUME NEW d \in Calls
        PROVE  CallerInv(d)'
    <2>1. CASE d # c
      BY <1>1, <1>2, <1>4, <2>1, CallerStays DEF repoVars
    <2>2. CASE d = c
      BY <1>1, <1>2, <1>4, <2>2 DEF CallerInv
    <2> QED
      BY <2>1, <2>2
  <1>6. Settling
    <2>1. stage[c] = "out"
      BY <1>1, <1>2, CallersAssumption DEF CallerInv, BatchInv, BatcherTypeOK
    <2> QED
      BY <1>2, <1>4, <2>1 DEF Settling, Settled, Awaiting
  <1>7. BatchInv'
    <2>1. BatcherTypeOK(Row)' /\ flushTx' \in Txs \cup {NoTx}
      BY <1>1, <1>4 DEF BatchInv, BatcherTypeOK, loopVars
    <2> QED
      BY <1>1, <1>2, <1>4, <1>6, <2>1, SettlingStep DEF BatchInv
  <1> QED
    BY <1>3, <1>5, <1>7 DEF Inv

(* A call that tries again has no row left anywhere.                       *)
LEMMA CallInsertKeepsInv ==
  ASSUME Inv, NEW c \in Calls, CallInsert(c)
  PROVE  Inv'
  <1>1. PICK code \in Codes : Generate(c, code)
    BY DEF CallInsert
  <1>2. /\ ServiceTypeOK /\ RepoInv /\ BatchInv
        /\ \A d \in Calls : Answering(d) /\ CallerInv(d)
        /\ UNCHANGED repoVars /\ short_urls' = short_urls
    BY DEF Inv, CallInsert, repoVars
  <1>3. /\ \A d \in Calls : Answering(d)'
        /\ pc[c] = "generate" /\ pc'[c] = "insert"
        /\ req[c] \in Requests /\ req' = req
        /\ row'[c] = NewRow(c, code) /\ NewRow(c, code) \in Row
        /\ \A d \in Calls : d # c => pc'[d] = pc[d] /\ row'[d] = row[d]
    BY <1>1, <1>2, GenerateAnswering
  <1>4. RepoInv' /\ ServiceTypeOK'
    BY <1>1, <1>2, <1>3, RepoStutterKeepsInv, GenerateType
  <1>5. /\ stage[c] = "out" /\ stage'[c] = "sending" /\ reply'[c] = "empty"
        /\ \A d \in Calls : d # c => stage'[d] = stage[d] /\ reply'[d] = reply[d]
        /\ UNCHANGED <<queue, loopVars, closed, flushTx>>
        /\ BatcherTypeOK(Row)'
    <2>1. Enter(c) /\ BatcherTypeOK(Row) /\ flushTx' = flushTx
      BY <1>2 DEF CallInsert, BatchInv
    <2>2. /\ stage' = [stage EXCEPT ![c] = "sending"] /\ stage[c] = "out"
          /\ reply' = [reply EXCEPT ![c] = "empty"]
          /\ UNCHANGED <<queue, closed, loopVars>>
      BY <2>1 DEF Enter
    <2> QED
      BY <2>1, <2>2, CallersAssumption DEF BatcherTypeOK, loopVars
  <1>6. ASSUME NEW d \in Calls
        PROVE  CallerInv(d)'
    <2>1. CASE d # c
      BY <1>2, <1>3, <1>5, <2>1, CallerStays
    <2>2. CASE d = c
      <3>1. BuiltBy(c, row[c])'
        BY <1>3 DEF BuiltBy, NewRow
      <3> QED
        BY <1>3, <1>5, <2>2, <3>1 DEF CallerInv
    <2> QED
      BY <2>1, <2>2
  <1>7. Settling
    BY <1>3, <1>5 DEF Settling, Settled, Awaiting
  <1>8. BatchInv'
    BY <1>2, <1>5, <1>7, SettlingStep DEF BatchInv
  <1> QED
    BY <1>3, <1>4, <1>6, <1>8 DEF Inv

(* A call that returns from the batcher, with its reply or without, takes  *)
(* nothing back: it goes on only after it was told that nothing happened.  *)
LEMMA LeaveKeepsInv ==
  ASSUME Inv, NEW c \in Calls, NEW err, InsertReturns(c, err),
         stage[c] \in {"sending", "waiting"}, stage' = [stage EXCEPT ![c] = "out"],
         reply' \in {reply, [reply EXCEPT ![c] = "empty"]},
         UNCHANGED <<repoVars, queue, closed, loopVars, flushTx>>,
         err = "error" \/ (stage[c] = "waiting" /\ err = reply[c])
  PROVE  Inv'
  <1>1. /\ ServiceTypeOK /\ RepoInv /\ BatchInv
        /\ \A d \in Calls : Answering(d) /\ CallerInv(d)
        /\ short_urls' = short_urls
    BY DEF Inv, repoVars
  <1>2. /\ BuiltBy(c, row[c])
        /\ err = "ok" => row[c] \in short_urls
        /\ err = "duplicateKey" => \E s \in short_urls : SameKey(row[c], s)
    BY <1>1 DEF CallerInv
  <1>3. /\ \A d \in Calls : Answering(d)'
        /\ pc[c] = "insert" /\ UNCHANGED <<req, row>>
        /\ err \in {"duplicateCode", "duplicateKey"} =>
              pc'[c] = IF err = "duplicateCode" THEN "generate" ELSE "reread"
        /\ err \notin {"duplicateCode", "duplicateKey"} => pc'[c] = "done"
        /\ \A d \in Calls : d # c => pc'[d] = pc[d]
    BY <1>1, <1>2, ReturnsAnswering
  <1>4. RepoInv' /\ ServiceTypeOK'
    BY <1>1, <1>2, RepoStutterKeepsInv, ReturnsType DEF BuiltBy
  <1>5. /\ stage'[c] = "out" /\ reply'[c] \in {reply[c], "empty"}
        /\ \A d \in Calls : d # c => stage'[d] = stage[d] /\ reply'[d] = reply[d]
        /\ BatcherTypeOK(Row)'
    BY <1>1, CallersAssumption DEF BatchInv, BatcherTypeOK, loopVars
  <1>6. ASSUME NEW d \in Calls
        PROVE  CallerInv(d)'
    <2>1. CASE d # c
      BY <1>1, <1>3, <1>5, <2>1, CallerStays
    <2>2. CASE d = c
      BY <1>3, <1>5, <2>2 DEF CallerInv
    <2> QED
      BY <2>1, <2>2
  <1>7. Settling
    BY <1>3, <1>5 DEF Settling, Settled, Awaiting
  <1>8. BatchInv'
    BY <1>1, <1>5, <1>7, SettlingStep DEF BatchInv
  <1> QED
    BY <1>3, <1>4, <1>6, <1>8 DEF Inv

----------------------------------------------------------------------------
(* Rows on their way through the channel.                                  *)

(* Steps of the batcher are none of the repository or of a handler.        *)
LEMMA BatcherStep ==
  ASSUME Inv, UNCHANGED <<repoVars, svcVars>>
  PROVE  RepoInv' /\ ServiceTypeOK' /\ \A d \in Calls : Answering(d)'
  <1>1. RepoInv' /\ ServiceTypeOK'
    BY RepoStutterKeepsInv DEF Inv, svcVars, ServiceTypeOK
  <1>2. ASSUME NEW d \in Calls
        PROVE  Answering(d)'
    <2>1. Answering(d) /\ short_urls \subseteq short_urls'
      BY DEF Inv, repoVars
    <2>2. pc'[d] = pc[d] /\ req'[d] = req[d] /\ wanted'[d] = wanted[d] /\ resp'[d] = resp[d]
      BY DEF svcVars
    <2> QED
      BY <2>1, <2>2, AnsweringFrame
  <1> QED
    BY <1>1, <1>2

(* A row that is sent is nowhere else.                                     *)
LEMMA SendRowKeepsInv ==
  ASSUME Inv, NEW c \in Calls, SendRow(c)
  PROVE  Inv'
  <1>1. /\ BatchInv /\ queue \in Seq(Pending(Row)) /\ CallerInv(c) /\ Answering(c)
        /\ UNCHANGED <<repoVars, svcVars, closed, loopVars, reply, flushTx>>
        /\ queue' = Append(queue, [call |-> c, row |-> row[c]])
        /\ Len(queue) < QueueCap
        /\ stage[c] = "sending" /\ stage' = [stage EXCEPT ![c] = "waiting"]
    BY DEF Inv, BatchInv, BatcherTypeOK, SendRow, Send
  <1>2. /\ pc[c] = "insert" /\ BuiltBy(c, row[c]) /\ reply[c] = "empty"
        /\ req[c] \in Requests /\ Valid(req[c])
    BY <1>1 DEF CallerInv, Answering, Placed, AskingPc
  <1>3. /\ ~Settled(c) /\ ~Awaiting(c)
        /\ \A r : Issued(r) => r.createdAt # c
    BY <1>1, <1>2 DEF Settled, Awaiting, Issued
  <1>4. /\ stage'[c] = "waiting"
        /\ \A d \in Calls : d # c => stage'[d] = stage[d]
        /\ UNCHANGED <<short_urls, batch, errs, phase, pc, req, row, gathered, results, loop, last>>
    BY <1>1, CallersAssumption DEF BatchInv, BatcherTypeOK, repoVars, svcVars, loopVars
  <1>5. Settling
    BY <1>1, <1>3, <1>4 DEF Settling, Settled, Awaiting
  <1>6. PICK item \in Pending(Row) : item = [call |-> c, row |-> row[c]]
    BY <1>2, CallersAssumption DEF Pending, BuiltBy
  <1>7. row[c].createdAt = c
    BY <1>2 DEF BuiltBy, NewRow
  <1>8. OnItsWay(item)'
    <2>1. Settled(c)' /\ Awaiting(c)'
      BY <1>1, <1>2, <1>4 DEF Settled, Awaiting
    <2>2. BuiltBy(c, row[c])'
      BY <1>2, <1>4 DEF BuiltBy, NewRow
    <2>3. Valid(req[c])'
      BY <1>2, <1>4 DEF Valid, ValidOwnerKey
    <2>4. Issued(row[c])'
      BY <1>2, <1>4, <1>7, <2>1, <2>2, <2>3 DEF Issued
    <2> QED
      BY <1>4, <1>6, <1>7, <2>1, <2>4 DEF OnItsWay, Issued
  <1>9. /\ queue' \in Seq(Pending(Row)) /\ Len(queue') = Len(queue) + 1
        /\ DOMAIN queue' = DOMAIN queue \cup {Len(queue) + 1}
        /\ \A i \in DOMAIN queue : queue'[i] = queue[i]
        /\ queue'[Len(queue) + 1] = item
    BY <1>1, <1>6, AppendItems
  <1>10. ~Holds(queue, c) /\ ~Holds(gathered, c)
    BY <1>1, <1>3 DEF BatchInv, RowsInv, Carried, OnItsWay, Holds
  <1>11. /\ \A d : Holds(queue, d)' <=> Holds(queue, d) \/ d = c
         /\ \A d : Holds(gathered, d)' <=> Holds(gathered, d)
         /\ Distinct(queue)'
    <2>1. \A d : Holds(Append(queue, item), d) <=> Holds(queue, d) \/ item.call = d
      BY <1>1, <1>6, AppendCalls
    <2>2. Distinct(Append(queue, item))
      BY <1>1, <1>6, <1>10, AppendCalls DEF BatchInv, PathInv
    <2> QED
      BY <1>1, <1>4, <1>6, <2>1, <2>2 DEF Holds, Distinct
  <1>12. BatcherTypeOK(Row)' /\ Running'
    <2>1. Len(queue') <= QueueCap
      BY <1>1, <1>9, BatchAssumption DEF BatchInv, BatcherTypeOK
    <2> QED
      BY <1>1, <1>4, <1>9, <2>1 DEF BatchInv, BatcherTypeOK, Running
  <1>13. RowsInv'
    <2>1. \A r : Issued(r) => Issued(r)'
      BY <1>5, SettlingKeeps
    <2>2. \A i : OnItsWay(i) => OnItsWay(i)'
      BY <1>5, SettlingItems
    <2>3. \A r \in short_urls' : Issued(r)'
      BY <1>1, <1>4, <2>1 DEF BatchInv, RowsInv
    <2>4. \A t \in Txs : \A i \in DOMAIN batch'[t] : Issued(batch[t][i])'
      BY <1>1, <1>4, <2>1 DEF BatchInv, RowsInv
    <2>5. Carried(gathered)'
      BY <1>1, <1>4, <2>2 DEF BatchInv, RowsInv, Carried
    <2>6. ASSUME NEW i \in DOMAIN queue'
          PROVE  OnItsWay(queue[i])'
      <3>1. CASE i \in DOMAIN queue
        <4>1. OnItsWay(queue[i]) /\ queue'[i] = queue[i]
          BY <1>1, <1>9, <3>1 DEF BatchInv, RowsInv, Carried
        <4> QED
          BY <2>2, <4>1 DEF OnItsWay
      <3>2. CASE i = Len(queue) + 1
        BY <1>8, <1>9, <3>2 DEF OnItsWay
      <3> QED
        BY <1>9, <3>1, <3>2
    <2>7. Carried(queue)'
      BY <2>6 DEF Carried
    <2> QED
      BY <1>4, <2>3, <2>4, <2>5, <2>7 DEF RowsInv
  <1>14. PathInv'
    <2>1. Distinct(gathered)'
      BY <1>1, <1>4 DEF BatchInv, PathInv, Distinct
    <2>2. \A d \in Calls : ~(Holds(queue, d)' /\ Holds(gathered, d)')
      BY <1>1, <1>10, <1>11 DEF BatchInv, PathInv
    <2>3. ASSUME NEW t \in Txs, t # flushTx, NEW i \in DOMAIN batch[t]
          PROVE  /\ pc[batch[t][i].createdAt] = "done"
                 /\ ~Holds(queue, batch[t][i].createdAt)'
                 /\ ~Holds(gathered, batch[t][i].createdAt)'
      <3>1. batch[t][i].createdAt # c
        BY <1>1, <1>3 DEF BatchInv, RowsInv
      <3>2. /\ pc[batch[t][i].createdAt] = "done"
            /\ ~Holds(queue, batch[t][i].createdAt)
            /\ ~Holds(gathered, batch[t][i].createdAt)
        BY <1>1, <2>3 DEF BatchInv, PathInv
      <3>3. batch'[t][i] = batch[t][i]
        BY <1>4
      <3> QED
        BY <1>11, <3>1, <3>2, <3>3
    <2> QED
      BY <1>1, <1>4, <1>11, <2>1, <2>2, <2>3 DEF PathInv
  <1>15. StoreInv'
    <2>1. NoneStored(c)
      BY <1>1, <1>3 DEF BatchInv, RowsInv, NoneStored
    <2>2. Fresh(queue)'
      BY <1>1, <1>4, <1>6, <1>9, <2>1 DEF BatchInv, StoreInv, Fresh, NoneStored
    <2> QED
      BY <1>1, <1>4, <2>2 DEF BatchInv, StoreInv, Fresh, NoneStored, Open
  <1>16. FlushInv'
    BY <1>1, <1>4 DEF BatchInv, FlushInv, Rows, Reported, NoneStored, SameKey
  <1>17. ASSUME NEW d \in Calls
         PROVE  CallerInv(d)'
    <2>1. CASE d # c
      BY <1>1, <1>4, <2>1, CallerStays DEF Inv
    <2>2. CASE d = c
      BY <1>1, <1>2, <1>4, <2>2 DEF CallerInv, BuiltBy, NewRow
    <2> QED
      BY <2>1, <2>2
  <1> QED
    BY <1>1, <1>12, <1>13, <1>14, <1>15, <1>16, <1>17, BatcherStep DEF Inv, BatchInv

(* A step of the goroutine touches no call.                                *)
LEMMA CallersStay ==
  ASSUME Inv, UNCHANGED <<svcVars, stage, reply>>, short_urls \subseteq short_urls'
  PROVE  Settling /\ \A d \in Calls : CallerInv(d)'
  <1>1. \A d \in Calls : CallerInv(d)
    BY DEF Inv
  <1>2. \A d \in Calls : CallerInv(d)'
    BY <1>1, CallerStays DEF svcVars
  <1>3. Settling
    BY DEF Settling, Settled, Awaiting, svcVars
  <1> QED
    BY <1>2, <1>3

(* The goroutine takes a row: it is never in two places.                   *)
LEMMA TakeKeepsInv ==
  ASSUME Inv, queue # <<>>, Len(gathered) < BatchSize,
         queue' = Tail(queue), gathered' = Append(gathered, Head(queue)),
         loop \in {"wait", "gather"}, loop' = "gather",
         UNCHANGED <<repoVars, svcVars, closed, results, last, stage, reply, flushTx>>
  PROVE  Inv'
  <1>1. /\ BatchInv /\ queue \in Seq(Pending(Row)) /\ gathered \in Seq(Pending(Row))
        /\ Distinct(queue) /\ Distinct(gathered)
        /\ UNCHANGED <<short_urls, batch, errs, phase, pc, req, row>>
    BY DEF Inv, BatchInv, BatcherTypeOK, PathInv, repoVars, svcVars
  <1>2. PICK e \in Pending(Row) : e = Head(queue)
    BY <1>1, TailItems
  <1>3. /\ queue' \in Seq(Pending(Row)) /\ Len(queue') = Len(queue) - 1
        /\ 1 \in DOMAIN queue /\ queue[1] = e
        /\ \A i \in DOMAIN queue' : i + 1 \in DOMAIN queue /\ queue'[i] = queue[i + 1]
    BY <1>1, <1>2, TailItems
  <1>4. /\ gathered' \in Seq(Pending(Row)) /\ Len(gathered') = Len(gathered) + 1
        /\ DOMAIN gathered' = DOMAIN gathered \cup {Len(gathered) + 1}
        /\ \A i \in DOMAIN gathered : gathered'[i] = gathered[i]
        /\ gathered'[Len(gathered) + 1] = e
    BY <1>1, <1>2, AppendItems
  <1>5. e.call \in Calls
    BY CallersAssumption DEF Pending
  <1>6. /\ Holds(queue, e.call) /\ ~Holds(gathered, e.call)
        /\ Distinct(queue)' /\ ~Holds(queue, e.call)'
        /\ \A d : Holds(queue, d)' => Holds(queue, d)
    <2>1. /\ Distinct(Tail(queue)) /\ ~Holds(Tail(queue), e.call)
          /\ \A d : Holds(Tail(queue), d) => Holds(queue, d)
          /\ Holds(queue, e.call)
      BY <1>1, <1>2, TailCalls
    <2>2. ~Holds(gathered, e.call)
      BY <1>1, <1>5, <2>1 DEF BatchInv, PathInv
    <2> QED
      BY <2>1, <2>2 DEF Holds, Distinct
  <1>7. /\ \A d : Holds(gathered, d)' <=> Holds(gathered, d) \/ d = e.call
        /\ Distinct(gathered)'
    <2>1. /\ \A d : Holds(Append(gathered, e), d) <=> Holds(gathered, d) \/ e.call = d
          /\ Distinct(Append(gathered, e))
      BY <1>1, <1>6, AppendCalls
    <2> QED
      BY <1>2, <2>1 DEF Holds, Distinct
  <1>8. Settling /\ \A d \in Calls : CallerInv(d)'
    BY <1>1, CallersStay
  <1>9. BatcherTypeOK(Row)' /\ Running'
    <2>1. Len(queue') <= QueueCap
      BY <1>1, <1>3, BatchAssumption DEF BatchInv, BatcherTypeOK
    <2>2. Len(gathered') <= BatchSize
      BY <1>1, <1>4, BatchAssumption
    <2> QED
      BY <1>1, <1>3, <1>4, <2>1, <2>2 DEF BatchInv, BatcherTypeOK, Running
  <1>10. RowsInv'
    <2>1. \A r : Issued(r) => Issued(r)'
      BY <1>8, SettlingKeeps
    <2>2. \A i : OnItsWay(i) => OnItsWay(i)'
      BY <1>8, SettlingItems
    <2>3. /\ \A r \in short_urls' : Issued(r)'
          /\ \A t \in Txs : \A i \in DOMAIN batch'[t] : Issued(batch[t][i])'
      BY <1>1, <2>1 DEF BatchInv, RowsInv
    <2>4. ASSUME NEW i \in DOMAIN queue'
          PROVE  OnItsWay(queue[i])'
      <3>1. OnItsWay(queue[i + 1]) /\ queue'[i] = queue[i + 1]
        BY <1>1, <1>3, <2>4 DEF BatchInv, RowsInv, Carried
      <3> QED
        BY <2>2, <3>1 DEF OnItsWay
    <2>5. ASSUME NEW i \in DOMAIN gathered'
          PROVE  OnItsWay(gathered[i])'
      <3>1. CASE i \in DOMAIN gathered
        <4>1. OnItsWay(gathered[i]) /\ gathered'[i] = gathered[i]
          BY <1>1, <1>4, <3>1 DEF BatchInv, RowsInv, Carried
        <4> QED
          BY <2>2, <4>1 DEF OnItsWay
      <3>2. CASE i = Len(gathered) + 1
        <4>1. OnItsWay(e) /\ gathered'[i] = e
          BY <1>1, <1>3, <1>4, <3>2 DEF BatchInv, RowsInv, Carried
        <4> QED
          BY <2>2, <4>1 DEF OnItsWay
      <3> QED
        BY <1>4, <3>1, <3>2
    <2>6. Carried(queue)' /\ Carried(gathered)'
      BY <2>4, <2>5 DEF Carried
    <2> QED
      BY <1>1, <2>3, <2>6 DEF RowsInv
  <1>11. PathInv'
    <2>1. \A d \in Calls : ~(Holds(queue, d)' /\ Holds(gathered, d)')
      BY <1>1, <1>6, <1>7 DEF BatchInv, PathInv
    <2>2. ASSUME NEW t \in Txs, t # flushTx, NEW i \in DOMAIN batch[t]
          PROVE  /\ pc[batch[t][i].createdAt] = "done"
                 /\ ~Holds(queue, batch[t][i].createdAt)'
                 /\ ~Holds(gathered, batch[t][i].createdAt)'
      <3>1. /\ pc[batch[t][i].createdAt] = "done"
            /\ ~Holds(queue, batch[t][i].createdAt)
            /\ ~Holds(gathered, batch[t][i].createdAt)
        BY <1>1, <2>2 DEF BatchInv, PathInv
      <3>2. batch'[t][i] = batch[t][i]
        BY <1>1
      <3> QED
        BY <1>6, <1>7, <3>1, <3>2
    <2> QED
      BY <1>1, <1>6, <1>7, <2>1, <2>2 DEF PathInv
  <1>12. StoreInv'
    <2>1. Fresh(queue) /\ Fresh(gathered)
      BY <1>1 DEF BatchInv, StoreInv, FlushInv, Fresh
    <2>2. Fresh(queue)'
      BY <1>1, <1>3, <2>1 DEF Fresh, NoneStored
    <2>3. NoneStored(e.call)
      BY <1>3, <2>1 DEF Fresh
    <2>4. Fresh(gathered)'
      BY <1>1, <1>4, <2>1, <2>3 DEF Fresh, NoneStored
    <2> QED
      BY <2>2, <2>4 DEF StoreInv
  <1>13. FlushInv'
    BY <1>1 DEF BatchInv, FlushInv
  <1> QED
    BY <1>1, <1>8, <1>9, <1>10, <1>11, <1>12, <1>13, BatcherStep DEF Inv, BatchInv

(* The goroutine goes from gathering to flushing, and back to waiting.     *)
LEMMA TurnKeepsInv ==
  ASSUME Inv,
         \/ loop = "gather" /\ loop' = "flush"
         \/ loop = "reply" /\ gathered = <<>> /\ loop' = "wait",
         UNCHANGED <<repoVars, svcVars, queue, closed, gathered, results, last, stage,
                     reply, flushTx>>
  PROVE  Inv'
  <1>1. /\ BatchInv
        /\ UNCHANGED <<short_urls, batch, errs, phase, pc, req, row>>
    BY DEF Inv, repoVars, svcVars
  <1>2. Settling /\ \A d \in Calls : CallerInv(d)'
    BY <1>1, CallersStay
  <1>3. RowsInv' /\ PathInv'
    BY <1>1, <1>2, SettlingRows DEF BatchInv
  <1>4. StoreInv' /\ FlushInv'
    BY <1>1 DEF BatchInv, StoreInv, FlushInv, Fresh, NoneStored
  <1>5. BatcherTypeOK(Row)' /\ Running'
    BY <1>1 DEF BatchInv, BatcherTypeOK, Running
  <1> QED
    BY <1>1, <1>2, <1>3, <1>4, <1>5, BatcherStep DEF Inv, BatchInv

(* A reply goes out: it is true, and when it sends its call round the loop *)
(* again no row of the call is left anywhere.                              *)
LEMMA SendReplyKeepsInv ==
  ASSUME Inv, SendReply, UNCHANGED <<repoVars, svcVars, flushTx>>
  PROVE  Inv'
  <1>1. /\ BatchInv /\ gathered \in Seq(Pending(Row)) /\ results \in Seq(Outcome)
        /\ Distinct(gathered) /\ loop = "reply" /\ gathered # <<>>
        /\ Len(results) = Len(gathered)
        /\ \A i \in DOMAIN gathered : Reported(results[i], gathered[i])
        /\ gathered' = Tail(gathered) /\ results' = Tail(results)
        /\ UNCHANGED <<short_urls, batch, errs, phase, pc, req, row, queue, closed, loop,
                       last, stage>>
        /\ flushTx = NoTx
    BY DEF Inv, BatchInv, BatcherTypeOK, PathInv, FlushInv, SendReply, repoVars, svcVars
  <1>2. PICK e \in Pending(Row) : e = Head(gathered)
    BY <1>1, TailItems
  <1>3. results # <<>>
    <2>1. Len(gathered) # 0
      BY <1>1
    <2> QED
      BY <1>1, <2>1
  <1>4. PICK o \in Outcome : o = Head(results)
    BY <1>1, <1>3, TailItems
  <1>5. /\ gathered' \in Seq(Pending(Row)) /\ Len(gathered') = Len(gathered) - 1
        /\ 1 \in DOMAIN gathered /\ gathered[1] = e
        /\ \A i \in DOMAIN gathered' : i + 1 \in DOMAIN gathered /\ gathered'[i] = gathered[i + 1]
    BY <1>1, <1>2, TailItems
  <1>6. /\ results' \in Seq(Outcome) /\ Len(results') = Len(results) - 1
        /\ results[1] = o
        /\ \A i \in DOMAIN results' : results'[i] = results[i + 1]
    BY <1>1, <1>3, <1>4, TailItems
  <1>7. /\ reply[e.call] = "empty" /\ reply'[e.call] = o /\ e.call \in Calls
        /\ \A d \in Calls : d # e.call => reply'[d] = reply[d]
        /\ reply' \in [Callers -> Outcome \cup {"empty"}]
    BY <1>1, <1>2, <1>4, CallersAssumption
       DEF SendReply, CanReply, BatchInv, BatcherTypeOK, Pending
  <1>8. OnItsWay(e) /\ Reported(o, e) /\ e.row = row[e.call]
    BY <1>1, <1>5, <1>6 DEF BatchInv, RowsInv, Carried, OnItsWay, Issued
  <1>9. /\ Holds(gathered, e.call) /\ ~Holds(queue, e.call)
        /\ Distinct(gathered)' /\ ~Holds(gathered, e.call)'
        /\ \A d : Holds(gathered, d)' => Holds(gathered, d)
        /\ \A d : Holds(queue, d)' <=> Holds(queue, d)
    <2>1. /\ Distinct(Tail(gathered)) /\ ~Holds(Tail(gathered), e.call)
          /\ \A d : Holds(Tail(gathered), d) => Holds(gathered, d)
          /\ Holds(gathered, e.call)
      BY <1>1, <1>2, TailCalls
    <2>2. ~Holds(queue, e.call)
      BY <1>1, <1>7, <2>1 DEF BatchInv, PathInv
    <2> QED
      BY <1>1, <2>1, <2>2 DEF Holds, Distinct
  <1>10. ASSUME NEW r, Issued(r), r.createdAt # e.call \/ o \notin {"duplicateCode", "duplicateKey"}
         PROVE  Issued(r)'
    <2>1. Settled(r.createdAt) /\ r.createdAt \in Calls
      BY <1>10 DEF Issued
    <2>2. Settled(r.createdAt)'
      BY <1>1, <1>7, <1>10, <2>1 DEF Settled
    <2> QED
      BY <1>1, <1>10, <2>2, IssuedStays
  <1>11. ASSUME NEW item, OnItsWay(item), item.call # e.call
         PROVE  OnItsWay(item)'
    <2>1. Issued(item.row)' /\ item.call \in Calls
      BY <1>10, <1>11 DEF OnItsWay, Issued
    <2>2. Awaiting(item.call)'
      BY <1>1, <1>7, <1>11, <2>1 DEF OnItsWay, Awaiting
    <2> QED
      BY <1>11, <2>1, <2>2 DEF OnItsWay
  <1>12. BatcherTypeOK(Row)' /\ Running'
    <2>1. Len(gathered') <= BatchSize
      BY <1>1, <1>5, BatchAssumption DEF BatchInv, BatcherTypeOK
    <2> QED
      BY <1>1, <1>5, <1>6, <1>7, <2>1 DEF BatchInv, BatcherTypeOK, Running
  <1>13. ASSUME NEW t \in Txs, NEW i \in DOMAIN batch[t]
         PROVE  /\ Issued(batch[t][i]) /\ batch[t][i].createdAt # e.call
                /\ pc[batch[t][i].createdAt] = "done"
                /\ ~Holds(queue, batch[t][i].createdAt)
                /\ ~Holds(gathered, batch[t][i].createdAt)
    BY <1>1, <1>9, <1>13, NoTxAssumption DEF BatchInv, PathInv, RowsInv
  <1>14. RowsInv'
    <2>1. ASSUME NEW r \in short_urls
          PROVE  Issued(r)'
      <3>1. Issued(r)
        BY <1>1 DEF BatchInv, RowsInv
      <3>2. r.createdAt # e.call \/ o \notin {"duplicateCode", "duplicateKey"}
        BY <1>8 DEF Reported, NoneStored
      <3> QED
        BY <1>10, <3>1, <3>2
    <2>2. \A t \in Txs : \A i \in DOMAIN batch'[t] : Issued(batch[t][i])'
      BY <1>1, <1>10, <1>13
    <2>3. ASSUME NEW i \in DOMAIN queue
          PROVE  OnItsWay(queue[i])'
      <3>1. OnItsWay(queue[i]) /\ queue[i].call # e.call /\ queue' = queue
        BY <1>1, <1>9 DEF BatchInv, RowsInv, Carried, Holds
      <3> QED
        BY <1>11, <3>1 DEF OnItsWay
    <2>4. ASSUME NEW i \in DOMAIN gathered'
          PROVE  OnItsWay(gathered[i])'
      <3>1. OnItsWay(gathered[i + 1]) /\ gathered'[i] = gathered[i + 1]
        BY <1>1, <1>5, <2>4 DEF BatchInv, RowsInv, Carried
      <3>2. gathered[i + 1].call # e.call
        BY <1>9, <2>4, <3>1 DEF Holds
      <3> QED
        BY <1>11, <3>1, <3>2 DEF OnItsWay
    <2>5. Carried(queue)' /\ Carried(gathered)'
      BY <1>1, <2>3, <2>4 DEF Carried
    <2> QED
      BY <1>1, <2>1, <2>2, <2>5 DEF RowsInv
  <1>15. PathInv'
    <2>1. Distinct(queue)' /\ \A d \in Calls : ~(Holds(queue, d)' /\ Holds(gathered, d)')
      BY <1>1, <1>9 DEF BatchInv, PathInv, Distinct
    <2>2. ASSUME NEW t \in Txs, NEW i \in DOMAIN batch[t]
          PROVE  /\ pc[batch[t][i].createdAt] = "done"
                 /\ ~Holds(queue, batch[t][i].createdAt)'
                 /\ ~Holds(gathered, batch[t][i].createdAt)'
      <3>1. batch'[t][i] = batch[t][i]
        BY <1>1
      <3> QED
        BY <1>9, <1>13, <2>2, <3>1
    <2> QED
      BY <1>1, <1>9, <2>1, <2>2 DEF PathInv
  <1>16. StoreInv'
    BY <1>1 DEF BatchInv, StoreInv, Fresh, NoneStored
  <1>17. FlushInv'
    <2>1. Len(results') = Len(gathered')
      BY <1>1, <1>5, <1>6
    <2>2. ASSUME NEW i \in DOMAIN gathered'
          PROVE  Reported(results[i], gathered[i])'
      <3>1. i \in DOMAIN results'
        BY <1>5, <1>6, <2>1
      <3>2. /\ gathered'[i] = gathered[i + 1] /\ results'[i] = results[i + 1]
            /\ Reported(results[i + 1], gathered[i + 1])
        BY <1>1, <1>5, <1>6, <2>2, <3>1
      <3> QED
        BY <1>1, <3>2 DEF Reported, NoneStored, SameKey
    <2> QED
      BY <1>1, <2>1, <2>2 DEF FlushInv
  <1>18. ASSUME NEW d \in Calls
         PROVE  CallerInv(d)'
    <2>1. CASE d # e.call
      BY <1>1, <1>7, <2>1, CallerStays DEF Inv
    <2>2. CASE d = e.call
      <3>1. /\ pc[d] = "insert" <=> stage[d] # "out"
            /\ pc[d] = "insert" => BuiltBy(d, row[d])
            /\ stage[d] # "sending"
        BY <1>7, <1>8, <2>2 DEF Inv, CallerInv, OnItsWay, Awaiting
      <3>2. BuiltBy(d, row[d])' <=> BuiltBy(d, row[d])
        BY <1>1 DEF BuiltBy, NewRow
      <3>3. /\ reply'[d] = "ok" => row[d] \in short_urls
            /\ reply'[d] = "duplicateKey" => \E s \in short_urls : SameKey(row[d], s)
        BY <1>7, <1>8, <2>2 DEF Reported
      <3> QED
        BY <1>1, <3>1, <3>2, <3>3 DEF CallerInv, SameKey
    <2> QED
      BY <2>1, <2>2
  <1> QED
    BY <1>1, <1>12, <1>14, <1>15, <1>16, <1>17, <1>18, BatcherStep DEF Inv, BatchInv

----------------------------------------------------------------------------
(* The batch and its transaction.                                          *)

(* The rows of a batch, by its items.                                      *)
LEMMA RowsOfItems ==
  ASSUME gathered \in Seq(Pending(Row))
  PROVE  /\ Rows \in Seq(Row) /\ DOMAIN Rows = DOMAIN gathered /\ Len(Rows) = Len(gathered)
         /\ \A i \in DOMAIN gathered : Rows[i] = gathered[i].row
  <1>1. DOMAIN gathered = 1..Len(gathered) /\ Len(gathered) \in Nat
    OBVIOUS
  <1>2. \A i \in DOMAIN gathered : gathered[i].row \in Row
    <2>1. \A i \in DOMAIN gathered : gathered[i] \in Pending(Row)
      BY <1>1
    <2> QED
      BY <2>1 DEF Pending
  <1> QED
    BY <1>1, <1>2 DEF Rows

(* InsertBatch starts with the rows of the batch.                          *)
LEMMA FlushBeginsKeepsInv ==
  ASSUME Inv, FlushBegins
  PROVE  Inv'
  <1>1. PICK t \in Txs : Begin(t, Rows) /\ flushTx' = t
    BY DEF FlushBegins
  <1>2. /\ RepoInv /\ BatchInv /\ gathered \in Seq(Pending(Row)) /\ flushTx = NoTx
        /\ loop = "flush" /\ loop' = "insert"
        /\ UNCHANGED <<short_urls, errs, pc, req, row, queue, closed, gathered, results, last,
                       stage, reply, svcVars>>
    BY <1>1 DEF Inv, BatchInv, BatcherTypeOK, FlushInv, FlushBegins, CallInsertBatch, Begin, svcVars
  <1>3. /\ Rows \in Seq(Row) /\ DOMAIN Rows = DOMAIN gathered
        /\ \A i \in DOMAIN gathered : Rows[i] = gathered[i].row
    BY <1>2, RowsOfItems
  <1>4. RepoInv'
    <2>1. PICK rows \in Seq(Row) : rows = Rows
      BY <1>3
    <2> QED
      BY <1>1, <1>2, <2>1, BeginKeepsInv
  <1>5. /\ phase'[t] = "insert" /\ batch'[t] = Rows
        /\ \A u \in Txs : u # t => phase'[u] = phase[u] /\ batch'[u] = batch[u]
    BY <1>1, <1>2 DEF Begin, RepoInv, RepoTypeOK
  <1>6. Settling /\ \A d \in Calls : CallerInv(d)'
    BY <1>2, CallersStay
  <1>7. RowsInv'
    <2>1. \A r : Issued(r) => Issued(r)'
      BY <1>6, SettlingKeeps
    <2>2. \A i : OnItsWay(i) => OnItsWay(i)'
      BY <1>6, SettlingItems
    <2>3. /\ \A r \in short_urls' : Issued(r)'
          /\ Carried(queue)' /\ Carried(gathered)'
      BY <1>2, <2>1, <2>2 DEF BatchInv, RowsInv, Carried
    <2>4. ASSUME NEW u \in Txs, NEW i \in DOMAIN batch'[u]
          PROVE  Issued(batch[u][i])'
      <3>1. CASE u = t
        <4>1. batch'[u][i] = gathered[i].row /\ Issued(gathered[i].row)
          BY <1>2, <1>3, <1>5, <2>4, <3>1 DEF BatchInv, RowsInv, Carried, OnItsWay
        <4> QED
          BY <2>1, <4>1 DEF Issued
      <3>2. CASE u # t
        <4>1. batch'[u][i] = batch[u][i] /\ Issued(batch[u][i])
          BY <1>2, <1>5, <2>4, <3>2 DEF BatchInv, RowsInv
        <4> QED
          BY <2>1, <4>1 DEF Issued
      <3> QED
        BY <3>1, <3>2
    <2> QED
      BY <2>3, <2>4 DEF RowsInv
  <1>8. PathInv'
    <2>1. /\ Distinct(queue)' /\ Distinct(gathered)'
          /\ \A c : (Holds(queue, c)' <=> Holds(queue, c)) /\ (Holds(gathered, c)' <=> Holds(gathered, c))
      BY <1>2 DEF BatchInv, PathInv, Distinct, Holds
    <2>2. ASSUME NEW u \in Txs, u # t, NEW i \in DOMAIN batch[u]
          PROVE  /\ batch'[u] = batch[u]
                 /\ pc[batch[u][i].createdAt] = "done"
                 /\ ~Holds(queue, batch[u][i].createdAt)
                 /\ ~Holds(gathered, batch[u][i].createdAt)
      BY <1>2, <1>5, <2>2, NoTxAssumption DEF BatchInv, PathInv
    <2> QED
      BY <1>1, <1>2, <1>5, <2>1, <2>2 DEF BatchInv, PathInv
  <1>9. StoreInv'
    BY <1>1, <1>2, <1>5 DEF BatchInv, StoreInv, Fresh, NoneStored
  <1>10. FlushInv'
    <2>1. Rows' = Rows
      BY <1>2 DEF Rows
    <2> QED
      BY <1>1, <1>2, <1>5, <2>1, NoTxAssumption DEF FlushInv
  <1>11. BatcherTypeOK(Row)' /\ Running' /\ flushTx' \in Txs
    BY <1>1, <1>2 DEF BatchInv, BatcherTypeOK, Running
  <1>12. ServiceTypeOK' /\ \A d \in Calls : Answering(d)'
    BY <1>2, AnsweringFrame DEF Inv, svcVars, ServiceTypeOK
  <1> QED
    BY <1>4, <1>6, <1>7, <1>8, <1>9, <1>10, <1>11, <1>12 DEF Inv, BatchInv

(* A transaction that ends takes its rows away from the batches.           *)
LEMMA EndRows ==
  ASSUME Inv, NEW t \in Txs, End(t), Settling, UNCHANGED <<svcVars, queue, gathered>>,
         \A u \in Txs : u # t /\ u # flushTx' => u # flushTx
  PROVE  RowsInv' /\ PathInv'
  <1>1. /\ BatchInv /\ short_urls' = short_urls /\ batch'[t] = <<>> /\ pc' = pc
        /\ \A u \in Txs : u # t => batch'[u] = batch[u]
    BY DEF Inv, RepoInv, RepoTypeOK, End, svcVars
  <1>2. RowsInv'
    <2>1. \A r : Issued(r) => Issued(r)'
      BY SettlingKeeps
    <2>2. \A i : OnItsWay(i) => OnItsWay(i)'
      BY SettlingItems
    <2>3. /\ \A r \in short_urls' : Issued(r)'
          /\ Carried(queue)' /\ Carried(gathered)'
      BY <1>1, <2>1, <2>2 DEF BatchInv, RowsInv, Carried
    <2>4. ASSUME NEW u \in Txs, NEW i \in DOMAIN batch'[u]
          PROVE  Issued(batch[u][i])'
      <3>1. batch'[u][i] = batch[u][i] /\ Issued(batch[u][i])
        BY <1>1, <2>4 DEF BatchInv, RowsInv
      <3> QED
        BY <2>1, <3>1 DEF Issued
    <2> QED
      BY <2>3, <2>4 DEF RowsInv
  <1>3. PathInv'
    <2>1. /\ Distinct(queue)' /\ Distinct(gathered)'
          /\ \A c : (Holds(queue, c)' <=> Holds(queue, c)) /\ (Holds(gathered, c)' <=> Holds(gathered, c))
      BY <1>1 DEF BatchInv, PathInv, Distinct, Holds
    <2>2. ASSUME NEW u \in Txs, u # flushTx', NEW i \in DOMAIN batch'[u]
          PROVE  /\ batch'[u] = batch[u]
                 /\ pc[batch[u][i].createdAt] = "done"
                 /\ ~Holds(queue, batch[u][i].createdAt)
                 /\ ~Holds(gathered, batch[u][i].createdAt)
      <3>1. u # t /\ batch'[u] = batch[u]
        BY <1>1, <2>2
      <3>2. u # flushTx
        BY <2>2, <3>1
      <3> QED
        BY <1>1, <2>2, <3>1, <3>2 DEF BatchInv, PathInv
    <2> QED
      BY <1>1, <2>1, <2>2 DEF BatchInv, PathInv
  <1> QED
    BY <1>2, <1>3

(* What InsertBatch says of each row is true.                              *)
LEMMA FlushReturnsKeepsInv ==
  ASSUME Inv, FlushReturns
  PROVE  Inv'
  <1>1. PICK t \in Txs : t = flushTx
    BY DEF Inv, BatchInv, FlushReturns
  <1>2. /\ RepoInv /\ BatchInv /\ gathered \in Seq(Pending(Row)) /\ End(t)
        /\ loop = "insert" /\ loop' = "reply" /\ flushTx' = NoTx /\ batch[t] = Rows
        /\ results' = IF phase[t] = "failed" THEN AllFailed ELSE errs[t]
        /\ phase[t] \in {"returned", "failed"}
        /\ UNCHANGED <<short_urls, pc, req, row, queue, closed, gathered, last,
                       stage, reply, svcVars>>
    BY <1>1
       DEF Inv, BatchInv, BatcherTypeOK, FlushInv, FlushReturns, InsertBatchReturns, End, svcVars
  <1>3. /\ DOMAIN Rows = DOMAIN gathered /\ Len(Rows) = Len(gathered)
        /\ \A i \in DOMAIN gathered : Rows[i] = gathered[i].row
    BY <1>2, RowsOfItems
  <1>4. Settling /\ \A d \in Calls : CallerInv(d)'
    BY <1>2, CallersStay
  <1>5. RowsInv' /\ PathInv'
    BY <1>1, <1>2, <1>4, EndRows
  <1>6. RepoInv'
    BY <1>2, EndKeepsInv
  <1>7. StoreInv'
    BY <1>2 DEF BatchInv, StoreInv, Fresh, NoneStored
  <1>8. CASE phase[t] = "failed"
    <2>1. /\ AllFailed \in Seq(Outcome) /\ Len(AllFailed) = Len(gathered)
          /\ \A i \in DOMAIN gathered : AllFailed[i] = "error"
      <3>1. DOMAIN gathered = 1..Len(gathered) /\ Len(gathered) \in Nat
        BY <1>2
      <3> QED
        BY <3>1 DEF AllFailed, Outcome
    <2>2. FlushInv'
      BY <1>2, <1>8, <2>1 DEF FlushInv, Reported
    <2>3. BatcherTypeOK(Row)' /\ Running'
      BY <1>2, <1>8, <2>1 DEF BatchInv, BatcherTypeOK, Running
    <2>4. ServiceTypeOK' /\ \A d \in Calls : Answering(d)'
      BY <1>2, AnsweringFrame DEF Inv, svcVars, ServiceTypeOK
    <2> QED
      BY <1>2, <1>4, <1>5, <1>6, <1>7, <2>2, <2>3, <2>4 DEF Inv, BatchInv
  <1>9. CASE phase[t] = "returned"
    <2>1. errs[t] \in Seq(RowOutcome) /\ Len(errs[t]) = Len(gathered)
      BY <1>2, <1>3, <1>9 DEF RepoInv, RepoTypeOK, BatchShape
    <2>2. DOMAIN errs[t] = DOMAIN gathered /\ errs[t] \in Seq(Outcome)
      BY <1>2, <2>1 DEF RowOutcome, Outcome
    <2>3. ASSUME NEW i \in DOMAIN gathered
          PROVE  Reported(errs[t][i], gathered[i])
      <3>1. batch[t][i] = gathered[i].row
        BY <1>2, <1>3
      <3>2. Inserted(t) \subseteq short_urls
        BY <1>2, <1>9 DEF RepoInv, OutcomesTrue
      <3>3. errs[t][i] = "ok" => gathered[i].row \in short_urls
        BY <2>2, <3>1, <3>2 DEF Inserted
      <3>4. errs[t][i] # "ok" => NoneStored(gathered[i].call)
        BY <1>1, <1>2, <1>9 DEF BatchInv, StoreInv
      <3>5. errs[t][i] = "duplicateKey" => \E s \in short_urls : SameKey(gathered[i].row, s)
        BY <1>2, <1>9, <2>2, <3>1, <3>2 DEF RepoInv, OutcomesTrue, Visible
      <3> QED
        BY <3>3, <3>4, <3>5 DEF Reported
    <2>4. FlushInv'
      <3>1. results' = errs[t] /\ gathered' = gathered /\ short_urls' = short_urls
        BY <1>2, <1>9
      <3>2. \A i \in DOMAIN gathered' : Reported(results[i], gathered[i])'
        BY <2>3, <3>1 DEF Reported, NoneStored, SameKey
      <3> QED
        BY <1>2, <2>1, <3>1, <3>2 DEF FlushInv
    <2>5. BatcherTypeOK(Row)' /\ Running'
      BY <1>2, <1>9, <2>2 DEF BatchInv, BatcherTypeOK, Running
    <2>6. ServiceTypeOK' /\ \A d \in Calls : Answering(d)'
      BY <1>2, AnsweringFrame DEF Inv, svcVars, ServiceTypeOK
    <2> QED
      BY <1>2, <1>4, <1>5, <1>6, <1>7, <2>4, <2>5, <2>6 DEF Inv, BatchInv
  <1> QED
    BY <1>2, <1>8, <1>9

(* The transaction of a dead process is forgotten.                         *)
LEMMA ForgetKeepsInv ==
  ASSUME Inv, NEW t \in Txs, Forget(t)
  PROVE  Inv'
  <1>1. /\ RepoInv /\ BatchInv /\ End(t) /\ t # flushTx
        /\ UNCHANGED <<short_urls, queue, gathered, results, loop, last, closed, stage, reply,
                       flushTx, svcVars>>
        /\ \A u \in Txs : u # t =>
             phase'[u] = phase[u] /\ batch'[u] = batch[u] /\ errs'[u] = errs[u]
    BY DEF Inv, Forget, End, RepoInv, RepoTypeOK, batcherVars, loopVars
  <1>2. Settling /\ \A d \in Calls : CallerInv(d)'
    BY <1>1, CallersStay
  <1>3. RowsInv' /\ PathInv' /\ RepoInv'
    <2>1. /\ End(t) /\ UNCHANGED <<svcVars, queue, gathered>>
          /\ \A u \in Txs : u # t /\ u # flushTx' => u # flushTx
      BY <1>1
    <2>2. RowsInv' /\ PathInv'
      BY <1>2, <2>1, EndRows
    <2> QED
      BY <1>1, <2>2, EndKeepsInv
  <1>4. loop = "insert" =>
          phase'[flushTx] = phase[flushTx] /\ batch'[flushTx] = batch[flushTx]
          /\ errs'[flushTx] = errs[flushTx]
    BY <1>1 DEF BatchInv, FlushInv
  <1>5. StoreInv'
    BY <1>1, <1>4 DEF BatchInv, StoreInv, Fresh, NoneStored, Open
  <1>6. FlushInv'
    BY <1>1, <1>4 DEF BatchInv, FlushInv, Rows, Reported, NoneStored, SameKey
  <1>7. BatcherTypeOK(Row)' /\ Running'
    BY <1>1 DEF BatchInv, BatcherTypeOK, Running
  <1>8. ServiceTypeOK' /\ \A d \in Calls : Answering(d)'
    BY <1>1, AnsweringFrame DEF Inv, svcVars, ServiceTypeOK
  <1> QED
    BY <1>1, <1>2, <1>3, <1>5, <1>6, <1>7, <1>8 DEF Inv, BatchInv

(* What a statement of a transaction does, seen from outside.              *)
LEMMA RepoEffects ==
  ASSUME RepoInv, NEW t \in Txs, RepoProgress(t) \/ RepoFault(t)
  PROVE  /\ Open(t) /\ phase'[t] # "closed" /\ batch' = batch
         /\ \A u \in Txs : u # t => phase'[u] = phase[u] /\ errs'[u] = errs[u]
         /\ short_urls \subseteq short_urls'
         /\ short_urls' \subseteq short_urls \cup Inserted(t)
         /\ Open(t)' => short_urls' = short_urls
         /\ phase'[t] = "returned" => errs' = errs
  <1> USE DEF RepoInv, RepoTypeOK, Open
  <1>1. CASE InsertRow(t) \/ SkipRow(t) \/ CodeTaken(t)
    BY <1>1 DEF InsertRow, SkipRow, CodeTaken
  <1>2. CASE NothingInserted(t) \/ ClearOutbox(t)
    BY <1>2 DEF NothingInserted, ClearOutbox
  <1>3. CASE Commit(t) \/ CommitLost(t)
    BY <1>3 DEF Commit, CommitLost, Committed
  <1>4. CASE Fail(t)
    BY <1>4 DEF Fail
  <1> QED
    BY <1>1, <1>2, <1>3, <1>4 DEF RepoProgress, RepoFault

(* A commit stores no row but those of its batch whose outcome is ok: none *)
(* that waits in the channel, and none of the batch if a dead process      *)
(* sent it.                                                                *)
LEMMA RepoKeepsInv ==
  ASSUME Inv, NEW t \in Txs, Repo(t)
  PROVE  Inv'
  <1>1. /\ RepoInv /\ BatchInv /\ gathered \in Seq(Pending(Row))
        /\ RepoProgress(t) \/ RepoFault(t)
        /\ UNCHANGED <<pc, req, row, queue, closed, gathered, results, loop, last,
                       stage, reply, flushTx, svcVars>>
    BY DEF Inv, BatchInv, BatcherTypeOK, Repo, svcVars, batcherVars, loopVars
  <1>2. /\ Open(t) /\ phase'[t] # "closed" /\ batch' = batch
        /\ \A u \in Txs : u # t => phase'[u] = phase[u] /\ errs'[u] = errs[u]
        /\ short_urls \subseteq short_urls'
        /\ short_urls' \subseteq short_urls \cup Inserted(t)
        /\ Open(t)' => short_urls' = short_urls
        /\ phase'[t] = "returned" => errs' = errs
    BY <1>1, RepoEffects
  <1>3. RepoInv'
    BY <1>1, RepoStepKeepsInv
  <1>4. Settling /\ \A d \in Calls : CallerInv(d)'
    BY <1>1, <1>2, CallersStay
  <1>5. \A s \in Inserted(t) : \E j \in DOMAIN errs[t] :
          j \in DOMAIN batch[t] /\ s = batch[t][j] /\ errs[t][j] = "ok"
    <2>1. DOMAIN errs[t] \subseteq DOMAIN batch[t]
      <3>1. /\ errs[t] \in Seq(RowOutcome) /\ batch[t] \in Seq(Row)
            /\ Len(errs[t]) <= Len(batch[t])
        BY <1>1 DEF RepoInv, RepoTypeOK, BatchShape
      <3> QED
        BY <3>1
    <2> QED
      BY <2>1 DEF Inserted
  <1>6. RowsInv'
    <2>1. \A r : Issued(r) => Issued(r)'
      BY <1>4, SettlingKeeps
    <2>2. \A i : OnItsWay(i) => OnItsWay(i)'
      BY <1>4, SettlingItems
    <2>3. \A r \in short_urls' : Issued(r)
      BY <1>1, <1>2, <1>5 DEF BatchInv, RowsInv
    <2>4. \A u \in Txs : \A i \in DOMAIN batch'[u] : Issued(batch[u][i])'
      BY <1>1, <1>2, <2>1 DEF BatchInv, RowsInv
    <2>5. Carried(queue)' /\ Carried(gathered)'
      BY <1>1, <2>2 DEF BatchInv, RowsInv, Carried
    <2> QED
      BY <2>1, <2>3, <2>4, <2>5 DEF RowsInv
  <1>7. PathInv'
    BY <1>1, <1>2 DEF BatchInv, PathInv, Distinct, Holds
  <1>8. t = flushTx => loop = "insert" /\ batch[t] = Rows
    BY <1>1, NoTxAssumption DEF BatchInv, FlushInv
  <1>9. /\ DOMAIN Rows = DOMAIN gathered
        /\ \A i \in DOMAIN gathered :
             Rows[i] = gathered[i].row /\ gathered[i].row.createdAt = gathered[i].call
             /\ gathered[i].call \in Calls
    <2>1. DOMAIN Rows = DOMAIN gathered /\ \A i \in DOMAIN gathered : Rows[i] = gathered[i].row
      BY <1>1, RowsOfItems
    <2>2. \A i \in DOMAIN gathered : OnItsWay(gathered[i])
      BY <1>1 DEF BatchInv, RowsInv, Carried
    <2> QED
      BY <2>1, <2>2 DEF OnItsWay, Issued
  <1>10. ASSUME NEW c \in Calls, NoneStored(c),
                \/ Holds(queue, c)
                \/ Holds(gathered, c) /\ t # flushTx
         PROVE  NoneStored(c)'
    <2>1. ASSUME NEW j \in DOMAIN batch[t]
          PROVE  batch[t][j].createdAt # c
      <3>1. CASE t = flushTx
        <4>1. Holds(queue, c) /\ ~Holds(gathered, c)
          BY <1>1, <1>10, <3>1 DEF BatchInv, PathInv
        <4>2. j \in DOMAIN gathered /\ batch[t][j].createdAt = gathered[j].call
          BY <1>8, <1>9, <2>1, <3>1
        <4> QED
          BY <4>1, <4>2 DEF Holds
      <3>2. CASE t # flushTx
        BY <1>1, <1>10, <2>1, <3>2 DEF BatchInv, PathInv
      <3> QED
        BY <3>1, <3>2
    <2>2. \A s \in Inserted(t) : s.createdAt # c
      BY <1>5, <2>1
    <2> QED
      BY <1>2, <1>10, <2>2 DEF NoneStored
  <1>11. /\ \A i \in DOMAIN queue : queue[i].call \in Calls /\ Holds(queue, queue[i].call)
         /\ \A i \in DOMAIN gathered : Holds(gathered, gathered[i].call)
    <2>1. \A i \in DOMAIN queue : OnItsWay(queue[i])
      BY <1>1 DEF BatchInv, RowsInv, Carried
    <2> QED
      BY <2>1 DEF OnItsWay, Issued, Holds
  <1>12. StoreInv'
    <2>1. Fresh(queue)'
      <3>1. \A i \in DOMAIN queue : NoneStored(queue[i].call)'
        BY <1>1, <1>10, <1>11 DEF BatchInv, StoreInv, Fresh
      <3> QED
        BY <1>1, <3>1 DEF Fresh, NoneStored
    <2>2. ASSUME Fresh(gathered), t # flushTx
          PROVE  Fresh(gathered)'
      <3>1. \A i \in DOMAIN gathered : NoneStored(gathered[i].call)'
        BY <1>1, <1>9, <1>10, <1>11, <2>2 DEF Fresh
      <3> QED
        BY <1>1, <3>1 DEF Fresh, NoneStored
    <2>3. loop \in {"gather", "flush"} => Fresh(gathered)'
      BY <1>1, <1>8, <2>2 DEF BatchInv, StoreInv
    <2>4. loop = "insert" => flushTx \in Txs
      BY <1>1 DEF BatchInv, FlushInv
    <2>5. loop = "insert" /\ Open(flushTx)' => Fresh(gathered)'
      <3>1. CASE t = flushTx
        <4>1. ASSUME loop = "insert", Open(flushTx)'
              PROVE  Fresh(gathered)'
          <5>1. Fresh(gathered) /\ short_urls' = short_urls
            BY <1>1, <1>2, <3>1, <4>1 DEF BatchInv, StoreInv, Open
          <5> QED
            BY <1>1, <5>1 DEF Fresh, NoneStored
        <4> QED
          BY <4>1
      <3>2. CASE t # flushTx
        BY <1>1, <1>2, <2>2, <2>4, <3>2 DEF BatchInv, StoreInv, Open
      <3> QED
        BY <3>1, <3>2
    <2>6. ASSUME loop = "insert", phase'[flushTx] = "returned", NEW i \in DOMAIN gathered,
                 errs'[flushTx][i] # "ok"
          PROVE  NoneStored(gathered[i].call)'
      <3>1. CASE t = flushTx
        <4>1. NoneStored(gathered[i].call) /\ errs'[t] = errs[t]
          BY <1>1, <1>2, <2>6, <3>1 DEF BatchInv, StoreInv, Fresh
        <4>2. ASSUME NEW j \in DOMAIN errs[t], j \in DOMAIN batch[t], errs[t][j] = "ok"
              PROVE  batch[t][j].createdAt # gathered[i].call
          <5>1. j \in DOMAIN gathered /\ batch[t][j].createdAt = gathered[j].call
            BY <1>8, <1>9, <3>1, <4>2
          <5>2. i # j
            BY <2>6, <3>1, <4>1, <4>2
          <5> QED
            BY <1>1, <5>1, <5>2 DEF BatchInv, PathInv, Distinct
        <4>3. \A s \in Inserted(t) : s.createdAt # gathered[i].call
          BY <1>5, <4>2
        <4> QED
          BY <1>1, <1>2, <4>1, <4>3 DEF NoneStored
      <3>2. CASE t # flushTx
        <4>1. NoneStored(gathered[i].call)
          BY <1>1, <1>2, <2>4, <2>6, <3>2 DEF BatchInv, StoreInv
        <4>2. NoneStored(gathered[i].call)'
          BY <1>1, <1>9, <1>10, <1>11, <3>2, <4>1
        <4> QED
          BY <4>2
      <3> QED
        BY <3>1, <3>2
    <2>7. loop = "insert" /\ phase'[flushTx] = "returned" =>
            \A i \in DOMAIN gathered' :
              errs'[flushTx][i] # "ok" => NoneStored(gathered[i].call)'
      BY <1>1, <2>6
    <2> QED
      BY <1>1, <2>1, <2>3, <2>5, <2>7 DEF StoreInv
  <1>13. FlushInv'
    <2>1. loop = "insert" => phase'[flushTx] # "closed" /\ batch'[flushTx] = Rows'
      <3>1. Rows' = Rows
        BY <1>1 DEF Rows
      <3> QED
        BY <1>1, <1>2, <3>1 DEF BatchInv, FlushInv
    <2>2. ASSUME loop = "reply", NEW i \in DOMAIN gathered
          PROVE  Reported(results[i], gathered[i])'
      <3>1. Reported(results[i], gathered[i]) /\ t # flushTx
        BY <1>1, <1>8, <2>2 DEF BatchInv, FlushInv
      <3>2. NoneStored(gathered[i].call) => NoneStored(gathered[i].call)'
        BY <1>1, <1>9, <1>10, <1>11, <3>1
      <3>3. results'[i] = results[i] /\ gathered'[i] = gathered[i]
        BY <1>1
      <3>4. results[i] \in {"duplicateCode", "duplicateKey"} => NoneStored(gathered[i].call)'
        BY <3>1, <3>2 DEF Reported
      <3>5. results[i] = "ok" => gathered[i].row \in short_urls'
        BY <1>2, <3>1 DEF Reported
      <3>6. results[i] = "duplicateKey" => \E s \in short_urls' : SameKey(gathered[i].row, s)
        BY <1>2, <3>1 DEF Reported
      <3> QED
        BY <3>3, <3>4, <3>5, <3>6 DEF Reported, SameKey
    <2> QED
      BY <1>1, <2>1, <2>2 DEF BatchInv, FlushInv
  <1>14. BatcherTypeOK(Row)' /\ Running'
    BY <1>1 DEF BatchInv, BatcherTypeOK, Running
  <1>15. ServiceTypeOK' /\ \A d \in Calls : Answering(d)'
    BY <1>1, <1>2, AnsweringFrame DEF Inv, svcVars, ServiceTypeOK
  <1> QED
    BY <1>1, <1>3, <1>4, <1>6, <1>7, <1>12, <1>13, <1>14, <1>15 DEF Inv, BatchInv

(* The process dies: rows stay where Postgres has them, and no call of     *)
(* theirs comes back.                                                      *)
LEMMA CrashKeepsInv ==
  ASSUME Inv, Crash
  PROVE  Inv'
  <1>1. /\ RepoInv /\ ServiceTypeOK /\ BatchInv /\ LoseCalls /\ DropConnections
        /\ \A d \in Calls : Answering(d) /\ CallerInv(d)
        /\ UNCHANGED <<short_urls, batch, errs, req, row, closed, last>>
        /\ queue' = <<>> /\ gathered' = <<>> /\ results' = <<>> /\ loop' = "wait"
        /\ \A d \in Calls : stage'[d] = "out" /\ reply'[d] = "empty"
        /\ flushTx' = NoTx
    BY DEF Inv, Crash, LoseCalls, DropConnections
  <1>2. \A d \in Calls : Answering(d)' /\ pc'[d] = IF pc[d] = "idle" THEN "idle" ELSE "done"
    BY <1>1, LoseCallsAnswering
  <1>3. RepoInv' /\ ServiceTypeOK'
    <2>1. PICK c \in Calls : TRUE
      BY DEF Crash
    <2>2. DropConnections => RepoInv'
      <3>1. CASE Txs = {}
        BY <1>1, <3>1 DEF RepoInv, RepoTypeOK, BatchShape, UniqueRows, Isolated, OutcomesTrue,
           EventPerRow, OutboxCleared, DropConnections, Conflicts, SameCode, SameKey
      <3>2. ASSUME NEW t \in Txs
            PROVE  DropConnections => RepoInv'
        BY <1>1, RepoStepKeepsInv
      <3> QED
        BY <3>1, <3>2
    <2> QED
      BY <1>1, <2>2, LoseCallsType
  <1>4. ASSUME NEW r, Issued(r)
        PROVE  Issued(r)' /\ pc'[r.createdAt] = "done"
    <2>1. r.createdAt \in Calls /\ pc[r.createdAt] # "idle"
      BY <1>1, <1>4 DEF Issued, Settled, CallerInv
    <2>2. pc'[r.createdAt] = "done"
      BY <1>2, <2>1
    <2>3. Settled(r.createdAt)'
      BY <2>2 DEF Settled
    <2> QED
      BY <1>1, <1>4, <2>2, <2>3, IssuedStays
  <1>5. RowsInv'
    BY <1>1, <1>4 DEF BatchInv, RowsInv, Carried
  <1>6. PathInv'
    <2>1. ASSUME NEW t \in Txs, NEW i \in DOMAIN batch[t]
          PROVE  pc'[batch[t][i].createdAt] = "done"
      BY <1>1, <1>4 DEF BatchInv, RowsInv
    <2> QED
      BY <1>1, <2>1 DEF PathInv, Distinct, Holds
  <1>7. StoreInv' /\ FlushInv'
    BY <1>1 DEF StoreInv, FlushInv, Fresh
  <1>8. BatcherTypeOK(Row)' /\ Running'
    <2>1. /\ queue' \in Seq(Pending(Row)) /\ Len(queue') <= QueueCap
          /\ gathered' \in Seq(Pending(Row)) /\ Len(gathered') <= BatchSize
          /\ results' \in Seq(Outcome)
      BY <1>1, BatchAssumption
    <2>2. /\ stage' \in [Callers -> {"out", "sending", "waiting"}]
          /\ reply' \in [Callers -> Outcome \cup {"empty"}]
      BY CallersAssumption DEF Crash
    <2> QED
      BY <1>1, <2>1, <2>2 DEF BatchInv, BatcherTypeOK, Running
  <1>9. \A d \in Calls : CallerInv(d)'
    BY <1>1, <1>2 DEF CallerInv
  <1> QED
    BY <1>1, <1>2, <1>3, <1>5, <1>6, <1>7, <1>8, <1>9 DEF Inv, BatchInv

----------------------------------------------------------------------------
(* The steps of a handler and of the goroutine, by what they do.           *)
LEMMA NextKeepsInv ==
  ASSUME Inv, [Next]_vars
  PROVE  Inv'
  <1>1. ASSUME NEW c \in Calls, Between(c), Elsewhere
        PROVE  Inv'
    BY <1>1, BetweenKeepsInv
  <1>2. ASSUME NEW c \in Calls, CallInsert(c) \/ SendRow(c)
        PROVE  Inv'
    BY <1>2, CallInsertKeepsInv, SendRowKeepsInv
  <1>3. ASSUME NEW c \in Calls, ReturnInsert(c)
        PROVE  Inv'
    <2> DEFINE err == reply[c]
    <2>1. /\ InsertReturns(c, err) /\ stage[c] \in {"sending", "waiting"}
          /\ stage' = [stage EXCEPT ![c] = "out"]
          /\ reply' \in {reply, [reply EXCEPT ![c] = "empty"]}
          /\ UNCHANGED <<repoVars, queue, closed, loopVars, flushTx>>
          /\ err = "error" \/ (stage[c] = "waiting" /\ err = reply[c])
      BY <1>3 DEF ReturnInsert, Receive
    <2> HIDE DEF err
    <2> QED
      BY <2>1, LeaveKeepsInv
  <1>4. ASSUME NEW c \in Calls, CancelInsert(c)
        PROVE  Inv'
    <2>1. /\ InsertReturns(c, "error") /\ stage[c] \in {"sending", "waiting"}
          /\ stage' = [stage EXCEPT ![c] = "out"]
          /\ reply' \in {reply, [reply EXCEPT ![c] = "empty"]}
          /\ UNCHANGED <<repoVars, queue, closed, loopVars, flushTx>>
      BY <1>4 DEF CancelInsert, Cancel
    <2> QED
      BY <2>1, LeaveKeepsInv
  <1>5. CASE Goroutine
    <2>1. CASE LoopStep /\ UNCHANGED <<repoVars, svcVars, flushTx>>
      <3>1. Running /\ FlushInv /\ BatcherTypeOK(Row)
        BY DEF Inv, BatchInv
      <3>2. CASE TakeFirst
        <4>1. loop = "wait" /\ gathered = <<>> /\ Len(gathered) < BatchSize
          BY <3>1, <3>2, BatchAssumption DEF TakeFirst, FlushInv
        <4>2. gathered' = Append(gathered, Head(queue))
          BY <3>2, <4>1 DEF TakeFirst
        <4> QED
          BY <2>1, <3>2, <4>1, <4>2, TakeKeepsInv DEF TakeFirst
      <3>3. CASE TakeMore
        BY <2>1, <3>3, TakeKeepsInv DEF TakeMore, Room
      <3>4. CASE StopGathering
        BY <2>1, <3>4, TurnKeepsInv DEF StopGathering
      <3>5. CASE FlushDone
        BY <2>1, <3>1, <3>5, TurnKeepsInv DEF FlushDone, Running
      <3>6. CASE SendReply
        BY <2>1, <3>6, SendReplyKeepsInv
      <3>7. CASE LoopReturns \/ LastBatch
        BY <3>1, <3>7 DEF LoopReturns, LastBatch, Running
      <3> QED
        BY <2>1, <3>2, <3>3, <3>4, <3>5, <3>6, <3>7 DEF LoopStep
    <2> QED
      BY <1>5, <2>1, FlushBeginsKeepsInv, FlushReturnsKeepsInv DEF Goroutine
  <1>6. ASSUME NEW t \in Txs, Repo(t) \/ Forget(t)
        PROVE  Inv'
    BY <1>6, RepoKeepsInv, ForgetKeepsInv
  <1>7. CASE UNCHANGED vars
    <2>1. /\ UNCHANGED <<repoVars, svcVars, queue, loopVars, closed, flushTx, stage, reply>>
          /\ UNCHANGED <<short_urls, gathered, results, loop, last>>
      BY <1>7 DEF vars, batcherVars, repoVars, loopVars
    <2>2. Settling /\ \A d \in Calls : CallerInv(d)'
      BY <2>1, CallersStay
    <2>3. RowsInv' /\ PathInv' /\ StoreInv' /\ FlushInv' /\ Running'
      BY <2>1, <2>2, SettlingStep DEF Inv, BatchInv
    <2>4. BatcherTypeOK(Row)'
      BY <2>1 DEF Inv, BatchInv, BatcherTypeOK
    <2> QED
      BY <2>1, <2>2, <2>3, <2>4, BatcherStep DEF Inv, BatchInv
  <1> QED
    BY <1>1, <1>2, <1>3, <1>4, <1>5, <1>6, <1>7, CrashKeepsInv
       DEF Next, Handler, Finished, Between

(* The inductive invariant holds of every behaviour.                       *)
THEOREM BatchedInvariance == Spec => []Inv
  <1>1. Init => Inv
    BY InitInv
  <1>2. Inv /\ [Next]_vars => Inv'
    BY NextKeepsInv
  <1> QED
    BY <1>1, <1>2, PTL DEF Spec

----------------------------------------------------------------------------
(* What the invariant says of batches, and to clients.                     *)

(* Type correctness.                                                       *)
THEOREM BatchedTypeCorrect == Spec => []TypeOK
  <1>1. Inv => TypeOK
    BY DEF Inv, RepoInv, BatchInv, TypeOK
  <1> QED
    BY <1>1, BatchedInvariance, PTL

(* No row that Postgres would refuse reaches a shared batch: every row in  *)
(* a batch belongs to a request that passed the validation.                *)
THEOREM NoPoisonInBatches == Spec => []NoPoisonRow
  <1>1. ASSUME Inv PROVE NoPoisonRow
    <2>1. ASSUME NEW t \in Txs, NEW i \in DOMAIN batch[t]
          PROVE  Storable(batch[t][i])
      <3> DEFINE r == batch[t][i]
      <3>1. Issued(r)
        BY <1>1 DEF Inv, BatchInv, RowsInv
      <3>2. /\ r.url = req[r.createdAt].url /\ r.owner = req[r.createdAt].owner
            /\ r.key = req[r.createdAt].key
        BY <3>1 DEF Issued, BuiltBy, NewRow
      <3>3. Valid(req[r.createdAt])
        BY <3>1 DEF Issued
      <3> HIDE DEF r
      <3> QED
        BY <3>2, <3>3, UrlAssumption DEF r, Storable, Valid, ValidOwnerKey
    <2> QED
      BY <1>1, <2>1 DEF NoPoisonRow, Inv, RepoInv, BatchInv, TypeOK
  <1> QED
    BY <1>1, BatchedInvariance, PTL

(* What the direct wiring promises of the table, the outbox and the        *)
(* answers is not lost by sharing transactions between calls, nor by calls *)
(* that leave while their row is on its way.                               *)
THEOREM BatchedPromises ==
  Spec => [](/\ UniqueRows
             /\ EventPerRow
             /\ OutboxEmpty
             /\ OneRowPerCall
             /\ AnswersDurable
             /\ Idempotent
             /\ CreatedOnce
             /\ WinnerReadable)
  <1>1. Inv => UniqueRows /\ EventPerRow /\ OutboxEmpty
    BY DEF Inv, RepoInv, OutboxCleared, OutboxEmpty
  <1>2. Inv => OneRowPerCall
    BY DEF Inv, BatchInv, RowsInv, Issued, OneRowPerCall
  <1>3. Inv => AnswersDurable
    BY DEF Inv, Answering, Told, AnswersDurable
  <1>4. Inv => Idempotent
    BY ToldIsIdempotent DEF Inv, RepoInv, Answering
  <1>5. Inv => CreatedOnce
    BY DEF Inv, Answering, Created, CreatedOnce
  <1>6. Inv => WinnerReadable
    BY DEF Inv, Answering, Winner, WinnerReadable
  <1>7. Inv => /\ UniqueRows
               /\ EventPerRow
               /\ OutboxEmpty
               /\ OneRowPerCall
               /\ AnswersDurable
               /\ Idempotent
               /\ CreatedOnce
               /\ WinnerReadable
    BY <1>1, <1>2, <1>3, <1>4, <1>5, <1>6
  <1> QED
    BY <1>7, BatchedInvariance, PTL

(* A Get of an answered code never says NotFound, although the answer went *)
(* out behind a commit for several callers.                                *)
THEOREM BatchedNoNotFoundAfterAnswer == Spec => ReadYourWrites
  <1> DEFINE Step(c, d) ==
        /\ resp[d].status = "OK"
        /\ pc[c] = "get"
        /\ wanted[c] = resp[d].row.code
        => resp'[c].status # "NotFound"
  <1>1. ASSUME Inv, [Next]_vars, NEW c \in Calls, NEW d \in Calls
        PROVE  Step(c, d)
    <2>1. SUFFICES ASSUME resp[d].status = "OK", pc[c] = "get",
                          wanted[c] = resp[d].row.code
          PROVE  resp'[c].status # "NotFound"
      OBVIOUS
    <2>2. /\ resp[c] = Failure("none") /\ ServiceTypeOK
          /\ GetByCode(wanted[c]) # {}
      BY <1>1, <2>1 DEF Inv, Answering, Placed, Told, GetByCode
    <2>3. CASE resp'[c] = resp[c]
      BY <2>2, <2>3 DEF Failure
    <2>4. CASE GetReads(c)
      BY <2>2, <2>4 DEF GetReads, Answer, Success, ServiceTypeOK
    <2>5. CASE StepFails(c)
      BY <2>2, <2>5 DEF StepFails, Answer, Failure, ServiceTypeOK
    <2>6. CASE Crash
      BY <2>2, <2>6 DEF Crash, LoseCalls, Failure
    <2>7. ASSUME NEW e \in Calls, e # c,
                 ServiceAsk(e) \/ Handler(e) \/ StepFails(e) \/ CancelInsert(e)
          PROVE  resp'[c] = resp[c]
      BY <2>2, <2>7, ProgressCases
         DEF ServiceAsk, Accept, Reject, AskGet, Handler, LookupFinds,
             LookupMisses, Exhausted, RereadFinds, RereadMisses, GetReads, StepFails,
             CallInsert, SendRow, Generate, ReturnInsert, CancelInsert, InsertReturns,
             Answer, Goto, ServiceTypeOK, svcVars
    <2>8. CASE ServiceAsk(c) \/ Handler(c) \/ CancelInsert(c)
      BY <2>1, <2>3, <2>4, <2>8, ProgressCases
         DEF ServiceAsk, Accept, Reject, AskGet, Handler, LookupFinds,
             LookupMisses, Exhausted, RereadFinds, RereadMisses, CallInsert, SendRow,
             Generate, ReturnInsert, CancelInsert, InsertReturns, svcVars
    <2>9. CASE UNCHANGED svcVars
      BY <2>3, <2>9 DEF svcVars
    <2> QED
      BY <1>1, <2>3, <2>4, <2>5, <2>6, <2>7, <2>8, <2>9
         DEF Next, Goroutine, FlushBegins, FlushReturns, Repo, Forget, Finished, vars
  <1>2. Inv /\ [Next]_vars => [\A c, d \in Calls : Step(c, d)]_<<repoVars, svcVars>>
    BY <1>1
  <1> QED
    BY <1>2, BatchedInvariance, PTL DEF Spec, ReadYourWrites, vars

(* A commit of a shared batch, too, adds rows with new codes to the WAL.   *)
THEOREM BatchedWalHasNewCodes == Spec => [][CommitsNewRows]_wal
  <1>1. ASSUME Inv, [Next]_vars
        PROVE  [CommitsNewRows]_wal
    <2>1. ASSUME NEW t \in Txs, Repo(t)
          PROVE  [CommitsNewRows]_wal
      BY <1>1, <2>1, WalGrows DEF Repo, Inv
    <2>2. ASSUME NEW t \in Txs, Forget(t)
          PROVE  UNCHANGED wal
      BY <2>2 DEF Forget, End
    <2>3. ASSUME NEW c \in Calls, ServiceAsk(c) \/ Handler(c) \/ StepFails(c)
          PROVE  UNCHANGED wal
      BY <2>3, ProgressCases
         DEF ServiceAsk, Accept, Reject, AskGet, Handler, LookupFinds, LookupMisses,
             Exhausted, RereadFinds, RereadMisses, GetReads, StepFails, CallInsert,
             SendRow, ReturnInsert, repoVars
    <2>4. ASSUME NEW c \in Calls, CancelInsert(c)
          PROVE  UNCHANGED wal
      BY <2>4 DEF CancelInsert, repoVars
    <2>5. CASE Goroutine
      BY <2>5 DEF Goroutine, FlushBegins, FlushReturns, Begin, End, repoVars
    <2>6. CASE Crash
      BY <2>6 DEF Crash, DropConnections
    <2>7. CASE UNCHANGED vars
      BY <2>7 DEF vars, repoVars
    <2> QED
      BY <1>1, <2>1, <2>2, <2>3, <2>4, <2>5, <2>6, <2>7 DEF Next, Finished
  <1> QED
    BY <1>1, BatchedInvariance, PTL DEF Spec

(* The batcher, its shared transactions, cancelled calls and crashes are   *)
(* invisible behind the contract that the direct wiring implements too.    *)
THEOREM BatchedImplementsContract == Spec => Contract
  <1>1. Init => C!Init
    BY InitRefines DEF Init
  <1>2. ASSUME Inv, Inv', [Next]_vars
        PROVE  [C!Next]_C!vars
    <2>1. ASSUME NEW c \in Calls, Between(c)
          PROVE  [C!Next]_C!vars
      BY <1>2, <2>1, BetweenRefines DEF Inv, Answering
    <2>2. ASSUME NEW c \in Calls, CallInsert(c) \/ SendRow(c)
          PROVE  [C!Next]_C!vars
      BY <2>2 DEF CallInsert, SendRow, Generate, Goto, C!vars, repoVars, svcVars
    <2>3. ASSUME NEW c \in Calls, ReturnInsert(c) \/ CancelInsert(c)
          PROVE  [C!Next]_C!vars
      <3>1. PICK err \in {reply[c], "error"} :
              /\ InsertReturns(c, err)
              /\ err = "error" \/ (err = reply[c] /\ stage[c] = "waiting")
        <4>1. CASE ReturnInsert(c)
          BY <4>1 DEF ReturnInsert, Receive
        <4>2. CASE CancelInsert(c)
          BY <4>2 DEF CancelInsert
        <4> QED
          BY <2>3, <4>1, <4>2
      <3>2. /\ pc[c] = "insert" /\ short_urls' = short_urls /\ CallerInv(c)
            /\ ServiceTypeOK /\ Placed(c)
        BY <1>2, <2>3, <3>1 DEF InsertReturns, ReturnInsert, CancelInsert, repoVars, Inv, Answering
      <3>3. BuiltBy(c, row[c]) /\ (err = "ok" => row[c] \in short_urls)
        BY <3>1, <3>2 DEF CallerInv
      <3> QED
        BY <3>1, <3>2, <3>3, ReturnsRefines
    <2>4. CASE Goroutine
      BY <2>4
         DEF Goroutine, FlushBegins, FlushReturns, Begin, End, C!vars, repoVars, svcVars
    <2>5. ASSUME NEW t \in Txs, Repo(t)
          PROVE  [C!Next]_C!vars
      <3>1. UNCHANGED svcVars /\ short_urls \subseteq short_urls' /\ RepoInv'
        BY <1>2, <2>5, RepoEffects DEF Repo, Inv
      <3>2. \A r \in short_urls' :
              /\ r = row[r.createdAt] /\ BuiltBy(r.createdAt, r)
              /\ req[r.createdAt] \in Requests
        BY <1>2, <3>1 DEF Inv, BatchInv, RowsInv, Issued, svcVars, BuiltBy, NewRow
      <3> QED
        BY <3>1, <3>2, CommitRefines DEF C!Next
    <2>6. ASSUME NEW t \in Txs, Forget(t)
          PROVE  [C!Next]_C!vars
      BY <2>6 DEF Forget, End, C!vars, svcVars
    <2>7. CASE Crash
      BY <1>2, <2>7, LoseCallsRefines DEF Crash, DropConnections, Inv, Answering, C!Next
    <2>8. CASE UNCHANGED vars
      BY <2>8 DEF vars, repoVars, svcVars, C!vars
    <2> QED
      BY <1>2, <2>1, <2>2, <2>3, <2>4, <2>5, <2>6, <2>7, <2>8
         DEF Next, Finished, Handler, Between
  <1> QED
    BY <1>1, <1>2, BatchedInvariance, PTL DEF Spec, Contract, C!Spec
============================================================================
