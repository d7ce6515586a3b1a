--------------------------- MODULE BatcherProofs ---------------------------
(***************************************************************************)
(* Safety of the write batcher for any callers, any retry bounds, any      *)
(* batch size and any channel capacity: every row that is sent is held in  *)
(* one place until its own outcome reaches its own caller, and Close finds *)
(* nobody sending.                                                         *)
(***************************************************************************)
EXTENDS BatcherAlone, TLAPS

(* An item of s is of call c; each carries the row of its call's latest    *)
(* Insert; no call has two.                                                *)
Holds(s, c) == \E i \in DOMAIN s : s[i].call = c

Current(s) == \A i \in DOMAIN s : s[i].row = RowOf(s[i].call)

Distinct(s) == \A i, j \in DOMAIN s : s[i].call = s[j].call => i = j

(* A row is on its way: in the channel or in the batch.                    *)
OnItsWay(c) == Holds(queue, c) \/ Holds(gathered, c)

ItemsInv ==
  /\ Current(queue) /\ Current(gathered)
  /\ Distinct(queue) /\ Distinct(gathered)
  /\ \A c \in Callers : ~(Holds(queue, c) /\ Holds(gathered, c))

(* What a call with a row on its way, or a reply, looks like.              *)
CallerInv(c) ==
  /\ OnItsWay(c) =>
       /\ inserts[c] > 0
       /\ reply[c] = "empty"
       /\ stage[c] # "sending"
       /\ stage[c] = "out" => returned[c] = "cancelled"
  /\ stage[c] = "sending" => reply[c] = "empty"
  /\ stage[c] = "waiting" /\ reply[c] = "empty" => OnItsWay(c)
  /\ stage[c] # "out" => inserts[c] > 0 /\ returned[c] = "nothing"
  /\ reply[c] # "empty" => said[c] = reply[c]
  /\ returned[c] \in Outcome => returned[c] = said[c]

(* While replies go out, each result is what was said of its item's call.  *)
ResultsInv ==
  loop = "reply" =>
    /\ Len(results) = Len(gathered)
    /\ \A i \in DOMAIN gathered : results[i] = said[gathered[i].call]

(* After Close no handler is left, and nothing enters the channel.         *)
CloseInv ==
  /\ closed => ~accepting /\ \A c \in Callers : HandlerOver(c)
  /\ last => closed /\ queue = <<>>
  /\ loop \in {"wait", "stopped"} => gathered = <<>>
  /\ loop = "stopped" => closed /\ queue = <<>>

Inv == TypeOK /\ ItemsInv /\ (\A c \in Callers : CallerInv(c)) /\ ResultsInv /\ CloseInv

----------------------------------------------------------------------------
(* The head and the tail of a sequence, by their elements.                 *)
LEMMA HeadAndTail ==
  ASSUME NEW S, NEW s \in Seq(S), s # <<>>
  PROVE  /\ 1 \in DOMAIN s
         /\ Head(s) = s[1] /\ Head(s) \in S
         /\ Tail(s) \in Seq(S) /\ Len(Tail(s)) = Len(s) - 1
         /\ \A i \in DOMAIN Tail(s) : i + 1 \in DOMAIN s /\ Tail(s)[i] = s[i + 1]
         /\ \A i \in DOMAIN s : i # 1 => i - 1 \in DOMAIN Tail(s) /\ s[i] = Tail(s)[i - 1]
  OBVIOUS

(* An appended sequence, by its elements.                                  *)
LEMMA Appended ==
  ASSUME NEW S, NEW s \in Seq(S), NEW e \in S
  PROVE  /\ Append(s, e) \in Seq(S) /\ Len(Append(s, e)) = Len(s) + 1
         /\ DOMAIN Append(s, e) = DOMAIN s \cup {Len(s) + 1}
         /\ \A i \in DOMAIN s : i # Len(s) + 1 /\ Append(s, e)[i] = s[i]
         /\ Append(s, e)[Len(s) + 1] = e
  OBVIOUS

(* The calls of a tail are those of the sequence but its head's, when no   *)
(* call has two items.                                                     *)
LEMMA TailCalls ==
  ASSUME NEW S, NEW s \in Seq(S), s # <<>>, Distinct(s), NEW c
  PROVE  Holds(Tail(s), c) <=> Holds(s, c) /\ Head(s).call # c
  <1>1. ASSUME NEW i \in DOMAIN Tail(s), Tail(s)[i].call = c
        PROVE  Holds(s, c) /\ Head(s).call # c
    <2>1. i + 1 \in DOMAIN s /\ Tail(s)[i] = s[i + 1] /\ i \in Nat /\ i > 0
      BY HeadAndTail
    <2>2. s[1].call # c
      BY <1>1, <2>1, HeadAndTail DEF Distinct
    <2> QED
      BY <1>1, <2>1, <2>2, HeadAndTail DEF Holds
  <1>2. ASSUME NEW i \in DOMAIN s, s[i].call = c, Head(s).call # c
        PROVE  Holds(Tail(s), c)
    <2>1. i - 1 \in DOMAIN Tail(s) /\ Tail(s)[i - 1] = s[i]
      BY <1>2, HeadAndTail
    <2> QED
      BY <1>2, <2>1 DEF Holds
  <1> QED
    BY <1>1, <1>2 DEF Holds

(* What a tail keeps of a sequence of items.                               *)
LEMMA TailKeeps ==
  ASSUME NEW S, NEW s \in Seq(S), s # <<>>
  PROVE  /\ Distinct(s) => Distinct(Tail(s))
         /\ Current(s) => Current(Tail(s))
  <1>1. Distinct(s) => Distinct(Tail(s))
    <2> SUFFICES ASSUME Distinct(s), NEW i \in DOMAIN Tail(s), NEW j \in DOMAIN Tail(s),
                        Tail(s)[i].call = Tail(s)[j].call
                 PROVE  i = j
      BY DEF Distinct
    <2>1. /\ i + 1 \in DOMAIN s /\ Tail(s)[i] = s[i + 1]
          /\ j + 1 \in DOMAIN s /\ Tail(s)[j] = s[j + 1]
      BY HeadAndTail
    <2>2. i + 1 = j + 1
      BY <2>1 DEF Distinct
    <2>3. i \in Nat /\ j \in Nat
      BY HeadAndTail
    <2> QED
      BY <2>2, <2>3
  <1>2. Current(s) => Current(Tail(s))
    BY HeadAndTail DEF Current
  <1> QED
    BY <1>1, <1>2

(* The calls of an appended sequence, and what appending keeps.            *)
LEMMA AppendCalls ==
  ASSUME NEW S, NEW s \in Seq(S), NEW e \in S, NEW c
  PROVE  Holds(Append(s, e), c) <=> Holds(s, c) \/ e.call = c
  BY Appended DEF Holds

(* A row of a call without one, and of its latest attempt, may be appended. *)
LEMMA AppendKeeps ==
  ASSUME NEW S, NEW s \in Seq(S), NEW e \in S
  PROVE  /\ Distinct(s) /\ ~Holds(s, e.call) => Distinct(Append(s, e))
         /\ Current(s) /\ e.row = RowOf(e.call) => Current(Append(s, e))
  <1>1. Distinct(s) /\ ~Holds(s, e.call) => Distinct(Append(s, e))
    BY Appended DEF Distinct, Holds
  <1>2. Current(s) /\ e.row = RowOf(e.call) => Current(Append(s, e))
    BY Appended DEF Current
  <1> QED
    BY <1>1, <1>2

----------------------------------------------------------------------------
(* The initial state.                                                      *)
LEMMA InitInv == Init => Inv
  <1> SUFFICES ASSUME Init PROVE Inv
    OBVIOUS
  <1>1. /\ queue = <<>> /\ gathered = <<>> /\ results = <<>>
        /\ \A c : ~OnItsWay(c)
    BY DEF Init, BatcherInit, OnItsWay, Holds
  <1>2. /\ loop = "wait" /\ ~closed /\ ~last
        /\ \A c \in Callers :
             stage[c] = "out" /\ reply[c] = "empty" /\ inserts[c] = 0 /\ returned[c] = "nothing"
    BY DEF Init, BatcherInit
  <1>3. TypeOK
    <2>1. /\ queue \in Seq(Pending(AllRows)) /\ Len(queue) <= QueueCap
          /\ gathered \in Seq(Pending(AllRows)) /\ Len(gathered) <= BatchSize
          /\ results \in Seq(Outcome)
      BY <1>1, BatchAssumption
    <2>2. /\ stage \in [Callers -> {"out", "sending", "waiting"}]
          /\ reply \in [Callers -> Outcome \cup {"empty"}]
          /\ closed \in BOOLEAN /\ last \in BOOLEAN
      BY DEF Init, BatcherInit
    <2>3. ASSUME NEW c \in Callers
          PROVE  inserts[c] <= MaxInserts[c]
      <3>1. inserts[c] = 0 /\ MaxInserts[c] \in Nat
        BY <1>2, InsertsAssumption
      <3> QED
        BY <3>1
    <2> QED
      BY <1>2, <2>1, <2>2, <2>3 DEF Init, TypeOK, BatcherTypeOK
  <1>4. ItemsInv
    BY <1>1 DEF ItemsInv, Current, Distinct, Holds
  <1>5. \A c \in Callers : CallerInv(c)
    BY <1>1, <1>2 DEF CallerInv, Outcome
  <1>6. ResultsInv /\ CloseInv
    BY <1>1, <1>2 DEF ResultsInv, CloseInv
  <1> QED
    BY <1>3, <1>4, <1>5, <1>6 DEF Inv

(* A call that inserts again has its answer, so that no row of it is left. *)
LEMMA BeginInsertInv ==
  ASSUME Inv, NEW c \in Callers, BeginInsert(c)
  PROVE  Inv'
  <1> USE DEF BeginInsert, Enter, loopVars
  <1>1. inserts[c] \in Nat /\ MaxInserts[c] \in Nat /\ inserts'[c] = inserts[c] + 1
    BY InsertsAssumption DEF Inv, TypeOK
  <1>2. ~OnItsWay(c)
    BY <1>1 DEF Inv, CallerInv, Outcome
  <1>3. TypeOK'
    BY <1>1 DEF Inv, TypeOK, BatcherTypeOK
  <1>4. ItemsInv'
    <2>1. Current(queue)'
      BY <1>2 DEF Inv, TypeOK, BatcherTypeOK, Pending, ItemsInv, Current, RowOf, OnItsWay, Holds
    <2>2. Current(gathered)'
      BY <1>2 DEF Inv, TypeOK, BatcherTypeOK, Pending, ItemsInv, Current, RowOf, OnItsWay, Holds
    <2> QED
      BY <2>1, <2>2 DEF Inv, ItemsInv, Distinct, Holds
  <1>5. ASSUME NEW d \in Callers
        PROVE  CallerInv(d)'
    <2>1. OnItsWay(d)' <=> OnItsWay(d)
      BY DEF OnItsWay, Holds
    <2>2. /\ stage'[d] = IF d = c THEN "sending" ELSE stage[d]
          /\ reply'[d] = IF d = c THEN "empty" ELSE reply[d]
          /\ returned'[d] = IF d = c THEN "nothing" ELSE returned[d]
          /\ said'[d] = IF d = c THEN "nothing" ELSE said[d]
          /\ inserts'[d] = IF d = c THEN inserts[c] + 1 ELSE inserts[d]
      BY DEF Inv, TypeOK, BatcherTypeOK
    <2>3. "nothing" \notin Outcome
      BY DEF Outcome
    <2> QED
      BY <1>1, <1>2, <2>1, <2>2, <2>3 DEF Inv, CallerInv
  <1>6. ResultsInv'
    BY <1>2 DEF Inv, TypeOK, BatcherTypeOK, ResultsInv, OnItsWay, Holds
  <1>7. CloseInv'
    BY DEF Inv, CloseInv, HandlerOver
  <1> QED
    BY <1>3, <1>4, <1>5, <1>6, <1>7 DEF Inv

(* A row enters the channel, which is open, as the only one of its call.   *)
LEMMA SendRowInv ==
  ASSUME Inv, NEW c \in Callers, SendRow(c)
  PROVE  Inv'
  <1> DEFINE item == [call |-> c, row |-> RowOf(c)]
  <1> USE DEF SendRow, Send, loopVars, callerVars
  <1>1. /\ queue \in Seq(Pending(AllRows)) /\ queue' = Append(queue, item)
        /\ stage[c] = "sending" /\ stage' = [stage EXCEPT ![c] = "waiting"]
        /\ ~OnItsWay(c) /\ inserts[c] > 0 /\ ~closed
    BY DEF Inv, TypeOK, BatcherTypeOK, CallerInv, CloseInv, HandlerOver
  <1>2. item \in Pending(AllRows)
    <2>1. inserts[c] \in 1..MaxInserts[c]
      BY <1>1, InsertsAssumption DEF Inv, TypeOK
    <2>2. RowOf(c) \in AllRows
      BY <2>1 DEF RowOf, AllRows
    <2> QED
      BY <2>2 DEF Pending
  <1> HIDE DEF item
  <1>3. TypeOK'
    <2>1. queue' \in Seq(Pending(AllRows)) /\ Len(queue') <= QueueCap
      BY <1>1, <1>2, Appended, BatchAssumption DEF Inv, TypeOK, BatcherTypeOK
    <2> QED
      BY <2>1 DEF Inv, TypeOK, BatcherTypeOK
  <1>4. /\ item.call = c /\ item.row = RowOf(c)
        /\ \A d \in Callers : Holds(queue, d)' <=> Holds(queue, d) \/ c = d
    BY <1>1, <1>2, AppendCalls DEF item, Holds
  <1>5. ItemsInv'
    <2>1. Distinct(queue)' /\ Current(queue)'
      BY <1>1, <1>2, <1>4, AppendKeeps DEF Inv, ItemsInv, OnItsWay, Distinct, Current, RowOf
    <2>2. Distinct(gathered)' /\ Current(gathered)'
      BY DEF Inv, ItemsInv, Distinct, Current, RowOf
    <2>3. \A d \in Callers : Holds(gathered, d)' <=> Holds(gathered, d)
      BY DEF Holds
    <2> QED
      BY <1>1, <1>4, <2>1, <2>2, <2>3 DEF Inv, ItemsInv, OnItsWay
  <1>6. ASSUME NEW d \in Callers
        PROVE  CallerInv(d)'
    <2>1. OnItsWay(d)' <=> OnItsWay(d) \/ c = d
      BY <1>4 DEF OnItsWay, Holds
    <2>2. stage'[d] = IF d = c THEN "waiting" ELSE stage[d]
      BY DEF Inv, TypeOK, BatcherTypeOK
    <2> QED
      BY <1>1, <2>1, <2>2 DEF Inv, CallerInv
  <1>7. ResultsInv'
    BY DEF Inv, ResultsInv
  <1>8. CloseInv'
    BY <1>1 DEF Inv, CloseInv
  <1> QED
    BY <1>3, <1>5, <1>6, <1>7, <1>8 DEF Inv

(* A caller takes its reply.                                               *)
LEMMA InsertRepliedInv ==
  ASSUME Inv, NEW c \in Callers, InsertReplied(c)
  PROVE  Inv'
  <1> USE DEF InsertReplied, Receive, loopVars
  <1>1. TypeOK'
    BY DEF Inv, TypeOK, BatcherTypeOK
  <1>2. ItemsInv'
    BY DEF Inv, ItemsInv, Distinct, Current, RowOf, Holds
  <1>3. ASSUME NEW d \in Callers
        PROVE  CallerInv(d)'
    <2>1. OnItsWay(d)' <=> OnItsWay(d)
      BY DEF OnItsWay, Holds
    <2>2. /\ stage'[d] = IF d = c THEN "out" ELSE stage[d]
          /\ reply'[d] = IF d = c THEN "empty" ELSE reply[d]
          /\ returned'[d] = IF d = c THEN reply[c] ELSE returned[d]
      BY DEF Inv, TypeOK, BatcherTypeOK
    <2> QED
      BY <2>1, <2>2 DEF Inv, CallerInv
  <1>4. ResultsInv'
    BY DEF Inv, ResultsInv
  <1>5. CloseInv'
    BY DEF Inv, CloseInv, HandlerOver
  <1> QED
    BY <1>1, <1>2, <1>3, <1>4, <1>5 DEF Inv

(* A caller leaves; its row stays where it is.                             *)
LEMMA InsertCancelledInv ==
  ASSUME Inv, NEW c \in Callers, InsertCancelled(c)
  PROVE  Inv'
  <1> USE DEF InsertCancelled, Cancel, loopVars
  <1>1. TypeOK'
    BY DEF Inv, TypeOK, BatcherTypeOK
  <1>2. ItemsInv'
    BY DEF Inv, ItemsInv, Distinct, Current, RowOf, Holds
  <1>3. ASSUME NEW d \in Callers
        PROVE  CallerInv(d)'
    <2>1. OnItsWay(d)' <=> OnItsWay(d)
      BY DEF OnItsWay, Holds
    <2>2. /\ stage'[d] = IF d = c THEN "out" ELSE stage[d]
          /\ returned'[d] = IF d = c THEN "cancelled" ELSE returned[d]
      BY DEF Inv, TypeOK, BatcherTypeOK
    <2> QED
      BY <2>1, <2>2 DEF Inv, CallerInv, Outcome
  <1>4. ResultsInv'
    BY DEF Inv, ResultsInv
  <1>5. CloseInv'
    BY DEF Inv, CloseInv, HandlerOver
  <1> QED
    BY <1>1, <1>2, <1>3, <1>4, <1>5 DEF Inv

(* What changes only the flags of the shutdown.                            *)
LEMMA ItemsStay ==
  ASSUME Inv, UNCHANGED <<queue, gathered, results, loop, stage, reply, inserts, said, returned>>
  PROVE  ItemsInv' /\ (\A c \in Callers : CallerInv(c)') /\ ResultsInv'
  <1>1. ItemsInv'
    BY DEF Inv, ItemsInv, Distinct, Current, RowOf, Holds
  <1>2. \A c \in Callers : CallerInv(c)'
    BY DEF Inv, CallerInv, OnItsWay, Holds
  <1>3. ResultsInv'
    BY DEF Inv, ResultsInv
  <1> QED
    BY <1>1, <1>2, <1>3

(* The server takes no new calls.                                          *)
LEMMA StopAcceptingInv ==
  ASSUME Inv, StopAccepting
  PROVE  Inv'
  <1> USE DEF StopAccepting, batcherVars, loopVars
  <1>1. TypeOK'
    BY DEF Inv, TypeOK, BatcherTypeOK
  <1>2. CloseInv'
    BY DEF Inv, CloseInv, HandlerOver
  <1> QED
    BY <1>1, <1>2, ItemsStay DEF Inv

(* Close, when every handler is over.                                      *)
LEMMA CloseStepInv ==
  ASSUME Inv, Close
  PROVE  Inv'
  <1> USE DEF Close, CloseIn, callerVars, loopVars
  <1>1. TypeOK'
    BY DEF Inv, TypeOK, BatcherTypeOK
  <1>2. CloseInv'
    BY DEF Inv, CloseInv, HandlerOver
  <1> QED
    BY <1>1, <1>2, ItemsStay DEF Inv

----------------------------------------------------------------------------
(* The loop's steps that move no row.                                      *)
LEMMA LoopTurnsInv ==
  ASSUME Inv, LoopReturns \/ LastBatch \/ StopGathering \/ CallInsertBatch \/ FlushDone,
         UNCHANGED <<callerVars, said>>
  PROVE  Inv'
  <1> USE DEF LoopReturns, LastBatch, StopGathering, CallInsertBatch, FlushDone, callerVars
  <1>1. /\ UNCHANGED <<queue, gathered, results, closed, stage, reply, inserts, said, returned>>
        /\ loop' # "reply"
    OBVIOUS
  <1>2. TypeOK'
    BY DEF Inv, TypeOK, BatcherTypeOK
  <1>3. ItemsInv'
    BY <1>1 DEF Inv, ItemsInv, Distinct, Current, RowOf, Holds
  <1>4. \A c \in Callers : CallerInv(c)'
    BY <1>1 DEF Inv, CallerInv, OnItsWay, Holds
  <1>5. ResultsInv'
    BY <1>1 DEF ResultsInv
  <1>6. CloseInv'
    BY DEF Inv, CloseInv, HandlerOver
  <1> QED
    BY <1>2, <1>3, <1>4, <1>5, <1>6 DEF Inv

(* A row goes from the channel to the batch.                               *)
LEMMA TakeInv ==
  ASSUME Inv, TakeFirst \/ TakeMore, UNCHANGED <<callerVars, said>>
  PROVE  Inv'
  <1> USE DEF callerVars
  <1>1. /\ queue \in Seq(Pending(AllRows)) /\ queue # <<>> /\ queue' = Tail(queue)
        /\ gathered \in Seq(Pending(AllRows)) /\ gathered' = Append(gathered, Head(queue))
        /\ Len(gathered) < BatchSize
        /\ loop' = "gather"
        /\ UNCHANGED <<closed, results, last, stage, reply>>
    <2>1. CASE TakeFirst
      <3>1. gathered = <<>> /\ Append(gathered, Head(queue)) = <<Head(queue)>>
        BY <2>1 DEF TakeFirst, Inv, CloseInv
      <3> QED
        BY <2>1, <3>1, BatchAssumption DEF TakeFirst, Inv, TypeOK, BatcherTypeOK
    <2>2. CASE TakeMore
      BY <2>2, BatchAssumption DEF TakeMore, Room, Inv, TypeOK, BatcherTypeOK
    <2> QED
      BY <2>1, <2>2
  <1>2. /\ Head(queue) \in Pending(AllRows)
        /\ queue' \in Seq(Pending(AllRows)) /\ Len(queue') = Len(queue) - 1
        /\ gathered' \in Seq(Pending(AllRows)) /\ Len(gathered') = Len(gathered) + 1
        /\ Holds(queue, Head(queue).call)
        /\ Head(queue).row = RowOf(Head(queue).call)
    BY <1>1, HeadAndTail, Appended DEF Inv, ItemsInv, Holds, Current
  <1>3. ASSUME NEW c
        PROVE  /\ Holds(queue, c)' <=> Holds(queue, c) /\ Head(queue).call # c
               /\ Holds(gathered, c)' <=> Holds(gathered, c) \/ Head(queue).call = c
    <2>1. Holds(queue', c) <=> Holds(queue, c) /\ Head(queue).call # c
      BY <1>1, TailCalls DEF Inv, ItemsInv
    <2>2. Holds(gathered', c) <=> Holds(gathered, c) \/ Head(queue).call = c
      BY <1>1, <1>2, AppendCalls
    <2> QED
      BY <2>1, <2>2 DEF Holds
  <1>4. Head(queue).call \in Callers /\ ~Holds(gathered, Head(queue).call)
    BY <1>2 DEF Inv, ItemsInv, Pending
  <1>5. TypeOK'
    <2>1. Len(queue') <= QueueCap /\ Len(gathered') <= BatchSize
      BY <1>1, <1>2, BatchAssumption DEF Inv, TypeOK, BatcherTypeOK
    <2> QED
      BY <1>1, <1>2, <2>1 DEF Inv, TypeOK, BatcherTypeOK
  <1>6. ItemsInv'
    <2>1. Distinct(queue') /\ Current(queue')
      BY <1>1, TailKeeps DEF Inv, ItemsInv
    <2>2. Distinct(gathered') /\ Current(gathered')
      BY <1>1, <1>2, <1>4, AppendKeeps DEF Inv, ItemsInv
    <2>3. Distinct(queue)' /\ Current(queue)' /\ Distinct(gathered)' /\ Current(gathered)'
      BY <2>1, <2>2 DEF Distinct, Current, RowOf
    <2> QED
      BY <1>3, <2>3 DEF Inv, ItemsInv
  <1>7. ASSUME NEW c \in Callers
        PROVE  CallerInv(c)'
    <2>1. OnItsWay(c)' <=> OnItsWay(c)
      BY <1>2, <1>3 DEF OnItsWay
    <2> QED
      BY <1>1, <2>1 DEF Inv, CallerInv
  <1>8. ResultsInv'
    BY <1>1 DEF ResultsInv
  <1>9. CloseInv'
    BY <1>1 DEF Inv, CloseInv, HandlerOver
  <1> QED
    BY <1>5, <1>6, <1>7, <1>8, <1>9 DEF Inv

(* Each row of the batch is the row of one call, which learns its outcome. *)
LEMMA BatchReturnsInv ==
  ASSUME Inv, BatchReturns
  PROVE  Inv'
  <1>1. PICK outcomes \in {AllFailed} \cup [DOMAIN gathered -> Outcome \ {"error"}] :
          /\ InsertBatchReturns(outcomes)
          /\ said' = [c \in Callers |->
                        IF \E i \in DOMAIN gathered : gathered[i].row = RowOf(c)
                        THEN outcomes[CHOOSE i \in DOMAIN gathered :
                                        gathered[i].row = RowOf(c)]
                        ELSE said[c]]
          /\ UNCHANGED callerVars
    BY DEF BatchReturns
  <1> USE DEF InsertBatchReturns, callerVars
  <1>2. gathered \in Seq(Pending(AllRows)) /\ DOMAIN gathered = 1..Len(gathered)
    BY DEF Inv, TypeOK, BatcherTypeOK
  <1>3. outcomes \in [DOMAIN gathered -> Outcome]
    BY <1>1 DEF AllFailed, Outcome
  <1>4. outcomes \in Seq(Outcome) /\ Len(outcomes) = Len(gathered)
    BY <1>2, <1>3
  <1>5. ASSUME NEW i \in DOMAIN gathered, NEW c \in Callers
        PROVE  gathered[i].row = RowOf(c) <=> gathered[i].call = c
    BY DEF Inv, ItemsInv, Current, RowOf
  <1>6. ASSUME NEW i \in DOMAIN gathered
        PROVE  gathered[i].call \in Callers /\ said'[gathered[i].call] = outcomes[i]
    <2>1. gathered[i].call \in Callers
      <3>1. gathered[i] \in Pending(AllRows)
        BY <1>2
      <3> QED
        BY <3>1 DEF Pending
    <2>2. ASSUME NEW j \in DOMAIN gathered, gathered[j].row = RowOf(gathered[i].call)
          PROVE  j = i
      BY <1>5, <2>1, <2>2 DEF Inv, ItemsInv, Distinct
    <2>3. gathered[i].row = RowOf(gathered[i].call)
      BY <1>5, <2>1
    <2>4. (CHOOSE j \in DOMAIN gathered : gathered[j].row = RowOf(gathered[i].call)) = i
      BY <2>2, <2>3
    <2> QED
      BY <1>1, <2>1, <2>3, <2>4
  <1>7. ASSUME NEW c \in Callers, ~Holds(gathered, c)
        PROVE  said'[c] = said[c]
    BY <1>1, <1>5, <1>7 DEF Holds
  <1>8. TypeOK'
    <2>1. ASSUME NEW c \in Callers
          PROVE  said'[c] \in Outcome \cup {"nothing"}
      <3>1. CASE Holds(gathered, c)
        BY <1>3, <1>6, <3>1 DEF Holds
      <3>2. CASE ~Holds(gathered, c)
        BY <1>7, <3>2 DEF Inv, TypeOK
      <3> QED
        BY <3>1, <3>2
    <2>2. said' \in [Callers -> Outcome \cup {"nothing"}]
      BY <1>1, <2>1
    <2> QED
      BY <1>1, <1>4, <2>2 DEF Inv, TypeOK, BatcherTypeOK
  <1>9. ItemsInv'
    BY <1>1 DEF Inv, ItemsInv, Distinct, Current, RowOf, Holds
  <1>10. ASSUME NEW c \in Callers
         PROVE  CallerInv(c)'
    <2>1. (OnItsWay(c)' <=> OnItsWay(c)) /\ UNCHANGED <<stage, reply, inserts, returned>>
      BY <1>1 DEF OnItsWay, Holds
    <2>2. OnItsWay(c) \/ said'[c] = said[c]
      BY <1>7 DEF OnItsWay
    <2> QED
      BY <2>1, <2>2 DEF Inv, CallerInv, Outcome
  <1>11. ResultsInv'
    BY <1>1, <1>4, <1>6 DEF ResultsInv
  <1>12. CloseInv'
    BY <1>1 DEF Inv, CloseInv, HandlerOver
  <1> QED
    BY <1>8, <1>9, <1>10, <1>11, <1>12 DEF Inv

(* The first row of the batch is answered, and is nowhere any more.        *)
LEMMA SendReplyInv ==
  ASSUME Inv, SendReply, UNCHANGED <<callerVars, said>>
  PROVE  Inv'
  <1> DEFINE d == Head(gathered).call
  <1> USE DEF SendReply, callerVars
  <1>1. /\ gathered \in Seq(Pending(AllRows)) /\ gathered # <<>> /\ gathered' = Tail(gathered)
        /\ Len(results) = Len(gathered)
        /\ results \in Seq(Outcome) /\ results # <<>> /\ results' = Tail(results)
        /\ loop = "reply" /\ loop' = "reply"
    BY DEF Inv, ResultsInv, TypeOK, BatcherTypeOK
  <1>2. /\ Head(gathered) \in Pending(AllRows) /\ Head(gathered) = gathered[1]
        /\ Head(results) \in Outcome /\ Head(results) = results[1]
        /\ gathered' \in Seq(Pending(AllRows)) /\ Len(gathered') = Len(gathered) - 1
        /\ results' \in Seq(Outcome) /\ Len(results') = Len(results) - 1
        /\ 1 \in DOMAIN gathered
    BY <1>1, HeadAndTail
  <1>3. d \in Callers /\ Holds(gathered, d) /\ said[d] = Head(results)
    BY <1>1, <1>2 DEF Pending, Holds, Inv, ResultsInv
  <1>4. ASSUME NEW c
        PROVE  /\ Holds(queue, c)' <=> Holds(queue, c)
               /\ Holds(gathered, c)' <=> Holds(gathered, c) /\ c # d
    <2>1. Holds(gathered', c) <=> Holds(gathered, c) /\ d # c
      BY <1>1, TailCalls DEF Inv, ItemsInv
    <2> QED
      BY <2>1 DEF Holds
  <1>5. ASSUME NEW c \in Callers
        PROVE  reply'[c] = IF c = d THEN Head(results) ELSE reply[c]
    BY <1>3 DEF Inv, TypeOK, BatcherTypeOK
  <1>6. TypeOK'
    <2>1. reply' \in [Callers -> Outcome \cup {"empty"}]
      BY <1>2 DEF Inv, TypeOK, BatcherTypeOK
    <2>2. Len(gathered') <= BatchSize
      BY <1>1, <1>2, BatchAssumption DEF Inv, TypeOK, BatcherTypeOK
    <2> QED
      BY <1>2, <2>1, <2>2 DEF Inv, TypeOK, BatcherTypeOK
  <1>7. ItemsInv'
    <2>1. Distinct(gathered') /\ Current(gathered')
      BY <1>1, TailKeeps DEF Inv, ItemsInv
    <2> QED
      BY <1>4, <2>1 DEF Inv, ItemsInv, Distinct, Current, RowOf
  <1>8. ASSUME NEW c \in Callers
        PROVE  CallerInv(c)'
    <2>1. OnItsWay(c)' <=> OnItsWay(c) /\ c # d
      BY <1>3, <1>4 DEF OnItsWay, Inv, ItemsInv
    <2>2. OnItsWay(d) /\ Head(results) # "empty"
      BY <1>2, <1>3 DEF OnItsWay, Outcome
    <2> QED
      BY <1>3, <1>5, <2>1, <2>2 DEF Inv, CallerInv, Outcome
  <1>9. ResultsInv'
    <2> SUFFICES ASSUME NEW i \in DOMAIN gathered'
                 PROVE  results'[i] = said[gathered'[i].call]
      BY <1>1, <1>2 DEF ResultsInv
    <2>1. i + 1 \in DOMAIN gathered /\ gathered'[i] = gathered[i + 1]
      BY <1>1, HeadAndTail
    <2>2. i \in DOMAIN results'
      BY <1>1, <1>2
    <2>3. results'[i] = results[i + 1]
      BY <1>1, <2>2, HeadAndTail
    <2> QED
      BY <1>1, <2>1, <2>3 DEF Inv, ResultsInv
  <1>10. CloseInv'
    BY <1>1 DEF Inv, CloseInv, HandlerOver
  <1> QED
    BY <1>6, <1>7, <1>8, <1>9, <1>10 DEF Inv

(* Every step keeps the invariant.                                         *)
LEMMA StepInv == Inv /\ [Next]_vars => Inv'
  <1> SUFFICES ASSUME Inv, [Next]_vars PROVE Inv'
    OBVIOUS
  <1>1. ASSUME NEW c \in Callers, Handler(c) \/ InsertCancelled(c)
        PROVE  Inv'
    BY <1>1, BeginInsertInv, SendRowInv, InsertRepliedInv, InsertCancelledInv DEF Handler
  <1>2. CASE StopAccepting
    BY <1>2, StopAcceptingInv
  <1>3. CASE Close
    BY <1>3, CloseStepInv
  <1>4. CASE Loop
    <2>1. CASE BatchReturns
      BY <2>1, BatchReturnsInv
    <2>2. CASE (LoopStep \/ CallInsertBatch) /\ UNCHANGED <<callerVars, said>>
      BY <2>2, LoopTurnsInv, TakeInv, SendReplyInv DEF LoopStep
    <2> QED
      BY <1>4, <2>1, <2>2 DEF Loop
  <1>5. CASE UNCHANGED vars
    <2>1. /\ UNCHANGED <<queue, gathered, results, loop, stage, reply, inserts, said, returned>>
          /\ UNCHANGED <<closed, last, accepting>>
      BY <1>5 DEF vars, batcherVars, loopVars, callerVars
    <2>2. TypeOK'
      BY <2>1 DEF Inv, TypeOK, BatcherTypeOK
    <2>3. CloseInv'
      BY <2>1 DEF Inv, CloseInv, HandlerOver
    <2> QED
      BY <2>1, <2>2, <2>3, ItemsStay DEF Inv
  <1> QED
    BY <1>1, <1>2, <1>3, <1>4, <1>5 DEF Next, Stopped

(* The batcher's invariant holds in every behaviour.                       *)
THEOREM BatcherInvariant == Spec => []Inv
  BY InitInv, StepInv, PTL DEF Spec

(* What Insert returns is what InsertBatch said of the row it sent, for    *)
(* each call and each of its attempts, however the rows are batched.       *)
THEOREM BatcherOwnOutcome == Spec => []OwnOutcome
  <1>1. Inv => OwnOutcome
    BY DEF Inv, TypeOK, CallerInv, OwnOutcome
  <1> QED
    BY <1>1, BatcherInvariant, PTL

(* A row on its way is in one place, under its call's latest attempt.      *)
LEMMA PlacesOfRows ==
  ASSUME Inv, NEW c \in Callers
  PROVE  /\ \A p, q \in Places(RowOf(c)) : p = q
         /\ Places(RowOf(c)) # {} <=> OnItsWay(c)
  <1>1. /\ \A i \in DOMAIN queue : queue[i].row = RowOf(c) <=> queue[i].call = c
        /\ \A i \in DOMAIN gathered : gathered[i].row = RowOf(c) <=> gathered[i].call = c
    BY DEF Inv, ItemsInv, Current, RowOf
  <1>2. \A p, q \in Places(RowOf(c)) : p = q
    BY <1>1 DEF Places, Inv, ItemsInv, Distinct, Holds
  <1>3. ASSUME OnItsWay(c)
        PROVE  Places(RowOf(c)) # {}
    <2>1. \/ \E i \in DOMAIN queue : queue[i].row = RowOf(c)
          \/ \E i \in DOMAIN gathered : gathered[i].row = RowOf(c)
      BY <1>1, <1>3 DEF OnItsWay, Holds
    <2>2. ASSUME NEW i \in DOMAIN queue, queue[i].row = RowOf(c)
          PROVE  <<"queue", i>> \in Places(RowOf(c))
      BY <2>2 DEF Places
    <2>3. ASSUME NEW i \in DOMAIN gathered, gathered[i].row = RowOf(c)
          PROVE  <<"batch", i>> \in Places(RowOf(c))
      BY <2>3 DEF Places
    <2> QED
      BY <2>1, <2>2, <2>3
  <1>4. ASSUME NEW p \in Places(RowOf(c))
        PROVE  OnItsWay(c)
    BY <1>1 DEF Places, OnItsWay, Holds
  <1> QED
    BY <1>2, <1>3, <1>4

(* A row that was sent and not yet answered is in the channel or in the    *)
(* batch, once; an answered one is in neither.                             *)
THEOREM BatcherKeepsRows == Spec => []SentRowsKept
  <1>1. Inv => SentRowsKept
    BY PlacesOfRows DEF Inv, CallerInv, SentRowsKept
  <1> QED
    BY <1>1, BatcherInvariant, PTL

(* Nobody is inside Insert once the channel is closed, so that no send     *)
(* panics, and the goroutine ends with nothing in hand.                    *)
THEOREM BatcherCloses == Spec => []CleanClose
  <1>1. Inv => CleanClose
    BY DEF Inv, CloseInv, CleanClose
  <1> QED
    BY <1>1, BatcherInvariant, PTL
============================================================================
