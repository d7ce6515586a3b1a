----------------------- MODULE ShortenServiceProofs ------------------------
(***************************************************************************)
(* What InsertBatch guarantees whoever calls it and however long a batch   *)
(* is, an invariant of the repository that every one of its steps keeps;   *)
(* and what the handlers guarantee however their rows reach it.  The       *)
(* proofs about both wirings of the service start from here.               *)
(***************************************************************************)
EXTENDS ShortenService, TLAPS

(* A transaction's position in its batch.                                  *)
BatchShape ==
  \A t \in Txs :
    /\ Len(errs[t]) <= Len(batch[t])
    /\ phase[t] = "closed" => batch[t] = <<>> /\ errs[t] = <<>>
    /\ phase[t] = "classify" =>
         /\ Len(errs[t]) < Len(batch[t])
         /\ \E s \in Visible(t) : Conflicts(Current(t), s)
    /\ phase[t] \in {"commit", "returned"} => Len(errs[t]) = Len(batch[t])

(* Rows written and not yet committed conflict with nothing: not with the  *)
(* table, not with another transaction, not with each other.               *)
Isolated ==
  \A t \in Txs :
    Open(t) =>
      \A r \in Inserted(t) :
        /\ \A s \in short_urls : ~Conflicts(r, s)
        /\ \A s \in Inserted(t) : Conflicts(r, s) => r = s
        /\ \A u \in Txs : u # t /\ Open(u) =>
             \A s \in Inserted(u) : ~Conflicts(r, s)

(* What an outcome says is true when the batch returns.                    *)
OutcomesTrue ==
  \A t \in Txs :
    /\ phase[t] # "failed" =>
         \A i \in DOMAIN errs[t] :
           errs[t][i] = "duplicateKey" =>
             \E s \in Visible(t) : SameKey(batch[t][i], s)
    /\ phase[t] = "returned" => Inserted(t) \subseteq short_urls

OutboxCleared ==
  /\ outbox = {}
  /\ \A t \in Txs :
       /\ kept[t] \subseteq Inserted(t)
       /\ phase[t] \notin {"insert", "classify"} => kept[t] = {}

RepoInv ==
  /\ RepoTypeOK
  /\ BatchShape
  /\ UniqueRows
  /\ Isolated
  /\ OutcomesTrue
  /\ EventPerRow
  /\ OutboxCleared

----------------------------------------------------------------------------
(* Conflicts is reflexive and symmetric.                                   *)
LEMMA ConflictsSymmetric ==
  ASSUME NEW r, NEW s
  PROVE  /\ Conflicts(r, r)
         /\ Conflicts(r, s) => Conflicts(s, r)
  BY DEF Conflicts, SameCode, SameKey

(* The rows a transaction holds belong to its batch.                       *)
LEMMA InsertedInBatch ==
  ASSUME RepoTypeOK, BatchShape, NEW t \in Txs
  PROVE  Inserted(t) \subseteq Row
  BY DEF RepoTypeOK, BatchShape, Inserted

(* Recording an outcome adds the current row to the held ones, or nothing. *)
LEMMA RecordOutcome ==
  ASSUME RepoTypeOK, NEW t \in Txs, NEW e \in RowOutcome,
         errs' = [errs EXCEPT ![t] = Append(@, e)],
         batch' = batch
  PROVE  /\ e = "ok" => Inserted(t)' = Inserted(t) \cup {Current(t)}
         /\ e # "ok" => Inserted(t)' = Inserted(t)
         /\ \A u \in Txs : u # t => Inserted(u)' = Inserted(u)
         /\ Len(errs'[t]) = Len(errs[t]) + 1
         /\ \A i \in DOMAIN errs'[t] :
              \/ i \in DOMAIN errs[t] /\ errs'[t][i] = errs[t][i]
              \/ i = Len(errs[t]) + 1 /\ errs'[t][i] = e
  <1>1. errs[t] \in Seq(RowOutcome) /\ errs'[t] = Append(errs[t], e)
    BY DEF RepoTypeOK
  <1>2. /\ Len(errs'[t]) = Len(errs[t]) + 1
        /\ DOMAIN errs'[t] = 1..(Len(errs[t]) + 1)
        /\ DOMAIN errs[t] = 1..Len(errs[t])
        /\ \A i \in 1..Len(errs[t]) : errs'[t][i] = errs[t][i]
        /\ errs'[t][Len(errs[t]) + 1] = e
        /\ Len(errs[t]) \in Nat
    BY <1>1
  <1>3. \A u \in Txs : u # t => Inserted(u)' = Inserted(u)
    BY DEF Inserted, RepoTypeOK
  <1>4. e = "ok" => Inserted(t)' = Inserted(t) \cup {Current(t)}
    BY <1>2 DEF Inserted, Current
  <1>5. e # "ok" => Inserted(t)' = Inserted(t)
    BY <1>2 DEF Inserted
  <1>6. \A i \in DOMAIN errs'[t] :
          \/ i \in DOMAIN errs[t] /\ errs'[t][i] = errs[t][i]
          \/ i = Len(errs[t]) + 1 /\ errs'[t][i] = e
    BY <1>2
  <1> QED
    BY <1>2, <1>3, <1>4, <1>5, <1>6

----------------------------------------------------------------------------
(* The repository starts within its invariant.                             *)
LEMMA RepoInitInv == RepoInit => RepoInv
  BY DEF RepoInit, RepoInv, RepoTypeOK, BatchShape, UniqueRows, Isolated,
         OutcomesTrue, EventPerRow, OutboxCleared, Inserted, Open

(* Opening a transaction holds nothing yet.                                *)
LEMMA BeginKeepsInv ==
  ASSUME RepoInv, NEW t \in Txs, NEW rows \in Seq(Row), Begin(t, rows)
  PROVE  RepoInv'
  <1> USE DEF RepoInv
  <1>1. RepoTypeOK'
    BY DEF Begin, RepoTypeOK
  <1>2. errs[t] = <<>> /\ batch'[t] = rows /\ phase'[t] = "insert"
    BY DEF Begin, BatchShape, RepoTypeOK
  <1>3. \A u \in Txs : u # t => batch'[u] = batch[u] /\ phase'[u] = phase[u]
    BY DEF Begin, RepoTypeOK
  <1>4. errs' = errs /\ short_urls' = short_urls /\ outbox' = outbox
        /\ wal' = wal /\ kept' = kept
    BY DEF Begin
  <1>5. \A u \in Txs : Inserted(u)' = Inserted(u)
    BY <1>2, <1>3, <1>4 DEF Inserted
  <1>6. Inserted(t) = {} /\ Inserted(t)' = {}
    BY <1>2, <1>5 DEF Inserted
  <1>7. BatchShape'
    BY <1>2, <1>3, <1>4, <1>5 DEF BatchShape, Visible, Current
  <1>8. Isolated'
    BY <1>2, <1>3, <1>4, <1>5, <1>6 DEF Isolated, Open
  <1>9. OutcomesTrue'
    BY <1>2, <1>3, <1>4, <1>5 DEF OutcomesTrue, Visible
  <1>10. UniqueRows' /\ EventPerRow'
    BY <1>4 DEF UniqueRows, EventPerRow
  <1>11. OutboxCleared'
    BY <1>2, <1>3, <1>4, <1>5 DEF OutboxCleared
  <1> QED
    BY <1>1, <1>7, <1>8, <1>9, <1>10, <1>11

(* An inserted row conflicts with nothing, in any transaction.             *)
LEMMA InsertRowKeepsInv ==
  ASSUME RepoInv, NEW t \in Txs, InsertRow(t)
  PROVE  RepoInv'
  <1> USE DEF RepoInv
  <1>1. /\ phase[t] = "insert" /\ phase' = phase /\ batch' = batch
        /\ short_urls' = short_urls /\ outbox' = outbox /\ wal' = wal
        /\ errs' = [errs EXCEPT ![t] = Append(@, "ok")]
        /\ kept' = [kept EXCEPT ![t] = @ \cup {Current(t)}]
        /\ Len(errs[t]) < Len(batch[t])
    BY DEF InsertRow, MoreRows
  <1>2. Current(t) \in Row
    BY <1>1 DEF Current, RepoTypeOK
  <1>3. RepoTypeOK'
    BY <1>1, <1>2 DEF RepoTypeOK, RowOutcome
  <1>4. /\ Inserted(t)' = Inserted(t) \cup {Current(t)}
        /\ \A u \in Txs : u # t => Inserted(u)' = Inserted(u)
        /\ Len(errs'[t]) = Len(errs[t]) + 1
        /\ \A i \in DOMAIN errs'[t] :
              \/ i \in DOMAIN errs[t] /\ errs'[t][i] = errs[t][i]
              \/ i = Len(errs[t]) + 1 /\ errs'[t][i] = "ok"
    BY <1>1, RecordOutcome DEF RowOutcome
  <1>5. \A u \in Txs : u # t => errs'[u] = errs[u] /\ kept'[u] = kept[u]
    BY <1>1 DEF RepoTypeOK
  <1>6. BatchShape'
    <2>1. Len(errs'[t]) <= Len(batch[t])
      BY <1>1, <1>4 DEF RepoTypeOK
    <2> QED
      BY <1>1, <1>4, <1>5, <2>1 DEF BatchShape, Visible, Current
  <1>7. \A s \in short_urls \cup Inserted(t) : ~Conflicts(Current(t), s)
    BY DEF InsertRow, MayInsert, Visible
  <1>8. \A u \in Txs : u # t /\ Open(u) =>
          \A s \in Inserted(u) : ~Conflicts(Current(t), s)
    BY DEF InsertRow, MayInsert, HeldByOthers
  <1>9. \A u \in Txs : Open(u)' <=> Open(u)
    BY <1>1 DEF Open
  <1>10. Isolated'
    <2>1. SUFFICES ASSUME NEW u \in Txs, Open(u), NEW r \in Inserted(u)'
          PROVE  /\ \A s \in short_urls : ~Conflicts(r, s)
                 /\ \A s \in Inserted(u)' : Conflicts(r, s) => r = s
                 /\ \A v \in Txs : v # u /\ Open(v) =>
                      \A s \in Inserted(v)' : ~Conflicts(r, s)
      BY <1>1, <1>9 DEF Isolated, Conflicts, SameCode, SameKey
    <2>2. CASE u = t /\ r = Current(t)
      BY <2>2, <1>4, <1>7, <1>8 DEF Isolated
    <2>3. CASE u = t /\ r # Current(t)
      BY <2>1, <2>3, <1>4, <1>7, ConflictsSymmetric DEF Isolated
    <2>4. CASE u # t
      BY <2>1, <2>4, <1>4, <1>8, ConflictsSymmetric DEF Isolated
    <2> QED
      BY <2>2, <2>3, <2>4
  <1>11. OutcomesTrue'
    <2>1. \A u \in Txs : Visible(u) \subseteq Visible(u)'
      BY <1>1, <1>4 DEF Visible
    <2>2. ASSUME NEW u \in Txs, NEW i \in DOMAIN errs'[u],
                 errs'[u][i] = "duplicateKey", phase[u] # "failed"
          PROVE  \E s \in Visible(u)' : SameKey(batch[u][i], s)
      BY <1>4, <1>5, <2>1, <2>2 DEF OutcomesTrue
    <2>3. ASSUME NEW u \in Txs, phase[u] = "returned"
          PROVE  Inserted(u)' \subseteq short_urls
      BY <1>1, <1>4, <2>3 DEF OutcomesTrue
    <2> QED
      BY <1>1, <2>2, <2>3 DEF OutcomesTrue, SameKey
  <1>12. UniqueRows' /\ EventPerRow'
    BY <1>1 DEF UniqueRows, EventPerRow, Conflicts, SameCode, SameKey
  <1>13. OutboxCleared'
    BY <1>1, <1>4, <1>5 DEF OutboxCleared, RepoTypeOK
  <1> QED
    BY <1>3, <1>6, <1>10, <1>11, <1>12, <1>13

(* A skipped row keeps its reason: rows are never taken back.              *)
LEMMA SkipRowKeepsInv ==
  ASSUME RepoInv, NEW t \in Txs, SkipRow(t)
  PROVE  RepoInv'
  <1> USE DEF RepoInv
  <1>1. /\ phase[t] = "insert" /\ phase'[t] = "classify" /\ batch' = batch
        /\ short_urls' = short_urls /\ outbox' = outbox /\ wal' = wal
        /\ errs' = errs /\ kept' = kept
        /\ \A u \in Txs : u # t => phase'[u] = phase[u]
    BY DEF SkipRow, RepoTypeOK
  <1>2. RepoTypeOK'
    BY DEF SkipRow, RepoTypeOK
  <1>3. \A u \in Txs : Inserted(u)' = Inserted(u) /\ Visible(u)' = Visible(u)
    BY <1>1 DEF Inserted, Visible
  <1>4. Len(errs[t]) < Len(batch[t]) /\ \E s \in Visible(t) : Conflicts(Current(t), s)
    BY DEF SkipRow, MoreRows
  <1>5. BatchShape'
    BY <1>1, <1>3, <1>4 DEF BatchShape, Current, Conflicts, SameCode, SameKey
  <1>6. \A u \in Txs : Open(u)' <=> Open(u)
    BY <1>1 DEF Open
  <1>7. Isolated'
    BY <1>1, <1>3, <1>6 DEF Isolated, Conflicts, SameCode, SameKey
  <1>8. OutcomesTrue'
    BY <1>1, <1>3 DEF OutcomesTrue, SameKey
  <1>9. UniqueRows' /\ EventPerRow'
    BY <1>1 DEF UniqueRows, EventPerRow, Conflicts, SameCode, SameKey
  <1>10. OutboxCleared'
    BY <1>1, <1>3 DEF OutboxCleared
  <1> QED
    BY <1>2, <1>5, <1>7, <1>8, <1>9, <1>10

(* Classifying the conflict later, in a statement of its own, is right: if *)
(* the code is free then, the key was taken when the row was skipped.      *)
LEMMA CodeTakenKeepsInv ==
  ASSUME RepoInv, NEW t \in Txs, CodeTaken(t)
  PROVE  RepoInv'
  <1> USE DEF RepoInv
  <1> DEFINE e == Classification(t)
  <1>1. /\ phase[t] = "classify" /\ phase'[t] = "insert" /\ batch' = batch
        /\ short_urls' = short_urls /\ outbox' = outbox /\ wal' = wal
        /\ errs' = [errs EXCEPT ![t] = Append(@, e)]
        /\ kept' = kept
        /\ \A u \in Txs : u # t => phase'[u] = phase[u]
    BY DEF CodeTaken, RepoTypeOK
  <1>2. e \in RowOutcome /\ e # "ok"
    BY DEF Classification, RowOutcome
  <1>3. RepoTypeOK'
    BY <1>2 DEF CodeTaken, RepoTypeOK
  <1> HIDE DEF e
  <1>4. /\ \A u \in Txs : Inserted(u)' = Inserted(u)
        /\ Len(errs'[t]) = Len(errs[t]) + 1
        /\ \A i \in DOMAIN errs'[t] :
              \/ i \in DOMAIN errs[t] /\ errs'[t][i] = errs[t][i]
              \/ i = Len(errs[t]) + 1 /\ errs'[t][i] = e
    BY <1>1, <1>2, RecordOutcome
  <1>5. \A u \in Txs : Visible(u)' = Visible(u)
    BY <1>1, <1>4 DEF Visible
  <1>6. \A u \in Txs : u # t => errs'[u] = errs[u]
    BY <1>1 DEF RepoTypeOK
  <1>7. Len(errs[t]) < Len(batch[t])
    BY <1>1 DEF BatchShape
  <1>8. BatchShape'
    <2>1. Len(errs'[t]) <= Len(batch[t])
      BY <1>4, <1>7 DEF RepoTypeOK
    <2> QED
      BY <1>1, <1>4, <1>5, <1>6, <2>1 DEF BatchShape, Current
  <1>9. \A u \in Txs : Open(u)' <=> Open(u)
    BY <1>1 DEF Open
  <1>10. Isolated'
    BY <1>1, <1>4, <1>9 DEF Isolated, Conflicts, SameCode, SameKey
  <1>11. OutcomesTrue'
    <2>1. e = "duplicateKey" => \E s \in Visible(t) : SameKey(Current(t), s)
      BY <1>1 DEF BatchShape, e, Classification, Conflicts
    <2>2. ASSUME NEW u \in Txs, phase'[u] # "failed", NEW i \in DOMAIN errs'[u],
                 errs'[u][i] = "duplicateKey"
          PROVE  \E s \in Visible(u)' : SameKey(batch[u][i], s)
      BY <1>1, <1>4, <1>5, <1>6, <2>1, <2>2 DEF OutcomesTrue, Current
    <2>3. ASSUME NEW u \in Txs, phase'[u] = "returned"
          PROVE  Inserted(u)' \subseteq short_urls
      BY <1>1, <1>4, <2>3 DEF OutcomesTrue
    <2> QED
      BY <1>1, <2>2, <2>3 DEF OutcomesTrue, SameKey
  <1>12. UniqueRows' /\ EventPerRow'
    BY <1>1 DEF UniqueRows, EventPerRow, Conflicts, SameCode, SameKey
  <1>13. OutboxCleared'
    BY <1>1, <1>4 DEF OutboxCleared
  <1> QED
    BY <1>3, <1>8, <1>10, <1>11, <1>12, <1>13

(* A batch of duplicates returns without a commit; every outcome is there. *)
LEMMA NothingInsertedKeepsInv ==
  ASSUME RepoInv, NEW t \in Txs, NothingInserted(t)
  PROVE  RepoInv'
  <1> USE DEF RepoInv
  <1>1. /\ phase[t] = "insert" /\ phase'[t] = "returned" /\ batch' = batch
        /\ short_urls' = short_urls /\ outbox' = outbox /\ wal' = wal
        /\ errs' = errs /\ kept' = kept
        /\ \A u \in Txs : u # t => phase'[u] = phase[u]
    BY DEF NothingInserted, RepoTypeOK
  <1>2. RepoTypeOK'
    BY DEF NothingInserted, RepoTypeOK
  <1>3. \A u \in Txs : Inserted(u)' = Inserted(u) /\ Visible(u)' = Visible(u)
    BY <1>1 DEF Inserted, Visible
  <1>4. Len(errs[t]) = Len(batch[t]) /\ Inserted(t) = {}
    BY DEF NothingInserted, MoreRows, BatchShape, RepoTypeOK
  <1>5. BatchShape'
    BY <1>1, <1>3, <1>4 DEF BatchShape, Current, Conflicts, SameCode, SameKey
  <1>6. Isolated'
    BY <1>1, <1>3 DEF Isolated, Open, Conflicts, SameCode, SameKey
  <1>7. OutcomesTrue'
    BY <1>1, <1>3, <1>4 DEF OutcomesTrue, SameKey
  <1>8. UniqueRows' /\ EventPerRow'
    BY <1>1 DEF UniqueRows, EventPerRow, Conflicts, SameCode, SameKey
  <1>9. OutboxCleared'
    BY <1>1, <1>3, <1>4 DEF OutboxCleared
  <1> QED
    BY <1>2, <1>5, <1>6, <1>7, <1>8, <1>9

(* After the DELETE nothing of the transaction is left in the outbox.      *)
LEMMA ClearOutboxKeepsInv ==
  ASSUME RepoInv, NEW t \in Txs, ClearOutbox(t)
  PROVE  RepoInv'
  <1> USE DEF RepoInv
  <1>1. /\ phase[t] = "insert" /\ phase'[t] = "commit" /\ batch' = batch
        /\ short_urls' = short_urls /\ outbox' = outbox /\ wal' = wal
        /\ errs' = errs
        /\ \A u \in Txs : u # t => phase'[u] = phase[u] /\ kept'[u] = kept[u]
        /\ kept'[t] = kept[t] \ Inserted(t)
    BY DEF ClearOutbox, Deleted, RepoTypeOK
  <1>2. RepoTypeOK'
    BY DEF ClearOutbox, RepoTypeOK
  <1>3. \A u \in Txs : Inserted(u)' = Inserted(u) /\ Visible(u)' = Visible(u)
    BY <1>1 DEF Inserted, Visible
  <1>4. Len(errs[t]) = Len(batch[t])
    BY DEF ClearOutbox, MoreRows, BatchShape, RepoTypeOK
  <1>5. BatchShape'
    BY <1>1, <1>3, <1>4 DEF BatchShape, Current, Conflicts, SameCode, SameKey
  <1>6. \A u \in Txs : Open(u)' <=> Open(u)
    BY <1>1 DEF Open
  <1>7. Isolated'
    BY <1>1, <1>3, <1>6 DEF Isolated, Conflicts, SameCode, SameKey
  <1>8. OutcomesTrue'
    BY <1>1, <1>3 DEF OutcomesTrue, SameKey
  <1>9. UniqueRows' /\ EventPerRow'
    BY <1>1 DEF UniqueRows, EventPerRow, Conflicts, SameCode, SameKey
  <1>10. OutboxCleared'
    BY <1>1, <1>3 DEF OutboxCleared
  <1> QED
    BY <1>2, <1>5, <1>7, <1>8, <1>9, <1>10

(* A commit publishes rows that conflict with nothing, and with them their *)
(* events, whether or not the client hears of it.                          *)
LEMMA CommittedKeepsInv ==
  ASSUME RepoInv, NEW t \in Txs, phase[t] = "commit", Committed(t),
         NEW p \in {"returned", "failed"}, phase' = [phase EXCEPT ![t] = p],
         UNCHANGED <<batch, errs>>
  PROVE  RepoInv'
  <1> USE DEF RepoInv
  <1> DEFINE new == Inserted(t)
  <1>1. /\ phase'[t] = p /\ batch' = batch /\ errs' = errs
        /\ short_urls' = short_urls \cup new
        /\ outbox' = outbox \cup kept[t]
        /\ wal' = Append(wal, new)
        /\ kept'[t] = {}
        /\ \A u \in Txs : u # t => phase'[u] = phase[u] /\ kept'[u] = kept[u]
    BY DEF Committed, RepoTypeOK
  <1>2. new \subseteq Row
    BY InsertedInBatch
  <1>3. RepoTypeOK'
    BY <1>1, <1>2 DEF RepoTypeOK, Committed
  <1>4. /\ \A u \in Txs : Inserted(u)' = Inserted(u)
        /\ \A u \in Txs : Visible(u) \subseteq Visible(u)'
    BY <1>1 DEF Inserted, Visible
  <1>5. \A r \in new :
          /\ \A s \in short_urls : ~Conflicts(r, s)
          /\ \A s \in new : Conflicts(r, s) => r = s
          /\ \A u \in Txs : u # t /\ Open(u) =>
               \A s \in Inserted(u) : ~Conflicts(r, s)
    BY DEF Isolated, Open
  <1> HIDE DEF new
  <1>6. BatchShape'
    BY <1>1, <1>4 DEF BatchShape, Current, Conflicts, SameCode, SameKey
  <1>7. UniqueRows'
    <2>1. ASSUME NEW r \in short_urls', NEW s \in short_urls', Conflicts(r, s)
          PROVE  r = s
      BY <1>1, <1>5, <2>1, ConflictsSymmetric DEF UniqueRows
    <2> QED
      BY <2>1 DEF UniqueRows, Conflicts, SameCode, SameKey
  <1>8. Isolated'
    <2>1. \A u \in Txs : Open(u)' => u # t /\ Open(u)
      BY <1>1 DEF Open
    <2>2. ASSUME NEW u \in Txs, u # t, Open(u), NEW r \in Inserted(u)
          PROVE  /\ \A s \in short_urls' : ~Conflicts(r, s)
                 /\ \A s \in Inserted(u) : Conflicts(r, s) => r = s
                 /\ \A v \in Txs : v # u /\ Open(v) =>
                      \A s \in Inserted(v) : ~Conflicts(r, s)
      BY <1>1, <1>5, <2>2, ConflictsSymmetric DEF Isolated
    <2> QED
      BY <1>4, <2>1, <2>2 DEF Isolated, Conflicts, SameCode, SameKey
  <1>9. OutcomesTrue'
    <2>1. Inserted(t) \subseteq short_urls'
      BY <1>1 DEF new
    <2>2. ASSUME NEW u \in Txs, phase'[u] # "failed", NEW i \in DOMAIN errs[u],
                 errs[u][i] = "duplicateKey"
          PROVE  \E s \in Visible(u)' : SameKey(batch[u][i], s)
      <3>1. phase[u] # "failed"
        BY <1>1, <2>2
      <3> QED
        BY <1>4, <2>2, <3>1 DEF OutcomesTrue
    <2>3. ASSUME NEW u \in Txs, phase'[u] = "returned"
          PROVE  Inserted(u)' \subseteq short_urls'
      BY <1>1, <1>4, <2>1, <2>3 DEF OutcomesTrue
    <2> QED
      BY <1>1, <2>2, <2>3 DEF OutcomesTrue, SameKey
  <1>10. EventPerRow'
    <2>1. wal \in Seq(SUBSET Row) /\ new \in SUBSET Row
      BY <1>2 DEF RepoTypeOK
    <2>2. /\ DOMAIN wal' = 1..(Len(wal) + 1) /\ DOMAIN wal = 1..Len(wal)
          /\ \A i \in 1..Len(wal) : wal'[i] = wal[i]
          /\ wal'[Len(wal) + 1] = new
          /\ Len(wal) \in Nat
      BY <1>1, <2>1
    <2>3. short_urls' = UNION {wal'[i] : i \in DOMAIN wal'}
      BY <1>1, <2>2 DEF EventPerRow
    <2>4. new \cap short_urls = {}
      BY <1>5, ConflictsSymmetric
    <2>5. \A i \in 1..Len(wal) : wal[i] \cap new = {}
      BY <2>2, <2>4 DEF EventPerRow
    <2>6. \A i, j \in DOMAIN wal' : i # j => wal'[i] \cap wal'[j] = {}
      BY <2>2, <2>5 DEF EventPerRow
    <2> QED
      BY <2>3, <2>6 DEF EventPerRow
  <1>11. OutboxCleared'
    BY <1>1, <1>4 DEF OutboxCleared
  <1> QED
    BY <1>3, <1>6, <1>7, <1>8, <1>9, <1>10, <1>11

(* Transactions that end without committing leave nothing behind.          *)
LEMMA RollbackKeepsInv ==
  ASSUME RepoInv, NEW S \in SUBSET Txs, \A t \in S : Open(t),
         phase' = [t \in Txs |-> IF t \in S THEN "failed" ELSE phase[t]],
         kept' = [t \in Txs |-> IF t \in S THEN {} ELSE kept[t]],
         UNCHANGED <<short_urls, outbox, wal, batch, errs>>
  PROVE  RepoInv'
  <1> USE DEF RepoInv
  <1>1. RepoTypeOK'
    BY DEF RepoTypeOK
  <1>2. \A u \in Txs : Inserted(u)' = Inserted(u) /\ Visible(u)' = Visible(u)
    BY DEF Inserted, Visible
  <1>3. BatchShape'
    BY <1>2 DEF BatchShape, Current, Conflicts, SameCode, SameKey
  <1>4. Isolated'
    BY <1>2 DEF Isolated, Open, Conflicts, SameCode, SameKey
  <1>5. OutcomesTrue'
    BY <1>2 DEF OutcomesTrue, SameKey
  <1>6. UniqueRows' /\ EventPerRow'
    BY DEF UniqueRows, EventPerRow, Conflicts, SameCode, SameKey
  <1>7. OutboxCleared'
    BY <1>2 DEF OutboxCleared
  <1> QED
    BY <1>1, <1>3, <1>4, <1>5, <1>6, <1>7

(* The caller takes the outcomes and the transaction is forgotten.         *)
LEMMA EndKeepsInv ==
  ASSUME RepoInv, NEW t \in Txs, End(t)
  PROVE  RepoInv'
  <1> USE DEF RepoInv
  <1>1. /\ phase[t] \in {"returned", "failed"}
        /\ phase'[t] = "closed" /\ batch'[t] = <<>> /\ errs'[t] = <<>>
        /\ short_urls' = short_urls /\ outbox' = outbox /\ wal' = wal
        /\ kept' = kept
        /\ \A u \in Txs : u # t =>
             phase'[u] = phase[u] /\ batch'[u] = batch[u] /\ errs'[u] = errs[u]
    BY DEF End, RepoTypeOK
  <1>2. RepoTypeOK'
    BY DEF End, RepoTypeOK
  <1>3. Inserted(t)' = {}
    BY <1>1 DEF Inserted
  <1>4. \A u \in Txs : u # t => Inserted(u)' = Inserted(u) /\ Visible(u)' = Visible(u)
    BY <1>1 DEF Inserted, Visible
  <1>5. BatchShape'
    BY <1>1, <1>4 DEF BatchShape, Current, Conflicts, SameCode, SameKey
  <1>6. Isolated'
    BY <1>1, <1>3, <1>4 DEF Isolated, Open, Conflicts, SameCode, SameKey
  <1>7. OutcomesTrue'
    BY <1>1, <1>3, <1>4 DEF OutcomesTrue, SameKey
  <1>8. UniqueRows' /\ EventPerRow'
    BY <1>1 DEF UniqueRows, EventPerRow, Conflicts, SameCode, SameKey
  <1>9. OutboxCleared'
    BY <1>1, <1>3, <1>4 DEF OutboxCleared
  <1> QED
    BY <1>2, <1>5, <1>6, <1>7, <1>8, <1>9

----------------------------------------------------------------------------
(* Every step of the repository, a dying process included, keeps the       *)
(* invariant.                                                              *)
LEMMA RepoStepKeepsInv ==
  ASSUME RepoInv, NEW t \in Txs,
         RepoProgress(t) \/ RepoFault(t) \/ End(t) \/ DropConnections
  PROVE  RepoInv'
  <1>1. CASE InsertRow(t)
    BY <1>1, InsertRowKeepsInv
  <1>2. CASE SkipRow(t)
    BY <1>2, SkipRowKeepsInv
  <1>3. CASE CodeTaken(t)
    BY <1>3, CodeTakenKeepsInv
  <1>4. CASE NothingInserted(t)
    BY <1>4, NothingInsertedKeepsInv
  <1>5. CASE ClearOutbox(t)
    BY <1>5, ClearOutboxKeepsInv
  <1>6. CASE Commit(t)
    BY <1>6, CommittedKeepsInv DEF Commit
  <1>7. CASE CommitLost(t)
    BY <1>7, CommittedKeepsInv DEF CommitLost
  <1>8. CASE Fail(t)
    <2> DEFINE S == {t}
    <2>1. /\ S \in SUBSET Txs /\ \A u \in S : Open(u)
          /\ phase' = [u \in Txs |-> IF u \in S THEN "failed" ELSE phase[u]]
          /\ kept' = [u \in Txs |-> IF u \in S THEN {} ELSE kept[u]]
      BY <1>8 DEF Fail, RepoInv, RepoTypeOK
    <2> HIDE DEF S
    <2> QED
      BY <1>8, <2>1, RollbackKeepsInv DEF Fail
  <1>9. CASE End(t)
    BY <1>9, EndKeepsInv
  <1>10. CASE DropConnections
    <2> DEFINE S == {u \in Txs : phase[u] \in {"insert", "classify"}}
    <2>1. /\ S \in SUBSET Txs /\ \A u \in S : Open(u)
          /\ phase' = [u \in Txs |-> IF u \in S THEN "failed" ELSE phase[u]]
          /\ kept' = [u \in Txs |-> IF u \in S THEN {} ELSE kept[u]]
      BY <1>10 DEF DropConnections, Open
    <2> HIDE DEF S
    <2> QED
      BY <1>10, <2>1, RollbackKeepsInv DEF DropConnections
  <1> QED
    BY <1>1, <1>2, <1>3, <1>4, <1>5, <1>6, <1>7, <1>8, <1>9, <1>10
       DEF RepoProgress, RepoFault

(* What a commit adds to the WAL: rows whose codes none of its rows has    *)
(* had, and no two of them share.                                          *)
CommitsNewRows ==
  \E R \in SUBSET Row :
    /\ wal' = Append(wal, R)
    /\ \A r, s \in R : r.code = s.code => r = s
    /\ \A i \in DOMAIN wal : \A r \in R, s \in wal[i] : r.code # s.code

(* A transaction adds such rows when it commits, and nothing before.       *)
LEMMA WalGrows ==
  ASSUME RepoInv, NEW t \in Txs, RepoProgress(t) \/ RepoFault(t)
  PROVE  CommitsNewRows \/ UNCHANGED wal
  <1>1. CASE Commit(t) \/ CommitLost(t)
    <2>1. wal' = Append(wal, Inserted(t)) /\ Open(t)
      BY <1>1 DEF Commit, CommitLost, Committed, Open
    <2>2. Inserted(t) \in SUBSET Row
      BY InsertedInBatch DEF RepoInv
    <2>3. \A r, s \in Inserted(t) : r.code = s.code => r = s
      BY <2>1 DEF RepoInv, Isolated, Conflicts, SameCode
    <2>4. ASSUME NEW i \in DOMAIN wal, NEW r \in Inserted(t), NEW s \in wal[i]
          PROVE  r.code # s.code
      <3>1. s \in short_urls
        BY DEF RepoInv, EventPerRow
      <3> QED
        BY <2>1, <3>1 DEF RepoInv, Isolated, Conflicts, SameCode
    <2> QED
      BY <2>1, <2>2, <2>3, <2>4 DEF CommitsNewRows
  <1>2. CASE ~(Commit(t) \/ CommitLost(t))
    BY <1>2 DEF RepoProgress, RepoFault, InsertRow, SkipRow, CodeTaken, NothingInserted,
                ClearOutbox, Fail
  <1> QED
    BY <1>1, <1>2

(* A step that leaves the repository alone keeps its invariant.            *)
LEMMA RepoStutterKeepsInv ==
  ASSUME RepoInv, UNCHANGED repoVars
  PROVE  RepoInv'
  <1> USE DEF repoVars, RepoInv
  <1>1. \A u \in Txs : Inserted(u)' = Inserted(u) /\ Visible(u)' = Visible(u)
    BY DEF Inserted, Visible
  <1>2. RepoTypeOK' /\ UniqueRows' /\ EventPerRow'
    BY DEF RepoTypeOK, UniqueRows, EventPerRow, Conflicts, SameCode, SameKey
  <1>3. BatchShape'
    BY <1>1 DEF BatchShape, Current, Conflicts, SameCode, SameKey
  <1>4. Isolated'
    BY <1>1 DEF Isolated, Open, Conflicts, SameCode, SameKey
  <1>5. OutcomesTrue' /\ OutboxCleared'
    BY <1>1 DEF OutcomesTrue, OutboxCleared, SameKey
  <1> QED
    BY <1>2, <1>3, <1>4, <1>5

----------------------------------------------------------------------------
(* The handlers, however their inserts are carried out.                    *)

AskingPc == {"lookup", "generate", "insert", "reread"}

(* What a call was asked is known by its place and valid while it is under *)
(* way, and only an ended call has an answer.                              *)
Placed(c) ==
  /\ pc[c] = "idle" => req[c] = NoRequest /\ wanted[c] = NoCode
  /\ pc[c] \in AskingPc => req[c] \in Requests /\ Valid(req[c])
  /\ pc[c] \in {"lookup", "reread"} => req[c].key # NoKey
  /\ pc[c] = "get" => wanted[c] \in Codes /\ req[c] = NoRequest
  /\ pc[c] # "done" => resp[c] = Failure("none")

(* An answer reports a committed row of the right owner and key.           *)
Told(c) ==
  resp[c].status = "OK" =>
    /\ resp[c].row \in short_urls
    /\ req[c] # NoRequest =>
         /\ resp[c].row.owner = req[c].owner
         /\ resp[c].row.key = req[c].key
         /\ resp[c].created => resp[c].row.url = req[c].url

(* Only the call that made a row says it created it.                       *)
Created(c) ==
  resp[c].created => resp[c].status = "OK" /\ resp[c].row.createdAt = c

(* A call told that its key exists has a row to read.                      *)
Winner(c) ==
  pc[c] = "reread" => GetByIdempotencyKey(req[c].owner, req[c].key) # {}

(* What holds of a call whichever way its rows take to the repository.     *)
Answering(c) == Placed(c) /\ Told(c) /\ Created(c) /\ Winner(c)

(* A row is the one its call built around the row's code.                  *)
BuiltBy(c, r) == r \in Row /\ r = NewRow(c, r.code)

(* The steps of a handler by what they do; Reread has two outcomes.        *)
RereadFinds(c) ==
  /\ pc[c] = "reread"
  /\ \E r \in GetByIdempotencyKey(req[c].owner, req[c].key) :
       Answer(c, Success(r, FALSE))
  /\ UNCHANGED <<req, wanted, attempt, row, repoVars>>

RereadMisses(c) ==
  /\ pc[c] = "reread"
  /\ Answer(c, Failure("Internal"))
  /\ UNCHANGED <<req, wanted, attempt, row, repoVars>>

(* A step of a handler that does not insert.                               *)
Between(c) == ServiceAsk(c) \/ ServiceProgress(c) \/ StepFails(c)

(* The steps of a handler, one by one.                                     *)
LEMMA ProgressCases ==
  \A c \in Calls :
    ServiceProgress(c) =>
      \/ LookupFinds(c) \/ LookupMisses(c) \/ Exhausted(c)
      \/ RereadFinds(c) \/ RereadMisses(c) \/ GetReads(c)
  <1>1. ASSUME NEW c \in Calls, Reread(c)
        PROVE  RereadFinds(c) \/ RereadMisses(c)
    BY <1>1 DEF Reread, RereadFinds, RereadMisses
  <1> QED
    BY <1>1 DEF ServiceProgress

(* A call builds rows.                                                     *)
LEMMA NewRowIsRow ==
  ASSUME NEW c \in Calls, NEW code \in Codes, req[c] \in Requests
  PROVE  NewRow(c, code) \in Row
  BY RequestsAssumption, StampAssumption DEF NewRow, Row

(* The answers the handlers build are responses.                           *)
LEMMA ResponseTypes ==
  /\ \A status \in Status : Failure(status) \in Response
  /\ \A r \in Row, created \in BOOLEAN : Success(r, created) \in Response
  BY DEF Failure, Success, Response, Status

(* The two ways a handler's statement ends keep the types.                 *)
LEMMA StatementType ==
  ASSUME ServiceTypeOK, NEW c \in Calls
  PROVE  /\ \A response \in Response :
              Answer(c, response) =>
                /\ resp' \in [Calls -> Response]
                /\ pc' \in [Calls -> {"idle", "lookup", "generate", "insert",
                                      "reread", "get", "done"}]
         /\ \A label \in {"lookup", "generate", "insert", "reread", "get"} :
              Goto(c, label) =>
                /\ resp' \in [Calls -> Response]
                /\ pc' \in [Calls -> {"idle", "lookup", "generate", "insert",
                                      "reread", "get", "done"}]
  BY DEF ServiceTypeOK, Answer, Goto

(* The handlers start with their types.                                    *)
LEMMA ServiceInitType == ServiceInit => ServiceTypeOK
  BY RetriesAssumption DEF ServiceInit, ServiceTypeOK, Failure, Response, Status

(* Asking, reading and failing keep the types.                             *)
LEMMA BetweenType ==
  ASSUME ServiceTypeOK, short_urls \subseteq Row, NEW c \in Calls, Between(c)
  PROVE  ServiceTypeOK'
  <1> DEFINE Pcs == {"idle", "lookup", "generate", "insert", "reread", "get", "done"}
  <1>1. CASE ServiceAsk(c)
    <2>1. resp' \in [Calls -> Response] /\ pc' \in [Calls -> Pcs]
      BY <1>1, ResponseTypes, StatementType DEF ServiceAsk, Accept, Reject, AskGet, Status
    <2> QED
      BY <1>1, <2>1 DEF ServiceAsk, Accept, Reject, AskGet, ServiceTypeOK
  <1>2. CASE ServiceProgress(c)
    <2>1. resp' \in [Calls -> Response] /\ pc' \in [Calls -> Pcs]
      BY <1>2, ResponseTypes, StatementType, ProgressCases
         DEF LookupFinds, LookupMisses, Exhausted, RereadFinds, RereadMisses, GetReads,
             GetByCode, GetByIdempotencyKey, Status
    <2> QED
      BY <1>2, <2>1, ProgressCases
         DEF LookupFinds, LookupMisses, Exhausted, RereadFinds, RereadMisses, GetReads,
             ServiceTypeOK
  <1>3. CASE StepFails(c)
    <2>1. resp' \in [Calls -> Response] /\ pc' \in [Calls -> Pcs]
      BY <1>3, ResponseTypes, StatementType DEF StepFails, Status
    <2> QED
      BY <1>3, <2>1 DEF StepFails, ServiceTypeOK
  <1> QED
    BY <1>1, <1>2, <1>3 DEF Between

(* A new attempt keeps the types.                                          *)
LEMMA GenerateType ==
  ASSUME ServiceTypeOK, NEW c \in Calls, NEW code \in Codes, req[c] \in Requests,
         Generate(c, code)
  PROVE  ServiceTypeOK'
  <1>1. NewRow(c, code) \in Row
    BY NewRowIsRow
  <1>2. attempt[c] + 1 \in 0..MaxRetries
    BY RetriesAssumption DEF Generate, ServiceTypeOK
  <1>3. /\ resp' \in [Calls -> Response]
        /\ pc' \in [Calls -> {"idle", "lookup", "generate", "insert", "reread", "get",
                              "done"}]
    BY StatementType DEF Generate
  <1> QED
    BY <1>1, <1>2, <1>3 DEF Generate, ServiceTypeOK

(* An Insert that returns keeps the types.                                 *)
LEMMA ReturnsType ==
  ASSUME ServiceTypeOK, NEW c \in Calls, row[c] \in Row, NEW err, InsertReturns(c, err)
  PROVE  ServiceTypeOK'
  <1>1. /\ resp' \in [Calls -> Response]
        /\ pc' \in [Calls -> {"idle", "lookup", "generate", "insert", "reread", "get",
                              "done"}]
    BY ResponseTypes, StatementType DEF InsertReturns, Status
  <1> QED
    BY <1>1 DEF InsertReturns, ServiceTypeOK

(* So does the end of all handlers.                                        *)
LEMMA LoseCallsType ==
  ASSUME ServiceTypeOK, LoseCalls
  PROVE  ServiceTypeOK'
  <1>1. resp' \in [Calls -> Response]
    BY ResponseTypes DEF LoseCalls, Status, ServiceTypeOK
  <1> QED
    BY <1>1 DEF LoseCalls, ServiceTypeOK

----------------------------------------------------------------------------
(* What holds of every call is kept by the steps of the handlers.          *)

(* Nobody has been told anything yet.                                      *)
LEMMA ServiceInitAnswering ==
  ASSUME ServiceInit, NEW c \in Calls
  PROVE  Answering(c)
  BY DEF ServiceInit, Answering, Placed, Told, Created, Winner, AskingPc, Failure

(* A call that a step does not touch keeps it, as rows are never taken     *)
(* back.                                                                   *)
LEMMA AnsweringFrame ==
  ASSUME NEW d \in Calls, Answering(d), short_urls \subseteq short_urls',
         pc'[d] = pc[d], req'[d] = req[d], wanted'[d] = wanted[d], resp'[d] = resp[d]
  PROVE  Answering(d)'
  BY DEF Answering, Placed, Told, Created, Winner, GetByIdempotencyKey

(* An ended call only has to have told the truth.                          *)
LEMMA EndedCall ==
  ASSUME ServiceTypeOK, NEW c \in Calls, NEW response \in Response,
         Answer(c, response), req' = req, wanted' = wanted,
         short_urls \subseteq short_urls',
         response.status = "OK" =>
           /\ response.row \in short_urls
           /\ req[c] # NoRequest =>
                /\ response.row.owner = req[c].owner /\ response.row.key = req[c].key
                /\ response.created => response.row.url = req[c].url,
         response.created => response.status = "OK" /\ response.row.createdAt = c
  PROVE  Answering(c)'
  <1>1. pc'[c] = "done" /\ resp'[c] = response
    BY DEF Answer, ServiceTypeOK
  <1>2. Placed(c)' /\ Winner(c)'
    BY <1>1 DEF Placed, AskingPc, Winner
  <1>3. Told(c)' /\ Created(c)'
    BY <1>1 DEF Told, Created
  <1> QED
    BY <1>2, <1>3 DEF Answering

(* A refusal is the truth.                                                 *)
LEMMA RefusedCall ==
  ASSUME ServiceTypeOK, NEW c \in Calls, NEW status \in Status \ {"OK"},
         Answer(c, Failure(status))
  PROVE  Answering(c)'
  <1>1. pc'[c] = "done" /\ resp'[c] = Failure(status)
    BY DEF Answer, ServiceTypeOK
  <1> QED
    BY <1>1 DEF Answering, Placed, AskingPc, Winner, Told, Created, Failure

(* A step of one call leaves the others' places alone.                     *)
LEMMA BetweenOthers ==
  ASSUME ServiceTypeOK, NEW c \in Calls, Between(c)
  PROVE  /\ UNCHANGED <<repoVars, row>>
         /\ \A d \in Calls : d # c =>
              /\ pc'[d] = pc[d] /\ req'[d] = req[d] /\ wanted'[d] = wanted[d]
              /\ resp'[d] = resp[d]
  <1>1. CASE ServiceAsk(c)
    BY <1>1 DEF ServiceAsk, Accept, Reject, AskGet, Answer, Goto, ServiceTypeOK
  <1>2. CASE ServiceProgress(c) \/ StepFails(c)
    BY <1>2, ProgressCases
       DEF LookupFinds, LookupMisses, Exhausted, RereadFinds, RereadMisses, GetReads,
           StepFails, Answer, Goto, ServiceTypeOK
  <1> QED
    BY <1>1, <1>2 DEF Between

(* A step between inserts starts and ends outside of repo.Insert.          *)
LEMMA BetweenPlaces ==
  ASSUME ServiceTypeOK, NEW c \in Calls, Between(c)
  PROVE  pc[c] \notin {"insert", "done"} /\ pc'[c] \notin {"idle", "insert"}
  <1>1. CASE ServiceAsk(c)
    BY <1>1 DEF ServiceAsk, Accept, Reject, AskGet, Answer, Goto, ServiceTypeOK
  <1>2. CASE ServiceProgress(c) \/ StepFails(c)
    BY <1>2, ProgressCases
       DEF LookupFinds, LookupMisses, Exhausted, RereadFinds, RereadMisses, GetReads,
           StepFails, Answer, Goto, ServiceTypeOK
  <1> QED
    BY <1>1, <1>2 DEF Between

(* Asking, reading and failing keep what holds of every call.              *)
LEMMA BetweenAnswering ==
  ASSUME ServiceTypeOK, short_urls \subseteq Row, NEW c \in Calls, Between(c),
         \A d \in Calls : Answering(d)
  PROVE  \A d \in Calls : Answering(d)'
  <1>1. short_urls' = short_urls
    BY BetweenOthers DEF repoVars
  <1>2. \A d \in Calls : d # c => Answering(d)'
    BY <1>1, BetweenOthers, AnsweringFrame
  <1> SUFFICES Answering(c)'
    BY <1>2
  <1>3. Answering(c)
    OBVIOUS
  <1>4. ASSUME NEW r \in short_urls, Answer(c, Success(r, FALSE)), req' = req,
               wanted' = wanted,
               req[c] # NoRequest => r.owner = req[c].owner /\ r.key = req[c].key
        PROVE  Answering(c)'
    <2>1. Success(r, FALSE) \in Response
      BY ResponseTypes
    <2> QED
      BY <1>1, <1>4, <2>1, EndedCall DEF Success
  <1>5. ASSUME NEW r \in Requests, Accept(c, r)
        PROVE  Answering(c)'
    <2>1. /\ req'[c] = r /\ resp' = resp /\ Valid(r) /\ pc[c] = "idle"
          /\ pc'[c] = IF r.key = NoKey THEN "generate" ELSE "lookup"
      BY <1>5 DEF Accept, Goto, ServiceTypeOK
    <2> QED
      BY <1>3, <2>1
         DEF Answering, Placed, Told, Created, Winner, AskingPc, Failure, Valid, ValidOwnerKey
  <1>6. ASSUME NEW code \in Codes \cup {NoCode}, AskGet(c, code)
        PROVE  Answering(c)'
    <2>1. CASE code = NoCode
      BY <1>6, <2>1, RefusedCall DEF AskGet, Status
    <2>2. CASE code # NoCode
      <3>1. /\ wanted'[c] = code /\ req' = req /\ resp' = resp /\ pc[c] = "idle"
            /\ pc'[c] = "get"
        BY <1>6, <2>2 DEF AskGet, Goto, ServiceTypeOK
      <3> QED
        BY <1>3, <2>2, <3>1 DEF Answering, Placed, Told, Created, Winner, AskingPc, Failure
    <2> QED
      BY <2>1, <2>2
  <1>7. CASE LookupMisses(c)
    <2>1. pc'[c] = "generate" /\ pc[c] = "lookup" /\ resp' = resp /\ req' = req
      BY <1>7 DEF LookupMisses, Goto, ServiceTypeOK
    <2> QED
      BY <1>3, <2>1
         DEF Answering, Placed, Told, Created, Winner, AskingPc, Failure, Valid, ValidOwnerKey
  <1>8. CASE LookupFinds(c) \/ RereadFinds(c)
    BY <1>4, <1>8 DEF LookupFinds, RereadFinds, GetByIdempotencyKey
  <1>9. CASE GetReads(c)
    <2>1. req[c] = NoRequest
      BY <1>9 DEF GetReads, Answering, Placed
    <2> QED
      BY <1>4, <1>9, <2>1, RefusedCall DEF GetReads, GetByCode, Status
  <1>10. CASE Exhausted(c) \/ RereadMisses(c) \/ StepFails(c)
    BY <1>10, RefusedCall DEF Exhausted, RereadMisses, StepFails, Status
  <1>11. ASSUME NEW r \in Requests, Reject(c, r)
         PROVE  Answering(c)'
    BY <1>11, RefusedCall DEF Reject, Status
  <1> QED
    BY <1>5, <1>6, <1>7, <1>8, <1>9, <1>10, <1>11, ProgressCases DEF Between, ServiceAsk

(* So does a new attempt ...                                               *)
LEMMA GenerateAnswering ==
  ASSUME ServiceTypeOK, NEW c \in Calls, NEW code \in Codes, Generate(c, code),
         short_urls' = short_urls, \A d \in Calls : Answering(d)
  PROVE  /\ \A d \in Calls : Answering(d)'
         /\ pc[c] = "generate" /\ pc'[c] = "insert"
         /\ req[c] \in Requests /\ Valid(req[c]) /\ req' = req
         /\ row'[c] = NewRow(c, code) /\ NewRow(c, code) \in Row
         /\ \A d \in Calls : d # c => pc'[d] = pc[d] /\ row'[d] = row[d]
  <1>1. /\ pc[c] = "generate" /\ pc'[c] = "insert" /\ resp' = resp /\ req' = req
        /\ wanted' = wanted /\ row'[c] = NewRow(c, code)
        /\ \A d \in Calls : d # c => pc'[d] = pc[d] /\ row'[d] = row[d]
    BY DEF Generate, Goto, ServiceTypeOK
  <1>2. \A d \in Calls : d # c => Answering(d)'
    BY <1>1, AnsweringFrame
  <1>3. Answering(c)'
    BY <1>1 DEF Answering, Placed, Told, Created, Winner, AskingPc, Failure
  <1>4. req[c] \in Requests /\ Valid(req[c])
    BY <1>1 DEF Answering, Placed, AskingPc
  <1> QED
    BY <1>1, <1>2, <1>3, <1>4, NewRowIsRow

(* ... and what a handler concludes from what its insert says of the row.  *)
LEMMA ReturnsAnswering ==
  ASSUME ServiceTypeOK, NEW c \in Calls, NEW err, InsertReturns(c, err),
         short_urls' = short_urls, \A d \in Calls : Answering(d),
         BuiltBy(c, row[c]),
         err = "ok" => row[c] \in short_urls,
         err = "duplicateKey" => \E s \in short_urls : SameKey(row[c], s)
  PROVE  /\ \A d \in Calls : Answering(d)'
         /\ pc[c] = "insert" /\ UNCHANGED <<req, row>>
         /\ err \in {"duplicateCode", "duplicateKey"} =>
              pc'[c] = IF err = "duplicateCode" THEN "generate" ELSE "reread"
         /\ err \notin {"duplicateCode", "duplicateKey"} => pc'[c] = "done"
         /\ \A d \in Calls : d # c => pc'[d] = pc[d]
  <1>1. /\ pc[c] = "insert" /\ req' = req /\ wanted' = wanted /\ row' = row
        /\ req[c] \in Requests /\ Valid(req[c])
    BY DEF InsertReturns, Answering, Placed, AskingPc
  <1>2. \A d \in Calls : d # c => pc'[d] = pc[d] /\ resp'[d] = resp[d]
    BY DEF InsertReturns, Answer, Goto, ServiceTypeOK
  <1>3. \A d \in Calls : d # c => Answering(d)'
    BY <1>1, <1>2, AnsweringFrame
  <1>4. CASE err = "ok"
    <2>1. Answer(c, Success(row[c], TRUE)) /\ pc'[c] = "done"
      BY <1>4 DEF InsertReturns, Answer, ServiceTypeOK
    <2>2. Success(row[c], TRUE) \in Response
      BY ResponseTypes DEF BuiltBy
    <2>3. /\ row[c].createdAt = c /\ row[c].owner = req[c].owner
          /\ row[c].key = req[c].key /\ row[c].url = req[c].url
      BY DEF BuiltBy, NewRow
    <2>4. Answering(c)'
      BY <1>1, <1>4, <2>1, <2>2, <2>3, EndedCall DEF Success
    <2> QED
      BY <1>1, <1>2, <1>3, <1>4, <2>1, <2>4
  <1>5. CASE err \in {"duplicateCode", "duplicateKey"}
    <2>1. /\ resp' = resp
          /\ pc'[c] = IF err = "duplicateCode" THEN "generate" ELSE "reread"
      BY <1>5 DEF InsertReturns, Goto, ServiceTypeOK
    <2>2. err = "duplicateKey" =>
            /\ req[c].key # NoKey
            /\ GetByIdempotencyKey(req[c].owner, req[c].key) # {}
      BY DEF SameKey, GetByIdempotencyKey, BuiltBy, NewRow
    <2>3. Answering(c)'
      BY <1>1, <1>5, <2>1, <2>2
         DEF Answering, Placed, Told, Created, Winner, AskingPc, GetByIdempotencyKey
    <2> QED
      BY <1>1, <1>2, <1>3, <1>5, <2>1, <2>3
  <1>6. CASE err = "error"
    <2>1. Answer(c, Failure("Internal")) /\ pc'[c] = "done"
      BY <1>6 DEF InsertReturns, Answer, ServiceTypeOK
    <2>2. Answering(c)'
      BY <2>1, RefusedCall DEF Status
    <2> QED
      BY <1>1, <1>2, <1>3, <1>6, <2>1, <2>2
  <1> QED
    BY <1>4, <1>5, <1>6 DEF InsertReturns

(* When the process dies no call is told anything.                         *)
LEMMA LoseCallsAnswering ==
  ASSUME LoseCalls, short_urls' = short_urls, NEW d \in Calls, Answering(d)
  PROVE  /\ Answering(d)'
         /\ pc'[d] = IF pc[d] = "idle" THEN "idle" ELSE "done"
  <1>1. /\ req' = req /\ wanted' = wanted
        /\ pc'[d] = IF pc[d] = "idle" THEN "idle" ELSE "done"
        /\ resp'[d] = IF pc[d] \in {"idle", "done"} THEN resp[d] ELSE Failure("lost")
    BY DEF LoseCalls
  <1> QED
    BY <1>1 DEF Answering, Placed, Told, Created, Winner, AskingPc, Failure

----------------------------------------------------------------------------
(* What the contract sees of a handler.                                    *)

(* Nothing is stored, nobody has asked.                                    *)
LEMMA InitRefines == RepoInit /\ ServiceInit => C!Init
  BY DEF RepoInit, ServiceInit, C!Init, C!Silent, Failure

(* Each answer of a handler is an answer the contract allows.              *)
LEMMA BetweenRefines ==
  ASSUME ServiceTypeOK, NEW c \in Calls, Placed(c), Between(c)
  PROVE  C!Next \/ UNCHANGED C!vars
  <1> USE DEF C!vars, C!Silent, C!Refusal, C!Report, Failure, Success, Goto, Answer
  <1>1. CASE ServiceAsk(c)
    <2>1. /\ req[c] = NoRequest /\ wanted[c] = NoCode /\ resp[c] = Failure("none")
          /\ short_urls' = short_urls
      BY <1>1 DEF ServiceAsk, Accept, Reject, AskGet, Placed, repoVars
    <2>2. C!Ask(c)
      BY <1>1, <2>1 DEF ServiceAsk, Accept, Reject, AskGet, C!Ask, ServiceTypeOK
    <2> QED
      BY <2>2 DEF C!Next
  <1>2. CASE LookupFinds(c) \/ RereadFinds(c)
    <2>1. req[c] # NoRequest /\ resp[c] = Failure("none")
      BY <1>2, NullAssumption DEF LookupFinds, RereadFinds, Placed, AskingPc
    <2>2. C!AnswerExisting(c)
      BY <1>2, <2>1
         DEF LookupFinds, RereadFinds, GetByIdempotencyKey, C!AnswerExisting, repoVars
    <2> QED
      BY <2>2 DEF C!Next
  <1>3. CASE LookupMisses(c)
    BY <1>3 DEF LookupMisses, repoVars
  <1>4. CASE Exhausted(c) \/ RereadMisses(c) \/ StepFails(c)
    <2>1. resp[c] = Failure("none")
      BY <1>4 DEF Exhausted, RereadMisses, StepFails, Placed
    <2>2. C!Refuse(c)
      BY <1>4, <2>1 DEF Exhausted, RereadMisses, StepFails, C!Refuse, repoVars
    <2> QED
      BY <2>2 DEF C!Next
  <1>5. CASE GetReads(c)
    <2>1. resp[c] = Failure("none") /\ wanted[c] # NoCode
      BY <1>5, NullAssumption DEF GetReads, Placed
    <2>2. C!AnswerGet(c)
      BY <1>5, <2>1 DEF GetReads, GetByCode, C!AnswerGet, repoVars
    <2> QED
      BY <2>2 DEF C!Next
  <1> QED
    BY <1>1, <1>2, <1>3, <1>4, <1>5, ProgressCases DEF Between

(* So is what it answers after an insert.                                  *)
LEMMA ReturnsRefines ==
  ASSUME ServiceTypeOK, NEW c \in Calls, Placed(c), NEW err, InsertReturns(c, err),
         short_urls' = short_urls, BuiltBy(c, row[c]),
         err = "ok" => row[c] \in short_urls
  PROVE  C!Next \/ UNCHANGED C!vars
  <1> USE DEF C!vars, C!Silent, C!Refusal, C!Report, Failure, Success, Goto, Answer
  <1>1. /\ resp[c] = Failure("none") /\ req[c] \in Requests
        /\ req' = req /\ wanted' = wanted
    BY DEF InsertReturns, Placed, AskingPc
  <1>2. CASE err = "ok"
    <2>1. C!MadeFor(row[c], c)
      BY <1>1, NullAssumption DEF C!MadeFor, BuiltBy, NewRow
    <2>2. resp' = [resp EXCEPT ![c] = Success(row[c], TRUE)]
      BY <1>2 DEF InsertReturns
    <2>3. C!AnswerCreated(c)
      BY <1>1, <1>2, <2>1, <2>2 DEF C!AnswerCreated
    <2> QED
      BY <2>3 DEF C!Next
  <1>3. CASE err = "error"
    <2>1. resp' = [resp EXCEPT ![c] = Failure("Internal")]
      BY <1>3 DEF InsertReturns
    <2>2. C!Refuse(c)
      BY <1>1, <2>1 DEF C!Refuse
    <2> QED
      BY <2>2 DEF C!Next
  <1> QED
    BY <1>1, <1>2, <1>3 DEF InsertReturns

(* A dying process answers nobody.                                         *)
LEMMA LoseCallsRefines ==
  ASSUME LoseCalls, short_urls' = short_urls, \A c \in Calls : Placed(c)
  PROVE  C!RefuseAll
  <1>1. /\ req' = req /\ wanted' = wanted
        /\ resp' = [c \in Calls |->
                      IF pc[c] \in {"idle", "done"} THEN resp[c] ELSE Failure("lost")]
        /\ \A c \in Calls : pc[c] # "done" => resp[c] = Failure("none")
    BY DEF LoseCalls, Placed
  <1> QED
    BY <1>1 DEF C!RefuseAll, C!Silent, Failure

(* A commit creates rows that calls asked for and that clash with nothing. *)
LEMMA CommitRefines ==
  ASSUME RepoInv', UNCHANGED svcVars, short_urls \subseteq short_urls',
         \A r \in short_urls' :
           /\ r = row[r.createdAt] /\ BuiltBy(r.createdAt, r)
           /\ req[r.createdAt] \in Requests
  PROVE  C!Create
  <1>1. ASSUME NEW r \in short_urls'
        PROVE  /\ r \in Row
               /\ \E c \in Calls : C!MadeFor(r, c)
               /\ \A s \in short_urls' :
                    C!Clash(r, s) \/ r.createdAt = s.createdAt => r = s
    <2>1. r \in Row /\ r.createdAt \in Calls
      BY StampAssumption DEF RepoInv, RepoTypeOK, Row
    <2>2. C!MadeFor(r, r.createdAt)
      BY NullAssumption DEF C!MadeFor, BuiltBy, NewRow
    <2>3. \A s \in short_urls' : C!Clash(r, s) => r = s
      BY DEF RepoInv, UniqueRows, Conflicts, SameCode, SameKey, C!Clash
    <2>4. \A s \in short_urls' : r.createdAt = s.createdAt => r = s
      OBVIOUS
    <2> QED
      BY <2>1, <2>2, <2>3, <2>4
  <1> QED
    BY <1>1 DEF C!Create, svcVars

----------------------------------------------------------------------------
(* What the invariants of both services imply for clients.                 *)

(* Two answers under one key carry one code.                               *)
LEMMA ToldIsIdempotent ==
  ASSUME UniqueRows, \A c \in Calls : Told(c)
  PROVE  Idempotent
  <1> SUFFICES ASSUME NEW c \in Calls, NEW d \in Calls,
                      resp[c].status = "OK", req[c] # NoRequest,
                      resp[d].status = "OK", req[d] # NoRequest,
                      SameKey(req[c], req[d])
               PROVE  resp[c].row.code = resp[d].row.code
    BY DEF Idempotent
  <1>1. /\ resp[c].row \in short_urls /\ resp[d].row \in short_urls
        /\ SameKey(resp[c].row, resp[d].row)
    BY DEF Told, SameKey
  <1> QED
    BY <1>1 DEF UniqueRows, Conflicts
============================================================================
