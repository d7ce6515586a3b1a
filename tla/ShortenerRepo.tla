--------------------------- MODULE ShortenerRepo ---------------------------
(***************************************************************************)
(* The shortener's Postgres repository                                     *)
(* (services/shortener/internal/repo/postgres.go): the table short_urls    *)
(* with its two unique constraints, the outbox table, and InsertBatch, a   *)
(* READ COMMITTED transaction that is run statement by statement while     *)
(* other transactions run theirs.                                          *)
(*                                                                         *)
(* Several transactions are open at once; each statement is one step.  A   *)
(* statement that finds a row another open transaction has written and not *)
(* yet committed waits for that transaction, which is Postgres' behaviour  *)
(* for a unique index and is what the guard of InsertRow says.             *)
(***************************************************************************)
EXTENDS Naturals, Sequences

CONSTANTS
  Txs,         (* identities of the transactions InsertBatch opens         *)
  Codes,       (* short codes                                              *)
  Urls,        (* long URLs                                                *)
  Owners,      (* owner ids; the empty owner is an owner like any other    *)
  Keys,        (* non-empty idempotency keys                               *)
  NoKey,       (* the empty key, stored as NULL                            *)
  Stamps,      (* created_at values                                        *)
  Unstorable   (* texts Postgres refuses: a NUL, or too long for an index  *)

ASSUME NoKeyIsNoKey == NoKey \notin Keys

Row == [code: Codes, url: Urls, owner: Owners, key: Keys \cup {NoKey},
        createdAt: Stamps]

(* The outcome of one row inside a transaction that itself succeeded.      *)
RowOutcome == {"ok", "duplicateCode", "duplicateKey"}

VARIABLES
  short_urls,  (* committed rows of the table                              *)
  outbox,      (* committed rows of the outbox table                       *)
  wal,         (* the outbox INSERTs of each commit, in commit order: what
                  logical decoding hands to Debezium                       *)
  phase,       (* where each transaction stands in InsertBatch             *)
  batch,       (* the rows it was called with                              *)
  errs,        (* outcomes of the rows handled so far                      *)
  kept         (* its own outbox rows not deleted yet                      *)

repoVars == <<short_urls, outbox, wal, phase, batch, errs, kept>>

----------------------------------------------------------------------------
(* The two unique constraints: the primary key, and the partial index that *)
(* ignores rows whose idempotency key is NULL.                             *)

SameCode(r, s) == r.code = s.code

SameKey(r, s) == r.key # NoKey /\ r.owner = s.owner /\ r.key = s.key

(* Mutant: the partial index on idempotency keys is forgotten.             *)
ConflictsOnCodeOnly(r, s) == SameCode(r, s)

Conflicts(r, s) == SameCode(r, s) \/ SameKey(r, s)

Storable(r) == {r.url, r.owner, r.key} \cap Unstorable = {}

Open(t) == phase[t] \in {"insert", "classify", "commit"}

(* Rows t has inserted, visible to t alone until it commits.  Their        *)
(* positions are the ids the code collects.                                *)
Inserted(t) == {batch[t][i] : i \in {j \in DOMAIN errs[t] : errs[t][j] = "ok"}}

HeldByOthers(t) == UNION {Inserted(u) : u \in {v \in Txs \ {t} : Open(v)}}

(* What a statement of t sees: a fresh snapshot plus its own writes.       *)
Visible(t) == short_urls \cup Inserted(t)

Current(t) == batch[t][Len(errs[t]) + 1]

MoreRows(t) == Len(errs[t]) < Len(batch[t])

----------------------------------------------------------------------------
(* The lookups of the service: committed rows only.                        *)

GetByCode(code) == {r \in short_urls : r.code = code}

GetByIdempotencyKey(owner, key) ==
  {r \in short_urls : r.key # NoKey /\ r.owner = owner /\ r.key = key}

----------------------------------------------------------------------------
(* InsertBatch.                                                            *)

Begin(t, rows) ==
  /\ phase[t] = "closed"
  /\ phase' = [phase EXCEPT ![t] = "insert"]
  /\ batch' = [batch EXCEPT ![t] = rows]
  /\ UNCHANGED <<short_urls, outbox, wal, errs, kept>>

(* INSERT ... ON CONFLICT DO NOTHING may add the row: nothing visible and  *)
(* nothing another open transaction holds conflicts with it.               *)
MayInsert(t, r) ==
  \A s \in Visible(t) \cup HeldByOthers(t) : ~Conflicts(r, s)

(* Mutant: the event is written on a connection of its own.                *)
InsertRowDualWrite(t) ==
  /\ phase[t] = "insert"
  /\ MoreRows(t)
  /\ Storable(Current(t))
  /\ MayInsert(t, Current(t))
  /\ errs' = [errs EXCEPT ![t] = Append(@, "ok")]
  /\ wal' = Append(wal, {Current(t)})
  /\ UNCHANGED <<short_urls, outbox, kept, phase, batch>>

InsertRow(t) ==
  /\ phase[t] = "insert"
  /\ MoreRows(t)
  /\ Storable(Current(t))
  /\ MayInsert(t, Current(t))
  /\ errs' = [errs EXCEPT ![t] = Append(@, "ok")]
  /\ kept' = [kept EXCEPT ![t] = @ \cup {Current(t)}]
  /\ UNCHANGED <<short_urls, outbox, wal, phase, batch>>

(* The same statement skips the row, on a conflict with a committed row or *)
(* an earlier row of its own batch, and returns no outbox id.              *)
SkipRow(t) ==
  /\ phase[t] = "insert"
  /\ MoreRows(t)
  /\ Storable(Current(t))
  /\ \E s \in Visible(t) : Conflicts(Current(t), s)
  /\ phase' = [phase EXCEPT ![t] = "classify"]
  /\ UNCHANGED <<short_urls, outbox, wal, batch, errs, kept>>

(* Mutant: every skipped row is taken for a repeated key.                  *)
AlwaysDuplicateKey(t) == "duplicateKey"

(* codeTaken, a later statement with a snapshot of its own.                *)
Classification(t) ==
  IF \E s \in Visible(t) : SameCode(Current(t), s)
  THEN "duplicateCode"
  ELSE "duplicateKey"

CodeTaken(t) ==
  /\ phase[t] = "classify"
  /\ errs' = [errs EXCEPT ![t] = Append(@, Classification(t))]
  /\ phase' = [phase EXCEPT ![t] = "insert"]
  /\ UNCHANGED <<short_urls, outbox, wal, batch, kept>>

(* Every row was a duplicate: roll back and report the outcomes.           *)
NothingInserted(t) ==
  /\ phase[t] = "insert"
  /\ ~MoreRows(t)
  /\ Inserted(t) = {}
  /\ phase' = [phase EXCEPT ![t] = "returned"]
  /\ UNCHANGED <<short_urls, outbox, wal, batch, errs, kept>>

(* DELETE FROM outbox WHERE id = ANY(ids): the rows this transaction added *)
Deleted(t) == Inserted(t)

ClearOutbox(t) ==
  /\ phase[t] = "insert"
  /\ ~MoreRows(t)
  /\ Inserted(t) # {}
  /\ kept' = [kept EXCEPT ![t] = @ \ Deleted(t)]
  /\ phase' = [phase EXCEPT ![t] = "commit"]
  /\ UNCHANGED <<short_urls, outbox, wal, batch, errs>>

(* The server commits.  The client learns it, or loses the connection (or  *)
(* its context ends) first and sees an error although the rows are there.  *)
Committed(t) ==
  /\ short_urls' = short_urls \cup Inserted(t)
  /\ outbox' = outbox \cup kept[t]
  /\ wal' = Append(wal, Inserted(t))
  /\ kept' = [kept EXCEPT ![t] = {}]

Commit(t) ==
  /\ phase[t] = "commit"
  /\ Committed(t)
  /\ phase' = [phase EXCEPT ![t] = "returned"]
  /\ UNCHANGED <<batch, errs>>

CommitLost(t) ==
  /\ phase[t] = "commit"
  /\ Committed(t)
  /\ phase' = [phase EXCEPT ![t] = "failed"]
  /\ UNCHANGED <<batch, errs>>

(* Any statement may fail: the connection, the context, a deadlock, a text *)
(* Postgres refuses.  Nothing of the batch remains.                        *)
Fail(t) ==
  /\ Open(t)
  /\ phase' = [phase EXCEPT ![t] = "failed"]
  /\ kept' = [kept EXCEPT ![t] = {}]
  /\ UNCHANGED <<short_urls, outbox, wal, batch, errs>>

(* InsertBatch has returned and its caller goes on.                        *)
End(t) ==
  /\ phase[t] \in {"returned", "failed"}
  /\ phase' = [phase EXCEPT ![t] = "closed"]
  /\ batch' = [batch EXCEPT ![t] = <<>>]
  /\ errs' = [errs EXCEPT ![t] = <<>>]
  /\ UNCHANGED <<short_urls, outbox, wal, kept>>

(* The process dies: its connections drop and the server rolls back, but a *)
(* COMMIT already sent may still be carried out.                           *)
DropConnections ==
  /\ phase' = [t \in Txs |->
                 IF phase[t] \in {"insert", "classify"} THEN "failed" ELSE phase[t]]
  /\ kept' = [t \in Txs |->
                 IF phase[t] \in {"insert", "classify"} THEN {} ELSE kept[t]]
  /\ UNCHANGED <<short_urls, outbox, wal, batch, errs>>

RepoInit ==
  /\ short_urls = {}
  /\ outbox = {}
  /\ wal = <<>>
  /\ phase = [t \in Txs |-> "closed"]
  /\ batch = [t \in Txs |-> <<>>]
  /\ errs = [t \in Txs |-> <<>>]
  /\ kept = [t \in Txs |-> {}]

(* The steps Postgres takes between Begin and End.                         *)
RepoProgress(t) ==
  \/ InsertRow(t)
  \/ SkipRow(t)
  \/ CodeTaken(t)
  \/ NothingInserted(t)
  \/ ClearOutbox(t)
  \/ Commit(t)

RepoFault(t) == CommitLost(t) \/ Fail(t)

----------------------------------------------------------------------------
RepoTypeOK ==
  /\ short_urls \in SUBSET Row
  /\ outbox \in SUBSET Row
  /\ wal \in Seq(SUBSET Row)
  /\ phase \in [Txs -> {"closed", "insert", "classify", "commit", "returned",
                        "failed"}]
  /\ batch \in [Txs -> Seq(Row)]
  /\ errs \in [Txs -> Seq(RowOutcome)]
  /\ kept \in [Txs -> SUBSET Row]

(* The two unique constraints hold of the committed rows although the rows *)
(* were written by transactions that could not see each other.             *)
UniqueRows ==
  \A r, s \in short_urls : Conflicts(r, s) => r = s

(* The outbox promise: the events decoded from the WAL are exactly the     *)
(* committed rows, each in one commit only, even when the client was told  *)
(* that the insert failed.                                                 *)
EventPerRow ==
  /\ short_urls = UNION {wal[i] : i \in DOMAIN wal}
  /\ \A i, j \in DOMAIN wal : i # j => wal[i] \cap wal[j] = {}

(* No commit leaves a row behind in the outbox table, which nobody prunes. *)
OutboxEmpty == outbox = {}
============================================================================
