------------------------------- MODULE Startup -------------------------------
(* How the shortener comes up beside a Postgres that may still be starting,  *)
(* or go away again: migrateWithRetry and run (cmd/server/main.go), the      *)
(* schema that Migrate applies (internal/repo/postgres.go), and the restarts *)
(* of the pod around them. The publication grows in two places, init.sql and *)
(* Migrate, and Debezium reads every change with the publication as it was   *)
(* at that change.                                                           *)
EXTENDS Naturals, Sequences

CONSTANTS
  Attempts,      \* the tries of one start (30 in the code)
  MaxOutages,    \* bound on how often Postgres goes away
  MaxRestarts,   \* bound on the pod's exits while Postgres is unsettled
  MaxRows        \* bound on the rows the service inserts

VARIABLES
  postgres,   \* "empty", "down", "starting" (57P03), "up"
  refuses,    \* it answers with a SQL error: bad password, missing database
  outages, restarts,
  tables,     \* the schema is there
  publication,  \* the publication's tables, or "none"
  slot,       \* the replication slot exists
  wal,        \* for every committed row since: the publication at the time
  pod,        \* "migrate", "wait", "serving", "gone"
  attempt     \* i in migrateWithRetry

vars == <<postgres, refuses, outages, restarts, tables, publication, slot, wal, pod, attempt>>
database == <<tables, publication, slot, wal>>
server == <<postgres, refuses, outages>>

Init ==
  /\ postgres = "empty" /\ refuses \in BOOLEAN /\ outages = 0 /\ restarts = 0
  /\ tables = FALSE /\ publication = "none" /\ slot = FALSE /\ wal = <<>>
  /\ pod = "migrate" /\ attempt = 1

------------------------------------------------------------------------------
(* Postgres *)

(* The first start runs init.sql before it accepts a connection: the empty   *)
(* publication, and then the slot.                                           *)
InitSql ==
  /\ postgres = "empty" /\ postgres' = "starting"
  /\ publication' = "empty" /\ slot' = TRUE
  /\ UNCHANGED <<refuses, outages, restarts, tables, wal, pod, attempt>>

ComesUp ==
  /\ postgres \in {"down", "starting"}
  /\ postgres' = IF postgres = "down" THEN "starting" ELSE "up"
  /\ UNCHANGED <<refuses, outages, restarts, database, pod, attempt>>

GoesDown ==
  /\ postgres \in {"starting", "up"} /\ outages < MaxOutages
  /\ postgres' = "down" /\ outages' = outages + 1
  /\ UNCHANGED <<refuses, restarts, database, pod, attempt>>

(* Somebody corrects the password. *)
Corrected ==
  /\ refuses /\ refuses' = FALSE
  /\ UNCHANGED <<postgres, outages, restarts, database, pod, attempt>>

------------------------------------------------------------------------------
(* Migrate: one Exec of the whole schema, and so one transaction. *)

(* Mutant: a publication that exists is left as it is. *)
migratedLeft == IF publication = "none" THEN "outbox" ELSE publication

(* The publication Migrate leaves: created for outbox, or outbox added. *)
migrated == "outbox"

Applied == tables' = TRUE /\ publication' = migrated /\ UNCHANGED <<slot, wal>>

(* Its outcomes: applied; applied or not with the connection lost; a SQL     *)
(* error; no connection, or "starting up".                                   *)
Migrate(outcome) ==
  CASE outcome = "ok"     -> postgres = "up" /\ ~refuses /\ Applied
    [] outcome = "sql"    -> postgres = "up" /\ refuses /\ UNCHANGED database
    [] outcome = "retry"  -> \/ UNCHANGED database
                             \/ postgres = "up" /\ ~refuses /\ Applied

migrateWithRetry ==
  /\ pod = "migrate"
  /\ \E outcome \in {"ok", "sql", "retry"} :
       /\ Migrate(outcome)
       /\ pod' = CASE outcome = "ok"    -> "serving"
                   [] outcome = "sql"   -> "gone"
                   [] outcome = "retry" -> "wait"
  /\ UNCHANGED <<server, restarts, attempt>>

(* The second between two attempts; after the last one the process fails.    *)
Waited ==
  /\ pod = "wait"
  /\ IF attempt < Attempts THEN pod' = "migrate" /\ attempt' = attempt + 1
     ELSE pod' = "gone" /\ UNCHANGED attempt
  /\ UNCHANGED <<server, restarts, database>>

(* SIGTERM while it waits, or serves: the process ends.                      *)
Signal ==
  /\ pod \in {"wait", "serving"} /\ restarts < MaxRestarts
  /\ pod' = "gone"
  /\ UNCHANGED <<server, restarts, database, attempt>>

Restart ==
  /\ pod = "gone"
  /\ pod' = "migrate" /\ attempt' = 1
  /\ restarts' = IF restarts < MaxRestarts THEN restarts + 1 ELSE restarts
  /\ UNCHANGED <<server, database>>

(* A row and its outbox event. *)
Insert ==
  /\ pod = "serving" /\ postgres = "up" /\ tables /\ Len(wal) < MaxRows
  /\ wal' = Append(wal, publication)
  /\ UNCHANGED <<server, restarts, tables, publication, slot, pod, attempt>>

Pod == migrateWithRetry \/ Waited \/ Restart
Next == InitSql \/ ComesUp \/ GoesDown \/ Corrected \/ Pod \/ Signal \/ Insert

Spec == Init /\ [][Next]_vars

------------------------------------------------------------------------------
(* Properties *)

(* The variables have their types, and a start takes no more than its        *)
(* attempts.                                                                 *)
TypeOK ==
  /\ postgres \in {"empty", "down", "starting", "up"} /\ refuses \in BOOLEAN
  /\ publication \in {"none", "empty", "outbox"} /\ pod \in {"migrate", "wait", "serving", "gone"}
  /\ attempt \in 1 .. Attempts /\ {tables, slot} \subseteq BOOLEAN

(* The service runs only with its schema, whichever attempt got through, and *)
(* every outbox row is decoded: the slot is older than the row, and the      *)
(* publication of its time carries the outbox. One row from before would     *)
(* stop the stream for good.                                                 *)
EveryRowPublished ==
  /\ TypeOK
  /\ pod = "serving" => tables
  /\ wal # <<>> => slot
  /\ \A i \in DOMAIN wal : wal[i] = "outbox"
==============================================================================
