--------------------------- MODULE OutboxPipeline ---------------------------
(***************************************************************************)
(* From a committed row of the shortener to the resolver's cache: the      *)
(* outbox row in the WAL (services/shortener/internal/repo/postgres.go),   *)
(* the replication slot and Debezium (k8s/base, external), the topic       *)
(* short_urls.created with the resolver as its one consumer group, and the *)
(* handler.  How a consumer delivers is Delivery, which Consumer           *)
(* implements.                                                             *)
(***************************************************************************)
EXTENDS ResolverCache, Naturals, SequencesExt

CONSTANTS
  SlotKeep,    (* max_slot_wal_keep_size, in rows of WAL                   *)
  MaxFaults    (* bound: restarts of Debezium and of the resolver          *)

ASSUME PipelineAssumption ==
  SlotKeep \in Nat \ {0} /\ MaxFaults \in Nat /\ IsFiniteSet(Codes)

VARIABLES
  rows,        (* the committed rows, in the order of their WAL            *)
  slot,        (* how much of the WAL Debezium has confirmed               *)
  read,        (* how much of it Debezium has published                    *)
  slotLost,    (* Postgres has removed WAL the slot still needed           *)
  up,          (* which of "debezium" and "resolver" run                   *)
  log,         (* the topic                                                *)
  committed,   (* the offset of the resolver's group                       *)
  applied,     (* history: how often each message was handled              *)
  faults

source == <<rows, slot, read, slotLost>>
topic == <<log, committed, applied>>
vars == <<source, topic, cache, up, faults>>

MaxLog == Cardinality(Codes) * (1 + MaxFaults)

Topic == INSTANCE Delivery WITH
           Messages <- Event, Poison <- {}, Refused <- {e \in Event : RefusedEvent(e)}

Init ==
  /\ CacheInit
  /\ rows = <<>> /\ slot = 0 /\ read = 0 /\ slotLost = FALSE
  /\ up = {}
  /\ log = <<>> /\ committed = 0 /\ applied = [i \in 1..MaxLog |-> 0]
  /\ faults = 0

Fault == faults < MaxFaults /\ faults' = faults + 1

(* A transaction of the shortener commits a row and, in the WAL, its event.*)
(* Codes are unique (ShortenerRepo, UniqueRows), and so is the event of a  *)
(* row (EventPerRow).                                                      *)
CommitRow(c, u) ==
  /\ \A i \in DOMAIN rows : rows[i].code # c
  /\ rows' = Append(rows, [code |-> c, url |-> u])
  /\ UNCHANGED <<slot, read, slotLost, topic, cache, up, faults>>

(* Mutant: an event whose key and payload have no code.                    *)
EventWithoutCode(row) == [key |-> NoCode, code |-> NoCode, url |-> row.url]

(* aggregateid, the key of the message, is the code; the payload has it too.*)
EventOf(row) == [key |-> row.code, code |-> row.code, url |-> row.url]

----------------------------------------------------------------------------
(* Postgres and Debezium.                                                  *)

(* The connector streams from what it has confirmed, so it publishes again *)
(* what it had published and not confirmed before it stopped.              *)
Connect ==
  /\ "debezium" \notin up
  /\ ~slotLost
  /\ up' = up \cup {"debezium"}
  /\ read' = slot
  /\ UNCHANGED <<rows, slot, slotLost, topic, cache, faults>>

Publish ==
  /\ "debezium" \in up /\ ~slotLost
  /\ read < Len(rows)
  /\ read' = read + 1
  /\ Topic!Produce(EventOf(rows[read + 1]))
  /\ UNCHANGED <<rows, slot, slotLost, cache, up, faults>>

Confirm ==
  /\ "debezium" \in up /\ ~slotLost
  /\ slot < read
  /\ slot' = read
  /\ UNCHANGED <<rows, read, slotLost, topic, cache, up, faults>>

ConnectorStops ==
  /\ "debezium" \in up
  /\ Fault
  /\ up' = up \ {"debezium"}
  /\ UNCHANGED <<source, topic, cache>>

(* The slot holds back more WAL than it may: a checkpoint removes it.      *)
SlotInvalidated ==
  /\ ~slotLost
  /\ Len(rows) - slot > SlotKeep
  /\ slotLost' = TRUE
  /\ UNCHANGED <<rows, slot, read, topic, cache, up, faults>>

----------------------------------------------------------------------------
(* The resolver.                                                           *)

(* Mutant: "last".                                                         *)
StartAtEnd == Len(log)

(* Where a reader whose group has no offset begins (RESOLVER_KAFKA_START,  *)
(* "first" unless set to "last").                                          *)
StartOffset == 0

StartResolver ==
  /\ "resolver" \notin up
  /\ up' = up \cup {"resolver"}
  /\ Migrate
  /\ committed' = IF committed = 0 THEN StartOffset ELSE committed
  /\ UNCHANGED <<source, log, applied, faults>>

ResolverStops ==
  /\ "resolver" \in up
  /\ Fault
  /\ up' = up \ {"resolver"}
  /\ UNCHANGED <<source, topic, cache>>

Handle(i) ==
  /\ "resolver" \in up
  /\ Topic!Apply(i)
  /\ HandleCreated(log[i])
  /\ UNCHANGED <<source, up, faults>>

CommitOffset ==
  /\ "resolver" \in up
  /\ Topic!Commit(committed + 1)
  /\ UNCHANGED <<source, cache, up, faults>>

HandleNext ==
  committed < Len(log) /\ applied[committed + 1] = 0 /\ Handle(committed + 1)

(* Bound: a message is handled again at most once per fault.               *)
HandleAgain == \E i \in DOMAIN log : applied[i] \in 1..faults /\ Handle(i)

----------------------------------------------------------------------------
Debezium == Connect \/ Publish \/ Confirm

Resolver == StartResolver \/ HandleNext \/ HandleAgain \/ CommitOffset

Next ==
  \/ \E c \in Codes, u \in Urls : CommitRow(c, u)
  \/ Debezium \/ ConnectorStops \/ SlotInvalidated
  \/ Resolver \/ ResolverStops

Spec == Init /\ [][Next]_vars

----------------------------------------------------------------------------
(* The variables have their types, and nothing is confirmed that was not   *)
(* published.                                                              *)
TypeOK ==
  /\ cache \in [Codes -> Urls \cup {NoUrl}]
  /\ rows \in Seq([code : Codes, url : Urls])
  /\ slot \in 0..read /\ read \in 0..Len(rows)
  /\ slotLost \in BOOLEAN
  /\ up \subseteq {"debezium", "resolver"}
  /\ log \in Seq(Event) /\ Len(log) <= MaxLog
  /\ committed \in 0..Len(log)
  /\ \A i \in DOMAIN applied : applied[i] \in 0..(1 + MaxFaults)
  /\ faults \in 0..MaxFaults

(* The shortener's table, the resolver's and the offset of its group agree, *)
(* although three systems keep them and write them one after the other:     *)
(* what is cached is a committed row, and what is behind the offset is      *)
(* cached, also after restarts and when events are delivered again.         *)
HydratedUpToOffset ==
  /\ TypeOK
  /\ \A c \in Codes : cache[c] # NoUrl => [code |-> c, url |-> cache[c]] \in Range(rows)
  /\ \A i \in 1..committed : cache[CodeOf(log[i])] = log[i].url

(* A committed row resolves in the end, although Debezium and the resolver *)
(* restart, publish and handle again: unless Postgres gives up the slot.   *)
Resolvable ==
  \A c \in Codes :
    (\E i \in DOMAIN rows : rows[i].code = c) ~> (cache[c] # NoUrl \/ slotLost)
============================================================================
