--------------------------- MODULE PipelineProofs ---------------------------
(***************************************************************************)
(* What the pipeline keeps for any codes, any URLs, any limit on the slot  *)
(* and any number of restarts: the resolver's table holds only committed   *)
(* rows, and every row whose event is behind the group's offset.  And that *)
(* analytics counts every delivery of a click, answers for the range it    *)
(* was asked about, and compares stored times as the instants they are.    *)
(***************************************************************************)
EXTENDS MCPipeline, MCAnalytics, FiniteSetTheorems, WellFoundedInduction,
        SequenceTheorems, TLAPS

(* A committed row, with the code and the URL its event carries.           *)
Row == [code : Codes, url : Urls]

(* The codes that are taken.                                               *)
RowCodes == {rows[i].code : i \in DOMAIN rows}

(* The types of the variables, without the bounds that the counts give.    *)
Typing ==
  /\ cache \in [Codes -> Urls \cup {NoUrl}]
  /\ rows \in Seq(Row)
  /\ slot \in 0..read /\ read \in 0..Len(rows)
  /\ slotLost \in BOOLEAN
  /\ up \subseteq {"debezium", "resolver"}
  /\ log \in Seq(Event)
  /\ committed \in 0..Len(log)
  /\ applied \in [1..MaxLog -> Nat]
  /\ faults \in 0..MaxFaults

(* A code has one row, and the cache has nothing else.                     *)
RowsInv ==
  /\ \A i, j \in DOMAIN rows : rows[i].code = rows[j].code => i = j
  /\ Cardinality(RowCodes) = Len(rows)
  /\ \A c \in Codes : cache[c] # NoUrl => [code |-> c, url |-> cache[c]] \in Range(rows)

(* Every message is the event of a row, and one that was handled is cached.*)
TopicInv ==
  /\ \A i \in DOMAIN log : \E j \in DOMAIN rows : log[i] = EventOf(rows[j])
  /\ \A i \in DOMAIN applied :
       applied[i] > 0 => i \in DOMAIN log /\ cache[log[i].code] = log[i].url
  /\ \A i \in 1..committed : i \in DOMAIN applied /\ applied[i] > 0
  /\ \A i \in DOMAIN applied : applied[i] <= 1 + faults

(* Each stop of Debezium makes it publish the WAL again at most once.      *)
LengthInv ==
  Len(log) <= (IF "debezium" \in up THEN read ELSE slot) + faults * Cardinality(Codes)

(* The inductive invariant.                                                *)
Inv == Typing /\ RowsInv /\ TopicInv /\ LengthInv
----------------------------------------------------------------------------
(* There are no more rows than codes, and no more messages than MaxLog.    *)
LEMMA Sizes ==
  ASSUME Inv
  PROVE  /\ IsFiniteSet(RowCodes) /\ Cardinality(Codes) \in Nat /\ MaxLog \in Nat
         /\ Len(rows) \in Nat /\ Len(rows) <= Cardinality(Codes)
         /\ slot \in Nat /\ read \in Nat /\ faults \in Nat /\ MaxFaults \in Nat
         /\ slot <= read /\ read <= Len(rows) /\ faults <= MaxFaults
         /\ Len(log) \in Nat /\ Len(log) <= MaxLog
         /\ DOMAIN rows = 1..Len(rows) /\ DOMAIN log = 1..Len(log)
         /\ DOMAIN applied = 1..MaxLog
  <1> DEFINE N == Cardinality(Codes)
  <1>1. N \in Nat /\ MaxFaults \in Nat /\ IsFiniteSet(Codes)
    BY PipelineAssumption, FS_CardinalityType
  <1>2. /\ DOMAIN rows = 1..Len(rows) /\ Len(rows) \in Nat
        /\ DOMAIN log = 1..Len(log) /\ Len(log) \in Nat
        /\ DOMAIN applied = 1..MaxLog
    BY DEF Inv, Typing
  <1>3. RowCodes \in SUBSET Codes
    <2>1. \A i \in DOMAIN rows : rows[i] \in Row
      BY <1>2 DEF Inv, Typing
    <2>2. \A i \in DOMAIN rows : rows[i].code \in Codes
      BY <2>1 DEF Row
    <2> QED
      BY <2>2 DEF RowCodes
  <1>4. IsFiniteSet(RowCodes) /\ Len(rows) <= N
    BY <1>1, <1>3, FS_Subset DEF Inv, RowsInv
  <1>5. /\ slot \in Nat /\ read \in Nat /\ slot <= read /\ read <= Len(rows)
        /\ faults \in Nat /\ faults <= MaxFaults
    <2>1. /\ slot \in 0..read /\ read \in 0..Len(rows) /\ faults \in 0..MaxFaults
      BY DEF Inv, Typing
    <2> QED
      BY <1>1, <1>2, <2>1
  <1>6. MaxLog = N * (1 + MaxFaults)
    BY DEF MaxLog
  <1> HIDE DEF N
  <1>7. Len(log) <= N + faults * N
    BY <1>1, <1>2, <1>4, <1>5 DEF Inv, LengthInv, N
  <1>8. faults * N <= MaxFaults * N
    BY <1>1, <1>5
  <1>9. MaxLog \in Nat /\ N + MaxFaults * N = MaxLog /\ faults * N \in Nat
    BY <1>1, <1>5, <1>6
  <1>10. Len(log) <= MaxLog
    BY <1>1, <1>2, <1>5, <1>7, <1>8, <1>9
  <1> QED
    BY <1>1, <1>2, <1>4, <1>5, <1>9, <1>10 DEF N

(* The counts bound the log and the applications of TypeOK.                *)
LEMMA InvTypeOK == Inv => TypeOK
  <1> SUFFICES ASSUME Inv PROVE TypeOK
    OBVIOUS
  <1>1. \A i \in DOMAIN applied : applied[i] \in 0..(1 + MaxFaults)
    <2>1. \A i \in DOMAIN applied :
            applied[i] \in Nat /\ applied[i] <= 1 + faults
      BY DEF Inv, Typing, TopicInv
    <2>2. faults \in Nat /\ MaxFaults \in Nat /\ faults <= MaxFaults
      BY Sizes
    <2> QED
      BY <2>1, <2>2
  <1> QED
    BY <1>1, Sizes DEF Inv, Typing, TypeOK, Row

(* Empty table, topic and cache satisfy the invariant.                     *)
LEMMA InitInv == Init => Inv
  <1> SUFFICES ASSUME Init PROVE Inv
    OBVIOUS
  <1>1. /\ rows = <<>> /\ log = <<>> /\ slot = 0 /\ read = 0 /\ committed = 0 /\ faults = 0
        /\ applied = [i \in 1..MaxLog |-> 0] /\ cache = [c \in Codes |-> NoUrl]
        /\ up = {} /\ slotLost = FALSE
    BY DEF Init, CacheInit
  <1>2. Typing
    <2>1. /\ rows \in Seq(Row) /\ Len(rows) = 0 /\ log \in Seq(Event) /\ Len(log) = 0
          /\ applied \in [1..MaxLog -> Nat] /\ cache \in [Codes -> Urls \cup {NoUrl}]
      BY <1>1
    <2>2. /\ slot \in 0..read /\ read \in 0..Len(rows) /\ committed \in 0..Len(log)
          /\ faults \in 0..MaxFaults
      BY <1>1, <2>1, PipelineAssumption
    <2>3. slotLost \in BOOLEAN /\ up \subseteq {"debezium", "resolver"}
      BY <1>1
    <2> QED
      BY <2>1, <2>2, <2>3 DEF Typing
  <1>3. RowsInv
    <2>1. RowCodes = {} /\ DOMAIN rows = {}
      BY <1>1 DEF RowCodes
    <2> QED
      BY <1>1, <2>1, FS_EmptySet DEF RowsInv
  <1>4. TopicInv
    BY <1>1 DEF TopicInv
  <1>5. LengthInv
    <2>1. Cardinality(Codes) \in Nat
      BY PipelineAssumption, FS_CardinalityType
    <2> QED
      BY <1>1, <2>1 DEF LengthInv
  <1> QED
    BY <1>2, <1>3, <1>4, <1>5 DEF Inv

(* A step that leaves the rows, the topic and the cache alone.             *)
LEMMA SameRows ==
  ASSUME Inv, UNCHANGED <<rows, log, committed, applied, cache>>,
         faults' \in {faults, faults + 1}
  PROVE  RowsInv' /\ TopicInv'
  <1>1. RowsInv'
    BY DEF Inv, RowsInv, RowCodes
  <1>2. \A i \in DOMAIN applied : applied[i] \in Nat /\ applied[i] <= 1 + faults
    BY DEF Inv, TopicInv, Typing
  <1>3. \A i \in DOMAIN applied : applied[i] <= 1 + faults'
    BY <1>2, Sizes
  <1>4. TopicInv'
    BY <1>3 DEF Inv, TopicInv
  <1> QED
    BY <1>1, <1>4

(* The connector takes its slot, confirms to it, or finds it invalid.      *)
LEMMA DebeziumInv ==
  ASSUME Inv, Connect \/ Confirm \/ SlotInvalidated
  PROVE  Inv'
  <1> USE DEF Connect, Confirm, SlotInvalidated, topic
  <1>1. UNCHANGED <<rows, log, committed, applied, cache, faults>>
    OBVIOUS
  <1>2. Typing'
    <2>1. slot' \in 0..read' /\ read' \in 0..Len(rows)
      BY Sizes
    <2> QED
      BY <1>1, <2>1 DEF Inv, Typing
  <1>3. LengthInv'
    BY <1>1, Sizes DEF Inv, LengthInv
  <1> QED
    BY <1>1, <1>2, <1>3, SameRows DEF Inv

(* A fault leaves room for the WAL to be published once more.              *)
LEMMA StopsInv ==
  ASSUME Inv, ConnectorStops \/ ResolverStops
  PROVE  Inv'
  <1> USE DEF ConnectorStops, ResolverStops, Fault, topic, source
  <1>1. /\ UNCHANGED <<rows, log, committed, applied, cache, slot, read, slotLost>>
        /\ faults' = faults + 1 /\ faults < MaxFaults
        /\ up' \subseteq up
    OBVIOUS
  <1>2. Typing'
    <2>1. faults' \in 0..MaxFaults
      BY <1>1, Sizes
    <2> QED
      BY <1>1, <2>1 DEF Inv, Typing
  <1>3. LengthInv'
    <2> DEFINE N == Cardinality(Codes)
               sent == IF "debezium" \in up THEN read ELSE slot
    <2>1. N \in Nat /\ sent \in Nat /\ sent <= N /\ faults \in Nat /\ slot \in Nat /\ read \in Nat
      BY Sizes
    <2>2. Len(log) <= sent + faults * N /\ Len(log) \in Nat
      BY Sizes DEF Inv, LengthInv
    <2> HIDE DEF N, sent
    <2>3. faults' * N = faults * N + N /\ faults * N \in Nat
      BY <1>1, <2>1
    <2>4. Len(log) <= faults' * N
      BY <2>1, <2>2, <2>3
    <2> QED
      BY <1>1, <2>1, <2>3, <2>4, Sizes DEF LengthInv, N
  <1> QED
    BY <1>1, <1>2, <1>3, SameRows DEF Inv

(* A resolver that starts keeps its table and takes the group's offset.    *)
LEMMA StartResolverInv ==
  ASSUME Inv, StartResolver
  PROVE  Inv'
  <1> USE DEF StartResolver, StartOffset, Migrate, source
  <1>1. UNCHANGED <<rows, slot, read, slotLost, log, committed, applied, cache, faults>>
    BY DEF Inv, Typing
  <1>2. Typing'
    BY <1>1 DEF Inv, Typing
  <1>3. LengthInv'
    BY <1>1 DEF Inv, LengthInv
  <1> QED
    BY <1>1, <1>2, <1>3, SameRows DEF Inv
----------------------------------------------------------------------------
(* A new row has a new code.                                               *)
LEMMA CommitRowInv ==
  ASSUME Inv, NEW c \in Codes, NEW u \in Urls, CommitRow(c, u)
  PROVE  Inv'
  <1> DEFINE row == [code |-> c, url |-> u]
  <1>1. /\ \A i \in DOMAIN rows : rows[i].code # c
        /\ rows' = Append(rows, row)
        /\ UNCHANGED <<slot, read, slotLost, log, committed, applied, cache, up, faults>>
    BY DEF CommitRow, topic
  <1>2. row \in Row /\ row.code = c
    BY DEF Row
  <1> HIDE DEF row
  <1>3. rows \in Seq(Row) /\ Len(rows) \in Nat /\ DOMAIN rows = 1..Len(rows)
    BY DEF Inv, Typing
  <1>4. /\ rows' \in Seq(Row) /\ Len(rows') = Len(rows) + 1
        /\ DOMAIN rows' = DOMAIN rows \cup {Len(rows) + 1}
        /\ rows'[Len(rows) + 1] = row
        /\ \A i \in DOMAIN rows : i # Len(rows) + 1 /\ rows'[i] = rows[i]
    BY <1>1, <1>2, <1>3
  <1>5. Typing'
    <2>1. read \in 0..Len(rows')
      BY <1>4, Sizes
    <2> QED
      BY <1>1, <1>4, <2>1 DEF Inv, Typing
  <1>6. RowsInv'
    <2>1. \A i, j \in DOMAIN rows' : rows'[i].code = rows'[j].code => i = j
      BY <1>1, <1>2, <1>4 DEF Inv, RowsInv
    <2>2. RowCodes' = RowCodes \cup {c} /\ c \notin RowCodes
      BY <1>1, <1>2, <1>4 DEF RowCodes
    <2>3. Cardinality(RowCodes') = Cardinality(RowCodes) + 1
      BY <2>2, Sizes, FS_AddElement
    <2>4. Cardinality(RowCodes') = Len(rows')
      BY <1>4, <2>3 DEF Inv, RowsInv
    <2>5. \A d \in Codes : cache[d] # NoUrl => [code |-> d, url |-> cache[d]] \in Range(rows')
      BY <1>4 DEF Inv, RowsInv, Range
    <2> QED
      BY <1>1, <2>1, <2>4, <2>5 DEF RowsInv
  <1>7. TopicInv'
    <2>1. \A i \in DOMAIN log : \E j \in DOMAIN rows' : log[i] = EventOf(rows'[j])
      BY <1>4 DEF Inv, TopicInv, EventOf
    <2> QED
      BY <1>1, <2>1 DEF Inv, TopicInv
  <1>8. LengthInv'
    BY <1>1 DEF Inv, LengthInv
  <1> QED
    BY <1>5, <1>6, <1>7, <1>8 DEF Inv

(* The event of a row names the row's code and URL.                        *)
LEMMA EventFacts ==
  ASSUME NEW r \in Row
  PROVE  /\ EventOf(r) \in Event /\ EventOf(r).code = r.code /\ EventOf(r).url = r.url
         /\ CodeOf(EventOf(r)) = r.code /\ r.code \in Codes /\ r.url \in Urls
  BY CacheAssumption DEF EventOf, Event, CodeOf, Row

(* One message more, of the next row in the WAL.                           *)
LEMMA PublishInv ==
  ASSUME Inv, Publish
  PROVE  Inv'
  <1> DEFINE event == EventOf(rows[read + 1])
  <1>1. /\ "debezium" \in up /\ read < Len(rows) /\ read' = read + 1
        /\ log' = Append(log, event)
        /\ UNCHANGED <<rows, slot, slotLost, committed, applied, cache, up, faults>>
    BY DEF Publish, Topic!Produce
  <1>2. read + 1 \in DOMAIN rows /\ rows[read + 1] \in Row
    BY <1>1, Sizes DEF Inv, Typing
  <1>3. event \in Event
    BY <1>2, EventFacts
  <1>4. \E j \in DOMAIN rows : event = EventOf(rows[j])
    BY <1>2
  <1> HIDE DEF event
  <1>5. /\ log' \in Seq(Event) /\ Len(log') = Len(log) + 1
        /\ DOMAIN log' = DOMAIN log \cup {Len(log) + 1}
        /\ log'[Len(log) + 1] = event
        /\ \A i \in DOMAIN log : log'[i] = log[i]
    BY <1>1, <1>3 DEF Inv, Typing
  <1>6. Typing'
    <2>1. slot \in 0..read' /\ read' \in 0..Len(rows) /\ committed \in 0..Len(log')
      BY <1>1, <1>5, Sizes DEF Inv, Typing
    <2> QED
      BY <1>1, <1>5, <2>1 DEF Inv, Typing
  <1>7. RowsInv'
    BY <1>1 DEF Inv, RowsInv, RowCodes
  <1>8. TopicInv'
    <2>1. \A i \in DOMAIN log' : \E j \in DOMAIN rows : log'[i] = EventOf(rows[j])
      BY <1>4, <1>5 DEF Inv, TopicInv
    <2>2. \A i \in DOMAIN applied :
            applied[i] > 0 => i \in DOMAIN log' /\ cache[log'[i].code] = log'[i].url
      BY <1>5 DEF Inv, TopicInv
    <2>3. \A i \in DOMAIN log' : \E j \in DOMAIN rows' : log'[i] = EventOf(rows'[j])
      BY <1>1, <2>1
    <2> QED
      BY <1>1, <2>2, <2>3 DEF Inv, TopicInv
  <1>9. LengthInv'
    <2> DEFINE sent == faults * Cardinality(Codes)
    <2>1. sent \in Nat /\ sent' = sent
      BY <1>1, Sizes
    <2>2. Len(log) <= read + sent
      BY <1>1 DEF Inv, LengthInv
    <2> HIDE DEF sent
    <2>3. Len(log') <= read' + sent
      BY <1>1, <1>5, <2>1, <2>2, Sizes
    <2> QED
      BY <1>1, <2>1, <2>3 DEF LengthInv, sent
  <1> QED
    BY <1>6, <1>7, <1>8, <1>9 DEF Inv

(* Handling a message caches its row, for the first time or again: another *)
(* message with the code is of the same row.                               *)
LEMMA HandleInv ==
  ASSUME Inv, NEW i \in DOMAIN log, Handle(i), i \in DOMAIN applied,
         applied[i] = 0 \/ applied[i] \in 1..faults
  PROVE  Inv'
  <1>1. PICK j \in DOMAIN rows : log[i] = EventOf(rows[j])
    BY DEF Inv, TopicInv
  <1> DEFINE r == rows[j]
  <1>2. r \in Row /\ log[i].code = r.code /\ log[i].url = r.url /\ CodeOf(log[i]) = r.code
        /\ r.code \in Codes /\ r.url \in Urls
    BY <1>1, EventFacts, Sizes DEF Inv, Typing
  <1>3. /\ cache' = [cache EXCEPT ![r.code] = r.url]
        /\ applied' = [applied EXCEPT ![i] = @ + 1]
        /\ UNCHANGED <<rows, slot, read, slotLost, log, committed, up, faults>>
    BY <1>2 DEF Handle, HandleCreated, Upsert, Topic!Apply, source
  <1>4. /\ cache' \in [Codes -> Urls \cup {NoUrl}]
        /\ \A c \in Codes : cache'[c] = IF c = r.code THEN r.url ELSE cache[c]
    BY <1>2, <1>3 DEF Inv, Typing
  <1>5. /\ applied' \in [1..MaxLog -> Nat]
        /\ \A k \in DOMAIN applied : applied'[k] = IF k = i THEN applied[i] + 1 ELSE applied[k]
        /\ DOMAIN applied' = DOMAIN applied
    BY <1>3, Sizes DEF Inv, Typing
  <1>6. Typing'
    BY <1>3, <1>4, <1>5 DEF Inv, Typing
  <1>7. RowsInv'
    <2>1. ASSUME NEW c \in Codes, cache'[c] # NoUrl
          PROVE  [code |-> c, url |-> cache'[c]] \in Range(rows)
      <3>1. CASE c = r.code
        <4>1. [code |-> c, url |-> cache'[c]] = r
          BY <1>2, <1>4, <3>1 DEF Row
        <4> QED
          BY <4>1 DEF Range
      <3>2. CASE c # r.code
        BY <1>4, <2>1, <3>2 DEF Inv, RowsInv
      <3> QED
        BY <3>1, <3>2
    <2> QED
      BY <1>3, <2>1 DEF Inv, RowsInv, RowCodes
  <1>8. TopicInv'
    <2>1. ASSUME NEW k \in DOMAIN log
          PROVE  log[k].code \in Codes /\ (log[k].code = r.code => log[k].url = r.url)
      <3>1. PICK n \in DOMAIN rows : log[k] = EventOf(rows[n])
        BY DEF Inv, TopicInv
      <3>2. rows[n] \in Row
        BY DEF Inv, Typing
      <3>3. log[k].code = rows[n].code /\ log[k].url = rows[n].url /\ rows[n].code \in Codes
        BY <3>1, <3>2, EventFacts
      <3>4. rows[n].code = r.code => n = j
        BY DEF Inv, RowsInv
      <3> QED
        BY <3>3, <3>4
    <2>2. ASSUME NEW k \in DOMAIN applied, applied'[k] > 0
          PROVE  k \in DOMAIN log /\ cache'[log[k].code] = log[k].url
      <3>1. CASE k = i
        BY <1>2, <1>4, <3>1
      <3>2. CASE k # i
        <4>1. k \in DOMAIN log /\ cache[log[k].code] = log[k].url
          BY <1>5, <2>2, <3>2 DEF Inv, TopicInv
        <4> QED
          BY <1>4, <2>1, <4>1
      <3> QED
        BY <3>1, <3>2
    <2>3. /\ \A k \in DOMAIN applied : applied[k] \in Nat /\ applied[k] <= 1 + faults
          /\ faults \in Nat /\ applied[i] <= faults
      <3>1. \A k \in DOMAIN applied : applied[k] \in Nat /\ applied[k] <= 1 + faults
        BY DEF Inv, Typing, TopicInv
      <3> QED
        BY <3>1, Sizes
    <2>4. \A k \in DOMAIN applied : applied[k] > 0 => applied'[k] > 0
      BY <1>5, <2>3
    <2>5. \A k \in DOMAIN applied : applied'[k] <= 1 + faults
      BY <1>5, <2>3
    <2> QED
      BY <1>3, <1>5, <2>2, <2>4, <2>5 DEF Inv, TopicInv
  <1>9. LengthInv'
    BY <1>3 DEF Inv, LengthInv
  <1> QED
    BY <1>6, <1>7, <1>8, <1>9 DEF Inv

(* The offset passes a message that was handled.                           *)
LEMMA CommitOffsetInv ==
  ASSUME Inv, CommitOffset
  PROVE  Inv'
  <1>1. /\ committed + 1 <= Len(log) /\ applied[committed + 1] > 0
        /\ committed' = committed + 1
        /\ UNCHANGED <<rows, slot, read, slotLost, log, applied, cache, up, faults>>
    BY DEF CommitOffset, Topic!Commit, source
  <1>2. committed \in Nat /\ committed + 1 \in DOMAIN applied
    BY <1>1, Sizes DEF Inv, Typing
  <1>3. Typing'
    <2>1. committed' \in 0..Len(log)
      BY <1>1, <1>2, Sizes
    <2> QED
      BY <1>1, <2>1 DEF Inv, Typing
  <1>4. RowsInv'
    BY <1>1 DEF Inv, RowsInv, RowCodes
  <1>5. TopicInv'
    <2>1. \A i \in 1..committed' : i \in DOMAIN applied /\ applied[i] > 0
      BY <1>1, <1>2 DEF Inv, TopicInv
    <2> QED
      BY <1>1, <2>1 DEF Inv, TopicInv
  <1>6. LengthInv'
    BY <1>1 DEF Inv, LengthInv
  <1> QED
    BY <1>3, <1>4, <1>5, <1>6 DEF Inv

(* The invariant is inductive.                                             *)
LEMMA StepInv == Inv /\ [Next]_vars => Inv'
  <1> SUFFICES ASSUME Inv, [Next]_vars PROVE Inv'
    OBVIOUS
  <1>1. CASE \E c \in Codes, u \in Urls : CommitRow(c, u)
    BY <1>1, CommitRowInv
  <1>2. CASE Debezium \/ ConnectorStops \/ SlotInvalidated \/ ResolverStops
    BY <1>2, DebeziumInv, PublishInv, StopsInv DEF Debezium
  <1>3. CASE StartResolver \/ CommitOffset
    BY <1>3, StartResolverInv, CommitOffsetInv
  <1>4. CASE HandleNext
    <2>1. committed + 1 \in DOMAIN log /\ committed + 1 \in DOMAIN applied
      BY <1>4, Sizes DEF HandleNext, Inv, Typing
    <2> QED
      BY <1>4, <2>1, HandleInv DEF HandleNext
  <1>5. CASE HandleAgain
    <2>1. PICK i \in DOMAIN log : applied[i] \in 1..faults /\ Handle(i)
      BY <1>5 DEF HandleAgain
    <2>2. i \in DOMAIN applied
      BY Sizes
    <2> QED
      BY <2>1, <2>2, HandleInv
  <1>6. CASE UNCHANGED vars
    <2>1. UNCHANGED <<rows, slot, read, slotLost, log, committed, applied, cache, up, faults>>
      BY <1>6 DEF vars, source, topic
    <2>2. Typing' /\ LengthInv'
      BY <2>1 DEF Inv, Typing, LengthInv
    <2> QED
      BY <2>1, <2>2, SameRows DEF Inv
  <1> QED
    BY <1>1, <1>2, <1>3, <1>4, <1>5, <1>6 DEF Next, Resolver

(* The pipeline's invariant holds in every behaviour.                      *)
THEOREM PipelineInvariant == Spec => []Inv
  BY InitInv, StepInv, PTL DEF Spec

(* The resolver caches nothing but committed rows of the shortener, and    *)
(* every row whose event is behind the offset of its group, whatever is    *)
(* published or handled again after restarts.                              *)
THEOREM PipelineHydrates == Spec => []HydratedUpToOffset
  <1>1. Inv => HydratedUpToOffset
    <2> SUFFICES ASSUME Inv PROVE HydratedUpToOffset
      OBVIOUS
    <2>1. ASSUME NEW i \in 1..committed
          PROVE  cache[CodeOf(log[i])] = log[i].url
      <3>1. i \in DOMAIN log /\ cache[log[i].code] = log[i].url
        BY DEF Inv, TopicInv
      <3>2. PICK j \in DOMAIN rows : log[i] = EventOf(rows[j])
        BY <3>1 DEF Inv, TopicInv
      <3>3. rows[j] \in Row
        BY DEF Inv, Typing
      <3> QED
        BY <3>1, <3>2, <3>3, EventFacts
    <2> QED
      BY <2>1, InvTypeOK DEF Inv, RowsInv, HydratedUpToOffset
  <1> QED
    BY <1>1, PipelineInvariant, PTL

(* Debezium and the resolver, which stop, start and repeat themselves, do  *)
(* to the topic what Delivery lets a producer and a consumer group do: no  *)
(* message is changed or lost, and the offset passes none before it was    *)
(* handled.  What the reader's Consumer promises is what is used of it.    *)
THEOREM PipelineDelivers == Spec => Topic!Spec
  <1>1. Init => Topic!Init
    BY DEF Init, Topic!Init
  <1>2. ASSUME Inv, [Next]_vars
        PROVE  [Topic!Next]_<<log, committed, applied>>
    <2>1. CASE Publish
      <3>1. read + 1 \in DOMAIN rows
        BY <1>2, <2>1, Sizes DEF Publish
      <3>2. rows[read + 1] \in Row
        BY <1>2, <3>1 DEF Inv, Typing
      <3>3. EventOf(rows[read + 1]) \in Event
        BY <3>2, EventFacts
      <3> QED
        BY <2>1, <3>3 DEF Publish, Topic!Next
    <2>2. CASE HandleNext \/ HandleAgain
      <3>1. PICK i \in DOMAIN log : Topic!Apply(i)
        <4>1. committed + 1 \in DOMAIN log \/ ~HandleNext
          BY <1>2, Sizes DEF HandleNext, Inv, Typing
        <4> QED
          BY <2>2, <4>1 DEF HandleNext, HandleAgain, Handle
      <3> QED
        BY <3>1 DEF Topic!Next
    <2>3. CASE CommitOffset
      <3>1. Topic!Commit(committed + 1) /\ committed + 1 <= Len(log)
        BY <2>3 DEF CommitOffset, Topic!Commit
      <3>2. committed + 1 \in DOMAIN log
        BY <1>2, <3>1, Sizes DEF Inv, Typing
      <3> QED
        BY <3>1, <3>2 DEF Topic!Next
    <2>4. CASE StartResolver
      BY <2>4 DEF StartResolver, StartOffset
    <2>5. CASE \/ \E c \in Codes, u \in Urls : CommitRow(c, u)
               \/ Connect \/ Confirm \/ ConnectorStops \/ SlotInvalidated \/ ResolverStops
      BY <2>5 DEF CommitRow, Connect, Confirm, ConnectorStops, SlotInvalidated,
                  ResolverStops, topic
    <2>6. CASE UNCHANGED vars
      BY <2>6 DEF vars, topic
    <2> QED
      BY <1>2, <2>1, <2>2, <2>3, <2>4, <2>5, <2>6 DEF Next, Debezium, Resolver
  <1> QED
    BY <1>1, <1>2, PipelineInvariant, PTL DEF Spec, Topic!Spec
----------------------------------------------------------------------------
(* What one database has been through when the shortener serves: init.sql, *)
(* and with it the slot, then Migrate, which leaves the publication with   *)
(* the outbox, then the first row.                                         *)
StartupInv ==
  /\ Shortener!TypeOK
  /\ tables \in BOOLEAN /\ slotMade \in BOOLEAN
  /\ postgres = "empty" => ~tables /\ wal = <<>>
  /\ postgres # "empty" => slotMade
  /\ tables => publication = "outbox"
  /\ pod = "serving" => tables
  /\ wal \in Seq({"outbox"})

(* Every step of Postgres, of Migrate and of the pod keeps it.             *)
LEMMA StartupStepInv ==
  ASSUME StartupInv, [Shortener!Next]_startupVars
  PROVE  StartupInv'
  <1> USE DEF StartupInv, Shortener!TypeOK, Shortener!database, Shortener!server
  <1>1. CASE Shortener!InitSql
    BY <1>1 DEF Shortener!InitSql
  <1>2. CASE Shortener!ComesUp \/ Shortener!GoesDown \/ Shortener!Corrected
    <2>1. CASE Shortener!ComesUp
      BY <2>1 DEF Shortener!ComesUp
    <2>2. CASE Shortener!GoesDown
      BY <2>2 DEF Shortener!GoesDown
    <2>3. CASE Shortener!Corrected
      BY <2>3 DEF Shortener!Corrected
    <2> QED
      BY <1>2, <2>1, <2>2, <2>3
  <1>3. CASE Shortener!migrateWithRetry
    BY <1>3 DEF Shortener!migrateWithRetry, Shortener!Migrate, Shortener!Applied, Shortener!migrated
  <1>4. CASE Shortener!Waited
    BY <1>4, StartupAssumption DEF Shortener!Waited
  <1>5. CASE Shortener!Restart
    BY <1>5, StartupAssumption DEF Shortener!Restart
  <1>6. CASE Shortener!Signal
    BY <1>6 DEF Shortener!Signal
  <1>7. CASE Shortener!Insert
    BY <1>7 DEF Shortener!Insert
  <1>8. CASE UNCHANGED startupVars
    BY <1>8 DEF startupVars
  <1> QED
    BY <1>1, <1>2, <1>3, <1>4, <1>5, <1>6, <1>7, <1>8 DEF Shortener!Next, Shortener!Pod

(* However often Postgres or the pod goes away in between, the service has *)
(* its schema when it serves, and every outbox row is younger than the     *)
(* slot and committed under a publication that carries the outbox.         *)
THEOREM StartupPublishesEveryRow == MCSpec => []EveryRowPublished
  <1>1. MCInit => StartupInv
    <2> SUFFICES ASSUME Shortener!Init PROVE StartupInv
      BY DEF MCInit
    <2>1. 1 \in 1..Attempts
      BY StartupAssumption
    <2>2. wal \in Seq({"outbox"})
      BY DEF Shortener!Init
    <2> QED
      BY <2>1, <2>2 DEF Shortener!Init, StartupInv, Shortener!TypeOK
  <1>2. StartupInv /\ [MCNext]_<<part, vars, startupVars>> => StartupInv'
    <2>1. [MCNext]_<<part, vars, startupVars>> => [Shortener!Next]_startupVars
      BY DEF MCNext, InPipeline
    <2> QED
      BY <2>1, StartupStepInv
  <1>3. StartupInv => EveryRowPublished
    BY DEF StartupInv, EveryRowPublished, Shortener!EveryRowPublished
  <1> QED
    BY <1>1, <1>2, <1>3, PTL DEF MCSpec
----------------------------------------------------------------------------
(* Analytics, for any codes, days and calls of Stats, and any number of    *)
(* clicks and faults.                                                      *)

(* What the table holds of a click.                                        *)
Rows(m) == {i \in DOMAIN clicks : clicks[i] = m}

(* The messages that the handler has been given.                           *)
Given == {i \in DOMAIN handled : handled[i] > 0}

TableTyping ==
  /\ clicks \in Seq(Stats!Click)
  /\ stream \in Seq(Stats!Click) /\ Len(stream) <= MaxClicks
  /\ offset \in 0..Len(stream)
  /\ handled \in [1..MaxClicks -> Nat]
  /\ process \in {"serving", "draining", "down"}
  /\ stops \in 0..MaxStops

CallTyping ==
  /\ pc \in [Calls -> {"idle", "total", "daily", "done"}]
  /\ query = [s \in Calls |-> query[s]]
  /\ total \in [Calls -> Nat]
  /\ last \in [Calls -> {0} \cup Stats!Instants]
  /\ daily \in [Calls -> [Stats!Days -> Nat]]
  /\ seen \in [Calls -> Nat]
  /\ result \in [Calls -> {"none", "ok", "InvalidArgument", "Internal", "Unavailable"}]

(* Only messages of the topic are handled, those before the offset have    *)
(* been, and a message again only for a fault, so that the table is no     *)
(* longer than the messages handled and the faults.                        *)
HandledInv ==
  /\ \A i \in Given : i \in DOMAIN stream /\ stream[i] \in ToSet(clicks)
  /\ \A i \in DOMAIN handled : handled[i] <= 1 + stops
  /\ 1..offset \subseteq Given
  /\ Len(clicks) <= Cardinality(Given) + stops

TableInv ==
  \A m \in Stats!Click : Cardinality(Rows(m)) = Cardinality(Stats!Deliveries(m))

(* A click of the range is as late as the call says.                       *)
LastFound(s) == \E i \in Stats!RowsOf(query[s]) : clicks[i].at = last[s]

Bracketed(s) == seen[s] <= total[s] /\ total[s] <= Stats!Count(query[s])

(* What a call has counted so far is between the beginning of the call and *)
(* now, of a range that is one.                                            *)
CallInv(s) ==
  /\ total[s] <= Len(clicks) /\ \A d \in Stats!Days : daily[s][d] <= Len(clicks)
  /\ pc[s] \in {"total", "daily"} \/ Stats!Answered(s) =>
       Stats!ValidRange(query[s].from, query[s].to)
  /\ pc[s] = "total" => seen[s] <= Stats!Count(query[s])
  /\ pc[s] = "daily" => Bracketed(s) /\ total[s] > 0 /\ LastFound(s)
  /\ Stats!Answered(s) =>
       /\ Bracketed(s)
       /\ total[s] > 0 => Cardinality(Stats!Shown(s)) \in total[s]..Stats!Count(query[s])
       /\ Stats!DaysWithinRange(s)

StatsInv == TableTyping /\ CallTyping /\ HandledInv /\ TableInv /\ \A s \in Calls : CallInv(s)

(* Days, instants and clicks are numbers.                                  *)
LEMMA Calendar ==
  /\ MaxDay \in Nat /\ MaxClicks \in Nat /\ MaxStops \in Nat
  /\ NoDate \notin Nat /\ BadDate \notin Nat
  /\ \A t \in Stats!Instants : t \in Nat /\ Stats!DayOf(t) \in Stats!Days /\ t > 0
  /\ \A d \in Stats!Days : d \in Nat
  /\ \A t \in Stats!Instants, d \in Stats!Days :
       /\ t >= Stats!StartOf(d) <=> d <= Stats!DayOf(t)
       /\ t <= Stats!StartOf(d) + Stats!DayLength - 1 <=> Stats!DayOf(t) <= d
  BY DateAssumption, BoundAssumption
     DEF Stats!Instants, Stats!DayLength, Stats!DayOf, Stats!Days, Stats!StartOf

(* A set of numbers that is not empty has a smallest one.                  *)
LEMMA Smallest ==
  ASSUME NEW T \in SUBSET Nat, T # {}
  PROVE  \E n \in T : \A k \in T : n <= k
  <1>1. PICK n \in T : \A k \in T : ~(<<k, n>> \in OpToRel(<, Nat))
    BY NatLessThanWellFounded, WFMin
  <1>2. ASSUME NEW k \in T PROVE n <= k
    <2>1. ~(k < n)
      BY <1>1 DEF OpToRel
    <2> QED
      BY <2>1
  <1> QED
    BY <1>2

(* A bounded one has a greatest one.                                       *)
LEMMA Greatest ==
  ASSUME NEW T \in SUBSET Nat, T # {}, NEW bound \in Nat, \A k \in T : k <= bound
  PROVE  \E n \in T : \A k \in T : n >= k
  <1> DEFINE U == {n \in Nat : \A k \in T : k <= n}
  <1>1. bound \in U /\ U \in SUBSET Nat
    OBVIOUS
  <1>2. PICK n \in U : \A k \in U : n <= k
    BY <1>1, Smallest
  <1>3. n \in T
    <2> SUFFICES ASSUME n \notin T PROVE FALSE
      OBVIOUS
    <2>1. \A k \in T : k \in Nat /\ k <= n /\ k # n
      BY <1>2
    <2>2. PICK k \in T : TRUE
      OBVIOUS
    <2>3. n - 1 \in Nat /\ \A j \in T : j <= n - 1
      BY <2>1, <2>2, <1>2
    <2>4. n - 1 \in U
      BY <2>3
    <2> QED
      BY <2>3, <2>4, <1>2
  <1> QED
    BY <1>2, <1>3

(* A set of numbers from 1 on.                                             *)
LEMMA Interval ==
  ASSUME NEW n \in Nat
  PROVE  IsFiniteSet(1..n) /\ Cardinality(1..n) = n
  BY FS_Interval

(* The table and its rows of a call, as sets of numbers.                   *)
LEMMA TableFacts ==
  ASSUME StatsInv
  PROVE  /\ Len(clicks) \in Nat /\ DOMAIN clicks = 1..Len(clicks)
         /\ \A i \in DOMAIN clicks : clicks[i] \in Stats!Click /\ clicks[i].at \in Stats!Instants
         /\ IsFiniteSet(DOMAIN clicks)
         /\ Len(stream) \in Nat /\ DOMAIN stream = 1..Len(stream)
         /\ \A i \in DOMAIN stream : stream[i] \in Stats!Click
  <1>1. clicks \in Seq(Stats!Click) /\ stream \in Seq(Stats!Click)
    BY DEF StatsInv, TableTyping
  <1>2. /\ Len(clicks) \in Nat /\ DOMAIN clicks = 1..Len(clicks)
        /\ \A i \in DOMAIN clicks : clicks[i] \in Stats!Click
    BY <1>1
  <1>3. /\ Len(stream) \in Nat /\ DOMAIN stream = 1..Len(stream)
        /\ \A i \in DOMAIN stream : stream[i] \in Stats!Click
    BY <1>1
  <1>4. IsFiniteSet(1..Len(clicks))
    BY <1>2, FS_Interval
  <1> QED
    BY <1>2, <1>3, <1>4 DEF Stats!Click

(* A set of rows is counted, by no more than the length of the table.      *)
LEMMA RowsCounted ==
  ASSUME StatsInv, NEW R \in SUBSET (DOMAIN clicks)
  PROVE  /\ IsFiniteSet(R) /\ Cardinality(R) \in Nat /\ Cardinality(R) <= Len(clicks)
         /\ Stats!Cardinality(R) = Cardinality(R)
         /\ Cardinality(R) > 0 <=> R # {}
  <1>1. /\ IsFiniteSet(R) /\ Cardinality(R) <= Cardinality(DOMAIN clicks)
        /\ Cardinality(R) \in Nat
    BY TableFacts, FS_Subset, FS_CardinalityType
  <1>2. Cardinality(DOMAIN clicks) = Len(clicks)
    <2>1. \A n \in Nat : Cardinality(1..n) = n
      BY FS_Interval
    <2> QED
      BY <2>1, TableFacts
  <1>3. Cardinality(R) = 0 <=> R = {}
    BY <1>1, FS_EmptySet
  <1> QED
    BY <1>1, <1>2, <1>3 DEF Stats!Cardinality, Cardinality

(* The days of a range are those between its bounds, so that the WHERE     *)
(* of the queries finds the clicks that the request means.                 *)
LEMMA RangeMeansDays ==
  ASSUME StatsInv, NEW q, Stats!ValidRange(q.from, q.to)
  PROVE  /\ Stats!ClicksOn(q.code, q.from, q.to) = Stats!Count(q)
         /\ \A i \in Stats!RowsOf(q) :
              /\ q.from # NoDate => q.from <= Stats!DayOf(clicks[i].at)
              /\ q.to # NoDate => Stats!DayOf(clicks[i].at) <= q.to
  <1> DEFINE In(d) == (q.from = NoDate \/ q.from <= d) /\ (q.to = NoDate \/ d <= q.to)
             Meant == {i \in DOMAIN clicks :
                         clicks[i].code = q.code /\ In(Stats!DayOf(clicks[i].at))}
  <1>1. ASSUME NEW t \in Stats!Instants
        PROVE  Stats!Bounded(q, t) <=> In(Stats!DayOf(t))
    <2>1. /\ q.from \in Stats!Days \/ q.from = NoDate
          /\ q.to \in Stats!Days \/ q.to = NoDate
      BY DEF Stats!ValidRange
    <2>2. q.from # NoDate => (t >= Stats!StartOf(q.from) <=> q.from <= Stats!DayOf(t))
      BY <2>1, Calendar
    <2>3. q.to # NoDate =>
            (t <= Stats!StartOf(q.to) + Stats!DayLength - 1 <=> Stats!DayOf(t) <= q.to)
      BY <2>1, Calendar
    <2> QED
      BY <2>1, <2>2, <2>3 DEF Stats!Bounded
  <1>2. Stats!RowsOf(q) = Meant
    <2>1. ASSUME NEW i \in DOMAIN clicks
          PROVE  Stats!Matches(q, clicks[i]) <=>
                   clicks[i].code = q.code /\ In(Stats!DayOf(clicks[i].at))
      BY <1>1, TableFacts DEF Stats!Matches
    <2> QED
      BY <2>1 DEF Stats!RowsOf
  <1>3. Stats!ClicksOn(q.code, q.from, q.to) = Stats!Cardinality(Meant)
    BY DEF Stats!ClicksOn
  <1> QED
    BY <1>2, <1>3 DEF Stats!Count

(* What the days show of an answer: as many as there are rows, each day    *)
(* its own.  The days are added one after the other: if the sums differed, *)
(* there would be a first day up to which they do.                         *)
LEMMA DaysAddUp ==
  ASSUME StatsInv, NEW q, NEW bound \in Nat, Len(clicks) <= bound
  PROVE  Cardinality({c \in Stats!Days \X (1..bound) : c[2] <= Stats!PerDay(q)[c[1]]})
           = Stats!Count(q)
  <1> DEFINE On(d) == {i \in Stats!RowsOf(q) : Stats!DayOf(clicks[i].at) = d}
             Upto(n) == {i \in Stats!RowsOf(q) : Stats!DayOf(clicks[i].at) <= n}
             Chart(n) == {c \in Stats!Days \X (1..bound) :
                            c[1] <= n /\ c[2] <= Stats!PerDay(q)[c[1]]}
             Wrong == {n \in 0..MaxDay : Cardinality(Upto(n)) # Cardinality(Chart(n))}
  <1>1. /\ Stats!RowsOf(q) \subseteq DOMAIN clicks
        /\ \A i \in Stats!RowsOf(q) : Stats!DayOf(clicks[i].at) \in Stats!Days
    BY TableFacts, Calendar DEF Stats!RowsOf
  <1>2. ASSUME NEW n \in Nat
        PROVE  /\ IsFiniteSet(Upto(n)) /\ IsFiniteSet(Chart(n))
               /\ Cardinality(Upto(n)) \in Nat /\ Cardinality(Chart(n)) \in Nat
    <2>1. IsFiniteSet(Upto(n)) /\ Cardinality(Upto(n)) \in Nat
      BY <1>1, RowsCounted
    <2>2. IsFiniteSet(Stats!Days) /\ IsFiniteSet(1..bound)
      BY FS_Interval, Calendar DEF Stats!Days
    <2>3. IsFiniteSet(Stats!Days \X (1..bound))
      BY <2>2, FS_Product
    <2>4. IsFiniteSet(Chart(n))
      BY <2>3, FS_Subset
    <2> QED
      BY <2>1, <2>4, FS_CardinalityType
  <1>3. ASSUME NEW d \in Stats!Days
        PROVE  /\ Stats!PerDay(q)[d] = Cardinality(On(d))
               /\ IsFiniteSet(On(d)) /\ Cardinality(On(d)) \in 0..bound
    <2>1. /\ IsFiniteSet(On(d)) /\ Cardinality(On(d)) \in Nat
          /\ Cardinality(On(d)) <= Len(clicks)
          /\ Stats!Cardinality(On(d)) = Cardinality(On(d))
      BY <1>1, RowsCounted
    <2>2. Stats!PerDay(q)[d] = Stats!Cardinality(On(d))
      BY DEF Stats!PerDay
    <2> QED
      BY <2>1, <2>2, TableFacts
  <1>4. Wrong = {}
    <2> SUFFICES ASSUME Wrong # {} PROVE FALSE
      OBVIOUS
    <2>0. Wrong \in SUBSET Nat
      BY Calendar
    <2>1. PICK n \in Wrong : \A k \in Wrong : n <= k
      <3> HIDE DEF Wrong
      <3> QED
        BY <2>0, Smallest
    <2>2. n \in Nat /\ n <= MaxDay /\ MaxDay \in Nat
      BY Calendar
    <2>3. CASE n = 0
      <3>1. Upto(0) = {} /\ Chart(0) = {}
        BY <1>1 DEF Stats!Days
      <3> QED
        BY <2>3, <3>1
    <2>4. CASE n # 0
      <3>1. n - 1 \in Nat /\ n - 1 \notin Wrong /\ n \in Stats!Days
        BY <2>1, <2>2, <2>4 DEF Stats!Days
      <3>2. Cardinality(Upto(n - 1)) = Cardinality(Chart(n - 1))
        <4>1. n - 1 \in 0..MaxDay
          BY <2>2, <3>1
        <4> HIDE DEF Upto, Chart
        <4> QED
          BY <3>1, <4>1
      <3>6. Cardinality(On(n)) \in Nat /\ Cardinality(On(n)) <= bound /\ IsFiniteSet(On(n))
        <4>1. IsFiniteSet(On(n)) /\ Cardinality(On(n)) \in 0..bound
          BY <1>3, <3>1
        <4> HIDE DEF On
        <4> QED
          BY <4>1
      <3> DEFINE Bar == {n} \X (1..Cardinality(On(n)))
      <3>3. Cardinality(Upto(n)) = Cardinality(Upto(n - 1)) + Cardinality(On(n))
        <4>1. Upto(n) = Upto(n - 1) \cup On(n) /\ Upto(n - 1) \cap On(n) = {}
          <5>1. \A i \in Stats!RowsOf(q) :
                  /\ Stats!DayOf(clicks[i].at) <= n <=>
                       Stats!DayOf(clicks[i].at) <= n - 1 \/ Stats!DayOf(clicks[i].at) = n
                  /\ ~(Stats!DayOf(clicks[i].at) <= n - 1 /\ Stats!DayOf(clicks[i].at) = n)
            <6>1. \A k \in Nat : (k <= n <=> k <= n - 1 \/ k = n) /\ ~(k <= n - 1 /\ k = n)
              BY <2>2
            <6> QED
              BY <6>1, <1>1, Calendar
          <5> QED
            BY <5>1
        <4>2. Cardinality(Upto(n - 1) \cap On(n)) = 0
          BY <4>1, FS_EmptySet
        <4> HIDE DEF Upto, On
        <4>3. Cardinality(Upto(n - 1) \cup On(n)) =
                Cardinality(Upto(n - 1)) + Cardinality(On(n)) - Cardinality(Upto(n - 1) \cap On(n))
          BY <1>2, <1>3, <3>1, FS_Union
        <4> QED
          BY <1>2, <1>3, <3>1, <4>1, <4>2, <4>3
      <3>4. IsFiniteSet(Bar) /\ Cardinality(Bar) = Cardinality(On(n))
        <4>2. IsFiniteSet({n}) /\ Cardinality({n}) = 1
          BY FS_Singleton
        <4> DEFINE k == Cardinality(On(n))
        <4>3. k \in Nat
          BY <3>6
        <4> HIDE DEF k
        <4>1. IsFiniteSet(1..k) /\ Cardinality(1..k) = k
          BY <4>3, Interval
        <4>4. IsFiniteSet({n} \X (1..k)) /\ Cardinality({n} \X (1..k)) = 1 * k
          <5>1. /\ IsFiniteSet({n} \X (1..k))
                /\ Cardinality({n} \X (1..k)) = Cardinality({n}) * Cardinality(1..k)
            BY <4>1, <4>2, FS_Product
          <5> QED
            BY <4>1, <4>2, <4>3, <5>1
        <4> QED
          BY <4>3, <4>4 DEF k
      <3>5. Cardinality(Chart(n)) = Cardinality(Chart(n - 1)) + Cardinality(Bar)
        <4>1. Chart(n) = Chart(n - 1) \cup Bar
          <5>1. ASSUME NEW c \in Chart(n), c \notin Chart(n - 1)
                PROVE  c \in Bar
            <6>1. c[1] \in Stats!Days /\ c[2] \in 1..bound /\ c = <<c[1], c[2]>>
              OBVIOUS
            <6>2. c[1] = n
              <7>1. c[1] \in Nat /\ c[1] <= n /\ ~(c[1] <= n - 1)
                BY <5>1, <6>1, Calendar
              <7> QED
                BY <7>1, <2>2
            <6>3. c[2] <= Cardinality(On(n)) /\ Cardinality(On(n)) \in Nat
              BY <1>3, <3>1, <3>6, <6>2
            <6> QED
              BY <6>1, <6>2, <6>3
          <5>2. ASSUME NEW c \in Bar
                PROVE  c \in Chart(n)
            <6> HIDE DEF On
            <6>1. c = <<c[1], c[2]>> /\ c[1] = n /\ c[2] \in 1..Cardinality(On(n))
              OBVIOUS
            <6>2. c[2] \in 1..bound /\ c[2] <= Stats!PerDay(q)[n]
              BY <1>3, <3>1, <6>1
            <6> QED
              BY <2>2, <3>1, <6>1, <6>2
          <5>3. Chart(n - 1) \subseteq Chart(n)
            <6>1. \A k \in Nat : k <= n - 1 => k <= n
              BY <2>2
            <6> QED
              BY <6>1, Calendar
          <5> QED
            BY <5>1, <5>2, <5>3
        <4>2. Chart(n - 1) \cap Bar = {}
          BY <2>2
        <4>3. Cardinality(Chart(n - 1) \cap Bar) = 0
          BY <4>2, FS_EmptySet
        <4> HIDE DEF Chart, Bar
        <4>4. Cardinality(Chart(n - 1) \cup Bar) =
                Cardinality(Chart(n - 1)) + Cardinality(Bar) - Cardinality(Chart(n - 1) \cap Bar)
          BY <1>2, <3>1, <3>4, FS_Union
        <4>5. Cardinality(Chart(n - 1)) \in Nat /\ Cardinality(Bar) \in Nat
          BY <1>2, <3>1, <3>4, FS_CardinalityType
        <4> QED
          BY <4>1, <4>3, <4>4, <4>5
      <3> QED
        BY <3>2, <3>3, <3>4, <3>5
    <2> QED
      BY <2>3, <2>4
  <1>5. Upto(MaxDay) = Stats!RowsOf(q)
    BY <1>1 DEF Stats!Days
  <1>6. Chart(MaxDay) = {c \in Stats!Days \X (1..bound) : c[2] <= Stats!PerDay(q)[c[1]]}
    BY DEF Stats!Days
  <1>7. Cardinality(Upto(MaxDay)) = Cardinality(Chart(MaxDay))
    <2>1. MaxDay \in 0..MaxDay
      BY Calendar
    <2> HIDE DEF Upto, Chart
    <2> QED
      BY <1>4, <2>1
  <1>8. Stats!Count(q) = Cardinality(Stats!RowsOf(q))
    BY <1>1, RowsCounted DEF Stats!Count
  <1> QED
    BY <1>5, <1>6, <1>7, <1>8

(* The table grows: it stays, or has a click more.                         *)
Grows ==
  /\ clicks \in Seq(Stats!Click) /\ clicks' \in Seq(Stats!Click)
  /\ Len(clicks) \in Nat /\ Len(clicks') \in Nat /\ Len(clicks) <= Len(clicks')
  /\ DOMAIN clicks = 1..Len(clicks) /\ DOMAIN clicks' = 1..Len(clicks')
  /\ \A i \in DOMAIN clicks : i \in DOMAIN clicks' /\ clicks'[i] = clicks[i]

(* Whatever was counted is counted again.                                  *)
LEMMA CountsGrow ==
  ASSUME StatsInv, Grows, NEW q
  PROVE  /\ Stats!RowsOf(q) \subseteq Stats!RowsOf(q)'
         /\ Stats!Count(q) \in Nat /\ Stats!Count(q)' \in Nat
         /\ Stats!Count(q) <= Stats!Count(q)'
  <1>1. /\ Stats!RowsOf(q) \subseteq DOMAIN clicks
        /\ Stats!RowsOf(q)' = {i \in DOMAIN clicks' : Stats!Matches(q, clicks'[i])}
        /\ Stats!RowsOf(q) \subseteq Stats!RowsOf(q)'
    BY DEF Stats!RowsOf, Grows
  <1>2. IsFiniteSet(Stats!RowsOf(q)')
    <2>1. IsFiniteSet(DOMAIN clicks')
      BY Interval DEF Grows
    <2> QED
      BY <1>1, <2>1, FS_Subset
  <1>3. /\ Stats!Count(q) = Cardinality(Stats!RowsOf(q))
        /\ Stats!Count(q)' = Cardinality(Stats!RowsOf(q)')
    BY DEF Stats!Count, Stats!Cardinality, Cardinality
  <1>4. Cardinality(Stats!RowsOf(q)) <= Cardinality(Stats!RowsOf(q)')
    BY <1>1, <1>2, FS_Subset
  <1> QED
    BY <1>1, <1>2, <1>3, <1>4, RowsCounted, FS_CardinalityType

(* A call that takes no step itself, while clicks may arrive.              *)
CallStays(s) ==
  /\ pc'[s] = pc[s] /\ query'[s] = query[s] /\ total'[s] = total[s] /\ last'[s] = last[s]
  /\ daily'[s] = daily[s] /\ seen'[s] = seen[s] /\ result'[s] = result[s]

(* What it has answered, or counted so far, stays true of the table.       *)
LEMMA StaysInv ==
  ASSUME StatsInv, Grows, NEW s \in Calls, CallStays(s)
  PROVE  CallInv(s)'
  <1>0. PICK q : q = query[s]
    OBVIOUS
  <1>1. CallInv(s)
    BY DEF StatsInv
  <1>2. /\ total[s] \in Nat /\ seen[s] \in Nat /\ \A d \in Stats!Days : daily[s][d] \in Nat
        /\ Len(clicks) \in Nat /\ Len(clicks') \in Nat /\ Len(clicks) <= Len(clicks')
        /\ MaxClicks + MaxStops \in Nat
    BY Calendar DEF StatsInv, CallTyping, Grows
  <1>3. /\ Stats!Count(q) \in Nat /\ Stats!Count(q)' \in Nat
        /\ Stats!Count(q) <= Stats!Count(q)'
        /\ Stats!RowsOf(q) \subseteq Stats!RowsOf(q)'
    BY CountsGrow
  <1>4. query'[s] = q
    BY <1>0 DEF CallStays
  <1>5. Stats!Count(query[s])' = Stats!Count(q)' /\ Stats!Count(query[s]) = Stats!Count(q)
    BY <1>0, <1>4 DEF Stats!Count, Stats!RowsOf
  <1>6. total'[s] <= Len(clicks') /\ \A d \in Stats!Days : daily'[s][d] <= Len(clicks')
    BY <1>1, <1>2 DEF CallInv, CallStays
  <1>7. pc'[s] \in {"total", "daily"} \/ Stats!Answered(s)' =>
          Stats!ValidRange(query'[s].from, query'[s].to)
    BY <1>1 DEF CallInv, CallStays, Stats!Answered
  <1>8. pc'[s] = "total" => seen'[s] <= Stats!Count(query[s])'
    BY <1>1, <1>2, <1>3, <1>5 DEF CallInv, CallStays
  <1>9. Bracketed(s) => Bracketed(s)'
    BY <1>2, <1>3, <1>5 DEF CallStays, Bracketed
  <1>10. LastFound(s) => LastFound(s)'
    <2> SUFFICES ASSUME NEW i \in Stats!RowsOf(q), clicks[i].at = last[s]
                 PROVE  LastFound(s)'
      BY <1>0 DEF LastFound
    <2>1. i \in Stats!RowsOf(q)' /\ i \in DOMAIN clicks
      BY <1>3 DEF Stats!RowsOf
    <2>2. clicks'[i].at = last'[s]
      BY <2>1 DEF Grows, CallStays
    <2>3. i \in Stats!RowsOf(query[s])'
      BY <1>4, <2>1 DEF Stats!RowsOf
    <2> QED
      BY <2>2, <2>3 DEF LastFound
  <1>11. Stats!Answered(s)' /\ total'[s] > 0 =>
           Cardinality(Stats!Shown(s)') \in total'[s]..Stats!Count(query[s])'
    <2> SUFFICES ASSUME Stats!Answered(s)', total'[s] > 0
                 PROVE  Cardinality(Stats!Shown(s)') \in total'[s]..Stats!Count(query[s])'
      OBVIOUS
    <2>1. Stats!Shown(s)' = Stats!Shown(s)
      BY DEF CallStays, Stats!Shown
    <2>2. Cardinality(Stats!Shown(s)) \in total[s]..Stats!Count(q)
      BY <1>0, <1>1 DEF CallInv, CallStays, Stats!Answered
    <2>3. total'[s] = total[s]
      BY DEF CallStays
    <2> QED
      BY <1>2, <1>3, <1>5, <2>1, <2>2, <2>3
  <1>12. Stats!Answered(s)' => Stats!DaysWithinRange(s)'
    BY <1>1 DEF CallInv, CallStays, Stats!Answered, Stats!DaysWithinRange
  <1> QED
    BY <1>1, <1>6, <1>7, <1>8, <1>9, <1>10, <1>11, <1>12
       DEF CallInv, CallStays, Stats!Answered, Stats!ValidRange

(* The table is no longer than the clicks and the faults; with that the    *)
(* bounds of TypeOK follow.                                                *)
LEMMA TableBound ==
  ASSUME StatsInv
  PROVE  /\ IsFiniteSet(Given) /\ Cardinality(Given) \in Nat
         /\ Len(clicks) <= MaxClicks + MaxStops
         /\ stops \in Nat /\ stops <= MaxStops
         /\ \A i \in DOMAIN handled : handled[i] \in 0..(1 + stops)
         /\ offset \in Nat /\ offset <= Len(stream) /\ Len(stream) <= MaxClicks
         /\ DOMAIN handled = 1..MaxClicks
  <1>1. /\ offset \in 0..Len(stream) /\ Len(stream) <= MaxClicks
        /\ handled \in [1..MaxClicks -> Nat]
        /\ stops \in 0..MaxStops
    BY DEF StatsInv, TableTyping
  <1>2. stops \in Nat /\ stops <= MaxStops /\ offset \in Nat /\ offset <= Len(stream)
    BY <1>1, Calendar, TableFacts
  <1>3. \A i \in DOMAIN handled : handled[i] \in Nat /\ handled[i] <= 1 + stops
    BY <1>1 DEF StatsInv, HandledInv
  <1>4. /\ IsFiniteSet(Given) /\ Cardinality(Given) \in Nat
        /\ Cardinality(Given) <= MaxClicks
    <2>1. Given \subseteq 1..MaxClicks
      BY <1>1 DEF Given
    <2>2. IsFiniteSet(1..MaxClicks) /\ Cardinality(1..MaxClicks) = MaxClicks
      BY Interval, Calendar
    <2>3. IsFiniteSet(Given) /\ Cardinality(Given) <= Cardinality(1..MaxClicks)
      BY <2>1, <2>2, FS_Subset
    <2> QED
      BY <2>2, <2>3, FS_CardinalityType
  <1>5. Len(clicks) <= Cardinality(Given) + stops /\ Len(clicks) \in Nat
    BY TableFacts DEF StatsInv, HandledInv
  <1>6. Len(clicks) <= MaxClicks + MaxStops
    BY <1>2, <1>4, <1>5, Calendar
  <1> QED
    BY <1>1, <1>2, <1>3, <1>4, <1>6

(* The variables of analytics have their types, within their bounds.       *)
LEMMA StatsTypeOK == StatsInv => Stats!TypeOK
  <1> SUFFICES ASSUME StatsInv PROVE Stats!TypeOK
    OBVIOUS
  <1>1. /\ clicks \in Seq(Stats!Click) /\ stream \in Seq(Stats!Click)
        /\ offset \in 0..Len(stream)
        /\ process \in {"serving", "draining", "down"}
        /\ stops \in 0..MaxStops
    BY DEF StatsInv, TableTyping
  <1>2. handled \in [1..MaxClicks -> 0..(1 + MaxStops)]
    <2>1. \A i \in DOMAIN handled : handled[i] \in 0..(1 + MaxStops)
      BY TableBound, Calendar
    <2> QED
      BY <2>1 DEF StatsInv, TableTyping
  <1> DEFINE bound == MaxClicks + MaxStops
  <1>3. bound \in Nat /\ Len(clicks) <= bound /\ Len(clicks) \in Nat
    BY TableBound, TableFacts, Calendar
  <1> HIDE DEF bound
  <1>4. ASSUME NEW s \in Calls
        PROVE  /\ total[s] \in 0..bound
               /\ \A d \in Stats!Days : daily[s][d] \in 0..bound
    <2>1. total[s] \in Nat /\ \A d \in Stats!Days : daily[s][d] \in Nat
      BY DEF StatsInv, CallTyping
    <2>2. total[s] <= Len(clicks) /\ \A d \in Stats!Days : daily[s][d] <= Len(clicks)
      BY DEF StatsInv, CallInv
    <2> QED
      BY <1>3, <2>1, <2>2
  <1>5. total \in [Calls -> 0..bound] /\ daily \in [Calls -> [Stats!Days -> 0..bound]]
    BY <1>4 DEF StatsInv, CallTyping
  <1>6. /\ pc \in [Calls -> {"idle", "total", "daily", "done"}]
        /\ last \in [Calls -> {0} \cup Stats!Instants]
        /\ result \in [Calls -> {"none", "ok", "InvalidArgument", "Internal", "Unavailable"}]
    BY DEF StatsInv, CallTyping
  <1>7. \A s \in Calls : pc[s] \in {"total", "daily"} =>
          NoDate \in {query[s].from, query[s].to} \/ query[s].from <= query[s].to
    BY DEF StatsInv, CallInv, Stats!ValidRange
  <1> QED
    BY <1>1, <1>2, <1>5, <1>6, <1>7 DEF Stats!TypeOK, bound

(* A step that leaves the table and what was handled alone.                *)
LEMMA SameTable ==
  ASSUME StatsInv, UNCHANGED <<clicks, stream, handled>>,
         offset' \in 0..Len(stream), 1..offset' \subseteq Given,
         process' \in {"serving", "draining", "down"},
         stops' \in stops..MaxStops
  PROVE  TableTyping' /\ HandledInv' /\ TableInv' /\ Grows
  <1>1. stops' \in 0..MaxStops /\ stops \in Nat /\ stops' \in Nat /\ stops <= stops'
    BY TableBound, Calendar
  <1>2. TableTyping'
    BY <1>1 DEF StatsInv, TableTyping
  <1>3. HandledInv'
    <2>1. Given' = Given
      BY DEF Given
    <2>2. \A i \in DOMAIN handled' : handled'[i] <= 1 + stops'
      BY <1>1, TableBound DEF StatsInv, HandledInv
    <2>3. Len(clicks') <= Cardinality(Given') + stops'
      BY <1>1, <2>1, TableBound, TableFacts DEF StatsInv, HandledInv
    <2>4. \A i \in Given' : i \in DOMAIN stream' /\ stream'[i] \in ToSet(clicks')
      BY <2>1 DEF StatsInv, HandledInv, ToSet
    <2> QED
      BY <2>1, <2>2, <2>3, <2>4 DEF HandledInv
  <1>4. TableInv'
    BY DEF StatsInv, TableInv, Rows, Stats!Deliveries
  <1>5. Grows
    BY TableFacts DEF Grows, StatsInv, TableTyping
  <1> QED
    BY <1>2, <1>3, <1>4, <1>5

(* A call that has ended with an error promises nothing.                   *)
LEMMA EndedInv ==
  ASSUME StatsInv, Grows, NEW s \in Calls,
         pc'[s] = "done", result'[s] # "ok", total'[s] = total[s], daily'[s] = daily[s]
  PROVE  CallInv(s)'
  <1>1. /\ total[s] \in Nat /\ \A d \in Stats!Days : daily[s][d] \in Nat
        /\ total[s] <= Len(clicks) /\ \A d \in Stats!Days : daily[s][d] <= Len(clicks)
    BY DEF StatsInv, CallTyping, CallInv
  <1>2. total'[s] <= Len(clicks') /\ \A d \in Stats!Days : daily'[s][d] <= Len(clicks')
    BY <1>1 DEF Grows
  <1> QED
    BY <1>2 DEF CallInv, Stats!Answered

(* An empty table and topic, and calls that have not begun.                *)
LEMMA StatsInitInv == Stats!Init => StatsInv
  <1> SUFFICES ASSUME Stats!Init PROVE StatsInv
    OBVIOUS
  <1> USE DEF Stats!Init
  <1>1. /\ clicks = <<>> /\ stream = <<>> /\ Len(clicks) = 0 /\ Len(stream) = 0
        /\ DOMAIN clicks = {} /\ DOMAIN stream = {}
    OBVIOUS
  <1>2. TableTyping
    BY <1>1, Calendar DEF TableTyping
  <1>3. CallTyping
    BY DEF CallTyping, Stats!NoDays
  <1>4. HandledInv
    <2>1. Given = {} /\ Cardinality(Given) = 0
      <3>1. Given = {}
        BY DEF Given
      <3> QED
        BY <3>1, FS_EmptySet
    <2> QED
      BY <1>1, <2>1 DEF HandledInv
  <1>5. TableInv
    <2>1. ASSUME NEW m \in Stats!Click
          PROVE  Rows(m) = {} /\ Stats!Deliveries(m) = {}
      BY <1>1 DEF Rows, Stats!Deliveries
    <2> QED
      BY <2>1 DEF TableInv
  <1>6. \A s \in Calls : CallInv(s)
    BY <1>1 DEF CallInv, Stats!Answered, Stats!NoDays
  <1> QED
    BY <1>2, <1>3, <1>4, <1>5, <1>6 DEF StatsInv

(* The process starts, is told to stop, stops or dies; the offset moves.   *)
LEMMA ProcessInv ==
  ASSUME StatsInv, Stats!Start \/ Stats!Signal \/ Stats!Stop \/ Stats!Crash \/ Stats!CommitOffset
  PROVE  StatsInv'
  <1> USE DEF Stats!Start, Stats!Signal, Stats!Stop, Stats!Crash, Stats!CommitOffset,
              Stats!Fault, Stats!topic, Stats!calls, Stats!answer, Stats!StartOffset
  <1>1. UNCHANGED <<clicks, stream, handled, query, total, last, daily, seen>>
    BY DEF Stats!Topic!Commit
  <1>2. process' \in {"serving", "draining", "down"}
    BY DEF StatsInv, TableTyping
  <1>3. stops' \in stops..MaxStops
    BY TableBound, Calendar
  <1>4. offset' \in 0..Len(stream) /\ 1..offset' \subseteq Given
    <2>1. CASE offset' = offset
      BY <2>1 DEF StatsInv, TableTyping, HandledInv
    <2>2. CASE Stats!CommitOffset
      <3>1. offset' = offset + 1 /\ offset + 1 <= Len(stream) /\ handled[offset + 1] > 0
        BY <2>2 DEF Stats!Topic!Commit
      <3>2. offset + 1 \in Given
        BY <3>1, TableBound, TableFacts, Calendar DEF Given
      <3>3. 1..(offset + 1) = 1..offset \cup {offset + 1}
        BY TableBound
      <3> QED
        BY <3>1, <3>2, <3>3, TableBound, TableFacts DEF StatsInv, HandledInv
    <2> QED
      BY <2>1, <2>2
  <1>5. TableTyping' /\ HandledInv' /\ TableInv' /\ Grows
    BY <1>1, <1>2, <1>3, <1>4, SameTable
  <1>6. CallTyping' /\ \A s \in Calls : CallInv(s)'
    <2>1. CASE UNCHANGED <<pc, result>>
      <3>1. CallTyping'
        BY <1>1, <2>1 DEF StatsInv, CallTyping
      <3>2. \A s \in Calls : CallStays(s)
        BY <1>1, <2>1 DEF CallStays
      <3> QED
        BY <1>5, <3>1, <3>2, StaysInv
    <2>2. CASE Stats!Stop \/ Stats!Crash
      <3>1. /\ pc' = [s \in Calls |-> IF Stats!InStats(s) THEN "done" ELSE pc[s]]
            /\ result' = [s \in Calls |-> IF Stats!InStats(s) THEN "Unavailable" ELSE result[s]]
        BY <2>2
      <3>2. CallTyping'
        BY <1>1, <3>1 DEF StatsInv, CallTyping
      <3>3. ASSUME NEW s \in Calls PROVE CallInv(s)'
        <4>1. CASE Stats!InStats(s)
          BY <1>1, <1>5, <3>1, <4>1, EndedInv
        <4>2. CASE ~Stats!InStats(s)
          <5>1. CallStays(s)
            BY <1>1, <3>1, <4>2 DEF CallStays
          <5> QED
            BY <1>5, <5>1, StaysInv
        <4> QED
          BY <4>1, <4>2
      <3> QED
        BY <3>2, <3>3
    <2> QED
      BY <2>1, <2>2
  <1> QED
    BY <1>5, <1>6 DEF StatsInv

(* A click is published, and not handled yet.                              *)
LEMMA PublishClickInv ==
  ASSUME StatsInv, NEW m \in Stats!Click, Stats!Publish(m)
  PROVE  StatsInv'
  <1>1. /\ Len(stream) < MaxClicks /\ stream' = Append(stream, m)
        /\ UNCHANGED <<clicks, offset, handled, process, stops>>
        /\ UNCHANGED <<pc, query, total, last, daily, seen, result>>
    BY DEF Stats!Publish, Stats!Topic!Produce, Stats!calls, Stats!answer
  <1>2. /\ stream' \in Seq(Stats!Click) /\ Len(stream') = Len(stream) + 1
        /\ DOMAIN stream' = DOMAIN stream \cup {Len(stream) + 1}
        /\ \A i \in DOMAIN stream : stream'[i] = stream[i]
    <2>1. stream \in Seq(Stats!Click)
      BY DEF StatsInv, TableTyping
    <2> QED
      BY <1>1, <2>1
  <1>3. TableTyping'
    <2>1. Len(stream') <= MaxClicks /\ offset \in 0..Len(stream')
      BY <1>1, <1>2, TableBound, TableFacts, Calendar
    <2> QED
      BY <1>1, <1>2, <2>1 DEF StatsInv, TableTyping
  <1>4. HandledInv'
    <2>1. Given' = Given
      BY <1>1 DEF Given
    <2> QED
      BY <1>1, <1>2, <2>1 DEF StatsInv, HandledInv, ToSet
  <1>5. TableInv'
    <2>1. ASSUME NEW k \in Stats!Click
          PROVE  Stats!Deliveries(k)' = Stats!Deliveries(k)
      <3>1. ASSUME NEW i \in DOMAIN stream', NEW n \in 1..(1 + MaxStops), n <= handled[i]
            PROVE  i \in DOMAIN stream
        <4>1. i \in 1..MaxClicks
          BY <1>1, <1>2, TableFacts, Calendar
        <4>2. handled[i] \in Nat /\ i \in DOMAIN handled
          BY <4>1, TableBound
        <4>3. handled[i] > 0
          BY <3>1, <4>2
        <4> QED
          BY <4>2, <4>3 DEF StatsInv, HandledInv, Given
      <3>2. ASSUME NEW d \in (DOMAIN stream') \X (1..(1 + MaxStops)), d[2] <= handled[d[1]]
            PROVE  d \in (DOMAIN stream) \X (1..(1 + MaxStops))
        BY <3>1, <3>2
      <3>3. (DOMAIN stream) \X (1..(1 + MaxStops)) \subseteq (DOMAIN stream') \X (1..(1 + MaxStops))
        BY <1>2
      <3> QED
        BY <1>1, <1>2, <3>2, <3>3 DEF Stats!Deliveries
    <2> QED
      BY <1>1, <2>1 DEF StatsInv, TableInv, Rows
  <1>6. Grows
    BY <1>1, TableFacts DEF Grows, StatsInv, TableTyping
  <1>7. \A s \in Calls : CallInv(s)'
    <2>1. \A s \in Calls : CallStays(s)
      BY <1>1 DEF CallStays
    <2> QED
      BY <1>6, <2>1, StaysInv
  <1>8. CallTyping'
    BY <1>1 DEF StatsInv, CallTyping
  <1> QED
    BY <1>3, <1>4, <1>5, <1>7, <1>8 DEF StatsInv

(* A click handled is a delivery more and a row more, and only a fault     *)
(* makes it a second one.                                                  *)
LEMMA HandleClickInv ==
  ASSUME StatsInv, NEW i, Stats!Handle(i)
  PROVE  StatsInv'
  <1> DEFINE m == stream[i]
             n == handled[i] + 1
  <1>1. /\ i \in 1..Len(stream) /\ i <= offset + 1
        /\ handled' = [handled EXCEPT ![i] = @ + 1]
        /\ clicks' = Append(clicks, m)
        /\ UNCHANGED <<stream, offset, process>>
        /\ UNCHANGED <<pc, query, total, last, daily, seen, result>>
        /\ IF handled[i] > 0 THEN stops < MaxStops /\ stops' = stops + 1 ELSE stops' = stops
    BY DEF Stats!Handle, Stats!Topic!Apply, Stats!Fault, Stats!InsertClick,
           Stats!calls, Stats!answer
  <1>2. i \in DOMAIN stream /\ m \in Stats!Click /\ i \in DOMAIN handled
    BY <1>1, TableFacts, TableBound, Calendar
  <1>3. /\ handled' \in [1..MaxClicks -> Nat] /\ DOMAIN handled' = DOMAIN handled
        /\ handled'[i] = n /\ handled[i] \in Nat /\ n \in Nat /\ n > 0
        /\ \A k \in DOMAIN handled : k # i => handled'[k] = handled[k]
    BY <1>1, <1>2 DEF StatsInv, TableTyping
  <1>4. /\ stops' \in Nat /\ stops <= stops' /\ stops' <= MaxStops /\ n <= 1 + stops'
        /\ handled[i] > 0 => stops' = stops + 1
    <2>1. handled[i] \in 0..(1 + stops) /\ stops \in Nat /\ stops <= MaxStops
      BY <1>2, TableBound
    <2> QED
      BY <1>1, <1>3, <2>1, Calendar
  <1> HIDE DEF m, n
  <1>5. /\ clicks' \in Seq(Stats!Click) /\ Len(clicks') = Len(clicks) + 1
        /\ DOMAIN clicks' = DOMAIN clicks \cup {Len(clicks) + 1}
        /\ Len(clicks) + 1 \notin DOMAIN clicks
        /\ clicks'[Len(clicks) + 1] = m
        /\ \A k \in DOMAIN clicks : clicks'[k] = clicks[k]
    <2>1. clicks \in Seq(Stats!Click)
      BY DEF StatsInv, TableTyping
    <2> QED
      BY <1>1, <1>2, <2>1
  <1>6. TableTyping'
    <2>1. stops' \in 0..MaxStops
      BY <1>4, Calendar
    <2> QED
      BY <1>1, <1>3, <1>5, <2>1 DEF StatsInv, TableTyping
  <1>7. HandledInv'
    <2>1. Given' = Given \cup {i} /\ (i \in Given <=> handled[i] > 0)
      BY <1>2, <1>3 DEF Given
    <2>2. /\ Cardinality(Given') \in Nat
          /\ Cardinality(Given') = IF i \in Given THEN Cardinality(Given) ELSE Cardinality(Given) + 1
      BY <2>1, TableBound, FS_AddElement, FS_CardinalityType
    <2>3. Len(clicks') <= Cardinality(Given') + stops'
      <3>1. Len(clicks) <= Cardinality(Given) + stops /\ Len(clicks) \in Nat
        BY TableFacts DEF StatsInv, HandledInv
      <3>2. CASE i \in Given
        BY <1>4, <1>5, <2>1, <2>2, <3>1, <3>2, TableBound
      <3>3. CASE i \notin Given
        BY <1>4, <1>5, <2>1, <2>2, <3>1, <3>3, TableBound
      <3> QED
        BY <3>2, <3>3
    <2>4. ASSUME NEW k \in Given' PROVE k \in DOMAIN stream /\ stream[k] \in ToSet(clicks')
      <3>1. CASE k = i
        BY <1>2, <1>5, <3>1 DEF ToSet, m
      <3>2. CASE k # i
        <4>1. k \in DOMAIN stream /\ stream[k] \in ToSet(clicks)
          BY <2>1, <2>4, <3>2 DEF StatsInv, HandledInv
        <4> QED
          BY <1>5, <4>1 DEF ToSet
      <3> QED
        BY <3>1, <3>2
    <2>5. ASSUME NEW k \in DOMAIN handled' PROVE handled'[k] <= 1 + stops'
      <3>1. CASE k = i
        BY <1>3, <1>4, <3>1
      <3>2. CASE k # i
        <4>1. handled[k] \in 0..(1 + stops) /\ stops \in Nat
          BY <1>3, TableBound
        <4> QED
          BY <1>3, <1>4, <3>2, <4>1
      <3> QED
        BY <3>1, <3>2
    <2> QED
      BY <1>1, <2>1, <2>3, <2>4, <2>5 DEF StatsInv, HandledInv
  <1>8. TableInv'
    <2>1. ASSUME NEW k \in Stats!Click, k = m
          PROVE  Cardinality(Rows(k)') = Cardinality(Rows(k)) + 1
      <3>1. Rows(k)' = Rows(k) \cup {Len(clicks) + 1} /\ Len(clicks) + 1 \notin Rows(k)
        BY <1>5, <2>1 DEF Rows
      <3>2. IsFiniteSet(Rows(k))
        BY RowsCounted DEF Rows
      <3> QED
        BY <3>1, <3>2, FS_AddElement
    <2>2. ASSUME NEW k \in Stats!Click, k # m
          PROVE  Rows(k)' = Rows(k)
      BY <1>5, <2>2 DEF Rows
    <2>3. ASSUME NEW d \in (DOMAIN stream) \X (1..(1 + MaxStops))
          PROVE  /\ d[1] \in DOMAIN handled /\ d[1] \in DOMAIN stream /\ d[2] \in Nat
                 /\ d = <<d[1], d[2]>>
                 /\ handled[d[1]] \in Nat
      <3>1. d[1] \in DOMAIN stream /\ d[2] \in 1..(1 + MaxStops) /\ d = <<d[1], d[2]>>
        OBVIOUS
      <3>2. d[1] \in DOMAIN handled
        BY <3>1, TableFacts, TableBound, Calendar
      <3>3. handled[d[1]] \in 0..(1 + stops) /\ stops \in Nat
        BY <3>2, TableBound
      <3> QED
        BY <3>1, <3>2, <3>3, Calendar
    <2>4. ASSUME NEW k \in Stats!Click, k = m
          PROVE  /\ Stats!Deliveries(k)' = Stats!Deliveries(k) \cup {<<i, n>>}
                 /\ <<i, n>> \notin Stats!Deliveries(k)
      <3>1. n \in 1..(1 + MaxStops) /\ ~(n <= handled[i])
        BY <1>3, <1>4, Calendar DEF n
      <3>2. ASSUME NEW d \in (DOMAIN stream) \X (1..(1 + MaxStops)), stream[d[1]] = k
            PROVE  d[2] <= handled'[d[1]] <=> d[2] <= handled[d[1]] \/ d = <<i, n>>
        <4>1. CASE d[1] = i
          <5>1. handled'[d[1]] = handled[d[1]] + 1 /\ n = handled[d[1]] + 1
            BY <1>3, <4>1 DEF n
          <5>2. d[2] <= handled'[d[1]] <=> d[2] <= handled[d[1]] \/ d[2] = n
            BY <2>3, <5>1
          <5> QED
            BY <2>3, <4>1, <5>2
        <4>2. CASE d[1] # i
          BY <1>3, <2>3, <4>2
        <4> QED
          BY <4>1, <4>2
      <3>3. <<i, n>> \in (DOMAIN stream) \X (1..(1 + MaxStops)) /\ stream[i] = k
        BY <1>2, <2>4, <3>1 DEF m
      <3> QED
        BY <1>1, <3>1, <3>2, <3>3 DEF Stats!Deliveries
    <2>5. ASSUME NEW k \in Stats!Click, k # m
          PROVE  Stats!Deliveries(k)' = Stats!Deliveries(k)
      <3>1. ASSUME NEW d \in (DOMAIN stream) \X (1..(1 + MaxStops)), stream[d[1]] = k
            PROVE  handled'[d[1]] = handled[d[1]]
        BY <1>3, <2>3, <2>5, <3>1 DEF m
      <3> QED
        BY <1>1, <3>1 DEF Stats!Deliveries
    <2>6. ASSUME NEW k \in Stats!Click
          PROVE  IsFiniteSet(Stats!Deliveries(k))
      <3>1. IsFiniteSet(DOMAIN stream) /\ IsFiniteSet(1..(1 + MaxStops))
        BY TableFacts, Interval, Calendar
      <3>2. IsFiniteSet((DOMAIN stream) \X (1..(1 + MaxStops)))
        BY <3>1, FS_Product
      <3> QED
        BY <3>2, FS_Subset DEF Stats!Deliveries
    <2>7. ASSUME NEW k \in Stats!Click
          PROVE  Cardinality(Rows(k)') = Cardinality(Stats!Deliveries(k)')
      <3>1. Cardinality(Rows(k)) = Cardinality(Stats!Deliveries(k))
        BY DEF StatsInv, TableInv
      <3>2. CASE k = m
        <4>1. Cardinality(Stats!Deliveries(k)') = Cardinality(Stats!Deliveries(k)) + 1
          BY <2>4, <2>6, <3>2, FS_AddElement
        <4> QED
          BY <2>1, <3>1, <3>2, <4>1
      <3>3. CASE k # m
        BY <2>2, <2>5, <3>1, <3>3
      <3> QED
        BY <3>2, <3>3
    <2> QED
      BY <2>7 DEF TableInv
  <1>9. Grows
    <2>1. Len(clicks) \in Nat /\ DOMAIN clicks = 1..Len(clicks)
      BY TableFacts
    <2>2. Len(clicks') \in Nat /\ DOMAIN clicks' = 1..Len(clicks') /\ Len(clicks) <= Len(clicks')
      BY <1>5, <2>1
    <2> QED
      BY <1>5, <2>1, <2>2 DEF Grows, StatsInv, TableTyping
  <1>10. \A s \in Calls : CallInv(s)'
    <2>1. \A s \in Calls : CallStays(s)
      BY <1>1 DEF CallStays
    <2> QED
      BY <1>9, <2>1, StaysInv
  <1>11. CallTyping'
    BY <1>1 DEF StatsInv, CallTyping
  <1> QED
    BY <1>6, <1>7, <1>8, <1>10, <1>11 DEF StatsInv

(* The step of a call leaves the table alone, and the other calls.         *)
LEMMA OneCall ==
  ASSUME StatsInv, NEW s \in Calls,
         UNCHANGED <<clicks, stream, offset, handled, process, stops>>,
         \A r \in Calls \ {s} : CallStays(r),
         CallTyping', Grows => CallInv(s)'
  PROVE  StatsInv'
  <1>1. stops' \in stops..MaxStops /\ offset' \in 0..Len(stream)
        /\ process' \in {"serving", "draining", "down"}
    BY TableBound, Calendar DEF StatsInv, TableTyping
  <1>2. 1..offset' \subseteq Given
    BY DEF StatsInv, HandledInv
  <1>3. TableTyping' /\ HandledInv' /\ TableInv' /\ Grows
    BY <1>1, <1>2, SameTable
  <1>4. \A r \in Calls : CallInv(r)'
    BY <1>3, StaysInv
  <1> QED
    BY <1>3, <1>4 DEF StatsInv

(* A call begins, with a range or an error.                                *)
LEMMA AskInv ==
  ASSUME StatsInv, NEW s \in Calls, NEW code, NEW from, NEW to, Stats!Ask(s, code, from, to)
  PROVE  StatsInv'
  <1>1. PICK q : q = [code |-> code, from |-> from, to |-> to]
    OBVIOUS
  <1>2. /\ query' = [query EXCEPT ![s] = q]
        /\ UNCHANGED <<clicks, stream, offset, handled, process, stops, total, last, daily>>
        /\ q.code = code /\ q.from = from /\ q.to = to
    BY <1>1 DEF Stats!Ask, Stats!topic
  <1>3. query' = [r \in Calls |-> query'[r]] /\ query'[s] = q
        /\ \A r \in Calls \ {s} : query'[r] = query[r]
    BY <1>2 DEF StatsInv, CallTyping
  <1>4. CASE ~Stats!ValidRange(from, to)
    <2>1. /\ pc' = [pc EXCEPT ![s] = "done"]
          /\ result' = [result EXCEPT ![s] = "InvalidArgument"]
          /\ seen' = seen
      BY <1>4 DEF Stats!Ask
    <2>2. CallTyping'
      BY <1>2, <1>3, <2>1 DEF StatsInv, CallTyping
    <2>3. \A r \in Calls \ {s} : CallStays(r)
      BY <1>2, <1>3, <2>1 DEF StatsInv, CallTyping, CallStays
    <2>4. pc'[s] = "done" /\ result'[s] # "ok"
      BY <2>1 DEF StatsInv, CallTyping
    <2> QED
      BY <1>2, <2>2, <2>3, <2>4, OneCall, EndedInv
  <1>5. CASE Stats!ValidRange(from, to)
    <2>1. /\ pc' = [pc EXCEPT ![s] = "total"]
          /\ seen' = [seen EXCEPT ![s] = Stats!ClicksOn(code, from, to)]
          /\ result' = result
      BY <1>5 DEF Stats!Ask
    <2>2. /\ Stats!ClicksOn(code, from, to) = Stats!Count(q)
      BY <1>2, <1>5, RangeMeansDays
    <2>3. Stats!Count(q) \in Nat
      BY RowsCounted DEF Stats!Count, Stats!RowsOf
    <2>4. CallTyping'
      BY <1>2, <1>3, <2>1, <2>2, <2>3 DEF StatsInv, CallTyping
    <2>5. \A r \in Calls \ {s} : CallStays(r)
      BY <1>2, <1>3, <2>1 DEF StatsInv, CallTyping, CallStays
    <2>6. pc'[s] = "total" /\ seen'[s] = Stats!Count(q)
      BY <2>1, <2>2 DEF StatsInv, CallTyping
    <2>7. Stats!Count(query[s])' = Stats!Count(q)
      BY <1>2, <1>3 DEF Stats!Count, Stats!RowsOf
    <2>8. total'[s] <= Len(clicks') /\ \A d \in Stats!Days : daily'[s][d] <= Len(clicks')
      BY <1>2 DEF StatsInv, CallInv
    <2>9. Stats!ValidRange(query'[s].from, query'[s].to)
      BY <1>2, <1>3, <1>5
    <2>10. CallInv(s)'
      BY <2>3, <2>6, <2>7, <2>8, <2>9 DEF CallInv, Stats!Answered, Stats!ValidRange
    <2> QED
      BY <1>2, <2>4, <2>5, <2>10, OneCall
  <1> QED
    BY <1>4, <1>5

(* It counts the rows, and notes the latest.                               *)
LEMMA QueryTotalInv ==
  ASSUME StatsInv, NEW s \in Calls, Stats!QueryTotal(s)
  PROVE  StatsInv'
  <1>0. PICK q : q = query[s]
    OBVIOUS
  <1>1. /\ pc[s] = "total" /\ total' = [total EXCEPT ![s] = Stats!Count(q)]
        /\ UNCHANGED <<clicks, stream, offset, handled, process, stops>>
        /\ UNCHANGED <<query, daily, seen>>
    BY <1>0 DEF Stats!QueryTotal, Stats!topic
  <1>2. /\ Stats!Count(q) \in Nat /\ Stats!Count(q) <= Len(clicks)
        /\ Stats!Count(q) > 0 => Stats!RowsOf(q) # {}
        /\ Stats!RowsOf(q) \subseteq DOMAIN clicks
    BY RowsCounted DEF Stats!Count, Stats!RowsOf
  <1>3. /\ Stats!ValidRange(q.from, q.to) /\ seen[s] <= Stats!Count(q) /\ seen[s] \in Nat
        /\ \A d \in Stats!Days : daily[s][d] <= Len(clicks)
    BY <1>0, <1>1 DEF StatsInv, CallInv, CallTyping
  <1>4. total'[s] = Stats!Count(q) /\ total' \in [Calls -> Nat] /\ seen'[s] = seen[s]
    BY <1>1, <1>2 DEF StatsInv, CallTyping
  <1>5. Stats!Count(query[s])' = Stats!Count(q) /\ Stats!RowsOf(query[s])' = Stats!RowsOf(q)
    BY <1>0, <1>1 DEF Stats!Count, Stats!RowsOf
  <1>6. Bracketed(s)'
    BY <1>2, <1>3, <1>4, <1>5 DEF Bracketed
  <1>7. CASE Stats!Count(q) = 0
    <2>1. /\ pc' = [pc EXCEPT ![s] = "done"] /\ result' = [result EXCEPT ![s] = "ok"]
          /\ last' = last
      BY <1>0, <1>7 DEF Stats!QueryTotal
    <2>2. CallTyping'
      BY <1>1, <1>4, <2>1 DEF StatsInv, CallTyping
    <2>3. \A r \in Calls \ {s} : CallStays(r)
      BY <1>1, <2>1 DEF StatsInv, CallTyping, CallStays
    <2>4. CallInv(s)'
      <3>1. pc'[s] = "done" /\ result'[s] = "ok" /\ ~(total'[s] > 0)
        BY <1>4, <1>7, <2>1 DEF StatsInv, CallTyping
      <3>2. Stats!DaysWithinRange(s)'
        BY <3>1 DEF Stats!DaysWithinRange
      <3>3. Stats!ValidRange(query'[s].from, query'[s].to)
        BY <1>0, <1>1, <1>3
      <3> QED
        BY <1>1, <1>2, <1>3, <1>4, <1>6, <3>1, <3>2, <3>3
           DEF CallInv, Stats!Answered, Stats!ValidRange
    <2> QED
      BY <1>1, <2>2, <2>3, <2>4, OneCall
  <1>8. CASE Stats!Count(q) # 0
    <2> DEFINE Ats == {clicks[i].at : i \in Stats!RowsOf(q)}
    <2>1. /\ pc' = [pc EXCEPT ![s] = "daily"] /\ result' = result
          /\ last' = [last EXCEPT ![s] = Stats!Max(Ats)]
      BY <1>0, <1>8 DEF Stats!QueryTotal
    <2>2. Ats # {} /\ Ats \subseteq Stats!Instants
      BY <1>2, <1>8, TableFacts
    <2>3. Stats!Max(Ats) \in Ats
      <3>1. /\ Stats!DayLength * (MaxDay + 1) \in Nat
            /\ Ats \in SUBSET Nat /\ \A k \in Ats : k <= Stats!DayLength * (MaxDay + 1)
        <4>1. \A t \in Stats!Instants : t \in Nat /\ t <= Stats!DayLength * (MaxDay + 1)
          BY Calendar DEF Stats!Instants, Stats!DayLength
        <4> HIDE DEF Ats
        <4> QED
          BY <2>2, <4>1, Calendar DEF Stats!DayLength
      <3> HIDE DEF Ats
      <3> QED
        BY <2>2, <3>1, Greatest DEF Stats!Max
    <2>4. PICK i \in Stats!RowsOf(q) : clicks[i].at = Stats!Max(Ats)
      BY <2>3
    <2>5. Stats!Max(Ats) \in Stats!Instants
      BY <2>2, <2>3
    <2> HIDE DEF Ats
    <2>6. CallTyping'
      BY <1>1, <1>4, <2>1, <2>5 DEF StatsInv, CallTyping
    <2>7. \A r \in Calls \ {s} : CallStays(r)
      BY <1>1, <2>1 DEF StatsInv, CallTyping, CallStays
    <2>8. CallInv(s)'
      <3>1. pc'[s] = "daily" /\ total'[s] > 0 /\ last'[s] = Stats!Max(Ats)
        BY <1>2, <1>4, <1>8, <2>1 DEF StatsInv, CallTyping
      <3>2. LastFound(s)'
        BY <1>1, <1>5, <2>4, <3>1 DEF LastFound
      <3>3. Stats!ValidRange(query'[s].from, query'[s].to)
        BY <1>0, <1>1, <1>3
      <3> QED
        BY <1>1, <1>2, <1>3, <1>4, <1>6, <3>1, <3>2, <3>3
           DEF CallInv, Stats!Answered, Stats!ValidRange
    <2> QED
      BY <1>1, <2>6, <2>7, <2>8, OneCall
  <1> QED
    BY <1>7, <1>8

(* It counts the rows of each day, among them those it counted before.     *)
LEMMA QueryDailyInv ==
  ASSUME StatsInv, NEW s \in Calls, Stats!QueryDaily(s)
  PROVE  StatsInv'
  <1>0. PICK q : q = query[s]
    OBVIOUS
  <1>1. /\ pc[s] = "daily" /\ daily' = [daily EXCEPT ![s] = Stats!PerDay(q)]
        /\ pc' = [pc EXCEPT ![s] = "done"] /\ result' = [result EXCEPT ![s] = "ok"]
        /\ UNCHANGED <<clicks, stream, offset, handled, process, stops>>
        /\ UNCHANGED <<query, total, last, seen>>
    BY <1>0 DEF Stats!QueryDaily, Stats!topic
  <1>2. /\ Stats!ValidRange(q.from, q.to) /\ Bracketed(s) /\ total[s] > 0 /\ LastFound(s)
        /\ total[s] <= Len(clicks) /\ total[s] \in Nat
    BY <1>0, <1>1 DEF StatsInv, CallInv, CallTyping
  <1>3. /\ Stats!Count(q) \in Nat /\ Stats!Count(query[s])' = Stats!Count(q)
        /\ Stats!Count(query[s]) = Stats!Count(q)
    BY <1>0, <1>1, RowsCounted DEF Stats!Count, Stats!RowsOf
  <1>4. ASSUME NEW d \in Stats!Days
        PROVE  /\ Stats!PerDay(q)[d] \in Nat /\ Stats!PerDay(q)[d] <= Len(clicks)
               /\ Stats!PerDay(q)[d] > 0 <=>
                    \E i \in Stats!RowsOf(q) : Stats!DayOf(clicks[i].at) = d
    <2> DEFINE On == {i \in Stats!RowsOf(q) : Stats!DayOf(clicks[i].at) = d}
    <2>1. Stats!PerDay(q)[d] = Stats!Cardinality(On)
      BY DEF Stats!PerDay
    <2>2. On \in SUBSET (DOMAIN clicks)
      BY DEF Stats!RowsOf
    <2>3. /\ Stats!Cardinality(On) \in Nat /\ Stats!Cardinality(On) <= Len(clicks)
          /\ Stats!Cardinality(On) > 0 <=> On # {}
      <3> HIDE DEF On
      <3> QED
        BY <2>2, RowsCounted
    <2> QED
      BY <2>1, <2>3
  <1>5. Stats!PerDay(q) \in [Stats!Days -> Nat]
    <2>1. Stats!PerDay(q) = [d \in Stats!Days |-> Stats!PerDay(q)[d]]
      BY DEF Stats!PerDay
    <2> QED
      BY <1>4, <2>1
  <1>6. CallTyping'
    BY <1>1, <1>5 DEF StatsInv, CallTyping
  <1>7. \A r \in Calls \ {s} : CallStays(r)
    BY <1>1 DEF StatsInv, CallTyping, CallStays
  <1>8. daily'[s] = Stats!PerDay(q) /\ pc'[s] = "done"
    BY <1>1 DEF StatsInv, CallTyping
  <1>9. Cardinality(Stats!Shown(s)') = Stats!Count(q)
    <2> DEFINE bound == MaxClicks + MaxStops
    <2>1. bound \in Nat /\ Len(clicks) <= bound
      BY TableBound, Calendar
    <2>2. Stats!Shown(s)' = {c \in Stats!Days \X (1..bound) : c[2] <= Stats!PerDay(q)[c[1]]}
      BY <1>8 DEF Stats!Shown
    <2> HIDE DEF bound
    <2> QED
      BY <2>1, <2>2, DaysAddUp
  <1>10. Cardinality(Stats!Shown(s)') \in total'[s]..Stats!Count(query[s])'
    <2>1. total[s] <= Stats!Count(q)
      BY <1>2, <1>3 DEF Bracketed
    <2> QED
      BY <1>1, <1>2, <1>3, <1>9, <2>1
  <1>11. Stats!DaysWithinRange(s)'
    <2>1. PICK i \in Stats!RowsOf(q) : clicks[i].at = last[s]
      BY <1>0, <1>2 DEF LastFound
    <2>2. Stats!DayOf(last[s]) \in Stats!Days
      BY <2>1, TableFacts, Calendar DEF Stats!RowsOf
    <2>3. daily'[s][Stats!DayOf(last'[s])] > 0
      BY <1>1, <1>4, <1>8, <2>1, <2>2
    <2>4. ASSUME NEW d \in Stats!Days, daily'[s][d] > 0
          PROVE  /\ q.from # NoDate => q.from <= d
                 /\ q.to # NoDate => d <= q.to
      <3>1. PICK j \in Stats!RowsOf(q) : Stats!DayOf(clicks[j].at) = d
        BY <1>4, <1>8, <2>4
      <3> QED
        BY <1>2, <3>1, RangeMeansDays
    <2>5. query'[s] = q
      BY <1>0, <1>1
    <2>6. Stats!DayOf(last[s])' = Stats!DayOf(last[s])
      BY <1>1 DEF Stats!DayOf
    <2> QED
      BY <1>1, <2>3, <2>4, <2>5, <2>6 DEF Stats!DaysWithinRange, Stats!DayOf
  <1>12. Bracketed(s)'
    BY <1>1, <1>2, <1>3 DEF Bracketed
  <1>13. CallInv(s)'
    <2>1. \A d \in Stats!Days : daily'[s][d] <= Len(clicks')
      BY <1>1, <1>4, <1>8
    <2>2. Stats!ValidRange(query'[s].from, query'[s].to)
      BY <1>0, <1>1, <1>2
    <2> QED
      BY <1>1, <1>2, <1>8, <1>10, <1>11, <1>12, <2>1, <2>2
         DEF CallInv, Stats!Answered, Stats!ValidRange
  <1> QED
    BY <1>1, <1>6, <1>7, <1>13, OneCall

(* One of its queries fails.                                               *)
LEMMA QueryFailsInv ==
  ASSUME StatsInv, NEW s \in Calls, Stats!QueryFails(s)
  PROVE  StatsInv'
  <1>1. /\ pc' = [pc EXCEPT ![s] = "done"] /\ result' = [result EXCEPT ![s] = "Internal"]
        /\ UNCHANGED <<clicks, stream, offset, handled, process, stops>>
        /\ UNCHANGED <<query, total, last, daily, seen>>
    BY DEF Stats!QueryFails, Stats!topic
  <1>2. CallTyping'
    BY <1>1 DEF StatsInv, CallTyping
  <1>3. /\ \A r \in Calls \ {s} : CallStays(r)
        /\ pc'[s] = "done" /\ result'[s] = "Internal"
    BY <1>1 DEF StatsInv, CallTyping, CallStays
  <1> QED
    BY <1>1, <1>2, <1>3, OneCall, EndedInv

(* The invariant is inductive.                                             *)
LEMMA StatsStepInv == StatsInv /\ [Stats!Next]_(Stats!vars) => StatsInv'
  <1> SUFFICES ASSUME StatsInv, [Stats!Next]_(Stats!vars) PROVE StatsInv'
    OBVIOUS
  <1>1. CASE \E m \in Stats!Click : Stats!Publish(m)
    BY <1>1, PublishClickInv
  <1>2. CASE Stats!HandleNext \/ Stats!HandleAgain
    BY <1>2, HandleClickInv DEF Stats!HandleNext, Stats!HandleAgain
  <1>3. CASE Stats!CommitOffset \/ Stats!Start \/ Stats!Signal \/ Stats!Stop \/ Stats!Crash
    BY <1>3, ProcessInv
  <1>4. ASSUME NEW s \in Calls,
               \/ \E c \in Clicked, from, to \in Stats!Dates : Stats!Ask(s, c, from, to)
               \/ Stats!QueryTotal(s) \/ Stats!QueryDaily(s) \/ Stats!QueryFails(s)
        PROVE  StatsInv'
    BY <1>4, AskInv, QueryTotalInv, QueryDailyInv, QueryFailsInv
  <1>5. CASE UNCHANGED Stats!vars
    <2>1. /\ UNCHANGED <<clicks, stream, offset, handled, process, stops>>
          /\ UNCHANGED <<pc, query, total, last, daily, seen, result>>
      BY <1>5 DEF Stats!vars, Stats!topic, Stats!calls, Stats!answer
    <2>2. stops' \in stops..MaxStops /\ offset' \in 0..Len(stream)
          /\ process' \in {"serving", "draining", "down"}
      BY <2>1, TableBound, Calendar DEF StatsInv, TableTyping
    <2>3. 1..offset' \subseteq Given
      BY <2>1 DEF StatsInv, HandledInv
    <2>4. TableTyping' /\ HandledInv' /\ TableInv' /\ Grows
      BY <2>1, <2>2, <2>3, SameTable
    <2>5. \A s \in Calls : CallStays(s)
      BY <2>1 DEF CallStays
    <2>6. CallTyping'
      BY <2>1 DEF StatsInv, CallTyping
    <2> QED
      BY <2>4, <2>5, <2>6, StaysInv DEF StatsInv
  <1> QED
    BY <1>1, <1>2, <1>3, <1>4, <1>5 DEF Stats!Next

(* The invariant of analytics holds in every behaviour.                    *)
THEOREM StatsInvariant == StatsSpec => []StatsInv
  BY StatsInitInv, StatsStepInv, PTL DEF StatsSpec, Stats!Spec

(* The table of clicks has a row for every delivery, whatever process and  *)
(* consumer have been through.                                             *)
THEOREM EveryDeliveryCounts == StatsSpec => []CountsDeliveries
  <1>1. StatsInv => CountsDeliveries
    <2> SUFFICES ASSUME StatsInv PROVE CountsDeliveries
      OBVIOUS
    <2>1. ASSUME NEW m \in Stats!Click
          PROVE  Stats!Cardinality({i \in DOMAIN clicks : clicks[i] = m}) =
                   Stats!Cardinality(Stats!Deliveries(m))
      BY DEF StatsInv, TableInv, Rows, Stats!Cardinality, Cardinality
    <2>2. \A i \in 1..offset : stream[i] \in Stats!ToSet(clicks)
      BY DEF StatsInv, HandledInv, Stats!ToSet, ToSet
    <2> QED
      BY <2>1, <2>2, StatsTypeOK DEF CountsDeliveries, Stats!CountsDeliveries
  <1> QED
    BY <1>1, StatsInvariant, PTL

(* The clicks reach analytics as Delivery says, too, through the crashes   *)
(* and shutdowns of its process and the repeats of its consumer.           *)
THEOREM ClicksAreDelivered == StatsSpec => Stats!Topic!Spec
  <1>1. Stats!Init => Stats!Topic!Init
    BY DEF Stats!Init, Stats!Topic!Init
  <1>2. ASSUME StatsInv, [Stats!Next]_(Stats!vars)
        PROVE  [Stats!Topic!Next]_<<stream, offset, handled>>
    <2> DEFINE Kept == UNCHANGED <<stream, offset, handled>>
    <2>1. ASSUME NEW m \in Stats!Click, Stats!Publish(m)
          PROVE  Stats!Topic!Next
      BY <2>1 DEF Stats!Publish, Stats!Topic!Next
    <2>2. offset \in Nat /\ DOMAIN stream = 1..Len(stream) /\ Len(stream) \in Nat
      BY <1>2, TableBound DEF StatsInv, TableTyping
    <2>3. CASE Stats!HandleNext \/ Stats!HandleAgain
      <3>1. PICK i \in DOMAIN stream : Stats!Topic!Apply(i)
        <4>1. offset + 1 \in DOMAIN stream \/ ~Stats!HandleNext
          BY <2>2 DEF Stats!HandleNext
        <4> QED
          BY <2>3, <4>1 DEF Stats!HandleNext, Stats!HandleAgain, Stats!Handle
      <3> QED
        BY <3>1 DEF Stats!Topic!Next
    <2>4. CASE Stats!CommitOffset
      <3>1. Stats!Topic!Commit(offset + 1) /\ offset + 1 <= Len(stream)
        BY <2>4 DEF Stats!CommitOffset, Stats!Topic!Commit
      <3>2. offset + 1 \in DOMAIN stream
        BY <2>2, <3>1
      <3> QED
        BY <3>1, <3>2 DEF Stats!Topic!Next
    <2>5. CASE Stats!Start
      BY <2>5 DEF Stats!Start, Stats!StartOffset
    <2>6. CASE Stats!Signal \/ Stats!Stop \/ Stats!Crash
      BY <2>6 DEF Stats!Signal, Stats!Stop, Stats!Crash, Stats!topic
    <2>7. ASSUME NEW s \in Calls,
                 \/ \E c \in Clicked, from, to \in Stats!Dates : Stats!Ask(s, c, from, to)
                 \/ Stats!QueryTotal(s) \/ Stats!QueryDaily(s) \/ Stats!QueryFails(s)
          PROVE  Kept
      BY <2>7 DEF Stats!Ask, Stats!QueryTotal, Stats!QueryDaily, Stats!QueryFails, Stats!topic
    <2>8. CASE UNCHANGED Stats!vars
      BY <2>8 DEF Stats!vars, Stats!topic
    <2> QED
      BY <1>2, <2>1, <2>3, <2>4, <2>5, <2>6, <2>7, <2>8 DEF Stats!Next
  <1> QED
    BY <1>1, <1>2, StatsInvariant, PTL DEF StatsSpec, Stats!Spec, Stats!Topic!Spec

(* Whatever arrives between the two queries of Stats, the answer is of the *)
(* range asked for, and between the clicks there were at its beginning and *)
(* those there are now.                                                    *)
THEOREM AnswersAreOfTheRange == StatsSpec => []TotalWithinDays
  <1>1. StatsInv => TotalWithinDays
    <2> SUFFICES ASSUME StatsInv, NEW s \in Calls, Stats!Answered(s)
                 PROVE  LET now == Stats!ClicksOn(query[s].code, query[s].from, query[s].to)
                        IN  /\ seen[s] <= total[s] /\ total[s] <= now
                            /\ total[s] > 0 => Stats!Cardinality(Stats!Shown(s)) \in total[s]..now
                            /\ Stats!DaysWithinRange(s)
      BY DEF TotalWithinDays, Stats!TotalWithinDays
    <2>1. /\ Stats!ValidRange(query[s].from, query[s].to) /\ Bracketed(s)
          /\ total[s] > 0 => Cardinality(Stats!Shown(s)) \in total[s]..Stats!Count(query[s])
          /\ Stats!DaysWithinRange(s)
      BY DEF StatsInv, CallInv
    <2>2. Stats!ClicksOn(query[s].code, query[s].from, query[s].to) = Stats!Count(query[s])
      BY <2>1, RangeMeansDays
    <2>3. Stats!Cardinality(Stats!Shown(s)) = Cardinality(Stats!Shown(s))
      BY DEF Stats!Cardinality, Cardinality
    <2> QED
      BY <2>1, <2>2, <2>3 DEF Bracketed
  <1> QED
    BY <1>1, StatsInvariant, PTL

-----------------------------------------------------------------------------
(* Stored times: a text is a text up to the zeros it drops, and the first  *)
(* character in which two of them differ is what tells the moments apart.  *)

(* A time, of any day.                                                     *)
Moment == [day : Nat, second : 0..MaxSecond, fraction : [1..Width -> 0..9]]

(* How many digits of the fraction are stored: up to the last that is not  *)
(* zero.                                                                   *)
Kept(ds) == LET nonzero == {i \in 1..Width : ds[i] # 0}
            IN  IF nonzero = {} THEN 0 ELSE Time!Max(nonzero)

(* The last digit kept is not a zero and no other follows it.              *)
LEMMA KeptFacts ==
  ASSUME NEW ds \in [1..Width -> 0..9]
  PROVE  /\ Kept(ds) \in 0..Width
         /\ \A i \in 1..Width : ds[i] # 0 => i <= Kept(ds)
         /\ Kept(ds) > 0 => ds[Kept(ds)] # 0
  <1> DEFINE nonzero == {i \in 1..Width : ds[i] # 0}
  <1>1. CASE nonzero = {}
    BY <1>1, TimeAssumption DEF Kept
  <1>2. CASE nonzero # {}
    <2>1. nonzero \in SUBSET Nat /\ \A k \in nonzero : k <= Width
      BY TimeAssumption
    <2>2. \E n \in nonzero : \A k \in nonzero : n >= k
      <3> HIDE DEF nonzero
      <3> QED
        BY <1>2, <2>1, TimeAssumption, Greatest
    <2>3. Time!Max(nonzero) \in nonzero /\ \A k \in nonzero : Time!Max(nonzero) >= k
      <3> HIDE DEF nonzero
      <3> QED
        BY <2>2 DEF Time!Max
    <2>4. Kept(ds) = Time!Max(nonzero)
      BY <1>2 DEF Kept
    <2>5. Kept(ds) \in nonzero /\ \A k \in nonzero : Kept(ds) >= k
      BY <2>3, <2>4
    <2> QED
      BY <2>5, TimeAssumption
  <1> QED
    BY <1>1, <1>2

(* Two sequences, one after the other.                                     *)
LEMMA Joined ==
  ASSUME NEW a \in Seq(Nat), NEW b \in Seq(Nat)
  PROVE  /\ a \o b \in Seq(Nat) /\ Len(a \o b) = Len(a) + Len(b)
         /\ \A i \in 1..Len(a) : (a \o b)[i] = a[i]
         /\ \A i \in 1..Len(b) : (a \o b)[Len(a) + i] = b[i]
  OBVIOUS

(* The text of a moment, character by character.                           *)
LEMMA TextFacts ==
  ASSUME NEW t \in Moment, NEW k, k = Kept(t.fraction)
  PROVE  /\ k \in 0..Width
         /\ Time!Text(t) \in Seq(Nat)
         /\ Len(Time!Text(t)) = IF k = 0 THEN 5 ELSE k + 6
         /\ Time!Text(t)[1] = 3 + t.day /\ Time!Text(t)[2] = 3 + t.second
         /\ k > 0 => /\ Time!Text(t)[3] = 2
                     /\ \A i \in 1..k : Time!Text(t)[3 + i] = 3 + t.fraction[i]
                     /\ Time!Text(t)[4 + k] = 1
         /\ k = 0 => Time!Text(t)[3] = 1
  <1> USE DEF Time!Digit, Time!Dot, Time!Plus
  <1>1. /\ t.day \in Nat /\ t.second \in Nat /\ t.fraction \in [1..Width -> 0..9]
        /\ k \in 0..Width /\ Width \in Nat /\ k \in Nat /\ k <= Width
    BY KeptFacts, TimeAssumption DEF Moment
  <1> DEFINE digits == [i \in 1..k |-> 3 + t.fraction[i]]
             fraction == IF k = 0 THEN <<>> ELSE <<2>> \o digits
             date == <<3 + t.day, 3 + t.second>>
             zone == <<1, 3, 3>>
  <1>2. Time!Text(t) = date \o fraction \o zone
    BY <1>1 DEF Time!Text, Time!Fraction, Time!Zone, Kept
  <1>3. /\ digits \in Seq(Nat) /\ Len(digits) = k
        /\ \A i \in 1..k : digits[i] = 3 + t.fraction[i]
    <2>1. \A i \in 1..k : 3 + t.fraction[i] \in Nat
      BY <1>1
    <2>2. digits \in [1..k -> Nat]
      BY <2>1
    <2> QED
      BY <1>1, <2>2
  <1>4. /\ date \in Seq(Nat) /\ Len(date) = 2
        /\ date[1] = 3 + t.day /\ date[2] = 3 + t.second
    <2>1. 3 + t.day \in Nat /\ 3 + t.second \in Nat
      BY <1>1
    <2> QED
      BY <2>1
  <1>7. zone \in Seq(Nat) /\ Len(zone) = 3 /\ zone[1] = 1
    OBVIOUS
  <1> HIDE DEF digits, date, zone
  <1>5. CASE k = 0
    <2>1. Time!Text(t) = date \o zone
      BY <1>2, <1>4, <1>5
    <2>2. /\ Time!Text(t) \in Seq(Nat) /\ Len(Time!Text(t)) = 2 + 3
          /\ \A i \in 1..2 : Time!Text(t)[i] = date[i]
          /\ \A i \in 1..3 : Time!Text(t)[2 + i] = zone[i]
      <3>1. /\ date \o zone \in Seq(Nat) /\ Len(date \o zone) = Len(date) + Len(zone)
            /\ \A i \in 1..Len(date) : (date \o zone)[i] = date[i]
            /\ \A i \in 1..Len(zone) : (date \o zone)[Len(date) + i] = zone[i]
        BY <1>4, <1>7, Joined
      <3> QED
        BY <1>4, <1>7, <2>1, <3>1
    <2>3. Time!Text(t)[3] = 1
      <3>1. Time!Text(t)[2 + 1] = zone[1]
        BY <2>2
      <3> QED
        BY <1>7, <3>1
    <2> QED
      BY <1>1, <1>4, <1>5, <2>2, <2>3
  <1>6. CASE k # 0
    <2>1. /\ fraction \in Seq(Nat) /\ Len(fraction) = k + 1 /\ fraction[1] = 2
          /\ \A i \in 1..k : fraction[1 + i] = 3 + t.fraction[i]
      <3>1. <<2>> \in Seq(Nat) /\ Len(<<2>>) = 1 /\ <<2>>[1] = 2
        OBVIOUS
      <3>2. fraction = <<2>> \o digits
        BY <1>6
      <3> HIDE DEF fraction
      <3>3. /\ fraction \in Seq(Nat) /\ Len(fraction) = 1 + k
            /\ \A i \in 1..1 : fraction[i] = <<2>>[i]
            /\ \A i \in 1..k : fraction[1 + i] = digits[i]
        BY <1>3, <3>1, <3>2, Joined
      <3>4. fraction[1] = 2
        BY <3>1, <3>3
      <3> QED
        BY <1>1, <1>3, <3>3, <3>4
    <2> HIDE DEF fraction
    <2> DEFINE front == date \o fraction
    <2>2. /\ front \in Seq(Nat) /\ Len(front) = 2 + (k + 1)
          /\ \A i \in 1..2 : front[i] = date[i]
          /\ \A i \in 1..(k + 1) : front[2 + i] = fraction[i]
      <3>1. /\ date \o fraction \in Seq(Nat) /\ Len(date \o fraction) = Len(date) + Len(fraction)
            /\ \A i \in 1..Len(date) : (date \o fraction)[i] = date[i]
            /\ \A i \in 1..Len(fraction) : (date \o fraction)[Len(date) + i] = fraction[i]
        BY <1>4, <2>1, Joined
      <3> QED
        BY <1>1, <1>4, <2>1, <3>1
    <2> HIDE DEF front
    <2>3. Time!Text(t) = front \o zone
      BY <1>2 DEF front
    <2>4. /\ Time!Text(t) \in Seq(Nat) /\ Len(Time!Text(t)) = Len(front) + 3
          /\ \A i \in 1..Len(front) : Time!Text(t)[i] = front[i]
          /\ \A i \in 1..3 : Time!Text(t)[Len(front) + i] = zone[i]
      <3>1. /\ front \o zone \in Seq(Nat) /\ Len(front \o zone) = Len(front) + Len(zone)
            /\ \A i \in 1..Len(front) : (front \o zone)[i] = front[i]
            /\ \A i \in 1..Len(zone) : (front \o zone)[Len(front) + i] = zone[i]
        BY <1>7, <2>2, Joined
      <3> QED
        BY <1>7, <2>3, <3>1
    <2>5. Len(front) = k + 3 /\ Len(Time!Text(t)) = k + 6
      <3>1. k \in Nat /\ Len(front) = 2 + (k + 1)
        BY <1>1, <2>2
      <3>2. Len(front) = k + 3
        BY <3>1
      <3>3. Len(Time!Text(t)) = Len(front) + 3
        BY <2>4
      <3> QED
        BY <3>1, <3>2, <3>3
    <2>6. Time!Text(t)[1] = 3 + t.day /\ Time!Text(t)[2] = 3 + t.second
      <3>1. 1 \in 1..Len(front) /\ 2 \in 1..Len(front) /\ 1 \in 1..2 /\ 2 \in 1..2
        BY <1>1, <2>5
      <3>2. Time!Text(t)[1] = front[1] /\ Time!Text(t)[2] = front[2]
        BY <2>4, <3>1
      <3>3. front[1] = date[1] /\ front[2] = date[2]
        BY <2>2, <3>1
      <3> QED
        BY <1>4, <3>2, <3>3
    <2>7. ASSUME NEW i \in 1..(k + 1)
          PROVE  Time!Text(t)[2 + i] = fraction[i]
      <3>1. 2 + i \in 1..Len(front)
        BY <1>1, <2>5
      <3> QED
        BY <2>2, <2>4, <3>1
    <2>8. Time!Text(t)[3] = 2
      <3>1. 1 \in 1..(k + 1)
        BY <1>1
      <3>2. Time!Text(t)[2 + 1] = fraction[1]
        BY <2>7, <3>1
      <3> QED
        BY <2>1, <3>2
    <2>9. ASSUME NEW i \in 1..k
          PROVE  Time!Text(t)[3 + i] = 3 + t.fraction[i]
      <3>1. 1 + i \in 1..(k + 1) /\ 2 + (1 + i) = 3 + i
        BY <1>1
      <3>2. Time!Text(t)[2 + (1 + i)] = fraction[1 + i]
        BY <2>7, <3>1
      <3> QED
        BY <2>1, <3>1, <3>2
    <2>10. Time!Text(t)[4 + k] = 1
      <3>1. Time!Text(t)[Len(front) + 1] = zone[1] /\ Len(front) + 1 = 4 + k
        BY <1>1, <2>4, <2>5
      <3> QED
        BY <1>7, <3>1
    <2> QED
      BY <1>1, <1>6, <2>4, <2>5, <2>6, <2>8, <2>9, <2>10
  <1> QED
    BY <1>5, <1>6, <1>1

(* Of two texts at most one is less than the other.                        *)
LEMMA TextOrder ==
  ASSUME NEW a \in Seq(Nat), NEW b \in Seq(Nat), Time!TextLess(a, b)
  PROVE  ~Time!TextLess(b, a)
  <1> DEFINE Differ(x, y, i) == /\ i \in DOMAIN x \cap DOMAIN y /\ x[i] < y[i]
                                /\ \A j \in 1..(i - 1) : x[j] = y[j]
             Longer(x, y) == Len(x) < Len(y) /\ \A i \in DOMAIN x : x[i] = y[i]
  <1>1. /\ Len(a) \in Nat /\ Len(b) \in Nat
        /\ DOMAIN a = 1..Len(a) /\ DOMAIN b = 1..Len(b)
        /\ \A i \in DOMAIN a : a[i] \in Nat
        /\ \A i \in DOMAIN b : b[i] \in Nat
    OBVIOUS
  <1>2. ASSUME NEW x \in Seq(Nat), NEW y \in Seq(Nat), Time!IsStrictPrefix(x, y)
        PROVE  Longer(x, y)
    <2>1. /\ Len(x) <= Len(y) /\ SubSeq(x, 1, Len(x)) = SubSeq(y, 1, Len(x)) /\ x # y
      BY <1>2 DEF Time!IsStrictPrefix, Time!IsPrefix
    <2>2. /\ Len(x) \in Nat /\ Len(y) \in Nat /\ DOMAIN x = 1..Len(x) /\ DOMAIN y = 1..Len(y)
      OBVIOUS
    <2>3. ASSUME NEW i \in 1..Len(x) PROVE x[i] = y[i]
      <3>1. SubSeq(x, 1, Len(x))[i] = x[i]
        BY <2>2
      <3>2. SubSeq(y, 1, Len(x))[i] = y[i]
        BY <2>1, <2>2
      <3> QED
        BY <2>1, <3>1, <3>2
    <2>4. Len(x) # Len(y)
      <3> SUFFICES ASSUME Len(x) = Len(y) PROVE FALSE
        OBVIOUS
      <3>2. x = y
        BY <2>3, SeqEqual
      <3> QED
        BY <2>1, <3>2
    <2>6. Len(x) <= Len(y)
      BY <2>1
    <2>7. Len(x) \in Nat /\ Len(y) \in Nat
      OBVIOUS
    <2>5. Len(x) < Len(y)
      <3>1. \A m, o \in Nat : m <= o /\ m # o => m < o
        OBVIOUS
      <3> QED
        BY <2>4, <2>6, <2>7, <3>1
    <2> QED
      BY <2>2, <2>3, <2>5
  <1>3. ASSUME NEW x \in Seq(Nat), NEW y \in Seq(Nat), Time!TextLess(x, y)
        PROVE  Longer(x, y) \/ \E i \in 1..Len(x) : Differ(x, y, i)
    <2>1. CASE Time!IsStrictPrefix(x, y)
      BY <1>2, <2>1
    <2>2. CASE \E i \in DOMAIN x \cap DOMAIN y : Differ(x, y, i)
      <3>1. DOMAIN x = 1..Len(x)
        OBVIOUS
      <3> QED
        BY <2>2, <3>1
    <2> QED
      BY <1>3, <2>1, <2>2 DEF Time!TextLess
  <1>4. ASSUME Longer(a, b), NEW i \in 1..Len(b), Differ(b, a, i) PROVE FALSE
    BY <1>1, <1>4
  <1>5. ASSUME Longer(b, a), NEW i \in 1..Len(a), Differ(a, b, i) PROVE FALSE
    BY <1>1, <1>5
  <1>6. ASSUME NEW i \in 1..Len(a), Differ(a, b, i), NEW j \in 1..Len(b), Differ(b, a, j)
        PROVE  FALSE
    <2>1. i \in Nat /\ j \in Nat /\ i > 0 /\ j > 0
      BY <1>1
    <2>2. a[i] \in Nat /\ b[i] \in Nat /\ a[j] \in Nat /\ b[j] \in Nat
      BY <1>1, <1>6
    <2>3. CASE i < j
      BY <1>6, <2>1, <2>2, <2>3
    <2>4. CASE j < i
      BY <1>6, <2>1, <2>2, <2>4
    <2>5. CASE i = j
      BY <1>6, <2>1, <2>2, <2>5
    <2> QED
      BY <2>1, <2>3, <2>4, <2>5
  <1>7. ASSUME Longer(a, b), Longer(b, a) PROVE FALSE
    BY <1>1, <1>7
  <1> SUFFICES ASSUME Time!TextLess(b, a) PROVE FALSE
    OBVIOUS
  <1>8. Longer(a, b) \/ \E i \in 1..Len(a) : Differ(a, b, i)
    BY <1>3
  <1>9. Longer(b, a) \/ \E i \in 1..Len(b) : Differ(b, a, i)
    BY <1>3
  <1> HIDE DEF Longer, Differ
  <1> QED
    BY <1>4, <1>5, <1>6, <1>7, <1>8, <1>9

(* The parts of a moment.                                                  *)
LEMMA MomentFacts ==
  ASSUME NEW t \in Moment
  PROVE  /\ t.day \in Nat /\ t.second \in Nat /\ t.fraction \in [1..Width -> 0..9]
         /\ \A i \in 1..Width : t.fraction[i] \in Nat
         /\ t = [day |-> t.day, second |-> t.second, fraction |-> t.fraction]
  <1>1. /\ t.day \in Nat /\ t.second \in 0..MaxSecond /\ t.fraction \in [1..Width -> 0..9]
        /\ t = [day |-> t.day, second |-> t.second, fraction |-> t.fraction]
    BY DEF Moment
  <1>2. t.second \in Nat
    BY <1>1, TimeAssumption
  <1>3. ASSUME NEW i \in 1..Width PROVE t.fraction[i] \in Nat
    <2>1. t.fraction[i] \in 0..9
      BY <1>1
    <2> QED
      BY <2>1
  <1> QED
    BY <1>1, <1>2, <1>3

(* A moment's text is shorter at most by zeros and the first difference of *)
(* two moments is that of their texts.                                     *)
LEMMA EarlierIsLess ==
  ASSUME NEW t \in Moment, NEW u \in Moment, Time!Earlier(t, u)
  PROVE  Time!TextLess(Time!Text(t), Time!Text(u))
  <1>1. PICK a : a = Time!Text(t)
    OBVIOUS
  <1>2. PICK b : b = Time!Text(u)
    OBVIOUS
  <1>3. PICK k : k = Kept(t.fraction)
    OBVIOUS
  <1>4. PICK n : n = Kept(u.fraction)
    OBVIOUS
  <1>5. /\ t.day \in Nat /\ t.second \in Nat /\ u.day \in Nat /\ u.second \in Nat
        /\ \A i \in 1..Width : t.fraction[i] \in Nat /\ u.fraction[i] \in Nat
        /\ t.fraction \in [1..Width -> 0..9] /\ u.fraction \in [1..Width -> 0..9]
        /\ Width \in Nat
    BY TimeAssumption, MomentFacts
  <1>6. /\ k \in 0..Width /\ a \in Seq(Nat)
        /\ Len(a) = IF k = 0 THEN 5 ELSE k + 6
        /\ a[1] = 3 + t.day /\ a[2] = 3 + t.second
        /\ k > 0 => /\ a[3] = 2 /\ \A i \in 1..k : a[3 + i] = 3 + t.fraction[i]
                    /\ a[4 + k] = 1
        /\ k = 0 => a[3] = 1
    BY <1>1, <1>3, TextFacts
  <1>7. /\ n \in 0..Width /\ b \in Seq(Nat)
        /\ Len(b) = IF n = 0 THEN 5 ELSE n + 6
        /\ b[1] = 3 + u.day /\ b[2] = 3 + u.second
        /\ n > 0 => /\ b[3] = 2 /\ \A i \in 1..n : b[3 + i] = 3 + u.fraction[i]
                    /\ b[4 + n] = 1
        /\ n = 0 => b[3] = 1
    BY <1>2, <1>4, TextFacts
  <1>8. /\ k \in Nat /\ k <= Width /\ n \in Nat /\ n <= Width
        /\ Len(a) \in Nat /\ Len(b) \in Nat
        /\ Len(a) >= 5 /\ Len(b) >= 5
        /\ k > 0 => Len(a) = k + 6
        /\ n > 0 => Len(b) = n + 6
        /\ DOMAIN a = 1..Len(a) /\ DOMAIN b = 1..Len(b)
    <2>1. Width \in Nat /\ k \in 0..Width /\ n \in 0..Width
      BY <1>5, <1>6, <1>7
    <2>2. k \in Nat /\ k <= Width /\ n \in Nat /\ n <= Width
      BY <2>1
    <2>3. Len(a) = IF k = 0 THEN 5 ELSE k + 6
      BY <1>6
    <2>4. Len(b) = IF n = 0 THEN 5 ELSE n + 6
      BY <1>7
    <2>6. a \in Seq(Nat) /\ b \in Seq(Nat)
      BY <1>6, <1>7
    <2>5. DOMAIN a = 1..Len(a) /\ DOMAIN b = 1..Len(b)
      BY <2>6
    <2> QED
      BY <2>2, <2>3, <2>4, <2>5
  <1>12. ASSUME NEW i \in Nat, i > 0, i <= Len(a), i <= Len(b)
         PROVE  i \in DOMAIN a \cap DOMAIN b
    <2>1. /\ DOMAIN a = 1..Len(a) /\ DOMAIN b = 1..Len(b)
          /\ Len(a) \in Nat /\ Len(b) \in Nat
      BY <1>8
    <2> QED
      BY <1>12, <2>1
  <1>13. k \in Nat /\ n \in Nat /\ k <= Width /\ n <= Width /\ Width \in Nat
    BY <1>5, <1>8
  <1>14. /\ Len(a) \in Nat /\ Len(b) \in Nat /\ Len(a) >= 5 /\ Len(b) >= 5
         /\ k > 0 => Len(a) = k + 6
         /\ n > 0 => Len(b) = n + 6
    BY <1>8
  <1> SUFFICES \E i \in DOMAIN a \cap DOMAIN b :
                 a[i] < b[i] /\ \A j \in 1..(i - 1) : a[j] = b[j]
    BY <1>1, <1>2 DEF Time!TextLess
  <1>9. CASE t.day < u.day
    <2>1. 1 \in DOMAIN a \cap DOMAIN b /\ a[1] < b[1] /\ \A j \in 1..(1 - 1) : a[j] = b[j]
      BY <1>5, <1>6, <1>7, <1>8, <1>9
    <2> QED
      BY <2>1
  <1>10. CASE t.day = u.day /\ t.second < u.second
    <2>1. 2 \in DOMAIN a \cap DOMAIN b /\ a[2] < b[2] /\ \A j \in 1..(2 - 1) : a[j] = b[j]
      BY <1>5, <1>6, <1>7, <1>8, <1>10
    <2> QED
      BY <2>1
  <1>11. ASSUME t.day = u.day, t.second = u.second, NEW d \in 1..Width,
                t.fraction[d] < u.fraction[d],
                \A j \in 1..(d - 1) : t.fraction[j] = u.fraction[j]
         PROVE  \E i \in DOMAIN a \cap DOMAIN b :
                  a[i] < b[i] /\ \A j \in 1..(i - 1) : a[j] = b[j]
    <2>1. d \in Nat /\ d > 0 /\ u.fraction[d] # 0
      BY <1>5, <1>11
    <2>2. d <= n
      BY <1>4, <1>5, <2>1, KeptFacts
    <2>8. n > 0 /\ Len(b) = n + 6
      BY <1>13, <1>14, <2>1, <2>2
    <2>3. b[3] = 2 /\ \A j \in 1..n : b[3 + j] = 3 + u.fraction[j]
      BY <1>7, <2>8
    <2>4. a[1] = b[1] /\ a[2] = b[2]
      BY <1>6, <1>7, <1>11
    <2>5. CASE d <= k
      <3>4. k > 0 /\ Len(a) = k + 6
        BY <1>13, <1>14, <2>1, <2>5
      <3>5. a[3] = 2 /\ \A i \in 1..k : a[3 + i] = 3 + t.fraction[i]
        BY <1>6, <3>4
      <3>6. d \in 1..k /\ d \in 1..n
        BY <1>13, <2>1, <2>2, <2>5
      <3>7. 3 + d \in Nat /\ 3 + d > 0 /\ 3 + d <= Len(a) /\ 3 + d <= Len(b)
        BY <1>13, <2>1, <2>2, <2>5, <2>8, <3>4
      <3>1. 3 + d \in DOMAIN a \cap DOMAIN b
        BY <1>12, <3>7
      <3>2. a[3 + d] < b[3 + d]
        <4>1. a[3 + d] = 3 + t.fraction[d] /\ b[3 + d] = 3 + u.fraction[d]
          BY <2>3, <3>5, <3>6
        <4> QED
          BY <1>5, <1>11, <4>1
      <3>3. ASSUME NEW j \in 1..(3 + d - 1) PROVE a[j] = b[j]
        <4>1. a[3] = 2
          BY <3>5
        <4>2. ASSUME NEW i \in 1..(d - 1) PROVE a[3 + i] = b[3 + i]
          <5>1. i \in 1..k /\ i \in 1..n
            BY <1>13, <2>1, <2>2, <2>5
          <5>2. a[3 + i] = 3 + t.fraction[i] /\ b[3 + i] = 3 + u.fraction[i]
            BY <2>3, <3>5, <5>1
          <5> QED
            BY <1>11, <5>2
        <4>3. j \in {1, 2, 3} \/ (j - 3 \in 1..(d - 1) /\ j = 3 + (j - 3))
          BY <2>1
        <4>4. CASE j \in {1, 2, 3}
          BY <2>3, <2>4, <4>1, <4>4
        <4>5. CASE j - 3 \in 1..(d - 1) /\ j = 3 + (j - 3)
          BY <4>2, <4>5
        <4> QED
          BY <4>3, <4>4, <4>5
      <3> QED
        BY <3>1, <3>2, <3>3
    <2>6. CASE k = 0
      <3>4. a[3] = 1
        BY <1>6, <2>6
      <3>1. 3 \in DOMAIN a \cap DOMAIN b /\ a[3] = 1
        BY <1>12, <1>14, <3>4
      <3>2. \A j \in 1..(3 - 1) : j = 1 \/ j = 2
        OBVIOUS
      <3>3. a[3] < b[3] /\ \A j \in 1..(3 - 1) : a[j] = b[j]
        BY <2>3, <2>4, <3>1, <3>2
      <3> QED
        BY <3>1, <3>3
    <2>7. CASE 0 < k /\ k < d
      <3>4. 4 + k \in Nat /\ 4 + k > 0 /\ 4 + k <= Len(a) /\ 4 + k <= Len(b)
        BY <1>13, <1>14, <2>1, <2>2, <2>7, <2>8
      <3>1. 4 + k \in DOMAIN a \cap DOMAIN b
        BY <1>12, <3>4
      <3>2. a[4 + k] < b[4 + k]
        <4>1. a[4 + k] = 1
          BY <1>6, <2>7
        <4>2. k + 1 \in 1..n /\ 3 + (k + 1) = 4 + k /\ k + 1 \in 1..Width
          BY <1>13, <2>1, <2>2, <2>7
        <4>3. b[4 + k] = 3 + u.fraction[k + 1] /\ u.fraction[k + 1] \in Nat
          BY <1>5, <2>3, <4>2
        <4> QED
          BY <4>1, <4>3
      <3>3. ASSUME NEW j \in 1..(4 + k - 1) PROVE a[j] = b[j]
        <4>1. a[3] = 2
          BY <1>6, <1>8, <2>7
        <4>2. ASSUME NEW i \in 1..k PROVE a[3 + i] = b[3 + i]
          <5>1. i \in 1..n /\ i \in 1..(d - 1)
            BY <1>13, <2>1, <2>2, <2>7
          <5>2. a[3 + i] = 3 + t.fraction[i] /\ b[3 + i] = 3 + u.fraction[i]
            BY <1>6, <2>3, <2>7, <5>1
          <5> QED
            BY <1>11, <5>1, <5>2
        <4>3. j \in {1, 2, 3} \/ (j - 3 \in 1..k /\ j = 3 + (j - 3))
          BY <1>13
        <4>4. CASE j \in {1, 2, 3}
          BY <2>3, <2>4, <4>1, <4>4
        <4>5. CASE j - 3 \in 1..k /\ j = 3 + (j - 3)
          BY <4>2, <4>5
        <4> QED
          BY <4>3, <4>4, <4>5
      <3> QED
        <4> USE <3>1
        <4> WITNESS 4 + k \in DOMAIN a \cap DOMAIN b
        <4> QED
          BY <1>13, <3>2, <3>3
    <2> QED
      BY <1>8, <2>1, <2>5, <2>6, <2>7
  <1> QED
    BY <1>9, <1>10, <1>11 DEF Time!Earlier

(* Functions are equal where their values are.                             *)
LEMMA SameFunction ==
  ASSUME NEW S, NEW T, NEW f \in [S -> T], NEW g \in [S -> T], \A x \in S : f[x] = g[x]
  PROVE  f = g
  OBVIOUS

(* Of two moments one is the earlier, unless they are the same.            *)
LEMMA MomentsOrdered ==
  ASSUME NEW t \in Moment, NEW u \in Moment
  PROVE  t = u \/ Time!Earlier(t, u) \/ Time!Earlier(u, t)
  <1>1. /\ t.day \in Nat /\ t.second \in Nat /\ u.day \in Nat /\ u.second \in Nat
        /\ t.fraction \in [1..Width -> 0..9] /\ u.fraction \in [1..Width -> 0..9]
        /\ t = [day |-> t.day, second |-> t.second, fraction |-> t.fraction]
        /\ u = [day |-> u.day, second |-> u.second, fraction |-> u.fraction]
    BY MomentFacts
  <1> DEFINE Unlike == {i \in 1..Width : t.fraction[i] # u.fraction[i]}
  <1>2. CASE t.day # u.day \/ t.second # u.second
    BY <1>1, <1>2 DEF Time!Earlier
  <1>3. CASE t.day = u.day /\ t.second = u.second /\ Unlike = {}
    <2>1. t.fraction = u.fraction
      <3>1. \A i \in 1..Width : t.fraction[i] = u.fraction[i]
        BY <1>3
      <3>2. t.fraction \in [1..Width -> 0..9] /\ u.fraction \in [1..Width -> 0..9]
        BY <1>1
      <3>3. PICK places : places = 1..Width
        OBVIOUS
      <3>4. PICK digits : digits = 0..9
        OBVIOUS
      <3>5. PICK f : f = t.fraction
        OBVIOUS
      <3>6. PICK g : g = u.fraction
        OBVIOUS
      <3>7. f \in [places -> digits] /\ g \in [places -> digits] /\ \A i \in places : f[i] = g[i]
        BY <3>1, <3>2, <3>3, <3>4, <3>5, <3>6
      <3>8. f = g
        BY <3>7, SameFunction
      <3> QED
        BY <3>5, <3>6, <3>8
    <2> QED
      BY <1>1, <1>3, <2>1
  <1>4. CASE t.day = u.day /\ t.second = u.second /\ Unlike # {}
    <2>1. Unlike \in SUBSET Nat
      OBVIOUS
    <2>2. PICK i \in Unlike : \A k \in Unlike : i <= k
      <3> HIDE DEF Unlike
      <3> QED
        BY <1>4, <2>1, Smallest
    <2>3. i \in 1..Width /\ t.fraction[i] # u.fraction[i]
      BY <2>2
    <2>4. ASSUME NEW j \in 1..(i - 1) PROVE t.fraction[j] = u.fraction[j]
      <3>1. j \in 1..Width /\ ~(i <= j)
        BY <2>3, TimeAssumption
      <3> QED
        BY <2>2, <3>1
    <2>5. t.fraction[i] < u.fraction[i] \/ u.fraction[i] < t.fraction[i]
      <3>1. t.fraction[i] \in 0..9 /\ u.fraction[i] \in 0..9
        BY <1>1, <2>3
      <3> QED
        BY <2>3, <3>1
    <2> QED
      BY <1>4, <2>3, <2>4, <2>5 DEF Time!Earlier
  <1> QED
    BY <1>2, <1>3, <1>4

(* The order of the texts is that of the moments.                          *)
LEMMA OrdersAgree ==
  ASSUME NEW t \in Moment, NEW u \in Moment
  PROVE  /\ Time!TextLess(Time!Text(t), Time!Text(u)) <=> Time!Earlier(t, u)
         /\ Time!TextAtMost(Time!Text(t), Time!Text(u)) <=> ~Time!Earlier(u, t)
  <1>1. Time!Text(t) \in Seq(Nat) /\ Time!Text(u) \in Seq(Nat)
    BY TextFacts
  <1>2. Time!Earlier(t, u) => Time!TextLess(Time!Text(t), Time!Text(u))
    BY EarlierIsLess
  <1>3. Time!Earlier(u, t) => Time!TextLess(Time!Text(u), Time!Text(t))
    BY EarlierIsLess
  <1>4. ~(Time!TextLess(Time!Text(t), Time!Text(u)) /\ Time!TextLess(Time!Text(u), Time!Text(t)))
    BY <1>1, TextOrder
  <1>5. ~Time!TextLess(Time!Text(t), Time!Text(t))
    BY <1>1, TextOrder
  <1>6. t = u \/ Time!Earlier(t, u) \/ Time!Earlier(u, t)
    BY MomentsOrdered
  <1>7. Time!Text(t) = Time!Text(u) =>
          ~Time!TextLess(Time!Text(u), Time!Text(t)) /\ ~Time!TextLess(Time!Text(t), Time!Text(u))
    BY <1>5
  <1> QED
    BY <1>2, <1>3, <1>4, <1>5, <1>6, <1>7 DEF Time!TextAtMost

(* A day begins and ends with its first and its last moment.               *)
LEMMA DayBounds ==
  ASSUME NEW t \in Moment, NEW day \in Nat
  PROVE  /\ Time!StartOfDay(day) \in Moment /\ Time!EndOfDay(day) \in Moment
         /\ Time!Earlier(t, Time!StartOfDay(day)) <=> t.day < day
         /\ Time!Earlier(Time!EndOfDay(day), t) <=> day < t.day
  <1>1. /\ t.day \in Nat /\ t.second \in 0..MaxSecond /\ MaxSecond \in Nat
        /\ \A i \in 1..Width : t.fraction[i] \in 0..9
    BY TimeAssumption DEF Moment
  <1>2. PICK first : first = Time!StartOfDay(day)
    OBVIOUS
  <1>3. PICK end : end = Time!EndOfDay(day)
    OBVIOUS
  <1>4. /\ first \in Moment /\ first.day = day /\ first.second = 0
        /\ \A i \in 1..Width : first.fraction[i] = 0
    BY <1>1, <1>2 DEF Time!StartOfDay, Moment
  <1>5. /\ end \in Moment /\ end.day = day /\ end.second = MaxSecond
        /\ \A i \in 1..Width : end.fraction[i] = 9
    BY <1>1, <1>3 DEF Time!EndOfDay, Moment
  <1>6. Time!Earlier(t, first) <=> t.day < day
    BY <1>1, <1>4 DEF Time!Earlier
  <1>7. Time!Earlier(end, t) <=> day < t.day
    BY <1>1, <1>5 DEF Time!Earlier
  <1> QED
    BY <1>2, <1>3, <1>4, <1>5, <1>6, <1>7

(* The texts that SQLite stores and compares are in the order of the       *)
(* instants, for any number of digits, and the WHERE of Stats selects the  *)
(* clicks of its days.                                                     *)
THEOREM StoredTimesCompare == StatsSpec => []TextsOrderInstants
  <1>1. Time!Instants \subseteq Moment /\ \A t \in Time!Instants : t.day \in Nat
    <2>1. \A ds \in [1..Width -> Digits] : ds \in [1..Width -> 0..9]
      BY TimeAssumption
    <2>2. \A d \in 0..MaxDay : d \in Nat
      BY DateAssumption
    <2>3. \A t \in Time!Instants : t \in Moment /\ t.day \in Nat
      BY <2>1, <2>2 DEF Time!Instants, Moment
    <2> QED
      BY <2>3
  <1>2. ASSUME NEW t \in Time!Instants, NEW u \in Time!Instants
        PROVE  Time!TextLess(Time!Text(t), Time!Text(u)) <=> Time!Earlier(t, u)
    BY <1>1, OrdersAgree
  <1>3. ASSUME NEW t \in Time!Instants, NEW from \in 0..MaxDay, NEW to \in 0..MaxDay
        PROVE  Time!Selects(from, to, t) <=> from <= t.day /\ t.day <= to
    <2>1. t \in Moment /\ from \in Nat /\ to \in Nat /\ t.day \in Nat
      BY <1>1, DateAssumption
    <2>2. Time!TextAtMost(Time!Text(Time!StartOfDay(from)), Time!Text(t)) <=> ~(t.day < from)
      BY <2>1, DayBounds, OrdersAgree
    <2>3. Time!TextAtMost(Time!Text(t), Time!Text(Time!EndOfDay(to))) <=> ~(to < t.day)
      BY <2>1, DayBounds, OrdersAgree
    <2> QED
      BY <2>1, <2>2, <2>3 DEF Time!Selects
  <1>4. Time!TextsOrderInstants
    BY <1>2, <1>3 DEF Time!TextsOrderInstants
  <1>5. TextsOrderInstants
    BY <1>4 DEF TextsOrderInstants
  <1> QED
    BY <1>5, PTL
=============================================================================
