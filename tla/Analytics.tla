------------------------------ MODULE Analytics -----------------------------
(***************************************************************************)
(* Analytics: the table of clicks and its statistics                       *)
(* (services/analytics/internal/repo/sqlite.go, internal/service), the     *)
(* handler that inserts clicks (internal/consumer) and the process around  *)
(* them (cmd/server/main.go), behind a topic that delivers as Delivery     *)
(* says.  Two instants stand for each day, its first and its last;         *)
(* ClickTime is about how instants are stored and compared.                *)
(***************************************************************************)
EXTENDS Naturals, SequencesExt

CONSTANTS
  Codes,
  MaxDay,      (* days 1..MaxDay                                           *)
  NoDate,      (* an empty date of a request: no bound                     *)
  BadDate,     (* a text that is not a date                                *)
  Calls,       (* calls of Stats                                           *)
  MaxLog,      (* bound: clicks published                                  *)
  MaxFaults    (* bound: stops of the process and redeliveries             *)

Days == 1..MaxDay

DayLength == 2

Instants == DayLength .. (DayLength * (MaxDay + 1) - 1)

DayOf(t) == t \div DayLength

StartOf(day) == day * DayLength

Click == [code : Codes, at : Instants]

VARIABLES
  clicks,      (* the table, in order of id                                *)
  log, committed, applied,     (* the topic and the group, see Delivery    *)
  process,     (* "serving", "draining" or "down"                          *)
  faults,
  pc,          (* where each call of Stats stands                          *)
  query,       (* its code and bounds                                      *)
  total, last, daily,          (* what its two queries have given          *)
  seen,        (* history: the rows it could count when it began           *)
  result       (* "ok" or a status code                                    *)

topic == <<log, committed, applied>>
answer == <<total, last, daily, result>>
calls == <<pc, query, answer, seen>>
vars == <<clicks, topic, process, faults, calls>>

Topic == INSTANCE Delivery WITH Messages <- Click, Poison <- {}, Refused <- {}

NoDays == [d \in Days |-> 0]

Init ==
  /\ clicks = <<>>
  /\ log = <<>> /\ committed = 0 /\ applied = [i \in 1..MaxLog |-> 0]
  /\ process = "down"
  /\ faults = 0
  /\ pc = [s \in Calls |-> "idle"]
  /\ query = [s \in Calls |-> [code |-> "none", from |-> NoDate, to |-> NoDate]]
  /\ total = [s \in Calls |-> 0]
  /\ last = [s \in Calls |-> 0]
  /\ daily = [s \in Calls |-> NoDays]
  /\ seen = [s \in Calls |-> 0]
  /\ result = [s \in Calls |-> "none"]

Fault == faults < MaxFaults /\ faults' = faults + 1

----------------------------------------------------------------------------
(* Clicks.                                                                 *)

(* The resolver publishes a click.                                         *)
Publish(m) ==
  /\ Len(log) < MaxLog
  /\ Topic!Produce(m)
  /\ UNCHANGED <<clicks, process, faults, calls>>

(* Mutant: one row per code and instant.                                   *)
InsertDistinct(m) ==
  clicks' = IF m \in ToSet(clicks) THEN clicks ELSE Append(clicks, m)

InsertClick(m) == clicks' = Append(clicks, m)

(* The handler is given click i.  Nothing in the row tells the event, so   *)
(* one that is delivered again is inserted again.                          *)
Handle(i) ==
  /\ process # "down"
  /\ Topic!Apply(i)
  /\ IF applied[i] > 0 THEN Fault ELSE i = committed + 1 /\ UNCHANGED faults
  /\ InsertClick(log[i])
  /\ UNCHANGED <<process, calls>>

CommitOffset ==
  /\ process # "down"
  /\ Topic!Commit(committed + 1)
  /\ UNCHANGED <<clicks, process, faults, calls>>

----------------------------------------------------------------------------
(* Stats.                                                                  *)

(* Mutant: the upper bound is the beginning of the last day.               *)
BoundedByStart(q, t) ==
  /\ q.from # NoDate => t >= StartOf(q.from)
  /\ q.to # NoDate => t <= StartOf(q.to)

Bounded(q, t) ==
  /\ q.from # NoDate => t >= StartOf(q.from)
  /\ q.to # NoDate => t <= StartOf(q.to) + DayLength - 1

(* The WHERE of both queries.                                              *)
Matches(q, c) == c.code = q.code /\ Bounded(q, c.at)

RowsOf(q) == {i \in DOMAIN clicks : Matches(q, clicks[i])}

Count(q) == Cardinality(RowsOf(q))

(* parseDate of both, and that they are in order.                          *)
ValidRange(from, to) ==
  /\ {from, to} \subseteq Days \cup {NoDate}
  /\ NoDate \in {from, to} \/ from <= to

(* What a request means: the clicks of a code on the days of a range.      *)
ClicksOn(code, from, to) ==
  LET In(d) == (from = NoDate \/ from <= d) /\ (to = NoDate \/ d <= to)
  IN  Cardinality({i \in DOMAIN clicks : clicks[i].code = code /\ In(DayOf(clicks[i].at))})

Ask(s, code, from, to) ==
  /\ process = "serving"
  /\ pc[s] = "idle"
  /\ query' = [query EXCEPT ![s] = [code |-> code, from |-> from, to |-> to]]
  /\ IF ValidRange(from, to)
     THEN /\ pc' = [pc EXCEPT ![s] = "total"]
          /\ seen' = [seen EXCEPT ![s] = ClicksOn(code, from, to)]
          /\ UNCHANGED result
     ELSE /\ pc' = [pc EXCEPT ![s] = "done"]
          /\ result' = [result EXCEPT ![s] = "InvalidArgument"]
          /\ UNCHANGED seen
  /\ UNCHANGED <<clicks, topic, process, faults, total, last, daily>>

(* SELECT COUNT, MAX; a code without clicks has no second query.           *)
QueryTotal(s) ==
  /\ process # "down"
  /\ pc[s] = "total"
  /\ total' = [total EXCEPT ![s] = Count(query[s])]
  /\ IF Count(query[s]) = 0
     THEN /\ pc' = [pc EXCEPT ![s] = "done"]
          /\ result' = [result EXCEPT ![s] = "ok"]
          /\ UNCHANGED last
     ELSE /\ pc' = [pc EXCEPT ![s] = "daily"]
          /\ last' = [last EXCEPT ![s] = Max({clicks[i].at : i \in RowsOf(query[s])})]
          /\ UNCHANGED result
  /\ UNCHANGED <<clicks, topic, process, faults, query, daily, seen>>

PerDay(q) == [d \in Days |-> Cardinality({i \in RowsOf(q) : DayOf(clicks[i].at) = d})]

(* SELECT ... GROUP BY day.                                                *)
QueryDaily(s) ==
  /\ process # "down"
  /\ pc[s] = "daily"
  /\ daily' = [daily EXCEPT ![s] = PerDay(query[s])]
  /\ pc' = [pc EXCEPT ![s] = "done"]
  /\ result' = [result EXCEPT ![s] = "ok"]
  /\ UNCHANGED <<clicks, topic, process, faults, query, total, last, seen>>

QueryFails(s) ==
  /\ process # "down"
  /\ pc[s] \in {"total", "daily"}
  /\ pc' = [pc EXCEPT ![s] = "done"]
  /\ result' = [result EXCEPT ![s] = "Internal"]
  /\ UNCHANGED <<clicks, topic, process, faults, query, total, last, daily, seen>>

----------------------------------------------------------------------------
(* The process.                                                            *)

(* Mutant: ANALYTICS_KAFKA_START is "last".                                *)
StartAtEnd == Len(log)

(* Where the reader begins while its group has no offset.                  *)
StartOffset == 0

Start ==
  /\ process = "down"
  /\ process' = "serving"
  /\ committed' = IF committed = 0 THEN StartOffset ELSE committed
  /\ UNCHANGED <<clicks, log, applied, faults, calls>>

Signal ==
  /\ process = "serving"
  /\ Fault
  /\ process' = "draining"
  /\ UNCHANGED <<clicks, topic, calls>>

InStats(s) == pc[s] \in {"total", "daily"}

(* GracefulStop waits for the calls, or main has waited long enough and    *)
(* cuts them off.                                                          *)
Stop ==
  /\ process = "draining"
  /\ process' = "down"
  /\ pc' = [s \in Calls |-> IF InStats(s) THEN "done" ELSE pc[s]]
  /\ result' = [s \in Calls |-> IF InStats(s) THEN "Unavailable" ELSE result[s]]
  /\ UNCHANGED <<clicks, topic, faults, query, total, last, daily, seen>>

(* The consumer or the server fails, and main returns; or a kill.          *)
Crash ==
  /\ process # "down"
  /\ Fault
  /\ process' = "down"
  /\ pc' = [s \in Calls |-> IF InStats(s) THEN "done" ELSE pc[s]]
  /\ result' = [s \in Calls |-> IF InStats(s) THEN "Unavailable" ELSE result[s]]
  /\ UNCHANGED <<clicks, topic, query, total, last, daily, seen>>

----------------------------------------------------------------------------
HandleNext == committed < Len(log) /\ applied[committed + 1] = 0 /\ Handle(committed + 1)

HandleAgain == \E i \in DOMAIN log : applied[i] > 0 /\ Handle(i)

Dates == Days \cup {NoDate, BadDate}

Next ==
  \/ \E m \in Click : Publish(m)
  \/ HandleNext \/ HandleAgain \/ CommitOffset
  \/ \E s \in Calls :
       \/ \E c \in Codes, from, to \in Dates : Ask(s, c, from, to)
       \/ QueryTotal(s) \/ QueryDaily(s) \/ QueryFails(s)
  \/ Start \/ Signal \/ Stop \/ Crash

Spec == Init /\ [][Next]_vars

----------------------------------------------------------------------------
(* The variables have their types.                                         *)
TypeOK ==
  /\ clicks \in Seq(Click) /\ log \in Seq(Click)
  /\ committed \in 0..Len(log)
  /\ applied \in [1..MaxLog -> 0..(1 + MaxFaults)]
  /\ process \in {"serving", "draining", "down"}
  /\ faults \in 0..MaxFaults
  /\ pc \in [Calls -> {"idle", "total", "daily", "done"}]
  /\ total \in [Calls -> 0..(MaxLog + MaxFaults)]
  /\ last \in [Calls -> {0} \cup Instants]
  /\ daily \in [Calls -> [Days -> 0..(MaxLog + MaxFaults)]]
  /\ result \in [Calls -> {"none", "ok", "InvalidArgument", "Internal", "Unavailable"}]
  /\ \A s \in Calls : pc[s] \in {"total", "daily"} =>
       NoDate \in {query[s].from, query[s].to} \/ query[s].from <= query[s].to

(* The times the handler got click m: the nth time, as the ith message.    *)
Deliveries(m) ==
  {d \in (DOMAIN log) \X (1..(1 + MaxFaults)) : log[d[1]] = m /\ d[2] <= applied[d[1]]}

(* A row per delivery: every click taken from the topic is counted, once   *)
(* for each time the handler got it, under its own code and at its own     *)
(* time, also when two clicks agree in both; and what is behind the        *)
(* group's offset is in the table, although two systems keep offset and    *)
(* table and any step may be the last of its process.                      *)
CountsDeliveries ==
  /\ TypeOK
  /\ \A m \in Click :
       Cardinality({i \in DOMAIN clicks : clicks[i] = m}) = Cardinality(Deliveries(m))
  /\ \A i \in 1..committed : log[i] \in ToSet(clicks)

Answered(s) == pc[s] = "done" /\ result[s] = "ok"

(* Both ends of the range are inclusive days (analytics.proto 16-19): what *)
(* is reported lies within them, and the last click's day is one of the    *)
(* days reported.                                                          *)
DaysWithinRange(s) ==
  total[s] > 0 =>
    /\ daily[s][DayOf(last[s])] > 0
    /\ \A d \in Days : daily[s][d] > 0 =>
         /\ query[s].from # NoDate => query[s].from <= d
         /\ query[s].to # NoDate => d <= query[s].to

(* The clicks that the days of an answer show: the nth of each day.        *)
Shown(s) == {c \in Days \X (1..(MaxLog + MaxFaults)) : c[2] <= daily[s][c[1]]}

(* Stats reads in two queries, between which clicks arrive: so the days    *)
(* can hold more than the total, but never less, both lie between what     *)
(* there was at the beginning of the call and at its end, and both are of  *)
(* the range that was asked for.                                           *)
TotalWithinDays ==
  \A s \in Calls : Answered(s) =>
    LET now == ClicksOn(query[s].code, query[s].from, query[s].to)
    IN  /\ seen[s] <= total[s] /\ total[s] <= now
        /\ total[s] > 0 => Cardinality(Shown(s)) \in total[s]..now
        /\ DaysWithinRange(s)
============================================================================
