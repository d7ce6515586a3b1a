----------------------------- MODULE Simulator -----------------------------
(* The traffic simulator (loadgen/cmd/simulate): simulated users that share *)
(* one pool of links and one set of totals, the services they call, and the *)
(* main goroutine that reports and, once told to stop, waits for them.      *)
(* The crowd's size, the attack and the viral link are SimulatorCrowd's:    *)
(* here a user may idle, probe or click any settled link at any time.       *)
EXTENDS Naturals, FiniteSets, Sequences, SequencesExt

CONSTANTS
  Users,     \* the ids spawned by main
  Settle,    \* -settle: the age at which a link may be clicked
  Lag,       \* the longest a link takes to reach the resolver
  MaxClock,  \* bound on the clock
  MaxLinks,  \* bound on the links the service stores
  MaxActs    \* bound on the actions recorded

VARIABLES
  clock,   \* time.Now
  links,   \* the service's rows, oldest first: key (0: none) and time of commit
  pool,    \* pool.codes with pool.born, oldest first; a code is an index of links
  user,    \* each user goroutine: where it is, and its local variables
  totals,  \* stats.totals, by kind of sample
  window,  \* the number of samples in stats.window
  ended,   \* ctx is done
  main     \* the main goroutine

vars == <<clock, links, pool, user, totals, window, ended, main>>

NoCode == 0
NoKey == 0
(* A sample's action and outcome, as far as they are told apart: a shorten   *)
(* that succeeded, a click that missed, anything else.                       *)
Kinds == {"created", "missed", "other"}
Total == totals["created"] + totals["missed"] + totals["other"]

Keys == {links[i].key : i \in DOMAIN links} \cup {user[u].lastKey : u \in Users}

(* Mutant: born is not consulted, every link of the pool may be clicked. *)
AnyAge == Len(pool)

(* sort.Search over born: how many links are at least Settle old. *)
Settled == Cardinality({i \in DOMAIN pool : pool[i].born + Settle <= clock})

(* Where pick may land: rand.NewZipf(r, 1.2, 1, n-1) answers 0 .. n-1.      *)
Picks(n) == {n - k : k \in 0 .. n - 1}

Init ==
  /\ clock = 0 /\ links = <<>> /\ pool = <<>>
  /\ user = [u \in Users |-> [pc |-> "loop", kind |-> "other", n |-> 0, code |-> NoCode,
                              lastKey |-> NoKey]]
  /\ totals = [k \in Kinds |-> 0]
  /\ window = 0 /\ ended = FALSE /\ main = "reporting"

Tick ==
  /\ clock < MaxClock
  /\ clock' = clock + 1
  /\ UNCHANGED <<links, pool, user, totals, window, ended, main>>

At(u, pc) == user[u].pc = pc
Goes(u, r) ==
  user' = [user EXCEPT ![u] = [x \in DOMAIN @ |-> IF x \in DOMAIN r THEN r[x] ELSE @[x]]]
Reports(u, kind) == Goes(u, [pc |-> "report", kind |-> kind, n |-> 0, code |-> NoCode])

------------------------------------------------------------------------------
(* One turn of a user. It ends at "report" with its outcome. *)

(* The loop ends at its head, or in one of its sleeps, when ctx is done. *)
Leave(u) ==
  /\ At(u, "loop") /\ ended
  /\ Goes(u, [pc |-> "gone"])
  /\ UNCHANGED <<clock, links, pool, totals, window, ended, main>>

(* A new URL, with a new key or none, or the double-submit: the last URL     *)
(* under the last key once more. lastKey is set before the call.             *)
Creates(u) ==
  \/ \E key \in {NoKey, Cardinality(Keys \ {NoKey}) + 1} :
       Goes(u, [pc |-> "shorten", lastKey |-> key, n |-> 0])
  \/ user[u].lastKey # NoKey /\ Goes(u, [pc |-> "replay", n |-> 0])

(* pick under its first lock: how many links are settled. *)
Look(u) ==
  /\ At(u, "loop") /\ ~ended
  /\ IF Settled = 0 THEN Creates(u) ELSE Goes(u, [pc |-> "picking", n |-> Settled])
  /\ UNCHANGED <<clock, links, pool, totals, window, ended, main>>

(* pick under its second lock, and the roll that chooses what to do with the *)
(* link: create one after all, click it or ask about it.                     *)
Pick(u) ==
  /\ At(u, "picking")
  /\ \/ Creates(u)
     \/ \E i \in Picks(user[u].n) :
          Goes(u, [pc |-> "read", n |-> 0, code |-> pool[i].code])
  /\ UNCHANGED <<clock, links, pool, totals, window, ended, main>>

(* The services keep a key's first row and answer a replay with it. *)
RowOf(key) == {i \in DOMAIN links : key # NoKey /\ links[i].key = key}
Store(key) == Append(links, [key |-> key, at |-> clock])
Answers(key, code) ==
  IF RowOf(key) # {}
  THEN links' = links /\ code \in RowOf(key)
  ELSE Len(links) < MaxLinks /\ links' = Store(key) /\ code = Len(links) + 1

(* c.shorten fails: before the row is stored, or with the answer lost after. *)
Lost(u) ==
  /\ \/ links' = links
     \/ \E code \in 1 .. MaxLinks : Answers(user[u].lastKey, code)
  /\ Reports(u, "other")
  /\ UNCHANGED pool

ShortenReturns(u) ==
  /\ At(u, "shorten")
  /\ \/ Lost(u)
     \/ \E code \in 1 .. MaxLinks :
          /\ Answers(user[u].lastKey, code)
          /\ pool' = Append(pool, [code |-> code, born |-> clock])
          /\ Goes(u, [pc |-> "report", kind |-> "created"])
  /\ UNCHANGED <<clock, totals, window, ended, main>>

(* The code a replay is answered is compared with the last one, for a        *)
(* warning; it does not enter the pool, which has it already.                *)
ReplayReturns(u) ==
  /\ At(u, "replay")
  /\ Lost(u)
  /\ UNCHANGED <<clock, totals, window, ended, main>>

(* A click is answered 302 once the link has reached the resolver, which it  *)
(* may take Lag to do, and 404 before; any call may fail. The two rpcs ask   *)
(* services that answer for every code, and are no different from a click    *)
(* that found its link.                                                      *)
ReadKinds(code) ==
  {"other"} \cup IF clock < links[code].at + Lag THEN {"missed"} ELSE {}

ReadReturns(u) ==
  /\ At(u, "read")
  /\ \E kind \in ReadKinds(user[u].code) : Reports(u, kind)
  /\ UNCHANGED <<clock, links, pool, totals, window, ended, main>>

(* A probe instead of a turn. Whatever it answers is only counted and, once  *)
(* for each probe and status, printed.                                       *)
SendBad(u) ==
  /\ At(u, "loop") /\ ~ended
  /\ Reports(u, "other")
  /\ UNCHANGED <<clock, links, pool, totals, window, ended, main>>

(* record, unless ctx ended during the action. *)
Record(u) ==
  /\ At(u, "report")
  /\ IF ended
     THEN Goes(u, [pc |-> "gone"]) /\ UNCHANGED <<totals, window>>
     ELSE /\ Total < MaxActs
          /\ totals' = [totals EXCEPT ![user[u].kind] = @ + 1]
          /\ window' = window + 1
          /\ Goes(u, [pc |-> "loop", kind |-> "other"])
  /\ UNCHANGED <<clock, links, pool, ended, main>>

------------------------------------------------------------------------------
(* The main goroutine. *)

(* flush takes the window and leaves an empty one, under the lock of record. *)
Flush ==
  /\ main = "reporting"
  /\ window # 0
  /\ window' = 0
  /\ UNCHANGED <<clock, links, pool, user, totals, ended, main>>

(* The interrupt, or -duration has passed. *)
End ==
  /\ ~ended
  /\ ended' = TRUE
  /\ UNCHANGED <<clock, links, pool, user, totals, window, main>>

(* Mutant: the totals are printed as soon as ctx is done. *)
NoWait == TRUE

EveryoneGone == \A u \in Users : At(u, "gone")

(* The select sees ctx done; wg.Wait; then pool and totals are read without *)
(* their locks.                                                             *)
Stop ==
  /\ main = "reporting" /\ ended
  /\ main' = "waiting"
  /\ UNCHANGED <<clock, links, pool, user, totals, window, ended>>

PrintTotals ==
  /\ main = "waiting" /\ EveryoneGone
  /\ main' = "printed"
  /\ UNCHANGED <<clock, links, pool, user, totals, window, ended>>

UserStep(u) ==
  \/ Leave(u) \/ Look(u) \/ Pick(u)
  \/ ShortenReturns(u) \/ ReplayReturns(u) \/ ReadReturns(u) \/ SendBad(u) \/ Record(u)

Next == Tick \/ Flush \/ End \/ Stop \/ PrintTotals \/ \E u \in Users : UserStep(u)

Spec == Init /\ [][Next]_vars

------------------------------------------------------------------------------
(* Properties *)

(* The variables have their types; a user's link is stored, what it has seen *)
(* of the pool is there, and the window never holds more than the totals.    *)
TypeOK ==
  /\ clock \in 0 .. MaxClock
  /\ \A i \in DOMAIN links : links[i].at <= clock
  /\ \A i \in DOMAIN pool : pool[i].code \in DOMAIN links /\ pool[i].born <= clock
  /\ \A u \in Users : user[u].code \in {NoCode} \cup DOMAIN links /\ user[u].n <= Len(pool)
  /\ totals \in [Kinds -> Nat] /\ window \in 0 .. Total
  /\ main \in {"reporting", "waiting", "printed"}

(* As long as the resolver keeps up with -settle, no click misses: a picked  *)
(* link has reached it although pick gives its lock up half way and the pool *)
(* stamps a link after the service stored it.                                *)
NoClickMisses == TypeOK /\ \A u \in Users : user[u].kind # "missed"

(* The final summary reads the pool and the totals with no lock: nobody      *)
(* writes them any more.                                                     *)
SummaryIsFinal == [][main = "printed" => UNCHANGED <<pool, totals>>]_vars
==============================================================================
