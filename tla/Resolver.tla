------------------------------ MODULE Resolver ------------------------------
(***************************************************************************)
(* The resolver process: redirects and Resolve calls, the clicks they      *)
(* publish after the answer (services/resolver/internal/service), the two  *)
(* servers and how main stops them (services/resolver/cmd/server/main.go). *)
(* Time is counted in ticks of which a publish may take PublishTimeout and *)
(* a drain ShutdownDur.                                                    *)
(***************************************************************************)
EXTENDS ResolverCache, Naturals, FiniteSets

CONSTANTS
  Http, Grpc,          (* requests, by the server they come to             *)
  PublishTimeout,      (* 5 s                                              *)
  ShutdownDur          (* 10 s                                             *)

ASSUME ResolverAssumption ==
  /\ Http \cap Grpc = {}
  /\ PublishTimeout \in Nat \ {0} /\ ShutdownDur \in Nat

Requests == Http \cup Grpc

VARIABLES
  config,      (* which of "kafka" and "http" the environment turns on     *)
  pc,          (* where each request's handler stands                      *)
  code,        (* what it asks for; NoCode: an empty code or, over HTTP,   *)
               (* a method or a path that is not a redirect's              *)
  answer,      (* what Resolve returned                                    *)
  click,       (* the publish goroutine of each request                    *)
  age,         (* ticks since it started                                   *)
  open,        (* the servers that accept requests                         *)
  signalled,   (* SIGTERM has come                                         *)
  main,        (* where main stands                                        *)
  stopper,     (* where the goroutine that stops the servers stands        *)
  drained,     (* ticks since main began to drain, up to ShutdownDur       *)
  httpLate,    (* the HTTP server's Shutdown ran out of time               *)
  before       (* history: clicks in flight when the drain began           *)

handlers == <<pc, code, answer>>
clicks == <<click, age>>
process == <<config, open, signalled, main, stopper, drained, httpLate, before>>
vars == <<cache, handlers, clicks, process>>

(* The table is as earlier runs have left it.                              *)
Init ==
  /\ cache \in [Codes -> Urls \cup {NoUrl}]
  /\ config \in SUBSET {"kafka", "http"}
  /\ pc = [r \in Requests |-> "idle"]
  /\ code = [r \in Requests |-> NoCode]
  /\ answer = [r \in Requests |-> "none"]
  /\ click = [r \in Requests |-> "none"]
  /\ age = [r \in Requests |-> 0]
  /\ open = {"grpc"} \cup (config \cap {"http"})
  /\ signalled = FALSE
  /\ main = "serving"
  /\ stopper = "none"
  /\ drained = 0
  /\ httpLate = FALSE
  /\ before = {}

Alive == main \in {"serving", "draining"}

Busy(rs) == {r \in rs : pc[r] \in {"lookup", "found", "writing"}}

InFlight == {r \in Requests : click[r] = "publishing"}

----------------------------------------------------------------------------
(* The consumer goroutine.                                                 *)

Hydrate(c, u) ==
  /\ Alive /\ "kafka" \in config
  /\ Lookup(c) = NoUrl
  /\ HandleCreated([key |-> c, code |-> c, url |-> u])
  /\ UNCHANGED <<handlers, clicks, process>>

(* Run returns an error: main returns it at once, as it does when a server *)
(* cannot listen.                                                          *)
Fails ==
  /\ main = "serving"
  /\ main' = "failed"
  /\ UNCHANGED <<cache, handlers, clicks, config, open, signalled, stopper, drained,
                 httpLate, before>>

----------------------------------------------------------------------------
(* A request.                                                              *)

Goto(r, from, to) == pc[r] = from /\ pc' = [pc EXCEPT ![r] = to]

Return(r, what) == answer' = [answer EXCEPT ![r] = what]

Accept(r, c) ==
  /\ Alive
  /\ \/ r \in Http /\ "http" \in open
     \/ r \in Grpc /\ "grpc" \in open
  /\ Goto(r, "idle", "lookup")
  /\ code' = [code EXCEPT ![r] = c]
  /\ UNCHANGED <<cache, answer, clicks, process>>

Reject(r) ==
  /\ Alive
  /\ code[r] = NoCode
  /\ Goto(r, "lookup", "writing")
  /\ Return(r, IF r \in Http THEN "NotFound" ELSE "InvalidArgument")
  /\ UNCHANGED <<cache, code, clicks, process>>

LookupRow(r) ==
  /\ Alive
  /\ code[r] # NoCode
  /\ \/ /\ Lookup(code[r]) # NoUrl
        /\ Goto(r, "lookup", "found")
        /\ UNCHANGED answer
     \/ /\ Lookup(code[r]) = NoUrl
        /\ Goto(r, "lookup", "writing")
        /\ Return(r, "NotFound")
  /\ UNCHANGED <<cache, code, clicks, process>>

LookupFails(r) ==
  /\ Alive
  /\ code[r] # NoCode
  /\ Goto(r, "lookup", "writing")
  /\ Return(r, "Internal")
  /\ UNCHANGED <<cache, code, clicks, process>>

(* publishClick: the wait group is joined before the answer is written; no *)
(* publisher, no click.                                                    *)
StartClick(r) ==
  /\ Alive
  /\ Goto(r, "found", "writing")
  /\ Return(r, "url")
  /\ IF "kafka" \in config
     THEN click' = [click EXCEPT ![r] = "publishing"]
     ELSE UNCHANGED click
  /\ UNCHANGED <<cache, code, age, process>>

(* The answer is written and the handler returns; the client may be slow,  *)
(* and the HTTP server has no write timeout.                               *)
Written(r) ==
  /\ Alive
  /\ Goto(r, "writing", "done")
  /\ UNCHANGED <<cache, code, answer, clicks, process>>

(* Publish returns, with the click written or not.                         *)
Settle(r) ==
  /\ Alive
  /\ click[r] = "publishing"
  /\ \E result \in {"published", "lost"} : click' = [click EXCEPT ![r] = result]
  /\ UNCHANGED <<cache, handlers, age, process>>

----------------------------------------------------------------------------
(* main.                                                                   *)

Signal ==
  /\ Alive /\ ~signalled
  /\ signalled' = TRUE
  /\ UNCHANGED <<cache, handlers, clicks, config, open, main, stopper, drained, httpLate,
                 before>>

(* The context has ended, by itself or as the nil that Run then returns; a *)
(* consumer or a server that is off sends nothing.                         *)
CleanExit == signalled

(* The HTTP server stops accepting at once.                                *)
BeginDrain ==
  /\ main = "serving"
  /\ CleanExit
  /\ main' = "draining"
  /\ stopper' = "http"
  /\ open' = open \ {"http"}
  /\ before' = InFlight
  /\ UNCHANGED <<cache, handlers, clicks, config, signalled, drained, httpLate>>

(* Shutdown returns when the handlers have, or after shutdownDur; then     *)
(* GracefulStop closes the gRPC listener.                                  *)
HttpStopped ==
  /\ main = "draining" /\ stopper = "http"
  /\ Busy(Http) = {} \/ drained = ShutdownDur
  /\ httpLate' = (Busy(Http) # {})
  /\ stopper' = "grpc"
  /\ open' = open \ {"grpc"}
  /\ UNCHANGED <<cache, handlers, clicks, config, signalled, main, drained, before>>

(* Mutant: GracefulStop is not waited for.                                 *)
GrpcStoppedAtOnce ==
  /\ main = "draining" /\ stopper = "grpc"
  /\ stopper' = "wait"
  /\ UNCHANGED <<cache, handlers, clicks, config, open, signalled, main, drained,
                 httpLate, before>>

GrpcStopped ==
  /\ main = "draining" /\ stopper = "grpc"
  /\ Busy(Grpc) = {}
  /\ stopper' = "wait"
  /\ UNCHANGED <<cache, handlers, clicks, config, open, signalled, main, drained,
                 httpLate, before>>

(* Mutant: nobody waits for the publishes.                                 *)
NoWait == TRUE

Settled == InFlight = {}

WaitReturns ==
  /\ main = "draining" /\ stopper = "wait"
  /\ Settled
  /\ stopper' = "closed"
  /\ UNCHANGED <<cache, handlers, clicks, config, open, signalled, main, drained,
                 httpLate, before>>

Stopped ==
  /\ main = "draining" /\ stopper = "closed"
  /\ main' = "stopped"
  /\ UNCHANGED <<cache, handlers, clicks, config, open, signalled, stopper, drained,
                 httpLate, before>>

(* Mutants: main gives up at once; it never does.                          *)
GivesUpAtOnce == TRUE

NeverGivesUp == FALSE

OutOfTime == drained = ShutdownDur

(* The servers are stopped with handlers at work, and main returns.        *)
TimedOut ==
  /\ main = "draining"
  /\ OutOfTime
  /\ main' = "timedOut"
  /\ UNCHANGED <<cache, handlers, clicks, config, open, signalled, stopper, drained,
                 httpLate, before>>

(* Time: a publish ends by its timeout, and main does not stay when its    *)
(* own has passed.                                                         *)
Tick ==
  /\ Alive
  /\ \A r \in InFlight : age[r] < PublishTimeout
  /\ main = "serving" => InFlight # {}
  /\ main = "draining" => drained < ShutdownDur
  /\ age' = [r \in Requests |-> IF r \in InFlight THEN age[r] + 1 ELSE age[r]]
  /\ drained' = IF main = "draining" THEN drained + 1 ELSE 0
  /\ UNCHANGED <<cache, handlers, click, config, open, signalled, main, stopper,
                 httpLate, before>>

----------------------------------------------------------------------------
Handler(r) == Reject(r) \/ LookupRow(r) \/ LookupFails(r) \/ StartClick(r) \/ Written(r)

Main == BeginDrain \/ HttpStopped \/ GrpcStopped \/ WaitReturns \/ Stopped \/ TimedOut

Next ==
  \/ \E c \in Codes, u \in Urls : Hydrate(c, u)
  \/ \E r \in Requests :
       \/ \E c \in Codes \cup {NoCode} : Accept(r, c)
       \/ Handler(r) \/ Settle(r)
  \/ Signal \/ Fails \/ Main \/ Tick

Spec == Init /\ [][Next]_vars

----------------------------------------------------------------------------
(* The variables have their types; there is a publish only for a code that *)
(* was found, and a redirect without one only when Kafka is off.           *)
TypeOK ==
  /\ cache \in [Codes -> Urls \cup {NoUrl}]
  /\ config \subseteq {"kafka", "http"} /\ open \subseteq {"grpc", "http"}
  /\ pc \in [Requests -> {"idle", "lookup", "found", "writing", "done"}]
  /\ code \in [Requests -> Codes \cup {NoCode}]
  /\ answer \in [Requests -> {"none", "url", "NotFound", "InvalidArgument", "Internal"}]
  /\ click \in [Requests -> {"none", "publishing", "published", "lost"}]
  /\ age \in [Requests -> 0..PublishTimeout]
  /\ signalled \in BOOLEAN /\ httpLate \in BOOLEAN
  /\ main \in {"serving", "draining", "failed", "stopped", "timedOut"}
  /\ stopper \in {"none", "http", "grpc", "wait", "closed"}
  /\ drained \in 0..ShutdownDur
  /\ before \subseteq Requests
  /\ \A r \in Requests : (click[r] # "none") <=> (answer[r] = "url" /\ "kafka" \in config)

(* main returns without an error only after a signal, a consumer or server *)
(* that is off not looking like a clean exit (main.go 134-135); and when it*)
(* does because everything has stopped, no handler is at work and no click *)
(* is unsettled, so the publisher and the database are closed under nobody:*)
(* unless the HTTP server's Shutdown had run out of time.                  *)
CleanStop ==
  /\ TypeOK
  /\ main \in {"stopped", "timedOut"} => signalled
  /\ main = "stopped" /\ ~httpLate => Busy(Requests) = {} /\ InFlight = {}

(* The wait group is joined by a new publish while it is waited for only   *)
(* after the HTTP server's Shutdown ran out of time.                       *)
NoJoinWhileWaiting ==
  [][\A r \in Requests :
       click[r] = "none" /\ click'[r] = "publishing" /\ stopper \in {"wait", "closed"}
         => httpLate]_vars

(* A click of an answer given before the drain began is settled when main  *)
(* returns, also when main ran out of time: a publish takes less than a    *)
(* drain.                                                                  *)
EarlierClicksSettled ==
  main \in {"stopped", "timedOut"} => \A r \in before : click[r] # "publishing"

(* A signal ends the process, however slow the clients and Kafka are.      *)
ShutdownEnds == signalled ~> ~Alive
============================================================================
