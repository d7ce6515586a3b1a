--------------------------- MODULE RedirectProofs ---------------------------
(***************************************************************************)
(* How the two processes that answer GET /<code> stop, for any requests,   *)
(* codes and durations: nothing is closed under a handler or a click when  *)
(* they stop cleanly, and the resolver waits for what it has to.  And what *)
(* the gateway makes of every outcome of a request.                        *)
(***************************************************************************)
EXTENDS MCRedirect, TLAPS

(* Before the answer there is none, and no click; after it, a click when   *)
(* it is a redirect and Kafka is on.                                       *)
ClickInv ==
  \A r \in Requests :
    /\ pc[r] \in {"idle", "lookup", "found"} => answer[r] = "none" /\ click[r] = "none"
    /\ (click[r] # "none") <=> (answer[r] = "url" /\ "kafka" \in config)

(* What main has behind it when its goroutine has come so far: listeners   *)
(* closed, handlers gone, publishes settled, but for a late HTTP handler   *)
(* and its click.                                                          *)
StopInv ==
  /\ main \in {"draining", "stopped", "timedOut"} => signalled
  /\ main = "serving" => stopper = "none" /\ ~httpLate
  /\ main = "stopped" => stopper = "closed"
  /\ stopper # "none" => "http" \notin open
  /\ stopper \in {"grpc", "wait", "closed"} =>
       "grpc" \notin open /\ (~httpLate => Busy(Http) = {})
  /\ stopper \in {"wait", "closed"} => Busy(Grpc) = {}
  /\ stopper = "closed" /\ ~httpLate => InFlight = {}

(* A click that was in flight when the drain began is as old as the drain, *)
(* or settled.                                                             *)
DrainInv ==
  /\ main = "serving" => before = {} /\ drained = 0
  /\ main = "timedOut" => drained = ShutdownDur
  /\ \A r \in before : click[r] # "none"
  /\ main # "failed" => \A r \in before : click[r] = "publishing" => drained <= age[r]
  /\ stopper = "closed" => \A r \in before : click[r] # "publishing"

(* The inductive invariant of the resolver.                                *)
Inv == TypeOK /\ ClickInv /\ StopInv /\ DrainInv

(* The gateway stops when no request is in flight, and takes no more.      *)
GatewayInv == gatewayMain = "stopped" => gatewayPc \notin {"routed", "upstream"}
----------------------------------------------------------------------------
(* A resolver that serves, with no request yet, satisfies the invariant.   *)
LEMMA InitInv == Init => Inv
  <1> SUFFICES ASSUME Init PROVE Inv
    OBVIOUS
  <1>1. TypeOK
    <2>1. 0 \in 0..PublishTimeout /\ 0 \in 0..ShutdownDur
      BY ResolverAssumption
    <2>2. open \subseteq {"grpc", "http"}
      BY DEF Init
    <2> QED
      BY <2>1, <2>2 DEF Init, TypeOK
  <1>2. ClickInv /\ StopInv /\ DrainInv
    BY DEF Init, ClickInv, StopInv, DrainInv
  <1> QED
    BY <1>1, <1>2 DEF Inv

(* The handler's steps: all but the first only leave a place, and a        *)
(* listener that is closed accepts nobody.                                 *)
LEMMA BusyShrinks ==
  ASSUME Inv, NEW r \in Requests, NEW from, NEW to, Goto(r, from, to),
         \/ from \in {"lookup", "found", "writing"}
         \/ to \notin {"lookup", "found", "writing"},
         NEW S \in SUBSET Requests
  PROVE  Busy(S)' \subseteq Busy(S)
  BY DEF Goto, Busy, Inv, TypeOK

(* A request comes in, at a listener that is open.                         *)
LEMMA AcceptInv ==
  ASSUME Inv, NEW r \in Requests, NEW c \in Codes \cup {NoCode}, Accept(r, c)
  PROVE  Inv'
  <1> USE DEF Accept, Goto, clicks, process
  <1>1. TypeOK'
    BY DEF Inv, TypeOK
  <1>2. ClickInv'
    BY DEF Inv, TypeOK, ClickInv
  <1>3. StopInv'
    <2>1. ASSUME NEW S \in SUBSET Requests, r \notin S
          PROVE  Busy(S)' = Busy(S)
      BY <2>1 DEF Busy, Inv, TypeOK
    <2>2. "http" \notin open => Busy(Http)' = Busy(Http) \/ "grpc" \in open
      BY <2>1 DEF Requests
    <2>3. "grpc" \notin open => r \in Http /\ "http" \in open
      OBVIOUS
    <2>4. InFlight' = InFlight
      BY DEF InFlight
    <2> QED
      BY <2>2, <2>3, <2>4 DEF Inv, StopInv
  <1>4. DrainInv'
    BY DEF Inv, DrainInv
  <1> QED
    BY <1>1, <1>2, <1>3, <1>4 DEF Inv

(* A lookup ends, or the answer has been written.                          *)
LEMMA AnsweredInv ==
  ASSUME Inv, NEW r \in Requests,
         Reject(r) \/ LookupRow(r) \/ LookupFails(r) \/ Written(r)
  PROVE  Inv'
  <1> USE DEF Reject, LookupRow, LookupFails, Written, Return, clicks, process
  <1>1. PICK from \in {"lookup", "writing"}, to \in {"found", "writing", "done"} :
          /\ Goto(r, from, to)
          /\ \/ from = "lookup" /\ to = "found" /\ UNCHANGED answer
             \/ /\ from = "lookup" /\ to = "writing"
                /\ \E what \in {"NotFound", "InvalidArgument", "Internal"} :
                     answer' = [answer EXCEPT ![r] = what]
             \/ from = "writing" /\ to = "done" /\ UNCHANGED answer
    OBVIOUS
  <1>2. UNCHANGED <<cache, code, click, age, config, open, signalled, main, stopper, drained,
                    httpLate, before>>
    OBVIOUS
  <1>3. TypeOK'
    <2>1. pc' \in [Requests -> {"idle", "lookup", "found", "writing", "done"}]
      BY <1>1 DEF Goto, Inv, TypeOK
    <2>2. /\ answer' \in [Requests -> {"none", "url", "NotFound", "InvalidArgument", "Internal"}]
          /\ \A q \in Requests : answer'[q] = "url" <=> answer[q] = "url"
      <3>1. answer[r] # "url" \/ UNCHANGED answer
        BY <1>1 DEF Goto, Inv, ClickInv
      <3> QED
        BY <1>1, <3>1 DEF Inv, TypeOK
    <2> QED
      BY <1>2, <2>1, <2>2 DEF Inv, TypeOK
  <1>4. ClickInv'
    BY <1>1, <1>2 DEF Goto, Inv, TypeOK, ClickInv
  <1>5. StopInv'
    <2>1. Busy(Http)' \subseteq Busy(Http) /\ Busy(Grpc)' \subseteq Busy(Grpc)
      BY <1>1, BusyShrinks DEF Requests
    <2>2. InFlight' = InFlight
      BY <1>2 DEF InFlight
    <2> QED
      BY <1>2, <2>1, <2>2 DEF Inv, StopInv
  <1>6. DrainInv'
    BY <1>2 DEF Inv, DrainInv
  <1> QED
    BY <1>3, <1>4, <1>5, <1>6 DEF Inv

(* A click starts in a handler at work, and its request had none.          *)
LEMMA StartClickInv ==
  ASSUME Inv, NEW r \in Requests, StartClick(r)
  PROVE  Inv' /\ (stopper \in {"wait", "closed"} => httpLate)
  <1> USE DEF StartClick, Return, process
  <1>1. /\ Goto(r, "found", "writing") /\ answer' = [answer EXCEPT ![r] = "url"]
        /\ UNCHANGED <<cache, code, age, config, open, signalled, main, stopper, drained,
                       httpLate, before>>
        /\ click' = IF "kafka" \in config THEN [click EXCEPT ![r] = "publishing"] ELSE click
    OBVIOUS
  <1>2. pc[r] = "found" /\ click[r] = "none" /\ r \notin before
    BY <1>1 DEF Goto, Inv, ClickInv, DrainInv
  <1>3. TypeOK'
    BY <1>1 DEF Goto, Inv, TypeOK
  <1>4. ClickInv'
    BY <1>1, <1>2 DEF Goto, Inv, TypeOK, ClickInv
  <1>5. stopper \in {"wait", "closed"} => httpLate
    <2>1. r \in Busy(Http) \/ r \in Busy(Grpc)
      BY <1>2 DEF Busy, Requests
    <2> QED
      BY <2>1 DEF Inv, StopInv
  <1>6. StopInv'
    <2>1. Busy(Http)' \subseteq Busy(Http) /\ Busy(Grpc)' \subseteq Busy(Grpc)
      BY <1>1, BusyShrinks DEF Requests
    <2> QED
      BY <1>1, <1>5, <2>1 DEF Inv, StopInv
  <1>7. DrainInv'
    <2>1. \A q \in before : click'[q] = click[q]
      BY <1>1, <1>2 DEF Inv, TypeOK
    <2> QED
      BY <1>1, <2>1 DEF Inv, DrainInv
  <1> QED
    BY <1>3, <1>4, <1>5, <1>6, <1>7 DEF Inv

(* A publish returns.                                                      *)
LEMMA SettleInv ==
  ASSUME Inv, NEW r \in Requests, Settle(r)
  PROVE  Inv'
  <1>1. PICK result \in {"published", "lost"} : click' = [click EXCEPT ![r] = result]
    BY DEF Settle
  <1>2. /\ click[r] = "publishing"
        /\ UNCHANGED <<cache, pc, code, answer, age, config, open, signalled, main, stopper,
                       drained, httpLate, before>>
    BY DEF Settle, handlers, process
  <1>3. TypeOK'
    BY <1>1, <1>2 DEF Inv, TypeOK
  <1>4. ClickInv'
    BY <1>1, <1>2 DEF Inv, TypeOK, ClickInv
  <1>5. StopInv'
    <2>1. InFlight' \subseteq InFlight
      BY <1>1, <1>2 DEF InFlight, Inv, TypeOK
    <2> QED
      BY <1>2, <2>1 DEF Inv, StopInv, Busy
  <1>6. DrainInv'
    BY <1>1, <1>2 DEF Inv, TypeOK, DrainInv
  <1> QED
    BY <1>3, <1>4, <1>5, <1>6 DEF Inv
----------------------------------------------------------------------------
(* Steps that only the cache, the signal or a failure is about.            *)
LEMMA AsideInv ==
  ASSUME Inv, (\E c \in Codes, u \in Urls : Hydrate(c, u)) \/ Signal \/ Fails
  PROVE  Inv'
  <1> USE DEF Hydrate, Signal, Fails, handlers, clicks, process
  <1>1. UNCHANGED <<pc, code, answer, click, age, config, open, stopper, drained, httpLate,
                    before>>
    OBVIOUS
  <1>2. main' = main \/ main' = "failed"
    OBVIOUS
  <1>3. signalled' \in BOOLEAN /\ (signalled => signalled')
    <2>1. CASE signalled' = TRUE
      BY <2>1
    <2>2. CASE signalled' = signalled
      BY <2>2 DEF Inv, TypeOK
    <2> QED
      BY <2>1, <2>2
  <1>4. cache' \in [Codes -> Urls \cup {NoUrl}]
    <2>1. CASE \E c \in Codes, u \in Urls : Hydrate(c, u)
      <3>1. PICK c \in Codes, u \in Urls : Hydrate(c, u)
        BY <2>1
      <3>2. cache' = [cache EXCEPT ![c] = u]
        BY <3>1, CacheAssumption DEF HandleCreated, Upsert, CodeOf
      <3> QED
        BY <3>2 DEF Inv, TypeOK
    <2>2. CASE Signal \/ Fails
      BY <2>2 DEF Inv, TypeOK
    <2> QED
      BY <2>1, <2>2
  <1>5. TypeOK'
    BY <1>1, <1>2, <1>3, <1>4 DEF Inv, TypeOK
  <1>6. ClickInv'
    BY <1>1 DEF Inv, ClickInv
  <1>7. StopInv'
    BY <1>1, <1>2, <1>3 DEF Inv, StopInv, Busy, InFlight
  <1>8. DrainInv'
    BY <1>1, <1>2 DEF Inv, DrainInv
  <1> QED
    BY <1>5, <1>6, <1>7, <1>8 DEF Inv

(* main, step by step.                                                     *)
LEMMA MainInv ==
  ASSUME Inv, Main
  PROVE  Inv'
  <1> USE DEF BeginDrain, HttpStopped, GrpcStopped, WaitReturns, Stopped, TimedOut,
              handlers, clicks
  <1>1. UNCHANGED <<cache, pc, code, answer, click, age, config, signalled, drained>>
    BY DEF Main
  <1>2. TypeOK'
    <2>1. before' \subseteq Requests /\ open' \subseteq {"grpc", "http"} /\ httpLate' \in BOOLEAN
      BY DEF Main, InFlight, Inv, TypeOK
    <2>2. /\ main' \in {"serving", "draining", "failed", "stopped", "timedOut"}
          /\ stopper' \in {"none", "http", "grpc", "wait", "closed"}
      BY DEF Main, Inv, TypeOK
    <2> QED
      BY <1>1, <2>1, <2>2 DEF Inv, TypeOK
  <1>3. ClickInv'
    BY <1>1 DEF Inv, ClickInv
  <1>4. Busy(Http)' = Busy(Http) /\ Busy(Grpc)' = Busy(Grpc) /\ InFlight' = InFlight
    BY <1>1 DEF Busy, InFlight
  <1>5. StopInv'
    <2>1. CASE BeginDrain
      BY <1>1, <1>4, <2>1 DEF CleanExit, Inv, StopInv
    <2>2. CASE HttpStopped
      <3>1. /\ main = "draining" /\ main' = "draining" /\ signalled
            /\ stopper = "http" /\ stopper' = "grpc"
            /\ "http" \notin open' /\ "grpc" \notin open'
            /\ ~httpLate' => Busy(Http) = {}
        BY <2>2 DEF Inv, StopInv
      <3> QED
        BY <1>1, <1>4, <3>1 DEF StopInv
    <2>3. CASE GrpcStopped
      BY <1>1, <1>4, <2>3 DEF Inv, StopInv
    <2>4. CASE WaitReturns
      BY <1>1, <1>4, <2>4 DEF Settled, Inv, StopInv
    <2>5. CASE Stopped \/ TimedOut
      BY <1>1, <1>4, <2>5 DEF Inv, StopInv
    <2> QED
      BY <2>1, <2>2, <2>3, <2>4, <2>5 DEF Main
  <1>6. DrainInv'
    <2>1. CASE BeginDrain
      <3>1. before' = InFlight /\ drained = 0 /\ main' = "draining" /\ stopper' = "http"
        BY <2>1 DEF Inv, DrainInv
      <3>2. \A r \in InFlight : r \in Requests /\ click[r] = "publishing" /\ 0 <= age[r]
        BY ResolverAssumption DEF InFlight, Inv, TypeOK
      <3> QED
        BY <1>1, <3>1, <3>2 DEF DrainInv
    <2>2. CASE WaitReturns
      BY <1>1, <2>2 DEF Settled, InFlight, Inv, TypeOK, DrainInv
    <2>3. CASE HttpStopped \/ GrpcStopped \/ Stopped \/ TimedOut
      BY <1>1, <2>3 DEF OutOfTime, Inv, DrainInv
    <2> QED
      BY <2>1, <2>2, <2>3 DEF Main
  <1> QED
    BY <1>2, <1>3, <1>5, <1>6 DEF Inv

(* Time makes the publishes and the drain older by the same.               *)
LEMMA TickInv ==
  ASSUME Inv, Tick
  PROVE  Inv'
  <1> USE DEF Tick, handlers
  <1>1. /\ UNCHANGED <<cache, pc, code, answer, click, config, open, signalled, main, stopper,
                       httpLate, before>>
        /\ \A r \in Requests :
             /\ age[r] \in Nat /\ age[r] <= PublishTimeout
             /\ age'[r] = IF r \in InFlight THEN age[r] + 1 ELSE age[r]
        /\ PublishTimeout \in Nat /\ ShutdownDur \in Nat /\ drained \in Nat
        /\ drained' = IF main = "draining" THEN drained + 1 ELSE 0
    BY ResolverAssumption DEF Inv, TypeOK
  <1>2. TypeOK'
    <2>1. \A r \in Requests : age'[r] \in 0..PublishTimeout
      BY <1>1 DEF InFlight
    <2>2. age' \in [Requests -> 0..PublishTimeout]
      BY <2>1
    <2>3. drained' \in 0..ShutdownDur
      BY <1>1
    <2> QED
      BY <1>1, <2>2, <2>3 DEF Inv, TypeOK
  <1>3. ClickInv'
    BY <1>1 DEF Inv, ClickInv
  <1>4. StopInv'
    BY <1>1 DEF Inv, StopInv, Busy, InFlight
  <1>5. DrainInv'
    <2>1. ASSUME NEW r \in before, click[r] = "publishing", main # "failed"
          PROVE  drained' <= age'[r]
      <3>1. r \in InFlight /\ r \in Requests /\ drained <= age[r]
        BY <2>1 DEF InFlight, Inv, TypeOK, DrainInv
      <3> QED
        BY <1>1, <3>1
    <2>2. main \in {"serving", "draining"}
      BY DEF Alive
    <2> QED
      BY <1>1, <2>1, <2>2 DEF Inv, DrainInv
  <1> QED
    BY <1>2, <1>3, <1>4, <1>5 DEF Inv

(* The invariant is inductive.                                             *)
LEMMA StepInv == Inv /\ [Next]_vars => Inv'
  <1> SUFFICES ASSUME Inv, [Next]_vars PROVE Inv'
    OBVIOUS
  <1>1. ASSUME NEW r \in Requests,
               \/ \E c \in Codes \cup {NoCode} : Accept(r, c)
               \/ Handler(r) \/ Settle(r)
        PROVE  Inv'
    BY <1>1, AcceptInv, AnsweredInv, StartClickInv, SettleInv DEF Handler
  <1>2. CASE (\E c \in Codes, u \in Urls : Hydrate(c, u)) \/ Signal \/ Fails
    BY <1>2, AsideInv
  <1>3. CASE Main \/ Tick
    BY <1>3, MainInv, TickInv
  <1>4. CASE UNCHANGED vars
    BY <1>4 DEF vars, handlers, clicks, process, Inv, TypeOK, ClickInv, StopInv, DrainInv,
                Busy, InFlight
  <1> QED
    BY <1>1, <1>2, <1>3, <1>4 DEF Next

(* The resolver's invariant holds in every behaviour.                      *)
THEOREM ResolverInvariant == Spec => []Inv
  BY InitInv, StepInv, PTL DEF Spec

(* A publish joins the wait group while main waits for it only behind an   *)
(* HTTP handler that outlived its server's Shutdown.                       *)
THEOREM ResolverJoinsInTime == Spec => NoJoinWhileWaiting
  <1>1. ASSUME Inv, [Next]_vars
        PROVE  [\A r \in Requests :
                  click[r] = "none" /\ click'[r] = "publishing"
                    /\ stopper \in {"wait", "closed"} => httpLate]_vars
    <2> SUFFICES ASSUME NEW r \in Requests, click[r] = "none", click'[r] = "publishing",
                        stopper \in {"wait", "closed"}, Next
                 PROVE  httpLate
      BY <1>1
    <2>1. CASE \E q \in Requests : StartClick(q)
      BY <1>1, <2>1, StartClickInv
    <2>2. CASE \E q \in Requests : Settle(q)
      <3>1. PICK q \in Requests, result \in {"published", "lost"} :
              click' = [click EXCEPT ![q] = result]
        BY <2>2 DEF Settle
      <3> QED
        BY <1>1, <3>1 DEF Inv, TypeOK
    <2>3. CASE ~(\E q \in Requests : StartClick(q) \/ Settle(q))
      <3>1. click' = click
        BY <2>3 DEF Next, Handler, Hydrate, Accept, Reject, LookupRow, LookupFails, Written,
             Signal, Fails, Main, BeginDrain, HttpStopped, GrpcStopped, WaitReturns, Stopped,
             TimedOut, Tick, clicks
      <3> QED
        BY <3>1
    <2> QED
      BY <2>1, <2>2, <2>3
  <1> QED
    BY <1>1, ResolverInvariant, PTL DEF Spec, NoJoinWhileWaiting

(* Since a publish may take less than a drain (5 s and 10 s), a click of   *)
(* an answer given before the drain is settled when main returns.          *)
THEOREM ResolverSettlesEarlierClicks ==
  ASSUME PublishTimeout < ShutdownDur
  PROVE  Spec => []EarlierClicksSettled
  <1>1. Inv => EarlierClicksSettled
    <2> SUFFICES ASSUME Inv, main \in {"stopped", "timedOut"}, NEW r \in before,
                        click[r] = "publishing"
                 PROVE  FALSE
      BY DEF EarlierClicksSettled
    <2>1. CASE main = "stopped"
      BY <2>1 DEF Inv, StopInv, DrainInv
    <2>2. CASE main = "timedOut"
      <3>1. ShutdownDur <= age[r] /\ r \in Requests
        BY <2>2 DEF Inv, TypeOK, DrainInv
      <3>2. age[r] \in Nat /\ age[r] <= PublishTimeout
        BY <3>1, ResolverAssumption DEF Inv, TypeOK
      <3> QED
        BY <3>1, <3>2, ResolverAssumption
    <2> QED
      BY <2>1, <2>2
  <1> QED
    BY <1>1, ResolverInvariant, PTL

----------------------------------------------------------------------------
(* Inv is enough for the resolver's clean stop.                            *)
LEMMA ResolverCleanStop == Inv => CleanStop
  <1> SUFFICES ASSUME Inv PROVE CleanStop
    OBVIOUS
  <1>1. ASSUME main = "stopped", ~httpLate
        PROVE  Busy(Requests) = {} /\ InFlight = {}
    <2>1. Busy(Requests) = Busy(Http) \cup Busy(Grpc)
      BY DEF Busy, Requests
    <2> QED
      BY <1>1, <2>1 DEF Inv, StopInv
  <1> QED
    BY <1>1 DEF Inv, StopInv, CleanStop

(* The gateway's handlers move only while main lives, and main stops only  *)
(* between requests.                                                       *)
LEMMA GatewayStepInv ==
  ASSUME GatewayInv, [G!Next]_gatewayVars
  PROVE  GatewayInv'
  <1>1. CASE G!Accept
    BY <1>1 DEF G!Accept, GatewayInv
  <1>2. CASE G!Handlers /\ ~G!Accept
    BY <1>2 DEF GatewayInv, G!Alive, G!Handlers, G!Health, G!ConnectRefuses, G!Forward, G!Reply,
                G!RedirectRefuses, G!RedirectAsks, G!RedirectReply, G!Answer
  <1>3. CASE G!ServiceAnswers
    BY <1>3 DEF G!ServiceAnswers, GatewayInv
  <1>4. CASE G!Signal \/ G!Stop \/ G!CutOff
    BY <1>4 DEF G!Signal, G!Stop, G!CutOff, G!InFlight, GatewayInv
  <1>5. CASE UNCHANGED gatewayVars
    BY <1>5 DEF gatewayVars, GatewayInv
  <1> QED
    BY <1>1, <1>2, <1>3, <1>4, <1>5 DEF G!Next

(* Both processes close what a request uses only when none does, if they   *)
(* stop cleanly: the resolver's publisher and database, the gateway's      *)
(* connections.                                                            *)
THEOREM BothStopCleanly == MCSpec => []CleanStops
  <1>1. MCInit => Inv /\ GatewayInv
    BY InitInv DEF MCInit, G!Init, GatewayInv
  <1>2. Inv /\ GatewayInv /\ [MCNext]_<<part, vars, gatewayVars>> => (Inv /\ GatewayInv)'
    <2> SUFFICES ASSUME Inv, GatewayInv, [MCNext]_<<part, vars, gatewayVars>>
                 PROVE  Inv' /\ GatewayInv'
      OBVIOUS
    <2>1. [Next]_vars /\ [G!Next]_gatewayVars
      BY DEF MCNext, InResolver
    <2> QED
      BY <2>1, StepInv, GatewayStepInv
  <1>3. Inv /\ GatewayInv => CleanStops
    BY ResolverCleanStop DEF CleanStops, GatewayInv, G!CleanStop, G!InFlight
  <1> QED
    BY <1>1, <1>2, <1>3, PTL DEF MCSpec

----------------------------------------------------------------------------
(* What the gateway passes on: an RPC that Connect could read, a redirect  *)
(* of what may be a code.                                                  *)
Passed ==
  IF req.kind = "rpc"
  THEN req.procedure # "DropAll" /\ req.flaw \notin G!Malformed
  ELSE /\ req.kind = "path" /\ ~req.healthz
       /\ G!Redirects(req.method) /\ G!isLikelyCode(req.path)

(* The statuses are right because a service is asked only about what the   *)
(* gateway passes on, and an answer is written once.                       *)
StatusInv ==
  /\ G!FaultKept
  /\ gatewayPc \in {"idle", "routed"} => upstream = "none"
  /\ gatewayPc = "upstream" => Passed

(* A request is a call of some procedure or a path.                        *)
LEMMA RequestKinds ==
  ASSUME G!TypeOK
  PROVE  \/ /\ req.kind = "rpc"
            /\ req.flaw \in {"none"} \cup G!Malformed \cup G!FlawsOf(req.procedure)
         \/ /\ req.kind = "path"
            /\ req.method \in G!R!Methods
            /\ req.path \in G!R!Path
            /\ req.healthz => req.path.base62
  <1>1. CASE req \in G!Calls
    BY <1>1 DEF G!Calls
  <1>2. CASE req \in G!Paths
    <2>1. CASE req \in [kind : {"path"}, method : G!R!Methods, path : G!R!Path, healthz : {FALSE}]
      BY <2>1
    <2>2. CASE req \in [kind : {"path"}, method : G!R!Methods,
                        path : {[length |-> 7, base62 |-> TRUE]}, healthz : {TRUE}]
      <3>1. [length |-> 7, base62 |-> TRUE] \in G!R!Path
        BY DEF G!R!Path
      <3>2. [length |-> 7, base62 |-> TRUE].base62
        OBVIOUS
      <3>3. req.path = [length |-> 7, base62 |-> TRUE] /\ req.kind = "path"
              /\ req.method \in G!R!Methods
        BY <2>2
      <3> QED
        BY <3>1, <3>2, <3>3
    <2> QED
      BY <1>2, <2>1, <2>2 DEF G!Paths
  <1> QED
    BY <1>1, <1>2 DEF G!TypeOK

(* The code that Connect is given for each gRPC error.                     *)
LEMMA ConnectCodeOf ==
  ASSUME NEW u \in G!Breakdown
  PROVE  G!grpcCodeToConnect(u) =
           CASE u = "Canceled" -> "canceled"
             [] u = "Unknown" -> "unknown"
             [] u = "InvalidArgument" -> "invalid_argument"
             [] u = "DeadlineExceeded" -> "deadline_exceeded"
             [] u = "NotFound" -> "not_found"
             [] u = "AlreadyExists" -> "already_exists"
             [] u = "PermissionDenied" -> "permission_denied"
             [] u = "ResourceExhausted" -> "resource_exhausted"
             [] u = "FailedPrecondition" -> "failed_precondition"
             [] u = "Aborted" -> "aborted"
             [] u = "OutOfRange" -> "out_of_range"
             [] u = "Unimplemented" -> "unimplemented"
             [] u = "Internal" -> "internal"
             [] u = "Unavailable" -> "unavailable"
             [] u = "DataLoss" -> "data_loss"
             [] u = "Unauthenticated" -> "unauthenticated"
  BY DEF G!Breakdown, G!grpcCodeToConnect, G!GrpcCodes, G!ConnectCodes

(* What a client of Connect sees of each gRPC error.                       *)
LEMMA ConnectStatusOf ==
  ASSUME NEW u \in G!Breakdown
  PROVE  LET s == G!ConnectStatus(G!grpcCodeToConnect(u)) IN
         /\ s \in 400..599
         /\ s = 404 <=> u = "NotFound"
         /\ u \in {"InvalidArgument", "AlreadyExists", "ResourceExhausted", "Canceled"}
              => s \in 400..499
         /\ u \in {"Internal", "Unavailable", "DeadlineExceeded", "Unknown", "DataLoss"}
              => s \in 500..599
  BY ConnectCodeOf DEF G!Breakdown, G!GrpcCodes, G!ConnectStatus

(* Each step of the gateway keeps the variables' types and asks a service  *)
(* only about what it passes on.                                           *)
LEMMA GatewayTypes ==
  ASSUME StatusInv, [G!Next]_gatewayVars
  PROVE  /\ G!TypeOK'
         /\ (gatewayPc \in {"idle", "routed"} => upstream = "none")'
         /\ (gatewayPc = "upstream" => Passed)'
  <1> USE DEF StatusInv, G!FaultKept, G!TypeOK, G!Answer
  <1>1. CASE G!Accept
    BY <1>1 DEF G!Accept, Passed
  <1>2. CASE G!Health \/ G!ConnectRefuses \/ G!RedirectRefuses
    BY <1>2 DEF G!Health, G!ConnectRefuses, G!RedirectRefuses, Passed
  <1>3. CASE G!Forward \/ G!RedirectAsks
    BY <1>3 DEF G!Forward, G!RedirectAsks, G!Redirectable, Passed
  <1>4. CASE G!ServiceAnswers
    <2>1. upstream' \in {"none", "emptyUrl"} \cup DOMAIN G!GrpcCodes
      <3>1. G!Healthy \subseteq DOMAIN G!GrpcCodes
        BY DEF G!Healthy, G!Outcomes, G!GrpcCodes
      <3> QED
        BY <1>4, <3>1 DEF G!ServiceAnswers, G!Breakdown
    <2> QED
      BY <1>4, <2>1 DEF G!ServiceAnswers, Passed
  <1>5. CASE G!Reply
    <2>1. G!ConnectStatus(G!grpcCodeToConnect(upstream)) \in 400..599
            \/ upstream \in {"OK", "emptyUrl"}
      BY <1>5, ConnectStatusOf DEF G!Reply, G!Breakdown
    <2>2. gatewayPc' = "answered" /\ status' \in {200} \cup 400..599 /\ UNCHANGED <<req, upstream, gatewayMain>>
      BY <1>5, <2>1 DEF G!Reply
    <2> QED
      BY <2>2
  <1>6. CASE G!RedirectReply
    BY <1>6 DEF G!RedirectReply
  <1>7. CASE G!Signal \/ G!Stop \/ G!CutOff
    BY <1>7 DEF G!Signal, G!Stop, G!CutOff, Passed
  <1>8. CASE UNCHANGED gatewayVars
    BY <1>8 DEF gatewayVars, Passed
  <1> QED
    BY <1>1, <1>2, <1>3, <1>4, <1>5, <1>6, <1>7, <1>8 DEF G!Next, G!Handlers

(* A request that is answered without a service was well answered.         *)
LEMMA AnsweredByItself ==
  ASSUME StatusInv, CodeLength \in 1..G!R!MaxCode,
         G!Health \/ G!ConnectRefuses \/ G!RedirectRefuses
  PROVE  (G!ProbesRejected /\ G!RpcFaultKept /\ G!SameRedirect)'
  <1>1. upstream = "none" /\ upstream' = "none" /\ req' = req
    BY DEF StatusInv, G!Health, G!ConnectRefuses, G!RedirectRefuses
  <1>2. G!RpcFaultKept'
    BY <1>1 DEF G!RpcFaultKept
  <1>3. CASE G!Health
    <2>1. req.path.base62
      BY <1>3, RequestKinds DEF G!Health, StatusInv, G!FaultKept
    <2> QED
      BY <1>1, <1>2, <1>3, <2>1 DEF G!Health, G!ProbesRejected, G!Probe, G!SameRedirect
  <1>4. CASE G!ConnectRefuses
    BY <1>1, <1>2, <1>4 DEF G!ConnectRefuses, G!Answer, G!ProbesRejected, G!SameRedirect
  <1>5. CASE G!RedirectRefuses
    <2>1. G!ProbesRejected'
      BY <1>1, <1>5 DEF G!RedirectRefuses, G!Answer, G!ProbesRejected
    <2>2. status' = G!R!ServeHTTP(req.method, req.path, "none")
      <3>1. G!Redirects(req.method) <=> G!R!Redirects(req.method)
        BY DEF G!Redirects, G!R!Redirects
      <3>2. G!isLikelyCode(req.path) <=> G!R!isLikelyCode(req.path)
        BY DEF G!isLikelyCode, G!R!isLikelyCode, G!R!MaxCode
      <3>3. \/ ~G!Redirects(req.method) /\ status' = 405
            \/ G!Redirects(req.method) /\ ~G!isLikelyCode(req.path) /\ status' = 404
        BY <1>5 DEF G!RedirectRefuses, G!Answer
      <3>4. CASE ~G!R!Redirects(req.method)
        BY <3>1, <3>3, <3>4, Zenon DEF G!R!ServeHTTP
      <3>5. CASE G!R!Redirects(req.method)
        BY <3>1, <3>2, <3>3, <3>5, Zenon DEF G!R!ServeHTTP
      <3> QED
        BY <3>4, <3>5
    <2>3. ~(req.path = G!Generated /\ req.method = "GET")
      BY <1>5 DEF G!RedirectRefuses, G!Redirects, G!isLikelyCode, G!Generated, G!R!MaxCode
    <2> QED
      BY <1>1, <1>2, <2>1, <2>2, <2>3 DEF G!SameRedirect
  <1> QED
    BY <1>3, <1>4, <1>5

(* So was an RPC that a service answered ...                               *)
LEMMA AnsweredRpc ==
  ASSUME StatusInv, G!Reply
  PROVE  (G!ProbesRejected /\ G!RpcFaultKept /\ G!SameRedirect)'
  <1>1. /\ req.kind = "rpc" /\ upstream # "none"
        /\ upstream \in {"OK", "emptyUrl"} \cup G!Breakdown
        /\ UNCHANGED <<req, upstream>>
        /\ status' = IF upstream \in {"OK", "emptyUrl"} THEN 200
                     ELSE G!ConnectStatus(G!grpcCodeToConnect(upstream))
        /\ Passed
    BY DEF StatusInv, G!FaultKept, G!TypeOK, G!Breakdown, G!Reply, G!Answer
  <1>2. G!RpcFaultKept'
    <2>1. CASE upstream \in {"OK", "emptyUrl"}
      BY <1>1, <2>1 DEF G!RpcFaultKept
    <2>2. CASE upstream \in G!Breakdown
      <3>1. upstream \notin {"OK", "emptyUrl"}
        BY <2>2 DEF G!Breakdown, G!GrpcCodes
      <3> QED
        BY <1>1, <2>2, <3>1, ConnectStatusOf DEF G!RpcFaultKept
    <2> QED
      BY <1>1, <2>1, <2>2
  <1>3. G!ProbesRejected'
    <2> SUFFICES ASSUME G!Probe, upstream \in G!Healthy PROVE status' \in 400..499
      BY <1>1 DEF G!ProbesRejected, G!Probe, G!Healthy, G!Procedure
    <2>1. req.flaw \in G!FlawsOf(req.procedure)
      BY <1>1, RequestKinds DEF StatusInv, G!FaultKept, Passed, G!Probe
    <2>2. upstream = "InvalidArgument"
      BY <1>1, <2>1 DEF G!Healthy, G!Refuses
    <2> QED
      BY <1>1, <1>2, <2>2 DEF G!RpcFaultKept
  <1>4. G!SameRedirect'
    BY <1>1 DEF G!SameRedirect
  <1> QED
    BY <1>2, <1>3, <1>4

(* ... and a redirect.                                                     *)
LEMMA AnsweredRedirect ==
  ASSUME StatusInv, G!RedirectReply
  PROVE  (G!ProbesRejected /\ G!RpcFaultKept /\ G!SameRedirect)'
  <1>1. /\ req.kind = "path" /\ upstream # "none"
        /\ UNCHANGED <<req, upstream>>
        /\ status' = CASE upstream = "OK" -> 302
                       [] upstream = "NotFound" -> 404
                       [] OTHER -> 502
        /\ upstream \notin {"url", "contextDeadline"}
        /\ G!Redirects(req.method) /\ G!isLikelyCode(req.path)
    BY DEF StatusInv, G!FaultKept, G!TypeOK, G!GrpcCodes, G!RedirectReply, G!Redirectable,
           G!Answer, Passed
  <1>2. G!ProbesRejected' /\ G!RpcFaultKept'
    BY <1>1 DEF G!ProbesRejected, G!Probe, G!RpcFaultKept, G!isLikelyCode
  <1>3. status' = G!R!ServeHTTP(req.method, req.path, IF upstream = "OK" THEN "url" ELSE upstream)
    BY <1>1 DEF G!Redirects, G!isLikelyCode, G!R!ServeHTTP, G!R!AfterResolve, G!R!Redirects,
                G!R!isLikelyCode, G!R!MaxCode
  <1> QED
    BY <1>1, <1>2, <1>3 DEF G!SameRedirect

(* The invariant of the statuses is inductive.                             *)
LEMMA GatewayStatusInv ==
  ASSUME StatusInv, [G!Next]_gatewayVars, CodeLength \in 1..G!R!MaxCode
  PROVE  StatusInv'
  <1> SUFFICES ASSUME gatewayPc' = "answered"
               PROVE  (G!ProbesRejected /\ G!RpcFaultKept /\ G!SameRedirect)'
    BY GatewayTypes DEF StatusInv, G!FaultKept
  <1>1. CASE G!Health \/ G!ConnectRefuses \/ G!RedirectRefuses
    BY <1>1, AnsweredByItself
  <1>2. CASE G!Reply
    BY <1>2, AnsweredRpc
  <1>3. CASE G!RedirectReply
    BY <1>3, AnsweredRedirect
  <1>4. CASE UNCHANGED <<req, gatewayPc, upstream, status>>
    BY <1>4 DEF StatusInv, G!FaultKept, G!ProbesRejected, G!Probe, G!Healthy, G!Procedure,
                G!RpcFaultKept, G!SameRedirect
  <1> QED
    BY <1>1, <1>2, <1>3, <1>4
       DEF G!Next, G!Handlers, G!Accept, G!Forward, G!RedirectAsks, G!ServiceAnswers,
           G!Signal, G!Stop, G!CutOff, gatewayVars

(* No failure becomes a success and no refusal a fault on the way through  *)
(* the gateway, and both redirects agree, whatever a service answers, when *)
(* codes have a length that the redirect accepts (the code checks only     *)
(* that it is not below one; the default is 8).                            *)
THEOREM GatewayKeepsFaults ==
  ASSUME CodeLength \in 1..G!R!MaxCode
  PROVE  MCSpec => []FaultKept
  <1>1. MCInit => StatusInv
    BY DEF MCInit, G!Init, StatusInv, G!FaultKept, G!TypeOK
  <1>2. StatusInv /\ [MCNext]_<<part, vars, gatewayVars>> => StatusInv'
    <2> SUFFICES ASSUME StatusInv, [MCNext]_<<part, vars, gatewayVars>> PROVE StatusInv'
      OBVIOUS
    <2>1. [G!Next]_gatewayVars
      BY DEF MCNext, InResolver
    <2> QED
      BY <2>1, GatewayStatusInv
  <1>3. StatusInv => FaultKept
    BY DEF StatusInv, FaultKept
  <1> QED
    BY <1>1, <1>2, <1>3, PTL DEF MCSpec
=============================================================================
