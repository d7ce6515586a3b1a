----------------------------- MODULE LoadStream -----------------------------
(* One load test from the page to the runner and back: the page asks the     *)
(* gateway for a stream (LoadTest.tsx), the gateway's handler copies the     *)
(* samples of a stream from the load generator (handler.go), whose server    *)
(* plans the request and hands its stream to a run as the sink (server.go).  *)
(* Either connection may break, the page may be closed, and the load         *)
(* generator may be told to stop in the middle (cmd/server/main.go). The run *)
(* is LoadRun, which LoadRunner implements.                                  *)
EXTENDS LoadPlan, Sequences, SequencesExt

CONSTANTS
  MaxRunning,  \* bound on the RUNNING samples
  Window       \* samples a connection takes before its reader has read one

VARIABLES
  req,      \* the request, until it is planned
  server,   \* RunLoadTest: "plan", "run", "returned"
  said, broken, over,   \* the run: LoadRun
  hop1,     \* samples on their way to the gateway
  status1,  \* how RunLoadTest ended, once the gateway can see it
  gateway,  \* its handler: "recv", "send", "returned"
  held,     \* the sample it forwards
  hop2, status2,        \* the same between the gateway and the page
  page,     \* RunState
  shown,    \* the samples it shows
  links,    \* the connections that are up
  process,  \* the load generator: "serving", "stopping", "clean", "killed"
  waited    \* shutdownDur has passed

Run == INSTANCE LoadRun

runVars == <<said, broken, over>>
pageVars == <<page, shown>>
vars == <<req, server, runVars, hop1, status1, gateway, held, hop2, status2,
          pageVars, links, process, waited>>

NoRequest == [preset |-> "none", scenario |-> "", rps |-> 0, seconds |-> 0]
NoSample == "none"
Open == "open"

Init ==
  /\ req \in Requests /\ server = "plan" /\ Run!Init
  /\ hop1 = <<>> /\ status1 = Open /\ gateway = "recv" /\ held = NoSample
  /\ hop2 = <<>> /\ status2 = Open
  /\ page = "running" /\ shown = <<>>
  /\ links = {1, 2} /\ process = "serving" /\ waited = FALSE

Alive == process \in {"serving", "stopping"}

------------------------------------------------------------------------------
(* The load generator. *)

(* RunLoadTest: a bad request is an error without a sample. *)
PlanRequest ==
  /\ Alive /\ server = "plan"
  /\ IF Refused(req) THEN server' = "returned" /\ status1' = "error"
     ELSE server' = "run" /\ UNCHANGED status1
  /\ req' = NoRequest
  /\ UNCHANGED <<runVars, hop1, gateway, held, hop2, status2, pageVars, links, process, waited>>

Running == Alive /\ server = "run"

(* stream.Send takes the sample, while the stream is up and its window open. *)
SendSample ==
  /\ Running /\ 1 \in links /\ Len(hop1) < Window
  /\ Run!Sample \/ Run!Terminal
  /\ hop1' = Append(hop1, Last(said'))
  /\ UNCHANGED <<req, server, status1, gateway, held, hop2, status2, pageVars, links, process, waited>>

(* It fails once the stream is down, and the run ends. *)
SinkGone ==
  /\ Running /\ 1 \notin links
  /\ Run!SinkFails \/ Run!GivesUp
  /\ UNCHANGED <<req, server, hop1, status1, gateway, held, hop2, status2, pageVars, links, process, waited>>

(* Run returns nil after a terminal sample of drive, an error after that of *)
(* a run that could not start, and an error when the sink has failed.       *)
RunLoadTestReturns ==
  /\ Running /\ over
  /\ server' = "returned"
  /\ status1' \in IF broken THEN {"error"}
                  ELSE IF Last(said) = "FAILED" THEN {"ok", "error"} ELSE {"ok"}
  /\ UNCHANGED <<req, runVars, hop1, gateway, held, hop2, status2, pageVars, links, process, waited>>

Signal ==
  /\ process = "serving"
  /\ process' = "stopping"
  /\ UNCHANGED <<req, server, runVars, hop1, status1, gateway, held, hop2, status2, pageVars, links, waited>>

(* GracefulStop returns when no handler runs; what it sent is delivered.    *)
HandlersReturned == server = "returned"

Exit(how) ==
  /\ process' = how
  /\ UNCHANGED <<req, server, runVars, hop1, status1, gateway, held, hop2, status2, pageVars, waited>>

GracefulStop == process = "stopping" /\ HandlersReturned /\ Exit("clean") /\ UNCHANGED links

(* Stop closes the connections, and main returns with whatever still runs.  *)
Stop == process = "stopping" /\ waited /\ Exit("killed") /\ links' = links \ {1}

ShutdownDurPasses ==
  /\ process = "stopping" /\ ~waited
  /\ waited' = TRUE
  /\ UNCHANGED <<req, server, runVars, hop1, status1, gateway, held, hop2, status2, pageVars, links, process>>

------------------------------------------------------------------------------
(* The gateway. *)

Recv ==
  /\ gateway = "recv" /\ hop1 # <<>>
  /\ held' = Head(hop1) /\ hop1' = Tail(hop1) /\ gateway' = "send"
  /\ UNCHANGED <<req, server, runVars, status1, hop2, status2, pageVars, links, process, waited>>

(* Mutant: the end of the stream, well or badly, is an end without error.   *)
RecvEndsWell ==
  /\ gateway = "recv" /\ hop1 = <<>> /\ status2 = Open
  /\ status1 # Open \/ 1 \notin links
  /\ gateway' = "returned" /\ status2' = "ok"
  /\ UNCHANGED <<req, server, runVars, hop1, held, hop2, status1, pageVars, links, process, waited>>

(* Recv answers the end of the stream when its samples are taken: EOF ends  *)
(* the handler without an error, any other error is passed on.              *)
RecvEnds ==
  /\ gateway = "recv" /\ hop1 = <<>> /\ status2 = Open
  /\ \/ status1 # Open /\ 1 \in links /\ status2' = status1
     \/ 1 \notin links /\ status2' = "error"
  /\ gateway' = "returned"
  /\ UNCHANGED <<req, server, runVars, hop1, held, hop2, status1, pageVars, links, process, waited>>

Forward ==
  /\ gateway = "send" /\ 2 \in links /\ Len(hop2) < Window
  /\ hop2' = Append(hop2, held) /\ held' = NoSample /\ gateway' = "recv"
  /\ UNCHANGED <<req, server, runVars, hop1, status1, status2, pageVars, links, process, waited>>

(* The page is gone: the handler's context ends, and the upstream call with *)
(* it.                                                                      *)
ForwardFails ==
  /\ gateway \in {"recv", "send"} /\ 2 \notin links
  /\ gateway' = "returned" /\ links' = links \ {1}
  /\ UNCHANGED <<req, server, runVars, hop1, held, hop2, status1, status2, pageVars, process, waited>>

------------------------------------------------------------------------------
(* The page, and what breaks. *)

(* Mutant: only COMPLETED is taken for the end of a run. *)
ShowOnlyCompleted ==
  /\ hop2 # <<>>
  /\ shown' = Append(shown, Head(hop2)) /\ hop2' = Tail(hop2)
  /\ page' = IF Head(hop2) = "COMPLETED" THEN "completed" ELSE page
  /\ UNCHANGED <<req, server, runVars, hop1, status1, gateway, held, status2, links, process, waited>>

(* A sample is shown, and a terminal one settles the page. *)
Show ==
  /\ hop2 # <<>>
  /\ shown' = Append(shown, Head(hop2)) /\ hop2' = Tail(hop2)
  /\ page' = CASE Head(hop2) = "COMPLETED" -> "completed"
               [] Head(hop2) = "FAILED"    -> "failed"
               [] OTHER                    -> page
  /\ UNCHANGED <<req, server, runVars, hop1, status1, gateway, held, status2, links, process, waited>>

(* The loop over the stream ends, or throws.                                *)
StreamEnds ==
  /\ hop2 = <<>> /\ status2 # "seen"
  /\ \/ status2 = "ok" /\ 2 \in links /\ page' = page
     \/ (status2 = "error" \/ 2 \notin links) /\ page' = "failed"
  /\ status2' = "seen"
  /\ UNCHANGED <<req, server, runVars, hop1, status1, gateway, held, hop2, shown, links, process, waited>>

(* A connection breaks, perhaps with what is on its way. *)
Break(link) ==
  /\ link \in links
  /\ links' = links \ {link}
  /\ hop1' \in IF link = 1 THEN {<<>>, hop1} ELSE {hop1}
  /\ hop2' \in IF link = 2 THEN {<<>>, hop2} ELSE {hop2}
  /\ UNCHANGED <<req, server, runVars, status1, gateway, held, status2, pageVars, process, waited>>

LoadGen == PlanRequest \/ SendSample \/ SinkGone \/ RunLoadTestReturns \/ GracefulStop \/ Stop
Gateway == Recv \/ RecvEnds \/ Forward \/ ForwardFails
Page == Show \/ StreamEnds
Next == LoadGen \/ Gateway \/ Page \/ Signal \/ ShutdownDurPasses \/ \E link \in {1, 2} : Break(link)

Spec == Init /\ [][Next]_vars

------------------------------------------------------------------------------
(* Properties *)

(* A request that is not refused is one that Run accepts, and its rate gives *)
(* the producer's ticker a positive interval, whatever the page or another   *)
(* client asks for.                                                          *)
PlansAreRunnable ==
  server = "plan" /\ ~Refused(req) =>
    /\ Runnable(PlanFromRequest(req)) /\ interval(PlanFromRequest(req)) > 0
    /\ defaultWorkerCount(PlanFromRequest(req).rps) > 0

(* The variables have their types; the handler holds a sample only between   *)
(* receiving and sending it, and the process is not clean before the run is  *)
(* over.                                                                     *)
TypeOK ==
  /\ req \in Requests \cup {NoRequest} /\ server \in {"plan", "run", "returned"}
  /\ status1 \in {Open, "ok", "error"} /\ status2 \in {Open, "ok", "error", "seen"}
  /\ gateway \in {"recv", "send", "returned"} /\ page \in {"running", "completed", "failed"}
  /\ process \in {"serving", "stopping", "killed"} \/ (process = "clean" /\ server = "returned")
  /\ links \subseteq {1, 2} /\ (held # NoSample => gateway \in {"send", "returned"})

(* What the page shows is how the run began: nothing is lost in the middle,  *)
(* repeated or out of order. And a stream that ends without an error has     *)
(* delivered the whole run, with its terminal sample: a page is never left   *)
(* with a run that just stops.                                               *)
CleanEndIsWhole ==
  /\ TypeOK /\ PlansAreRunnable
  /\ IsPrefix(shown, said)
  /\ status2 = "ok" /\ 2 \in links /\ hop2 = <<>> =>
       shown = said /\ said # <<>> /\ Last(said) \in {"COMPLETED", "FAILED"}
==============================================================================
