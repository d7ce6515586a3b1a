----------------------------- MODULE MCRedirect -----------------------------
(***************************************************************************)
(* An instance of Resolver and one of Gateway for TLC: the two processes   *)
(* that answer GET /<code>, and how each of them stops.  They share no     *)
(* state, so each behaviour is one of either; Gateway lets the services    *)
(* answer anything.                                                        *)
(***************************************************************************)
EXTENDS Resolver

CONSTANT CodeLength

VARIABLES
  part,     (* "resolver" or "gateway": what this behaviour is about       *)
  req, gatewayPc, upstream, status, gatewayMain

G == INSTANCE Gateway WITH pc <- gatewayPc, main <- gatewayMain

gatewayVars == <<req, gatewayPc, upstream, status, gatewayMain>>

MCInit ==
  /\ part \in {"resolver", "gateway"}
  /\ Init /\ G!Init
  /\ part = "gateway" => config = {} /\ cache = [c \in Codes |-> NoUrl]
  /\ part = "resolver" => req = CHOOSE r \in G!Calls : TRUE

InResolver(A) == part = "resolver" /\ A /\ UNCHANGED <<part, gatewayVars>>

MCNext ==
  \/ InResolver(Next)
  \/ part = "gateway" /\ G!Next /\ UNCHANGED <<part, vars>>

(* Publishes have a timeout, time passes and main goes on.  Nothing is     *)
(* assumed of the handlers, whose clients may be slow.                     *)
MCSpec ==
  /\ MCInit /\ [][MCNext]_<<part, vars, gatewayVars>>
  /\ WF_vars(InResolver(BeginDrain)) /\ WF_vars(InResolver(Stopped \/ TimedOut))
  /\ WF_vars(InResolver(Tick))
  /\ \A r \in Requests : WF_vars(InResolver(Settle(r)))

(* Gateway's: a client learns whose fault an error was, whichever way the  *)
(* request came.                                                           *)
FaultKept == G!FaultKept

(* Neither main closes what a request still uses, when it stops cleanly.   *)
CleanStops == CleanStop /\ G!CleanStop
============================================================================
