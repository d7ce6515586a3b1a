----------------------------- MODULE MCPipeline -----------------------------
(***************************************************************************)
(* An instance of OutboxPipeline and one of Startup for TLC.  They share   *)
(* no state - Startup shows that the slot and the publication, of which    *)
(* the pipeline takes no notice, are there before the first row - so each  *)
(* behaviour is one of either, and the other stays at its beginning.       *)
(***************************************************************************)
EXTENDS OutboxPipeline

CONSTANTS Attempts, MaxOutages, MaxRestarts, MaxRows

ASSUME StartupAssumption == Attempts \in Nat \ {0}

VARIABLES
  part,     (* "pipeline" or "startup": what this behaviour is about       *)
  postgres, refuses, outages, restarts, tables, publication, slotMade, wal, pod, attempt

Shortener == INSTANCE Startup WITH slot <- slotMade

startupVars == <<postgres, refuses, outages, restarts, tables, publication, slotMade, wal, pod, attempt>>

MCInit ==
  /\ part \in {"pipeline", "startup"}
  /\ Init /\ Shortener!Init
  /\ part = "pipeline" => ~refuses

InPipeline(A) == part = "pipeline" /\ A /\ UNCHANGED <<part, startupVars>>

MCNext ==
  \/ InPipeline(Next)
  \/ part = "startup" /\ Shortener!Next /\ UNCHANGED <<part, vars>>

(* Connector and resolver are started again and go on; the slot need not be *)
(* confirmed.                                                              *)
MCSpec ==
  /\ MCInit /\ [][MCNext]_<<part, vars, startupVars>>
  /\ WF_vars(InPipeline(Connect)) /\ WF_vars(InPipeline(Publish))
  /\ WF_vars(InPipeline(StartResolver)) /\ WF_vars(InPipeline(HandleNext))
  /\ WF_vars(InPipeline(CommitOffset))

(* Startup's: every outbox row is published, and none before its schema.   *)
EveryRowPublished == Shortener!EveryRowPublished
============================================================================
