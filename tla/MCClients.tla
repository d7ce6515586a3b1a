----------------------------- MODULE MCClients -----------------------------
(***************************************************************************)
(* Instances for TLC of the programs that use the services: the simulator  *)
(* with its crowd, the seeding of a load test, its stream to the page, and *)
(* the page of links.  They share no state, so each behaviour is that of   *)
(* one of them, and the others stay at their beginning.  Latencies has no  *)
(* state, and its one behaviour no step.                                   *)
(***************************************************************************)
EXTENDS Naturals

CONSTANTS
  Users, Settle, Lag, MaxClock, MaxLinks, MaxActs,
  Base, Most, Shortest, Longest,
  SeedCount, PropagationTimeout, MaxOthers,
  RpsValues, Seconds, MaxRunning, Window,
  Codes, MaxRecent, MaxEffects,
  Actions, Latency, MaxLatencies

(* Links spread within -settle.                                            *)
ASSUME SimulatorAssumption ==
  {Settle, Lag, MaxClock, MaxLinks, MaxActs} \subseteq Nat /\ Lag <= Settle

(* A phase lasts a second at least.                                        *)
ASSUME CrowdAssumption ==
  Base \in Nat /\ Most \in Nat /\ Shortest \in Nat \ {0} /\ Longest \in Nat

ASSUME SeedAssumption == SeedCount \in Nat

ASSUME RequestAssumption == RpsValues \subseteq Nat /\ Seconds \subseteq Nat

ASSUME HomeAssumption == MaxRecent \in Nat

ASSUME LatencyAssumption == Latency \subseteq Nat /\ MaxLatencies \in Nat

VARIABLES
  part,     (* "simulator", "crowd", "seed", "stream", "home", "latencies" *)
  now, links, pool, user, totals, window, ended, reporter,
  phase, left, target, cur, event, at, active, viral, attack, comeOfAge,
  log, applied, seeded, seedPc, seedClock, deadline, seedEnded,
  req, server, said, broken, over, hop1, status1, gateway, forwarded, hop2, status2,
  page, shown, connections, process, waited,
  busy, codes, listed, effect, asked, rows, cause

Traffic == INSTANCE Simulator WITH clock <- now, main <- reporter
Crowd == INSTANCE SimulatorCrowd WITH links <- comeOfAge
Seed == INSTANCE LoadSeed
          WITH codes <- seeded, pc <- seedPc, clock <- seedClock, ended <- seedEnded
Stream == INSTANCE LoadStream WITH links <- connections, held <- forwarded
Home == INSTANCE HomePage
Summaries == INSTANCE Latencies WITH MaxSamples <- MaxLatencies

simulatorVars == <<now, links, pool, user, totals, window, ended, reporter>>
crowdVars == <<phase, left, target, cur, event, at, active, viral, attack, comeOfAge>>
seedVars == <<log, applied, seeded, seedPc, seedClock, deadline, seedEnded>>
streamVars == <<req, server, said, broken, over, hop1, status1, gateway, forwarded, hop2,
                status2, page, shown, connections, process, waited>>
homeVars == <<busy, codes, listed, effect, asked, rows, cause>>

MCInit ==
  /\ part \in {"simulator", "crowd", "seed", "stream", "home", "latencies"}
  /\ Traffic!Init /\ Crowd!Init /\ Seed!Init /\ Stream!Init /\ Home!Init
  /\ part # "stream" => req = CHOOSE r \in Stream!Requests : TRUE

InStream(A) ==
  /\ part = "stream" /\ A
  /\ UNCHANGED <<part, simulatorVars, crowdVars, seedVars, homeVars>>

MCNext ==
  \/ /\ part = "simulator" /\ Traffic!Next
     /\ UNCHANGED <<part, crowdVars, seedVars, streamVars, homeVars>>
  \/ /\ part = "crowd" /\ Crowd!Next
     /\ UNCHANGED <<part, simulatorVars, seedVars, streamVars, homeVars>>
  \/ /\ part = "seed" /\ Seed!Next
     /\ UNCHANGED <<part, simulatorVars, crowdVars, streamVars, homeVars>>
  \/ InStream(Stream!Next)
  \/ /\ part = "home" /\ Home!Next
     /\ UNCHANGED <<part, simulatorVars, crowdVars, seedVars, streamVars>>

MCVars == <<part, simulatorVars, crowdVars, seedVars, streamVars, homeVars>>

(* The servers of a stream run and the time of a shutdown passes; a page   *)
(* need not read.                                                          *)
MCSpec ==
  /\ MCInit /\ [][MCNext]_MCVars
  /\ WF_MCVars(InStream(Stream!LoadGen)) /\ WF_MCVars(InStream(Stream!Gateway))
  /\ WF_MCVars(InStream(Stream!ShutdownDurPasses))

(* LoadStream's: the run button comes back; a page that reads does not     *)
(* stay in "running".                                                      *)
PageSettles ==
  part = "stream" /\ WF_MCVars(InStream(Stream!Page)) => <>(page # "running")

(* Simulator's: a link that is clicked has reached the resolver.           *)
NoClickMisses == Traffic!NoClickMisses

(* Simulator's: what main prints is not written any more.                  *)
SummaryIsFinal == Traffic!SummaryIsFinal

(* LoadStream's: a stream that ends well has delivered the whole run.      *)
CleanEndIsWhole == Stream!CleanEndIsWhole

(* SimulatorCrowd's: attack and viral link never outlive their phase.      *)
FlagsFollowPhase == Crowd!FlagsFollowPhase

(* LoadSeed's: when the reads begin, every seeded link redirects.          *)
ReadsFindTheirLinks == Seed!ReadsFindTheirLinks

(* HomePage's: a row never shows the answer of an earlier effect.          *)
NoStaleRow == Home!NoStaleRow

(* Latencies': what is printed are percentiles, or a sample below.         *)
SummariesArePercentiles == part = "latencies" => Summaries!SummariesArePercentiles
============================================================================
