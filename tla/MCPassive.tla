------------------------------ MODULE MCPassive ------------------------------
(* An order that rests in a queue (PassiveQueue), or a probe that places     *)
(* such orders (PassiveProbe), for which the fills are left open.  Three     *)
(* small probes: one that can try twice, one with two scenarios that hedge   *)
(* at different times, one whose order and hedges can be filled in part.     *)
EXTENDS PassiveQueue

VARIABLES
  part,   \* what a behaviour is about
  clock, connection, generation, entry, scenarios, markets, ended, attempts, halted,
  expired, continuity_failed, finished

OneScenario == {"favorable"}
TwoScenarios == {"favorable", "adverse"}
OneDelay == [s \in OneScenario |-> 1]
TwoDelays == [s \in TwoScenarios |-> IF s = "favorable" THEN 1 ELSE 2]

Twice ==
  INSTANCE PassiveProbe
    WITH now <- clock, Scenario <- OneScenario, Delay <- OneDelay, Cap <- 1, InitialCash <- 4,
         Payout <- 4, EntryDelay <- 1, RestTime <- 1, MaxGap <- 2, MaxAttempts <- 2,
         MaxTime <- 5, MaxGeneration <- 2

Both ==
  INSTANCE PassiveProbe
    WITH now <- clock, Scenario <- TwoScenarios, Delay <- TwoDelays, Cap <- 1, InitialCash <- 4,
         Payout <- 4, EntryDelay <- 1, RestTime <- 1, MaxGap <- 2, MaxAttempts <- 1,
         MaxTime <- 5, MaxGeneration <- 1

Partial ==
  INSTANCE PassiveProbe
    WITH now <- clock, Scenario <- OneScenario, Delay <- OneDelay, Cap <- 2, InitialCash <- 6,
         Payout <- 4, EntryDelay <- 1, RestTime <- 1, MaxGap <- 1, MaxAttempts <- 1,
         MaxTime <- 3, MaxGeneration <- 1

ASSUME Twice!ProbeConstants /\ Both!ProbeConstants /\ Partial!ProbeConstants

probeVars == <<clock, connection, generation, entry, scenarios, markets, ended, attempts,
               halted, expired, continuity_failed, finished>>
mcVars == <<part, vars, probeVars>>

MCInit ==
  /\ Init
  /\ \/ part \in {"queue", "twice"} /\ Twice!Init
     \/ part = "both" /\ Both!Init
     \/ part = "partial" /\ Partial!Init

MCNext ==
  /\ \/ part = "queue" /\ Next /\ UNCHANGED probeVars
     \/ part = "twice" /\ Twice!Next /\ UNCHANGED vars
     \/ part = "both" /\ Both!Next /\ UNCHANGED vars
     \/ part = "partial" /\ Partial!Next /\ UNCHANGED vars
  /\ UNCHANGED part

MCSpec == MCInit /\ [][MCNext]_mcVars

\* A probe (src/src/session/passive_probe.cpp) accounts for every attempt and all of its
\* money, settles each in time, and stops at the first inventory it cannot complete:
\* ProbeSound of the probe that is explored.
ProbeSound ==
  /\ [](/\ part = "twice" => Twice!AccountsAddUp /\ Twice!AttemptsEndInTime
        /\ part = "both" => Both!AccountsAddUp /\ Both!AttemptsEndInTime
        /\ part = "partial" => Partial!AccountsAddUp /\ Partial!AttemptsEndInTime)
  /\ [][/\ part = "twice" => Twice!StopsAtResidual
        /\ part = "both" => Both!StopsAtResidual
        /\ part = "partial" => Partial!StopsAtResidual]_mcVars
==============================================================================
