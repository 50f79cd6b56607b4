--------------------------- MODULE SimulationConfig ---------------------------
(******************************************************************************)
(* simulation/config.py: which generator configurations are accepted, what    *)
(* namespace their identifiers and random streams get, and the boundary that  *)
(* the generator, the validator and the trainer share. Time is counted in     *)
(* units of ten seconds; every duration of the code is a multiple of one, but *)
(* for the margins of one millisecond, which are one unit here.               *)
(******************************************************************************)
EXTENDS Integers, FiniteSets, Sequences, FiniteSetsExt, SequencesExt

CONSTANT None  \* an absent value

Day == 8640
MinuteUnits == 6

SplitNames == <<"train", "calibration", "test">>

Weights ==
    [normal |-> 7000, legitimate_retry |-> 800, flash_sale |-> 1200,
     shared_infrastructure |-> 500, legitimate_failure |-> 300, attack |-> 200]

ScenarioCount(split, scenario) == (split.events * Weights[scenario]) \div 10000

\* The fields of a configuration, with the least values that they are declared
\* with; of the greatest only those that something here depends on.
EventCounts == {n \in Nat : n >= 100 /\ n % 100 = 0}

Placements == [basisPoints : Nat \ {0}, before : Nat \ {0, 1}, after : Nat \ {0, 1},
               gap : Nat \ 0 .. 29, attempts : Nat \ {0}]

EvasionShapes ==
    [variant : {"slow_and_low", "window_edge", "distributed_thin", "failure_camouflage"}, parameter : Nat]

SplitConfigs ==
    [days : 1 .. 365, events : EventCounts, campaigns : Nat \ {0},
     placement : {None} \cup Placements, evasion : {None} \cup EvasionShapes]

GeneratorConfigs ==
    [version : {"1.0.0", "1.1.0", "1.2.0"},
     profile : {"smoke", "development", "policy-validation", "adversarial-stress"},
     start : STRING,
     splits : [{"train", "calibration", "test"} -> SplitConfigs],
     retry : [fewest : 2 .. 4, most : 2 .. 4, minGap : 1 .. 60, maxGap : 1 .. 60],
     shift : [multiplier : 2 .. 10, networkRatio : 1 .. 5000, presence : 5000 .. 10000],
     missing : [device : 0 .. 10000, network : 0 .. 10000]]

TotalEvents(c) == MapThenSumSet(LAMBDA n : c.splits[n].events, ToSet(SplitNames))

\* boundary_timestamp, as an offset into the split.
BoundaryOffset(duration, basisPoints) == (duration * basisPoints) \div 10000

--------------------------------------------------------------------------------
(* The contract of each profile.                                              *)

Shape(days, events, campaigns) == [days |-> days, events |-> events, campaigns |-> campaigns]

LockedProfiles == {"development", "policy-validation", "adversarial-stress"}

LockedShapes == [profile \in LockedProfiles |->
    CASE profile = "development" ->
           [train |-> Shape(20, 66000, 8), calibration |-> Shape(5, 17000, 10), test |-> Shape(5, 17000, 3)]
      [] profile = "policy-validation" ->
           [train |-> Shape(5, 5000, 5), calibration |-> Shape(3, 2000, 4), test |-> Shape(3, 2000, 2)]
      [] profile = "adversarial-stress" ->
           [train |-> Shape(2, 2000, 2), calibration |-> Shape(2, 1000, 4), test |-> Shape(4, 6000, 20)]]

Placement(basisPoints, before, after, gap, attempts) ==
    [basisPoints |-> basisPoints, before |-> before, after |-> after, gap |-> gap, attempts |-> attempts]

LockedPlacements == [profile \in LockedProfiles |->
    CASE profile = "development" -> Placement(6000, 5, 5, 30, 4096)
      [] profile \in {"policy-validation", "adversarial-stress"} -> Placement(5000, 2, 2, 30, 4096)]

LockedShift == [multiplier |-> 2, networkRatio |-> 5000, presence |-> 9000]

LockedContract(c) ==
    /\ \A n \in ToSet(SplitNames) :
         LET s == c.splits[n] IN Shape(s.days, s.events, s.campaigns) = LockedShapes[c.profile][n]
    /\ c.splits["calibration"].placement = LockedPlacements[c.profile]
    /\ c.profile = "development" => c.shift = LockedShift
    /\ c.profile = "policy-validation" => c.start = "2026-03-01"
    /\ c.profile = "adversarial-stress" =>
         /\ c.start = "2026-06-01"
         /\ {n \in ToSet(SplitNames) : c.splits[n].evasion # None} = {"test"}

SmokeContract(c) ==
    LET attacks(n) == ScenarioCount(c.splits[n], "attack")
    IN  /\ TotalEvents(c) <= 3000
        /\ MapThenSumSet(attacks, ToSet(SplitNames)) <= 60
        /\ MapThenSumSet(LAMBDA n : c.splits[n].days, ToSet(SplitNames)) <= 6
        /\ \A n \in ToSet(SplitNames) :
             LET s == c.splits[n]
             IN  /\ s.events <= 1400 /\ attacks(n) <= 28 /\ s.days <= 4 /\ s.campaigns <= 10
                 /\ s.placement # None =>
                      s.placement.before <= 5 /\ s.placement.after <= 5 /\ s.placement.attempts <= 4096

\* The supported versions and profiles. Schema 1.2.0 exists for the evasion shapes
\* of the adversarial profile alone.
ProfileContract(c) ==
    LET placed  == {n \in ToSet(SplitNames) : c.splits[n].placement # None}
        carries == \E n \in ToSet(SplitNames) : c.splits[n].evasion # None
    IN  /\ carries => c.version = "1.2.0" /\ c.profile = "adversarial-stress"
        /\ c.version = "1.2.0" <=> c.profile = "adversarial-stress"
        /\ IF c.version = "1.0.0"
           THEN placed = {} /\ c.profile \in {"development", "smoke"}
           ELSE /\ placed = {"calibration"}
                /\ IF c.profile = "smoke" THEN SmokeContract(c) ELSE LockedContract(c)

--------------------------------------------------------------------------------
(* Validation of one configuration.                                           *)

LongestCampaign == 90 * MinuteUnits

\* Both sides of the boundary hold their campaigns at the greatest length.
PlacementFits(split) ==
    LET p      == split.placement
        offset == BoundaryOffset(split.days * Day, p.basisPoints)
        Needs(n) == n * LongestCampaign + (n - 1) * p.gap
    IN  /\ p.before + p.after = split.campaigns
        /\ ScenarioCount(split, "attack") % split.campaigns = 0
        /\ Needs(p.before) <= offset /\ Needs(p.after) <= split.days * Day - offset

\* Each variant needs its own parameter and forbids the others.
EvasionValid(e) ==
    \/ e.variant = "slow_and_low" /\ e.parameter \in 91 .. 10080
    \/ e.variant = "window_edge" /\ e.parameter \in {60, 300, 3600}
    \/ e.variant = "distributed_thin" /\ e.parameter \in 2 .. 512
    \/ e.variant = "failure_camouflage" /\ e.parameter \in 0 .. 10000

ValidConfig(c) ==
    /\ ProfileContract(c)
    /\ c.retry.fewest <= c.retry.most
    /\ c.retry.minGap <= c.retry.maxGap
    /\ \A n \in ToSet(SplitNames) :
         LET s == c.splits[n]
         IN  /\ \A k \in DOMAIN Weights : (s.events * Weights[k]) % 10000 = 0
             /\ ScenarioCount(s, "attack") >= 2 * s.campaigns
             /\ s.placement # None => PlacementFits(s)
             /\ s.evasion # None => EvasionValid(s.evasion)
             /\ LET retries == ScenarioCount(s, "legitimate_retry")
                IN  retries = 0 \/ retries >= c.retry.fewest
    /\ c.missing.network <= 10000 - c.shift.presence

--------------------------------------------------------------------------------
(* The namespace.                                                             *)

\* Mutant: the evasion shape is left out of every canonical configuration.
EffectiveConfigurationWithoutEvasion(c) ==
    [c EXCEPT !.splits = [n \in DOMAIN c.splits |-> [c.splits[n] EXCEPT !.evasion = None]]]

\* The canonical configuration has a field only when its schema version knows it.
EffectiveSplit(version, split) ==
    [split EXCEPT !.evasion = IF version = "1.2.0" THEN @ ELSE None,
                  !.placement = IF version = "1.0.0" THEN None ELSE @]

EffectiveConfiguration(c) ==
    [c EXCEPT !.splits = [n \in DOMAIN c.splits |-> EffectiveSplit(c.version, c.splits[n])]]

\* What every identifier and random stream is derived from, beside the seed.
\* Schema 1.2.0 keeps the algorithm of 1.1.0; 1.0.0 does not bind the configuration.
Namespace(c) ==
    IF c.version = "1.0.0" THEN <<"1.0.0", None>> ELSE <<"1.1.0", EffectiveConfiguration(c)>>
================================================================================
