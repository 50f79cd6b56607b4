-------------------------- MODULE SimulationGenerator --------------------------
(******************************************************************************)
(* simulation/generation.py: the records of a dataset, scenario by scenario   *)
(* and split by split, and what simulation/validation.py and the trainer      *)
(* (modeling/data.py) then demand of them. Every random draw is a choice.     *)
(* Records of one scenario are drawn alike, so a step draws one retry chain,  *)
(* one window or one campaign of it and stands for all of them.               *)
(******************************************************************************)
EXTENDS SimulationConfig

CONSTANTS
    Configs,    \* configurations, accepted ones and others
    DrawPoints, \* the draws explored of randrange, with its greatest value
    Lengths,    \* the draws explored of a window's length
    MaxQuota    \* the retry events whose cutting into chains is followed step by step

ASSUME ConfigsAssumption ==
    /\ Configs \subseteq GeneratorConfigs
    /\ None # "retry_quota_cannot_form_valid_chains"

ASSUME DrawAssumption ==
    /\ DrawPoints \subseteq Nat /\ Lengths \subseteq 180 .. 540
    /\ MaxQuota \in 8 .. 100

VARIABLES
    config,    \* the configuration
    stage,     \* [split, scenario] being generated; the split is done once it reads None
    remaining, \* retry events that are in no chain yet
    sizes,     \* sizes of the chains, the last one apart
    last,      \* size of the last chain, 0 before the first
    windows,   \* campaign windows accepted so far, with their side of the boundary
    records,   \* the records drawn last
    failed     \* the error generation has raised

vars == <<config, stage, remaining, sizes, last, windows, records, failed>>

\* The scenarios in the order generate() draws them.
Scenarios ==
    <<"normal", "legitimate_retry", "flash_sale", "shared_infrastructure", "legitimate_failure", "attack">>

Split == config.splits[stage.split]

Count == ScenarioCount(Split, stage.scenario)

SplitIndex(name) == CHOOSE k \in 1 .. 3 : SplitNames[k] = name

SplitStart(name) ==
    Day * CASE name = "train"       -> 0
            [] name = "calibration" -> config.splits["train"].days
            [] name = "test"        -> config.splits["train"].days + config.splits["calibration"].days

SplitEnd(name) == SplitStart(name) + Day * config.splits[name].days

Draw(n) == {k \in DrawPoints : k < n} \cup {n - 1}

\* _time: an instant that leaves `margin` to the end of the split.
TimeIn(margin) ==
    LET duration == SplitEnd(stage.split) - SplitStart(stage.split) - margin
    IN  {SplitStart(stage.split) + k : k \in IF duration > 0 THEN Draw(duration) ELSE {}}

\* Entity tokens do not matter here; a record is its label and its time.
Record(at) == [at |-> at, split |-> stage.split, scenario |-> stage.scenario]

\* What a quota may have left once its first chains are cut. Those are drawn from
\* the bounds as long as more than MaxQuota events are left.
AfterHead(quota) ==
    IF quota <= MaxQuota THEN {quota}
    ELSE {left \in MaxQuota - config.retry.most + 1 .. MaxQuota :
            \E chains \in 1 .. quota :
               chains * config.retry.fewest <= quota - left /\ quota - left <= chains * config.retry.most}

\* The stage after this one, with the retry events it has to split into chains.
Enter(next) ==
    /\ stage' = next
    /\ remaining' \in IF next.scenario = "legitimate_retry"
                      THEN AfterHead(ScenarioCount(config.splits[next.split], "legitimate_retry")) ELSE {0}

Advance ==
    LET k == CHOOSE i \in 1 .. 6 : Scenarios[i] = stage.scenario
        s == SplitIndex(stage.split)
    IN  /\ IF k < 6 THEN Enter([stage EXCEPT !.scenario = Scenarios[k + 1]])
           ELSE IF s < 3 THEN Enter([split |-> SplitNames[s + 1], scenario |-> "normal"])
           ELSE Enter([split |-> "test", scenario |-> "done"])
        /\ sizes' = {} /\ last' = 0 /\ windows' = {}
        /\ UNCHANGED <<config, failed>>

Fail(error) ==
    /\ failed' = error /\ records' = {}
    /\ UNCHANGED <<config, stage, remaining, sizes, last, windows>>

Init ==
    /\ config \in {c \in Configs : ValidConfig(c)}
    /\ stage = [split |-> "train", scenario |-> "normal"]
    /\ remaining = 0 /\ sizes = {} /\ last = 0
    /\ windows = {} /\ records = {} /\ failed = None

--------------------------------------------------------------------------------
(* Legitimate traffic.                                                        *)

\* Normal and failed checkouts and shared infrastructure: any time in the split.
Scatter ==
    /\ stage.scenario \in {"normal", "shared_infrastructure", "legitimate_failure"}
    /\ \E at \in TimeIn(0) : records' = {Record(at)}
    /\ Advance

\* One of the windows of a flash sale, with its first and last instants.
FlashSale ==
    /\ stage.scenario = "flash_sale"
    /\ \E length \in Lengths : \E start \in TimeIn(length + 1) :
         records' = {Record(start + k) : k \in Draw(length)}
    /\ Advance

\* Mutant: a cut leaves too little for the last chain.
CutSizeGreedy(drawn, left) == drawn

\* The cut before the last chain leaves enough for it.
CutSize(drawn, left) ==
    IF left > 0 /\ left < config.retry.fewest THEN drawn - (config.retry.fewest - left) ELSE drawn

\* _retry_group_sizes: the quota is cut into chains, the last one taking what is left.
CutChain ==
    /\ stage.scenario = "legitimate_retry" /\ remaining > 0
    /\ \/ /\ remaining <= config.retry.most
          /\ remaining' = 0
          /\ IF remaining < config.retry.fewest
             THEN last' = last + remaining /\ UNCHANGED sizes
             ELSE last' = remaining /\ sizes' = sizes \cup ({last} \ {0})
       \/ /\ remaining > config.retry.most
          /\ \E drawn \in config.retry.fewest .. config.retry.most :
               last' = CutSize(drawn, remaining - drawn)
          /\ sizes' = sizes \cup ({last} \ {0})
          /\ remaining' = remaining - last'
    /\ UNCHANGED <<config, stage, windows, records, failed>>

ChainSizes == sizes \cup {last}

ChainMargin(size) == config.retry.maxGap * (size - 1) + 1

\* One of the chains.
Retries ==
    /\ stage.scenario = "legitimate_retry" /\ remaining = 0
    /\ ChainSizes \subseteq config.retry.fewest .. config.retry.most
    /\ \E size \in ChainSizes, gap \in {config.retry.minGap, config.retry.maxGap} :
         \E start \in TimeIn(ChainMargin(size)) :
           records' = {Record(start + gap * k) : k \in 0 .. size - 1}
    /\ Advance

ChainsInvalid ==
    /\ stage.scenario = "legitimate_retry" /\ remaining = 0
    /\ ~(ChainSizes \subseteq config.retry.fewest .. config.retry.most)
    /\ Fail("retry_quota_cannot_form_valid_chains")

--------------------------------------------------------------------------------
(* Campaigns.                                                                 *)

\* _split_into_groups.
GroupSize(total, groups, index) ==
    (total \div groups) + (IF index < total % groups THEN 1 ELSE 0)

Boundary == SplitStart(stage.split) + BoundaryOffset(Split.days * Day, Split.placement.basisPoints)

EndOf(w) == w.start + w.length

Apart(v, w) == EndOf(v) + Split.placement.gap <= w.start \/ EndOf(w) + Split.placement.gap <= v.start

Side(side) == {w \in windows : w.side = side}

Places(side) == IF side = "before" THEN Split.placement.before ELSE Split.placement.after

\* Mutant: a campaign before the boundary only has to start before it.
EarliestAndLatestLoose(side, length) ==
    IF side = "before" THEN <<SplitStart(stage.split), Boundary - 1>>
    ELSE <<Boundary, SplitEnd(stage.split) - length>>

EarliestAndLatest(side, length) ==
    IF side = "before" THEN <<SplitStart(stage.split), Boundary - length>>
    ELSE <<Boundary, SplitEnd(stage.split) - length>>

Placing ==
    /\ stage.scenario = "attack" /\ Split.placement # None
    /\ Cardinality(windows) < Split.campaigns

\* The candidates a campaign may be given. Campaigns are assigned to the two sides
\* in shuffled order.
Candidates ==
    UNION {LET bounds == EarliestAndLatest(side, length)
           IN  {[start |-> bounds[1] + k, length |-> length, side |-> side] :
                   k \in Draw(bounds[2] - bounds[1] + 1)} :
           side \in {s \in {"before", "after"} : Cardinality(Side(s)) < Places(s)}, length \in Lengths}

PlaceCampaign ==
    /\ Placing
    /\ \E w \in Candidates :
         /\ \A v \in windows : Apart(v, w)
         /\ windows' = windows \cup {w}
    /\ UNCHANGED <<config, stage, remaining, sizes, last, records, failed>>

\* All sampling attempts of a campaign fell on candidates too close to another one.
PlacementInfeasible ==
    /\ Placing
    /\ \E w \in Candidates : \E v \in windows : ~Apart(v, w)
    /\ Fail("campaign_placement_infeasible")

\* The gaps between intervals, given as pairs: from each to the next one.
GapsBetween(intervals) ==
    {p[2][1] - p[1][2] : p \in {q \in intervals \X intervals :
        q[1][1] < q[2][1] /\ ~\E x \in intervals : q[1][1] < x[1] /\ x[1] < q[2][1]}}

Regular(intervals) == Cardinality(intervals) > 2 /\ Cardinality(GapsBetween(intervals)) = 1

Placed == stage.scenario = "attack" /\ Split.placement # None /\ Cardinality(windows) = Split.campaigns

PlacementRegular ==
    /\ Placed /\ Regular({<<w.start, EndOf(w)>> : w \in windows})
    /\ Fail("campaign_placement_must_be_irregular")

\* Mutant: the start is not pulled back for a campaign that needs more room.
StretchedWithoutPull(w, size) ==
    [start |-> w.start,
     length |-> IF Split.evasion.variant = "slow_and_low" THEN Split.evasion.parameter * MinuteUnits ELSE w.length]

\* An evading campaign may need more room than its window has: it is then pulled
\* back from the end of the split, and cut if the split is too short for it.
Stretched(w, size) ==
    LET e == Split.evasion
        length   == IF e.variant = "slow_and_low" THEN e.parameter * MinuteUnits ELSE w.length
        required == IF e.variant = "window_edge"
                    THEN Max({0, size - 1}) * (e.parameter \div 10) ELSE length
        latest   == SplitEnd(stage.split) - (required + 1)
        start    == IF w.start > latest THEN Max({SplitStart(stage.split), latest}) ELSE w.start
        room     == SplitEnd(stage.split) - start - 1
    IN  [start |-> start, length |-> Max({1, Min({length, room})})]

\* The events of one campaign: first and last instants of its window, or, at the
\* edge of a feature window, exactly one window apart.
CampaignRecords(w, size) ==
    LET shaped == IF Split.evasion = None THEN w ELSE Stretched(w, size)
        offsets == IF Split.evasion # None /\ Split.evasion.variant = "window_edge"
                   THEN {k * (Split.evasion.parameter \div 10) : k \in 0 .. size - 1}
                   ELSE Draw(shaped.length)
    IN  {Record(shaped.start + k) : k \in offsets}

FreeWindows ==
    UNION {{[start |-> start, length |-> length] : start \in TimeIn(length + 1)} : length \in Lengths}

Campaigns ==
    /\ stage.scenario = "attack"
    /\ Split.placement # None => Placed /\ ~Regular({<<w.start, EndOf(w)>> : w \in windows})
    /\ \E w \in IF Split.placement = None THEN FreeWindows ELSE windows :
       \E index \in {0, Split.campaigns - 1} :
         records' = CampaignRecords(w, GroupSize(Count, Split.campaigns, index))
    /\ Advance

Next ==
    /\ stage.scenario # "done" /\ failed = None
    /\ \/ Scatter \/ FlashSale
       \/ CutChain \/ Retries \/ ChainsInvalid
       \/ PlaceCampaign \/ PlacementInfeasible \/ PlacementRegular \/ Campaigns

Spec == Init /\ [][Next]_vars

--------------------------------------------------------------------------------
(* The entities of campaigns, counted.                                        *)

Attacks(name) == ScenarioCount(config.splits[name], "attack")

\* The campaigns of a split, and the events of each.
CampaignsOf(name) == 0 .. config.splits[name].campaigns - 1

SizeOf(name, k) == GroupSize(Attacks(name), config.splits[name].campaigns, k)

Total(f) == MapThenSumSet(LAMBDA k : f[k], DOMAIN f)

Thin(name) == LET e == config.splits[name].evasion IN e # None /\ e.variant = "distributed_thin"

\* Mutant: campaigns of the test split only double their devices.
DeviceCountDoubled(name, size) ==
    LET baseline == Max({1, (size + 11) \div 12})
    IN  IF Thin(name) THEN size ELSE IF name = "test" THEN Min({size, baseline * 2}) ELSE baseline

DeviceCount(name, size) ==
    LET baseline == Max({1, (size + 11) \div 12})
    IN  IF Thin(name) THEN size ELSE IF name = "test" THEN Min({size, baseline * 4}) ELSE baseline

NetworkCount(name, size) == IF Thin(name) THEN Min({size, config.splits[name].evasion.parameter}) ELSE 1

SessionCount(name, size) == IF name = "test" THEN size ELSE DeviceCount(name, size)

\* Events of a campaign without the token; each may take one entity with it.
MissingCount(rate, size) == (size * rate + 5000) \div 10000

\* The rates of missing tokens, which no profile locks and every shipped one leaves alone.
ShippedRates == [device |-> 300, network |-> 200]

--------------------------------------------------------------------------------
(* What validation and the trainer demand.                                    *)

Rotates(name, fewestInTest, mostInBaseline) ==
    fewestInTest * Attacks(name) >= config.shift.multiplier * mostInBaseline * Attacks("test")

\* The test split rotates its entities, with the fewest that missing tokens leave.
ShiftHolds ==
    LET devices(n)  == Total([k \in CampaignsOf(n) |-> DeviceCount(n, SizeOf(n, k))])
        sessions(n) == Total([k \in CampaignsOf(n) |-> SessionCount(n, SizeOf(n, k))])
        missing     == Total([k \in CampaignsOf("test") |->
                                MissingCount(config.missing.device, SizeOf("test", k))])
    IN  \A n \in {"train", "calibration"} :
          Rotates(n, devices("test") - missing, devices(n)) /\ Rotates(n, sessions("test"), sessions(n))

NetworksHold ==
    \A n \in ToSet(SplitNames) :
      LET networks == Total([k \in CampaignsOf(n) |-> NetworkCount(n, SizeOf(n, k))])
          missing  == Total([k \in CampaignsOf(n) |-> MissingCount(config.missing.network, SizeOf(n, k))])
      IN  /\ networks * 10000 <= config.shift.networkRatio * Attacks(n)
          /\ (Attacks(n) - missing) * 10000 >= config.shift.presence * Attacks(n)

\* _validate_campaign_placement, on the first and last events of the campaigns.
PlacementErrors(envelopes) ==
    LET before == {e \in envelopes : e[2] < Boundary}
        after  == {e \in envelopes : e[1] >= Boundary}
    IN  (IF envelopes = before \cup after THEN {} ELSE {"campaign_crosses_protected_boundary"})
        \cup (IF Cardinality(before) >= Split.placement.before THEN {} ELSE {"campaigns_before_boundary_missing"})
        \cup (IF Cardinality(after) >= Split.placement.after THEN {} ELSE {"campaigns_after_boundary_missing"})
        \cup (IF \A g \in GapsBetween(envelopes) : g >= Split.placement.gap
              THEN {} ELSE {"campaign_placement_gap_invalid"})
        \cup (IF Regular(envelopes) THEN {"campaign_placement_not_irregular"} ELSE {})

\* _validate_campaign_partition of the trainer, which cuts the calibration split at
\* its own literal boundary and expects ten campaigns of 34 events.
TrainerAccepts(envelopes) ==
    LET cut    == SplitStart("calibration") + BoundaryOffset(Day * config.splits["calibration"].days, 6000)
        fit    == {e \in envelopes : e[2] < cut}
        select == {e \in envelopes : e[1] >= cut}
    IN  /\ envelopes = fit \cup select
        /\ Cardinality(fit) = 5 /\ Cardinality(select) = 5
        /\ \A k \in 0 .. 9 : GroupSize(Attacks("calibration"), 10, k) = 34

--------------------------------------------------------------------------------
(* Properties.                                                                *)

\* No event leaves the split it is labelled with, whatever is drawn: the margins of
\* windows and retry chains suffice, and an evading campaign, which is stretched
\* after its window was placed, is pulled back far enough (generation.py:712-731;
\* validation.py:194-201 rejects the dataset otherwise).
EventsKeepToTheirSplit ==
    \A r \in records : SplitStart(r.split) <= r.at /\ r.at < SplitEnd(r.split)

\* However the campaigns are shuffled, timed and rejected, a placement that is
\* accepted satisfies the validator wherever in the windows the events fall, except
\* that events may by chance be evenly spaced where windows are not; and the
\* development profile satisfies the trainer, which computes the boundary from a
\* setting of its own (generation.py:186-264, validation.py:130-177, data.py:289-307).
CampaignsKeepToTheirSide ==
    Placed =>
      LET whole == {<<w.start, EndOf(w) - 1>> : w \in windows}
          heads == {<<w.start, w.start>> : w \in windows}
          tails == {<<EndOf(w) - 1, EndOf(w) - 1>> : w \in windows}
      IN  /\ \A envelopes \in {whole, heads, tails} :
                /\ PlacementErrors(envelopes) \subseteq {"campaign_placement_not_irregular"}
                /\ config.profile = "development" => TrainerAccepts(envelopes)
          /\ PlacementErrors(whole) = {} <=> ~Regular({<<w.start, EndOf(w)>> : w \in windows})

\* Retry chains have two to four attempts with gaps within the bounds, as the
\* validator wants them, and with the default bounds the cutting of a quota into
\* chains never fails, whatever sizes are drawn (generation.py:72-89,
\* validation.py:223-257).
ChainsValidate ==
    /\ failed = "retry_quota_cannot_form_valid_chains" => config.retry.fewest > 2
    /\ LET chain == {r.at : r \in {x \in records : x.scenario = "legitimate_retry"}}
       IN  chain # {} =>
             /\ Cardinality(chain) \in 2 .. 4
             /\ \A g \in GapsBetween({<<at, at>> : at \in chain}) :
                   g \in config.retry.minGap .. config.retry.maxGap

\* A locked profile with the shift settings and the rates that are shipped.
AsShipped ==
    /\ config.version # "1.0.0" /\ config.profile # "smoke"
    /\ config.shift = LockedShift /\ config.missing = ShippedRates

\* The locked profiles have shapes whose campaigns pass the distribution checks of
\* the validator for every seed: quotas are met exactly, the test split rotates
\* devices and sessions twice as fast at the shipped rates of missing tokens, and networks are
\* neither too sparse nor too rare, unless the events are spread over more than half
\* as many networks as a campaign has events (generation.py:674-756,
\* validation.py:302-349).
LockedShapesValidate ==
    /\ \A n \in ToSet(SplitNames) : Total([k \in CampaignsOf(n) |-> SizeOf(n, k)]) = Attacks(n)
    /\ AsShipped =>
         /\ ShiftHolds
         /\ NetworksHold <=> (Thin("test") => config.splits["test"].evasion.parameter <= 3)

\* Evasion shapes reach no dataset but their own: two accepted configurations that
\* derive their identifiers and draws alike are the same, except under schema 1.0.0,
\* and there neither carries a shape. And a campaign at the edge of a feature window
\* never has two events in one window (now - window, now] (config.py:720-758,
\* generation.py:736-746, features/state.py:44-51).
EvasionIsConfined ==
    /\ \A c \in Configs : ValidConfig(c) /\ Namespace(c) = Namespace(config) =>
          IF c.version = "1.0.0" THEN \A n \in ToSet(SplitNames) : c.splits[n].evasion = None
          ELSE c = config
    /\ \A r, x \in records :
          LET e == config.splits[r.split].evasion
          IN  (r.scenario = "attack" /\ e # None /\ e.variant = "window_edge" /\ r # x) =>
                ~(r.at - (e.parameter \div 10) < x.at /\ x.at <= r.at)
================================================================================
