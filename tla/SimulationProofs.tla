---------------------------- MODULE SimulationProofs ----------------------------
(******************************************************************************)
(* Theorems about the generator of datasets, for every configuration that is  *)
(* accepted and every draw.                                                   *)
(******************************************************************************)
EXTENDS SimulationInvariant, TLAPS, FiniteSetTheorems, SequenceTheorems, WellFoundedInduction

--------------------------------------------------------------------------------
(* Configurations.                                                            *)

\* The splits and the scenarios, written as sets.
LEMMA TheNames ==
    /\ ToSet(SplitNames) = Names
    /\ ToSet(Scenarios) = {"normal", "legitimate_retry", "flash_sale", "shared_infrastructure",
                           "legitimate_failure", "attack"}
BY DEF SplitNames, Scenarios, Names, ToSet

\* The ranges of the numbers in a configuration of a split.
LEMMA PlacementTypes ==
    ASSUME NEW p \in Placements
    PROVE  /\ p.basisPoints \in Nat /\ p.gap \in Nat
           /\ p.before \in Nat /\ p.before >= 2 /\ p.after \in Nat /\ p.after >= 2
BY DEF Placements

\* The parameter of an evasion shape is a number.
LEMMA EvasionTypes == ASSUME NEW e \in EvasionShapes PROVE e.parameter \in Nat
BY DEF EvasionShapes

\* The quotas are percentages of the events without a remainder.
LEMMA EventTypes == ASSUME NEW n \in EventCounts PROVE n \in Nat /\ n >= 100 /\ n % 100 = 0
BY DEF EventCounts

\* The ranges of the numbers in one split.
LEMMA SplitTypes ==
    ASSUME NEW s \in SplitConfigs
    PROVE  /\ s.days \in 1 .. 365 /\ s.campaigns \in Nat \ {0} /\ s.events \in EventCounts
           /\ s.placement # None => s.placement \in Placements
           /\ s.evasion # None => s.evasion \in EvasionShapes
BY DEF SplitConfigs

\* The ranges of the numbers in an accepted configuration.
LEMMA ConfigTypes ==
    ASSUME NEW c \in Configs, ValidConfig(c)
    PROVE  /\ c \in GeneratorConfigs
           /\ \A n \in Names : c.splits[n] \in SplitConfigs
           /\ c.retry.fewest \in 2 .. 4 /\ c.retry.most \in 2 .. 4
           /\ c.retry.fewest <= c.retry.most
           /\ c.retry.minGap \in 1 .. 60 /\ c.retry.maxGap \in 1 .. 60
           /\ c.retry.minGap <= c.retry.maxGap
<1>1. c \in GeneratorConfigs
  BY SMTT(30), ConfigsAssumption
<1>2. c.splits \in [Names -> SplitConfigs]
  BY SMTT(30), <1>1 DEF GeneratorConfigs, Names
<1>3. c.retry \in [fewest : 2 .. 4, most : 2 .. 4, minGap : 1 .. 60, maxGap : 1 .. 60]
  BY <1>1 DEF GeneratorConfigs
<1>4. c.retry.fewest <= c.retry.most /\ c.retry.minGap <= c.retry.maxGap
  BY DEF ValidConfig
<1>5. \A n \in Names : c.splits[n] \in SplitConfigs
  BY <1>2
<1>6. /\ c.retry.fewest \in 2 .. 4 /\ c.retry.most \in 2 .. 4
      /\ c.retry.minGap \in 1 .. 60 /\ c.retry.maxGap \in 1 .. 60
  BY <1>3
<1> QED
  BY <1>1, <1>4, <1>5, <1>6

\* Days are long: a boundary or a margin is less than one of them.
LEMMA DaysTimes ==
    ASSUME NEW d \in Nat
    PROVE  Day * d \in Nat /\ (d >= 1 => Day * d >= 8640)
BY DEF Day

\* The splits follow one another.
LEMMA SplitTimes ==
    ASSUME Stage, NEW n \in Names
    PROVE  /\ SplitStart(n) \in Nat /\ SplitEnd(n) \in Nat
           /\ SplitEnd(n) = SplitStart(n) + Day * config.splits[n].days
           /\ SplitEnd(n) - SplitStart(n) >= 8640
<1> DEFINE days(m) == config.splits[m].days
<1>1. \A m \in Names : days(m) \in 1 .. 365
  <2> TAKE m \in Names
  <2>1. config.splits[m] \in SplitConfigs
    BY ConfigTypes DEF Stage
  <2> QED
    BY <2>1, SplitTypes
<1>2. SplitEnd(n) = SplitStart(n) + Day * days(n)
  BY DEF SplitEnd
<1>3. SplitStart(n) = Day * (CASE n = "train" -> 0 [] n = "calibration" -> days("train")
                               [] n = "test" -> days("train") + days("calibration"))
  BY DEF SplitStart
<1> HIDE DEF days
<1>4. days("train") \in Nat /\ days("calibration") \in Nat /\ days(n) \in Nat /\ days(n) >= 1
  BY <1>1 DEF Names
<1>5. PICK d \in Nat : SplitStart(n) = Day * d
  <2>1. CASE n = "train"
    BY <1>3, <2>1
  <2>2. CASE n = "calibration"
    BY <1>3, <1>4, <2>2
  <2>3. CASE n = "test"
    BY <1>3, <1>4, <2>3
  <2> QED
    BY <2>1, <2>2, <2>3 DEF Names
<1>6. /\ SplitStart(n) \in Nat /\ Day * days(n) \in Nat /\ Day * days(n) >= 8640
  BY <1>4, <1>5, DaysTimes
<1> DEFINE total == Day * days(n)
<1> HIDE DEF total
<1>7. SplitEnd(n) = SplitStart(n) + total /\ total \in Nat /\ total >= 8640
  BY <1>2, <1>6 DEF total
<1> QED
  BY <1>2, <1>6, <1>7 DEF days

\* A split has at least eight retry events, and always a multiple of eight.
LEMMA RetryQuota ==
    ASSUME NEW c \in Configs, ValidConfig(c), NEW n \in Names
    PROVE  \E m \in Nat \ {0} : ScenarioCount(c.splits[n], "legitimate_retry") = 8 * m
<1>1. /\ c.splits[n].events \in Nat /\ c.splits[n].events >= 100 /\ c.splits[n].events % 100 = 0
  <2>1. c.splits[n] \in SplitConfigs
    BY ConfigTypes
  <2>2. c.splits[n].events \in EventCounts
    BY <2>1, SplitTypes
  <2> QED
    BY <2>2, EventTypes
<1>2. ScenarioCount(c.splits[n], "legitimate_retry") = (c.splits[n].events * 800) \div 10000
  BY DEF ScenarioCount, Weights
<1>3. PICK m \in Nat \ {0} : c.splits[n].events = 100 * m
  <2>1. /\ c.splits[n].events \div 100 \in Nat \ {0}
        /\ c.splits[n].events = 100 * (c.splits[n].events \div 100)
    BY <1>1
  <2> QED
    BY <2>1
<1>4. (100 * m) * 800 = 10000 * (8 * m) /\ (10000 * (8 * m)) \div 10000 = 8 * m
  OBVIOUS
<1> QED
  BY <1>2, <1>3, <1>4

--------------------------------------------------------------------------------
(* Draws.                                                                     *)

\* randrange.
LEMMA DrawRange ==
    ASSUME NEW n \in Nat \ {0}, NEW k \in Draw(n)
    PROVE  k \in 0 .. n - 1
BY DrawAssumption DEF Draw

\* The lengths of windows.
LEMMA LengthRange == ASSUME NEW length \in Lengths PROVE length \in Nat \ {0}
BY DrawAssumption

\* What starts at a time that was drawn with a margin ends within the split.
LEMMA TimeRange ==
    ASSUME Stage, NEW margin \in Nat, NEW at \in TimeIn(margin)
    PROVE  at \in Nat /\ SplitStart(stage.split) <= at /\ at + margin < SplitEnd(stage.split)
<1>1. /\ SplitStart(stage.split) \in Nat /\ SplitEnd(stage.split) \in Nat
  BY SplitTimes DEF Stage
<1> DEFINE duration == SplitEnd(stage.split) - SplitStart(stage.split) - margin
<1>2. PICK k \in IF duration > 0 THEN Draw(duration) ELSE {} : at = SplitStart(stage.split) + k
  BY DEF TimeIn
<1>3. duration \in Nat \ {0} /\ k \in Draw(duration)
  BY <1>1, <1>2
<1>4. k \in 0 .. duration - 1
  BY <1>3, DrawRange
<1> QED
  BY <1>1, <1>2, <1>4

\* The greater and the lesser of two numbers.
LEMMA MaxOfTwo ==
    ASSUME NEW a \in Int, NEW b \in Int
    PROVE  Max({a, b}) = (IF a >= b THEN a ELSE b) /\ Min({a, b}) = (IF a <= b THEN a ELSE b)
BY DEF Max, Min

--------------------------------------------------------------------------------
(* Stages.                                                                    *)

\* What is left to be cut into chains is enough for two chains, or the whole quota.
LEMMA HeadLeaves ==
    ASSUME Stage, NEW n \in Names,
           NEW left \in AfterHead(ScenarioCount(config.splits[n], "legitimate_retry"))
    PROVE  left \in Nat /\ left >= 5 /\ (config.retry.most = 2 => left % 2 = 0)
<1>1. PICK m \in Nat \ {0} : ScenarioCount(config.splits[n], "legitimate_retry") = 8 * m
  BY RetryQuota DEF Stage
<1>2. /\ config.retry.fewest \in 2 .. 4 /\ config.retry.most \in 2 .. 4
      /\ config.retry.fewest <= config.retry.most
  BY ConfigTypes DEF Stage
<1>3. MaxQuota \in Nat /\ MaxQuota >= 8
  BY DrawAssumption
<1>4. CASE 8 * m <= MaxQuota
  <2>1. left = 8 * m
    BY <1>1, <1>4 DEF AfterHead
  <2> QED
    BY <2>1
<1>5. CASE ~(8 * m <= MaxQuota)
  <2>1. /\ left \in MaxQuota - config.retry.most + 1 .. MaxQuota
        /\ \E chains \in 1 .. 8 * m :
             /\ chains * config.retry.fewest <= 8 * m - left
             /\ 8 * m - left <= chains * config.retry.most
    BY <1>1, <1>5 DEF AfterHead
  <2>2. left \in Nat /\ left >= 5
    BY <1>2, <1>3, <2>1
  <2>3. ASSUME config.retry.most = 2 PROVE left % 2 = 0
    <3>1. config.retry.fewest = 2
      BY <1>2, <2>3
    <3>2. PICK chains \in 1 .. 8 * m : chains * 2 <= 8 * m - left /\ 8 * m - left <= chains * 2
      BY <2>1, <2>3, <3>1
    <3>3. left = 2 * (4 * m - chains) /\ 4 * m - chains \in Int
      BY <2>2, <3>2
    <3> QED
      BY <3>3
  <2> QED
    BY <2>2, <2>3
<1> QED
  BY <1>4, <1>5

\* A stage leads to a stage, and nothing of the last one is left.
LEMMA AdvanceStep ==
    ASSUME Stage, stage.scenario # "done", Advance
    PROVE  Stage' /\ Windows' /\ Spacing' /\ Chains' /\ config' = config /\ failed' = failed
<1> DEFINE k == CHOOSE i \in 1 .. 6 : Scenarios[i] = stage.scenario
           s == SplitIndex(stage.split)
           Entered(next) == stage' = next /\ Enter(next)
<1>1. stage.split \in Names /\ stage.scenario \in ToSet(Scenarios)
  BY DEF Stage
<1>2. k \in 1 .. 6
  <2>1. \E i \in 1 .. 6 : Scenarios[i] = stage.scenario
    BY <1>1 DEF Scenarios, ToSet
  <2> QED
    BY <2>1
<1>3. s \in 1 .. 3
  <2>1. \E i \in 1 .. 3 : SplitNames[i] = stage.split
    BY <1>1 DEF SplitNames, Names
  <2> QED
    BY <2>1 DEF SplitIndex
<1>4. /\ config' = config /\ failed' = failed /\ windows' = {} /\ sizes' = {} /\ last' = 0
  BY DEF Advance
<1>5. PICK next \in [split : Names, scenario : ToSet(Scenarios) \cup {"done"}] : Enter(next)
  <2>1. CASE k < 6
    <3>1. Enter([stage EXCEPT !.scenario = Scenarios[k + 1]])
      BY <2>1 DEF Advance
    <3>2. Scenarios[k + 1] \in ToSet(Scenarios)
      <4>1. \A i \in 1 .. 5 : Scenarios[i + 1] \in ToSet(Scenarios)
        BY TheNames DEF Scenarios
      <4>2. k \in 1 .. 5
        BY <1>2, <2>1
      <4> QED
        BY <4>1, <4>2
    <3> QED
      BY <1>1, <3>1, <3>2 DEF Stage
  <2>2. CASE ~(k < 6) /\ s < 3
    <3>1. Enter([split |-> SplitNames[s + 1], scenario |-> "normal"])
      BY <2>2 DEF Advance
    <3>2. SplitNames[s + 1] \in Names
      BY <1>3, <2>2 DEF SplitNames, Names
    <3>3. "normal" \in ToSet(Scenarios)
      BY TheNames
    <3> QED
      BY <3>1, <3>2, <3>3
  <2>3. CASE ~(k < 6) /\ ~(s < 3)
    <3>1. Enter([split |-> "test", scenario |-> "done"])
      BY <2>3 DEF Advance
    <3> QED
      BY <3>1 DEF Names
  <2> QED
    BY <2>1, <2>2, <2>3
<1>6. stage' = next
  BY <1>5 DEF Enter
<1>7. Stage'
  BY <1>4, <1>5, <1>6 DEF Stage, ValidConfig
<1>8. Windows' /\ Spacing'
  BY <1>4 DEF Windows, Spacing
<1>9. Chains'
  <2> SUFFICES ASSUME stage'.scenario = "legitimate_retry" PROVE Chains'
    BY DEF Chains
  <2>1. remaining' \in AfterHead(ScenarioCount(config.splits[next.split], "legitimate_retry"))
    BY <1>5, <1>6 DEF Enter
  <2>2. remaining' \in Nat /\ remaining' >= 5 /\ (config.retry.most = 2 => remaining' % 2 = 0)
    BY <1>5, <2>1, HeadLeaves
  <2>3. remaining' \in Nat /\ remaining' # 1 /\ remaining' # 0 /\ last' \in Nat
    BY <1>4, <2>2
  <2>4. last' \in {0} \cup 2 .. config'.retry.most /\ sizes' \subseteq 2 .. config'.retry.most
    BY <1>4
  <2>5. config'.retry.most = 2 => remaining' % 2 = 0
    BY <1>4, <2>2
  <2> QED
    BY <2>3, <2>4, <2>5 DEF Chains
<1> QED
  BY <1>4, <1>7, <1>8, <1>9

--------------------------------------------------------------------------------
(* Retry chains.                                                              *)

\* No cut leaves a chain or a rest too short, when chains of two are allowed.
LEMMA CutChainStep ==
    ASSUME Stage, Chains, CutChain
    PROVE  Chains'
<1> DEFINE fewest == config.retry.fewest
           most == config.retry.most
<1>1. fewest \in 2 .. 4 /\ most \in 2 .. 4 /\ fewest <= most
  BY ConfigTypes DEF Stage
<1>2. /\ stage.scenario = "legitimate_retry" /\ remaining > 0
      /\ stage' = stage /\ config' = config
  BY DEF CutChain
<1>3. /\ remaining \in Nat /\ last \in Nat
      /\ fewest = 2 =>
           /\ remaining # 1
           /\ most = 2 => remaining % 2 = 0
           /\ last \in {0} \cup 2 .. most
           /\ sizes \subseteq 2 .. most
  BY <1>2 DEF Chains
<1>4. Chains' <=>
        /\ remaining' \in Nat /\ last' \in Nat
        /\ remaining' = 0 => last' # 0
        /\ fewest = 2 =>
             /\ remaining' # 1
             /\ most = 2 => remaining' % 2 = 0
             /\ last' \in {0} \cup 2 .. most
             /\ sizes' \subseteq 2 .. most
  BY <1>2 DEF Chains
<1>5. CASE remaining <= most /\ remaining' = 0
  <2>1. CASE remaining < fewest /\ last' = last + remaining /\ sizes' = sizes
    <3>1. fewest # 2
      BY <1>2, <1>3, <2>1
    <3>2. last' \in Nat /\ last' # 0
      BY <1>2, <1>3, <2>1
    <3> HIDE DEF fewest
    <3> QED
      BY <1>4, <1>5, <3>1, <3>2
  <2>2. CASE ~(remaining < fewest) /\ last' = remaining /\ sizes' = sizes \cup ({last} \ {0})
    <3>1. last' \in Nat /\ last' # 0 /\ last' \in fewest .. most
      BY <1>1, <1>2, <1>3, <1>5, <2>2
    <3>2. fewest = 2 => sizes' \subseteq 2 .. most
      BY <1>3, <2>2
    <3> HIDE DEF fewest, most
    <3> QED
      BY <1>4, <1>5, <3>1, <3>2
  <2> QED
    BY <1>1, <1>2, <1>3, <1>5, <2>1, <2>2 DEF CutChain
<1>6. CASE remaining > most
  <2>1. PICK drawn \in fewest .. most : last' = CutSize(drawn, remaining - drawn)
    BY <1>1, <1>2, <1>3, <1>6 DEF CutChain
  <2>2. sizes' = sizes \cup ({last} \ {0}) /\ remaining' = remaining - last'
    BY <1>1, <1>2, <1>3, <1>6 DEF CutChain
  <2>3. last' = IF remaining - drawn < fewest THEN drawn - (fewest - (remaining - drawn)) ELSE drawn
    BY <1>1, <1>3, <1>6, <2>1 DEF CutSize
  <2> HIDE DEF fewest, most
  <2>4. last' \in Nat /\ remaining' \in Nat /\ remaining' # 0
    BY <1>1, <1>3, <1>6, <2>1, <2>2, <2>3
  <2>5. ASSUME fewest = 2
        PROVE  /\ remaining' # 1 /\ (most = 2 => remaining' % 2 = 0)
               /\ last' \in {0} \cup 2 .. most /\ sizes' \subseteq 2 .. most
    <3>1. sizes' \subseteq 2 .. most
      BY <1>3, <2>2, <2>5
    <3>2. CASE remaining - drawn < 2
      <4>1. remaining = drawn + 1 /\ drawn = most
        BY <1>1, <1>3, <1>6, <2>1, <2>5, <3>2
      <4>2. most # 2
        BY <1>3, <2>5, <4>1
      <4> QED
        BY <1>1, <2>2, <2>3, <2>5, <3>1, <4>1, <4>2
    <3>3. CASE ~(remaining - drawn < 2)
      <4>1. last' = drawn /\ remaining' = remaining - drawn
        BY <2>2, <2>3, <2>5, <3>3
      <4>2. most = 2 => remaining' % 2 = 0
        BY <1>3, <2>1, <2>5, <4>1
      <4> QED
        BY <1>1, <1>3, <2>1, <2>5, <3>1, <3>3, <4>1, <4>2
    <3> QED
      BY <3>2, <3>3
  <2> QED
    BY <1>4, <2>4, <2>5
<1> QED
  BY <1>2, <1>5, <1>6 DEF CutChain

\* With chains of two, the chains that were cut are valid.
LEMMA ChainsAreCut ==
    ASSUME Stage, Chains, stage.scenario = "legitimate_retry", remaining = 0, config.retry.fewest = 2
    PROVE  ChainSizes \subseteq config.retry.fewest .. config.retry.most
<1>1. last # 0 /\ last \in {0} \cup 2 .. config.retry.most /\ sizes \subseteq 2 .. config.retry.most
  BY DEF Chains
<1> QED
  BY <1>1 DEF ChainSizes

--------------------------------------------------------------------------------
(* Campaign windows.                                                          *)

\* There is room for the longest campaign on each side of the boundary.
LEMMA BoundaryRange ==
    ASSUME Stage, Split.placement # None
    PROVE  /\ Boundary \in Nat
           /\ SplitStart(stage.split) + 540 <= Boundary
           /\ Boundary + 540 <= SplitEnd(stage.split)
<1> DEFINE duration == Day * Split.days
           offset == BoundaryOffset(Split.days * Day, Split.placement.basisPoints)
           p == Split.placement
<1>1. stage.split \in Names /\ Split = config.splits[stage.split]
  BY DEF Stage, Split
<1>2. Split \in SplitConfigs
  BY <1>1, ConfigTypes DEF Stage
<1>3. Split.days \in Nat /\ p \in Placements
  <2>1. Split.days \in 1 .. 365 /\ p \in Placements
    BY <1>2, SplitTypes
  <2> QED
    BY <2>1
<1>4. PlacementFits(Split)
  BY <1>1, TheNames DEF Stage, ValidConfig
<1>5. /\ p.before \in Nat /\ p.before >= 2 /\ p.after \in Nat /\ p.after >= 2
      /\ p.gap \in Nat /\ p.basisPoints \in Nat
  <2> HIDE DEF p
  <2> QED
    BY <1>3, PlacementTypes
<1>6. duration \in Nat /\ Split.days * Day = duration
  BY <1>3 DEF Day
<1>7. offset \in Nat
  <2>1. offset = (duration * p.basisPoints) \div 10000
    BY <1>6 DEF BoundaryOffset
  <2> HIDE DEF duration, p, offset
  <2>2. duration * p.basisPoints \in Nat
    BY <1>5, <1>6
  <2> QED
    BY <2>1, <2>2
<1>8. /\ p.before * LongestCampaign + (p.before - 1) * p.gap <= offset
      /\ p.after * LongestCampaign + (p.after - 1) * p.gap <= duration - offset
  BY <1>4, <1>6 DEF PlacementFits
<1>9. LongestCampaign = 540
  BY DEF LongestCampaign, MinuteUnits
<1>10. ASSUME NEW n \in Nat, n >= 2, NEW g \in Nat PROVE n * 540 + (n - 1) * g >= 540
  <2>1. (n - 1) * g \in Nat
    BY <1>10
  <2> QED
    BY <1>10, <2>1
<1>11. /\ p.before * 540 + (p.before - 1) * p.gap >= 540
       /\ p.after * 540 + (p.after - 1) * p.gap >= 540
  BY <1>5, <1>10
<1>12. p.before * 540 + (p.before - 1) * p.gap \in Int /\ p.after * 540 + (p.after - 1) * p.gap \in Int
  BY <1>5
<1> HIDE DEF p, duration, offset
<1>13. offset >= 540 /\ duration - offset >= 540
  BY <1>6, <1>7, <1>8, <1>9, <1>11, <1>12
<1>14. /\ SplitStart(stage.split) \in Nat
       /\ SplitEnd(stage.split) = SplitStart(stage.split) + duration
  BY <1>1, SplitTimes DEF duration
<1>15. Boundary = SplitStart(stage.split) + offset
  BY DEF Boundary, offset
<1> QED
  BY <1>6, <1>7, <1>13, <1>14, <1>15

\* A candidate lies in the split, on its side of the boundary.
LEMMA CandidatesLieOnTheirSide ==
    ASSUME Stage, Split.placement # None, NEW w \in Candidates
    PROVE  PlacedIn(w)
<1>1. PICK side \in {"before", "after"}, length \in Lengths :
        \E k \in Draw(EarliestAndLatest(side, length)[2] - EarliestAndLatest(side, length)[1] + 1) :
          w = [start |-> EarliestAndLatest(side, length)[1] + k, length |-> length, side |-> side]
  BY DEF Candidates
<1> DEFINE earliest == IF side = "before" THEN SplitStart(stage.split) ELSE Boundary
           latest == IF side = "before" THEN Boundary - length ELSE SplitEnd(stage.split) - length
<1>2. EarliestAndLatest(side, length)[1] = earliest /\ EarliestAndLatest(side, length)[2] = latest
  BY DEF EarliestAndLatest
<1>3. /\ length \in Nat /\ length <= 540
  BY DrawAssumption
<1>4. /\ Boundary \in Nat /\ SplitStart(stage.split) + 540 <= Boundary
      /\ Boundary + 540 <= SplitEnd(stage.split)
  BY BoundaryRange
<1>5. SplitStart(stage.split) \in Nat /\ SplitEnd(stage.split) \in Nat
  BY SplitTimes DEF Stage
<1>6. earliest \in Nat /\ latest \in Int /\ latest - earliest + 1 \in Nat \ {0}
  BY <1>3, <1>4, <1>5
<1>7. PICK k \in Draw(latest - earliest + 1) : w = [start |-> earliest + k, length |-> length, side |-> side]
  BY <1>1, <1>2
<1>8. k \in 0 .. latest - earliest
  <2>1. k \in 0 .. (latest - earliest + 1) - 1
    BY <1>6, <1>7, DrawRange
  <2> HIDE DEF earliest, latest
  <2> QED
    BY <1>6, <2>1
<1>9. w.start = earliest + k /\ w.length = length /\ w.side = side
  BY <1>7
<1>10. CASE side = "before"
  BY <1>3, <1>4, <1>5, <1>8, <1>9, <1>10 DEF PlacedIn, EndOf
<1>11. CASE side = "after"
  BY <1>3, <1>4, <1>5, <1>8, <1>9, <1>11 DEF PlacedIn, EndOf
<1> QED
  BY <1>10, <1>11

\* The next campaign keeps the gap to those before it, and takes a place on its side.
LEMMA PlaceCampaignStep ==
    ASSUME Stage, Windows, Spacing, PlaceCampaign
    PROVE  Windows' /\ Spacing'
<1>1. /\ config' = config /\ stage' = stage
      /\ Split.placement # None
  BY DEF PlaceCampaign, Placing
<1>2. PICK w \in Candidates : (\A v \in windows : Apart(v, w)) /\ windows' = windows \cup {w}
  BY DEF PlaceCampaign
<1>3. PlacedIn(w)
  BY <1>1, CandidatesLieOnTheirSide
<1>4. Split' = Split /\ Boundary' = Boundary
      /\ SplitStart(stage.split)' = SplitStart(stage.split) /\ SplitEnd(stage.split)' = SplitEnd(stage.split)
  BY <1>1 DEF Split, Boundary, SplitStart, SplitEnd
<1>5. Windows'
  <2>1. \A v \in windows' : Split.placement # None /\ PlacedIn(v)
    BY <1>1, <1>2, <1>3 DEF Windows
  <2> QED
    BY <1>1, <1>4, <2>1 DEF Windows, PlacedIn, EndOf
<1>6. /\ IsFiniteSet(windows)
      /\ \A v \in windows, x \in windows : v # x => Apart(v, x)
      /\ \A side \in {"before", "after"} : Side(side) # {} => Cardinality(Side(side)) <= Places(side)
  BY FS_EmptySet DEF Spacing, Side
<1>7. IsFiniteSet(windows')
  BY <1>2, <1>6, FS_AddElement
<1>8. ASSUME NEW v \in windows', NEW x \in windows', v # x PROVE Apart(v, x)'
  <2>1. Apart(v, x)' <=> Apart(v, x)
    BY <1>4 DEF Apart, EndOf
  <2>2. Apart(x, v) <=> Apart(v, x)
    BY DEF Apart
  <2> QED
    BY <1>2, <1>6, <1>8, <2>1, <2>2
<1>9. ASSUME NEW side \in {"before", "after"} PROVE (Cardinality(Side(side)) <= Places(side))'
  <2>1. Places(side)' = Places(side)
    BY <1>4 DEF Places
  <2>2. IsFiniteSet(Side(side)) /\ Cardinality(Side(side)) \in Nat
    <3>1. Side(side) \in SUBSET windows
      BY DEF Side
    <3> QED
      BY <1>6, <3>1, FS_Subset, FS_CardinalityType
  <2>3. Places(side) \in Nat
    <3>1. Split \in SplitConfigs
      BY ConfigTypes DEF Stage, Split
    <3>2. Split.placement \in Placements
      BY <1>1, <3>1, SplitTypes
    <3> QED
      BY <3>2, PlacementTypes DEF Places
  <2>4. CASE w.side = side
    <3>1. Side(side)' = Side(side) \cup {w}
      BY <1>2, <2>4 DEF Side
    <3>2. Cardinality(Side(side)) < Places(side)
      <4>1. PICK s \in {"before", "after"}, length \in Lengths :
              /\ Cardinality(Side(s)) < Places(s)
              /\ \E k : w = [start |-> k, length |-> length, side |-> s]
        BY DEF Candidates
      <4> QED
        BY <2>4, <4>1
    <3> DEFINE S == Side(side)
    <3>3. /\ IsFiniteSet(S \cup {w})
          /\ Cardinality(S \cup {w}) = IF w \in S THEN Cardinality(S) ELSE Cardinality(S) + 1
      <4> HIDE DEF S
      <4>1. IsFiniteSet(S)
        BY <2>2 DEF S
      <4> QED
        BY <4>1, FS_AddElement
    <3>4. Cardinality(S \cup {w}) \in Nat
      BY <3>3, FS_CardinalityType
    <3>5. Cardinality(S \cup {w}) <= Places(side)
      <4> HIDE DEF S
      <4>1. Cardinality(S) \in Nat /\ Cardinality(S) < Places(side)
        BY <2>2, <3>2 DEF S
      <4> QED
        BY <2>3, <3>3, <4>1
    <3> QED
      BY <2>1, <3>1, <3>5
  <2>5. CASE w.side # side
    <3>1. Side(side)' = Side(side)
      BY <1>2, <2>5 DEF Side
    <3>2. Cardinality(Side(side)) <= Places(side)
      BY <1>6, <2>3, FS_EmptySet
    <3> QED
      BY <2>1, <3>1, <3>2
  <2> QED
    BY <2>4, <2>5
<1> QED
  BY <1>5, <1>7, <1>8, <1>9 DEF Spacing

\* While the windows stay, what is said of them stays true.
LEMMA SameWindows ==
    ASSUME Windows, Spacing, config' = config, stage' = stage, windows' = windows
    PROVE  Windows' /\ Spacing'
<1>1. /\ Split' = Split /\ Boundary' = Boundary
      /\ SplitStart(stage.split)' = SplitStart(stage.split) /\ SplitEnd(stage.split)' = SplitEnd(stage.split)
  BY DEF Split, Boundary, SplitStart, SplitEnd
<1>2. Windows'
  BY <1>1 DEF Windows, PlacedIn, EndOf
<1>3. Spacing'
  BY <1>1 DEF Spacing, Apart, EndOf, Side, Places
<1> QED
  BY <1>2, <1>3

--------------------------------------------------------------------------------
(* Records.                                                                   *)

\* What is drawn between the ends of the split keeps to it.
LEMMA RecordsKeepToTheirSplit ==
    ASSUME Stage, config' = config, NEW T, records' = {Record(at) : at \in T},
           \A at \in T : SplitStart(stage.split) <= at /\ at < SplitEnd(stage.split)
    PROVE  EventsKeepToTheirSplit'
<1> SUFFICES ASSUME NEW r \in records'
             PROVE  SplitStart(r.split)' <= r.at /\ r.at < SplitEnd(r.split)'
  BY DEF EventsKeepToTheirSplit
<1>1. PICK at \in T : r = Record(at)
  OBVIOUS
<1>2. r.split = stage.split /\ r.at = at
  BY <1>1 DEF Record
<1>3. SplitStart(r.split)' = SplitStart(stage.split) /\ SplitEnd(r.split)' = SplitEnd(stage.split)
  BY <1>2 DEF SplitStart, SplitEnd
<1> QED
  BY <1>2, <1>3

\* Of other scenarios the retry chains say nothing.
LEMMA OthersAreNoChains ==
    ASSUME ChainsValidate, config' = config, failed' = failed, stage.scenario # "legitimate_retry",
           NEW T, records' = {Record(at) : at \in T}
    PROVE  ChainsValidate'
<1>1. \A r \in records' : r.scenario # "legitimate_retry"
  BY DEF Record
<1>2. {r.at : r \in {x \in records' : x.scenario = "legitimate_retry"}} = {}
  BY <1>1
<1>3. failed' = "retry_quota_cannot_form_valid_chains" => config'.retry.fewest > 2
  BY DEF ChainsValidate
<1> QED
  BY <1>2, <1>3 DEF ChainsValidate

\* An error of another kind says nothing of the retry chains either.
LEMMA FailStep ==
    ASSUME Stage, Windows, Spacing, Chains, NEW error, Fail(error),
           error = "retry_quota_cannot_form_valid_chains" => config.retry.fewest > 2
    PROVE  Stage' /\ Windows' /\ Spacing' /\ Chains' /\ EventsKeepToTheirSplit' /\ ChainsValidate'
<1>1. /\ failed' = error /\ records' = {}
      /\ config' = config /\ stage' = stage /\ remaining' = remaining
      /\ sizes' = sizes /\ last' = last /\ windows' = windows
  BY DEF Fail
<1>2. Stage'
  BY <1>1 DEF Stage, ValidConfig
<1>3. Chains'
  BY <1>1 DEF Chains
<1>4. EventsKeepToTheirSplit'
  BY <1>1 DEF EventsKeepToTheirSplit
<1>5. ChainsValidate'
  BY <1>1 DEF ChainsValidate
<1>6. Windows' /\ Spacing'
  BY <1>1, SameWindows
<1> QED
  BY <1>2, <1>3, <1>4, <1>5, <1>6

\* Normal and failed checkouts, shared infrastructure.
LEMMA ScatterStep ==
    ASSUME Stage, ChainsValidate, stage.scenario # "done", Scatter
    PROVE  EventsKeepToTheirSplit' /\ ChainsValidate'
<1>1. PICK at \in TimeIn(0) : records' = {Record(at)}
  BY DEF Scatter
<1>2. config' = config /\ failed' = failed
  BY AdvanceStep DEF Scatter
<1>3. at \in Nat /\ SplitStart(stage.split) <= at /\ at + 0 < SplitEnd(stage.split)
  BY TimeRange
<1> DEFINE T == {at}
<1>4. records' = {Record(x) : x \in T}
  BY <1>1
<1>5. EventsKeepToTheirSplit'
  <2>1. SplitStart(stage.split) \in Nat /\ SplitEnd(stage.split) \in Nat
    BY SplitTimes DEF Stage
  <2>2. \A x \in T : SplitStart(stage.split) <= x /\ x < SplitEnd(stage.split)
    BY <1>3, <2>1
  <2> HIDE DEF T
  <2> QED
    BY <1>2, <1>4, <2>2, RecordsKeepToTheirSplit
<1>6. stage.scenario # "legitimate_retry"
  BY DEF Scatter
<1> HIDE DEF T
<1> QED
  BY <1>2, <1>4, <1>5, <1>6, OthersAreNoChains

\* A flash sale ends before its split.
LEMMA FlashSaleStep ==
    ASSUME Stage, ChainsValidate, stage.scenario # "done", FlashSale
    PROVE  EventsKeepToTheirSplit' /\ ChainsValidate'
<1>1. PICK length \in Lengths :
        \E start \in TimeIn(length + 1) : records' = {Record(start + k) : k \in Draw(length)}
  BY DEF FlashSale
<1>2. PICK start \in TimeIn(length + 1) : records' = {Record(start + k) : k \in Draw(length)}
  BY <1>1
<1>3. config' = config /\ failed' = failed
  BY AdvanceStep DEF FlashSale
<1>4. length \in Nat \ {0} /\ length + 1 \in Nat
  BY DrawAssumption
<1>5. start \in Nat /\ SplitStart(stage.split) <= start /\ start + (length + 1) < SplitEnd(stage.split)
  BY <1>4, TimeRange
<1> DEFINE T == {start + k : k \in Draw(length)}
<1>6. records' = {Record(x) : x \in T}
  BY <1>2
<1>7. \A at \in T : SplitStart(stage.split) <= at /\ at < SplitEnd(stage.split)
  <2> TAKE at \in T
  <2>1. PICK k \in Draw(length) : at = start + k
    OBVIOUS
  <2>2. k \in 0 .. length - 1
    BY <1>4, DrawRange
  <2>3. SplitStart(stage.split) \in Nat /\ SplitEnd(stage.split) \in Nat
    BY SplitTimes DEF Stage
  <2> QED
    BY <1>4, <1>5, <2>1, <2>2, <2>3
<1> HIDE DEF T
<1>8. EventsKeepToTheirSplit'
  BY <1>3, <1>6, <1>7, RecordsKeepToTheirSplit
<1>9. stage.scenario # "legitimate_retry"
  BY DEF FlashSale
<1> QED
  BY <1>3, <1>6, <1>8, <1>9, OthersAreNoChains

\* The instants of a chain of attempts, and the intervals they are.
Attempts(start, gap, size) == {start + gap * k : k \in 0 .. size - 1}

Instants(chain) == {<<at, at>> : at \in chain}

\* A retry chain, of any of its sizes.
LEMMA ChainGaps ==
    ASSUME NEW size \in 2 .. 4, NEW gap \in Nat \ {0}, NEW start \in Nat,
           NEW chain, chain = Attempts(start, gap, size)
    PROVE  /\ Cardinality(chain) \in 2 .. 4
           /\ \A g \in GapsBetween(Instants(chain)) : g = gap
<1> USE DEF Attempts
<1>1. Cardinality(chain) = size
  <2> DEFINE a == start
             b == start + gap
             c == start + gap * 2
             d == start + gap * 3
  <2>1. /\ a \in Nat /\ b \in Nat /\ c \in Nat /\ d \in Nat /\ a < b /\ b < c /\ c < d
    OBVIOUS
  <2>2. /\ start + gap * 0 = a /\ start + gap * 1 = b /\ start + gap * 2 = c /\ start + gap * 3 = d
    OBVIOUS
  <2> HIDE DEF a, b, c, d
  <2>3. IsFiniteSet({a}) /\ Cardinality({a}) = 1
    BY FS_Singleton
  <2>4. IsFiniteSet({a, b}) /\ Cardinality({a, b}) = 2
    <3>1. {a, b} = {a} \cup {b} /\ b \notin {a}
      BY <2>1
    <3>2. /\ IsFiniteSet({a} \cup {b})
          /\ Cardinality({a} \cup {b}) = IF b \in {a} THEN 1 ELSE 1 + 1
      BY <2>3, FS_AddElement
    <3> QED
      BY <3>1, <3>2
  <2>5. IsFiniteSet({a, b, c}) /\ Cardinality({a, b, c}) = 3
    <3>1. {a, b, c} = {a, b} \cup {c} /\ c \notin {a, b}
      BY <2>1
    <3>2. /\ IsFiniteSet({a, b} \cup {c})
          /\ Cardinality({a, b} \cup {c}) = IF c \in {a, b} THEN 2 ELSE 2 + 1
      BY <2>4, FS_AddElement
    <3> QED
      BY <3>1, <3>2
  <2>6. IsFiniteSet({a, b, c, d}) /\ Cardinality({a, b, c, d}) = 4
    <3>1. {a, b, c, d} = {a, b, c} \cup {d} /\ d \notin {a, b, c}
      BY <2>1
    <3>2. /\ IsFiniteSet({a, b, c} \cup {d})
          /\ Cardinality({a, b, c} \cup {d}) = IF d \in {a, b, c} THEN 3 ELSE 3 + 1
      BY <2>5, FS_AddElement
    <3> QED
      BY <3>1, <3>2
  <2>7. CASE size = 2
    <3>1. chain = {a, b}
      BY <2>2, <2>7
    <3> QED
      BY <2>4, <2>7, <3>1
  <2>8. CASE size = 3
    <3>1. chain = {a, b, c}
      BY <2>2, <2>8
    <3> QED
      BY <2>5, <2>8, <3>1
  <2>9. CASE size = 4
    <3>1. chain = {a, b, c, d}
      BY <2>2, <2>9
    <3> QED
      BY <2>6, <2>9, <3>1
  <2> QED
    BY <2>7, <2>8, <2>9
<1>2. ASSUME NEW g \in GapsBetween(Instants(chain)) PROVE g = gap
  <2> DEFINE intervals == {<<at, at>> : at \in chain}
  <2>1. PICK p \in intervals \X intervals :
          /\ g = p[2][1] - p[1][2] /\ p[1][1] < p[2][1]
          /\ ~\E x \in intervals : p[1][1] < x[1] /\ x[1] < p[2][1]
    BY <1>2 DEF GapsBetween, Instants
  <2>2. PICK v \in chain, w \in chain : p = <<<<v, v>>, <<w, w>>>>
    OBVIOUS
  <2>3. /\ g = w - v /\ v < w
        /\ \A x \in chain : ~(v < x /\ x < w)
    <3>1. \A x \in chain : <<x, x>> \in intervals
      OBVIOUS
    <3> HIDE DEF intervals
    <3> QED
      BY <2>1, <2>2, <3>1
  <2>4. PICK i \in 0 .. size - 1, j \in 0 .. size - 1 : v = start + gap * i /\ w = start + gap * j
    OBVIOUS
  <2>5. i < j
    <3> SUFFICES ASSUME j <= i PROVE FALSE
      OBVIOUS
    <3>1. gap * j <= gap * i
      BY <2>4
    <3> QED
      BY <2>3, <2>4, <3>1
  <2>6. j = i + 1
    <3> SUFFICES ASSUME i + 1 < j PROVE FALSE
      BY <2>5
    <3> DEFINE x == start + gap * (i + 1)
    <3>1. x \in chain
      BY <2>4
    <3>2. gap * i < gap * (i + 1) /\ gap * (i + 1) < gap * j
      BY <2>4
    <3>3. v < x /\ x < w
      BY <2>4, <3>2
    <3> HIDE DEF x
    <3> QED
      BY <2>3, <3>1, <3>3
  <2> QED
    BY <2>3, <2>4, <2>6
<1> QED
  BY <1>1, <1>2

\* A retry chain ends before its split, and is valid.
LEMMA RetriesStep ==
    ASSUME Stage, ChainsValidate, stage.scenario # "done", Retries
    PROVE  EventsKeepToTheirSplit' /\ ChainsValidate'
<1> DEFINE retry == config.retry
<1>1. PICK size \in ChainSizes, gap \in {retry.minGap, retry.maxGap} :
        \E start \in TimeIn(ChainMargin(size)) :
          records' = {Record(start + gap * k) : k \in 0 .. size - 1}
  BY DEF Retries
<1>2. PICK start \in TimeIn(ChainMargin(size)) :
        records' = {Record(start + gap * k) : k \in 0 .. size - 1}
  BY <1>1
<1>3. config' = config /\ failed' = failed
  BY AdvanceStep DEF Retries
<1>4. /\ retry.fewest \in 2 .. 4 /\ retry.most \in 2 .. 4
      /\ retry.minGap \in 1 .. 60 /\ retry.maxGap \in 1 .. 60 /\ retry.minGap <= retry.maxGap
  BY ConfigTypes DEF Stage
<1>5. size \in 2 .. 4
  <2>1. size \in retry.fewest .. retry.most
    BY DEF Retries
  <2> QED
    BY <1>4, <2>1
<1>6. gap \in Nat \ {0} /\ gap \in retry.minGap .. retry.maxGap
  BY <1>4
<1> DEFINE longest == retry.maxGap * (size - 1)
<1>7. longest \in Nat /\ ChainMargin(size) = longest + 1
  BY <1>4, <1>5 DEF ChainMargin
<1>8. start \in Nat /\ SplitStart(stage.split) <= start /\ start + (longest + 1) < SplitEnd(stage.split)
  BY <1>7, TimeRange
<1>9. SplitStart(stage.split) \in Nat /\ SplitEnd(stage.split) \in Nat
  BY SplitTimes DEF Stage
<1> DEFINE T == {start + gap * k : k \in 0 .. size - 1}
<1>10. records' = {Record(x) : x \in T}
  BY <1>2
<1>11. \A x \in T : SplitStart(stage.split) <= x /\ x < SplitEnd(stage.split)
  <2> TAKE x \in T
  <2>1. PICK k \in 0 .. size - 1 : x = start + gap * k
    OBVIOUS
  <2>2. k \in Nat /\ k <= size - 1 /\ size - 1 \in Nat
    BY <1>5, <2>1
  <2>3. gap * k \in Nat /\ gap * k <= longest
    <3>1. gap * k \in Nat /\ gap * k <= retry.maxGap * k
      BY <1>4, <1>6, <2>2
    <3>2. retry.maxGap * k <= retry.maxGap * (size - 1)
      BY <1>4, <2>2
    <3> QED
      BY <1>4, <2>2, <3>1, <3>2
  <2> HIDE DEF longest
  <2> QED
    BY <1>7, <1>8, <1>9, <2>1, <2>3
<1>12. EventsKeepToTheirSplit'
  <2> HIDE DEF T
  <2> QED
    BY <1>3, <1>10, <1>11, RecordsKeepToTheirSplit
<1> DEFINE chain == {r.at : r \in {x \in records' : x.scenario = "legitimate_retry"}}
<1>13. chain = T
  <2>1. stage.scenario = "legitimate_retry"
    BY DEF Retries
  <2>2. \A r \in records' : r.scenario = "legitimate_retry" /\ r.at \in T
    BY <1>10, <2>1 DEF Record
  <2>3. \A x \in T : Record(x) \in records' /\ Record(x).at = x
    BY <1>10 DEF Record
  <2> HIDE DEF T
  <2> QED
    BY <2>2, <2>3
<1>14. /\ Cardinality(chain) \in 2 .. 4
       /\ \A g \in GapsBetween(Instants(chain)) : g = gap
  <2>1. chain = Attempts(start, gap, size)
    BY <1>13 DEF Attempts
  <2> HIDE DEF chain
  <2> QED
    BY <1>5, <1>6, <1>8, <2>1, ChainGaps
<1>15. failed' = "retry_quota_cannot_form_valid_chains" => config'.retry.fewest > 2
  BY <1>3 DEF ChainsValidate
<1> HIDE DEF chain
<1>16. ChainsValidate'
  BY <1>3, <1>6, <1>14, <1>15 DEF ChainsValidate, chain, GapsBetween, Instants
<1> QED
  BY <1>12, <1>16

--------------------------------------------------------------------------------
(* Campaigns.                                                                 *)

\* Only the test split of the adversarial profile, whose shape is locked, evades.
LEMMA EvadingSplit ==
    ASSUME Stage, Split.evasion # None
    PROVE  /\ stage.split = "test" /\ config.version = "1.2.0"
           /\ Split.days = 4 /\ Split.events = 6000 /\ Split.campaigns = 20
           /\ EvasionValid(Split.evasion)
<1>1. /\ stage.split \in Names /\ Split = config.splits[stage.split]
      /\ ProfileContract(config)
  BY DEF Stage, Split, ValidConfig
<1>2. config.version = "1.2.0" /\ config.profile = "adversarial-stress"
  BY <1>1, TheNames DEF ProfileContract
<1>3. LockedContract(config)
  BY <1>1, <1>2 DEF ProfileContract
<1>4. stage.split \in {n \in Names : config.splits[n].evasion # None}
  BY <1>1
<1>5. stage.split = "test"
  BY <1>2, <1>3, <1>4, TheNames DEF LockedContract
<1>6. LockedShapes["adversarial-stress"]["test"] = Shape(4, 6000, 20)
  BY DEF LockedShapes, LockedProfiles
<1>7. Shape(Split.days, Split.events, Split.campaigns) = Shape(4, 6000, 20)
  BY <1>1, <1>2, <1>3, <1>5, <1>6, TheNames DEF LockedContract
<1>8. EvasionValid(Split.evasion)
  BY <1>1, TheNames DEF Stage, ValidConfig
<1> QED
  BY <1>2, <1>5, <1>7, <1>8 DEF Shape

\* Its campaigns have six events each.
LEMMA EvadingCampaigns ==
    ASSUME Stage, Split.evasion # None, stage.scenario = "attack",
           NEW index \in {0, Split.campaigns - 1}
    PROVE  GroupSize(Count, Split.campaigns, index) = 6
<1>1. Split.events = 6000 /\ Split.campaigns = 20
  BY EvadingSplit
<1>2. Count = (6000 * 200) \div 10000
  BY <1>1 DEF Count, ScenarioCount, Weights
<1>3. Count = 120
  BY <1>2
<1> QED
  BY <1>1, <1>3 DEF GroupSize

\* A window that has room for its campaign.
HasRoom(w) ==
    /\ w.start \in Int /\ w.length \in Nat \ {0}
    /\ SplitStart(stage.split) <= w.start /\ w.start + w.length <= SplitEnd(stage.split)

\* Placed or not, the window of a campaign lies in the split.
LEMMA WindowsHaveRoom ==
    ASSUME Stage, Windows,
           NEW w \in IF Split.placement = None THEN FreeWindows ELSE windows
    PROVE  HasRoom(w)
<1>1. CASE Split.placement = None
  <2>1. PICK length \in Lengths :
          \E start \in TimeIn(length + 1) : w = [start |-> start, length |-> length]
    BY <1>1 DEF FreeWindows
  <2>2. PICK start \in TimeIn(length + 1) : w = [start |-> start, length |-> length]
    BY <2>1
  <2>3. length \in Nat \ {0} /\ length + 1 \in Nat
    BY LengthRange
  <2>4. /\ start \in Nat /\ SplitStart(stage.split) <= start
        /\ start + (length + 1) < SplitEnd(stage.split)
    BY <2>3, TimeRange
  <2>5. SplitStart(stage.split) \in Nat /\ SplitEnd(stage.split) \in Nat
    BY SplitTimes DEF Stage
  <2> QED
    BY <2>2, <2>3, <2>4, <2>5 DEF HasRoom
<1>2. CASE Split.placement # None
  <2>1. PlacedIn(w)
    BY <1>2 DEF Windows
  <2>2. w.length \in Lengths
    BY <2>1 DEF PlacedIn
  <2>3. w.length \in Nat \ {0}
    BY <2>2, LengthRange
  <2> QED
    BY <2>1, <2>3 DEF PlacedIn, HasRoom, EndOf
<1> QED
  BY <1>1, <1>2

\* A stretched campaign that is drawn from its window ends before its split.
LEMMA StretchedKeepsToItsSplit ==
    ASSUME Stage, Split.evasion # None, Split.evasion.variant # "window_edge",
           NEW w, HasRoom(w), NEW size \in Nat, NEW k \in Draw(Stretched(w, size).length)
    PROVE  /\ SplitStart(stage.split) <= Stretched(w, size).start + k
           /\ Stretched(w, size).start + k < SplitEnd(stage.split)
<1> DEFINE first == SplitStart(stage.split)
           end == SplitEnd(stage.split)
           e == Split.evasion
           length == IF e.variant = "slow_and_low" THEN e.parameter * MinuteUnits ELSE w.length
           latest == end - (length + 1)
           start == IF w.start > latest THEN Max({first, latest}) ELSE w.start
           room == end - start - 1
<1>1. first \in Nat /\ end \in Nat /\ first < end
  <2>1. first \in Nat /\ end \in Nat /\ end - first >= 8640
    BY SplitTimes DEF Stage
  <2> HIDE DEF first, end
  <2> QED
    BY <2>1
<1>2. length \in Nat
  <2>1. Split \in SplitConfigs
    BY ConfigTypes DEF Stage, Split
  <2>2. e.parameter \in Nat
    BY <2>1, SplitTypes, EvasionTypes
  <2> QED
    BY <2>2 DEF HasRoom, MinuteUnits
<1>3. w.start \in Int /\ first <= w.start
  BY DEF HasRoom
<1> HIDE DEF length, first, end
<1>4. latest \in Int /\ latest < end
  BY <1>1, <1>2
<1>5. start \in Int /\ first <= start /\ start < end
  <2>1. Max({first, latest}) = IF first >= latest THEN first ELSE latest
    BY <1>1, <1>4, MaxOfTwo
  <2> HIDE DEF latest
  <2> QED
    BY <1>1, <1>3, <1>4, <2>1
<1>6. Stretched(w, size) = [start |-> start, length |-> Max({1, Min({length, room})})]
  BY DEF Stretched, length, first, end
<1>7. Stretched(w, size).start = start /\ Stretched(w, size).length = Max({1, Min({length, room})})
  BY <1>6
<1> HIDE DEF start
<1>8. room \in Nat /\ start + room + 1 = end
  BY <1>1, <1>5
<1> HIDE DEF room
<1>9. Min({length, room}) = IF length <= room THEN length ELSE room
  BY <1>2, <1>8, MaxOfTwo
<1>10. Min({length, room}) \in Nat /\ Min({length, room}) <= room
  BY <1>2, <1>8, <1>9
<1> DEFINE shaped == Max({1, Min({length, room})})
<1>11. shaped = IF 1 >= Min({length, room}) THEN 1 ELSE Min({length, room})
  BY <1>10, MaxOfTwo
<1>12. shaped \in Nat \ {0} /\ (shaped = 1 \/ shaped <= room)
  BY <1>8, <1>10, <1>11
<1> HIDE DEF shaped
<1>13. k \in 0 .. shaped - 1
  <2>1. k \in Draw(shaped)
    BY <1>7 DEF shaped
  <2> QED
    BY <1>12, <2>1, DrawRange
<1>14. first <= start + k /\ start + k < end
  BY <1>1, <1>5, <1>8, <1>12, <1>13
<1> QED
  BY <1>7, <1>14 DEF first, end

\* Six events at the edge of a window of at most an hour fit in four days.
LEMMA EdgesKeepToTheirSplit ==
    ASSUME Stage, Split.evasion # None, Split.evasion.variant = "window_edge",
           NEW w, HasRoom(w), NEW k \in 0 .. 5
    PROVE  LET edge == Split.evasion.parameter \div 10
               shaped == Stretched(w, 6)
           IN  /\ shaped.start \in Int /\ edge \in Nat \ {0}
               /\ SplitStart(stage.split) <= shaped.start + k * edge
               /\ shaped.start + k * edge < SplitEnd(stage.split)
<1> DEFINE first == SplitStart(stage.split)
           end == SplitEnd(stage.split)
           e == Split.evasion
           edge == e.parameter \div 10
           latest == end - (5 * edge + 1)
           start == IF w.start > latest THEN Max({first, latest}) ELSE w.start
<1>1. first \in Nat /\ end \in Nat /\ first + 8640 <= end
  <2>1. first \in Nat /\ end \in Nat /\ end - first >= 8640
    BY SplitTimes DEF Stage
  <2> HIDE DEF first, end
  <2> QED
    BY <2>1
<1>2. edge \in {6, 30, 360}
  <2>1. EvasionValid(e)
    BY EvadingSplit
  <2>2. e.parameter \in {60, 300, 3600}
    BY <2>1 DEF EvasionValid
  <2>3. 60 \div 10 = 6 /\ 300 \div 10 = 30 /\ 3600 \div 10 = 360
    OBVIOUS
  <2> QED
    BY <2>2, <2>3
<1>3. w.start \in Int /\ first <= w.start
  BY DEF HasRoom
<1>4. Max({0, 6 - 1}) = 5
  BY MaxOfTwo
<1>5. Stretched(w, 6).start = start
  BY <1>4 DEF Stretched
<1> HIDE DEF edge, first, end
<1>6. latest \in Int /\ first <= latest /\ latest + 5 * edge + 1 = end
  BY <1>1, <1>2
<1>7. start \in Int /\ first <= start /\ start <= latest
  <2>1. Max({first, latest}) = IF first >= latest THEN first ELSE latest
    BY <1>1, <1>6, MaxOfTwo
  <2> HIDE DEF latest
  <2> QED
    BY <1>1, <1>3, <1>6, <2>1
<1> HIDE DEF start, latest
<1>8. first <= start + k * edge /\ start + k * edge < end
  BY <1>1, <1>2, <1>6, <1>7
<1> QED
  BY <1>2, <1>5, <1>7, <1>8 DEF first, end, edge

\* The instants of a campaign are in its split and, at the edge of a feature
\* window, whole windows apart.
CampaignInstants(T) ==
    /\ \A at \in T : SplitStart(stage.split) <= at /\ at < SplitEnd(stage.split)
    /\ Split.evasion # None /\ Split.evasion.variant = "window_edge" =>
         LET edge == Split.evasion.parameter \div 10
         IN  /\ edge \in Nat \ {0}
             /\ \E first \in Int : \A at \in T : \E k \in 0 .. 5 : at = first + k * edge

\* The instants of a campaign, whichever shape it takes.
LEMMA CampaignTimes ==
    ASSUME Stage, Windows, Campaigns
    PROVE  \E T : records' = {Record(at) : at \in T} /\ CampaignInstants(T)
<1> DEFINE e == Split.evasion
           edge == e.parameter \div 10
<1>1. PICK w \in IF Split.placement = None THEN FreeWindows ELSE windows,
           index \in {0, Split.campaigns - 1} :
        records' = CampaignRecords(w, GroupSize(Count, Split.campaigns, index))
  BY DEF Campaigns
<1> DEFINE size == GroupSize(Count, Split.campaigns, index)
<1>2. HasRoom(w)
  BY <1>1, WindowsHaveRoom
<1>3. SplitStart(stage.split) \in Nat /\ SplitEnd(stage.split) \in Nat
  BY SplitTimes DEF Stage
<1>4. CASE e = None
  <2> DEFINE T == {w.start + k : k \in Draw(w.length)}
  <2>1. records' = {Record(at) : at \in T}
    BY <1>1, <1>4 DEF CampaignRecords
  <2>2. ASSUME NEW k \in Draw(w.length)
        PROVE  /\ SplitStart(stage.split) <= w.start + k
               /\ w.start + k < SplitEnd(stage.split)
    <3>1. k \in 0 .. w.length - 1
      BY <1>2, DrawRange DEF HasRoom
    <3> QED
      BY <1>2, <1>3, <3>1 DEF HasRoom
  <2>3. CampaignInstants(T)
    BY <1>4, <2>2 DEF CampaignInstants
  <2> QED
    BY <2>1, <2>3
<1>5. ASSUME e # None PROVE size = 6
  BY <1>5, EvadingCampaigns DEF Campaigns
<1>6. CASE e # None /\ e.variant # "window_edge"
  <2> DEFINE shaped == Stretched(w, 6)
             T == {shaped.start + k : k \in Draw(shaped.length)}
  <2>1. records' = {Record(at) : at \in T}
    BY <1>1, <1>5, <1>6 DEF CampaignRecords
  <2>2. ASSUME NEW k \in Draw(shaped.length)
        PROVE  /\ SplitStart(stage.split) <= shaped.start + k
               /\ shaped.start + k < SplitEnd(stage.split)
    BY <1>2, <1>6, StretchedKeepsToItsSplit
  <2>3. CampaignInstants(T)
    BY <1>6, <2>2 DEF CampaignInstants
  <2> QED
    BY <2>1, <2>3
<1>7. CASE e # None /\ e.variant = "window_edge"
  <2> DEFINE shaped == Stretched(w, 6)
             T == {shaped.start + k : k \in {j * edge : j \in 0 .. 5}}
  <2>1. records' = {Record(at) : at \in T}
    <3>1. records' = CampaignRecords(w, 6) /\ 6 - 1 = 5
      BY <1>1, <1>5, <1>7
    <3> QED
      BY <3>1, <1>7 DEF CampaignRecords
  <2>2. ASSUME NEW k \in 0 .. 5
        PROVE  /\ shaped.start \in Int /\ edge \in Nat \ {0}
               /\ SplitStart(stage.split) <= shaped.start + k * edge
               /\ shaped.start + k * edge < SplitEnd(stage.split)
    BY <1>2, <1>7, EdgesKeepToTheirSplit
  <2>3. \A at \in T : \E k \in 0 .. 5 : at = shaped.start + k * edge
    OBVIOUS
  <2>4. 0 \in 0 .. 5
    OBVIOUS
  <2>5. shaped.start \in Int /\ edge \in Nat \ {0}
    BY <2>2, <2>4
  <2> HIDE DEF T, shaped
  <2>6. \A at \in T : SplitStart(stage.split) <= at /\ at < SplitEnd(stage.split)
    BY <2>2, <2>3
  <2>7. CampaignInstants(T)
    BY <2>3, <2>5, <2>6 DEF CampaignInstants
  <2> QED
    BY <2>1, <2>7
<1> QED
  BY <1>4, <1>6, <1>7

\* The events of a campaign: all in its split and, at the edge of a feature window,
\* never two in one window.
LEMMA CampaignsStep ==
    ASSUME Stage, Windows, ChainsValidate, stage.scenario # "done", Campaigns
    PROVE  /\ EventsKeepToTheirSplit' /\ ChainsValidate'
           /\ \A r \in records', x \in records' :
                LET e == config.splits[r.split].evasion
                IN  (r.scenario = "attack" /\ e # None /\ e.variant = "window_edge" /\ r # x) =>
                      ~(r.at - (e.parameter \div 10) < x.at /\ x.at <= r.at)
<1> DEFINE e == Split.evasion
           edge == e.parameter \div 10
<1>1. PICK T : records' = {Record(at) : at \in T} /\ CampaignInstants(T)
  BY CampaignTimes
<1>2. stage.scenario = "attack" /\ config' = config /\ failed' = failed
  BY AdvanceStep DEF Campaigns
<1>3. EventsKeepToTheirSplit'
  BY <1>1, <1>2, RecordsKeepToTheirSplit DEF CampaignInstants
<1>4. ChainsValidate'
  <2>1. stage.scenario # "legitimate_retry"
    BY <1>2
  <2> QED
    BY <1>1, <1>2, <2>1, OthersAreNoChains
<1>5. ASSUME e # None, e.variant = "window_edge", NEW r \in records', NEW x \in records',
             r.at - edge < x.at, x.at <= r.at
      PROVE  r = x
  <2>1. PICK at \in T, bt \in T : r = Record(at) /\ x = Record(bt)
    BY <1>1
  <2>2. r.at = at /\ x.at = bt
    BY <2>1 DEF Record
  <2>3. edge \in Nat \ {0}
    BY <1>1, <1>5 DEF CampaignInstants
  <2>4. PICK first \in Int : \A t \in T : \E k \in 0 .. 5 : t = first + k * edge
    BY <1>1, <1>5 DEF CampaignInstants
  <2>5. PICK i \in 0 .. 5 : at = first + i * edge
    BY <2>4
  <2>6. PICK j \in 0 .. 5 : bt = first + j * edge
    BY <2>4
  <2> HIDE DEF edge
  <2>7. (i - 1) * edge < j * edge /\ j * edge <= i * edge
    BY <1>5, <2>2, <2>3, <2>5, <2>6
  <2>8. i = j
    BY <2>3, <2>7
  <2> QED
    BY <2>1, <2>5, <2>6, <2>8
<1>6. \A r \in records' : r.split = stage.split
  BY <1>1 DEF Record
<1>7. \A r \in records' : config.splits[r.split].evasion = e
  BY <1>6 DEF Split
<1> HIDE DEF e
<1> QED
  BY <1>3, <1>4, <1>5, <1>7

--------------------------------------------------------------------------------
(* Namespaces.                                                                *)

\* Nothing is left out of the canonical form of an accepted configuration.
LEMMA NothingIsLeftOut ==
    ASSUME NEW c \in Configs, ValidConfig(c), c.version # "1.0.0"
    PROVE  EffectiveConfiguration(c) = c
<1>1. c \in GeneratorConfigs /\ ProfileContract(c)
  BY ConfigTypes DEF ValidConfig
<1>2. c.version # "1.2.0" => \A n \in Names : c.splits[n].evasion = None
  BY SMTT(30), <1>1, TheNames DEF ProfileContract
<1> DEFINE effective(n) == EffectiveSplit(c.version, c.splits[n])
<1>3. c.splits \in [Names -> SplitConfigs]
  BY <1>1 DEF GeneratorConfigs, Names
<1>4. ASSUME NEW n \in Names PROVE effective(n) = c.splits[n]
  <2> DEFINE s == c.splits[n]
  <2>1. s \in SplitConfigs
    BY <1>3
  <2>2. c.version = "1.2.0" \/ s.evasion = None
    BY <1>2
  <2> HIDE DEF s
  <2>3. [s EXCEPT !.evasion = s.evasion, !.placement = s.placement] = s
    BY <2>1 DEF SplitConfigs
  <2>4. EffectiveSplit(c.version, s) = [s EXCEPT !.evasion = s.evasion, !.placement = s.placement]
    BY <2>2 DEF EffectiveSplit
  <2> QED
    BY <2>3, <2>4 DEF s
<1>5. [n \in DOMAIN c.splits |-> effective(n)] = c.splits
  BY <1>3, <1>4
<1>6. EffectiveConfiguration(c) = [c EXCEPT !.splits = [n \in DOMAIN c.splits |-> effective(n)]]
  BY SMTT(30) DEF EffectiveConfiguration
<1>7. [c EXCEPT !.splits = c.splits] = c
  BY <1>1 DEF GeneratorConfigs
<1> QED
  BY <1>5, <1>6, <1>7

\* The first half of EvasionIsConfined, which is about configurations alone.
NamespacesAreDistinct ==
    \A c \in Configs : ValidConfig(c) /\ Namespace(c) = Namespace(config) =>
        IF c.version = "1.0.0" THEN \A n \in ToSet(SplitNames) : c.splits[n].evasion = None
        ELSE c = config

\* The second half, which is about the events of a campaign.
WindowsHoldOneEvent ==
    \A r \in records, x \in records :
        LET e == config.splits[r.split].evasion
        IN  (r.scenario = "attack" /\ e # None /\ e.variant = "window_edge" /\ r # x) =>
              ~(r.at - (e.parameter \div 10) < x.at /\ x.at <= r.at)

\* The two halves of the property about evasion.
LEMMA Confined == EvasionIsConfined <=> NamespacesAreDistinct /\ WindowsHoldOneEvent
BY DEF EvasionIsConfined, NamespacesAreDistinct, WindowsHoldOneEvent

\* Equal pairs agree in both places.
LEMMA EqualPairs ==
    ASSUME NEW v, NEW a, NEW w, NEW b, <<v, a>> = <<w, b>>
    PROVE  v = w /\ a = b
OBVIOUS

\* Accepted configurations with one namespace are one configuration, or of a
\* schema that knows no evasion.
LEMMA OneNamespace == Stage => NamespacesAreDistinct
<1> SUFFICES ASSUME Stage, NEW c \in Configs, ValidConfig(c), Namespace(c) = Namespace(config)
             PROVE  IF c.version = "1.0.0" THEN \A n \in ToSet(SplitNames) : c.splits[n].evasion = None
                    ELSE c = config
  BY DEF NamespacesAreDistinct
<1>1. ProfileContract(c)
  BY DEF ValidConfig
<1>2. CASE c.version = "1.0.0"
  BY <1>1, <1>2 DEF ProfileContract
<1>3. CASE c.version # "1.0.0"
  <2>1. Namespace(c) = <<"1.1.0", EffectiveConfiguration(c)>>
    BY <1>3 DEF Namespace
  <2>2. config.version # "1.0.0"
    <3> SUFFICES ASSUME config.version = "1.0.0" PROVE FALSE
      OBVIOUS
    <3>1. Namespace(config) = <<"1.0.0", None>>
      BY DEF Namespace
    <3>2. <<"1.1.0", EffectiveConfiguration(c)>> = <<"1.0.0", None>>
      BY <2>1, <3>1, Zenon
    <3>3. "1.1.0" = "1.0.0"
      BY <3>2, EqualPairs
    <3> QED
      BY <3>3
  <2>3. Namespace(config) = <<"1.1.0", EffectiveConfiguration(config)>>
    BY <2>2 DEF Namespace
  <2>4. EffectiveConfiguration(c) = EffectiveConfiguration(config)
    <3>1. <<"1.1.0", EffectiveConfiguration(c)>> = <<"1.1.0", EffectiveConfiguration(config)>>
      BY <2>1, <2>3, Zenon
    <3> QED
      BY <3>1, EqualPairs
  <2> QED
    BY <1>3, <2>2, <2>4, NothingIsLeftOut DEF Stage
<1> QED
  BY <1>2, <1>3

\* Events of other scenarios do not evade.
LEMMA OthersDoNotEvade ==
    ASSUME stage.scenario # "attack", NEW T, records' = {Record(at) : at \in T}
    PROVE  WindowsHoldOneEvent'
<1>1. \A r \in records' : r.scenario # "attack"
  BY DEF Record
<1> QED
  BY <1>1 DEF WindowsHoldOneEvent

--------------------------------------------------------------------------------
(* The invariant.                                                             *)

\* A step that only cuts a quota or places a campaign draws no records.
LEMMA UndrawnStep ==
    ASSUME EventsKeepToTheirSplit, ChainsValidate, WindowsHoldOneEvent,
           config' = config, failed' = failed, records' = records
    PROVE  EventsKeepToTheirSplit' /\ ChainsValidate' /\ WindowsHoldOneEvent'
<1>1. EventsKeepToTheirSplit'
  BY DEF EventsKeepToTheirSplit, SplitStart, SplitEnd
<1>2. ChainsValidate'
  BY DEF ChainsValidate, GapsBetween
<1>3. WindowsHoldOneEvent'
  BY DEF WindowsHoldOneEvent
<1> QED
  BY <1>1, <1>2, <1>3

\* The invariant holds before the first record.
LEMMA InitHolds == Init => GeneratorInv
<1> SUFFICES ASSUME Init PROVE GeneratorInv
  OBVIOUS
<1>1. Stage
  BY TheNames DEF Init, Stage, Names
<1>2. Windows /\ Spacing /\ Chains
  BY DEF Init, Windows, Spacing, Chains
<1>3. EventsKeepToTheirSplit
  BY DEF Init, EventsKeepToTheirSplit
<1>4. ChainsValidate
  <2>1. failed # "retry_quota_cannot_form_valid_chains"
    BY ConfigsAssumption DEF Init
  <2>2. {r.at : r \in {x \in records : x.scenario = "legitimate_retry"}} = {}
    BY DEF Init
  <2> QED
    BY <2>1, <2>2 DEF ChainsValidate
<1>5. WindowsHoldOneEvent
  BY DEF Init, WindowsHoldOneEvent
<1> QED
  BY <1>1, <1>2, <1>3, <1>4, <1>5, OneNamespace, Confined DEF GeneratorInv

\* Every step keeps the invariant.
LEMMA StepHolds == GeneratorInv /\ [Next]_vars => GeneratorInv'
<1> SUFFICES ASSUME GeneratorInv, [Next]_vars PROVE GeneratorInv'
  OBVIOUS
<1>1. /\ Stage /\ Windows /\ Spacing /\ Chains
      /\ EventsKeepToTheirSplit /\ ChainsValidate /\ WindowsHoldOneEvent
  BY Confined DEF GeneratorInv
<1> SUFFICES /\ Stage' /\ Windows' /\ Spacing' /\ Chains'
             /\ EventsKeepToTheirSplit' /\ ChainsValidate' /\ WindowsHoldOneEvent'
  <2>1. Stage' => NamespacesAreDistinct'
    BY OneNamespace, PTL
  <2>2. EvasionIsConfined' <=> NamespacesAreDistinct' /\ WindowsHoldOneEvent'
    BY Confined, PTL
  <2> QED
    BY <2>1, <2>2 DEF GeneratorInv
<1>2. CASE UNCHANGED vars
  <2>1. /\ config' = config /\ stage' = stage /\ remaining' = remaining /\ sizes' = sizes
        /\ last' = last /\ windows' = windows /\ records' = records /\ failed' = failed
    BY <1>2 DEF vars
  <2>2. EventsKeepToTheirSplit' /\ ChainsValidate' /\ WindowsHoldOneEvent'
    BY <1>1, <2>1, UndrawnStep
  <2>3. Stage' /\ Chains'
    BY <1>1, <2>1 DEF Stage, Chains, ValidConfig
  <2>4. Windows' /\ Spacing'
    BY <1>1, <2>1, SameWindows
  <2> QED
    BY <2>2, <2>3, <2>4
<1> SUFFICES ASSUME Next PROVE /\ Stage' /\ Windows' /\ Spacing' /\ Chains'
                               /\ EventsKeepToTheirSplit' /\ ChainsValidate' /\ WindowsHoldOneEvent'
  BY <1>2
<1>3. stage.scenario # "done"
  BY DEF Next
<1>4. CASE Scatter
  <2>1. PICK at \in TimeIn(0) : records' = {Record(at)}
    BY <1>4 DEF Scatter
  <2> DEFINE T == {at}
  <2>2. records' = {Record(x) : x \in T} /\ stage.scenario # "attack"
    BY <1>4, <2>1 DEF Scatter
  <2> HIDE DEF T
  <2>3. WindowsHoldOneEvent'
    BY <2>2, OthersDoNotEvade
  <2>4. Stage' /\ Windows' /\ Spacing' /\ Chains'
    BY <1>1, <1>3, <1>4, AdvanceStep DEF Scatter
  <2> QED
    BY <1>1, <1>3, <1>4, <2>3, <2>4, ScatterStep
<1>5. CASE FlashSale
  <2>1. PICK length \in Lengths :
          \E start \in TimeIn(length + 1) : records' = {Record(start + k) : k \in Draw(length)}
    BY <1>5 DEF FlashSale
  <2>2. PICK start \in TimeIn(length + 1) : records' = {Record(start + k) : k \in Draw(length)}
    BY <2>1
  <2> DEFINE T == {start + k : k \in Draw(length)}
  <2>3. records' = {Record(x) : x \in T} /\ stage.scenario # "attack"
    BY <1>5, <2>2 DEF FlashSale
  <2> HIDE DEF T
  <2>4. WindowsHoldOneEvent'
    BY <2>3, OthersDoNotEvade
  <2>5. Stage' /\ Windows' /\ Spacing' /\ Chains'
    BY <1>1, <1>3, <1>5, AdvanceStep DEF FlashSale
  <2> QED
    BY <1>1, <1>3, <1>5, <2>4, <2>5, FlashSaleStep
<1>6. CASE CutChain
  <2>1. /\ config' = config /\ failed' = failed /\ records' = records
        /\ stage' = stage /\ windows' = windows
    BY <1>6 DEF CutChain
  <2>2. Stage'
    BY <1>1, <2>1 DEF Stage, ValidConfig
  <2>3. Windows' /\ Spacing'
    BY <1>1, <2>1, SameWindows
  <2> QED
    BY <1>1, <1>6, <2>1, <2>2, <2>3, CutChainStep, UndrawnStep
<1>7. CASE Retries
  <2>1. PICK size \in ChainSizes, gap \in {config.retry.minGap, config.retry.maxGap} :
          \E start \in TimeIn(ChainMargin(size)) :
            records' = {Record(start + gap * k) : k \in 0 .. size - 1}
    BY <1>7 DEF Retries
  <2>2. PICK start \in TimeIn(ChainMargin(size)) :
          records' = {Record(start + gap * k) : k \in 0 .. size - 1}
    BY <2>1
  <2> DEFINE T == {start + gap * k : k \in 0 .. size - 1}
  <2>3. records' = {Record(x) : x \in T} /\ stage.scenario # "attack"
    BY <1>7, <2>2 DEF Retries
  <2> HIDE DEF T
  <2>4. WindowsHoldOneEvent'
    BY <2>3, OthersDoNotEvade
  <2>5. Stage' /\ Windows' /\ Spacing' /\ Chains'
    BY <1>1, <1>3, <1>7, AdvanceStep DEF Retries
  <2> QED
    BY <1>1, <1>3, <1>7, <2>4, <2>5, RetriesStep
<1>8. CASE ChainsInvalid
  <2>1. config.retry.fewest > 2
    <3>1. config.retry.fewest \in 2 .. 4
      BY <1>1, ConfigTypes DEF Stage
    <3>2. config.retry.fewest # 2
      BY <1>1, <1>8, ChainsAreCut DEF ChainsInvalid
    <3> QED
      BY <3>1, <3>2
  <2>2. Fail("retry_quota_cannot_form_valid_chains")
    BY <1>8 DEF ChainsInvalid
  <2>3. WindowsHoldOneEvent'
    BY <2>2 DEF Fail, WindowsHoldOneEvent
  <2> QED
    BY <1>1, <2>1, <2>2, <2>3, FailStep
<1>9. CASE PlaceCampaign
  <2>1. /\ config' = config /\ failed' = failed /\ records' = records
        /\ stage' = stage /\ remaining' = remaining /\ sizes' = sizes /\ last' = last
    BY <1>9 DEF PlaceCampaign
  <2>2. Stage' /\ Chains'
    BY <1>1, <1>9, <2>1 DEF Stage, Chains, ValidConfig, PlaceCampaign, Placing
  <2> QED
    BY <1>1, <1>9, <2>1, <2>2, PlaceCampaignStep, UndrawnStep
<1>10. CASE PlacementInfeasible
  <2>1. Fail("campaign_placement_infeasible")
    BY <1>10 DEF PlacementInfeasible
  <2>2. WindowsHoldOneEvent'
    BY <2>1 DEF Fail, WindowsHoldOneEvent
  <2> QED
    BY <1>1, <2>1, <2>2, FailStep
<1>11. CASE PlacementRegular
  <2>1. Fail("campaign_placement_must_be_irregular")
    BY <1>11 DEF PlacementRegular
  <2>2. WindowsHoldOneEvent'
    BY <2>1 DEF Fail, WindowsHoldOneEvent
  <2> QED
    BY <1>1, <2>1, <2>2, FailStep
<1>12. CASE Campaigns
  <2>1. Stage' /\ Windows' /\ Spacing' /\ Chains' /\ config' = config
    BY <1>1, <1>3, <1>12, AdvanceStep DEF Campaigns
  <2>2. WindowsHoldOneEvent'
    BY <1>1, <1>3, <1>12, <2>1, CampaignsStep DEF WindowsHoldOneEvent
  <2> QED
    BY <1>1, <1>3, <1>12, <2>1, <2>2, CampaignsStep
<1> QED
  BY <1>4, <1>5, <1>6, <1>7, <1>8, <1>9, <1>10, <1>11, <1>12 DEF Next

\* The invariant of the generator: stages, windows and chains, and the three
\* properties below, which are part of it (simulation/generation.py).
THEOREM GeneratorInvariantHolds == Spec => []GeneratorInv
<1>1. Init => GeneratorInv
  BY InitHolds
<1>2. GeneratorInv /\ [Next]_vars => GeneratorInv'
  BY StepHolds
<1> QED
  BY <1>1, <1>2, PTL DEF Spec

\* No event leaves the split it is labelled with, for every accepted configuration
\* and every draw (generation.py:712-731).
THEOREM NoEventLeavesItsSplit == Spec => []EventsKeepToTheirSplit
<1>1. GeneratorInv => EventsKeepToTheirSplit
  BY DEF GeneratorInv
<1> QED
  BY <1>1, GeneratorInvariantHolds, PTL

\* Every retry chain is valid, and with chains of two allowed every quota can be cut
\* into chains, whatever sizes are drawn (generation.py:72-89).
THEOREM EveryChainValidates == Spec => []ChainsValidate
<1>1. GeneratorInv => ChainsValidate
  BY DEF GeneratorInv
<1> QED
  BY <1>1, GeneratorInvariantHolds, PTL

\* An evasion shape reaches no dataset but its own, and a campaign at the edge of a
\* feature window has one event in each (config.py:720-758, generation.py:736-746).
THEOREM EvasionStaysConfined == Spec => []EvasionIsConfined
<1>1. GeneratorInv => EvasionIsConfined
  BY DEF GeneratorInv
<1> QED
  BY <1>1, GeneratorInvariantHolds, PTL

--------------------------------------------------------------------------------
(* Placements.                                                                *)

\* What is known of a finished placement.
LEMMA PlacedFacts ==
    ASSUME GeneratorInv, Placed
    PROVE  /\ Split.placement # None /\ Split.placement.gap \in Nat
           /\ Split.placement.before \in Nat /\ Split.placement.after \in Nat
           /\ Split.placement.before + Split.placement.after = Split.campaigns
           /\ IsFiniteSet(windows) /\ Cardinality(windows) = Split.campaigns
           /\ Boundary \in Nat
           /\ \A w \in windows :
                /\ PlacedIn(w) /\ w.start \in Int /\ w.length \in Nat \ {0}
                /\ EndOf(w) = w.start + w.length
           /\ \A v \in windows, w \in windows : v # w => Apart(v, w)
<1>1. Split \in SplitConfigs /\ stage.split \in Names
  BY ConfigTypes DEF GeneratorInv, Stage, Split
<1>2. Split.placement # None /\ Cardinality(windows) = Split.campaigns
  BY DEF Placed
<1>3. Split.placement \in Placements /\ Split.campaigns \in Nat \ {0}
  BY <1>1, <1>2, SplitTypes
<1>4. /\ Split.placement.before \in Nat /\ Split.placement.after \in Nat /\ Split.placement.gap \in Nat
  BY <1>3, PlacementTypes
<1>5. PlacementFits(Split)
  BY <1>2, TheNames DEF GeneratorInv, Stage, ValidConfig, Split
<1>6. windows # {}
  BY <1>2, <1>3, FS_EmptySet
<1>7. Boundary \in Nat
  BY <1>2, BoundaryRange DEF GeneratorInv
<1>8. ASSUME NEW w \in windows
      PROVE  PlacedIn(w) /\ w.start \in Int /\ w.length \in Nat \ {0} /\ EndOf(w) = w.start + w.length
  <2>1. PlacedIn(w)
    BY DEF GeneratorInv, Windows
  <2>2. w.start \in Int /\ w.length \in Lengths
    BY <2>1 DEF PlacedIn
  <2> QED
    BY <2>1, <2>2, LengthRange DEF EndOf
<1>9. /\ IsFiniteSet(windows)
      /\ \A v \in windows, w \in windows : v # w => Apart(v, w)
  BY <1>6 DEF GeneratorInv, Spacing
<1>10. Split.placement.before + Split.placement.after = Split.campaigns
  BY <1>5 DEF PlacementFits
<1> QED
  BY <1>2, <1>4, <1>7, <1>8, <1>9, <1>10

\* Every side has all of its campaigns.
LEMMA SidesAreFull ==
    ASSUME GeneratorInv, Placed
    PROVE  /\ Cardinality(Side("before")) = Split.placement.before
           /\ Cardinality(Side("after")) = Split.placement.after
           /\ IsFiniteSet(Side("before")) /\ IsFiniteSet(Side("after"))
           /\ windows = Side("before") \cup Side("after")
<1> DEFINE B == Side("before")
           A == Side("after")
           p == Split.placement
<1>1. /\ IsFiniteSet(windows) /\ Cardinality(windows) = p.before + p.after
      /\ p.before \in Nat /\ p.after \in Nat
      /\ \A w \in windows : w.side \in {"before", "after"}
  BY PlacedFacts DEF PlacedIn
<1>2. B \in SUBSET windows /\ A \in SUBSET windows
  BY DEF Side
<1>3. IsFiniteSet(B) /\ IsFiniteSet(A) /\ Cardinality(B) \in Nat /\ Cardinality(A) \in Nat
  BY <1>1, <1>2, FS_Subset, FS_CardinalityType
<1>4. windows = B \cup A /\ B \cap A = {}
  BY <1>1 DEF Side
<1>5. Cardinality(windows) = Cardinality(B) + Cardinality(A) - Cardinality(B \cap A)
  BY <1>3, <1>4, FS_Union
<1>6. Cardinality(B \cap A) = 0
  BY <1>4, FS_EmptySet
<1>7. Cardinality(B) <= p.before /\ Cardinality(A) <= p.after
  <2>1. CASE windows = {}
    <3>1. Cardinality(B) = 0 /\ Cardinality(A) = 0
      BY <2>1, <1>2, FS_EmptySet
    <3> QED
      BY <1>1, <3>1
  <2>2. CASE windows # {}
    <3>1. Cardinality(B) <= Places("before") /\ Cardinality(A) <= Places("after")
      BY <2>2 DEF GeneratorInv, Spacing
    <3> QED
      BY <3>1 DEF Places
  <2> QED
    BY <2>1, <2>2
<1> HIDE DEF A, B, p
<1>8. Cardinality(B) = p.before /\ Cardinality(A) = p.after
  BY <1>1, <1>3, <1>5, <1>6, <1>7
<1> QED
  BY <1>3, <1>4, <1>8 DEF A, B, p

\* What the events of the campaigns may span: something within each window.
Envelopes(env) ==
    \A w \in windows :
      /\ env[w] \in Int \X Int
      /\ w.start <= env[w][1] /\ env[w][1] <= env[w][2] /\ env[w][2] <= EndOf(w)

EnvelopesOf(env) == {env[w] : w \in windows}

\* The envelopes of different campaigns are different, and in the order of the windows.
LEMMA EnvelopesAreOrdered ==
    ASSUME GeneratorInv, Placed, NEW env, Envelopes(env),
           \A w \in windows : env[w][1] < EndOf(w),
           NEW v \in windows, NEW w \in windows
    PROVE  /\ v # w => env[v][1] # env[w][1]
           /\ env[v][1] < env[w][1] => EndOf(v) + Split.placement.gap <= w.start
<1>1. /\ env[v][1] \in Int /\ env[w][1] \in Int
      /\ v.start <= env[v][1] /\ env[v][1] < EndOf(v)
      /\ w.start <= env[w][1] /\ env[w][1] < EndOf(w)
  BY DEF Envelopes
<1>2. /\ v.start \in Int /\ w.start \in Int /\ EndOf(v) \in Int /\ EndOf(w) \in Int
      /\ Split.placement.gap \in Nat
  BY PlacedFacts
<1>3. v # w => \/ EndOf(v) + Split.placement.gap <= w.start
               \/ EndOf(w) + Split.placement.gap <= v.start
  BY PlacedFacts DEF Apart
<1> QED
  BY <1>1, <1>2, <1>3

\* There are as many envelopes as campaigns.
LEMMA EnvelopesAreCounted ==
    ASSUME GeneratorInv, Placed, NEW env, Envelopes(env),
           \A w \in windows : env[w][1] < EndOf(w),
           NEW S \in SUBSET windows
    PROVE  /\ IsFiniteSet({env[w] : w \in S})
           /\ Cardinality({env[w] : w \in S}) = Cardinality(S)
<1> DEFINE T == {env[w] : w \in S}
           f == [w \in S |-> env[w]]
<1>1. IsFiniteSet(S)
  BY PlacedFacts, FS_Subset
<1>2. f \in [S -> T] /\ \A t \in T : \E s \in S : f[s] = t
  OBVIOUS
<1>3. \A v \in S, w \in S : f[v] = f[w] => v = w
  <2> SUFFICES ASSUME NEW v \in S, NEW w \in S, v # w PROVE f[v] # f[w]
    OBVIOUS
  <2>1. env[v][1] # env[w][1]
    BY EnvelopesAreOrdered
  <2> QED
    BY <2>1
<1>4. f \in Bijection(S, T)
  BY <1>2, <1>3 DEF Bijection, Injection, Surjection, IsInjective
<1> HIDE DEF T, f
<1>5. IsFiniteSet(T) /\ Cardinality(T) = Cardinality(S)
  BY <1>1, <1>4, FS_Bijection DEF ExistsBijection
<1> QED
  BY <1>5 DEF T

\* The boundary of the trainer is that of the development profile, with five
\* campaigns of 34 events on each side.
LEMMA DevelopmentPlacement ==
    ASSUME GeneratorInv, Placed, config.profile = "development"
    PROVE  /\ stage.split = "calibration"
           /\ Split.placement.before = 5 /\ Split.placement.after = 5
           /\ Boundary = SplitStart("calibration")
                           + BoundaryOffset(Day * config.splits["calibration"].days, 6000)
           /\ \A k \in 0 .. 9 : GroupSize(Attacks("calibration"), 10, k) = 34
<1>1. /\ stage.split \in Names /\ Split = config.splits[stage.split]
      /\ Split.placement # None /\ ProfileContract(config)
  BY DEF GeneratorInv, Stage, ValidConfig, Split, Placed
<1>2. config.version # "1.0.0"
  BY <1>1, TheNames DEF ProfileContract
<1>3. /\ {n \in ToSet(SplitNames) : config.splits[n].placement # None} = {"calibration"}
      /\ LockedContract(config)
  BY <1>1, <1>2 DEF ProfileContract
<1>4. stage.split = "calibration"
  BY <1>1, <1>3, TheNames
<1>5. Split.placement = Placement(6000, 5, 5, 30, 4096)
  <2>1. LockedPlacements["development"] = Placement(6000, 5, 5, 30, 4096)
    BY DEF LockedPlacements, LockedProfiles
  <2> QED
    BY <1>1, <1>3, <1>4, <2>1 DEF LockedContract
<1>6. Split.placement.basisPoints = 6000 /\ Split.placement.before = 5 /\ Split.placement.after = 5
  BY <1>5 DEF Placement
<1>7. Boundary = SplitStart("calibration") + BoundaryOffset(Day * config.splits["calibration"].days, 6000)
  <2>1. config.splits["calibration"].days * Day = Day * config.splits["calibration"].days
    <3>1. Split \in SplitConfigs
      BY ConfigTypes DEF GeneratorInv, Stage, Split
    <3>2. Split.days \in 1 .. 365
      BY <3>1, SplitTypes
    <3>3. config.splits["calibration"].days \in Nat
      BY <1>1, <1>4, <3>2
    <3> QED
      BY <3>3 DEF Day
  <2> QED
    BY <1>1, <1>4, <1>6, <2>1 DEF Boundary
<1>8. \A k \in 0 .. 9 : GroupSize(Attacks("calibration"), 10, k) = 34
  <2>1. LockedShapes["development"]["calibration"] = Shape(5, 17000, 10)
    BY DEF LockedShapes, LockedProfiles
  <2>2. config.splits["calibration"].events = 17000
    BY <1>3, <2>1, TheNames DEF LockedContract, Shape, Names
  <2>3. Attacks("calibration") = (17000 * 200) \div 10000
    BY <2>2 DEF Attacks, ScenarioCount, Weights
  <2>4. Attacks("calibration") = 340
    BY <2>3
  <2> QED
    BY <2>4 DEF GroupSize
<1> QED
  BY <1>4, <1>6, <1>7, <1>8

\* Wherever in their windows the events fall, the validator finds the campaigns on
\* their sides of the boundary, all of them, and with the gap between them.
LEMMA EnvelopesValidate ==
    ASSUME GeneratorInv, Placed, NEW env, Envelopes(env), \A w \in windows : env[w][2] < EndOf(w),
           NEW envelopes, envelopes = EnvelopesOf(env)
    PROVE  /\ PlacementErrors(envelopes) =
                IF Regular(envelopes) THEN {"campaign_placement_not_irregular"} ELSE {}
           /\ config.profile = "development" => TrainerAccepts(envelopes)
<1> USE DEF EnvelopesOf
<1> DEFINE p == Split.placement
           before == {e \in envelopes : e[2] < Boundary}
           after == {e \in envelopes : e[1] >= Boundary}
<1>1. ASSUME NEW w \in windows
      PROVE  /\ env[w][1] \in Int /\ env[w][2] \in Int
             /\ w.start <= env[w][1] /\ env[w][1] <= env[w][2] /\ env[w][2] < EndOf(w)
             /\ env[w][1] < EndOf(w)
             /\ w.start \in Int /\ EndOf(w) \in Int
  <2>1. w.start \in Int /\ EndOf(w) \in Int
    BY PlacedFacts
  <2>2. /\ env[w][1] \in Int /\ env[w][2] \in Int
        /\ w.start <= env[w][1] /\ env[w][1] <= env[w][2] /\ env[w][2] < EndOf(w)
    BY DEF Envelopes
  <2> QED
    BY <2>1, <2>2
<1>2. Boundary \in Nat /\ p.gap \in Nat /\ p.before \in Nat /\ p.after \in Nat
  BY PlacedFacts
<1>3. \A w \in Side("before") : env[w][2] < Boundary /\ ~(env[w][1] >= Boundary)
  <2> TAKE w \in Side("before")
  <2>1. w \in windows /\ EndOf(w) <= Boundary
    BY PlacedFacts DEF Side, PlacedIn
  <2> QED
    BY <1>1, <1>2, <2>1
<1>4. \A w \in Side("after") : env[w][1] >= Boundary /\ ~(env[w][2] < Boundary)
  <2> TAKE w \in Side("after")
  <2>1. w \in windows /\ Boundary <= w.start
    BY PlacedFacts DEF Side, PlacedIn
  <2> QED
    BY <1>1, <1>2, <2>1
<1>5. windows = Side("before") \cup Side("after")
  BY SidesAreFull
<1>6. before = {env[w] : w \in Side("before")} /\ after = {env[w] : w \in Side("after")}
  BY <1>3, <1>4, <1>5
<1>7. envelopes = before \cup after
  BY <1>5, <1>6
<1>8. Cardinality(before) = p.before /\ Cardinality(after) = p.after
  <2>1. Side("before") \in SUBSET windows /\ Side("after") \in SUBSET windows
    BY DEF Side
  <2> HIDE DEF before, after
  <2> QED
    BY <1>1, <1>6, <2>1, EnvelopesAreCounted, SidesAreFull
<1>9. ASSUME NEW g \in GapsBetween(envelopes) PROVE g >= p.gap
  <2>1. PICK q \in envelopes \X envelopes : g = q[2][1] - q[1][2] /\ q[1][1] < q[2][1]
    BY <1>9 DEF GapsBetween
  <2>2. PICK v \in windows, w \in windows : q = <<env[v], env[w]>>
    OBVIOUS
  <2>3. g = env[w][1] - env[v][2] /\ env[v][1] < env[w][1]
    BY <2>1, <2>2
  <2>4. EndOf(v) + p.gap <= w.start
    BY <1>1, <2>3, EnvelopesAreOrdered
  <2> HIDE DEF p
  <2> QED
    BY <1>1, <1>2, <2>3, <2>4
<1>10. PlacementErrors(envelopes) =
         (IF envelopes = before \cup after THEN {} ELSE {"campaign_crosses_protected_boundary"})
         \cup (IF Cardinality(before) >= p.before THEN {} ELSE {"campaigns_before_boundary_missing"})
         \cup (IF Cardinality(after) >= p.after THEN {} ELSE {"campaigns_after_boundary_missing"})
         \cup (IF \A g \in GapsBetween(envelopes) : g >= p.gap THEN {} ELSE {"campaign_placement_gap_invalid"})
         \cup (IF Regular(envelopes) THEN {"campaign_placement_not_irregular"} ELSE {})
  BY DEF PlacementErrors
<1> HIDE DEF before, after, p
<1>11. Cardinality(before) >= p.before /\ Cardinality(after) >= p.after
  BY <1>2, <1>8
<1>12. PlacementErrors(envelopes) = IF Regular(envelopes) THEN {"campaign_placement_not_irregular"} ELSE {}
  BY <1>7, <1>9, <1>10, <1>11
<1>13. ASSUME config.profile = "development" PROVE TrainerAccepts(envelopes)
  <2>1. /\ Boundary = SplitStart("calibration")
                        + BoundaryOffset(Day * config.splits["calibration"].days, 6000)
        /\ p.before = 5 /\ p.after = 5
        /\ \A k \in 0 .. 9 : GroupSize(Attacks("calibration"), 10, k) = 34
    BY <1>13, DevelopmentPlacement DEF p
  <2>2. TrainerAccepts(envelopes) <=>
          /\ envelopes = before \cup after
          /\ Cardinality(before) = 5 /\ Cardinality(after) = 5
          /\ \A k \in 0 .. 9 : GroupSize(Attacks("calibration"), 10, k) = 34
    BY <2>1 DEF TrainerAccepts, before, after
  <2> QED
    BY <1>7, <1>8, <2>1, <2>2
<1> QED
  BY <1>12, <1>13

\* Campaigns that follow one another.
Neighbours ==
    {q \in windows \X windows : q[1].start < q[2].start
        /\ ~\E x \in windows : q[1].start < x.start /\ x.start < q[2].start}

\* The gaps between envelopes that begin with their windows.
LEMMA GapsOfNeighbours ==
    ASSUME NEW env, \A w \in windows : env[w] \in Int \X Int /\ env[w][1] = w.start
    PROVE  GapsBetween({env[w] : w \in windows}) = {env[q[2]][1] - env[q[1]][2] : q \in Neighbours}
<1> DEFINE E == {env[w] : w \in windows}
<1>1. ASSUME NEW g \in GapsBetween(E) PROVE \E q \in Neighbours : g = env[q[2]][1] - env[q[1]][2]
  <2>1. PICK r \in E \X E :
          /\ g = r[2][1] - r[1][2] /\ r[1][1] < r[2][1]
          /\ ~\E x \in E : r[1][1] < x[1] /\ x[1] < r[2][1]
    BY <1>1 DEF GapsBetween
  <2>2. PICK v \in windows, w \in windows : r = <<env[v], env[w]>>
    OBVIOUS
  <2>3. v.start < w.start /\ g = env[w][1] - env[v][2]
    BY <2>1, <2>2
  <2>4. ASSUME NEW x \in windows, v.start < x.start, x.start < w.start PROVE FALSE
    <3>1. env[x] \in E /\ r[1][1] < env[x][1] /\ env[x][1] < r[2][1]
      BY <2>2, <2>4
    <3> QED
      BY <2>1, <3>1
  <2>5. <<v, w>> \in Neighbours
    BY <2>3, <2>4 DEF Neighbours
  <2> QED
    BY <2>3, <2>5
<1>2. ASSUME NEW q \in Neighbours PROVE env[q[2]][1] - env[q[1]][2] \in GapsBetween(E)
  <2>1. /\ q[1] \in windows /\ q[2] \in windows /\ q[1].start < q[2].start
        /\ ~\E x \in windows : q[1].start < x.start /\ x.start < q[2].start
    BY DEF Neighbours
  <2> DEFINE r == <<env[q[1]], env[q[2]]>>
  <2>2. r \in E \X E /\ r[1][1] < r[2][1]
    BY <2>1
  <2>3. ASSUME NEW x \in E, r[1][1] < x[1], x[1] < r[2][1] PROVE FALSE
    BY <2>1, <2>3
  <2>4. env[q[2]][1] - env[q[1]][2] = r[2][1] - r[1][2]
    OBVIOUS
  <2> HIDE DEF E, r
  <2> QED
    BY <2>2, <2>3, <2>4 DEF GapsBetween
<1> HIDE DEF E
<1>3. GapsBetween(E) = {env[q[2]][1] - env[q[1]][2] : q \in Neighbours}
  BY <1>1, <1>2
<1> QED
  BY <1>3 DEF E

\* Windows are evenly spaced when what their events span is.
LEMMA RegularAlike ==
    ASSUME GeneratorInv, Placed
    PROVE  Regular({<<w.start, EndOf(w) - 1>> : w \in windows})
             <=> Regular({<<w.start, EndOf(w)>> : w \in windows})
<1> DEFINE span == [w \in windows |-> <<w.start, EndOf(w) - 1>>]
           window == [w \in windows |-> <<w.start, EndOf(w)>>]
           Spans == {span[w] : w \in windows}
           Whole == {window[w] : w \in windows}
<1>1. ASSUME NEW w \in windows
      PROVE  w.start \in Int /\ EndOf(w) \in Int /\ w.start < EndOf(w)
  <2>1. w.start \in Int /\ w.length \in Nat \ {0} /\ EndOf(w) = w.start + w.length
    BY PlacedFacts
  <2> QED
    BY <2>1
<1>2. Envelopes(span) /\ \A w \in windows : span[w][1] < EndOf(w)
  BY <1>1 DEF Envelopes
<1>3. Envelopes(window) /\ \A w \in windows : window[w][1] < EndOf(w)
  BY <1>1 DEF Envelopes
<1>4. Cardinality(Spans) = Cardinality(Whole)
  <2>1. Cardinality(Spans) = Cardinality(windows)
    <3> HIDE DEF span
    <3> QED
      BY <1>2, EnvelopesAreCounted
  <2>2. Cardinality(Whole) = Cardinality(windows)
    <3> HIDE DEF window
    <3> QED
      BY <1>3, EnvelopesAreCounted
  <2> QED
    BY <2>1, <2>2
<1> DEFINE spanGaps == {span[q[2]][1] - span[q[1]][2] : q \in Neighbours}
           gaps == {window[q[2]][1] - window[q[1]][2] : q \in Neighbours}
<1>5. GapsBetween(Spans) = spanGaps
  <2>1. \A w \in windows : span[w] \in Int \X Int /\ span[w][1] = w.start
    BY <1>1
  <2> HIDE DEF span
  <2> QED
    BY <2>1, GapsOfNeighbours
<1>6. GapsBetween(Whole) = gaps
  <2>1. \A w \in windows : window[w] \in Int \X Int /\ window[w][1] = w.start
    BY <1>1
  <2> HIDE DEF window
  <2> QED
    BY <2>1, GapsOfNeighbours
<1>7. \A q \in Neighbours :
        /\ window[q[2]][1] - window[q[1]][2] \in Int
        /\ span[q[2]][1] - span[q[1]][2] = (window[q[2]][1] - window[q[1]][2]) + 1
  BY <1>1 DEF Neighbours
<1>8. IsFiniteSet(gaps)
  <2>1. IsFiniteSet(windows)
    BY PlacedFacts
  <2>2. IsFiniteSet(windows \X windows) /\ Neighbours \in SUBSET (windows \X windows)
    BY <2>1, FS_Product DEF Neighbours
  <2>3. IsFiniteSet(Neighbours)
    BY <2>2, FS_Subset
  <2> DEFINE f == [q \in Neighbours |-> window[q[2]][1] - window[q[1]][2]]
  <2>4. f \in Surjection(Neighbours, gaps)
    BY DEF Surjection
  <2> HIDE DEF f, gaps
  <2> QED
    BY <2>3, <2>4, FS_Surjection
<1>9. Cardinality(spanGaps) = Cardinality(gaps)
  <2> DEFINE f == [g \in gaps |-> g + 1]
  <2>1. gaps \subseteq Int
    BY <1>7
  <2>2. \A g \in gaps : g + 1 \in spanGaps
    BY ZenonT(30), <1>7
  <2>3. \A h \in spanGaps : \E g \in gaps : h = g + 1
    <3> SUFFICES ASSUME NEW h \in spanGaps
                 PROVE  \E g \in gaps : h = g + 1
      OBVIOUS
    <3>1. PICK q \in Neighbours : h = span[q[2]][1] - span[q[1]][2]
      OBVIOUS
    <3>2. window[q[2]][1] - window[q[1]][2] \in gaps
      OBVIOUS
    <3> HIDE DEF gaps, spanGaps, Neighbours, window, span
    <3>3. h = (window[q[2]][1] - window[q[1]][2]) + 1
      BY <1>7, <3>1
    <3> QED
      BY <3>2, <3>3
  <2> HIDE DEF gaps, spanGaps
  <2>a. f \in [gaps -> spanGaps]
    BY <2>2
  <2>b. \A g \in gaps : f[g] = g + 1
    OBVIOUS
  <2> HIDE DEF f
  <2>4. f \in [gaps -> spanGaps] /\ \A h \in spanGaps : \E g \in gaps : f[g] = h
    BY <2>a, <2>b, <2>3
  <2>5. \A g \in gaps, h \in gaps : f[g] = f[h] => g = h
    BY <2>1, <2>b
  <2>6. f \in Bijection(gaps, spanGaps)
    BY <2>4, <2>5 DEF Bijection, Injection, Surjection, IsInjective
  <2> QED
    BY <1>8, <2>6, FS_Bijection DEF ExistsBijection
<1>10. Spans = {<<w.start, EndOf(w) - 1>> : w \in windows} /\ Whole = {<<w.start, EndOf(w)>> : w \in windows}
  OBVIOUS
<1> HIDE DEF Spans, Whole, gaps, spanGaps
<1>11. Regular(Spans) <=> Regular(Whole)
  BY <1>4, <1>5, <1>6, <1>9 DEF Regular
<1> QED
  BY <1>10, <1>11

\* The properties of a placement follow from the invariant.
LEMMA PlacementValidates == GeneratorInv => CampaignsKeepToTheirSide
<1> SUFFICES ASSUME GeneratorInv, Placed PROVE CampaignsKeepToTheirSide
  BY DEF CampaignsKeepToTheirSide
<1> DEFINE whole == {<<w.start, EndOf(w) - 1>> : w \in windows}
           heads == {<<w.start, w.start>> : w \in windows}
           tails == {<<EndOf(w) - 1, EndOf(w) - 1>> : w \in windows}
<1>1. ASSUME NEW w \in windows
      PROVE  w.start \in Int /\ EndOf(w) \in Int /\ w.start < EndOf(w)
  <2>1. w.start \in Int /\ w.length \in Nat \ {0} /\ EndOf(w) = w.start + w.length
    BY PlacedFacts
  <2> QED
    BY <2>1
<1>2. /\ PlacementErrors(whole) = IF Regular(whole) THEN {"campaign_placement_not_irregular"} ELSE {}
      /\ config.profile = "development" => TrainerAccepts(whole)
  <2> DEFINE env == [w \in windows |-> <<w.start, EndOf(w) - 1>>]
  <2>1. Envelopes(env) /\ \A w \in windows : env[w][2] < EndOf(w)
    BY <1>1 DEF Envelopes
  <2>2. whole = EnvelopesOf(env)
    BY DEF EnvelopesOf
  <2> HIDE DEF env, whole
  <2> QED
    BY <2>1, <2>2, EnvelopesValidate
<1>3. /\ PlacementErrors(heads) = IF Regular(heads) THEN {"campaign_placement_not_irregular"} ELSE {}
      /\ config.profile = "development" => TrainerAccepts(heads)
  <2> DEFINE env == [w \in windows |-> <<w.start, w.start>>]
  <2>1. Envelopes(env) /\ \A w \in windows : env[w][2] < EndOf(w)
    BY <1>1 DEF Envelopes
  <2>2. heads = EnvelopesOf(env)
    BY DEF EnvelopesOf
  <2> HIDE DEF env, heads
  <2> QED
    BY <2>1, <2>2, EnvelopesValidate
<1>4. /\ PlacementErrors(tails) = IF Regular(tails) THEN {"campaign_placement_not_irregular"} ELSE {}
      /\ config.profile = "development" => TrainerAccepts(tails)
  <2> DEFINE env == [w \in windows |-> <<EndOf(w) - 1, EndOf(w) - 1>>]
  <2>1. Envelopes(env) /\ \A w \in windows : env[w][2] < EndOf(w)
    BY <1>1 DEF Envelopes
  <2>2. tails = EnvelopesOf(env)
    BY DEF EnvelopesOf
  <2> HIDE DEF env, tails
  <2> QED
    BY <2>1, <2>2, EnvelopesValidate
<1>5. Regular(whole) <=> Regular({<<w.start, EndOf(w)>> : w \in windows})
  BY RegularAlike
<1> DEFINE Errors(envelopes) == PlacementErrors(envelopes) \subseteq {"campaign_placement_not_irregular"}
<1>6. Errors(whole) /\ Errors(heads) /\ Errors(tails)
  BY <1>2, <1>3, <1>4
<1>7. PlacementErrors(whole) = {} <=> ~Regular({<<w.start, EndOf(w)>> : w \in windows})
  BY <1>2, <1>5
<1> HIDE DEF whole, heads, tails
<1>8. \A envelopes \in {whole, heads, tails} :
        /\ Errors(envelopes)
        /\ config.profile = "development" => TrainerAccepts(envelopes)
  BY <1>2, <1>3, <1>4, <1>6
<1> QED
  BY <1>7, <1>8 DEF CampaignsKeepToTheirSide, whole, heads, tails

\* However the campaigns of an accepted placement are shuffled, timed and rejected,
\* the validator accepts it, and the trainer that of the development profile
\* (generation.py:186-264, validation.py:130-177, data.py:289-307).
THEOREM PlacementsAreAccepted == Spec => []CampaignsKeepToTheirSide
BY PlacementValidates, GeneratorInvariantHolds, PTL

--------------------------------------------------------------------------------
(* Sums over the campaigns of a split.                                        *)

\* A set of natural numbers has a least element.
LEMMA LeastOf ==
    ASSUME NEW S, S \subseteq Nat, S # {}
    PROVE  \E n \in S : \A m \in S : n <= m
<1> DEFINE Upto(n) == 0 .. n
           R == StrictSubsetOrdering(Nat)
           all == {Upto(n) : n \in S}
<1>1. \A n \in S : Upto(n) \in SUBSET Nat /\ IsFiniteSet(Upto(n))
  BY FS_Interval
<1>2. all \subseteq FiniteSubsetsOf(Nat) /\ all # {}
  BY <1>1 DEF FiniteSubsetsOf
<1>3. PICK B \in all : \A C \in all : ~(<<C, B>> \in R)
  <2> HIDE DEF all, R
  <2>1. IsWellFoundedOn(R, FiniteSubsetsOf(Nat))
    BY FS_StrictSubsetOrderingWellFounded DEF R
  <2> QED
    BY <1>2, <2>1, WFMin
<1>4. PICK n \in S : B = Upto(n)
  BY <1>3
<1>5. ASSUME NEW m \in S, m < n
      PROVE  FALSE
  <2>1. Upto(m) \subseteq Upto(n) /\ n \in Upto(n) /\ n \notin Upto(m)
    BY <1>5
  <2> HIDE DEF Upto
  <2>2. <<Upto(m), Upto(n)>> \in R
    BY <1>1, <2>1 DEF StrictSubsetOrdering
  <2> QED
    BY <1>3, <1>4, <2>2
<1> QED
  BY <1>4, <1>5

\* What every step up to n passes on holds at n.
LEMMA PassedOn ==
    ASSUME NEW n \in Nat, NEW holds \in [0 .. n -> BOOLEAN], holds[0],
           \A m \in 1 .. n : holds[m - 1] => holds[m]
    PROVE  holds[n]
<1> SUFFICES ASSUME ~holds[n] PROVE FALSE
  OBVIOUS
<1> DEFINE lost == {m \in 0 .. n : ~holds[m]}
<1>1. lost \subseteq Nat /\ lost # {}
  OBVIOUS
<1>2. PICK m \in lost : \A k \in lost : m <= k
  <2> HIDE DEF lost
  <2> QED
    BY <1>1, LeastOf
<1>3. m \in 1 .. n /\ m - 1 \in 0 .. n /\ ~(m <= m - 1)
  BY <1>2
<1> QED
  BY <1>2, <1>3

\* How MapThenSumSet adds up: one arbitrary element after the other.
OneOf(s) == CHOOSE x \in s : TRUE

Adds(f, F, T) ==
    f = [s \in SUBSET T |-> IF s = {} THEN 0 ELSE F[OneOf(s)] + f[s \ {OneOf(s)}]]

SumOver(F, T) == (CHOOSE f : Adds(f, F, T))[T]

Smaller(T, m) == {s \in SUBSET T : Cardinality(s) <= m}

AddsUpTo(f, F, T, m) ==
    f = [s \in Smaller(T, m) |-> IF s = {} THEN 0 ELSE F[OneOf(s)] + f[s \ {OneOf(s)}]]

LEMMA TotalIs == ASSUME NEW f PROVE Total(f) = SumOver(f, DOMAIN f)
BY DEF Total, MapThenSumSet, MapThenFoldSet, SumOver, Adds, OneOf

\* A set without the element that is taken next.
LEMMA OneLess ==
    ASSUME NEW T, IsFiniteSet(T), NEW s \in SUBSET T, s # {}
    PROVE  /\ OneOf(s) \in s /\ s \ {OneOf(s)} \in SUBSET T /\ IsFiniteSet(s)
           /\ Cardinality(s) \in Nat /\ Cardinality(s \ {OneOf(s)}) = Cardinality(s) - 1
<1>1. OneOf(s) \in s
  BY DEF OneOf
<1>2. IsFiniteSet(s)
  BY FS_Subset
<1> QED
  BY <1>1, <1>2, FS_RemoveElement, FS_CardinalityType

\* There is such a function on the subsets of a finite set.
LEMMA AddsExists ==
    ASSUME NEW T, IsFiniteSet(T), NEW F
    PROVE  \E f : Adds(f, F, T)
<1> DEFINE n == Cardinality(T)
           holds == [m \in 0 .. n |-> \E f : AddsUpTo(f, F, T, m)]
<1>1. n \in Nat
  BY FS_CardinalityType
<1>2. \A s \in SUBSET T : IsFiniteSet(s) /\ Cardinality(s) \in Nat /\ Cardinality(s) <= n
  BY FS_Subset, FS_CardinalityType
<1>3. holds[0]
  <2> DEFINE f == [s \in Smaller(T, 0) |-> 0]
  <2>1. \A s \in Smaller(T, 0) : s = {}
    BY <1>2, FS_EmptySet DEF Smaller
  <2>2. AddsUpTo(f, F, T, 0)
    BY <2>1 DEF AddsUpTo
  <2> HIDE DEF f
  <2> QED
    BY <1>1, <2>2
<1>4. ASSUME NEW m \in 1 .. n, holds[m - 1]
      PROVE  holds[m]
  <2>1. PICK g : AddsUpTo(g, F, T, m - 1)
    BY <1>1, <1>4
  <2> DEFINE Value(h, s) == IF s = {} THEN 0 ELSE F[OneOf(s)] + h[s \ {OneOf(s)}]
             f == [s \in Smaller(T, m) |-> Value(g, s)]
  <2>2. \A s \in Smaller(T, m) : s # {} => s \ {OneOf(s)} \in Smaller(T, m - 1)
    BY OneLess, <1>2 DEF Smaller
  <2>3. \A s \in Smaller(T, m - 1) : s \in Smaller(T, m) /\ g[s] = Value(g, s)
    <3>1. \A s \in Smaller(T, m - 1) : s \in Smaller(T, m)
      BY <1>2 DEF Smaller
    <3>2. g = [s \in Smaller(T, m - 1) |-> Value(g, s)]
      BY <2>1 DEF AddsUpTo
    <3> HIDE DEF Value
    <3>3. \A s \in Smaller(T, m - 1) : g[s] = Value(g, s)
      BY <3>2
    <3> QED
      BY <3>1, <3>3
  <2>4. \A s \in Smaller(T, m - 1) : f[s] = g[s]
    BY <2>3
  <2>5. \A s \in Smaller(T, m) : Value(g, s) = Value(f, s)
    <3> HIDE DEF f
    <3> QED
      BY <2>2, <2>4
  <2>6. f = [s \in Smaller(T, m) |-> Value(f, s)]
    <3> HIDE DEF Value
    <3> QED
      BY <2>5
  <2>7. AddsUpTo(f, F, T, m)
    <3> HIDE DEF f
    <3> QED
      BY <2>6 DEF AddsUpTo
  <2> HIDE DEF f
  <2> QED
    BY <1>1, <2>7
<1>5. holds \in [0 .. n -> BOOLEAN]
  OBVIOUS
<1>6. holds[n]
  <2> HIDE DEF holds, n
  <2> QED
    BY <1>1, <1>3, <1>4, <1>5, PassedOn
<1>7. PICK f : AddsUpTo(f, F, T, n)
  BY <1>1, <1>6
<1>8. Smaller(T, n) = SUBSET T
  BY <1>2 DEF Smaller
<1> QED
  BY <1>7, <1>8 DEF Adds, AddsUpTo

\* Two such functions agree on what they have in common.
LEMMA AddsAgree ==
    ASSUME NEW S, IsFiniteSet(S), NEW T, NEW F, NEW f, NEW g, Adds(f, F, S), Adds(g, F, T),
           NEW s, s \subseteq S, s \subseteq T
    PROVE  f[s] = g[s]
<1> DEFINE Agree(m) == \A u \in SUBSET S : u \subseteq T /\ Cardinality(u) <= m => f[u] = g[u]
           n == Cardinality(s)
           holds == [m \in 0 .. n |-> Agree(m)]
<1>1. \A u \in SUBSET S : IsFiniteSet(u) /\ Cardinality(u) \in Nat
  BY FS_Subset, FS_CardinalityType
<1>2. n \in Nat
  BY <1>1
<1>3. /\ \A u \in SUBSET S : f[u] = IF u = {} THEN 0 ELSE F[OneOf(u)] + f[u \ {OneOf(u)}]
      /\ \A u \in SUBSET T : g[u] = IF u = {} THEN 0 ELSE F[OneOf(u)] + g[u \ {OneOf(u)}]
  <2> DEFINE Value(h, u) == IF u = {} THEN 0 ELSE F[OneOf(u)] + h[u \ {OneOf(u)}]
  <2>1. f = [u \in SUBSET S |-> Value(f, u)] /\ g = [u \in SUBSET T |-> Value(g, u)]
    BY DEF Adds
  <2> HIDE DEF Value
  <2>2. /\ \A u \in SUBSET S : f[u] = Value(f, u)
        /\ \A u \in SUBSET T : g[u] = Value(g, u)
    BY <2>1
  <2> QED
    BY <2>2 DEF Value
<1>4. Agree(0)
  <2> SUFFICES ASSUME NEW u \in SUBSET S, u \subseteq T, Cardinality(u) <= 0
               PROVE  f[u] = g[u]
    OBVIOUS
  <2>1. u = {}
    BY <1>1, FS_EmptySet
  <2> QED
    BY <1>3, <2>1
<1>5. ASSUME NEW m \in 1 .. n, Agree(m - 1)
      PROVE  Agree(m)
  <2> SUFFICES ASSUME NEW u \in SUBSET S, u \subseteq T, Cardinality(u) <= m
               PROVE  f[u] = g[u]
    OBVIOUS
  <2>1. CASE u = {}
    BY <1>3, <2>1
  <2>2. CASE u # {}
    <3>1. u \ {OneOf(u)} \in SUBSET S /\ Cardinality(u \ {OneOf(u)}) <= m - 1
      BY <1>1, <2>2, OneLess
    <3>2. f[u \ {OneOf(u)}] = g[u \ {OneOf(u)}]
      BY <1>5, <3>1
    <3> QED
      BY <1>3, <2>2, <3>2
  <2> QED
    BY <2>1, <2>2
<1>6. holds \in [0 .. n -> BOOLEAN] /\ \A m \in 0 .. n : holds[m] <=> Agree(m)
  OBVIOUS
<1> HIDE DEF holds, Agree, n
<1>7. holds[0] /\ \A m \in 1 .. n : holds[m - 1] => holds[m]
  BY <1>2, <1>4, <1>5, <1>6
<1>8. Agree(n)
  BY <1>2, <1>6, <1>7, PassedOn
<1> QED
  BY <1>2, <1>8 DEF Agree, n

\* The sum over a set takes out one arbitrary element, then the others.
LEMMA SumStep ==
    ASSUME NEW T, IsFiniteSet(T), NEW F
    PROVE  /\ T = {} => SumOver(F, T) = 0
           /\ T # {} => SumOver(F, T) = F[OneOf(T)] + SumOver(F, T \ {OneOf(T)})
<1> DEFINE f == CHOOSE h : Adds(h, F, T)
           rest == T \ {OneOf(T)}
           g == CHOOSE h : Adds(h, F, rest)
<1>1. IsFiniteSet(rest)
  BY FS_RemoveElement
<1>2. Adds(f, F, T)
  BY AddsExists
<1>3. Adds(g, F, rest)
  BY <1>1, AddsExists
<1>4. SumOver(F, T) = f[T] /\ SumOver(F, rest) = g[rest]
  BY DEF SumOver
<1>5. f[T] = IF T = {} THEN 0 ELSE F[OneOf(T)] + f[rest]
  <2> HIDE DEF f
  <2> QED
    BY <1>2 DEF Adds
<1>6. f[rest] = g[rest]
  <2>1. rest \subseteq T /\ rest \subseteq rest
    OBVIOUS
  <2> HIDE DEF f, g, rest
  <2> QED
    BY <1>2, <1>3, <2>1, AddsAgree
<1> QED
  BY <1>4, <1>5, <1>6

\* Any element may be taken out first.
LEMMA SumWithout ==
    ASSUME NEW T, IsFiniteSet(T), NEW F, \A x \in T : F[x] \in Int, NEW x \in T
    PROVE  /\ SumOver(F, T) \in Int
           /\ SumOver(F, T) = F[x] + SumOver(F, T \ {x})
<1> DEFINE Fine(m) == \A s \in SUBSET T : Cardinality(s) <= m =>
                        /\ SumOver(F, s) \in Int
                        /\ \A y \in s : SumOver(F, s) = F[y] + SumOver(F, s \ {y})
           n == Cardinality(T)
           holds == [m \in 0 .. n |-> Fine(m)]
<1>1. \A s \in SUBSET T : IsFiniteSet(s) /\ Cardinality(s) \in Nat
  BY FS_Subset, FS_CardinalityType
<1>2. n \in Nat
  BY <1>1
<1>3. Fine(0)
  <2> SUFFICES ASSUME NEW s \in SUBSET T, Cardinality(s) <= 0
               PROVE  SumOver(F, s) \in Int /\ s = {}
    OBVIOUS
  <2>1. s = {}
    BY <1>1, FS_EmptySet
  <2> QED
    BY <1>1, <2>1, SumStep
<1>4. ASSUME NEW m \in 1 .. n, Fine(m - 1)
      PROVE  Fine(m)
  <2> SUFFICES ASSUME NEW s \in SUBSET T, Cardinality(s) <= m
               PROVE  /\ SumOver(F, s) \in Int
                      /\ \A y \in s : SumOver(F, s) = F[y] + SumOver(F, s \ {y})
    OBVIOUS
  <2>1. CASE s = {}
    BY <1>1, <2>1, SumStep
  <2>2. CASE s # {}
    <3> DEFINE p == OneOf(s)
    <3>1. p \in s /\ \A y \in s : /\ s \ {y} \in SUBSET T
                                 /\ Cardinality(s \ {y}) <= m - 1
      <4>1. p \in s
        BY <2>2 DEF OneOf
      <4>2. \A y \in s : Cardinality(s \ {y}) = Cardinality(s) - 1
        BY <1>1, FS_RemoveElement
      <4> QED
        BY <1>1, <4>1, <4>2
    <3>2. SumOver(F, s) = F[p] + SumOver(F, s \ {p})
      BY <1>1, <2>2, SumStep
    <3> HIDE DEF p
    <3>3. /\ SumOver(F, s \ {p}) \in Int
          /\ \A y \in s \ {p} : SumOver(F, s \ {p}) = F[y] + SumOver(F, (s \ {p}) \ {y})
      BY <1>4, <3>1
    <3>4. ASSUME NEW y \in s, y # p
          PROVE  SumOver(F, s) = F[y] + SumOver(F, s \ {y})
      <4>1. SumOver(F, s \ {p}) = F[y] + SumOver(F, (s \ {p}) \ {y})
        BY <3>3, <3>4
      <4>2. /\ SumOver(F, s \ {y}) \in Int
            /\ SumOver(F, s \ {y}) = F[p] + SumOver(F, (s \ {y}) \ {p})
        BY <1>4, <3>1, <3>4
      <4>3. (s \ {p}) \ {y} = (s \ {y}) \ {p}
        OBVIOUS
      <4> DEFINE rest == SumOver(F, (s \ {p}) \ {y})
      <4>4. rest \in Int
        <5>1. (s \ {p}) \ {y} \in SUBSET T /\ Cardinality((s \ {p}) \ {y}) <= m - 1
          <6>1. IsFiniteSet(s \ {p}) /\ Cardinality(s \ {p}) <= m - 1 /\ y \in s \ {p}
            BY <1>1, <3>1, <3>4
          <6>2. Cardinality((s \ {p}) \ {y}) = Cardinality(s \ {p}) - 1 /\ Cardinality(s \ {p}) \in Nat
            BY <6>1, FS_RemoveElement, FS_CardinalityType
          <6> QED
            BY <6>1, <6>2
        <5> QED
          BY <1>4, <5>1
      <4>5. F[p] \in Int /\ F[y] \in Int
        BY <3>1
      <4>6. SumOver(F, s \ {p}) = F[y] + rest /\ SumOver(F, s \ {y}) = F[p] + rest
        BY <4>1, <4>2, <4>3
      <4> HIDE DEF rest
      <4> QED
        BY <3>2, <4>4, <4>5, <4>6
    <3>5. SumOver(F, s) \in Int
      BY <3>1, <3>2, <3>3
    <3> QED
      BY <3>2, <3>4, <3>5
  <2> QED
    BY <2>1, <2>2
<1>5. holds \in [0 .. n -> BOOLEAN] /\ \A m \in 0 .. n : holds[m] <=> Fine(m)
  OBVIOUS
<1> HIDE DEF holds, Fine, n
<1>6. holds[0] /\ \A m \in 1 .. n : holds[m - 1] => holds[m]
  BY <1>2, <1>3, <1>4, <1>5
<1>7. Fine(n)
  BY <1>2, <1>5, <1>6, PassedOn
<1> QED
  BY <1>2, <1>7 DEF Fine, n

\* The sum over an interval grows at its end.
LEMMA SumUpTo ==
    ASSUME NEW n \in Nat, NEW F, \A k \in 0 .. n : F[k] \in Int
    PROVE  SumOver(F, 0 .. n) = F[n] + SumOver(F, 0 .. n - 1)
<1>1. IsFiniteSet(0 .. n) /\ n \in 0 .. n
  BY FS_Interval
<1>2. SumOver(F, 0 .. n) = F[n] + SumOver(F, (0 .. n) \ {n})
  BY <1>1, SumWithout
<1>3. (0 .. n) \ {n} = 0 .. n - 1
  OBVIOUS
<1> QED
  BY <1>2, <1>3

\* A sum of two different numbers, the first of which stands at the first r places.
LEMMA SumOfTwo ==
    ASSUME NEW n \in Nat, NEW r \in 0 .. n, NEW a \in Int, NEW b \in Int,
           NEW F, \A k \in 0 .. n - 1 : F[k] = IF k < r THEN a ELSE b
    PROVE  SumOver(F, 0 .. n - 1) = r * a + (n - r) * b
<1> DEFINE Fine(m) == SumOver(F, 0 .. m - 1) = IF m <= r THEN m * a ELSE r * a + (m - r) * b
           holds == [m \in 0 .. n |-> Fine(m)]
<1>1. Fine(0)
  <2>1. IsFiniteSet(0 .. 0 - 1) /\ 0 .. 0 - 1 = {}
    BY FS_EmptySet
  <2>2. SumOver(F, 0 .. 0 - 1) = 0
    BY <2>1, SumStep
  <2> QED
    BY <2>2
<1>2. ASSUME NEW m \in 1 .. n, Fine(m - 1)
      PROVE  Fine(m)
  <2>1. m - 1 \in Nat /\ \A k \in 0 .. m - 1 : F[k] \in Int
    OBVIOUS
  <2>2. SumOver(F, 0 .. m - 1) = F[m - 1] + SumOver(F, 0 .. (m - 1) - 1)
    BY <2>1, SumUpTo
  <2>3. F[m - 1] = IF m - 1 < r THEN a ELSE b
    OBVIOUS
  <2>4. CASE m <= r
    <3>1. SumOver(F, 0 .. m - 1) = a + (m - 1) * a
      BY <1>2, <2>2, <2>3, <2>4
    <3>2. a + (m - 1) * a = m * a
      OBVIOUS
    <3> QED
      BY <2>4, <3>1, <3>2
  <2>5. CASE m = r + 1
    <3>1. SumOver(F, 0 .. m - 1) = b + r * a
      BY <1>2, <2>2, <2>3, <2>5
    <3>2. (m - r) * b = b /\ r * a \in Int
      BY <2>5
    <3> QED
      BY <2>5, <3>1, <3>2
  <2>6. CASE m > r + 1
    <3>1. SumOver(F, 0 .. m - 1) = b + (r * a + ((m - 1) - r) * b)
      BY <1>2, <2>2, <2>3, <2>6
    <3>2. b + (r * a + ((m - 1) - r) * b) = r * a + (m - r) * b
      OBVIOUS
    <3> QED
      BY <2>6, <3>1, <3>2
  <2> QED
    BY <2>4, <2>5, <2>6
<1>3. holds \in [0 .. n -> BOOLEAN] /\ \A m \in 0 .. n : holds[m] <=> Fine(m)
  OBVIOUS
<1> HIDE DEF holds, Fine
<1>4. holds[0] /\ \A m \in 1 .. n : holds[m - 1] => holds[m]
  BY <1>1, <1>2, <1>3
<1>5. Fine(n)
  BY <1>3, <1>4, PassedOn
<1>6. n <= r => n = r /\ (n - r) * b = 0 /\ r * a \in Int
  OBVIOUS
<1> QED
  BY <1>5, <1>6 DEF Fine

\* How the attacks of a split are shared out to its campaigns.
Groups(n) == config.splits[n].campaigns

Share(n) == Attacks(n) \div Groups(n)

Larger(n) == Attacks(n) % Groups(n)

LEMMA SharedOut ==
    ASSUME Stage, NEW n \in Names
    PROVE  /\ Groups(n) \in Nat \ {0} /\ Attacks(n) \in Nat /\ Share(n) \in Nat
           /\ Larger(n) \in 0 .. Groups(n) - 1
           /\ Attacks(n) = Groups(n) * Share(n) + Larger(n)
           /\ CampaignsOf(n) = 0 .. Groups(n) - 1
           /\ \A k \in CampaignsOf(n) : SizeOf(n, k) = IF k < Larger(n) THEN Share(n) + 1 ELSE Share(n)
<1>1. Groups(n) \in Nat \ {0} /\ config.splits[n].events \in Nat
  <2>1. config.splits[n] \in SplitConfigs
    BY ConfigTypes DEF Stage
  <2> QED
    BY <2>1, SplitTypes, EventTypes DEF Groups
<1>2. Attacks(n) \in Nat
  <2> DEFINE e == config.splits[n].events
  <2>1. Attacks(n) = (e * 200) \div 10000
    BY DEF Attacks, ScenarioCount, Weights
  <2>2. e * 200 \in Nat
    BY <1>1
  <2> QED
    BY <2>1, <2>2
<1>3. /\ Share(n) \in Nat /\ Larger(n) \in 0 .. Groups(n) - 1
      /\ Attacks(n) = Groups(n) * Share(n) + Larger(n)
  <2> DEFINE c == Groups(n)
             a == Attacks(n)
  <2> SUFFICES /\ a \div c \in Nat /\ a % c \in 0 .. c - 1 /\ a = c * (a \div c) + (a % c)
    BY DEF Share, Larger
  <2>1. c \in Nat \ {0} /\ a \in Nat
    BY <1>1, <1>2
  <2> HIDE DEF c, a
  <2> QED
    BY <2>1
<1>4. CampaignsOf(n) = 0 .. Groups(n) - 1
  BY DEF CampaignsOf, Groups
<1>5. ASSUME NEW k \in CampaignsOf(n)
      PROVE  SizeOf(n, k) = IF k < Larger(n) THEN Share(n) + 1 ELSE Share(n)
  <2>1. SizeOf(n, k) = Share(n) + (IF k < Larger(n) THEN 1 ELSE 0)
    BY DEF SizeOf, GroupSize, Share, Larger, Groups
  <2> QED
    BY <1>3, <2>1
<1> QED
  BY <1>1, <1>2, <1>3, <1>4, <1>5

\* What has one value in the larger campaigns and another one in the others.
LEMMA TotalOf ==
    ASSUME Stage, NEW n \in Names, NEW F, DOMAIN F = CampaignsOf(n), NEW a \in Int, NEW b \in Int,
           \A k \in CampaignsOf(n) : F[k] = IF k < Larger(n) THEN a ELSE b
    PROVE  Total(F) = Larger(n) * a + (Groups(n) - Larger(n)) * b
<1> DEFINE c == Groups(n)
           r == Larger(n)
<1>1. c \in Nat /\ r \in 0 .. c /\ CampaignsOf(n) = 0 .. c - 1
  BY SharedOut
<1>2. Total(F) = SumOver(F, 0 .. c - 1)
  BY <1>1, TotalIs
<1>3. \A k \in 0 .. c - 1 : F[k] = IF k < r THEN a ELSE b
  BY <1>1
<1> HIDE DEF c, r
<1>4. SumOver(F, 0 .. c - 1) = r * a + (c - r) * b
  BY <1>1, <1>3, SumOfTwo, ZenonT(30)
<1> QED
  BY <1>2, <1>4 DEF c, r

\* Quotas are met exactly, into however many campaigns they are split.
LEMMA QuotasAreMet ==
    ASSUME Stage, NEW n \in Names
    PROVE  Total([k \in CampaignsOf(n) |-> SizeOf(n, k)]) = Attacks(n)
<1> DEFINE F == [k \in CampaignsOf(n) |-> SizeOf(n, k)]
           c == Groups(n)
           r == Larger(n)
           q == Share(n)
<1>1. /\ c \in Nat /\ r \in Nat /\ q \in Nat /\ Attacks(n) = c * q + r
      /\ \A k \in CampaignsOf(n) : F[k] = IF k < r THEN q + 1 ELSE q
  BY SharedOut
<1>2. DOMAIN F = CampaignsOf(n) /\ q + 1 \in Int /\ q \in Int
  BY <1>1
<1>3. Total(F) = r * (q + 1) + (c - r) * q
  <2> HIDE DEF F
  <2> QED
    BY <1>1, <1>2, TotalOf
<1>4. r * (q + 1) + (c - r) * q = c * q + r
  <2> HIDE DEF c, r, q
  <2> QED
    BY <1>1
<1> QED
  BY <1>1, <1>3, <1>4

\* The sums of the distribution checks.
Devices(n) == Total([k \in CampaignsOf(n) |-> DeviceCount(n, SizeOf(n, k))])

Sessions(n) == Total([k \in CampaignsOf(n) |-> SessionCount(n, SizeOf(n, k))])

Networks(n) == Total([k \in CampaignsOf(n) |-> NetworkCount(n, SizeOf(n, k))])

Missing(rate, n) == Total([k \in CampaignsOf(n) |-> MissingCount(rate, SizeOf(n, k))])

Baseline(size) == IF (size + 11) \div 12 >= 1 THEN (size + 11) \div 12 ELSE 1

\* The counts of one campaign, without Max and Min.
LEMMA CountsAre ==
    ASSUME Stage, NEW n \in Names, NEW size \in Nat
    PROVE  /\ DeviceCount(n, size) =
                IF Thin(n) THEN size
                ELSE IF n # "test" THEN Baseline(size)
                ELSE IF size <= Baseline(size) * 4 THEN size ELSE Baseline(size) * 4
           /\ NetworkCount(n, size) =
                IF ~Thin(n) THEN 1
                ELSE IF size <= config.splits[n].evasion.parameter
                     THEN size ELSE config.splits[n].evasion.parameter
           /\ DeviceCount(n, size) \in Int /\ SessionCount(n, size) \in Int
           /\ NetworkCount(n, size) \in Int
           /\ \A rate \in Nat : MissingCount(rate, size) \in Int
<1>1. (size + 11) \div 12 \in Nat
  OBVIOUS
<1>2. Max({1, (size + 11) \div 12}) = Baseline(size)
  <2> DEFINE x == (size + 11) \div 12
  <2>1. x \in Int
    BY <1>1
  <2> HIDE DEF x
  <2>2. Max({1, x}) = IF 1 >= x THEN 1 ELSE x
    BY <2>1, MaxOfTwo
  <2>3. Max({1, x}) = IF x >= 1 THEN x ELSE 1
    BY <2>1, <2>2
  <2> QED
    BY <2>3 DEF x, Baseline
<1>3. Baseline(size) \in Nat /\ Baseline(size) * 4 \in Int
  BY <1>1 DEF Baseline
<1>4. Min({size, Baseline(size) * 4}) = IF size <= Baseline(size) * 4 THEN size ELSE Baseline(size) * 4
  <2> DEFINE x == Baseline(size) * 4
  <2>1. x \in Int
    BY <1>3
  <2> HIDE DEF x
  <2>2. Min({size, x}) = IF size <= x THEN size ELSE x
    BY <2>1, MaxOfTwo
  <2> QED
    BY <2>2 DEF x
<1>5. DeviceCount(n, size) =
        IF Thin(n) THEN size
        ELSE IF n # "test" THEN Baseline(size)
        ELSE IF size <= Baseline(size) * 4 THEN size ELSE Baseline(size) * 4
  BY <1>2, <1>4 DEF DeviceCount
<1>6. NetworkCount(n, size) =
        IF ~Thin(n) THEN 1
        ELSE IF size <= config.splits[n].evasion.parameter
             THEN size ELSE config.splits[n].evasion.parameter
  <2>1. CASE ~Thin(n)
    BY <2>1 DEF NetworkCount
  <2>2. CASE Thin(n)
    <3> DEFINE p == config.splits[n].evasion.parameter
    <3>1. p \in Int
      <4>1. config.splits[n].evasion \in EvasionShapes
        BY <2>2, ConfigTypes, SplitTypes DEF Stage, Thin
      <4> QED
        BY <4>1, EvasionTypes
    <3> HIDE DEF p
    <3>2. Min({size, p}) = IF size <= p THEN size ELSE p
      BY <3>1, MaxOfTwo
    <3> QED
      BY <2>2, <3>2 DEF NetworkCount, p
  <2> QED
    BY <2>1, <2>2
<1>7. Thin(n) => config.splits[n].evasion.parameter \in Nat
  <2> SUFFICES ASSUME Thin(n) PROVE config.splits[n].evasion.parameter \in Nat
    OBVIOUS
  <2>1. config.splits[n].evasion \in EvasionShapes
    BY ConfigTypes, SplitTypes DEF Stage, Thin
  <2> QED
    BY <2>1, EvasionTypes
<1>8. DeviceCount(n, size) \in Int
  BY <1>3, <1>5
<1>9. NetworkCount(n, size) \in Int
  BY <1>6, <1>7
<1>10. SessionCount(n, size) \in Int
  BY <1>8 DEF SessionCount
<1>11. ASSUME NEW rate \in Nat PROVE MissingCount(rate, size) \in Int
  <2>1. size * rate + 5000 \in Nat
    OBVIOUS
  <2> HIDE DEF MissingCount
  <2> QED
    BY <2>1 DEF MissingCount
<1> QED
  BY <1>5, <1>6, <1>8, <1>9, <1>10, <1>11

\* Each sum is that of two values.
LEMMA SumsAre ==
    ASSUME Stage, NEW n \in Names, NEW rate \in Nat
    PROVE  LET Two(a, b) == Larger(n) * a + (Groups(n) - Larger(n)) * b
               q == Share(n)
           IN  /\ Devices(n) = Two(DeviceCount(n, q + 1), DeviceCount(n, q))
               /\ Sessions(n) = Two(SessionCount(n, q + 1), SessionCount(n, q))
               /\ Networks(n) = Two(NetworkCount(n, q + 1), NetworkCount(n, q))
               /\ Missing(rate, n) = Two(MissingCount(rate, q + 1), MissingCount(rate, q))
<1> DEFINE q == Share(n)
           r == Larger(n)
           c == Groups(n)
<1>1. /\ q \in Nat /\ q + 1 \in Nat
      /\ \A k \in CampaignsOf(n) : SizeOf(n, k) = IF k < r THEN q + 1 ELSE q
  BY SharedOut
<1>2. \A size \in Nat : /\ DeviceCount(n, size) \in Int /\ SessionCount(n, size) \in Int
                        /\ NetworkCount(n, size) \in Int /\ MissingCount(rate, size) \in Int
  BY CountsAre
<1>3. Devices(n) = r * DeviceCount(n, q + 1) + (c - r) * DeviceCount(n, q)
  <2> DEFINE F == [k \in CampaignsOf(n) |-> DeviceCount(n, SizeOf(n, k))]
             a == DeviceCount(n, q + 1)
             b == DeviceCount(n, q)
  <2>1. /\ DOMAIN F = CampaignsOf(n) /\ a \in Int /\ b \in Int
        /\ \A k \in CampaignsOf(n) : F[k] = IF k < r THEN a ELSE b
    BY <1>1, <1>2
  <2>2. Devices(n) = Total(F)
    BY DEF Devices
  <2> HIDE DEF F, a, b
  <2>3. Total(F) = r * a + (c - r) * b
    BY <2>1, TotalOf
  <2> QED
    BY <2>2, <2>3 DEF a, b
<1>4. Sessions(n) = r * SessionCount(n, q + 1) + (c - r) * SessionCount(n, q)
  <2> DEFINE F == [k \in CampaignsOf(n) |-> SessionCount(n, SizeOf(n, k))]
             a == SessionCount(n, q + 1)
             b == SessionCount(n, q)
  <2>1. /\ DOMAIN F = CampaignsOf(n) /\ a \in Int /\ b \in Int
        /\ \A k \in CampaignsOf(n) : F[k] = IF k < r THEN a ELSE b
    BY <1>1, <1>2
  <2>2. Sessions(n) = Total(F)
    BY DEF Sessions
  <2> HIDE DEF F, a, b
  <2>3. Total(F) = r * a + (c - r) * b
    BY <2>1, TotalOf
  <2> QED
    BY <2>2, <2>3 DEF a, b
<1>5. Networks(n) = r * NetworkCount(n, q + 1) + (c - r) * NetworkCount(n, q)
  <2> DEFINE F == [k \in CampaignsOf(n) |-> NetworkCount(n, SizeOf(n, k))]
             a == NetworkCount(n, q + 1)
             b == NetworkCount(n, q)
  <2>1. /\ DOMAIN F = CampaignsOf(n) /\ a \in Int /\ b \in Int
        /\ \A k \in CampaignsOf(n) : F[k] = IF k < r THEN a ELSE b
    BY <1>1, <1>2
  <2>2. Networks(n) = Total(F)
    BY DEF Networks
  <2> HIDE DEF F, a, b
  <2>3. Total(F) = r * a + (c - r) * b
    BY <2>1, TotalOf
  <2> QED
    BY <2>2, <2>3 DEF a, b
<1>6. Missing(rate, n) = r * MissingCount(rate, q + 1) + (c - r) * MissingCount(rate, q)
  <2> DEFINE F == [k \in CampaignsOf(n) |-> MissingCount(rate, SizeOf(n, k))]
             a == MissingCount(rate, q + 1)
             b == MissingCount(rate, q)
  <2>1. /\ DOMAIN F = CampaignsOf(n) /\ a \in Int /\ b \in Int
        /\ \A k \in CampaignsOf(n) : F[k] = IF k < r THEN a ELSE b
    BY <1>1, <1>2
  <2>2. Missing(rate, n) = Total(F)
    BY DEF Missing
  <2> HIDE DEF F, a, b
  <2>3. Total(F) = r * a + (c - r) * b
    BY <2>1, TotalOf
  <2> QED
    BY <2>2, <2>3 DEF a, b
<1> QED
  BY <1>3, <1>4, <1>5, <1>6

\* The shares of one split, in numbers.
Shares(n, attacks, groups, share, larger) ==
    /\ Attacks(n) = attacks /\ Groups(n) = groups
    /\ Share(n) = share /\ Larger(n) = larger

\* A split of a given shape.
LEMMA SharesOfShape ==
    ASSUME NEW n \in Names, NEW days,
           NEW events \in {66000, 17000, 6000, 5000, 2000, 1000}, NEW campaigns \in Nat \ {0},
           LET s == config.splits[n]
           IN  Shape(s.days, s.events, s.campaigns) = Shape(days, events, campaigns)
    PROVE  LET a == events \div 50 IN Shares(n, a, campaigns, a \div campaigns, a % campaigns)
<1>1. config.splits[n].events = events /\ config.splits[n].campaigns = campaigns
  BY DEF Shape
<1>2. Attacks(n) = (events * 200) \div 10000
  BY <1>1 DEF Attacks, ScenarioCount, Weights
<1>3. (events * 200) \div 10000 = events \div 50
  OBVIOUS
<1> QED
  BY <1>1, <1>2, <1>3 DEF Shares, Share, Larger, Groups

\* The splits of the locked profiles.
LEMMA LockedShares ==
    ASSUME Stage, AsShipped
    PROVE  \/ /\ config.profile = "development"
              /\ Shares("train", 1320, 8, 165, 0) /\ Shares("calibration", 340, 10, 34, 0)
              /\ Shares("test", 340, 3, 113, 1)
           \/ /\ config.profile = "policy-validation"
              /\ Shares("train", 100, 5, 20, 0) /\ Shares("calibration", 40, 4, 10, 0)
              /\ Shares("test", 40, 2, 20, 0)
           \/ /\ config.profile = "adversarial-stress"
              /\ Shares("train", 40, 2, 20, 0) /\ Shares("calibration", 20, 4, 5, 0)
              /\ Shares("test", 120, 20, 6, 0)
<1>1. ProfileContract(config)
  BY DEF Stage, ValidConfig
<1>2. LockedContract(config)
  BY <1>1 DEF AsShipped, ProfileContract
<1>3. config.profile \in LockedProfiles
  <2>1. config \in GeneratorConfigs
    BY SMTT(30), ConfigTypes DEF Stage
  <2>2. config.profile \in {"smoke", "development", "policy-validation", "adversarial-stress"}
    BY <2>1 DEF GeneratorConfigs
  <2> QED
    BY <2>2 DEF LockedProfiles, AsShipped
<1> DEFINE shaped(n) == LET s == config.splits[n] IN Shape(s.days, s.events, s.campaigns)
<1>4. \A n \in Names : shaped(n) = LockedShapes[config.profile][n]
  BY <1>2, TheNames DEF LockedContract
<1>5. "train" \in Names /\ "calibration" \in Names /\ "test" \in Names
  BY DEF Names
<1>6. CASE config.profile = "development"
  <2>1. /\ shaped("train") = Shape(20, 66000, 8) /\ shaped("calibration") = Shape(5, 17000, 10)
        /\ shaped("test") = Shape(5, 17000, 3)
    BY <1>4, <1>5, <1>6, <1>3 DEF LockedShapes
  <2>2. Shares("train", 1320, 8, 165, 0)
    BY <1>5, <2>1, SharesOfShape
  <2>3. Shares("calibration", 340, 10, 34, 0)
    BY <1>5, <2>1, SharesOfShape
  <2>4. Shares("test", 340, 3, 113, 1)
    BY <1>5, <2>1, SharesOfShape
  <2> QED
    BY <1>6, <2>2, <2>3, <2>4
<1>7. CASE config.profile = "policy-validation"
  <2>1. /\ shaped("train") = Shape(5, 5000, 5) /\ shaped("calibration") = Shape(3, 2000, 4)
        /\ shaped("test") = Shape(3, 2000, 2)
    BY <1>4, <1>5, <1>7, <1>3 DEF LockedShapes
  <2>2. Shares("train", 100, 5, 20, 0)
    BY <1>5, <2>1, SharesOfShape
  <2>3. Shares("calibration", 40, 4, 10, 0)
    BY <1>5, <2>1, SharesOfShape
  <2>4. Shares("test", 40, 2, 20, 0)
    BY <1>5, <2>1, SharesOfShape
  <2> QED
    BY <1>7, <2>2, <2>3, <2>4
<1>8. CASE config.profile = "adversarial-stress"
  <2>1. /\ shaped("train") = Shape(2, 2000, 2) /\ shaped("calibration") = Shape(2, 1000, 4)
        /\ shaped("test") = Shape(4, 6000, 20)
    BY <1>4, <1>5, <1>8, <1>3 DEF LockedShapes
  <2>2. Shares("train", 40, 2, 20, 0)
    BY <1>5, <2>1, SharesOfShape
  <2>3. Shares("calibration", 20, 4, 5, 0)
    BY <1>5, <2>1, SharesOfShape
  <2>4. Shares("test", 120, 20, 6, 0)
    BY <1>5, <2>1, SharesOfShape
  <2> QED
    BY <1>8, <2>2, <2>3, <2>4
<1> QED
  BY <1>3, <1>6, <1>7, <1>8 DEF LockedProfiles

\* Only the test split of the adversarial profile spreads its campaigns thin.
LEMMA ThinIsConfined ==
    ASSUME Stage, NEW n \in Names, Thin(n)
    PROVE  /\ n = "test" /\ config.profile = "adversarial-stress"
           /\ config.splits[n].evasion.parameter \in 2 .. 512
<1>1. config.splits[n].evasion # None /\ config.splits[n].evasion.variant = "distributed_thin"
  BY DEF Thin
<1>2. ProfileContract(config) /\ EvasionValid(config.splits[n].evasion)
  BY <1>1, TheNames DEF Stage, ValidConfig
<1>3. config.version = "1.2.0" /\ config.profile = "adversarial-stress"
  BY <1>1, <1>2, TheNames DEF ProfileContract
<1>4. LockedContract(config)
  BY <1>2, <1>3 DEF ProfileContract
<1>5. n \in {m \in Names : config.splits[m].evasion # None}
  BY <1>1
<1>6. n = "test"
  BY SMTT(30), <1>3, <1>4, <1>5, TheNames DEF LockedContract
<1>7. config.splits[n].evasion.parameter \in 2 .. 512
  BY <1>1, <1>2 DEF EvasionValid
<1> QED
  BY <1>3, <1>6, <1>7

\* The sums of a split without thin campaigns, from the shares of its campaigns.
LEMMA Tally ==
    ASSUME Stage, NEW n \in Names, ~Thin(n), NEW a, NEW c \in Nat, NEW q \in Nat, NEW r \in Nat,
           Shares(n, a, c, q, r)
    PROVE  LET Two(x, y) == r * x + (c - r) * y
               Fewer(size) == IF size <= Baseline(size) * 4 THEN size ELSE Baseline(size) * 4
           IN  /\ n # "test" =>
                    /\ Devices(n) = Two(Baseline(q + 1), Baseline(q))
                    /\ Sessions(n) = Two(Baseline(q + 1), Baseline(q))
               /\ n = "test" =>
                    /\ Devices(n) = Two(Fewer(q + 1), Fewer(q))
                    /\ Sessions(n) = Two(q + 1, q)
               /\ Networks(n) = Two(1, 1)
<1> DEFINE Fewer(size) == IF size <= Baseline(size) * 4 THEN size ELSE Baseline(size) * 4
<1>1. Share(n) = q /\ Larger(n) = r /\ Groups(n) = c
  BY DEF Shares
<1>2. /\ Devices(n) = r * DeviceCount(n, q + 1) + (c - r) * DeviceCount(n, q)
      /\ Sessions(n) = r * SessionCount(n, q + 1) + (c - r) * SessionCount(n, q)
      /\ Networks(n) = r * NetworkCount(n, q + 1) + (c - r) * NetworkCount(n, q)
  <2>1. 0 \in Nat
    OBVIOUS
  <2> QED
    BY <1>1, <2>1, SumsAre
<1>3. ASSUME NEW size \in Nat
      PROVE  /\ DeviceCount(n, size) = IF n # "test" THEN Baseline(size) ELSE Fewer(size)
             /\ SessionCount(n, size) = IF n # "test" THEN Baseline(size) ELSE size
             /\ NetworkCount(n, size) = 1
  <2>1. /\ DeviceCount(n, size) = IF n # "test" THEN Baseline(size) ELSE Fewer(size)
        /\ NetworkCount(n, size) = 1
    BY CountsAre
  <2> HIDE DEF Fewer
  <2> QED
    BY <2>1 DEF SessionCount
<1>4. q + 1 \in Nat
  OBVIOUS
<1> HIDE DEF Fewer
<1>5. /\ DeviceCount(n, q) = IF n # "test" THEN Baseline(q) ELSE Fewer(q)
      /\ SessionCount(n, q) = IF n # "test" THEN Baseline(q) ELSE q
      /\ NetworkCount(n, q) = 1
  BY <1>3
<1>6. /\ DeviceCount(n, q + 1) = IF n # "test" THEN Baseline(q + 1) ELSE Fewer(q + 1)
      /\ SessionCount(n, q + 1) = IF n # "test" THEN Baseline(q + 1) ELSE q + 1
      /\ NetworkCount(n, q + 1) = 1
  BY <1>3, <1>4
<1>7. n # "test" =>
        /\ Devices(n) = r * Baseline(q + 1) + (c - r) * Baseline(q)
        /\ Sessions(n) = r * Baseline(q + 1) + (c - r) * Baseline(q)
  BY <1>2, <1>5, <1>6
<1>8. n = "test" =>
        /\ Devices(n) = r * Fewer(q + 1) + (c - r) * Fewer(q)
        /\ Sessions(n) = r * (q + 1) + (c - r) * q
  BY <1>2, <1>5, <1>6
<1>9. Networks(n) = r * 1 + (c - r) * 1
  BY <1>2, <1>5, <1>6
<1> QED
  BY <1>7, <1>8, <1>9 DEF Fewer

\* The events without a token, from the shares.
LEMMA MissingTally ==
    ASSUME Stage, NEW n \in Names, NEW rate \in Nat,
           NEW a, NEW c \in Nat, NEW q \in Nat, NEW r \in Nat, Shares(n, a, c, q, r)
    PROVE  Missing(rate, n) = r * (((q + 1) * rate + 5000) \div 10000) + (c - r) * ((q * rate + 5000) \div 10000)
<1>1. Share(n) = q /\ Larger(n) = r /\ Groups(n) = c
  BY DEF Shares
<1>2. Missing(rate, n) = r * MissingCount(rate, q + 1) + (c - r) * MissingCount(rate, q)
  BY <1>1, SumsAre
<1> QED
  BY <1>2 DEF MissingCount

\* The checks, in terms of the sums.
LEMMA Checks ==
    ASSUME Stage, AsShipped
    PROVE  /\ ShiftHolds <=> \A n \in {"train", "calibration"} :
                /\ (Devices("test") - Missing(300, "test")) * Attacks(n) >= 2 * Devices(n) * Attacks("test")
                /\ Sessions("test") * Attacks(n) >= 2 * Sessions(n) * Attacks("test")
           /\ NetworksHold <=> \A n \in Names :
                /\ Networks(n) * 10000 <= 5000 * Attacks(n)
                /\ (Attacks(n) - Missing(200, n)) * 10000 >= 9000 * Attacks(n)
<1>1. /\ config.shift.multiplier = 2 /\ config.shift.networkRatio = 5000 /\ config.shift.presence = 9000
      /\ config.missing.device = 300 /\ config.missing.network = 200
  BY DEF AsShipped, LockedShift, ShippedRates
<1>2. ShiftHolds <=> \A n \in {"train", "calibration"} :
        /\ Rotates(n, Devices("test") - Missing(300, "test"), Devices(n))
        /\ Rotates(n, Sessions("test"), Sessions(n))
  BY <1>1 DEF ShiftHolds, Devices, Sessions, Missing
<1>3. NetworksHold <=> \A n \in Names :
        /\ Networks(n) * 10000 <= 5000 * Attacks(n)
        /\ (Attacks(n) - Missing(200, n)) * 10000 >= 9000 * Attacks(n)
  BY <1>1, TheNames DEF NetworksHold, Networks, Missing
<1>4. \A n \in {"train", "calibration"} :
        /\ Rotates(n, Devices("test") - Missing(300, "test"), Devices(n)) <=>
             (Devices("test") - Missing(300, "test")) * Attacks(n) >= 2 * Devices(n) * Attacks("test")
        /\ Rotates(n, Sessions("test"), Sessions(n)) <=>
             Sessions("test") * Attacks(n) >= 2 * Sessions(n) * Attacks("test")
  BY <1>1 DEF Rotates
<1> QED
  BY <1>2, <1>3, <1>4

\* The checks of the development profile.
LEMMA DevelopmentValidates ==
    ASSUME Stage, AsShipped, config.profile = "development",
           Shares("train", 1320, 8, 165, 0), Shares("calibration", 340, 10, 34, 0),
           Shares("test", 340, 3, 113, 1)
    PROVE  ShiftHolds /\ NetworksHold
<1>1. \A n \in Names : ~Thin(n)
  BY ThinIsConfined
<1>2. "train" \in Names /\ "calibration" \in Names /\ "test" \in Names
  BY DEF Names
<1>3. /\ Attacks("train") = 1320 /\ Attacks("calibration") = 340 /\ Attacks("test") = 340
  BY DEF Shares
<1>4. Devices("train") = 112 /\ Sessions("train") = 112 /\ Networks("train") = 8
  <2>1. Baseline(165) = 14 /\ Baseline(165 + 1) = 14
    BY DEF Baseline
  <2> QED
    BY <1>1, <1>2, <2>1, Tally
<1>5. Devices("calibration") = 30 /\ Sessions("calibration") = 30 /\ Networks("calibration") = 10
  <2>1. Baseline(34) = 3 /\ Baseline(34 + 1) = 3
    BY DEF Baseline
  <2> QED
    BY <1>1, <1>2, <2>1, Tally
<1>6. Devices("test") = 120 /\ Sessions("test") = 340 /\ Networks("test") = 3
  <2>1. Baseline(113) = 10 /\ Baseline(113 + 1) = 10
    BY DEF Baseline
  <2> QED
    BY <1>1, <1>2, <2>1, Tally
<1>7. Missing(200, "train") = 24
  BY <1>2, MissingTally
<1>8. Missing(200, "calibration") = 10
  BY <1>2, MissingTally
<1>9. Missing(200, "test") = 6
  BY <1>2, MissingTally
<1>10. Missing(300, "test") = 9
  BY <1>2, MissingTally
<1>11. ShiftHolds
  BY <1>3, <1>4, <1>5, <1>6, <1>10, Checks
<1>12. NetworksHold
  <2> SUFFICES ASSUME NEW n \in Names
               PROVE  /\ Networks(n) * 10000 <= 5000 * Attacks(n)
                      /\ (Attacks(n) - Missing(200, n)) * 10000 >= 9000 * Attacks(n)
    BY Checks
  <2> QED
    BY <1>3, <1>4, <1>5, <1>6, <1>7, <1>8, <1>9 DEF Names
<1> QED
  BY <1>11, <1>12

\* The checks of the policy-validation profile.
LEMMA PolicyValidationValidates ==
    ASSUME Stage, AsShipped, config.profile = "policy-validation",
           Shares("train", 100, 5, 20, 0), Shares("calibration", 40, 4, 10, 0),
           Shares("test", 40, 2, 20, 0)
    PROVE  ShiftHolds /\ NetworksHold
<1>1. \A n \in Names : ~Thin(n)
  BY ThinIsConfined
<1>2. "train" \in Names /\ "calibration" \in Names /\ "test" \in Names
  BY DEF Names
<1>3. /\ Attacks("train") = 100 /\ Attacks("calibration") = 40 /\ Attacks("test") = 40
  BY DEF Shares
<1>4. Devices("train") = 10 /\ Sessions("train") = 10 /\ Networks("train") = 5
  <2>1. Baseline(20) = 2 /\ Baseline(20 + 1) = 2
    BY DEF Baseline
  <2> QED
    BY <1>1, <1>2, <2>1, Tally
<1>5. Devices("calibration") = 4 /\ Sessions("calibration") = 4 /\ Networks("calibration") = 4
  <2>1. Baseline(10) = 1 /\ Baseline(10 + 1) = 1
    BY DEF Baseline
  <2> QED
    BY <1>1, <1>2, <2>1, Tally
<1>6. Devices("test") = 16 /\ Sessions("test") = 40 /\ Networks("test") = 2
  <2>1. Baseline(20) = 2 /\ Baseline(20 + 1) = 2
    BY DEF Baseline
  <2> QED
    BY <1>1, <1>2, <2>1, Tally
<1>7. Missing(200, "train") = 0
  BY <1>2, MissingTally
<1>8. Missing(200, "calibration") = 0
  BY <1>2, MissingTally
<1>9. Missing(200, "test") = 0
  BY <1>2, MissingTally
<1>10. Missing(300, "test") = 2
  BY <1>2, MissingTally
<1>11. ShiftHolds
  BY <1>3, <1>4, <1>5, <1>6, <1>10, Checks
<1>12. NetworksHold
  <2> SUFFICES ASSUME NEW n \in Names
               PROVE  /\ Networks(n) * 10000 <= 5000 * Attacks(n)
                      /\ (Attacks(n) - Missing(200, n)) * 10000 >= 9000 * Attacks(n)
    BY Checks
  <2> QED
    BY <1>3, <1>4, <1>5, <1>6, <1>7, <1>8, <1>9 DEF Names
<1> QED
  BY <1>11, <1>12

\* The checks of the adversarial-stress profile, without thin campaigns.
LEMMA AdversarialStressValidates ==
    ASSUME Stage, AsShipped, config.profile = "adversarial-stress", ~Thin("test"),
           Shares("train", 40, 2, 20, 0), Shares("calibration", 20, 4, 5, 0),
           Shares("test", 120, 20, 6, 0)
    PROVE  ShiftHolds /\ NetworksHold
<1>1. \A n \in Names : ~Thin(n)
  BY ThinIsConfined
<1>2. "train" \in Names /\ "calibration" \in Names /\ "test" \in Names
  BY DEF Names
<1>3. /\ Attacks("train") = 40 /\ Attacks("calibration") = 20 /\ Attacks("test") = 120
  BY DEF Shares
<1>4. Devices("train") = 4 /\ Sessions("train") = 4 /\ Networks("train") = 2
  <2>1. Baseline(20) = 2 /\ Baseline(20 + 1) = 2
    BY DEF Baseline
  <2> QED
    BY <1>1, <1>2, <2>1, Tally
<1>5. Devices("calibration") = 4 /\ Sessions("calibration") = 4 /\ Networks("calibration") = 4
  <2>1. Baseline(5) = 1 /\ Baseline(5 + 1) = 1
    BY DEF Baseline
  <2> QED
    BY <1>1, <1>2, <2>1, Tally
<1>6. Devices("test") = 80 /\ Sessions("test") = 120 /\ Networks("test") = 20
  <2>1. Baseline(6) = 1 /\ Baseline(6 + 1) = 1
    BY DEF Baseline
  <2> QED
    BY <1>1, <1>2, <2>1, Tally
<1>7. Missing(200, "train") = 0
  BY <1>2, MissingTally
<1>8. Missing(200, "calibration") = 0
  BY <1>2, MissingTally
<1>9. Missing(200, "test") = 0
  BY <1>2, MissingTally
<1>10. Missing(300, "test") = 0
  BY <1>2, MissingTally
<1>11. ShiftHolds
  BY <1>3, <1>4, <1>5, <1>6, <1>10, Checks
<1>12. NetworksHold
  <2> SUFFICES ASSUME NEW n \in Names
               PROVE  /\ Networks(n) * 10000 <= 5000 * Attacks(n)
                      /\ (Attacks(n) - Missing(200, n)) * 10000 >= 9000 * Attacks(n)
    BY Checks
  <2> QED
    BY <1>3, <1>4, <1>5, <1>6, <1>7, <1>8, <1>9 DEF Names
<1> QED
  BY <1>11, <1>12

\* The checks of the adversarial profile with thin campaigns: 120 events that have a
\* device and a session each, and networks up to the parameter in each campaign.
LEMMA ThinCampaignsValidate ==
    ASSUME Stage, AsShipped, config.profile = "adversarial-stress", Thin("test"),
           Shares("train", 40, 2, 20, 0), Shares("calibration", 20, 4, 5, 0),
           Shares("test", 120, 20, 6, 0)
    PROVE  ShiftHolds /\ (NetworksHold <=> config.splits["test"].evasion.parameter <= 3)
<1> DEFINE p == config.splits["test"].evasion.parameter
<1>1. ~Thin("train") /\ ~Thin("calibration") /\ p \in 2 .. 512
  <2>1. "train" \in Names /\ "calibration" \in Names /\ "test" \in Names
    BY DEF Names
  <2> QED
    BY <2>1, ThinIsConfined
<1>2. "train" \in Names /\ "calibration" \in Names /\ "test" \in Names
  BY DEF Names
<1>3. /\ Attacks("train") = 40 /\ Attacks("calibration") = 20 /\ Attacks("test") = 120
  BY DEF Shares
<1>4. Devices("train") = 4 /\ Sessions("train") = 4 /\ Networks("train") = 2
  <2>1. Baseline(20) = 2 /\ Baseline(20 + 1) = 2
    BY DEF Baseline
  <2> QED
    BY <1>1, <1>2, <2>1, Tally
<1>5. Devices("calibration") = 4 /\ Sessions("calibration") = 4 /\ Networks("calibration") = 4
  <2>1. Baseline(5) = 1 /\ Baseline(5 + 1) = 1
    BY DEF Baseline
  <2> QED
    BY <1>1, <1>2, <2>1, Tally
<1>6. /\ Devices("test") = 120 /\ Sessions("test") = 120
      /\ Networks("test") = 20 * (IF 6 <= p THEN 6 ELSE p)
  <2>1. Share("test") = 6 /\ Larger("test") = 0 /\ Groups("test") = 20
    BY DEF Shares
  <2>2. DeviceCount("test", 6) = 6 /\ NetworkCount("test", 6) = IF 6 <= p THEN 6 ELSE p
    BY <1>2, CountsAre
  <2>3. SessionCount("test", 6) = 6
    BY DEF SessionCount
  <2>4. /\ DeviceCount("test", 7) \in Int /\ SessionCount("test", 7) \in Int /\ NetworkCount("test", 7) \in Int
    BY <1>2, CountsAre
  <2>5. /\ Devices("test") = 0 * DeviceCount("test", 7) + (20 - 0) * 6
        /\ Sessions("test") = 0 * SessionCount("test", 7) + (20 - 0) * 6
        /\ Networks("test") = 0 * NetworkCount("test", 7) + (20 - 0) * NetworkCount("test", 6)
    <3>1. 0 \in Nat /\ 6 + 1 = 7
      OBVIOUS
    <3> HIDE DEF p
    <3> QED
      BY <1>2, <2>1, <2>2, <2>3, <3>1, SumsAre
  <2> HIDE DEF p
  <2> QED
    BY <1>1, <2>2, <2>4, <2>5
<1>7. Missing(200, "train") = 0
  BY <1>2, MissingTally
<1>8. Missing(200, "calibration") = 0
  BY <1>2, MissingTally
<1>9. Missing(200, "test") = 0
  BY <1>2, MissingTally
<1>10. Missing(300, "test") = 0
  BY <1>2, MissingTally
<1>11. ShiftHolds
  BY <1>3, <1>4, <1>5, <1>6, <1>10, Checks
<1>12. NetworksHold <=> Networks("test") * 10000 <= 5000 * 120
  <2>1. NetworksHold <=> \A n \in Names :
          /\ Networks(n) * 10000 <= 5000 * Attacks(n)
          /\ (Attacks(n) - Missing(200, n)) * 10000 >= 9000 * Attacks(n)
    BY Checks
  <2>2. \A n \in Names : (Attacks(n) - Missing(200, n)) * 10000 >= 9000 * Attacks(n)
    BY <1>3, <1>7, <1>8, <1>9 DEF Names
  <2>3. \A n \in Names : n # "test" => Networks(n) * 10000 <= 5000 * Attacks(n)
    BY <1>3, <1>4, <1>5 DEF Names
  <2> QED
    BY <1>2, <1>3, <2>1, <2>2, <2>3
<1>13. Networks("test") * 10000 <= 5000 * 120 <=> p <= 3
  <2> HIDE DEF p
  <2> QED
    BY <1>1, <1>6
<1> QED
  BY SMTT(30), <1>11, <1>12, <1>13

\* In any state of a valid configuration, the shapes of the locked profiles validate.
LEMMA ShapesValidate == Stage => LockedShapesValidate
<1> SUFFICES ASSUME Stage PROVE LockedShapesValidate
  OBVIOUS
<1>1. \A n \in ToSet(SplitNames) : Total([k \in CampaignsOf(n) |-> SizeOf(n, k)]) = Attacks(n)
  BY TheNames, QuotasAreMet
<1>2. ASSUME AsShipped
      PROVE  /\ ShiftHolds
             /\ NetworksHold <=> (Thin("test") => config.splits["test"].evasion.parameter <= 3)
  <2>1. CASE Thin("test")
    <3>1. config.profile = "adversarial-stress"
      <4>1. "test" \in Names
        BY DEF Names
      <4> QED
        BY <2>1, <4>1, ThinIsConfined
    <3>2. /\ Shares("train", 40, 2, 20, 0) /\ Shares("calibration", 20, 4, 5, 0)
          /\ Shares("test", 120, 20, 6, 0)
      BY <1>2, <3>1, LockedShares
    <3> QED
      BY <1>2, <2>1, <3>1, <3>2, ThinCampaignsValidate
  <2>2. CASE ~Thin("test")
    <3>1. ShiftHolds /\ NetworksHold
      BY <1>2, <2>2, LockedShares, DevelopmentValidates, PolicyValidationValidates,
         AdversarialStressValidates
    <3> QED
      BY <2>2, <3>1
  <2> QED
    BY <2>1, <2>2
<1> QED
  BY <1>1, <1>2 DEF LockedShapesValidate

\* The locked profiles have shapes that meet their quotas exactly and pass the
\* distribution checks of the validator, for every seed and every accepted
\* configuration with the shipped settings (LockedShapesValidate).
THEOREM LockedProfilesValidate == Spec => []LockedShapesValidate
<1>1. GeneratorInv => LockedShapesValidate
  BY ShapesValidate DEF GeneratorInv
<1> QED
  BY <1>1, GeneratorInvariantHolds, PTL
================================================================================
