-------------------------- MODULE SimulationInvariant --------------------------
(******************************************************************************)
(* What is true of the generator between two draws, whatever it has drawn.    *)
(******************************************************************************)
EXTENDS SimulationGenerator

Names == {"train", "calibration", "test"}

\* A valid configuration, and a stage of it.
Stage ==
    /\ config \in Configs /\ ValidConfig(config)
    /\ stage \in [split : Names, scenario : ToSet(Scenarios) \cup {"done"}]
    /\ stage.scenario # "attack" => windows = {}

\* A campaign that was placed lies on its side of the boundary.
PlacedIn(w) ==
    /\ w.start \in Int /\ w.length \in Lengths /\ w.side \in {"before", "after"}
    /\ SplitStart(stage.split) <= w.start /\ EndOf(w) <= SplitEnd(stage.split)
    /\ w.side = "before" => EndOf(w) <= Boundary
    /\ w.side = "after" => Boundary <= w.start

Windows == \A w \in windows : Split.placement # None /\ PlacedIn(w)

\* Campaigns keep the gap to each other, and no side has more than its places.
Spacing == windows # {} =>
    /\ IsFiniteSet(windows)
    /\ \A v \in windows, w \in windows : v # w => Apart(v, w)
    /\ \A side \in {"before", "after"} : Cardinality(Side(side)) <= Places(side)

\* With chains of two and more, neither a chain nor what is left is ever too short;
\* with chains of two, what is left is even.
Chains == stage.scenario = "legitimate_retry" =>
    /\ remaining \in Nat /\ last \in Nat
    /\ remaining = 0 => last # 0
    /\ config.retry.fewest = 2 =>
        /\ remaining # 1
        /\ config.retry.most = 2 => remaining % 2 = 0
        /\ last \in {0} \cup 2 .. config.retry.most
        /\ sizes \subseteq 2 .. config.retry.most

GeneratorInv ==
    /\ Stage /\ Windows /\ Spacing /\ Chains
    /\ EventsKeepToTheirSplit /\ ChainsValidate /\ EvasionIsConfined
================================================================================
