------------------------------ MODULE MCSimulation ------------------------------
EXTENDS SimulationGenerator

S(days, events, campaigns, placement, evasion) ==
    [days |-> days, events |-> events, campaigns |-> campaigns, placement |-> placement, evasion |-> evasion]

Base(version, profile, start, train, calibration, test) ==
    [version |-> version, profile |-> profile, start |-> start,
     splits |-> [train |-> train, calibration |-> calibration, test |-> test],
     retry |-> [fewest |-> 2, most |-> 4, minGap |-> 2, maxGap |-> 18],
     shift |-> LockedShift, missing |-> [device |-> 300, network |-> 200]]

Development(placement, evasion) ==
    Base("1.1.0", "development", "2026-01-01", S(20, 66000, 8, None, None),
         S(5, 17000, 10, placement, None), S(5, 17000, 3, None, evasion))

PolicyValidation ==
    Base("1.1.0", "policy-validation", "2026-03-01", S(5, 5000, 5, None, None),
         S(3, 2000, 4, Placement(5000, 2, 2, 30, 4096), None), S(3, 2000, 2, None, None))

Adversarial(evasion) ==
    Base("1.2.0", "adversarial-stress", "2026-06-01", S(2, 2000, 2, None, None),
         S(2, 1000, 4, Placement(5000, 2, 2, 30, 4096), None), S(4, 6000, 20, None, evasion))

Evasion(variant, parameter) == [variant |-> variant, parameter |-> parameter]

\* The four shipped variants, the longest campaign and a spread too thin to validate.
Evasions ==
    {Evasion("slow_and_low", 1440), Evasion("slow_and_low", 10080), Evasion("window_edge", 60),
     Evasion("window_edge", 3600), Evasion("distributed_thin", 2), Evasion("distributed_thin", 4),
     Evasion("failure_camouflage", 800)}

Smoke == Base("1.0.0", "smoke", "2026-01-01", S(4, 1400, 2, None, None), S(1, 300, 1, None, None), S(1, 300, 1, None, None))

\* The tightest boundary the campaigns before it fit in.
TightSmoke == Base("1.1.0", "smoke", "2026-01-01", S(4, 1400, 2, None, None),
                   S(1, 400, 4, Placement(1285, 2, 2, 30, 4096), None), S(1, 300, 1, None, None))

Retry(fewest, most) == [fewest |-> fewest, most |-> most, minGap |-> 2, maxGap |-> 18]

\* The shipped configurations and variations of them, some to be refused.
MCConfigs ==
    {Development(Placement(6000, 5, 5, 30, 4096), None), PolicyValidation, Smoke, TightSmoke}
    \cup {Adversarial(e) : e \in Evasions}
    \cup {[Smoke EXCEPT !.retry = Retry(2, 2)], [Smoke EXCEPT !.retry = Retry(3, 4)],
          [Smoke EXCEPT !.retry = Retry(3, 3)],
          [Smoke EXCEPT !.splits["test"].evasion = Evasion("window_edge", 60)],
          Development(None, None), Development(Placement(5000, 5, 5, 30, 4096), None),
          Development(Placement(6000, 5, 5, 30, 4096), Evasion("window_edge", 60)),
          [Adversarial(None) EXCEPT !.version = "1.1.0"], Adversarial(None),
          [PolicyValidation EXCEPT !.start = "2026-06-01"],
          [TightSmoke EXCEPT !.splits["calibration"].placement.basisPoints = 1284]}
================================================================================
