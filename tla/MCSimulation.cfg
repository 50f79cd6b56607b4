CONSTANTS
    None = None
    DrawPoints = {0, 209, 210, 555}
    Lengths = {180, 540}
    MaxQuota = 9
    Configs <- MCConfigs
SPECIFICATION Spec
INVARIANTS
    EventsKeepToTheirSplit
    CampaignsKeepToTheirSide
    ChainsValidate
    LockedShapesValidate
    EvasionIsConfined
\* A dataset is finished or refused.
CHECK_DEADLOCK FALSE
