SPECIFICATION PartsSpec
CONSTANTS
    Delegates = {d1, d2}
    Client = client
    None = none
    Receivers = {r1, r2, r3}
    Msgs = {m1, m2, m3}
    NoMsg = nomsg
    Skies <- SomeSkies
    Fixes <- SomeFixes
    Cameras = {back, front}
    Levels = {0, 1, 255}
    Maxima = {100, 255, 1023}
    MaxFailures = 1
    Unset = Unset
    STM_DOWNLOADRETRIES = 3
    STM_MAX_BOOT_CHECK_RETRIES = 10
    Packets = 2
    Algos = {"modality", "stowed"}
    PartSets = {0, 1, 2}
INVARIANTS
    DelegateSafety
    FailedStartRunsNothing
    NoLostWakeup
    OneOwner
    UsedFollowsFix
    SentencesComplete
    CameraSafe
    LightsFollow
    HubRecovers
    AlgoFollowsParts
PROPERTIES
    StopSettles
    ImplementsMailbox
    ToolEnds
CHECK_DEADLOCK FALSE
