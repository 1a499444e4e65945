SPECIFICATION LauncherSpec
CONSTANTS
    Proc = {1, 2, 3}
    OneBreaks = FALSE
    MaxGames = 3
    MaxKills = 2
INVARIANTS
    RunningIsRecorded
CHECK_DEADLOCK FALSE
