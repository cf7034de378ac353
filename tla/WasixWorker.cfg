\* Every operation and every event; the pipes hold less than is written.
SPECIFICATION FairSpec
CONSTANTS
    Operations = {"probe", "transport", "restore", "capture"}
    Events = {"fault", "timeout", "cancel", "fork", "crash", "place", "refuse", "replace"}
    Starts <- MCStarts
    PipeFrames = 2
    PipeLogs = 1
    Logs = 2
INVARIANTS AuthorizedRun TrustedImage ComesUpIfSound SuccessIsWhole NothingLeftBehind OrphansStop NeverStuck
PROPERTY EveryOperationEnds
CHECK_DEADLOCK FALSE
