CONSTANTS
    boot = boot
    refresh = refresh
    update = update
    install = install
    gopls = gopls
    Job <- OneJob
    Boot = boot
    Refresh = refresh
    Update = update
    Counted <- Counts1
    Tool <- OneTool
    WaitErrors = TRUE
CHECK_DEADLOCK FALSE
SPECIFICATION FairSpec
INVARIANT FieldFollowsJobs
PROPERTY BootGateSpec
PROPERTY GateLifts
PROPERTY QueueAdvances
PROPERTY CountSettles
