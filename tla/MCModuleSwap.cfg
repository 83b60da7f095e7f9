CONSTANTS
    Programs = {"probe", "capture", "qualify"}
    Jobs <- MCJobs
    MaxStarts = 2
SPECIFICATION Spec
CHECK_DEADLOCK FALSE
INVARIANTS
    AcceptedIsTrue
    CompleteIsAccepted
PROPERTIES
    NeverForced
