CONSTANTS
    Absent = Absent
    Bad = Bad
    Total = 3
    Connect = 1
    Read = 2
    MaxBytes = 2
    DiagnosticBytes = 4
    FramingTime = 6
    Statuses <- MCStatuses
    Usages <- MCUsages
SPECIFICATION CallSpec
INVARIANTS AnswersAreSound
PROPERTIES CauseIsKept
CHECK_DEADLOCK FALSE
