SPECIFICATION Spec
CONSTANTS
    strict = strict
    lax = lax
    word = word
    slow = slow
    Knobs = {"mode", "domains", "patterns"}
    Patterns = {"patterns"}
    Good = {strict, lax}
    Rejected = {"list?", "(a+)+"}
    Broken = {word}
    Slow = {slow}
    Source <- mcSource
    Edits <- mcEdits
    Updates <- mcUpdates
    Keep = 2
    MaxMade = 3
    MaxOps = 5
    MaxFaults = 1
    MaxCrashes = 1
    Unset = Unset
    Absent = Absent
    Garbled = Garbled
INVARIANTS
    TypeOK
    RefusalRestores
    ReplacedTextsAreKept
    FileIsAccounted
    RunsWhatWasWritten
CHECK_DEADLOCK FALSE
