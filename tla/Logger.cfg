SPECIFICATION Spec
CONSTANTS
    FileNum = 2
    Month = 3
    MaxDay = 5
    MaxLines = 5
    MaxRuns = 2
    DiskMayFail = TRUE
    NoDay = NoDay
    NoFile = NoFile
INVARIANTS
    KeepsNewest
    LastLineStored
    FileOfDay
\* The lines and the starts are bounded, the clock is not.
