\* Renames of an idle log that is polled often.
SPECIFICATION RotationSpec
CONSTANTS
    Unloaded = unloaded
    Replacements = {"rename"}
    ScanSizes = {1, 2}
    RotatesWhenIdle = TRUE
    PolledOften = TRUE
    MaxContents = 3
    MaxLines = 4
    MaxUnanswered = 2
    MaxCrashes = 2
INVARIANTS CheckpointOfThisFile NoLineSkipped
