\* Three helpers, so that a chain of inherited write ends has a middle; pipes
\* of two records under three lines, so that they fill.
CONSTANTS
    H = 3
    PipeRecords = 2
    Lines = 3
    WriteOnly = TRUE
SPECIFICATION HrcSpec
INVARIANTS SamePrefix CleanStopIsComplete
PROPERTIES HelpersOutliveNobody MainIsNeverStuck
\* A run comes to its end when every process is gone.
CHECK_DEADLOCK FALSE
