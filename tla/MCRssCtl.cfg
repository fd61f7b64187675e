CONSTANTS
    Tools = {1, 2}
    Commands <- MCCommands
    channels = 2
    reta_size = 3
    KeyWords = 2
    WordModulus = 4
    RowLength = 2
    InputBits = {0, 2}
SPECIFICATION RssSpec
INVARIANTS
    ConfigurationApplied
    DumpTruthful
\* all runs are over
CHECK_DEADLOCK FALSE
