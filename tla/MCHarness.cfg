SPECIFICATION FairSpec
CONSTANTS
  Script <- MCScript
  Attempts = 3
INVARIANTS
  TypeOK
  ReportIsComplete
  OneAtATime
PROPERTY ScriptEnds
\* A script ends, and with it what is looked at.
CHECK_DEADLOCK FALSE
