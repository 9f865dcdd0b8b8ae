CONSTANTS
  Scripts <- MCScripts
  MaxWritten = 3
  MaxTime = 3
SPECIFICATION FairFileSpec
INVARIANTS
  FileTypeOK
  NoCommandTwice
PROPERTY CommandTaken
CHECK_DEADLOCK FALSE
