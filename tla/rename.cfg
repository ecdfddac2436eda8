SPECIFICATION RenameSpec
CONSTANTS
  a = a
  b = b
  none = none
  FileNames = {a, b}
  Entries <- MCEntries
  NoFile = none
INVARIANT SourcesSurvive
CHECK_DEADLOCK FALSE
