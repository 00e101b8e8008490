SPECIFICATION Spec
CONSTANTS
  root = root
  sub = sub
  v1 = v1
  v2 = v2
  a = a
  b = b
  Root = root
  List = List
  Free = Free
  NoDir = NoDir
  None = None
  Forced = FALSE
  MaxFaults = 1
  MaxReadErrors = 1
  Files <- MCFiles
  Contents <- MCContents
  FilesOf <- MCFilesOf
  Callers <- MCCallers
INVARIANTS
  ServerTypeOK
  AnswersConsistent
  MemoIsDisk
  AvailableOnDisk
PROPERTIES
  ActsAsStore
  DownloadsOnce
