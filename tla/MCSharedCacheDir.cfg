SPECIFICATION Spec
CONSTANTS
  main = main
  sub = sub
  v1 = v1
  v2 = v2
  NoDir = NoDir
  None = None
  MaxFaults = 1
  Overlap = TRUE
  Files <- MCFiles
  Contents <- MCContents
  FilesOf <- MCFilesOf
INVARIANT
  Undisturbed
