SPECIFICATION FairFetchSpec
CONSTANTS
  main = main
  sub = sub
  v1 = v1
  v2 = v2
  NoDir = NoDir
  None = None
  MaxFaults = 3
  Files <- MCFiles
  Contents <- MCContents
  FilesOf <- MCFilesOf
INVARIANTS
  TypeOK
  NeverTorn
  OutcomeTold
  ServedWhileDownloading
PROPERTIES
  KeepsLastGood
  ParkedComesBack
