SPECIFICATION ArchiveSpec
CONSTANTS
  a1 = a1
  a2 = a2
  None = None
  Archives = {a1, a2}
  Dirs <- Directories
  Required <- RequiredDirectories
  Reset <- ResetDirectories
  Holds <- Contained
  Listings <- MetadataLists
VIEW LiveState
CHECK_DEADLOCK FALSE
INVARIANTS ArchiveTypeOK OkMeansRestored
PROPERTIES  ImplementsDatabaseRestore
