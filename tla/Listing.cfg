SPECIFICATION Spec
CONSTANTS
  g = g
  None = None
  Keys <- FourKeys
  Folder <- FolderInTheMiddle
  Backends = {"memory", "s3", "file"}
  Limits = {1, 2}
  DefaultLimit = 3
  MaxRetries = 1
  MaxWrites = 7
INVARIANTS IInv TypeOK ListsWhatStays ListedOnce ListedWasThere
