\* SaveDialog: an album of two files and a single one, a directory of one of two storages.
CONSTANTS
  s1 = s1
  s2 = s2
  d1 = d1
  f1 = f1
  f2 = f2
  f3 = f3
  Storages = {s1, s2}
  Dirs = {d1}
  StorageOf <- MCStorageOf
  Files = {f1, f2, f3}
  AlbumFiles = {f1, f2}
  RuleFor <- MCRuleFor
  Ranges <- MCRanges
  Features = {"directlinks", "bulkdl"}
  Root = Root
  NewForAlbum = NewForAlbum
  None = None
SPECIFICATION DialogSpec
INVARIANTS
  ReplyAccounts
  SavedWhereChosen
  ConsentToReplace
