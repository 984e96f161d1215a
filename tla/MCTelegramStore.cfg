\* TelegramStore: batches of up to three files, albums of two, archives of three parts.
CONSTANTS
  MaxAlbumItems = 2
  Retry = 2
  SkipLarge = TRUE
  SplitLargeVideo = TRUE
  ZipParts = 3
  MaxFiles = 3
  NoKey = NoKey
  Batches <- MCBatches
SPECIFICATION Spec
INVARIANTS
  AlbumsAreSourceGroups
  NilMeansSent
  SentTwiceForCause
