SPECIFICATION Spec
CONSTANTS
  SectorWords = 4
  MiniWords = 2
  HeaderSlots = 2
  DirPerSector = 3
  MinisectorCutoff = 5
  RecursionLimit = 12
  MaxWrites = 1
  NOSTREAM = 999
  NoCall = NoCall
  Levels = {30, 40}
  Images <- Files
  Half = 12
  SummaryAttribs = 10
  DocsumAttribs = 2
  SummaryPath <- Sum
  DocsumPath <- Doc
  Tables <- PropTables
INVARIANTS TypeOK NoSectorTwice DirectoryIsTree ListedIsFound SoundReadable MetadataLossKnown
PROPERTY StreamsAreStores
