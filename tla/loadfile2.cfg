SPECIFICATION FairSpec
CONSTANTS
  Consumers = {c1, c2}
  Files <- MCFiles
  NoFile = NoFile
  NoSize = NoSize
INVARIANTS
  TypeOK
  PublishedIsReady
  InstallIsAllOrNothing
  ReplyContract
PROPERTIES
  LocatedIsServed
  ImplementsFileService
  TwoCallsSuffice
CHECK_DEADLOCK FALSE
