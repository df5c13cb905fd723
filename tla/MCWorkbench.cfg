SPECIFICATION Spec
CONSTANTS
  Files <- MCFiles
  Exported <- MCExported
  WithMember <- MCWithMember
  Identifiers <- MCIdentifiers
  FirstBlocks <- MCFirstBlocks
  Blocks <- MCBlocks
  MaxBlocks = 2
  Codes <- MCCodes
  Expressions <- MCExpressions
  ScopeTrees <- MCScopeTrees
  TypeGraphs <- MCTypeGraphs
  Places <- MCPlaces
  Fits <- MCFits
  LastPackage = 4
  Worlds <- MCWorlds
  Sources <- MCSources
  Programs <- MCPrograms
  Texts <- MCTexts
  BufLen = 8
  MinRead = 4
  Lines <- MCLines
  MaxLines = 4
INVARIANTS
  
  GoroutinesManaged
  MeaningKept
  PackageSound
  CursorUnderstood
  OffersValid
  InstallsInOrder
  NothingLost
  LanguageAccepted
  TextDelivered
  LinesContinued
CHECK_DEADLOCK FALSE
