SPECIFICATION Spec
CONSTANTS
  FileSlots = {5}
  Files = {f}
  Cells = {x, y}
  FlagSets <- Appending
  MaxSize = 2
  SignBit = 4
  Offsets = {0, 1, 2, 6, 7}
  a = a
  b = b
  c = c
  Names <- DirNames
  NameLen <- Lengths
  HeadLen = 2
  BufLen = 6
  MaxEntries = 3
  MaxChanges = 2
  Addresses = 16
  MemSize = 16
  Pointers = {0, 13, 15}
  Lens = {0, 1, 2, 3, 5}
  MaxList = 3
  TimeSign = 4
  MaxSubs = 2
  Argv <- ArgStrings
  Envp <- EnvStrings
  GuestPath = 2
  PathCap = 3
  MaxIov = 2
VIEW View
INVARIANT FilesTypeOK
INVARIANT DirTypeOK
INVARIANT MemTypeOK
INVARIANT ListingIsFaithful
INVARIANT StaysInBuffers
INVARIANT ArgsFit
INVARIANT PollAnswers
PROPERTY AppendsOnlyAppend
PROPERTY RightsHold
PROPERTY AllocateReserves
PROPERTY ListingEnds
CHECK_DEADLOCK FALSE
