SPECIFICATION FairSpec
CONSTANTS
  a = a
  b = b
  Senders = {a}
  FileSize <- OneSize
  PKT_DT_SIZE = 2
  W_SIZE = 2
  Fnames = {"fa"}
  d_fname <- OneName
  BlockedInit = {FALSE}
  Mortal = {a}
  NoFile = NoFile
  Timely = TRUE
INVARIANTS
  StreamOpenWhileReceiving
  OpenFileIsPrefix
  DiscardedIsWritten
  ExitMeansCopied
PROPERTIES
  CopiesReliably
  EveryCopyEnds
