SPECIFICATION Spec
CONSTANTS
  a = a
  b = b
  Senders = {a, b}
  FileSize <- TwoSizes
  PKT_DT_SIZE = 2
  W_SIZE = 2
  Fnames = {"fa", "fb"}
  d_fname <- TwoNames
  BlockedInit = {FALSE}
  Mortal = {}
  NoFile = NoFile
  Timely = TRUE
INVARIANT OpenFileIsPrefix
