SPECIFICATION Spec
CONSTANTS
  u1 = u1
  u2 = u2
  small = small
  d1 = d1
  Uploads = {u1, u2, small}
  Downloads = {d1}
  Size <- UploadSize
  VersionSize <- Sizes
  ClientMids = {1, 2, 3}
  ServerMids = {11}
  MaxCallbacks = 1
  MaxRetransmit = 1
  MaxNet = 2
  Together <- Pairs
  MaxFaults = 1
SYMMETRY Alike
INVARIANTS TypeOK InPlace UploadWhole HandledOnce AnswerTrue DownloadWhole
CHECK_DEADLOCK FALSE
