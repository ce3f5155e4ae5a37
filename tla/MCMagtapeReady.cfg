CONSTANTS
  Units = {0, 1}
  Protected = {0}
  LengthField = 2
  BufferWords = 2
  Microcodes = {33, 4, 10, 16}
  GuestWords = {0, 1}
  HostFiles <- MCHostFiles
  MaxFiles = 2
  MaxPending = 2
  MaxTime = 1
SPECIFICATION MagtapeSpec
INVARIANT
  ReadyIsAPromise
