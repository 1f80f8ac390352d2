\* Calls, a full bus, cancellations and a drain; two daemons that start; a
\* verification, its ledger, and restores.
SPECIFICATION AllSpec
CONSTANTS
  NoCall = NoCall
  On = {"restore"}
  p = p  q = q  v = v
  one = one  two = two
  set1 = set1  set2 = set2
  Call <- PlainAndCaptured
  Captured <- OneCaptured
  Id <- TwoIds
  SetName <- TwoSets
  Capacity = 1
  Procs <- TwoPlain
  Recorders <- TwoPlain
  ReceiptIds = {"i1", "i2"}
  MaxAttempts = 3
  MaxEntries = 2
  ReceiptBytes = 2
  MaxLedgerBytes = 5
  MaxCrashes = 1
  Daemons <- TwoPlain
  Options <- AllOptions
  MaxEdits = 1
  TokenUsers <- TwoIds
  Targets = {"A", "B"}
  Small = {"B"}
  ImageKinds = {"block", "disk", "stream", "file"}
  ChainLength = 2
  Layout <- TwoChunks
  Ttl = 0
  MaxTime = 1
  MaxTokens = 1
  MaxEvents = 1
  MaxChain = 2
  MaxRawBytes = 4
  Headroom = 1
  Available = {3, 5}
  MaxChanges = 1
SYMMETRY Interchangeable
CHECK_DEADLOCK FALSE
INVARIANTS OneJobPerSet DrainIsComplete StartIsGuarded
           AttemptIsRecordable VerifiedIsWhatWasCaptured OnlyTheAgreedIsWritten
PROPERTIES RunsDoNotOverlap LedgerIsTrue RestoreIsWholeOrRefused
