\* Every kind of request, its parts varied one at a time.
SPECIFICATION Spec
CHECK_DEADLOCK FALSE
CONSTANTS
  Asks <- MCAsks
  Keys <- MCKeys
  MaxDomain = 15
  MaxLabel = 3
  MaxField = 3
  MaxFile = 4
  MaxName = 4
  Slack = 2
  BlockSize = 36
  QuietZone = 1
  QrSize = 5
INVARIANTS
  UrlAcceptance
  UrlTargetKept
  FormAsSent
  UploadAsSent
  StoredNameSound
  AnswerReadsBack
  QrReadsBack
