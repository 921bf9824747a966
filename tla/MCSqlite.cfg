SPECIFICATION Spec
CONSTANTS
  Sessions = {s1, s2, s3}
  NoSession = NoSession
  Records <- MCRecords
  MaxMessages = 2
  MaxKills = 2
  StatementsFail = FALSE
INVARIANTS NothingIsLost NoOrphans NoHoles ActiveIsChosen
