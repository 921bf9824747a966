SPECIFICATION FairUISpec
CONSTANTS
  NoSession = NoSession
  StorageFails = FALSE
  Prefs = {p0, p1}
  DefaultPrefs = p0
  Todos = {none}
  NoTodos = none
  Turns = {t1, t2}
  NoTurn = NoTurn
  Tokens = 2
  MaxSessions = 4
  MaxSaves = 1
INVARIANTS RestartReopensCurrent RepliesFollowPrompts ThreadShowsConversation
PROPERTIES StreamsIntoOwnCard ComposerReturns
