SPECIFICATION FairSpec
CONSTANTS
  NoSession = NoSession
  StorageFails = FALSE
  Prefs = {p0}
  DefaultPrefs = p0
  Todos = {none}
  NoTodos = none
  Turns = {t1, t2}
  NoTurn = NoTurn
  Tokens = 1
  MaxIterations = 2
  MaxCalls = 1
  Results = {"text", "tools", "throws"}
  MaxSessions = 2
  MaxSaves = 1
INVARIANTS MessagesStayHome DoneTurnsAreStored
PROPERTIES ImplementsDurableLog TurnsEnd
