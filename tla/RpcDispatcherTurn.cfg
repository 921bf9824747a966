SPECIFICATION Spec
CONSTANTS
  NoSession = NoSession
  StorageFails = FALSE
  Prefs = {p0}
  DefaultPrefs = p0
  Todos = {none, list}
  NoTodos = none
  Turns = {t1}
  NoTurn = NoTurn
  Tokens = 2
  MaxIterations = 5
  MaxCalls = 2
  Results = {"text", "tools", "throws"}
  MaxSessions = 4
  MaxSaves = 1
INVARIANT NoHoles
PROPERTY AbortStopsTurn
