SPECIFICATION Spec
CONSTANTS
  NoSession = NoSession
  StorageFails = TRUE
  Prefs = {p0, p1}
  DefaultPrefs = p0
  Todos = {none}
  NoTodos = none
  Turns = {t1, t2}
  NoTurn = NoTurn
  Tokens = 2
  MaxSessions = 3
  MaxSaves = 1
INVARIANT EndedTurnsAreStored
PROPERTY ImplementsDurableLog
