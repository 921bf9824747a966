SPECIFICATION Spec
CONSTANTS
  t1 = t1
  t2 = t2
  setup = setup
  build = build
  Tasks <- MCTasks
  PhaseNames <- MCPhaseNames
  General = setup
  InitLists <- MCInitLists
  MaxPhases = 2
  MaxPlace = 2
INVARIANT OneActive
PROPERTY PreemptedOnlyByStart
