CONSTANTS
  a = a
  n = n
  Routes = {1, 2}
  Listeners = {a, n}
  Terminating = {a}
  Specs <- OneEach
  Moves <- OneEach
  Rosters <- TwoAtA
  Edits <- MovesOnly
  MaxEdits = 1
  Nil = Nil
SPECIFICATION Spec
CHECK_DEADLOCK FALSE
PROPERTY StaleStateCleared
