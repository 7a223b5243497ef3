CONSTANTS
  a = a
  n = n
  Routes = {1, 2}
  Listeners = {a, n}
  Terminating = {a}
  Specs <- OneOrBoth
  Moves <- OneEach
  Rosters <- TwoOrOneAtBoth
  Edits <- MovesOrAnyIfAlone
  MaxEdits = 1
  Nil = Nil
SPECIFICATION Spec
CHECK_DEADLOCK FALSE
INVARIANTS TypeOK TargetsExist OwnersServed
PROPERTIES ReleasedMeansUnserved
