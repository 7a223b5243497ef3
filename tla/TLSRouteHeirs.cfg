CONSTANTS
  a = a
  n = n
  Routes = {1, 2}
  Listeners = {a, n}
  Terminating = {a}
  Specs <- OneOrBoth
  Moves <- OneOrBoth
  Rosters <- TwoOrOneAtEither
  Edits <- AnyIfAlone
  MaxEdits = 1
  Nil = Nil
SPECIFICATION FairSpec
CHECK_DEADLOCK FALSE
INVARIANT OwnersServed
PROPERTIES DeletionsEnd
