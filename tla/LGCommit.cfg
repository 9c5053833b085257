CONSTANTS
  c1 = c1
  c2 = c2
  Client <- TwoClients
  MaxCommits <- TwoEach
  MaxErrors = 1
SPECIFICATION Spec
INVARIANTS
  TypeOK
  VisibleEpochsComplete
  NoStrandedCommit
  AckedIsDurable
  LoggedOnceInOrder
PROPERTIES
  ImplementsEpochs
  CommitReturns
  ServerJoins
