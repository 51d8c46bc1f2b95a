SPECIFICATION Spec
CONSTANTS
  u1 = u1
  u2 = u2
  u3 = u3
  s1 = s1
  s2 = s2
  People = {u1, u2, u3}
  Services = {s1, s2}
  PersonTargets <- MCPersonTargets
  SystemTargets <- MCSystemTargets
SYMMETRY Symmetry
INVARIANTS
  TypeOK
  OneWinnerPerVersion
  HistoryAccountsForStatus
PROPERTIES
  PersonStepsLegal
  ImplementsLifecycle
\* Every call has been answered: nothing is left to do.
CHECK_DEADLOCK FALSE
