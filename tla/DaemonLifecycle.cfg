CONSTANTS
  c1 = c1
  c2 = c2
  a1 = a1
  Cli = {c1, c2}
  App = {a1}
  MaxCli = 3
  MaxApp = 1
SYMMETRY Shells
SPECIFICATION LifecycleSpec
INVARIANTS LifecycleTypeOK StompedInRacesOnly StopReachesAll ServedWhenQuiet
CHECK_DEADLOCK FALSE
