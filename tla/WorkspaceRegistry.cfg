CONSTANTS
  p = p
  i1 = i1
  i2 = i2
  i3 = i3
  t1 = t1
  c1 = c1
  c2 = c2
  r1 = r1
  r2 = r2
  src = src
  logo = logo
  Binary = Binary
  NoId = NoId
  Path = {p}
  Id = {i1, i2, i3}
  Term = {t1}
  File = {src, logo}
  Lines <- MCLines
  Window = 3
  Overlap = 1
  Batch = 2
  Opener = {c1, c2}
  Run = {r1, r2}
  MaxOpens = 3
  MaxRuns = 2
SPECIFICATION RegistrySpec
INVARIANTS RegistryTypeOK NoOrphanRows DoneMeansCovered LoneRunExact
PROPERTY ReopeningKeepsAll
SYMMETRY MCSymmetry
