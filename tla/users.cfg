SPECIFICATION UsersSpec
CONSTANTS
  Procs = {p1, p2}
  Items = {k1, k2, k3}
  Tabs = {t1, t2}
  Jars = {j1}
  MaxErrors = 1
  MaxLost = 1
  None = None
  JarOf <- SharedJar
  Programs <- SessionPrograms
  Handlers = {p1, p2}
  Uids = {k1, k2, k3}
  Externs = {t1, t2}
  MaxRequests = 3
  MaxMishap = 1
  NoUser = NoUser
INVARIANTS SessionSurvives RacesSettle CachedUserIsCurrent
SYMMETRY SessionSymmetry
CHECK_DEADLOCK FALSE
