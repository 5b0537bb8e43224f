SPECIFICATION Spec
CONSTANTS
  Probes = {a, b}
  Logins = {l, m}
  Logouts = {o}
  Nobody = nobody
  NoRow = noRow
  NoToken = noToken
  MaxFamilies = 2
  MaxGeneration = 2
  MaxClients = 2
SYMMETRY Symmetry
INVARIANTS
  TypeOK
  RefreshIsExclusive
  RevokedOnlyAfterLoss
  StoredTokenIsNewest
PROPERTIES
  LoginRequiredIsHonest
  LogoutSticks
