SPECIFICATION FairSpec
CONSTANTS
  Probes = {a, b}
  Logins = {l}
  Logouts = {o}
  Nobody = nobody
  NoRow = noRow
  NoToken = noToken
  MaxFamilies = 1
  MaxGeneration = 2
  MaxClients = 1
PROPERTIES
  ProbesEnd
