SPECIFICATION FairSpec
CONSTANTS
  k1 = k1  k2 = k2  c1 = c1  c2 = c2
  None = None
  Client = {k1, k2}
  Call = {c1, c2}
  Owner <- OneEach
  Handler = {h1, h2}
  Hosts = 3
  Up <- TwoHosts
  Retries <- OnceAndThrice
  Closing = {k1}
INVARIANTS RegistryIsTrue ServedAsTried GivesUpAfterAllHosts
PROPERTY NobodyWaitsForEver
