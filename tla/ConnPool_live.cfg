\* initConnNum = maxConnNum = 2: initDb leaves one connection to its
\* asynchronous tail and the reaper has to create connections.  Every request
\* ProcCmdMsg starts returns, under weak fairness of the
\* callers only (no symmetry: the property is temporal).
CONSTANTS
  c1 = c1
  c2 = c2
  k1 = k1
  k2 = k2
  k3 = k3
  NoConn = NoConn
  Clients <- MCClients
  Conns <- MCConns
  InitConnNum = 2
  MaxConnNum = 2
  FirstTries = 1
  SecondTries = 1
  TaskCloseIdleConnNum = 3
  MaxRequests = 1
  MaxCrashes = 1
SPECIFICATION Spec
INVARIANTS
  TypeOK
  CountMatchesPool
PROPERTIES
  RequestsComplete
