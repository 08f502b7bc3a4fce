\* Stale reply: a read that timed out leaves its reply on a connection that
\* is put back and lent to the next caller.
CONSTANTS
  c1 = c1
  c2 = c2
  k1 = k1
  k2 = k2
  k3 = k3
  NoConn = NoConn
  Clients <- MCClients
  Conns <- MCConns
  InitConnNum = 1
  MaxConnNum = 2
  FirstTries = 2
  SecondTries = 1
  TaskCloseIdleConnNum = 3
  MaxRequests = 1
  MaxCrashes = 1
SPECIFICATION Spec
INVARIANTS
  ReplyMatchesRequest
