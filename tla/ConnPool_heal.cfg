\* The pool does not heal after a backend restart: with initConnNum =
\* maxConnNum = 2, the connections broken by the crash are put back when
\* they fail and still counted, so none is ever replaced, although the timer
\* tasks, initDb's tail and the passing of time are all weakly fair.
CONSTANTS
  c1 = c1
  c2 = c2
  k1 = k1
  k2 = k2
  k3 = k3
  NoConn = NoConn
  Clients <- MCClients
  Conns <- MCConns
  InitConnNum = 2
  MaxConnNum = 2
  FirstTries = 1
  SecondTries = 1
  TaskCloseIdleConnNum = 3
  MaxRequests = 1
  MaxCrashes = 1
SPECIFICATION HealSpec
PROPERTY
  PoolHeals

