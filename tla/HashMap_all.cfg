SPECIFICATION Spec
CONSTANTS
  k1 = k1
  k2 = k2
  k3 = k3
  Keys = {k1, k2, k3}
  Vals = {v1, v2}
  NULL = NULL
  Hash <- MCHash
  InitCap = 2
  MaxCap = 8
  Clients <- MCClients
INVARIANTS
  TypeOK
  LoadBound
  ProbesTerminate
  RehashTerminates
  LenIsExact
  ReadYourWrites
PROPERTY ImplementsDictionary
