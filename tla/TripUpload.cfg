SPECIFICATION Spec
CONSTANTS
  t1 = t1
  t2 = t2
  t3 = t3
  k1 = k1
  k2 = k2
  None = None
  Trips <- MCTrips
  Keys <- MCKeys
  KeyOf <- MCKeyOf
  MaxRetries = 1
INVARIANTS
  TypeOK
  OneFate
  ListedIsInCloud
  ListIsOlderRealm
PROPERTIES
  ImplementsLedger
  RequestSettles
