SPECIFICATION Spec
CONSTANTS
  s1 = s1
  s2 = s2
  home = home
  airport = airport
  here = here
  c1 = c1
  c2 = c2
  None = None
  Screens <- MCScreens
  Places <- MCPlaces
  Locations <- MCLocations
  Calls <- MCCalls
  MaxAlts = 2
INVARIANTS
  TypeOK
  SingletonUnwrapsHold
  OrderlyUse
PROPERTIES
  OffscreenMapFrozen
  RouteOffered
