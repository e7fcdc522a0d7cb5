SPECIFICATION Spec
CONSTANTS
  m1 = m1
  m2 = m2
  o1 = o1
  o2 = o2
  c1 = c1
  c2 = c2
  None = None
  Mine <- MCMine
  Offers <- MCOffers
  Calls <- MCCalls
  MaxPresses = 2
SYMMETRY MCSymmetry
INVARIANT RowUnwrapHolds
