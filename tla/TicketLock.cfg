CONSTANTS
  Harts = {h1, h2, h3}
  Tickets = 4
SPECIFICATION FairSpec
INVARIANT LockInv MutualExclusion
PROPERTY ServedInOrder SpinnerServed
