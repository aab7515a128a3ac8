CONSTANTS
  Entries = 4
  Data = {1, 2, 3}
  Zero = 0
  Callback <- MCCallback
SPECIFICATION Spec
INVARIANT RingInv
PROPERTY IsBoundedQueue
