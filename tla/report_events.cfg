CONSTANTS
  first = first
  second = second
  b1 = b1
  b2 = b2
  BlockSize = 2
  Readers = {"reader"}
  MaxElements = 3
  MaxVisits = 1
  Depth = 2
  Observers = {first, second}
  Builders = {b1, b2}
  MaxKept <- MCMaxKept
SYMMETRY Symmetry
SPECIFICATION Spec
INVARIANTS VisitsAreExact EventNamesItem ObserversMissNothing MessagesLoggedOnce
PROPERTIES RemovedIsSilent
CHECK_DEADLOCK FALSE
