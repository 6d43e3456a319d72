\* Changes are not lost: two streams share one group, and two changes, so that
\* the second may be signalled inside the debounce window of the first.
SPECIFICATION FairSpec
CONSTANTS
  Streams = {s1, s2}
  Keys = {k1}
  Groups = {g1}
  Writers = {w1}
  None = None
  MaxVersion = 2
  Debounced = TRUE
INVARIANTS NoLostChange
PROPERTIES EventuallyFresh
