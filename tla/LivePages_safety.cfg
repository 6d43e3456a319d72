\* Two streams, two keys, two groups, one change: every race of join, leave,
\* publish, deliver and Notify.  The debounce window is on.
SPECIFICATION Spec
CONSTANTS
  Streams = {s1, s2}
  Keys = {k1, k2}
  Groups = {g1, g2}
  Writers = {w1}
  None = None
  MaxVersion = 1
  Debounced = TRUE
SYMMETRY Symmetry
INVARIANTS DeliverNeverBlocks GroupMapExact
PROPERTIES LiveViewRefined
