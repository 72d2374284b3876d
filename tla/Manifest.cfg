CONSTANTS
  w = w  r = r  f1 = f1  f2 = f2  f3 = f3  c1 = c1  c2 = c2  c3 = c3
  Nodes = {w, r}
  Writer = w
  Fillers = {f1, f2, f3}
  Home <- MCHome
  Closers = {c1, c2, c3}
  Closes <- MCCloses
  MaxSize = 2
  MaxStamp = 3
  Loads <- MCLoads
SYMMETRY MCSymmetry
SPECIFICATION Spec
CHECK_DEADLOCK FALSE
INVARIANT BlobCurrent
INVARIANT EntriesCurrent
INVARIANT CleanIsPublished
