CONSTANTS
  r = r
  s = s
  d = d
  e = e
  c = c
  f = f
  g = g
  h = h
  i = i
  k = k
  Dirs = {r, s, d, e, c}
  Files = {f, g, h, i, k}
  Card <- MCCard
  Parent <- MCParent
  Odd = {c, g}
  NChunks = 2
  MaxFaults = 3
SPECIFICATION FairSpec
INVARIANTS TypeOK OthersArrive SingleReported DirFailureKept
PROPERTIES CommandEnds
