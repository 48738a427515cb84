SPECIFICATION FairSpec
CONSTANTS
  s1 = s1
  c1 = c1
  c2 = c2
  p1 = p1
  p2 = p2
  Files = {s1, c1, c2}
  ConceptFiles = {c1, c2}
  Projects = {p1, p2}
  ProjectOf <- MCProjectOf
  Api = {a1, a2}
  Watcher = w
  Tests = {t1}
  Present = {c1, c2}
  Lives <- AllLives
INVARIANT OneProjectPerTest
PROPERTY ConceptsCatchUp
CHECK_DEADLOCK FALSE
