SPECIFICATION FairSpec
CONSTANTS
  None = None
  c1 = c1
  c2 = c2
  c3 = c3
  l1 = l1
  w1 = w1
  w2 = w2
  d1 = d1
  d2 = d2
  e1 = e1
  e2 = e2
  Domain = {d1, d2}
  Endpoint = {e1, e2}
  Connector = {c1, c2, c3}
  Lister = {l1}
  Writer = {w1, w2}
  Silent = {c1}
  Server <- MCServer
  Within <- MCWithin
INVARIANTS
  TypeOK
  EntryIsCurrent
PROPERTIES
  ImplementsTable
  Served
CHECK_DEADLOCK FALSE
