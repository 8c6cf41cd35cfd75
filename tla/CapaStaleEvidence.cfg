\* One CAPA with two passes through implementation and verification at most.
SPECIFICATION CapaSpec
CONSTANTS
  Capas = {c1}
  People = {p1, p2}
  Nobody = Nobody
  MaxStages = 10
  MaxOwners = 0
INVARIANT ClosedOnFreshEvidence
CHECK_DEADLOCK FALSE
