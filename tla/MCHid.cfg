SPECIFICATION Spec
CONSTANTS
  Nodes = {n1, n2, n3}
  MaxReports = 6
  MaxOpens = 2
INVARIANTS NodesConserved ReportsInOrder
PROPERTY ReportsFlow
CHECK_DEADLOCK FALSE
