SPECIFICATION Spec
CONSTANTS
  n1 = n1
  n2 = n2
  Nodes = {n1}
  Svc = svc
  Cports = {0, 1}
  NumRoutes = 3
  Senders = {s1}
  None = None
INVARIANT RoutedToPeer
