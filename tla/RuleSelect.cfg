SPECIFICATION Spec
CONSTANTS
  NIL = NIL
  ip1 = ip1
  ip2 = ip2
  ip3 = ip3
  Conn = {c1, c2}
  Label = {"", "*", "+", "www", "img", "ads", "com", "a", "b", "net", "web", "org", "x"}
  Name <- MCName
  IP = {ip1, ip2, ip3}
  Lookup <- MCLookup
  MS <- MCRules
  DirectTo = ""
  GlobalTo = "node2"
  Node = {"node1", "node2"}
INVARIANTS MatchedNeverNil RoutedWhenAlone UncoveredDropped
SYMMETRY Symmetry
