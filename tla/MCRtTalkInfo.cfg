SPECIFICATION Spec
CONSTANTS
  Conn = {c1, c2, c3}
  NoConn = NoConn
  Foreign = Foreign
  NSlots = 2
  NPast = 1
INVARIANTS TypeOK NoLeak
PROPERTIES ImplementsRegistry ClaimsPastOnlyWhenFull
