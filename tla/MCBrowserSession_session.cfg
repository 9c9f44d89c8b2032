SPECIFICATION BrowserSpec
SYMMETRY Symmetry
CONSTANTS
  Tabs = {t1, t2}
  Users = {u1, u2}
  MaxActions = 4
  Nobody = Nobody
INVARIANTS NoFormerUser
CHECK_DEADLOCK FALSE
