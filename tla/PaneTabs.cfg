SPECIFICATION Spec
CONSTANTS
  PaneSlots = 3
  MaxTab = 2
INVARIANTS
    TabsReachable
PROPERTIES
    DropMovesOneTab
