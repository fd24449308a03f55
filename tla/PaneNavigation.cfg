SPECIFICATION NavigationSpec
CONSTANTS
  Folders = {home, work}
  Aliases = {alias}
  Home = home
  Groups = {g1, g2}
  Tabs = {t1, t2}
  MaxGeneration = 5
INVARIANTS
    ShownIsTab
    NavigationIsOwed
    IntentBelongsToNavigation
PROPERTIES
    HistoryKept
