SPECIFICATION DocumentSpec
CONSTANTS
  Absent = Absent
  Torn = Torn
  MaxVersion = 3
  Panes = {1, 2}
  LastTab = 2
  Names = {home}
  Home = home
  Columns = {wide}
  Fonts = {large}
  None = None
  Closed = Closed
  Garbled = Garbled
  Unreadable = Unreadable
  MaxEdits = 2
INVARIANTS
    CommittedSurvives
    ReadsBack
    UnknownFieldsKept
PROPERTIES
    NoSilentLoss
    KnownGoodBackupKept
