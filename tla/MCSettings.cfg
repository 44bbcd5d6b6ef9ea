SPECIFICATION SettingsFairSpec
CONSTANTS
  Field = {"size", "padding", "family", "hosts"}
  FontSize = "size"
  Hosts = "hosts"
  Host = {"a", "b", "new"}
  NewHost = "new"
  Values <- MCValues
  Default <- MCDefault
  Shown <- MCShown
  Unwritten <- MCUnwritten
  Texts <- MCTexts
  Capacity = 1
  MaxEdits = 2
  MaxActions = 3
INVARIANTS QuietPanelIsFile
PROPERTIES OwnTextKept Settles
CHECK_DEADLOCK FALSE
