SPECIFICATION Spec
CONSTANTS
  TS_WindowSize = 3
  Blocks = {0, 1, 3}
  ReadTimes = {1, 2}
  WriteTimes = {1}
  MissTimes = {2}
  NoChoice = NoChoice
INVARIANTS CountersMatchWindow IndexMatchesWindow ChoiceFromWindow
PROPERTIES ImplementsWindow
