SPECIFICATION Spec
CONSTANTS
  Words = 2
  Values = 2
  Types = {1, 4}
  Modes = {4}
  Chunk = 2
  Every = 1
  searchResultCounterMax = 1
  searchResultMax = 1
  Swept = 1
  MaxSearches = 2
  Missing = Missing
  Uses = {"undo", "save", "restart"}
INVARIANTS TypeOK FilesCovered ListedIsCurrent
PROPERTIES UndoShows FreshResultsHold ImplementsStack
