\* Six rows of two kinds, drawn in order and committed in any, in pages of two: three
\* pages, and a list that outgrows a page.
SPECIFICATION Spec
CONSTANTS
  Kinds = {"quote", "event"}
  PageSize = 2
  MaxPlaces = 6
INVARIANTS NoGap PagesAdvance
\* Every row is drawn, and the screen is left alone.
CHECK_DEADLOCK FALSE
