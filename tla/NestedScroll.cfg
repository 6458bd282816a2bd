SPECIFICATION FairSpec
CONSTANTS
  Pages = {intro, comments}
  First = intro
  Header = 3
  MaxStep = 4
  Length = 3
INVARIANTS
  OneScroller
  HeaderMovesAlone
PROPERTIES
  HeaderReturns
  ListReachesEnd
