SPECIFICATION FairSpec
CONSTANTS
  big = big
  small = small
  Boxes = {big, small}
  Supported <- BigAndSmall
  Minimum = 1
  Availables = {1, 2}
  MaxSilence = 1
INVARIANTS TypeOK SplitIsFair
PROPERTIES RaiseFits LostBoxStopsAll
