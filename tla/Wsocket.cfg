SPECIFICATION Spec
CONSTANTS
  Clients = {c1, c2}
  MaxVersion = 2
  HoistedLoad = TRUE
PROPERTIES
  ListensInTheEnd
  UpdateReachesOne
  LoneClientIsTold
  BackOnlyInRaces
