SPECIFICATION Spec
CONSTANTS
  Size = 3
  Users = {js}
CHECK_DEADLOCK FALSE
INVARIANTS
  RestsInside
  RestsPlaying
PROPERTIES
  LoneCallAgrees
  DiesOnlyInRaces
  MusicGoesOn
