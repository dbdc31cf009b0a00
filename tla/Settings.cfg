SPECIFICATION Spec
CONSTANTS
  c = c
  Playlists = {c, a, b}
  Catalog = c
  Threads = {joystick, wsocket}
INVARIANTS
  FileIsMemory
  StartsAgain
PROPERTIES
  NeverRepaired
