SPECIFICATION Spec
CONSTANTS
  one = one
  two = two
  N = 2
  Conn = {one, two}
  NoConn = none
  Cap = 1
  Scenes <- MCScenes
PROPERTIES AllEnd HandedSpawned
CHECK_DEADLOCK FALSE
