SPECIFICATION MCSpec
CONSTANTS
  Module = {"p","e","a"}
  Path = {"p","e","a","none"}
  Prologue = "p"
  Entry = "e"
INVARIANTS ProvidersFirst CircularIsReal CompleteWhenDone
PROPERTY Loads
CHECK_DEADLOCK FALSE
