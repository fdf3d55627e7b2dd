SPECIFICATION Spec
CONSTANTS
  Loops = {e1, e2}
  Timer = Timer
  NoThread = NoThread
INVARIANT
  OneThreadOperates
