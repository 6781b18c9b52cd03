SPECIFICATION Spec
CONSTANTS
  Thread = {t1, t2, t3, t4}
  NoTimer = NoTimer
INVARIANT NeverSilent
PROPERTIES Settles KeepsTrying RightTimer KillQuiets
CHECK_DEADLOCK FALSE
