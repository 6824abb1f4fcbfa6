SPECIFICATION Spec
CONSTANTS
  t1 = t1
  t2 = t2
  a1 = a1
  a2 = a2
  a3 = a3
  a4 = a4
  near = near
  far = far
  Threads = {t1, t2}
  Setups <- AllSetups
  MaxAdds = 4
SYMMETRY Symmetry
INVARIANT RemoveFindsTracked
INVARIANT CountMatches
CHECK_DEADLOCK FALSE
