SPECIFICATION SpecShell
CONSTANTS
  Instances = {i1, i2, i3}
  Nobody = Nobody
  Stale = Stale
SYMMETRY InstancesAlike
CHECK_DEADLOCK FALSE
 
PROPERTY LeavesToAnother
