\* Job streams, requests that share resources, exports and a stop.
SPECIFICATION AllSpec
CONSTANTS
  p = p  v = v  job1 = job1  job2 = job2  set1 = set1  None = None
  Calls = {"c1", "c2", "c3", "c4"}
  Scenarios <- Together
  MaxOperations = 2  MaxResults = 1  MaxSlots = 1
INVARIANTS ResourcesAreAccounted
PROPERTIES CapturedResultArrives VerificationsEnd StopSparesTheAdvancing
           MountShowsItsImage
CHECK_DEADLOCK FALSE
