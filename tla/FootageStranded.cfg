\* One live camera and two requests, of which one may start a run and the
\* other stop all there is.
SPECIFICATION FairSpec
CONSTANTS
  Cams = {c1}
  Runs = {run1, run2}
  MaxFaults = 1
PROPERTIES StopAllRepairs
