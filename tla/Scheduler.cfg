SPECIFICATION FairSpec
CONSTANTS
  Tasks = {t1, t2, t3}
  NoTask = NoTask
  Starts = {0, 3, 11}
  Frames = 4
  TimeDivisions = {1, 2}
  AudioModes = {TRUE, FALSE}
  MaxTime = 12
PROPERTIES Refines TasksRun
