SPECIFICATION FairSpec
CONSTANTS
  Tasks = {t1}
  NoTask = NoTask
  Starts = {0, 5}
  Frames = 4
  TimeDivisions = {1, 2}
  AudioModes = {TRUE}
  MaxTime = 12
PROPERTY ClockRuns
