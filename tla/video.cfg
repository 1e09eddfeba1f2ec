CONSTANTS
  g1 = g1
  s1 = s1
  d1 = d1
  t1 = t1
  v1 = v1
  v2 = v2
  Graph = {g1}
  Script = {s1}
  Daily = {d1}
  Scheduler = {t1}
  Video = {v1, v2}
  Own <- MCOwn
  Slot <- MCSlot
  AutoPublish = TRUE
  Authorisations = {{v1}, {v1, v2}}
  MaxTrouble = 1
SPECIFICATION Spec
INVARIANTS NoVideoLost UploadsWereChecked EntriesInStep
CHECK_DEADLOCK FALSE
PROPERTY VideosEndOrWait
