\* Three processes, one of them started with --once, as many pids as processes.
CONSTANTS
  l1 = l1  l2 = l2  l3 = l3
  Loop = {l1, l2, l3}
  Once = {l3}
  Pid = {1, 2, 3}
  StaleLock = 2
  Absent = Absent
  Unreadable = Unreadable
SPECIFICATION FairSpec
INVARIANTS OneLoopWhileCalm HolderIsRecorded
PROPERTIES LoopResumes
