SPECIFICATION FairSpec
CONSTANTS
  Conn = {a, b, k}
  Main = {a}
  Users = {a, b}
  Background = {k}
  Marks = {4}
  MaxTimeouts = 1
  None = None
INVARIANTS
  TypeOK
  SleepersAreQueued
  QueueEmptyWhenFree
PROPERTIES
  SleepersWake
