\* Requests are lost, the tab is reloaded, the windows close when they like; fair.
SPECIFICATION ExamPageSpec
CONSTANTS
  Kinds <- SpokenThenChoice
  Trouble = {"recorder"}
  MaxNotes = 1
  MaxClips = 2
  MaxFaults = 1
INVARIANTS NeverSkipped LockKeepsWork
PROPERTY HandedIn
CHECK_DEADLOCK FALSE
