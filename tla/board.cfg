SPECIFICATION FairSpec
\* A station whose call to connect is refused stops the start-up code for good.
CHECK_DEADLOCK FALSE
CONSTANTS
  Ssids = {"s1", "s2"}
  Passwords = {"p1", "p2"}
  Missing = Missing
  Kconfig = Missing
  Works <- TheWorks
  Rejects <- TheRejects
  MaxRetry = 1
  PinTable <- ThePins
  Natives = {"T2"}
  Power = "E1_15"
  Pulls = {"E0_8"}
  Stranger = "X"
  Wires = {"w", "long"}
  Longs = {"long"}
  Unwired = Unwired
  Absent = Absent
  Files <- Lists
  MaxTrouble = 3
INVARIANTS AttemptStartsClean GivesUpInRow OldClearedOrNew NothingSkippedMeansDone BackupRestores PowerStays
PROPERTIES BootEnds
