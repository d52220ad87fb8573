SPECIFICATION MCSpec
CONSTANTS
  Data <- SmallData
  Copies = 2
  BufMax = 3
  Numbers = 2
  MaxTries = 1
  MaxEvents = 2
  Types <- T3
  NameOf <- N3
  Statuses <- SmallStatuses
  THRESHOLD = 3
  Interfaces <- SmallInterfaces
  SOCK_MAX = 2
  Printers = {"q1", "q2"}
  Answers <- SmallAnswers
  Kept <- SmallKept
  Garbage = {0, 1}
  PRINTERS_MAX = 5
  MaxNoise = 1
INVARIANTS JobIsSound ReasonsAgree 
PROPERTY PrintEnds
