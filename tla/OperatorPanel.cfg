SPECIFICATION FairSpec
CONSTANTS
  r1 = r1
  r2 = r2
  f1 = f1
  w1 = w1
  c1 = c1
  m1 = m1
  a1 = a1
  Requests <- TwoRequests
  Operators <- OneForeman
  Foremen <- OneForeman
  Chats <- OneChat
  Cancels <- OneCancel
  Messages <- OneMessage
  Replies <- OneReply
  KeyOf <- Concerns
  Cap = 2
  MaxSends = 1
  MaxEntries = 3
  MaxFailures = 1
INVARIANT TypeOK
INVARIANT HandledIsRecorded
PROPERTY ImplementsRecentLog
PROPERTY BadgeClears
CHECK_DEADLOCK FALSE
