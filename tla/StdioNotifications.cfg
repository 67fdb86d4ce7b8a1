CONSTANTS
  Clients = {"client"}
  MaxSent = 3
  Shapes <- MCShapes
SPECIFICATION Spec
CHECK_DEADLOCK FALSE
INVARIANT NotificationsGetNoReply
