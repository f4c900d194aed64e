SPECIFICATION Spec
CONSTANTS
  Apps = {"twisted", "demo"}
  ClientIds = {1, 2}
  MaxPackets = 3
CHECK_DEADLOCK FALSE
INVARIANTS TypeOK FreshIds OneReplyEach SendsOnOwnChannel
PROPERTIES CallsAnsweredOnce AnswersArrive ConnectAnswered
