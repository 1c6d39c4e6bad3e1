SPECIFICATION Spec
CONSTANTS
  Initiator = Initiator
  Responder = Responder
  MaxFrames = 4
  Capacity = 2
CHECK_DEADLOCK FALSE
INVARIANTS
  InStep
PROPERTIES
  ImplementsPipe
  SentArrives
  HandshakeAgrees
