SPECIFICATION Spec
CONSTANTS
  Programs <- Core
  RecursionLimit = 5
  MaxInterrupts = 2
INVARIANTS
  TypeOK
  DepthAgrees
  FramesMirrorCalls
  StaticLinkIsLexical
  HandlerIsEnclosing
  SecondRaiseStays
  CleanExit
PROPERTIES
  CallersKept
  InterruptDelivered
  EventuallyHalts
