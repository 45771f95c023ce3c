SPECIFICATION Spec
CONSTANTS
  codec = codec
  protocol = protocol
  errors = errors
  Handlers = {codec, protocol, errors}
  HeadNode = HeadNode
  TailNode = TailNode
  Nil = Nil
  Caps <- MCCaps
  Calls <- MCCalls
  MaxDepth = 5
INVARIANTS
  LookupsMatch
  PropagationOrdered
  UnhandledPanicCloses
PROPERTIES
  ImplementsHandlerList
  WriterGoesOn
CHECK_DEADLOCK FALSE
