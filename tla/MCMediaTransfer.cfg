SPECIFICATION Spec
CONSTANTS
  Files = {photo, clip}
  Chunks = 3
  NoBlob = NoBlob
  Nothing = Nothing
CHECK_DEADLOCK FALSE
INVARIANTS
  RenderedIsTail
  WholeWhenPrompt
PROPERTY NothingRevealedAfterLock
