SPECIFICATION PipeFairSpec
CONSTANTS
  PipeDepth <- MCPipeDepth
  Chunks <- MCChunks
INVARIANTS
  NoSharedBuffer
  OutInOrder
  SuccessIsWhole
  OfferNeverBlocks
PROPERTIES
  CancelReturns
  ReaderLeaves
