SPECIFICATION FairSpec
CONSTANTS
  None = None
  Docs <- MCDocs
  Files <- MCFiles
  Paragraphs <- MCParagraphs
  Chunks <- MCChunks
  DocOf <- MCDocOf
  ParagraphOf <- MCParagraphOf
  Order <- MCOrder
  Similarity <- MCSimilarity
  Relevance <- MCRelevance
  Starts <- MCStarts
  Owners <- MCOwners
  Queries <- MCQueries
  MaxWrites = 2
INVARIANTS
  WindowInv
  AnswersAreComplete
PROPERTIES
  EveryCallEnds
CHECK_DEADLOCK FALSE
