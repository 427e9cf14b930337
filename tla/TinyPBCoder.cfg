SPECIFICATION Spec
CONSTANTS
  Streams <- AllStreams
  Leads <- NoStart
  Conversations <- SampleConversations
  MaxPackage = 16
INVARIANTS
  RoundTrip
  BacklogBounded
  ChunkingIndependent
