SPECIFICATION FairSpec
CONSTANTS
  a = a
  b = b
  c = c
  e = e
  f = f
  published = published
  Order <- MCOrder
  Events = {e, f, published}
  PublishedEvent = published
  On <- MCOn
  Outbound = {b}
  Publishes = {a, b}
  Outputs <- MCOutputs
  MaxRuns = 4
  None = none
INVARIANTS OncePerChain RunsAreCaused EveryListenerRan OkMeansDone ProposalsComeLast
PROPERTIES ChainEnds
CHECK_DEADLOCK FALSE
