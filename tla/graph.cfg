\* One run of the graph on inputs near a publishable one.
CONSTANTS
  X = X
  LinkedIn = LinkedIn
  Whop = Whop
  PostHog = PostHog
  NoInput = NoInput
  Mutation <- Nodes
  LiveOrder <- Live
  BoundedOrder <- Bounded
  Chained <- Posts
  CopyNodes <- Copies
  ApprovalNodes <- Approvals
  PublicNodes <- Posts
  Config <- Configs
  GivenInputs <- Given
SPECIFICATION FairSpec
INVARIANTS SendsAreGated CompletedRunReportsExactly
PROPERTIES NothingLeavesAfterTrouble RunEnds
CHECK_DEADLOCK FALSE
