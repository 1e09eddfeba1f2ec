\* Media uploads on the same inputs.
CONSTANTS
  X = X
  LinkedIn = LinkedIn
  Whop = Whop
  PostHog = PostHog
  NoInput = NoInput
  Mutation <- Nodes
  LiveOrder <- Live
  BoundedOrder <- Bounded
  Chained <- Posts
  CopyNodes <- Copies
  ApprovalNodes <- Approvals
  PublicNodes <- Posts
  Config <- Configs
  GivenInputs <- Given
SPECIFICATION Spec
INVARIANTS UploadsAreGated
CHECK_DEADLOCK FALSE
