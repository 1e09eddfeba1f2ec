CONSTANTS
  loop = loop
  orphan = orphan
  dry = dry
  extract = extract
  promote = promote
  daily = daily
  Videos = 2
  CreatorOf <- MCCreatorOf
  Long = {}
  Content = {"nothing", "a"}
  Empty = "nothing"
  Loop = {loop, orphan}
  Once = {dry, extract, promote}
  Daily = {daily}
  Args <- MCArgs
  Limit <- MCLimit
  Promotions = 2
  Casts <- MCCasts
  MaxVersion = 2
  MaxTrouble = 1
SPECIFICATION MCSpec
INVARIANTS ExtractedIsCurrent
PROPERTIES PromotionWasReviewed PromotionsAreKept EveryVideoCounts
CHECK_DEADLOCK FALSE
