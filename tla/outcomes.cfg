CONSTANTS
  script = script
  daily = daily
  worker = worker
  setBased = setBased
  repair = repair
  audit = audit
  scores = scores
  weekly = weekly
  Call = {1, 2}
  Symbol <- MCSymbol
  Btc = "BTC"
  Target = {1}
  Listed = {"BTC"}
  Markets <- MCMarkets
  Matcher = {script, daily, worker, setBased}
  Fallback = {script, daily, repair}
  LongLived = {worker}
  SetBased = {setBased}
  Repair = {repair}
  Recompute = {audit, scores, weekly}
  Auditor = {audit}
  Limit <- MCLimit
  Batch = 1
  Periods <- MCPeriods
  Casts <- MCCasts
  MaxTrouble = 1
SPECIFICATION MCSpec
INVARIANTS PromotionsAreApplied LeaderboardWhole
PROPERTIES KeptByScripts EveryCallMatched ScoresSettle
CHECK_DEADLOCK FALSE
