\* Three calls of every bucket; the worker beside the quality gate or a promotion, or
\* two promotions of calls of any verdicts.
CONSTANTS
  c1 = c1  c2 = c2  c3 = c3
  worker = worker  gate = gate  p1 = p1  p2 = p2
  None = None
  Call = {c1, c2, c3}
  First = {c1, c2}
  ScoreReady = {c1, c3}
  Ambiguous = {c2}
  Recent = {c3}
  Quoted = {c1, c2}
  Sound = {c2}
  Verifier = {worker, gate}
  Gate = {gate}
  Model <- MCModel
  Promoter = {p1, p2}
  Casts <- MCCasts
  BatchSize = 2
  Limit = 2
  Tries = 2
  MaxAudits = 2
  MaxTrouble = 1
SPECIFICATION MCSpec
INVARIANTS AuditsAreExact
PROPERTIES EveryCandidateVerified
