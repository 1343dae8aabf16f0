CONSTANTS
  NoApplication = NoApplication
  m1 = m1
  s1 = s1
  Manifest = {m1}
  ManifestOf <- MCManifestOf
  Application = {a1}
  Submitter = {s1, s2}
  Reviewer = {v1}
  MaxSubmissions = 2
  MaxReviews = 1
  RequestId = {q1}
SPECIFICATION ApiFairSpec

INVARIANTS DoneNotPending DoneIsFulfilled
PROPERTIES ImplementsDocket ToldForGood TemplateSettles
CONSTRAINT Explored
