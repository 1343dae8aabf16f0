CONSTANTS
  NoApplication = NoApplication
  m1 = m1
  s1 = s1
  Manifest = {m1}
  ManifestOf <- MCManifestOf
  Application = {a1}
  Submitter = {s1}
  Reviewer = {v1}
  MaxSubmissions = 1
  MaxReviews = 2
  RequestId = {q1}
SPECIFICATION ApiSpec
INVARIANT ReviewedAlike
CONSTRAINT Explored
