CONSTANTS
  r1 = r1
  r2 = r2
  s1 = s1
  s2 = s2
  d1 = d1
  Request = {r1, r2}
  SubmissionId = {s1, s2}
  DefinitionId = {d1}
  Form <- MCForm
  RequestId = {q1}
  Query <- MCQuery
  PageSize = {1, 2}
  Rank <- MCRank
SPECIFICATION ApiFairSpec
INVARIANTS SettledTogether PagedInFull
PROPERTIES ImplementsVerdict StoredThenReviewable ToldForGood
