CONSTANTS
  ann = ann
  bob = bob
  eve = eve
  post1 = post1
  post2 = post2
  dec1 = dec1
  dec2 = dec2
  run1 = run1
  run2 = run2
  call1 = call1
  reply = reply
  draft = draft
  Users = {ann, bob, eve}
  NoUser = NoUser
  Role <- MCRole
  Subjects = {reply}
  Contents = {c1}
  NoContent = NoContent
  PreviewReqs = {post1}
  ApprovalReqs = {dec1}
  ExecuteReqs = {run1}
  BackendReqs = {call1}
  KillSwitchSource = "request_scoped"
  RaisedFlaws = {}
  UnattributedIds = {}
  PREVIEW_TTL = 1
  APPROVAL_TTL = 1
  REVIEW_TTL = 2
  SESSION_TTL = 2
  MAX_AUTHORIZATION_TTL = 1
  MaxTime = 1
  MaxFlips = 0
SPECIFICATION FairSpec
PROPERTIES KeepsPromise EveryRequestAnswered
