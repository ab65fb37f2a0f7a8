CONSTANTS
  ann = ann
  bob = bob
  eve = eve
  post1 = post1
  post2 = post2
  dec1 = dec1
  dec2 = dec2
  run1 = run1
  run2 = run2
  call1 = call1
  reply = reply
  draft = draft
  Users = {ann, bob, eve}
  NoUser = NoUser
  Role <- MCRole
  Subjects = {draft}
  Contents = {c1, c2}
  NoContent = NoContent
  PreviewReqs = {post1, post2}
  ApprovalReqs = {dec1, dec2}
  ExecuteReqs = {}
  BackendReqs = {}
  KillSwitchSource = "request_scoped"
  RaisedFlaws = {}
  UnattributedIds <- MCUnattributed
  PREVIEW_TTL = 1
  APPROVAL_TTL = 1
  REVIEW_TTL = 2
  SESSION_TTL = 2
  MAX_AUTHORIZATION_TTL = 1
  MaxTime = 1
  MaxFlips = 0
SPECIFICATION Spec
INVARIANT AcknowledgedWritesStand
SYMMETRY Symmetry
