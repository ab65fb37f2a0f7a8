CONSTANTS
  ann = ann
  bob = bob
  eve = eve
  post1 = post1
  post2 = post2
  dec1 = dec1
  dec2 = dec2
  run1 = run1
  run2 = run2
  call1 = call1
  reply = reply
  draft = draft
  Users = {ann, bob, eve}
  NoUser = NoUser
  Role <- MCRole
  Subjects = {reply}
  Contents = {c1, c2}
  NoContent = NoContent
  PreviewReqs = {post1}
  ApprovalReqs = {dec1}
  ExecuteReqs = {run1, run2}
  BackendReqs = {}
  KillSwitchSource = "request_scoped"
  RaisedFlaws = {"revoked"}
  UnattributedIds = {}
  PREVIEW_TTL = 2
  APPROVAL_TTL = 2
  REVIEW_TTL = 2
  SESSION_TTL = 2
  MAX_AUTHORIZATION_TTL = 1
  MaxTime = 2
  MaxFlips = 0
SPECIFICATION Spec
INVARIANTS OneTimeUse ExactBinding
SYMMETRY Symmetry
