CONSTANTS
  ann = ann
  bob = bob
  eve = eve
  post1 = post1
  post2 = post2
  dec1 = dec1
  dec2 = dec2
  run1 = run1
  run2 = run2
  call1 = call1
  reply = reply
  draft = draft
  Users = {ann, bob, eve}
  NoUser = NoUser
  Role <- MCRole
  Subjects = {reply}
  Contents = {c1}
  NoContent = NoContent
  PreviewReqs = {post1}
  ApprovalReqs = {dec1}
  ExecuteReqs = {run1}
  BackendReqs = {}
  KillSwitchSource = "process_env"
  RaisedFlaws = {}
  UnattributedIds = {}
  PREVIEW_TTL = 4
  APPROVAL_TTL = 3
  REVIEW_TTL = 3
  SESSION_TTL = 3
  MAX_AUTHORIZATION_TTL = 2
  MaxTime = 3
  MaxFlips = 2
SPECIFICATION Spec
INVARIANTS ReceiptWithinWindows KillSwitchStopsClaims
SYMMETRY Symmetry
