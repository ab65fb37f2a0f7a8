SPECIFICATION RoutesSpec
CONSTANTS
  Parts = {"dry_run", "requests", "limiter", "mac", "stores", "dashboard", "ingest", "drafting"}
  Off = Off
  r1 = r1
  r2 = r2
  Absent = Absent
  None = None
  RequestScenes <- RequestMixes
  PayloadForms <- PayloadObjects
  DashboardScenes <- AnyPage
  IngestScenes <- AnyIngest
  Users <- MCUsers
  NumRefs = 2
  APPROVAL_TTLS = {2}
  PREVIEW_TTLS = {1, 3}
  StoredRows <- MCStoredRows
  SESSION_TTL = 3
  MAX_AUTHORIZATION_TTL = 1
  MaxTime = 2
  Tenants = {t1, t2}
  ApprovalIds = {a1}
  BoundFields = {target, payload}
  Expiries <- MCExpiries
  MaxNow = 2
  MaxCalls = 4
INVARIANTS
  VerifiedRefsAreSound StoredDataIsSound AdmissionsAreLimited MacsAreExact StoresAgree
  PageIsConsistent PromptsAreSafe DraftsAreSound
PROPERTIES
  StepsAreEntitled EveryCallSettles
CHECK_DEADLOCK FALSE
