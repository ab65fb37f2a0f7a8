SPECIFICATION EvidenceSpec
CONSTANTS
  Parts = {"eligibility", "records", "iso", "temporal", "chain"}
  Off = Off
  People = {ann, bob}
  Horizon = 1
  MAX_AUTHORIZATION_TTL = 1
  Scenes <- Chains
  APPROVAL_LINKAGE_ACTION_TYPES = {"reply"}
INVARIANTS
  EligibleExactlyWhenSound RecordsStaySound TimestampsAgree RelationsAreSound
  FourEyesStandBehind VerdictsAreExact
CHECK_DEADLOCK FALSE
