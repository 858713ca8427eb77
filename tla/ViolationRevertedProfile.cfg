SPECIFICATION Spec
CONSTANTS
  c1 = c1
  c2 = c2
  cv1 = cv1
  cv2 = cv2
  none = none
  None = none
  FieldOrder <- MCFieldOrder
  CategoryOf <- MCCategoryOf
  Aliases <- MCAliases
  Declining <- MCDeclining
  Fold <- MCFold
  Clicks = {c1, c2}
  Workers = {w1}
  ProfileAt <- MCProfileAt
  Postings <- MCPostings
  Files = {cv1, cv2}
  Forms <- MCForms
  Evidence <- MCEvidence
  Providers = {"mock_ats", "greenhouse"}
  ProfileReverts = TRUE
  MaxEdits = 2
  MaxApprovals = 2
  MaxAttempts = 2
  MaxFaults = 1
SYMMETRY TabsAndFiles
INVARIANTS SentAsApproved
CHECK_DEADLOCK FALSE
