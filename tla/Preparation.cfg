SPECIFICATION FairPreparation
CONSTANTS
  Refusing <- MCRefusing
  Promising <- MCPromising
  Conditional <- MCConditional
  SoftwareWords = {"software", "developer", "engineer", "backend", "data"}
  RoleWords = {"engineer", "developer", "software", "backend", "data"}
  SeniorWords = {"staff"}
  EmploymentWords <- MCEmploymentWords
  NotFullTime = {"contractor"}
  Skills = {"python"}
  MinMatchScore = 25
  MinSalary = 80
  Postings <- MCPostings
  OldFilings <- MCOldFilings
  NewFilings <- MCNewFilings
  FirstYear = 5
  LastYear = 6
  Pollers = {w1, w2}
  Desks = {d1}
  MaxFailures = 1
  None = None
PROPERTIES PackagedOnEvidence AppliedKept DiscoveredIsAnalyzed
CHECK_DEADLOCK FALSE
