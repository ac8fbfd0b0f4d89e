SPECIFICATION Spec
CONSTANTS
  s1 = s1
  s2 = s2
  ehecs = ehecs
  survey = survey
  copy = copy
  pg = pg
  ms = ms
  Nil = Nil
  Servers <- MCServers
  Configs <- MCConfigs
  Packages <- MCPackages
  Id <- MCId
  Databases <- MCDatabases
  Kind <- MCKind
  MaxFaults = 1
INVARIANTS
  TypeOK
  ServesOnSchema
  RunsAsConfigured
  EverySurveyAnswers
PROPERTIES
  EventuallyServes
