CONSTANTS
  Outputs = {"elasticsearch", "logstash"}
  PublishDisabled = FALSE
  MaxLoads = 4
  Absent = Absent
  NoOutput = NoOutput

SPECIFICATION Spec

INVARIANT LoadNeverPanics

CHECK_DEADLOCK FALSE
