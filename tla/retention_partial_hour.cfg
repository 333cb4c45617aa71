\* A maintenance run in the middle of an hour, seven days later and an hour after.
CONSTANTS
  HourLength = 4
  RawRetention = 6
  AggregateRetention = 10
  MaxReportAge = 8
  MaxClockSkew = 1
  MaxNow = 16
  MaxReports = 3
SPECIFICATION Spec
PROPERTIES
  AggregatesKeepSamples
