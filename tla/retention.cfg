\* Two seconds an hour, raw reports for three seconds, aggregates for six.
CONSTANTS
  HourLength = 4
  RawRetention = 6
  AggregateRetention = 10
  MaxReportAge = 8
  MaxClockSkew = 1
  MaxNow = 16
  MaxReports = 3
SPECIFICATION Spec
INVARIANTS
  TypeOK
  RecentStaysRaw
  NoHourForgotten
PROPERTIES
  ChartsHaveNoHole
