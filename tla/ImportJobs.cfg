SPECIFICATION FairSpec
CONSTANTS
  Cells <- MCCells
  Blank = ""
  Normal <- MCNormal
  Alike = {}
  Numeric = {"1", "2"}
  Long = {}
  ColumnLabel <- MCColumns
  Renamed <- MCRenamed
  Aliases <- MCAliases
  Fallbacks <- MCFallbacks
  KnownLabels = {"name", "phone", "type"}
  CustomFields <- MCFields
  TypeOfCode <- MCTypeOfCode
  ScanLimit = 40
  SampleLines = 100
  MaxRegistrations = 5
  MaxChanges = 1
  Strategy = "PHONE"
  Types = {"t1", "t2"}
  Forms <- MCForms
  Edits <- MCEdits
  Uploads <- MCUploads
  DefaultType = "t1"
  Workers = {w1, w2}
  ChunkSize = 2
  MaxFaults = 1
CHECK_DEADLOCK FALSE
INVARIANTS ColumnsKept CreationIsReported ReportAddsUp 

PROPERTIES JobEnds
