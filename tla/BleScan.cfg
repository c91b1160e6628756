\* The scan cycle with failing calls, while another thread starts and stops scans;
\* without that thread's calls it is the program as it is built.
SPECIFICATION FairSpec
CONSTANTS
  ScanTime = 1
  MaxDuration = 2
  MaxFaults = 3
  MaxReports = 1
  MaxApiCalls = 2
INVARIANTS
  TypeOK
  DescriptorDiscipline
  WindowIsScanning
  WindowAsConfigured
  QuietAtExit
  OnlyOneShotEnds
PROPERTIES
  ScanThreadEnds
  WindowsKeepComing
  WindowEnds
  ScanProgress
\* The scan thread ends.
CHECK_DEADLOCK FALSE
