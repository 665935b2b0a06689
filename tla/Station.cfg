\* Any sequence of the commands of a test, with either build of the agent.
CONSTANTS
  Suites <- Tests
  MaxFiles = 2
SPECIFICATION Spec
INVARIANTS
  TypeOK
  OwnPrinter
  NothingLeftPrinted
  SilentOnly
  StationConfigured
  OpenNetworkIsClean
  EapIsUsed
PROPERTIES
  OtherInterfacesLeaveStationAlone
  InterfaceComesBack
