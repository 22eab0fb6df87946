SPECIFICATION Spec
CONSTANTS
  Sensors = {"db", "auto", "client"}
  Types = {"PDatabase", "ClientSensor"}
  TypeOf <- MCTypeOf
  ModeOf <- MCModeOf
  SharedReaders = {"PDatabase"}
  UniqueReaders = {"ClientSensor"}
  None = None
  Wrap = 3
  MaxMade = 4
INVARIANTS
  SharedIsOne
  OwnIsReported
