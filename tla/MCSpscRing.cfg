SPECIFICATION Spec
CONSTANTS
  Values = {a, b}
  None = None
  Impls = {"rust", "cpp"}
  Capacity = 4
  CppModulus = 16
  MaxCppHead = 15
INVARIANTS
  TypeOK
  NoDataRace
PROPERTY
  ImplementsFifo
