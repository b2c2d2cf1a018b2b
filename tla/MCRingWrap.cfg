SPECIFICATION Spec
CONSTANTS
  Values = {a, b}
  None = None
  Impls = {"cpp"}
  Capacity = 4
  CppModulus = 16
  MaxCppHead = 16
INVARIANT
  PopRefusesOnlyEmpty
