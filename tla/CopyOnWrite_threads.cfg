CONSTANTS
  Thread = {t1, t2}
  Handle = {h1, h2}
  Value = {v1, v2}
  Object = {o1, o2, o3}
  Default = v1
  Null = Null
  Dead = Dead
  Free = Free
  NoCall = NoCall
SPECIFICATION Spec
INVARIANTS
  CountsReferences
  NoDataRace
PROPERTIES
  ImplementsValues
  CallsReturn
