SPECIFICATION Spec
CONSTANTS
  MaxOutages = 3
  Thread = {t1, t2}
  Main = main
INVARIANTS
  TypeOK
PROPERTIES
  KeepsHistory
