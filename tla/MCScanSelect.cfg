SPECIFICATION Spec
CONSTANTS
  Keys = {k1, k2, k3}
  Titles = {t1}
  Curated = {c1}
  MaxRecords = 2
  MaxServices = 2
INVARIANT EveryRecordSelectable
