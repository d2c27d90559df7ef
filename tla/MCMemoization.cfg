SPECIFICATION FairSpec
CONSTANTS
  Threads = {t1, t2}
  DocTypes = {d1}
  FieldNames = {f1}
  p1 = p1
  PropTypes = {p1}
  PropsOf <- MCPropsOf
  Values = {v1, v2}
  None = None
  Nobody = Nobody
INVARIANTS
  TypeOK
  MonitorsMatchCalls
  AddNeverCollides
  CallersAgree
  LocksOrdered
PROPERTY
  EveryCallReturns
