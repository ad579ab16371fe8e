CONSTANTS
  Callers = {c1, c2, c3}
  Lockers = {c1, c2, c3}
  Requests = {r1}
  NoRequest = NoRequest
  Admissions = {a1}
  NoAdmission = NoAdmission
  Limit = 2
  Keys = {v1}
  Entries = {e1}
  NoEntry = NoEntry
SPECIFICATION AFairSpec
INVARIANTS GateSafety QuiescedUnlocked
PROPERTIES QuiesceCompletes HandlersLeave
