SPECIFICATION SceneSpec
CONSTANTS
  Session = {s1}
  Exchange = {r1, r2}
  Limit = 3
  Provider = {"openai_compatible", "ollama"}
  Expiring = TRUE
  MaxChunks = 2
  MaxFaults = 2
  FileSession = {s1, s2}
  FileCall = {x1, x2, x3, x4}
  FileLimit = 2
  Nobody = Nobody
  MaxFailures = 1
  MaxClears = 1
INVARIANTS HistoryIsTrue FileInv
PROPERTIES ImplementsLog EverythingEnds
CHECK_DEADLOCK FALSE
