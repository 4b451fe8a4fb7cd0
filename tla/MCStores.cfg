CONSTANTS
  Savers = {p1, p2}
  Messages = {a, b, x}
  Breaking = {x}
  MaxTalk = 2
  MaxNodes = 5
  Tasks = {a, b}
  Clients = {p1, p2}
  MaxWrites = 3
  MaxActors = 3
  Workers = {p1, p2}
  Process = process
  Ttl = 2
  MaxTime = 5
  MaxUpserts = 2
SPECIFICATION StoresSpec
INVARIANTS
  ChainsAreWhole RunsAreExact SavedIsKept
  FilesLead
  OneHolder
PROPERTIES ImplementsTree SettledVerdictStands
SYMMETRY Alike
CHECK_DEADLOCK FALSE
