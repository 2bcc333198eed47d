SPECIFICATION Spec
CONSTANTS
  Locals = {l1}
  Rpcs = {r1}
  Own = own
  Tasks = {t1}
  Ids = {2}
  Loop = loop
  NoCaller = none
  Capacity = 1
  LocalKinds = {"add_peer", "join_cluster", "bad_join", "quit"}
  RpcKinds = {"set_peers", "propose", "change_config"}
CHECK_DEADLOCK FALSE
INVARIANTS
  EndReleasesAll
PROPERTIES
  PanicsForACause
  NothingHangs
  ServerStopsWithRun
