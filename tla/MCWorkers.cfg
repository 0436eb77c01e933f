SPECIFICATION WorkersSpec
CONSTANTS
  Queues = {order_tq, courier_tq}
  Pids = {p1, p2, p3}
  Nobody = Nobody
  NoCall = NoCall
INVARIANTS WorkersTypeOK OneWorkerPerQueue KillHolds
PROPERTIES FleetSelfHeals ShutDownStopsAll
