CONSTANTS
  s1 = s1
  s2 = s2
  Sessions = {s1, s2}
  queue_capacity = 1
  Configs <- ThreeConfigs
  Initial <- Base
  NoConfig = NoConfig
  file_workers = 1
  file_capacity = 1
  io_threads = 2
  MaxFaults <- Faults
  MaxHups = 2
  MaxClients <- Clients
  Upstreams <- Proxying
SPECIFICATION Spec
INVARIANT TypeOK AccessLogKept ReloadHonoured FileSlotsExact StopsClean
PROPERTY ExitsUnlessHung
CHECK_DEADLOCK FALSE
