SPECIFICATION Spec
CONSTANTS
  t1 = t1
  t2 = t2
  t3 = t3
  service = service
  app = app
  app2 = app2
  Procs = {service, app, app2}
  Threads = {t1, t2, t3}
  Proc <- OneSaverProc
  Requests <- OneSaverRequests
  Platform = "rk356x"
INVARIANTS TypeOK CachesAgree QueriesAgree SmallNotAfbc
PROPERTIES FbSizeSticks
