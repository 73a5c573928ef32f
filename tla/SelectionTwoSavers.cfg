SPECIFICATION Spec
CONSTANTS
  t1 = t1
  t2 = t2
  t3 = t3
  service = service
  app = app
  app2 = app2
  Procs = {service, app}
  Threads = {t1, t2, t3}
  Proc <- TwoSaversProc
  Requests <- TwoSaversRequests
  Platform = "rk3588"
INVARIANTS CachesAgree
