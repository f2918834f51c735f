CONSTANTS
  Timeout = {t1}
  Delays = {0, 5}
  GLXBackend = FALSE
  MaxWaiting = 2
  Requests <- MCRequests
SPECIFICATION Spec
CHECK_DEADLOCK FALSE
INVARIANTS TypeOK AnsweredOnce NothingWaits NextTimeoutLive IntervalPositive ScreenCurrent ForceHonoured VSyncReady
