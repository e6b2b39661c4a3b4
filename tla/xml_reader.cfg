SPECIFICATION Spec
CONSTANTS
  Threads = {t1, t2}
  Scripts <- MCScripts
  Closing <- MCClosing
  Empty <- MCEmpty
  Malformed <- MCMalformed
  Text <- MCText
  Concurrent = FALSE
INVARIANTS ReadsWhatWasSent
