SPECIFICATION FairSpec
CONSTANTS
  sn0 = sn0
  sn1 = sn1
  NULL = NULL
  Devs = {sn0, sn1}
  First = sn0
  Environments <- MCEnvironments
INVARIANTS PacketsConserved SkbFreedOnce ReceiverServed TransmitNeverFails UnloadClean
PROPERTIES SkbNotLost QueueWoken
CHECK_DEADLOCK FALSE
