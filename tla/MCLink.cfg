SPECIFICATION FairSpec
CONSTANTS
  MODBUS_TRANSACTION_BUFFER_MAX = 2
  reply_timeout <- MCreply_timeout
  time_lapse_max = 1
  f_max = 1
  BROADCAST_EVERY = 5
  INTERNAL_COMM_TIMEOUT = 1
  Pressable = {1}
INVARIANTS QuotaExact NoPhantomCall 
PROPERTIES CallHeard CallForgotten
