\* Any thread may call fork(), with DCHECKs.
CONSTANTS
  Threads = {t1, t2, t3}
  Tids = {n1, n2, n3, n4}
  NoTid = NoTid
  Builds = {TRUE}
  IdMisuse = {}
SPECIFICATION IdSpec
INVARIANT OnlyRawClonesAreFatal
CHECK_DEADLOCK FALSE
