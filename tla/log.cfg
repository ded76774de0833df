CONSTANTS
  t1 = t1
  t2 = t2
  httpd = httpd
  Writers <- MCWriters
  Httpd = httpd
  MaxLines = 3
  MaxSize = 3
  Capacity = 7
SPECIFICATION FairSpec
INVARIANTS
  TypeOK
  NoClosedStream
  NothingGlued
  ReplyIsTheLog
  RotatedAtBoot
  MutexIsUsed
PROPERTIES
  ImplementsLog
  MutexComesBack
  NobodyStuck
