\* Two tasks and two threads; three sleeps with three registrations, and a heap of six; a
\* stream of five octets in writes of up to three, under TLS and bare.
SPECIFICATION RuntimeSpec
CONSTANTS
  Task = {main, a}
  Main = main
  Thread = {t1, t2}
  Nobody = nobody
  Sleep = {1, 2, 3, 4, 5, 6}
  Waker = {w1, w2}
  Durations = {0, 2, 9}
  MaxInstant = 4
  MaxNow = 3
  MaxStarts = 6
  Few = {1, 2, 3}
  FewStarts = 3
  HeapDurations = {1, 2, 3}
  MaxPlain = 5
  MaxWrite = 3
  WRITE_CHUNK = 2
  MaxRecords = 2
INVARIANT WireExact
PROPERTIES SignalSeen DrainEnds ClockPromise
CHECK_DEADLOCK FALSE
