CONSTANTS
  TcpThreads = {t1, t2}
  QuicWinners = {q1, q2, q3}
  Nobody = Nobody
  Streak = 2
SPECIFICATION TcpSpec
INVARIANTS
  SessionAccounted
PROPERTIES
  SessionKeptForReader
