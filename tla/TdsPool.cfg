\* One client, one permit, either recycling method: what one holder leaves to
\* the next, and that there is a next.
SPECIFICATION FairSpec
CONSTANTS
  Conns = {c1}
  Stmts = {s1}
  Handles = {h1}
  Tokens = {t1, t2, t3}
  Residues = {"state", "isolation"}
  Ops = {"query", "stream", "prepare", "query_prepared", "unprepare", "reset", "bulk", "ping", "inner_mut"}
  NULL = NULL
  Leaked = Leaked
  Tasks = {p1, p2}
  MaxSize = 1
  Methods = {"Reset", "Ping"}
INVARIANTS TypeOK
PROPERTIES NoDeadCheckout FreshCheckout GetEnds
