\* One client, every call: which await fails, is cancelled or leaves results.
SPECIFICATION Spec
CONSTANTS
  Conns = {c1}
  Stmts = {s1}
  Handles = {h1, h2}
  Tokens = {t1, t2, t3}
  Residues = {"state", "isolation"}
  Ops = {"query", "stream", "prepare", "query_prepared", "unprepare", "reset", "bulk", "ping", "inner_mut"}
  NULL = NULL
  Leaked = Leaked
SYMMETRY Symmetry
INVARIANTS TornIsDead OwnRowsOnly ResetAllOrNothing SentOnce
PROPERTIES KeepsPromise
