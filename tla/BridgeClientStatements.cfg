\* Two clients sharing prepared statements: resets, reconnects, reuse of
\* handle numbers and of Arc addresses.
SPECIFICATION Spec
CONSTANTS
  Conns = {c1, c2}
  Stmts = {s1, s2}
  Handles = {h1, h2}
  Tokens = {t1, t2, t3, t4}
  Residues = {}
  Ops = {"prepare", "query_prepared", "unprepare", "reset"}
  NULL = NULL
  Leaked = Leaked
SYMMETRY Symmetry
INVARIANTS IInv HandleSound
PROPERTIES KeepsPromise
