----------------------------- MODULE MCBulkLoad -----------------------------
(* BulkLoad with up to three rows offered: no batch, one, two, an empty one.*)
EXTENDS BulkLoad

MCArrowLoads == {<<>>, <<1>>, <<2, 1>>, <<0, 2>>}
=============================================================================
