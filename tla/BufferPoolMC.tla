------------------------------- MODULE BufferPoolMC -------------------------------
(* BufferPool for TLC: two tables, of which one has two data pages.        *)
EXTENDS BufferPool

TwoTables == {<<1, 2>>, <<1, 3>>, <<2, 2>>}
=============================================================================
