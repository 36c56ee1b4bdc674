----------------------------- MODULE MCCompNode -----------------------------
\* Two threads and three blocks: two with other distributions and overlapping ranges, one
\* whose distribution nobody knows.
EXTENDS CompNode

CONSTANTS t1, t2, m1, m2, m3, normal, uniform, unknown, noBlock, unmade

MCBlock == [m \in {m1, m2, m3} |->
  CASE m = m1 -> [first |-> 1, last |-> 3, type |-> normal]
    [] m = m2 -> [first |-> 2, last |-> 3, type |-> uniform]
    [] m = m3 -> [first |-> 4, last |-> 4, type |-> unknown]]
=============================================================================
