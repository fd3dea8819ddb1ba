--------------------------- MODULE MCParallelQuery ---------------------------
(* Four pages, one of them empty, whose four tuples have two equal keys;   *)
(* sorted in descending order of the key, then by the left tuple's page.   *)
EXTENDS ParallelQuery

MCPageIds == <<0, 2, 3, 5>>
MCRows == [p \in Range(MCPageIds) |->
             IF p = 0 THEN <<<<0, 0>>, <<0, 1>>>> ELSE IF p = 5 THEN << >> ELSE <<<<p, 0>>>>]

MCLeftKey(r) == IF r[1] = 3 THEN 3 ELSE IF r = <<0, 1>> THEN 2 ELSE 1

MCRightRows == <<10, 11, 30>>
MCRightKey(r) == r \div 10

MCAscending == <<FALSE, TRUE>>
MCSortValue(t, i) == IF i = 1 THEN MCRightKey(t[2]) ELSE t[1][1]
==============================================================================
