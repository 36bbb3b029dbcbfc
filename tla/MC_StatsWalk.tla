----------------------------- MODULE MC_StatsWalk -----------------------------
(* A root holding a C file a, a file x of no known type and a directory d; *)
(* d holds a header b and a link 'loop' back to the root.                  *)
EXTENDS StatsWalk

CONSTANTS root, a, x, d, b, loop, C, H

MCEntries == {root, a, x, d, b, loop}
MCKind == [e \in MCEntries |->
             IF e \in {a, x, b} THEN "file" ELSE IF e = loop THEN "link" ELSE "dir"]
MCChildren == [e \in MCEntries |->
                 IF e = root THEN {a, x, d} ELSE IF e = d THEN {b, loop} ELSE {}]
MCTarget == [e \in MCEntries |-> root]
MCFType == [e \in MCEntries |-> IF e = a THEN C ELSE IF e = b THEN H ELSE NoType]
=============================================================================
