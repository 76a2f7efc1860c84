------------------------------- MODULE MCRequire -------------------------------
EXTENDS Require

CONSTANTS main, a, link, b, pkg, other, data, near, far, absent

\* link is another name of the file a; b is below the main script's directory
\* and has packages of its own around it; pkg is in far, other in near
MCPath == {main, a, link, b, pkg, other, data}
MCId == MCPath \ {link}
MCReal == [p \in MCPath |-> IF p = link THEN a ELSE p]
MCRelative == {"./a", "./link", "./b", "./data"}
MCJson == {"./data"}
MCBare == {"pkg", "a"}

\* b, and what is beside it, is not beside the others
MCBeside == [p \in MCPath |-> [n \in MCRelative |->
               IF p \in {pkg, other} THEN absent
               ELSE CASE n = "./a" -> IF p = b THEN absent ELSE a
                      [] n = "./link" -> link
                      [] n = "./b" -> b
                      [] n = "./data" -> data]]

\* "./a" is found as a.js, the others by their names
MCOutright == [p \in MCPath |-> {n \in MCRelative \ {"./a"} : MCBeside[p][n] # absent}]

\* packages installed beside the main script, and others beside b
MCAround == [p \in MCPath |-> IF p = b THEN << near, far >>
                              ELSE IF p \in {data, other} THEN << near >> ELSE << far >>]
MCPackages == [d \in {near, far} |-> [n \in MCBare |->
                 IF n = "a" THEN absent ELSE IF d = far THEN pkg ELSE other]]
MCWorking == [n \in MCBare |-> IF n = "a" THEN a ELSE absent]
=============================================================================
