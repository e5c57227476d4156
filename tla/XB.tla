---------------------------- MODULE XB ----------------------------
(* Two binaries of one Rust build and one identifier, "b" with a number    *)
(* before the name of "a"; and a third, whose name is two digits. Names    *)
(* from 4 on are words.                                                    *)
EXTENDS DailyDataset

Word == 4
Numbered == 5

MCIdent == [x \in Bins |-> IF x = "c" THEN "i2" ELSE "i1"]
MCName == [x \in Bins |-> CASE x = "a" -> Word [] x = "b" -> Numbered [] OTHER -> 2]
MCRawName == [x \in Bins |-> CASE x = "a" -> 6 [] x = "b" -> 7 [] OTHER -> 8]
MCStrip == [n \in 0..8 |-> CASE n = Numbered -> Word
                              [] n \in 6..8 -> MCName[CHOOSE x \in Bins : MCRawName[x] = n]
                              [] OTHER -> n]
MCMade == [x \in Bins |-> IF x = "c" THEN "build2" ELSE "build1"]
MCUtcAhead == {-1, 0, 1}

(* Three instances in one: all three on one day with a death, the two of  *)
(* one build on one day with a death and a fault, and the third, in any    *)
(* zone, on three days with one of these.                                  *)
Instances ==
    LET there == {x \in Bins : built[x] # NotBuilt}
    IN day = 1 /\ utc = 1 /\ deaths + faults <= 1

MCNext == Next /\ Instances'

MCSpec == Init /\ [][MCNext]_vars
=============================================================================
