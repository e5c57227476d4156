---------------------------- MODULE MCBuilderTask ----------------------------
(* Two options of one repository, which share its archive, and a second   *)
(* repository for the builder of the first option.  The C option meets a  *)
(* project it has no command for.                                         *)
EXTENDS BuilderTask

MCRepoOf == [t \in Tasks |-> IF t = "t3" THEN "r2" ELSE "r1"]
MCOptOf == [t \in Tasks |-> IF t = "t2" THEN "clang_O0" ELSE "gcc_O0"]
MCServes == [b \in Builders |-> IF b = "b2" THEN "clang_O0" ELSE "gcc_O0"]
MCStrategy == [o \in Opts |-> IF o = "gcc_O0" THEN "gcc" ELSE "c"]
MCMaxHead == [r \in Repos |-> IF r = "r1" THEN 2 ELSE 1]
MCCrate == [r \in Repos |-> r]
MCFilesOf == [r \in Repos |-> IF r = "r1" THEN {"cargo.toml", "configure.ac"} ELSE {"cargo.toml", "cargo.lock"}]

(* A binary whose names keep rustfilt past its timeout, and one that is   *)
(* killed and reaped late.                                                 *)
MCNeeds == {[child |-> 2, after |-> 9], [child |-> 9, after |-> 9]}

(* A behaviour has either the push or the second repository's task: the    *)
(* two repositories meet only in libgccjit's directory, whose dumps know   *)
(* of no commit.                                                           *)
PushOrSecondRepository == head["r1"] = 1 \/ todo["t3"] = 1

(* Four units whose functions partly repeat, and single units of three    *)
(* nested, disjoint, overlapping or dropped functions with entries in      *)
(* every place.                                                            *)
Die(name, origin, list, low, high) ==
    [name |-> name, origin |-> origin, list |-> list, low |-> low, high |-> high]

Binary_(size, sections, loads, cus) ==
    [size |-> size, dwarf |-> TRUE, sections |-> sections, loads |-> loads, cus |-> cus]

Entry(line, addr) == [line |-> line, addr |-> addr]
Item(kind, begin, end) == [kind |-> kind, begin |-> begin, end |-> end]

Span == {<<1, 5>>, <<2, 3>>, <<2, 5>>, <<0, 2>>, <<4, 4>>}
ListA == <<Item("relative", 0, 1), Item("base", 3, 3), Item("relative", 0, 1)>>
ListB == <<Item("absolute", 2, 5), Item("relative", 0, 0), Item("absolute", 0, 5)>>

Units == [n \in 1..3 |->
    [low |-> n, dies |-> <<Die(IF n = 2 THEN NoName ELSE "f", IF n = 2 THEN 2 ELSE 0, NoList, 2, 4),
                           Die("g", 0, IF n = 3 THEN ListA ELSE NoList, 1, 2)>>,
     entries |-> <<Entry(7, 3), Entry(0, 1), Entry(8, 1)>>]]

Sharded == {Binary_(1, <<>>, {1, 2}, <<Units[a], Units[b], Units[c], Units[d]>>) :
                a, b, c, d \in 1..3}

Single == {Binary_(size, sections, {1}, <<[low |-> 1, entries |-> [n \in 1..5 |-> Entry(n, 5 - n)],
                dies |-> <<Die("f", 0, NoList, s[1], s[2]), Die(NoName, 1, list, t[1], t[2]),
                           Die(NoName, 3, NoList, u[1], u[2])>>]>>) :
              size \in {1, 9}, sections \in {<<>>, <<<<0, 9>>, <<2, 4>>>>},
              s, t, u \in Span, list \in {NoList, ListA, ListB}}

MCPrograms == Sharded \cup Single

MCHeaders ==
    {[dirs |-> dirs, compDir |-> "c",
      files |-> <<[name |-> "x", absolute |-> FALSE, dir |-> i],
                  [name |-> "y", absolute |-> a, dir |-> j]>>] :
        dirs \in {<<"d">>, <<"d", "e">>}, i \in 0..1, j \in 0..1, a \in BOOLEAN}
=============================================================================
