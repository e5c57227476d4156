---------------------------- MODULE DwarfExtract ----------------------------
(***************************************************************************)
(* What the extractor reads out of a binary with debug information: its    *)
(* functions, their address ranges, and the source lines that belong to    *)
(* each, whether one process walks the compile units or several share      *)
(* them.  Addresses are small numbers; the text of source lines and the    *)
(* formatting of the item are left out.                                    *)
(*                                                                         *)
(* A binary: [size, dwarf, sections, loads, cus], with sections its        *)
(* executable ones as <<start, end>> and loads the addresses of its        *)
(* PT_LOAD segments.                                                       *)
(* A compile unit: [low, dies, entries], dies in the order of the walk.    *)
(* A die: [name, origin, list, low, high]; origin is the die it refers to, *)
(* list its DW_AT_ranges, low and high its span when it has no list.       *)
(* A line entry: [line, addr]; line 0 is a synthetic entry.                *)
(***************************************************************************)
EXTENDS Integers, Sequences, FiniteSets, SequencesExt

CONSTANTS
    Programs,       \* the binaries looked at
    Jobs,           \* the numbers of processes
    SizeLimit,      \* DWARF_SIZE_LIMIT
    Headers         \* the DWARF-4 line table headers looked at

IsSequence(s) == s \in Seq(ToSet(s))

(* Addresses and offsets are unsigned. *)
ASSUME ProgramsAssumption ==
    /\ \A bin \in Programs :
          /\ IsSequence(bin.cus)
          /\ bin.loads \subseteq Nat
          /\ \A cu \in ToSet(bin.cus) :
                /\ cu.low \in Nat
                /\ IsSequence(cu.entries) /\ IsSequence(cu.dies)
                /\ \A die \in ToSet(cu.dies) :
                      /\ {die.low, die.high} \subseteq Nat
                      /\ IsSequence(die.list)
                      /\ \A e \in ToSet(die.list) : {e.begin, e.end} \subseteq Nat
    /\ Jobs \subseteq Nat \ {0}
    /\ \A h \in Headers : IsSequence(h.files) /\ IsSequence(h.dirs)

NoName == ""
NoList == <<[kind |-> "none", begin |-> 0, end |-> 0]>>
NoItem == <<>>

(* The nth of a set of numbers, and what a function or sequence has at     *)
(* these, in their order.  The provers can look into this, but not into    *)
(* SelectSeq and SortSeq.                                                  *)
Nth(places, n) == CHOOSE p \in places : Cardinality({q \in places : q <= p}) = n

InOrder(f, places) == [n \in 1..Cardinality(places) |-> f[Nth(places, n)]]

ExecutableRanges(bin) == {s \in ToSet(bin.sections) : s[1] # 0}

BaseAddress(bin) ==
    IF bin.loads = {} THEN 0 ELSE CHOOSE a \in bin.loads : \A x \in bin.loads : a <= x

(* Files are numbered from 1, directories too, up to DWARF 4, and both     *)
(* from 0 since; no directory is the compile unit's own.                   *)
FileTable(version, files, dirs, compDir) ==
    LET first == IF version >= 5 THEN 0 ELSE 1
        DirOf(f) == IF f.dir \in first..(first + Len(dirs) - 1)
                    THEN dirs[f.dir - first + 1] ELSE compDir
    IN [n \in first..(first + Len(files) - 1) |->
            LET f == files[n - first + 1]
            IN IF f.absolute THEN <<f.name>> ELSE <<DirOf(f), f.name>>]

(* Through at most five references, which may run in circles. *)
ResolveDieName(dies, i) ==
    LET Name[d \in DOMAIN dies, depth \in 0..5] ==
            IF dies[d].name # NoName THEN dies[d].name
            ELSE IF dies[d].origin = 0 \/ depth = 5 THEN NoName
            ELSE Name[dies[d].origin, depth + 1]
    IN Name[i, 0]

(* An entry is absolute, or relative to the last base before it; 0/0 ends  *)
(* the list.  A list without ranges is no reason to look at the span.      *)
ResolveAddressRanges(cu, die) ==
    LET list == die.list
        IsBase(i) == list[i].kind = "base"
        Ended(i) == \E j \in 1..i : ~IsBase(j) /\ list[j].begin = 0 /\ list[j].end = 0
        Bases(i) == {j \in 1..i : IsBase(j)}
        Base(i) == IF Bases(i) = {} THEN cu.low
                   ELSE list[CHOOSE j \in Bases(i) : \A k \in Bases(i) : k <= j].begin
        Shift(i) == IF list[i].kind = "absolute" THEN 0 ELSE Base(i)
        Range_(i) == IF IsBase(i) \/ Ended(i) THEN <<0, 0>>
                     ELSE <<list[i].begin + Shift(i), list[i].end + Shift(i)>>
        all == IF list = NoList THEN <<<<die.low, die.high>>>>
               ELSE [i \in DOMAIN list |-> Range_(i)]
    IN InOrder(all, {i \in DOMAIN all : all[i][1] < all[i][2]})

(* Ranges outside every executable section, or below the base, go. *)
FunctionRanges(bin, cu, die) ==
    LET exec == ExecutableRanges(bin)
        base == BaseAddress(bin)
        Kept(r) == /\ exec = {} \/ \E s \in exec : r[1] < s[2] /\ r[2] > s[1]
                   /\ r[1] >= base
        all == ResolveAddressRanges(cu, die)
    IN InOrder([i \in DOMAIN all |-> <<all[i][1] - base, all[i][2] - base>>],
               {i \in DOMAIN all : Kept(all[i])})

CollectFunctions(bin, cu) ==
    LET all == [i \in DOMAIN cu.dies |-> [name |-> ResolveDieName(cu.dies, i),
                                          ranges |-> FunctionRanges(bin, cu, cu.dies[i])]]
    IN InOrder(all, {i \in DOMAIN all : all[i].name # NoName /\ all[i].ranges # <<>>})

(* The intervals of a unit's functions, <<start, end, function>>. *)
Intervals(functions) ==
    UNION {{<<r[1], r[2], i>> : r \in ToSet(functions[i].ranges)} : i \in DOMAIN functions}

Holds(v, rva) == v[1] <= rva /\ rva < v[2]

Sorted(v, w) ==
    \/ v[1] < w[1]
    \/ v[1] = w[1] /\ v[2] < w[2]
    \/ v[1] = w[1] /\ v[2] = w[2] /\ v[3] <= w[3]

(* The walk back from the last interval that starts at or before rva. *)
Holder(functions, rva) ==
    LET those == {v \in Intervals(functions) : Holds(v, rva)}
    IN {v[3] : v \in {v \in those : \A w \in those : Sorted(w, v)}}

(* A line is as long as the way to the next one by address. *)
RawEntries(bin, cu) ==
    LET used == {i \in DOMAIN cu.entries : cu.entries[i].line # 0}
        Earlier(i, j) == LET a == cu.entries[i].addr  b == cu.entries[j].addr
                         IN a < b \/ (a = b /\ i < j)
        count == Cardinality(used)
        Entry_(n) == cu.entries[CHOOSE i \in used :
                                   Cardinality({j \in used : Earlier(j, i)}) = n - 1]
        Rva(n) == Entry_(n).addr - BaseAddress(bin)
    IN [n \in 1..count |->
            [line |-> Entry_(n).line, rva |-> Rva(n),
             length |-> IF n = count THEN 0 ELSE Rva(n + 1) - Rva(n)]]

AssignLineEntries(bin, cu, functions) ==
    LET raw == RawEntries(bin, cu)
    IN [i \in DOMAIN functions |->
           [name |-> functions[i].name, ranges |-> functions[i].ranges,
            lines |-> InOrder(raw, {n \in DOMAIN raw : i \in Holder(functions, raw[n].rva)})]]

CuFunctions(bin, cu) == AssignLineEntries(bin, cu, CollectFunctions(bin, cu))

(* The units of a shard, by their index. *)
ExtractShard(bin, shard, shards) ==
    [k \in {k \in DOMAIN bin.cus : (k - 1) % shards = shard} |-> CuFunctions(bin, bin.cus[k])]

(* Identical functions are listed once, where the first of them stood. *)
BuildItem(functions) ==
    FoldLeft(LAMBDA listed, f : IF Contains(listed, f) THEN listed ELSE Append(listed, f),
             NoItem, functions)

(* Mutant: the shards are joined as they come. *)
AppendShards(parts) ==
    BuildItem(FlattenSeq([i \in DOMAIN parts |-> FlattenSeq(InOrder(parts[i], DOMAIN parts[i]))]))

MergeShards(parts) ==
    LET units == UNION {DOMAIN parts[i] : i \in DOMAIN parts}
        byCu == [k \in units |-> parts[CHOOSE i \in DOMAIN parts : k \in DOMAIN parts[i]][k]]
    IN BuildItem(FlattenSeq(InOrder(byCu, units)))

(* With few units, or when no processes can be had, one process walks all. *)
ExtractParallel(bin, jobs) ==
    MergeShards([i \in 1..jobs |-> ExtractShard(bin, i - 1, jobs)])

ExtractDwarfInfo(bin, jobs, poolFails) ==
    IF bin.size > SizeLimit \/ ~bin.dwarf THEN NoItem
    ELSE IF jobs > 1 /\ Len(bin.cus) >= 2 * jobs /\ ~poolFails THEN ExtractParallel(bin, jobs)
    ELSE MergeShards(<<ExtractShard(bin, 0, 1)>>)

-----------------------------------------------------------------------------
(* Every line entry with an address inside some function is listed with    *)
(* one function, in the innermost of the ranges around it (of ranges with  *)
(* one start the code prefers the outer); the others are listed nowhere.   *)
LinesAreAssigned(bin, cu) ==
    LET functions == CuFunctions(bin, cu)
        raw == RawEntries(bin, cu)
        covered == {n \in DOMAIN raw : \E v \in Intervals(functions) : Holds(v, raw[n].rva)}
        listed == UNION {{i} \X DOMAIN functions[i].lines : i \in DOMAIN functions}
    IN /\ Cardinality(listed) = Cardinality(covered)
       /\ \A f \in ToSet(functions) : \A l \in ToSet(f.lines) :
             \E r \in ToSet(f.ranges) :
                /\ Holds(r, l.rva)
                /\ \A v \in Intervals(functions) :
                      Holds(v, l.rva) => ~(v[1] > r[1] /\ v[2] <= r[2])

(* Splitting a binary among processes changes nothing in what comes out,   *)
(* whatever their number and should the pool fail; each line goes to one   *)
(* function, the innermost around it; and a DWARF 5 line table reads       *)
(* like the DWARF 4 one of the same files.                                 *)
ExtractionIsSound ==
    /\ \A bin \in Programs : \A jobs \in Jobs : \A poolFails \in BOOLEAN :
          ExtractDwarfInfo(bin, jobs, poolFails) = ExtractDwarfInfo(bin, 1, FALSE)
    /\ \A bin \in Programs : \A cu \in ToSet(bin.cus) : LinesAreAssigned(bin, cu)
    /\ \A h \in Headers : \A n \in DOMAIN h.files :
          FileTable(4, h.files, h.dirs, h.compDir)[n]
             = FileTable(5, h.files, <<h.compDir>> \o h.dirs, h.compDir)[n - 1]
=============================================================================
