------------------------------ MODULE BarFiles ------------------------------
(***************************************************************************)
(* Files of bars that are mapped into memory: MmapWriter                   *)
(* (src/data/mmap_writer.cpp), MemoryMappedDataFile                        *)
(* (src/data/mmap_reader.cpp), and the caches in which                     *)
(* MemoryMappedDataSource (src/data/mmap_data_source.cpp) keeps mapped     *)
(* files and answers (include/regimeflow/common/lru_cache.h).              *)
(*                                                                         *)
(* A bar is its time; space is counted in units: the header is one, a      *)
(* value of a column is one, an entry of the index of days is one.  A file *)
(* is replaced only while the source does not map it: the writer truncates *)
(* it in place, which ends a process that reads the mapping.               *)
(***************************************************************************)
EXTENDS Integers, Sequences, FiniteSets, Functions

CONSTANTS
  Symbols,        \* one file each, of one type of bar
  Inputs,         \* what may be written: sequences of times of bars
  Ranges,         \* the ranges asked for, <<start, end>>
  Columns,        \* values of a bar in the file: 6
  DayLength,      \* time in a day
  FileCapacity,   \* max_cached_files
  RangeCapacities, \* values of max_cached_ranges
  MaxWrites       \* bound: calls of write_bars()

FilesAssumption ==
  /\ Inputs \subseteq Seq(Int)
  /\ \A r \in Ranges : r \in Nat \X Nat
  /\ {Columns, DayLength, FileCapacity} \subseteq Nat \ {0}
  /\ RangeCapacities \subseteq Nat

VARIABLES
  disk,      \* per symbol its file: the version, and how much of it is there
  versions,  \* history: the symbol and the bars of every version, sorted
  writing,   \* the symbol whose file is being written, "none"
  files,     \* file_cache_, the last used first: symbol and version mapped
  ranges,    \* range_cache_, the last used first
  capacity,  \* max_cached_ranges
  used,      \* history: the symbols, as keys, whose files were used, the last one first
  answer     \* what get_bars() returned last, and the version there was then

vars == <<disk, versions, writing, files, ranges, capacity, used, answer>>

NoFile == [version |-> 0, size |-> 0]

NoAnswer == [symbol |-> "none"]

Init ==
  /\ disk = [s \in Symbols |-> NoFile]
  /\ versions = <<>> /\ writing = "none"
  /\ files = <<>> /\ ranges = <<>> /\ used = <<>>
  /\ capacity \in RangeCapacities
  /\ answer = NoAnswer
-----------------------------------------------------------------------------
(* LRUCache: the entry of a key, and what get() and put() make of the      *)
(* list, in which every key is once.                                       *)

HasEntry(cache, key) == \E i \in DOMAIN cache : cache[i].key = key

Place(cache, key) == CHOOSE i \in DOMAIN cache : cache[i].key = key

Entry(cache, key) == cache[Place(cache, key)]

Without(cache, key) ==
  IF ~HasEntry(cache, key) THEN cache
  ELSE SubSeq(cache, 1, Place(cache, key) - 1) \o SubSeq(cache, Place(cache, key) + 1, Len(cache))

AtFront(cache, entry) == <<entry>> \o Without(cache, entry.key)

Touched(cache, key) == AtFront(cache, Entry(cache, key))

\* Mutant: 0 is no limit.
EvictedUnlessZero(cache, limit) == IF limit = 0 THEN cache ELSE SubSeq(cache, 1, limit)

Evicted(cache, limit) == SubSeq(cache, 1, limit)

PutIn(cache, entry, limit) ==
  LET longer == AtFront(cache, entry) IN
  IF Len(longer) > limit THEN Evicted(longer, limit) ELSE longer
-----------------------------------------------------------------------------
(* Writing.                                                                *)

\* validate_bars(), as far as it is about time.
IsValid(bars) == \A i \in DOMAIN bars : bars[i] > 0

\* build_date_index(): an entry for each bar whose day is another than the last.
Days(bars) == {i \in DOMAIN bars : i = 1 \/ bars[i] \div DayLength # bars[i - 1] \div DayLength}

IndexOffset(bars) == 1 + Columns * Len(bars)

Size(bars) == IndexOffset(bars) + Cardinality(Days(bars))

\* sort() by time: the order of bars of one time is left open.
InOrder(bars) == \A i, j \in DOMAIN bars : i < j => bars[i] <= bars[j]

Sorted(bars) ==
  {s \in {[i \in DOMAIN bars |-> bars[p[i]]] : p \in Bijection(DOMAIN bars, DOMAIN bars)} :
     InOrder(s)}

\* Bars come in any order; those that are not valid are refused before the file is
\* truncated.
BeginWrite(s, bars) ==
  /\ writing = "none"
  /\ Len(versions) < MaxWrites
  /\ ~ HasEntry(files, s)
  /\ IsValid(bars)
  /\ \E sorted \in Sorted(bars) : versions' = Append(versions, [symbol |-> s, bars |-> sorted])
  /\ disk' = [disk EXCEPT ![s] = [version |-> Len(versions) + 1, size |-> 0]]
  /\ writing' = s
  /\ UNCHANGED <<files, ranges, capacity, used, answer>>

BarsOf(version) == versions[version].bars

\* The stream writes what it has gathered; the header, which is written again at
\* the end, differs in its checksum only.
Flush ==
  /\ writing # "none"
  /\ LET file == disk[writing] IN
       \E size \in file.size + 1 .. Size(BarsOf(file.version)) :
         disk' = [disk EXCEPT ![writing].size = size]
  /\ UNCHANGED <<versions, writing, files, ranges, capacity, used, answer>>

\* The writer ends: when all is there, when it crashes, or when the disk is full,
\* of which write_bars() takes no notice.
EndWrite ==
  /\ writing # "none"
  /\ writing' = "none"
  /\ UNCHANGED <<disk, versions, files, ranges, capacity, used, answer>>
-----------------------------------------------------------------------------
(* Reading.                                                                *)

DataEnd(bars) == 1 + Columns * Len(bars)

\* map_file(): the header is there, and something behind it, and the columns fit.
CanMap(s) ==
  /\ disk[s].size >= 1
  /\ LET bars == BarsOf(disk[s].version) IN
       disk[s].size > 1 /\ DataEnd(bars) <= disk[s].size

\* lower_bound() and upper_bound(): the place of the first bar that is not before,
\* and of the first that is after the time, behind the last one if there is none.
LowerBound(bars, time) ==
  CHOOSE n \in 1 .. Len(bars) + 1 :
    /\ \A i \in 1 .. n - 1 : bars[i] < time
    /\ n \in DOMAIN bars => bars[n] >= time

UpperBound(bars, time) ==
  CHOOSE n \in 1 .. Len(bars) + 1 :
    /\ \A i \in 1 .. n - 1 : bars[i] <= time
    /\ n \in DOMAIN bars => bars[n] > time

\* find_range()
FindRange(bars, range) ==
  IF range = <<0, 0>> THEN bars
  ELSE SubSeq(bars, LowerBound(bars, range[1]), UpperBound(bars, range[2]) - 1)

\* Mutant: the symbol is left out.
KeyOfRange(s, range) == range

Key(s, range) == <<s, range>>

Answered(s, range, version, bars) ==
  [symbol |-> s, range |-> range, version |-> version, bars |-> bars,
   whole |-> Len(bars) = 0 \/ disk[s].version # version
              \/ disk[s].size >= 1 + Columns * Len(BarsOf(version)),
   latest |-> disk[s].version]

\* get_bars(), from the answers,
AnswerFromRanges(s, range) ==
  /\ HasEntry(ranges, Key(s, range))
  /\ LET hit == Entry(ranges, Key(s, range)) IN
       answer' = Answered(s, range, hit.version, hit.bars)
  /\ ranges' = Touched(ranges, Key(s, range))
  /\ UNCHANGED <<disk, versions, writing, files, capacity, used>>

\* from a file, which is mapped if it is not yet; what cannot be mapped throws, and
\* is not kept.
AnswerFromFile(s, range) ==
  /\ ~ HasEntry(ranges, Key(s, range))
  /\ LET mapped == HasEntry(files, s)
         version == IF mapped THEN Entry(files, s).version ELSE disk[s].version
         bars == FindRange(BarsOf(version), range)
     IN
       /\ mapped \/ CanMap(s)
       /\ files' = IF mapped THEN Touched(files, s)
                   ELSE PutIn(files, [key |-> s, version |-> version], FileCapacity)
       /\ used' = AtFront(used, [key |-> s])
       /\ answer' = Answered(s, range, version, bars)
       /\ ranges' = PutIn(ranges, [key |-> Key(s, range), version |-> version, bars |-> bars],
                          capacity)
  /\ UNCHANGED <<disk, versions, writing, capacity>>

Next ==
  \/ \E s \in Symbols, bars \in Inputs : BeginWrite(s, bars)
  \/ Flush
  \/ EndWrite
  \/ \E s \in Symbols, r \in Ranges : AnswerFromRanges(s, r) \/ AnswerFromFile(s, r)

Spec == Init /\ [][Next]_vars
-----------------------------------------------------------------------------
(* Properties.                                                             *)

\* A key has one entry.
KeysDiffer(cache) == \A i, j \in DOMAIN cache : i # j => cache[i].key # cache[j].key

TypeOK ==
  /\ \A s \in Symbols : disk[s].version \in 0 .. Len(versions) /\ disk[s].size \in Nat
  /\ \A v \in DOMAIN versions : versions[v].symbol \in Symbols
  /\ writing \in Symbols \cup {"none"}
  /\ \A i \in DOMAIN files : files[i].key \in Symbols
  /\ Len(files) <= FileCapacity /\ Len(ranges) <= capacity
  /\ KeysDiffer(files) /\ KeysDiffer(ranges)

\* Whenever a file is opened, while it is being written, after a crash or on a full
\* disk, either it is refused or all of its bars are there.
AnswersAreWhole == answer # NoAnswer => answer.whole

\* The bars of a range are those from the first to the last that is in it.
IsRangeOf(some, bars, range) ==
  \E first \in 1 .. Len(bars) + 1, last \in 0 .. Len(bars) :
    /\ some = SubSeq(bars, first, last)
    /\ \A i \in DOMAIN bars :
         i \in first .. last <=> range = <<0, 0>> \/ bars[i] \in range[1] .. range[2]

\* An answer has the bars of one version of the symbol's file whose time is in the
\* range, both ends included, in the order of time, and all of them for <<0, 0>>.
AnswersAreExact ==
  answer # NoAnswer =>
    /\ versions[answer.version].symbol = answer.symbol
    /\ IsRangeOf(answer.bars, BarsOf(answer.version), answer.range)

\* Without a cache of answers, which is the default, an answer is never older than
\* the file.
UncachedAnswersAreCurrent ==
  answer # NoAnswer /\ capacity = 0 => answer.version = answer.latest

\* The files kept open are those that were used last.
LastUsedStayOpen ==
  /\ Len(files) = IF Len(used) < FileCapacity THEN Len(used) ELSE FileCapacity
  /\ \A i \in DOMAIN files : files[i].key = used[i].key
=============================================================================
