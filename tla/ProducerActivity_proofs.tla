----------------------- MODULE ProducerActivity_proofs -----------------------
(***************************************************************************)
(* Proofs about ProducerActivity for any number of overviews, any day and  *)
(* any ages.                                                               *)
(*                                                                         *)
(* AtMostOnce ties the height of an entry to what is counted in it and to  *)
(* the extension that is under way; AtLeastOnce remembers, of an extension *)
(* under way, what its entry had counted when it began.                    *)
(***************************************************************************)
EXTENDS ProducerActivity, TLAPS

LEMMA Bounds ==
  /\ Window \in Nat \ {0} /\ Extend \in Nat /\ Lag \in Nat /\ MaxHead \in Nat \ {0}
  /\ Heights \subseteq Nat \ {0} /\ 1 \in Heights
  /\ None \notin Entries
  /\ 0 \in 0..Extend
BY ActivityBounds, NoneIsNoEntry DEF Heights

LEMMA OlderInRange ==
  ASSUME NEW t \in 0..Extend PROVE Older(t) \in 0..Extend
BY Bounds DEF Older

LEMMA DayBeginsAtAHeight ==
  ASSUME NEW h \in Heights
  PROVE  DayBefore(h) \in Heights /\ DayBefore(h) <= h
BY Bounds DEF DayBefore, Heights

\* What merging blocks does to the counts.
LEMMA MergeCounts ==
  ASSUME NEW stats \in [Heights -> Nat], NEW from \in Int, NEW last \in Int
  PROVE  /\ Merge(stats, from, last) \in [Heights -> Nat]
         /\ \A h \in Heights :
              /\ from <= h /\ h <= last => Merge(stats, from, last)[h] = stats[h] + 1
              /\ ~(from <= h /\ h <= last) => Merge(stats, from, last)[h] = stats[h]
              /\ Merge(stats, from, last)[h] >= stats[h]
<1>1. Heights \subseteq Int
  BY Bounds
<1> QED BY <1>1 DEF Merge

LEMMA Defaults ==
  /\ NoEntry \in EntryRecords
  /\ Idle \in Requests /\ Idle.entry = None /\ Idle.pc = "nothing"
BY Bounds DEF NoEntry, EntryRecords, Idle, Requests, Doing

\* What a scan counts.
LEMMA ScanCounts ==
  ASSUME NEW from \in Int, NEW last \in Int, NEW h \in Heights
  PROVE  /\ from <= h /\ h <= last => Merge(NoEntry.stats, from, last)[h] = 1
         /\ ~(from <= h /\ h <= last) => Merge(NoEntry.stats, from, last)[h] = 0
<1> DEFINE none == [x \in Heights |-> 0]
<1>1. none \in [Heights -> Nat] /\ none[h] = 0
  OBVIOUS
<1>2. NoEntry.stats = none
  BY DEF NoEntry
<1> HIDE DEF none
<1>3. /\ from <= h /\ h <= last => Merge(none, from, last)[h] = 0 + 1
      /\ ~(from <= h /\ h <= last) => Merge(none, from, last)[h] = 0
  BY <1>1, MergeCounts
<1> QED BY <1>2, <1>3

\* The new entry of a scan is one that nobody holds.
LEMMA ScannedEntry ==
  ASSUME NEW o \in Overviews, NEW last \in Int, Scanned(o, last)
  PROVE  \E e \in Entries \ Held :
           /\ cache' = e
           /\ entries' = [entries EXCEPT ![e] =
                            WithBlocks(NoEntry, overview[o].from, last, overview[o].to)]
<1> DEFINE e == CHOOSE x \in Entries : x \notin Held
<1>1. \E x \in Entries : x \notin Held
  BY DEF Scanned
<1>2. e \in Entries \ Held
  BY <1>1
<1>3. /\ cache' = e
      /\ entries' = [entries EXCEPT ![e] =
                       WithBlocks(NoEntry, overview[o].from, last, overview[o].to)]
  BY DEF Scanned
<1> HIDE DEF e
<1> QED BY <1>2, <1>3

LEMMA WithBlocksType ==
  ASSUME NEW entry \in EntryRecords, NEW from \in Int, NEW last \in Int,
         NEW reached \in Heights \cup {0}
  PROVE  /\ WithBlocks(entry, from, last, reached) \in EntryRecords
         /\ WithBlocks(entry, from, last, reached).stats = Merge(entry.stats, from, last)
         /\ WithBlocks(entry, from, last, reached).head = reached
<1> DEFINE counts == Merge(entry.stats, from, last)
<1>1. entry.stats \in [Heights -> Nat]
  BY DEF EntryRecords
<1>2. counts \in [Heights -> Nat]
  BY <1>1, MergeCounts
<1>3. WithBlocks(entry, from, last, reached) = [entry EXCEPT !.stats = counts, !.head = reached, !.age = 0]
  BY DEF WithBlocks
<1> HIDE DEF counts
<1>4. /\ WithBlocks(entry, from, last, reached) \in EntryRecords
      /\ WithBlocks(entry, from, last, reached).stats = counts
      /\ WithBlocks(entry, from, last, reached).head = reached
  BY <1>2, <1>3, Bounds DEF EntryRecords
<1> QED BY <1>4 DEF counts

LEMMA AgedType ==
  ASSUME NEW entry \in EntryRecords
  PROVE  /\ Aged(entry) \in EntryRecords
         /\ Aged(entry).stats = entry.stats /\ Aged(entry).head = entry.head
BY OlderInRange DEF Aged, EntryRecords

-----------------------------------------------------------------------------
\* Types

\* What the types say of one overview.
LEMMA RequestOf ==
  ASSUME ActivityTypeOK, NEW o \in Overviews
  PROVE  /\ overview[o].pc \in Doing /\ overview[o].entry \in Entries \cup {None}
         /\ overview[o].from \in Heights /\ overview[o].to \in Heights
         /\ overview[o].from \in Int /\ overview[o].to \in Int
         /\ overview[o].pc = "extending" <=> overview[o].entry # None
         /\ overview[o].pc # "nothing" => overview[o].from <= overview[o].to
<1>1. overview[o] \in Requests
  BY DEF ActivityTypeOK
<1>2. Heights \subseteq Int
  BY Bounds
<1> QED BY <1>1, <1>2 DEF ActivityTypeOK, Requests

\* What the types say of one entry.
LEMMA EntryOf ==
  ASSUME ActivityTypeOK, NEW e \in Entries
  PROVE  /\ entries[e].head \in Heights \cup {0} /\ entries[e].head \in Int
         /\ entries[e].stats \in [Heights -> Nat]
         /\ entries[e].age \in 0..Extend
<1>1. entries[e] \in EntryRecords
  BY DEF ActivityTypeOK
<1>2. Heights \cup {0} \subseteq Int
  BY Bounds
<1> QED BY <1>1, <1>2 DEF EntryRecords

LEMMA TypesBegin ==
  ASSUME ActivityTypeOK, NEW o \in Overviews, BeginOverview(o)
  PROVE  ActivityTypeOK'
<1>1. PICK h \in Heights : BeginExtension(o, h) \/ BeginScan(o, h)
  BY DEF BeginOverview
<1>2. CASE BeginExtension(o, h)
  <2>1. /\ cache \in Entries
        /\ entries[cache].head < h /\ entries[cache].head \in Heights \cup {0}
    BY <1>2 DEF BeginExtension, ExtendsCache, ActivityTypeOK, EntryRecords
  <2>2. entries[cache].head + 1 \in Heights /\ entries[cache].head + 1 <= h
    BY <2>1, Bounds DEF Heights
  <2> QED
    BY <1>2, <2>1, <2>2, Bounds DEF BeginExtension, BeginOverview, ActivityTypeOK, Requests, Doing
<1>3. CASE BeginScan(o, h)
  <2> DEFINE d == DayBefore(h)
  <2>1. d \in Heights /\ d <= h
    BY DayBeginsAtAHeight
  <2>2. overview' = [overview EXCEPT ![o] = [pc |-> "scanning", entry |-> None, from |-> d, to |-> h]]
    BY <1>3 DEF BeginScan
  <2> HIDE DEF d
  <2> QED BY <1>3, <2>1, <2>2 DEF BeginScan, BeginOverview, ActivityTypeOK, Requests, Doing
<1> QED BY <1>1, <1>2, <1>3

LEMMA TypesFetched ==
  ASSUME ActivityTypeOK, NEW o \in Overviews, Fetched(o)
  PROVE  ActivityTypeOK'
<1>1. PICK last \in (overview[o].from - 1)..overview[o].to : Extended(o, last) \/ Scanned(o, last)
  BY DEF Fetched
<1>2. /\ overview[o].from \in Heights /\ overview[o].to \in Heights
      /\ overview[o].from \in Int
  BY RequestOf
<1>a. last \in Int
  BY <1>1, RequestOf
<1>3. overview' \in [Overviews -> Requests]
  BY Defaults DEF Fetched, ActivityTypeOK
<1>4. \A p \in Overviews :
        /\ overview'[p].pc = "extending" <=> overview'[p].entry # None
        /\ overview'[p].pc # "nothing" => overview'[p].from <= overview'[p].to
  BY Defaults DEF Fetched, ActivityTypeOK
<1>5. entries' \in [Entries -> EntryRecords] /\ cache' \in Entries \cup {None}
  <2>1. CASE Extended(o, last)
    <3> DEFINE e == overview[o].entry
               new == WithBlocks(entries[e], overview[o].from, last, overview[o].to)
    <3>1. e \in Entries
      BY <2>1, RequestOf DEF Extended
    <3>2. new \in EntryRecords
      BY <1>2, <1>a, <3>1, WithBlocksType DEF ActivityTypeOK
    <3>3. entries' = [entries EXCEPT ![e] = new] /\ cache' = cache
      BY <2>1 DEF Extended
    <3> HIDE DEF e, new
    <3> QED BY <3>1, <3>2, <3>3 DEF ActivityTypeOK
  <2>2. CASE Scanned(o, last)
    <3> DEFINE new == WithBlocks(NoEntry, overview[o].from, last, overview[o].to)
    <3>1. new \in EntryRecords
      BY <1>2, <1>a, Defaults, WithBlocksType
    <3>2. PICK e \in Entries \ Held : cache' = e /\ entries' = [entries EXCEPT ![e] = new]
      BY <1>a, <2>2, ScannedEntry
    <3> HIDE DEF new
    <3> QED BY <3>1, <3>2 DEF ActivityTypeOK
  <2> QED BY <1>1, <2>1, <2>2
<1> QED BY <1>3, <1>4, <1>5 DEF Fetched, ActivityTypeOK

LEMMA TypesElapse ==
  ASSUME ActivityTypeOK, Elapse PROVE ActivityTypeOK'
<1>1. cache \in Entries /\ Aged(entries[cache]) \in EntryRecords
  BY AgedType DEF Elapse, ActivityTypeOK
<1>2. entries' \in [Entries -> EntryRecords]
  BY <1>1 DEF Elapse, ActivityTypeOK
<1> QED BY <1>2 DEF Elapse, ActivityTypeOK

LEMMA TypesStep == ActivityTypeOK /\ [ActivityNext]_activityVars => ActivityTypeOK'
<1> SUFFICES ASSUME ActivityTypeOK, [ActivityNext]_activityVars PROVE ActivityTypeOK'
  OBVIOUS
<1>1. ASSUME NEW o \in Overviews, BeginOverview(o) PROVE ActivityTypeOK'
  BY <1>1, TypesBegin
<1>2. ASSUME NEW o \in Overviews, Fetched(o) PROVE ActivityTypeOK'
  BY <1>2, TypesFetched
<1>3. ASSUME NEW o \in Overviews, FetchFailed(o) PROVE ActivityTypeOK'
  BY <1>3, Defaults DEF FetchFailed, ActivityTypeOK
<1>4. CASE BlockProduced
  <2>1. head' \in Heights
    BY <1>4, Bounds DEF BlockProduced, ActivityTypeOK, Heights
  <2> QED BY <1>4, <2>1 DEF BlockProduced, ActivityTypeOK
<1>5. CASE Elapse
  BY <1>5, TypesElapse
<1>6. CASE UNCHANGED activityVars
  BY <1>6 DEF activityVars, ActivityTypeOK
<1> QED BY <1>1, <1>2, <1>3, <1>4, <1>5, <1>6 DEF ActivityNext

LEMMA TypesInit == ActivityInit => ActivityTypeOK
BY Bounds, Defaults DEF ActivityInit, ActivityTypeOK

\* Type correctness of the cache and of the overviews in flight: every request for blocks
\* is one for at least one block.
THEOREM ActivityTypes == ActivitySpec => []ActivityTypeOK
BY TypesInit, TypesStep, PTL DEF ActivitySpec

-----------------------------------------------------------------------------
\* At most once

Extends(o, e) == overview[o].pc = "extending" /\ overview[o].entry = e

\* Nothing is counted above the height of an entry, and no two extensions add to one entry:
\* each begins right above that height.
AtMostOnce ==
  ~overlapped =>
    /\ \A e \in Entries, h \in Heights :
         entries[e].stats[h] <= 1 /\ (h > entries[e].head => entries[e].stats[h] = 0)
    /\ \A o \in Overviews, e \in Entries :
         Extends(o, e) => /\ overview[o].from = entries[e].head + 1
                          /\ \A p \in Overviews : Extends(p, e) => p = o

\* What the finished fetch of an overview leaves in every entry.
LEMMA FetchedEntries ==
  ASSUME ActivityTypeOK, NEW o \in Overviews,
         NEW last \in (overview[o].from - 1)..overview[o].to,
         Extended(o, last) \/ Scanned(o, last)
  PROVE  \E e \in Entries :
           /\ \A x \in Entries \ {e} : entries'[x] = entries[x]
           /\ entries'[e].head = overview[o].to
           /\ \/ /\ Extends(o, e) /\ cache' = cache
                 /\ entries'[e].stats = Merge(entries[e].stats, overview[o].from, last)
              \/ /\ overview[o].pc = "scanning" /\ cache' = e /\ e \notin Held
                 /\ entries'[e].stats = Merge(NoEntry.stats, overview[o].from, last)
<1>1. /\ overview[o].from \in Int /\ last \in Int /\ overview[o].to \in Heights \cup {0}
  BY RequestOf
<1>2. CASE Extended(o, last)
  <2> DEFINE e == overview[o].entry
             new == WithBlocks(entries[e], overview[o].from, last, overview[o].to)
  <2>1. e \in Entries /\ Extends(o, e)
    BY <1>2, RequestOf DEF Extended, Extends
  <2>2. new.stats = Merge(entries[e].stats, overview[o].from, last) /\ new.head = overview[o].to
    BY <1>1, <2>1, WithBlocksType DEF ActivityTypeOK
  <2>3. entries' = [entries EXCEPT ![e] = new] /\ cache' = cache
    BY <1>2 DEF Extended
  <2> HIDE DEF e, new
  <2>4. entries'[e] = new /\ \A x \in Entries \ {e} : entries'[x] = entries[x]
    BY <2>1, <2>3 DEF ActivityTypeOK
  <2> QED BY <2>1, <2>2, <2>3, <2>4
<1>3. CASE Scanned(o, last)
  <2> DEFINE new == WithBlocks(NoEntry, overview[o].from, last, overview[o].to)
  <2>1. new.stats = Merge(NoEntry.stats, overview[o].from, last) /\ new.head = overview[o].to
    BY <1>1, Defaults, WithBlocksType
  <2>2. PICK e \in Entries \ Held : cache' = e /\ entries' = [entries EXCEPT ![e] = new]
    BY <1>1, <1>3, ScannedEntry
  <2> HIDE DEF new
  <2>3. entries'[e] = new /\ \A x \in Entries \ {e} : entries'[x] = entries[x]
    BY <2>2 DEF ActivityTypeOK
  <2>4. overview[o].pc = "scanning"
    BY <1>3 DEF Scanned
  <2> QED BY <2>1, <2>2, <2>3, <2>4
<1> QED BY <1>2, <1>3

\* The overviews that extend an entry are among those that hold it.
LEMMA ExtendersHold ==
  ASSUME NEW o \in Overviews, NEW e \in Entries, Extends(o, e)
  PROVE  e \in Held
BY DEF Extends, Held

\* An overview that ends or begins leaves the others as they are.
LEMMA OthersExtend ==
  ASSUME ActivityTypeOK, NEW o \in Overviews,
         overview' = [overview EXCEPT ![o] = Idle],
         NEW p \in Overviews, NEW e \in Entries, Extends(p, e)'
  PROVE  p # o /\ Extends(p, e) /\ overview'[p] = overview[p]
BY Defaults DEF Extends, ActivityTypeOK

LEMMA OnceBegin ==
  ASSUME ActivityTypeOK, AtMostOnce, NEW o \in Overviews, BeginOverview(o)
  PROVE  AtMostOnce'
<1>1. PICK h \in Heights : BeginExtension(o, h) \/ BeginScan(o, h)
  BY DEF BeginOverview
<1> SUFFICES ASSUME ~overlapped' PROVE AtMostOnce'
  BY DEF AtMostOnce
<1>2. entries' = entries /\ ~overlapped
  <2>1. entries' = entries
    BY DEF BeginOverview
  <2>2. CASE BeginExtension(o, h)
    BY <2>1, <2>2 DEF BeginExtension
  <2>3. CASE BeginScan(o, h)
    BY <2>1, <2>3 DEF BeginScan
  <2> QED BY <1>1, <2>2, <2>3
<1>3. ASSUME NEW p \in Overviews, NEW e \in Entries, Extends(p, e)', p # o
      PROVE  Extends(p, e) /\ overview'[p] = overview[p]
  BY <1>1, <1>3 DEF BeginExtension, BeginScan, Extends, ActivityTypeOK
<1>4. ASSUME NEW e \in Entries, Extends(o, e)'
      PROVE  /\ overview'[o].from = entries[e].head + 1
             /\ \A p \in Overviews : ~Extends(p, e)
  <2>1. CASE BeginExtension(o, h)
    <3>1. e = cache /\ overview'[o].from = entries[cache].head + 1
      BY <1>4, <2>1 DEF BeginExtension, Extends, ActivityTypeOK
    <3>2. \A p \in Overviews : overview[p].entry # cache
      BY <2>1 DEF BeginExtension
    <3> QED BY <3>1, <3>2 DEF Extends
  <2>2. CASE BeginScan(o, h)
    BY <1>4, <2>2 DEF BeginScan, Extends, ActivityTypeOK
  <2> QED BY <1>1, <2>1, <2>2
<1>5. \A p \in Overviews, e \in Entries :
        Extends(p, e)' => /\ overview'[p].from = entries'[e].head + 1
                          /\ \A q \in Overviews : Extends(q, e)' => q = p
  BY <1>2, <1>3, <1>4 DEF AtMostOnce
<1> QED BY <1>2, <1>5 DEF AtMostOnce

LEMMA OnceFetched ==
  ASSUME ActivityTypeOK, AtMostOnce, NEW o \in Overviews, Fetched(o)
  PROVE  AtMostOnce'
<1> SUFFICES ASSUME ~overlapped' PROVE AtMostOnce'
  BY DEF AtMostOnce
<1>1. ~overlapped /\ overview' = [overview EXCEPT ![o] = Idle]
  BY DEF Fetched
<1>2. PICK last \in (overview[o].from - 1)..overview[o].to : Extended(o, last) \/ Scanned(o, last)
  BY DEF Fetched
<1>3. PICK e \in Entries :
        /\ \A x \in Entries \ {e} : entries'[x] = entries[x]
        /\ entries'[e].head = overview[o].to
        /\ \/ /\ Extends(o, e) /\ cache' = cache
              /\ entries'[e].stats = Merge(entries[e].stats, overview[o].from, last)
           \/ /\ overview[o].pc = "scanning" /\ cache' = e /\ e \notin Held
              /\ entries'[e].stats = Merge(NoEntry.stats, overview[o].from, last)
  BY <1>2, FetchedEntries
<1>4. /\ overview[o].from \in Int /\ overview[o].to \in Int /\ last \in Int
      /\ last <= overview[o].to
      /\ overview[o].pc # "nothing" => overview[o].from <= overview[o].to
  BY <1>2, RequestOf
<1>5. ASSUME NEW h \in Heights
      PROVE  entries'[e].stats[h] <= 1 /\ (h > entries'[e].head => entries'[e].stats[h] = 0)
  <2>1. h \in Int
    BY Bounds
  <2>2. CASE /\ Extends(o, e)
             /\ entries'[e].stats = Merge(entries[e].stats, overview[o].from, last)
    <3>1. overview[o].from = entries[e].head + 1 /\ overview[o].from <= overview[o].to
      BY <1>1, <1>4, <2>2 DEF AtMostOnce, Extends
    <3>2. /\ entries[e].stats[h] <= 1 /\ entries[e].stats[h] \in Nat
          /\ h > entries[e].head => entries[e].stats[h] = 0
          /\ entries[e].stats \in [Heights -> Nat] /\ entries[e].head \in Int
      BY <1>1, EntryOf DEF AtMostOnce
    <3>3. /\ overview[o].from <= h /\ h <= last => entries'[e].stats[h] = entries[e].stats[h] + 1
          /\ ~(overview[o].from <= h /\ h <= last) => entries'[e].stats[h] = entries[e].stats[h]
      BY <1>4, <2>2, <3>2, MergeCounts
    <3> QED BY <1>3, <1>4, <2>1, <3>1, <3>2, <3>3
  <2>3. CASE entries'[e].stats = Merge(NoEntry.stats, overview[o].from, last)
    <3>1. /\ overview[o].from <= h /\ h <= last => entries'[e].stats[h] = 1
          /\ ~(overview[o].from <= h /\ h <= last) => entries'[e].stats[h] = 0
      BY <1>4, <2>3, ScanCounts
    <3> QED BY <1>3, <1>4, <2>1, <3>1
  <2> QED BY <1>3, <2>2, <2>3
<1>6. \A x \in Entries, h \in Heights :
        entries'[x].stats[h] <= 1 /\ (h > entries'[x].head => entries'[x].stats[h] = 0)
  BY <1>1, <1>3, <1>5 DEF AtMostOnce
<1>7. ASSUME NEW p \in Overviews, NEW x \in Entries, Extends(p, x)'
      PROVE  /\ overview'[p].from = entries'[x].head + 1
             /\ \A q \in Overviews : Extends(q, x)' => q = p
  <2>1. p # o /\ Extends(p, x) /\ overview'[p] = overview[p]
    BY <1>1, <1>7, OthersExtend
  <2>2. x # e
    BY <1>1, <1>3, <2>1, ExtendersHold DEF AtMostOnce
  <2>3. \A q \in Overviews : Extends(q, x)' => Extends(q, x)
    BY <1>1, OthersExtend
  <2> QED BY <1>1, <1>3, <2>1, <2>2, <2>3 DEF AtMostOnce
<1> QED BY <1>6, <1>7 DEF AtMostOnce

LEMMA OnceElapse ==
  ASSUME ActivityTypeOK, AtMostOnce, Elapse
  PROVE  AtMostOnce'
<1>1. \A e \in Entries : entries'[e].stats = entries[e].stats /\ entries'[e].head = entries[e].head
  BY AgedType DEF Elapse, ActivityTypeOK
<1>2. overview' = overview /\ overlapped' = overlapped
  BY DEF Elapse
<1> QED BY <1>1, <1>2 DEF AtMostOnce, Extends

LEMMA OnceStep ==
  ActivityTypeOK /\ AtMostOnce /\ [ActivityNext]_activityVars => AtMostOnce'
<1> SUFFICES ASSUME ActivityTypeOK, AtMostOnce, [ActivityNext]_activityVars PROVE AtMostOnce'
  OBVIOUS
<1>1. ASSUME NEW o \in Overviews, BeginOverview(o) PROVE AtMostOnce'
  BY <1>1, OnceBegin
<1>2. ASSUME NEW o \in Overviews, Fetched(o) PROVE AtMostOnce'
  BY <1>2, OnceFetched
<1>3. ASSUME NEW o \in Overviews, FetchFailed(o) PROVE AtMostOnce'
  <2>1. /\ overview' = [overview EXCEPT ![o] = Idle]
        /\ entries' = entries /\ overlapped' = overlapped
    BY <1>3 DEF FetchFailed
  <2>2. \A p \in Overviews, e \in Entries :
          Extends(p, e)' => Extends(p, e) /\ overview'[p] = overview[p]
    BY <2>1, OthersExtend
  <2> QED BY <2>1, <2>2 DEF AtMostOnce
<1>4. CASE BlockProduced
  BY <1>4 DEF BlockProduced, AtMostOnce, Extends
<1>5. CASE Elapse
  BY <1>5, OnceElapse
<1>6. CASE UNCHANGED activityVars
  BY <1>6 DEF activityVars, AtMostOnce, Extends
<1> QED BY <1>1, <1>2, <1>3, <1>4, <1>5, <1>6 DEF ActivityNext

LEMMA OnceInit == ActivityInit => AtMostOnce
BY Bounds DEF ActivityInit, AtMostOnce, Extends, NoEntry, Idle

\* As long as no two overviews have extended one entry at the same time, no block is
\* counted twice, whatever fails, is short, lags behind or replaces the entry meanwhile.
THEOREM BlocksCountedOnce == ActivitySpec => []CountedOnce
<1>1. AtMostOnce => CountedOnce
  BY DEF AtMostOnce, CountedOnce
<1> QED BY <1>1, OnceInit, OnceStep, ActivityTypes, PTL DEF ActivitySpec

-----------------------------------------------------------------------------
\* At least once

Counted(stats, first, last) == \A h \in Heights : first <= h /\ h <= last => stats[h] >= 1

\* The day of the cached entry is counted, and of an extension the day that ends right below
\* it; a scan asks for a whole day.
AtLeastOnce ==
  ~shortened =>
    /\ cache # None =>
         Counted(entries[cache].stats, DayBefore(entries[cache].head), entries[cache].head)
    /\ \A o \in Overviews, e \in Entries :
         Extends(o, e) =>
           Counted(entries[e].stats, DayBefore(overview[o].from - 1), overview[o].from - 1)
    /\ \A o \in Overviews :
         overview[o].pc = "scanning" => overview[o].from = DayBefore(overview[o].to)

LEMMA DayMonotonic ==
  ASSUME NEW a \in Int, NEW b \in Int, a <= b
  PROVE  DayBefore(a) <= DayBefore(b) /\ DayBefore(a) \in Int
BY Bounds DEF DayBefore

LEMMA LeastBegin ==
  ASSUME ActivityTypeOK, AtLeastOnce, NEW o \in Overviews, BeginOverview(o)
  PROVE  AtLeastOnce'
<1>1. PICK h \in Heights : BeginExtension(o, h) \/ BeginScan(o, h)
  BY DEF BeginOverview
<1>2. entries' = entries /\ cache' = cache /\ shortened' = shortened
  BY DEF BeginOverview
<1> SUFFICES ASSUME ~shortened PROVE AtLeastOnce'
  BY <1>2 DEF AtLeastOnce
<1>3. ASSUME NEW p \in Overviews, p # o PROVE overview'[p] = overview[p]
  BY <1>1, <1>3 DEF BeginExtension, BeginScan, ActivityTypeOK
<1>4. ASSUME NEW e \in Entries, Extends(o, e)'
      PROVE  Counted(entries[e].stats, DayBefore(overview'[o].from - 1), overview'[o].from - 1)
  <2>1. CASE BeginExtension(o, h)
    <3>1. e = cache /\ overview'[o].from = entries[cache].head + 1
      BY <1>4, <2>1 DEF BeginExtension, Extends, ActivityTypeOK
    <3>2. cache # None /\ entries[cache].head \in Int
      BY <1>4, <3>1, <2>1, EntryOf DEF BeginExtension, ExtendsCache
    <3>3. overview'[o].from - 1 = entries[cache].head
      BY <3>1, <3>2
    <3> QED BY <3>1, <3>2, <3>3 DEF AtLeastOnce
  <2>2. CASE BeginScan(o, h)
    BY <1>4, <2>2 DEF BeginScan, Extends, ActivityTypeOK
  <2> QED BY <1>1, <2>1, <2>2
<1>5. ASSUME overview'[o].pc = "scanning"
      PROVE  overview'[o].from = DayBefore(overview'[o].to)
  <2>1. CASE BeginExtension(o, h)
    BY <1>5, <2>1 DEF BeginExtension, ActivityTypeOK
  <2>2. CASE BeginScan(o, h)
    <3> DEFINE d == DayBefore(h)
    <3>1. overview' = [overview EXCEPT ![o] = [pc |-> "scanning", entry |-> None, from |-> d, to |-> h]]
      BY <2>2 DEF BeginScan
    <3> HIDE DEF d
    <3>2. overview'[o].from = d /\ overview'[o].to = h
      BY <3>1 DEF ActivityTypeOK
    <3> QED BY <3>2 DEF d
  <2> QED BY <1>1, <2>1, <2>2
<1>6. \A p \in Overviews, e \in Entries :
        Extends(p, e)' =>
          Counted(entries[e].stats, DayBefore(overview'[p].from - 1), overview'[p].from - 1)
  <2> SUFFICES ASSUME NEW p \in Overviews, NEW e \in Entries, Extends(p, e)'
      PROVE Counted(entries[e].stats, DayBefore(overview'[p].from - 1), overview'[p].from - 1)
    OBVIOUS
  <2>1. CASE p = o
    BY <1>4, <2>1
  <2>2. CASE p # o
    <3>1. overview'[p] = overview[p] /\ Extends(p, e)
      BY <1>3, <2>2 DEF Extends
    <3> QED BY <3>1 DEF AtLeastOnce
  <2> QED BY <2>1, <2>2
<1>7. \A p \in Overviews :
        overview'[p].pc = "scanning" => overview'[p].from = DayBefore(overview'[p].to)
  BY <1>3, <1>5 DEF AtLeastOnce
<1> QED BY <1>2, <1>6, <1>7 DEF AtLeastOnce, Counted, DayBefore

\* The fetch counts at least what it asked for, and the rest of the day was there before.
LEMMA LeastFetched ==
  ASSUME ActivityTypeOK, AtLeastOnce, NEW o \in Overviews, Fetched(o)
  PROVE  AtLeastOnce'
<1> SUFFICES ASSUME ~shortened' PROVE AtLeastOnce'
  BY DEF AtLeastOnce
<1>1. PICK last \in (overview[o].from - 1)..overview[o].to :
        /\ Extended(o, last) \/ Scanned(o, last)
        /\ shortened' = (shortened \/ last < overview[o].to)
  BY DEF Fetched
<1>2. /\ overview[o].from \in Int /\ overview[o].to \in Int
      /\ overview[o].pc # "nothing" => overview[o].from <= overview[o].to
      /\ last = overview[o].to /\ ~shortened
  <2>1. ~shortened /\ ~(last < overview[o].to)
    BY <1>1, Zenon
  <2>2. /\ overview[o].from \in Int /\ overview[o].to \in Int
        /\ overview[o].pc # "nothing" => overview[o].from <= overview[o].to
    BY RequestOf
  <2>3. last = overview[o].to
    BY <2>1, <2>2
  <2> QED BY <2>1, <2>2, <2>3, Zenon
<1>3. overview' = [overview EXCEPT ![o] = Idle]
  BY DEF Fetched
<1>4. PICK e \in Entries :
        /\ \A x \in Entries \ {e} : entries'[x] = entries[x]
        /\ entries'[e].head = overview[o].to
        /\ \/ /\ Extends(o, e) /\ cache' = cache
              /\ entries'[e].stats = Merge(entries[e].stats, overview[o].from, last)
           \/ /\ overview[o].pc = "scanning" /\ cache' = e /\ e \notin Held
              /\ entries'[e].stats = Merge(NoEntry.stats, overview[o].from, last)
  BY <1>1, FetchedEntries
<1>5. Counted(entries'[e].stats, DayBefore(overview[o].to), overview[o].to)
  <2> SUFFICES ASSUME NEW h \in Heights, DayBefore(overview[o].to) <= h, h <= overview[o].to
      PROVE entries'[e].stats[h] >= 1
    BY DEF Counted
  <2>1. h \in Int
    BY Bounds
  <2>2. CASE /\ Extends(o, e)
             /\ entries'[e].stats = Merge(entries[e].stats, overview[o].from, last)
    <3>1. entries[e].stats \in [Heights -> Nat] /\ entries[e].stats[h] \in Nat
      BY EntryOf
    <3>2. /\ overview[o].from <= h /\ h <= last => entries'[e].stats[h] = entries[e].stats[h] + 1
          /\ entries'[e].stats[h] >= entries[e].stats[h]
          /\ ~(overview[o].from <= h /\ h <= last) => entries'[e].stats[h] = entries[e].stats[h]
      BY <1>2, <2>2, <3>1, MergeCounts
    <3>3. CASE overview[o].from <= h
      BY <1>2, <2>1, <3>1, <3>2, <3>3
    <3>4. CASE h < overview[o].from
      <4>1. overview[o].from - 1 \in Int /\ overview[o].from - 1 <= overview[o].to
        BY <1>2, <2>2 DEF Extends
      <4>2. /\ DayBefore(overview[o].from - 1) <= DayBefore(overview[o].to)
            /\ DayBefore(overview[o].from - 1) \in Int /\ DayBefore(overview[o].to) \in Int
        BY <1>2, <4>1, DayMonotonic
      <4>3. DayBefore(overview[o].from - 1) <= h /\ h <= overview[o].from - 1
        BY <1>2, <2>1, <3>4, <4>2
      <4>4. entries[e].stats[h] >= 1
        BY <1>2, <2>2, <4>3 DEF AtLeastOnce, Counted
      <4> QED BY <1>2, <2>1, <3>1, <3>2, <3>4, <4>4
    <3> QED BY <1>2, <2>1, <3>3, <3>4
  <2>3. CASE /\ overview[o].pc = "scanning"
             /\ entries'[e].stats = Merge(NoEntry.stats, overview[o].from, last)
    <3>1. overview[o].from <= h /\ h <= last
      BY <1>2, <2>3 DEF AtLeastOnce
    <3>2. entries'[e].stats[h] = 1
      BY <1>2, <2>3, <3>1, ScanCounts
    <3> QED BY <3>2
  <2> QED BY <1>4, <2>2, <2>3
<1>6. cache' # None =>
        Counted(entries'[cache'].stats, DayBefore(entries'[cache'].head), entries'[cache'].head)
  <2>1. CASE cache' = e
    BY <1>4, <1>5, <2>1
  <2>2. CASE cache' # e
    <3>1. cache' = cache
      BY <1>4, <2>2
    <3>2. cache # None => entries'[cache] = entries[cache]
      BY <1>4, <2>2, <3>1 DEF ActivityTypeOK
    <3> QED BY <1>2, <3>1, <3>2 DEF AtLeastOnce
  <2> QED BY <2>1, <2>2
<1>7. ASSUME NEW p \in Overviews, NEW x \in Entries, Extends(p, x)'
      PROVE  Counted(entries'[x].stats, DayBefore(overview'[p].from - 1), overview'[p].from - 1)
  <2>1. p # o /\ Extends(p, x) /\ overview'[p] = overview[p]
    BY <1>3, <1>7, OthersExtend
  <2>2. Counted(entries[x].stats, DayBefore(overview[p].from - 1), overview[p].from - 1)
    BY <1>2, <2>1 DEF AtLeastOnce
  <2>3. ASSUME NEW h \in Heights PROVE entries'[x].stats[h] >= entries[x].stats[h]
    <3>1. entries[x].stats \in [Heights -> Nat] /\ entries[x].stats[h] \in Nat
      BY EntryOf
    <3>2. CASE x # e
      BY <1>4, <3>1, <3>2
    <3>3. CASE x = e
      <4>1. entries'[e].stats = Merge(entries[e].stats, overview[o].from, last)
        BY <1>4, <2>1, <3>3, ExtendersHold
      <4> QED BY <1>2, <3>1, <3>3, <4>1, MergeCounts
    <3> QED BY <3>2, <3>3
  <2>4. \A h \in Heights : entries'[x].stats[h] \in Int /\ entries[x].stats[h] \in Int
    BY EntryOf, TypesFetched DEF ActivityTypeOK, EntryRecords
  <2> QED BY <2>1, <2>2, <2>3, <2>4 DEF Counted
<1>8. ASSUME NEW p \in Overviews, overview'[p].pc = "scanning"
      PROVE  overview'[p].from = DayBefore(overview'[p].to)
  <2>1. p # o /\ overview'[p] = overview[p]
    BY <1>3, <1>8, Defaults DEF ActivityTypeOK
  <2> QED BY <1>2, <1>8, <2>1 DEF AtLeastOnce
<1> QED BY <1>6, <1>7, <1>8 DEF AtLeastOnce, Counted, DayBefore

LEMMA LeastStep ==
  ActivityTypeOK /\ AtLeastOnce /\ [ActivityNext]_activityVars => AtLeastOnce'
<1> SUFFICES ASSUME ActivityTypeOK, AtLeastOnce, [ActivityNext]_activityVars PROVE AtLeastOnce'
  OBVIOUS
<1>1. ASSUME NEW o \in Overviews, BeginOverview(o) PROVE AtLeastOnce'
  BY <1>1, LeastBegin
<1>2. ASSUME NEW o \in Overviews, Fetched(o) PROVE AtLeastOnce'
  BY <1>2, LeastFetched
<1>3. ASSUME NEW o \in Overviews, FetchFailed(o) PROVE AtLeastOnce'
  <2>1. /\ overview' = [overview EXCEPT ![o] = Idle]
        /\ entries' = entries /\ cache' = cache /\ shortened' = shortened
    BY <1>3 DEF FetchFailed
  <2>2. \A p \in Overviews, e \in Entries :
          Extends(p, e)' => Extends(p, e) /\ overview'[p] = overview[p]
    BY <2>1, OthersExtend
  <2>3. \A p \in Overviews : overview'[p].pc = "scanning" => overview'[p] = overview[p]
    BY <2>1, Defaults DEF ActivityTypeOK
  <2> QED BY <2>1, <2>2, <2>3 DEF AtLeastOnce, Counted, DayBefore
<1>4. CASE BlockProduced
  BY <1>4 DEF BlockProduced, AtLeastOnce, Extends, Counted, DayBefore
<1>5. CASE Elapse
  <2>1. \A e \in Entries : entries'[e].stats = entries[e].stats /\ entries'[e].head = entries[e].head
    BY <1>5, AgedType DEF Elapse, ActivityTypeOK
  <2>2. overview' = overview /\ cache' = cache /\ shortened' = shortened
    BY <1>5 DEF Elapse
  <2> QED BY <2>1, <2>2 DEF AtLeastOnce, Extends, Counted, DayBefore, ActivityTypeOK
<1>6. CASE UNCHANGED activityVars
  BY <1>6 DEF activityVars, AtLeastOnce, Extends, Counted, DayBefore
<1> QED BY <1>1, <1>2, <1>3, <1>4, <1>5, <1>6 DEF ActivityNext

LEMMA LeastInit == ActivityInit => AtLeastOnce
BY Bounds DEF ActivityInit, AtLeastOnce, Extends, Idle

\* While the node answers in full, the cached counts have every block of the day that ends at
\* the height of the entry, however overviews overlap.
THEOREM WholeDayCounted == ActivitySpec => []DayCounted
<1>1. ActivityTypeOK /\ AtLeastOnce => DayCounted
  <2> SUFFICES ASSUME ActivityTypeOK, AtLeastOnce, cache # None, ~shortened,
                      NEW h \in DayBefore(entries[cache].head)..entries[cache].head
      PROVE entries[cache].stats[h] >= 1
    BY DEF DayCounted
  <2>1. entries[cache].head \in Heights \cup {0} /\ cache \in Entries
    BY EntryOf DEF ActivityTypeOK
  <2>2. h \in Heights
    BY <2>1, Bounds DEF DayBefore, Heights
  <2> QED BY <2>2 DEF AtLeastOnce, Counted
<1> QED BY <1>1, LeastInit, LeastStep, ActivityTypes, PTL DEF ActivitySpec

-----------------------------------------------------------------------------
\* Exactly once

\* The entries that are read again, from the cache or by the overview that extends them.
Runs ==
  ~overlapped /\ ~shortened =>
    /\ cache # None => Run(entries[cache])
    /\ \A o \in Overviews, e \in Entries : Extends(o, e) => Run(entries[e])

\* An extension lengthens a run, a scan makes one of exactly a day.
LEMMA RunFetched ==
  ASSUME ActivityTypeOK, AtMostOnce, AtLeastOnce, Runs, NEW o \in Overviews, Fetched(o),
         ~overlapped, ~shortened'
  PROVE  \E e \in Entries :
           /\ \A x \in Entries \ {e} : entries'[x] = entries[x]
           /\ Run(entries'[e])
           /\ cache' = cache \/ cache' = e
<1>1. PICK last \in (overview[o].from - 1)..overview[o].to :
        /\ Extended(o, last) \/ Scanned(o, last)
        /\ shortened' = (shortened \/ last < overview[o].to)
  BY DEF Fetched
<1>2. /\ overview[o].from \in Int /\ overview[o].to \in Heights /\ overview[o].to \in Int
      /\ overview[o].pc # "nothing" => overview[o].from <= overview[o].to
      /\ last = overview[o].to /\ ~shortened
  <2>1. ~shortened /\ ~(last < overview[o].to)
    BY <1>1, Zenon
  <2>2. /\ overview[o].from \in Int /\ overview[o].to \in Heights /\ overview[o].to \in Int
        /\ overview[o].pc # "nothing" => overview[o].from <= overview[o].to
    BY RequestOf
  <2>3. last = overview[o].to
    BY <2>1, <2>2
  <2> QED BY <2>1, <2>2, <2>3, Zenon
<1>3. PICK e \in Entries :
        /\ \A x \in Entries \ {e} : entries'[x] = entries[x]
        /\ entries'[e].head = overview[o].to
        /\ \/ /\ Extends(o, e) /\ cache' = cache
              /\ entries'[e].stats = Merge(entries[e].stats, overview[o].from, last)
           \/ /\ overview[o].pc = "scanning" /\ cache' = e /\ e \notin Held
              /\ entries'[e].stats = Merge(NoEntry.stats, overview[o].from, last)
  BY <1>1, FetchedEntries
<1>a. Heights \subseteq Int
  BY Bounds
<1>4. CASE /\ Extends(o, e)
           /\ entries'[e].stats = Merge(entries[e].stats, overview[o].from, last)
  <2>1. overview[o].from = entries[e].head + 1 /\ overview[o].from <= overview[o].to
    BY <1>2, <1>4 DEF AtMostOnce, Extends
  <2>2. entries[e].head \in Int /\ entries[e].stats \in [Heights -> Nat]
    BY EntryOf
  <2>3. PICK first \in Heights :
          /\ first <= DayBefore(entries[e].head)
          /\ \A h \in Heights :
               entries[e].stats[h] = IF first <= h /\ h <= entries[e].head THEN 1 ELSE 0
    BY <1>2, <1>4 DEF Runs, Run
  <2>4. first <= DayBefore(overview[o].to) /\ first <= overview[o].from
    <3>1. /\ DayBefore(entries[e].head) <= DayBefore(overview[o].to)
          /\ DayBefore(entries[e].head) \in Int /\ DayBefore(overview[o].to) \in Int
      BY <1>2, <2>1, <2>2, DayMonotonic
    <3>2. DayBefore(entries[e].head) <= entries[e].head + 1
      <4>1. entries[e].head \in Heights \cup {0}
        BY EntryOf
      <4> QED BY <4>1, <2>2, Bounds DEF DayBefore, Heights
    <3> QED BY <1>a, <1>2, <2>1, <2>2, <2>3, <3>1, <3>2
  <2>5. ASSUME NEW h \in Heights
        PROVE  entries'[e].stats[h] = IF first <= h /\ h <= overview[o].to THEN 1 ELSE 0
    <3>1. /\ overview[o].from <= h /\ h <= last => entries'[e].stats[h] = entries[e].stats[h] + 1
          /\ ~(overview[o].from <= h /\ h <= last) => entries'[e].stats[h] = entries[e].stats[h]
      BY <1>2, <1>4, <2>2, MergeCounts
    <3>2. h \in Int /\ first \in Int
      BY <1>a
    <3> QED BY <1>2, <2>1, <2>2, <2>3, <2>4, <3>1, <3>2
  <2>6. Run(entries'[e])
    BY <1>3, <2>4, <2>5 DEF Run
  <2>7. cache' = cache
    BY <1>3, <1>4 DEF Extends
  <2> QED BY <1>3, <2>6, <2>7
<1>5. CASE /\ overview[o].pc = "scanning" /\ cache' = e
           /\ entries'[e].stats = Merge(NoEntry.stats, overview[o].from, last)
  <2> DEFINE first == DayBefore(overview[o].to)
  <2>1. overview[o].from = first /\ first \in Heights
    BY <1>2, <1>5, DayBeginsAtAHeight DEF AtLeastOnce
  <2> HIDE DEF first
  <2>2. ASSUME NEW h \in Heights
        PROVE  entries'[e].stats[h] = IF first <= h /\ h <= overview[o].to THEN 1 ELSE 0
    BY <1>2, <1>5, <2>1, ScanCounts
  <2>3. first <= first
    BY <1>a, <2>1
  <2>4. Run(entries'[e])
    BY <1>3, <2>1, <2>2, <2>3 DEF Run, first
  <2> QED BY <1>3, <1>5, <2>4
<1> QED BY <1>3, <1>4, <1>5

LEMMA RunsFetched ==
  ASSUME ActivityTypeOK, AtMostOnce, AtLeastOnce, Runs, NEW o \in Overviews, Fetched(o)
  PROVE  Runs'
<1> SUFFICES ASSUME ~overlapped', ~shortened' PROVE Runs'
  BY DEF Runs
<1>1. ~overlapped /\ overview' = [overview EXCEPT ![o] = Idle]
  BY DEF Fetched
<1>2. ~shortened
  BY Zenon DEF Fetched
<1>3. PICK e \in Entries :
        /\ \A x \in Entries \ {e} : entries'[x] = entries[x]
        /\ Run(entries'[e])
        /\ cache' = cache \/ cache' = e
  BY <1>1, RunFetched
<1>4. cache' # None => Run(entries'[cache'])
  <2>1. CASE cache' = e
    BY <1>3, <2>1
  <2>2. CASE cache' # e /\ cache # None
    <3>1. cache' = cache /\ entries'[cache] = entries[cache]
      BY <1>3, <2>2 DEF ActivityTypeOK
    <3> QED BY <1>1, <1>2, <2>2, <3>1 DEF Runs
  <2> QED BY <1>3, <2>1, <2>2
<1>5. ASSUME NEW p \in Overviews, NEW x \in Entries, Extends(p, x)' PROVE Run(entries'[x])
  <2>1. Extends(p, x)
    BY <1>1, <1>5, OthersExtend
  <2>2. CASE x = e
    BY <1>3, <2>2
  <2>3. CASE x # e
    BY <1>1, <1>2, <1>3, <2>1, <2>3 DEF Runs
  <2> QED BY <2>2, <2>3
<1> QED BY <1>4, <1>5 DEF Runs, Run, DayBefore

LEMMA RunsBegin ==
  ASSUME ActivityTypeOK, Runs, NEW o \in Overviews, BeginOverview(o)
  PROVE  Runs'
<1>1. PICK h \in Heights : BeginExtension(o, h) \/ BeginScan(o, h)
  BY DEF BeginOverview
<1>2. entries' = entries /\ cache' = cache /\ shortened' = shortened
  BY DEF BeginOverview
<1>4. overlapped => overlapped'
  <2>1. CASE BeginExtension(o, h)
    BY <2>1, Zenon DEF BeginExtension
  <2>2. CASE BeginScan(o, h)
    BY <2>2, Zenon DEF BeginScan
  <2> QED BY <1>1, <2>1, <2>2
<1> SUFFICES ASSUME ~overlapped, ~shortened PROVE Runs'
  BY <1>2, <1>4, Zenon DEF Runs
<1>3. ASSUME NEW p \in Overviews, NEW e \in Entries, Extends(p, e)'
      PROVE  Run(entries[e])
  <2>1. CASE p # o
    <3>1. Extends(p, e)
      BY <1>1, <1>3, <2>1 DEF BeginExtension, BeginScan, Extends, ActivityTypeOK
    <3> QED BY <3>1 DEF Runs
  <2>2. CASE p = o
    <3>1. e = cache /\ cache # None
      BY <1>1, <1>3, <2>2 DEF BeginExtension, BeginScan, ExtendsCache, Extends, ActivityTypeOK
    <3> QED BY <3>1 DEF Runs
  <2> QED BY <2>1, <2>2
<1> QED BY <1>2, <1>3 DEF Runs, Run, DayBefore

LEMMA RunsStep ==
  ActivityTypeOK /\ AtMostOnce /\ AtLeastOnce /\ Runs /\ [ActivityNext]_activityVars => Runs'
<1> SUFFICES ASSUME ActivityTypeOK, AtMostOnce, AtLeastOnce, Runs, [ActivityNext]_activityVars
             PROVE  Runs'
  OBVIOUS
<1>1. ASSUME NEW o \in Overviews, BeginOverview(o) PROVE Runs'
  BY <1>1, RunsBegin
<1>2. ASSUME NEW o \in Overviews, Fetched(o) PROVE Runs'
  BY <1>2, RunsFetched
<1>3. ASSUME NEW o \in Overviews, FetchFailed(o) PROVE Runs'
  <2>1. /\ overview' = [overview EXCEPT ![o] = Idle] /\ entries' = entries /\ cache' = cache
        /\ shortened' = shortened /\ overlapped' = overlapped
    BY <1>3 DEF FetchFailed
  <2>2. \A p \in Overviews, e \in Entries : Extends(p, e)' => Extends(p, e)
    BY <2>1, OthersExtend
  <2> QED BY <2>1, <2>2 DEF Runs, Run, DayBefore
<1>4. CASE BlockProduced \/ UNCHANGED activityVars
  BY <1>4 DEF BlockProduced, activityVars, Runs, Run, DayBefore, Extends
<1>5. CASE Elapse
  <2>1. \A e \in Entries : entries'[e].stats = entries[e].stats /\ entries'[e].head = entries[e].head
    BY <1>5, AgedType DEF Elapse, ActivityTypeOK
  <2>2. overview' = overview /\ cache' = cache /\ shortened' = shortened /\ overlapped' = overlapped
    BY <1>5 DEF Elapse
  <2> QED BY <2>1, <2>2 DEF Runs, Run, DayBefore, Extends, ActivityTypeOK
<1> QED BY <1>1, <1>2, <1>3, <1>4, <1>5 DEF ActivityNext

\* Without overlaps and short answers the cached counts are those of one run of blocks: each once,
\* none above the height of the entry, none of its day left out, and none in between either.
THEOREM OneRunIsCounted == ActivitySpec => []RunCounted
<1>1. ActivityInit => Runs
  BY Bounds DEF ActivityInit, Runs, Extends, Idle
<1>2. Runs => RunCounted
  BY DEF Runs, RunCounted
<1> QED BY <1>1, <1>2, RunsStep, OnceInit, OnceStep, LeastInit, LeastStep, ActivityTypes, PTL
        DEF ActivitySpec
=============================================================================
