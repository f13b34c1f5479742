--------------------------- MODULE ProducerActivity ---------------------------
(***************************************************************************)
(* telenoNodeProducerOverview of electron/lib/producer-service.ts: the     *)
(* count of the blocks each producer made in the last day, and the cache   *)
(* of that count.                                                          *)
(*                                                                         *)
(* An overview reads the head of the chain and the cache in one step, may  *)
(* fetch blocks, and only then writes the cache; overviews of several tabs *)
(* and requests overlap.  Blocks are told apart by their height, not by    *)
(* their producer.  One network and one RPC URL, hence one cache key.      *)
(***************************************************************************)
EXTENDS Integers

CONSTANTS
  Overviews,  \* overviews that may be in flight at the same time
  Entries,    \* identities of cache entries
  None,
  Window,     \* blocksPerDay
  Fresh,      \* PRODUCER_ACTIVITY_FRESH_MS, in ticks of the clock
  Extend,     \* PRODUCER_ACTIVITY_EXTEND_MS, in ticks of the clock
  Lag,        \* how far one server of the RPC URL may be behind another
  MaxHead     \* bound: blocks of the chain

ASSUME ActivityBounds ==
  /\ Window \in Nat \ {0} /\ Fresh \in Nat /\ Extend \in Nat /\ Fresh < Extend
  /\ Lag \in Nat /\ MaxHead \in Nat \ {0}
ASSUME NoneIsNoEntry == None \notin Entries

Heights == 1..MaxHead

VARIABLES
  head,       \* height of the chain
  cache,      \* the entry producerActivityCache has, or None
  entries,    \* the entries, those a running overview still holds included
  overview,   \* what each overview is doing
  overlapped, \* history: two overviews have extended one entry at the same time
  shortened   \* history: the node has answered with fewer blocks than asked for

activityVars == <<head, cache, entries, overview, overlapped, shortened>>

\* stats: how often each block is counted; age: time since scannedAt.
EntryRecords ==
  [head : Heights \cup {0}, stats : [Heights -> Nat], age : 0..Extend]

Doing == {"nothing", "scanning", "extending"}

\* from, to: the blocks asked for.
Requests == [pc : Doing, entry : Entries \cup {None}, from : Heights, to : Heights]

ActivityTypeOK ==
  /\ head \in Heights
  /\ cache \in Entries \cup {None}
  /\ entries \in [Entries -> EntryRecords]
  /\ overview \in [Overviews -> Requests]
  /\ \A o \in Overviews :
       /\ overview[o].pc = "extending" <=> overview[o].entry # None
       /\ overview[o].pc # "nothing" => overview[o].from <= overview[o].to
  /\ overlapped \in BOOLEAN
  /\ shortened \in BOOLEAN

NoEntry == [head |-> 0, stats |-> [h \in Heights |-> 0], age |-> 0]

Idle == [pc |-> "nothing", entry |-> None, from |-> 1, to |-> 1]

Held == {cache} \cup {overview[o].entry : o \in Overviews}

\* startHeight: a day back, or the first block.
DayBefore(h) == IF h > Window THEN h - Window + 1 ELSE 1

-----------------------------------------------------------------------------
\* The cached counts answer.
AnswersFromCache(h) ==
  cache # None /\ entries[cache].age < Fresh /\ entries[cache].head <= h

\* The cached counts lack a few blocks.
ExtendsCache(h) ==
  /\ ~AnswersFromCache(h)
  /\ cache # None /\ entries[cache].age < Extend /\ entries[cache].head < h

\* One step from the head and the cache to the request for blocks.
BeginExtension(o, h) ==
  /\ ExtendsCache(h)
  /\ overview' = [overview EXCEPT ![o] = [pc |-> "extending", entry |-> cache,
                                          from |-> entries[cache].head + 1, to |-> h]]
  /\ overlapped' = (overlapped \/ \E p \in Overviews : overview[p].entry = cache)

BeginScan(o, h) ==
  /\ ~AnswersFromCache(h) /\ ~ExtendsCache(h)
  /\ overview' = [overview EXCEPT ![o] = [pc |-> "scanning", entry |-> None,
                                          from |-> DayBefore(h), to |-> h]]
  /\ UNCHANGED overlapped

\* Mutant: the entry reaches the new height before the fetch.
BeginOverviewEarly(o) ==
  /\ overview[o].pc = "nothing"
  /\ \E h \in Heights :
       /\ h <= head /\ head <= h + Lag
       /\ \/ /\ BeginExtension(o, h)
             /\ entries' = [entries EXCEPT ![cache] = [@ EXCEPT !.head = h]]
          \/ BeginScan(o, h) /\ UNCHANGED entries
  /\ UNCHANGED <<head, cache, shortened>>

\* An overview answered from the cache changes nothing.
BeginOverview(o) ==
  /\ overview[o].pc = "nothing"
  /\ \E h \in Heights :
       /\ h <= head /\ head <= h + Lag
       /\ BeginExtension(o, h) \/ BeginScan(o, h)
  /\ UNCHANGED <<head, cache, entries, shortened>>

\* mergeProducerActivityItems, of the blocks from..last.
Merge(stats, from, last) ==
  [h \in Heights |-> IF from <= h /\ h <= last THEN stats[h] + 1 ELSE stats[h]]

\* An entry with the blocks from..last counted as well, and the height it has now reached.
WithBlocks(entry, from, last, reached) ==
  [entry EXCEPT !.stats = Merge(entry.stats, from, last), !.head = reached, !.age = 0]

\* Mutant: the height the entry reaches is forgotten.
ExtendedNoHead(o, last) ==
  /\ overview[o].pc = "extending"
  /\ LET e == overview[o].entry IN
       entries' = [entries EXCEPT ![e] =
                     WithBlocks(entries[e], overview[o].from, last, entries[e].head)]
  /\ UNCHANGED cache

\* The entry that was read before the fetch is extended, whatever became of it meanwhile.
Extended(o, last) ==
  /\ overview[o].pc = "extending"
  /\ LET e == overview[o].entry IN
       entries' = [entries EXCEPT ![e] =
                     WithBlocks(entries[e], overview[o].from, last, overview[o].to)]
  /\ UNCHANGED cache

\* A scan makes a new entry.
Scanned(o, last) ==
  /\ overview[o].pc = "scanning"
  /\ Entries \ Held # {}  \* bound
  /\ LET e == CHOOSE e \in Entries : e \notin Held IN
       /\ cache' = e
       /\ entries' = [entries EXCEPT ![e] =
                        WithBlocks(NoEntry, overview[o].from, last, overview[o].to)]

\* fetchBlocksByHeightPaged answers with the blocks asked for or, when a page is short, with
\* the first of them.
Fetched(o) ==
  /\ overview[o].pc # "nothing"
  /\ \E last \in (overview[o].from - 1)..overview[o].to :
       /\ Extended(o, last) \/ Scanned(o, last)
       /\ shortened' = (shortened \/ last < overview[o].to)
  /\ overview' = [overview EXCEPT ![o] = Idle]
  /\ UNCHANGED <<head, overlapped>>

\* It throws: the overview answers without counts.
FetchFailed(o) ==
  /\ overview[o].pc # "nothing"
  /\ overview' = [overview EXCEPT ![o] = Idle]
  /\ UNCHANGED <<head, cache, entries, overlapped, shortened>>

BlockProduced ==
  /\ head < MaxHead
  /\ head' = head + 1
  /\ UNCHANGED <<cache, entries, overview, overlapped, shortened>>

Older(t) == IF t < Extend THEN t + 1 ELSE t

Aged(entry) == [entry EXCEPT !.age = Older(entry.age)]

\* Time passes for the entry of the cache; the age of the others is not read.
Elapse ==
  /\ cache # None
  /\ entries' = [entries EXCEPT ![cache] = Aged(entries[cache])]
  /\ UNCHANGED <<head, cache, overview, overlapped, shortened>>

ActivityInit ==
  /\ head = 1
  /\ cache = None
  /\ entries = [e \in Entries |-> NoEntry]
  /\ overview = [o \in Overviews |-> Idle]
  /\ overlapped = FALSE
  /\ shortened = FALSE

ActivityNext ==
  \/ \E o \in Overviews : BeginOverview(o) \/ Fetched(o) \/ FetchFailed(o)
  \/ BlockProduced
  \/ Elapse

ActivitySpec == ActivityInit /\ [][ActivityNext]_activityVars

-----------------------------------------------------------------------------
\* Properties

\* A block is counted twice only after two overviews have extended one entry at the same
\* time: whatever fails, is short, lags behind or replaces the entry meanwhile.
CountedOnce ==
  ~overlapped => \A e \in Entries, h \in Heights : entries[e].stats[h] <= 1

\* As long as the node answers in full, the cached counts have every block of the day that
\* ends at the height of the entry, however overviews overlap.
DayCounted ==
  cache # None /\ ~shortened =>
    \A h \in DayBefore(entries[cache].head)..entries[cache].head : entries[cache].stats[h] >= 1

\* What entry counts is one run of blocks up to its height, each once, that covers the day.
Run(entry) ==
  \E first \in Heights :
    /\ first <= DayBefore(entry.head)
    /\ \A h \in Heights : entry.stats[h] = IF first <= h /\ h <= entry.head THEN 1 ELSE 0

\* Without overlaps and short answers the cached counts are those of one run of blocks that covers
\* the day.  It may be longer than the day: an extension drops no block and renews scannedAt.
RunCounted == cache # None /\ ~overlapped /\ ~shortened => Run(entries[cache])

=============================================================================
