------------------------------- MODULE PageCache -------------------------------
(***************************************************************************)
(* The GPU side of the key-value store of archive/csrc/balance_serve/kvc2, *)
(* outside its gpu_only mode: threads that look up a prompt's pages and    *)
(* pin them in columns of GPU memory, evicting columns when none is free,  *)
(* share pages and their transfers through the entries of a cache, append  *)
(* the pages they computed and let go of them; and the background flush,   *)
(* which copies dirty columns back.  A handle has at most one page that is *)
(* matched and one to compute; CPU memory and disk are taken for granted.  *)
(***************************************************************************)
EXTENDS Naturals, Sequences, FiniteSets

CONSTANTS
  Clients,     \* threads that call lookup_to_gpu_async
  Keys,        \* hashes of page contents
  Stored,      \* the keys that are on disk at the start
  NumColumns,  \* total_kvcache_pages
  MaxEntries,  \* bound: the number of CacheBlockEntry objects made
  MaxLookups,  \* bound: the number of lookups
  None         \* nullptr, nullopt, or an open lock

Columns == 1..NumColumns
Entries == 1..MaxEntries

ASSUME ClientAssumption ==
  IsFiniteSet(Clients) /\ Clients \cap {"flush", "none", "has", None} = {}
ASSUME KeyAssumption ==
  Stored \subseteq Keys /\ None \notin Columns \cup Entries \cup Keys
ASSUME SizeAssumption == NumColumns \in Nat \ {0} /\ MaxEntries \in Nat /\ MaxLookups \in Nat

VARIABLES
  \* of each entry: its lock's holder, and its gpu_cc
  entry_lock, gpu_block_idx, ref_count, dirty,
  tc,             \* TransferControl: "none", "has", or the client that transfers
  key_entry_map,  \* of the CacheEntryManager
  tree,           \* the keys the prefix tree knows
  gpu_lock, occupations, num_free_pages,  \* of the GPUPageCache
  content,        \* the entry whose page a column holds
  pc, handle, matched, at,  \* of each client: its handle, and the page it is at
  scan,           \* the column evict_cols looks at
  pending,        \* the client's batch_promise is not set yet
  futs,           \* the clients whose promises the client waits for
  key,            \* the hash of the page the client appends
  flush_at, dirty_cols,  \* the background flush: its column, 0 when idle
  created, lookups

entryVars  == <<entry_lock, gpu_block_idx, ref_count, dirty, tc>>
columnVars == <<gpu_lock, occupations, num_free_pages>>
waitVars   == <<pending, futs>>
handleVars == <<handle, matched, key>>
flushVars  == <<flush_at, dirty_cols>>
boundVars  == <<created, lookups>>
vars == <<entryVars, key_entry_map, tree, columnVars, content, pc, handleVars, at, scan,
          waitVars, flushVars, boundVars>>

Init ==
  /\ entry_lock = [e \in Entries |-> None] /\ gpu_block_idx = [e \in Entries |-> None]
  /\ ref_count = [e \in Entries |-> 0] /\ dirty = [e \in Entries |-> FALSE]
  /\ tc = [e \in Entries |-> "none"]
  /\ key_entry_map = [k \in Keys |-> None] /\ tree = Stored
  /\ gpu_lock = None /\ occupations = [i \in Columns |-> None]
  /\ num_free_pages = NumColumns /\ content = [i \in Columns |-> None]
  /\ pc = [c \in Clients |-> "idle"] /\ handle = [c \in Clients |-> <<>>]
  /\ matched = [c \in Clients |-> 0] /\ key = [c \in Clients |-> None] /\ at = [c \in Clients |-> 1]
  /\ scan = [c \in Clients |-> 1]
  /\ pending = [c \in Clients |-> FALSE] /\ futs = [c \in Clients |-> {}]
  /\ flush_at = 0 /\ dirty_cols = {} /\ created = 0 /\ lookups = 0

Goto(c, label) == pc' = [pc EXCEPT ![c] = label]
Page(c) == handle[c][at[c]]
AtPage(c) == at[c] <= Len(handle[c])

-----------------------------------------------------------------------------
(* lookup: the tree says what is matched, get_handles finds or makes the   *)
(* entries.                                                                *)

\* Nothing matches: one page to compute.
LookUpNothing(c) ==
  /\ created' = created + 1
  /\ matched' = [matched EXCEPT ![c] = 0]
  /\ handle' = [handle EXCEPT ![c] = <<created + 1>>]
  /\ UNCHANGED key_entry_map

\* A page with key k matches, and `more' pages are to be computed.
LookUpMatch(c, k, more) ==
  LET fresh == IF key_entry_map[k] = None THEN 1 ELSE 0
      entry == IF key_entry_map[k] = None THEN created + 1 ELSE key_entry_map[k] IN
  /\ created' = created + fresh + more
  /\ matched' = [matched EXCEPT ![c] = 1]
  /\ handle' = [handle EXCEPT ![c] = IF more = 0 THEN <<entry>> ELSE <<entry, created'>>]
  /\ key_entry_map' = [key_entry_map EXCEPT ![k] = entry]

Lookup(c) ==
  /\ pc[c] = "idle" /\ lookups < MaxLookups
  /\ lookups' = lookups + 1
  /\ LookUpNothing(c) \/ \E k \in tree, more \in {0, 1} : LookUpMatch(c, k, more)
  /\ created' <= MaxEntries
  /\ at' = [at EXCEPT ![c] = 1]
  /\ Goto(c, "pin")
  /\ UNCHANGED <<entryVars, tree, columnVars, content, key, scan, waitVars, flushVars>>

-----------------------------------------------------------------------------
(* alloc_on_gpu_cols: page by page, with the entry's lock held.            *)

Pinned(c) == /\ ref_count' = [ref_count EXCEPT ![Page(c)] = @ + 1]
             /\ at' = [at EXCEPT ![c] = @ + 1]
             /\ Goto(c, "pin")

\* The page has a column already.
PinPage(c) ==
  /\ pc[c] = "pin" /\ AtPage(c) /\ entry_lock[Page(c)] = None
  /\ gpu_block_idx[Page(c)] # None
  /\ Pinned(c)
  /\ UNCHANGED <<entry_lock, gpu_block_idx, dirty, tc, key_entry_map, tree, columnVars, content,
                 handleVars, scan, waitVars, flushVars, boundVars>>

\* It needs one: the lock is kept on the way to the cache's own.
LockPage(c) ==
  /\ pc[c] = "pin" /\ AtPage(c) /\ entry_lock[Page(c)] = None
  /\ gpu_block_idx[Page(c)] = None
  /\ entry_lock' = [entry_lock EXCEPT ![Page(c)] = c]
  /\ Goto(c, "column")
  /\ UNCHANGED <<gpu_block_idx, ref_count, dirty, tc, key_entry_map, tree, columnVars, content,
                 handleVars, at, scan, waitVars, flushVars, boundVars>>

LockCache(c) ==
  /\ pc[c] = "column" /\ gpu_lock = None
  /\ gpu_lock' = c
  /\ scan' = [scan EXCEPT ![c] = 1]
  /\ Goto(c, IF num_free_pages = 0 THEN "evict" ELSE "take")
  /\ UNCHANGED <<entryVars, key_entry_map, tree, occupations, num_free_pages, content, handleVars, at, waitVars, flushVars, boundVars>>

\* Mutated: a dirty page may go as well.
can_desert_dirty(e) == ref_count[e] = 0

can_desert(e) == ref_count[e] = 0 /\ ~dirty[e]

\* evict_cols: with the cache's lock held, the lock of each occupant in turn.  The
\* entry keeps its gpu_block_idx.
EvictColumn(c) ==
  /\ pc[c] = "evict" /\ scan[c] <= NumColumns
  /\ scan' = [scan EXCEPT ![c] = @ + 1]
  /\ LET h == occupations[scan[c]] IN
     IF h = None THEN UNCHANGED <<tc, occupations, num_free_pages>>
     ELSE /\ entry_lock[h] = None
          /\ IF can_desert(h)
             THEN /\ tc' = [tc EXCEPT ![h] = "none"]
                  /\ occupations' = [occupations EXCEPT ![scan[c]] = None]
                  /\ num_free_pages' = num_free_pages + 1
             ELSE UNCHANGED <<tc, occupations, num_free_pages>>
  /\ UNCHANGED <<entry_lock, gpu_block_idx, ref_count, dirty, key_entry_map, tree, gpu_lock,
                 content, pc, handleVars, at, waitVars, flushVars, boundVars>>

Evicted(c) ==
  /\ pc[c] = "evict" /\ scan[c] > NumColumns /\ num_free_pages > 0
  /\ Goto(c, "take")
  /\ UNCHANGED <<entryVars, key_entry_map, tree, columnVars, content, handleVars, at, scan,
                 waitVars, flushVars, boundVars>>

\* next_empty_col found one, wherever _col_idx stood.
TakeColumn(c) ==
  /\ pc[c] = "take"
  /\ \E i \in Columns :
       /\ occupations[i] = None
       /\ occupations' = [occupations EXCEPT ![i] = Page(c)]
       /\ gpu_block_idx' = [gpu_block_idx EXCEPT ![Page(c)] = i]
  /\ num_free_pages' = num_free_pages - 1
  /\ gpu_lock' = None
  /\ entry_lock' = [entry_lock EXCEPT ![Page(c)] = None]
  /\ Pinned(c)
  /\ UNCHANGED <<dirty, tc, key_entry_map, tree, content, handleVars, scan, waitVars,
                 flushVars, boundVars>>

\* Mutated: the page that found no column is let go of with those that did.
NoColumnPinned(c) ==
  /\ pc[c] = "evict" /\ scan[c] > NumColumns /\ num_free_pages = 0
  /\ gpu_lock' = None
  /\ entry_lock' = [entry_lock EXCEPT ![Page(c)] = None]
  /\ handle' = [handle EXCEPT ![c] = SubSeq(@, 1, at[c])]
  /\ at' = [at EXCEPT ![c] = 1]
  /\ Goto(c, "release")
  /\ UNCHANGED <<gpu_block_idx, ref_count, dirty, tc, key_entry_map, tree, occupations,
                 num_free_pages, content, matched, key, scan, waitVars, flushVars, boundVars>>

\* No column: the pages pinned so far are let go, and the answer is nullptr.
NoColumn(c) ==
  /\ pc[c] = "evict" /\ scan[c] > NumColumns /\ num_free_pages = 0
  /\ gpu_lock' = None
  /\ entry_lock' = [entry_lock EXCEPT ![Page(c)] = None]
  /\ handle' = [handle EXCEPT ![c] = SubSeq(@, 1, at[c] - 1)]
  /\ at' = [at EXCEPT ![c] = 1]
  /\ Goto(c, "release")
  /\ UNCHANGED <<gpu_block_idx, ref_count, dirty, tc, key_entry_map, tree, occupations,
                 num_free_pages, content, matched, key, scan, waitVars, flushVars, boundVars>>

-----------------------------------------------------------------------------
(* to_gpu_async: what is matched is transferred, once for all who want it. *)

ToGpu(c) ==
  /\ pc[c] = "pin" /\ ~AtPage(c)
  /\ at' = [at EXCEPT ![c] = 1]
  /\ pending' = [pending EXCEPT ![c] = matched[c] > 0]
  /\ Goto(c, IF matched[c] > 0 THEN "absorb" ELSE "ready")
  /\ UNCHANGED <<entryVars, key_entry_map, tree, columnVars, content, handleVars, scan,
                 futs, flushVars, boundVars>>

\* Mutated: a transfer that somebody else began counts as done.
AbsorbHasty(c) ==
  /\ pc[c] = "absorb"
  /\ tc' = IF tc[Page(c)] = "none" THEN [tc EXCEPT ![Page(c)] = c] ELSE tc
  /\ futs' = [futs EXCEPT ![c] = {}]
  /\ Goto(c, "transfer")
  /\ UNCHANGED <<entry_lock, gpu_block_idx, ref_count, dirty, key_entry_map, tree, columnVars,
                 content, handleVars, at, scan, pending, flushVars, boundVars>>

\* absorb_tc: has it, waits for the one who transfers it, or will transfer it.
Absorb(c) ==
  /\ pc[c] = "absorb"
  /\ tc' = IF tc[Page(c)] = "none" THEN [tc EXCEPT ![Page(c)] = c] ELSE tc
  /\ futs' = [futs EXCEPT ![c] = {d \in Clients \ {c} : tc[Page(c)] = d /\ pending[d]}]
  /\ Goto(c, "transfer")
  /\ UNCHANGED <<entry_lock, gpu_block_idx, ref_count, dirty, key_entry_map, tree, columnVars,
                 content, handleVars, at, scan, pending, flushVars, boundVars>>

\* The device is done with the client's own copies and sets the promise.
TransferDone(c) ==
  /\ pc[c] = "transfer" /\ pending[c]
  /\ pending' = [pending EXCEPT ![c] = FALSE]
  /\ futs' = [d \in Clients |-> futs[d] \ {c}]
  /\ content' = [i \in Columns |-> IF tc[Page(c)] = c /\ gpu_block_idx[Page(c)] = i
                                   THEN Page(c) ELSE content[i]]
  /\ UNCHANGED <<entryVars, key_entry_map, tree, columnVars, pc, handleVars, at, scan,
                 flushVars, boundVars>>

\* IO_Helper::wait returns, set_has_data for one's own pages, and the callback.
Transferred(c) ==
  /\ pc[c] = "transfer" /\ ~pending[c] /\ futs[c] = {}
  /\ tc' = IF tc[Page(c)] = c THEN [tc EXCEPT ![Page(c)] = "has"] ELSE tc
  /\ Goto(c, "ready")
  /\ UNCHANGED <<entry_lock, gpu_block_idx, ref_count, dirty, key_entry_map, tree, columnVars,
                 content, handleVars, at, scan, waitVars, flushVars, boundVars>>

-----------------------------------------------------------------------------
(* append_tokens: the page the model computed becomes one that others can  *)
(* match, in the tree first and in the entry map later.                    *)

AppendToTree(c) ==
  /\ pc[c] = "ready" /\ matched[c] < Len(handle[c])
  /\ \E k \in Keys : tree' = tree \cup {k} /\ key' = [key EXCEPT ![c] = k]
  /\ Goto(c, "append")
  /\ at' = [at EXCEPT ![c] = matched[c] + 1]
  /\ content' = [content EXCEPT ![gpu_block_idx[handle[c][at'[c]]]] = handle[c][at'[c]]]
  /\ UNCHANGED <<entryVars, key_entry_map, columnVars, handle, matched, scan, waitVars,
                 flushVars, boundVars>>

\* set_key leaves the map alone when the key is there already; the page is dirty.
AppendPage(c) ==
  /\ pc[c] = "append" /\ entry_lock[Page(c)] = None
  /\ key_entry_map' = [key_entry_map EXCEPT ![key[c]] = IF @ = None THEN Page(c) ELSE @]
  /\ tc' = [tc EXCEPT ![Page(c)] = "has"]
  /\ dirty' = [dirty EXCEPT ![Page(c)] = TRUE]
  /\ matched' = [matched EXCEPT ![c] = @ + 1]
  /\ key' = [key EXCEPT ![c] = None]
  /\ Goto(c, "ready")
  /\ UNCHANGED <<entry_lock, gpu_block_idx, ref_count, tree, columnVars, content, handle, at,
                 scan, waitVars, flushVars, boundVars>>

-----------------------------------------------------------------------------
(* The handle goes: gpu_releaser lets go of each page under its lock.      *)

Release(c) ==
  /\ pc[c] = "ready"
  /\ at' = [at EXCEPT ![c] = 1]
  /\ Goto(c, "release")
  /\ UNCHANGED <<entryVars, key_entry_map, tree, columnVars, content, handleVars, scan,
                 waitVars, flushVars, boundVars>>

ReleasePage(c) ==
  /\ pc[c] = "release" /\ AtPage(c) /\ entry_lock[Page(c)] = None
  /\ ref_count' = [ref_count EXCEPT ![Page(c)] = @ - 1]
  /\ at' = [at EXCEPT ![c] = @ + 1]
  /\ UNCHANGED <<entry_lock, gpu_block_idx, dirty, tc, key_entry_map, tree, columnVars, content,
                 pc, handleVars, scan, waitVars, flushVars, boundVars>>

Released(c) ==
  /\ pc[c] = "release" /\ ~AtPage(c)
  /\ Goto(c, "idle")
  /\ handle' = [handle EXCEPT ![c] = <<>>]
  /\ matched' = [matched EXCEPT ![c] = 0]
  /\ UNCHANGED <<entryVars, key_entry_map, tree, columnVars, content, key, at, scan, waitVars,
                 flushVars, boundVars>>

-----------------------------------------------------------------------------
(* gpu_background_flush: periodic, and woken by a lookup that does not     *)
(* wait for it (the future of wakeUpWait is dropped).                      *)

FlushStart ==
  /\ flush_at = 0
  /\ flush_at' = 1
  /\ UNCHANGED <<entryVars, key_entry_map, tree, columnVars, content, pc, handleVars, at,
                 scan, waitVars, dirty_cols, boundVars>>

\* The cache's lock is taken for each column anew; the locks of the dirty entries
\* are kept until the end.  The flags of the CPU copy, which this flush alone
\* raises, never hold it back: an entry gets dirty on the GPU once.
FlushColumn ==
  /\ flush_at \in Columns /\ gpu_lock = None
  /\ flush_at' = flush_at + 1
  /\ LET e == occupations[flush_at] IN
     IF e # None /\ entry_lock[e] = None /\ dirty[e]
     THEN /\ entry_lock' = [entry_lock EXCEPT ![e] = "flush"]
          /\ dirty_cols' = dirty_cols \cup {flush_at}
     ELSE UNCHANGED <<entry_lock, dirty_cols>>
  /\ UNCHANGED <<gpu_block_idx, ref_count, dirty, tc, key_entry_map, tree, columnVars, content,
                 pc, handleVars, at, scan, waitVars, boundVars>>

\* The copies are done: the columns are clean and their entries unlocked.
FlushDone ==
  /\ flush_at > NumColumns
  /\ flush_at' = 0 /\ dirty_cols' = {}
  /\ LET flushed == {occupations[i] : i \in dirty_cols} IN
     /\ dirty' = [e \in Entries |-> dirty[e] /\ e \notin flushed]
     /\ entry_lock' = [e \in Entries |-> IF entry_lock[e] = "flush" THEN None
                                         ELSE entry_lock[e]]
  /\ UNCHANGED <<gpu_block_idx, ref_count, tc, key_entry_map, tree, columnVars, content, pc,
                 handleVars, at, scan, waitVars, boundVars>>

Flush == FlushStart \/ FlushColumn \/ FlushDone

Client(c) ==
  \/ Lookup(c) \/ PinPage(c) \/ LockPage(c) \/ LockCache(c) \/ EvictColumn(c) \/ Evicted(c)
  \/ TakeColumn(c) \/ NoColumn(c) \/ ToGpu(c) \/ Absorb(c) \/ TransferDone(c) \/ Transferred(c)
  \/ AppendToTree(c) \/ AppendPage(c) \/ Release(c) \/ ReleasePage(c) \/ Released(c)

Next == Flush \/ \E c \in Clients : Client(c)

Spec == Init /\ [][Next]_vars

-----------------------------------------------------------------------------

(* Every variable stays in the range its C++ type gives it.                *)
TypeOK ==
  /\ entry_lock \in [Entries -> Clients \cup {"flush", None}]
  /\ gpu_block_idx \in [Entries -> Columns \cup {None}]
  /\ ref_count \in [Entries -> Nat] /\ dirty \in [Entries -> BOOLEAN]
  /\ tc \in [Entries -> Clients \cup {"none", "has"}]
  /\ key_entry_map \in [Keys -> Entries \cup {None}] /\ tree \in SUBSET Keys
  /\ gpu_lock \in Clients \cup {None}
  /\ occupations \in [Columns -> Entries \cup {None}] /\ num_free_pages \in 0..NumColumns
  /\ content \in [Columns -> Entries \cup {None}]
  /\ pc \in [Clients -> {"idle", "pin", "column", "evict", "take", "absorb", "transfer",
                             "ready", "append", "release"}]
  /\ handle \in [Clients -> Seq(Entries)]
  /\ key \in [Clients -> Keys \cup {None}]
  /\ matched \in [Clients -> Nat] /\ at \in [Clients -> Nat] /\ scan \in [Clients -> Nat]
  /\ pending \in [Clients -> BOOLEAN] /\ futs \in [Clients -> SUBSET Clients]
  /\ flush_at \in 0..(NumColumns + 1) /\ dirty_cols \in SUBSET Columns
  /\ created \in 0..MaxEntries /\ lookups \in 0..MaxLookups

(* The books of the columns balance: an occupant knows its column, the     *)
(* free columns are counted right, so that next_empty_col never spins over *)
(* none, and a page keeps its column while it is dirty: eviction, flush    *)
(* and append between them never lose one that was not copied back.        *)
ColumnsAccounted ==
  /\ \A i \in Columns : occupations[i] # None => gpu_block_idx[occupations[i]] = i
  /\ num_free_pages = Cardinality({i \in Columns : occupations[i] = None})
  /\ \A c \in Clients : pc[c] = "take" => \E i \in Columns : occupations[i] = None
  /\ \A e \in Entries : dirty[e] => gpu_block_idx[e] # None /\ occupations[gpu_block_idx[e]] = e

(* A lookup calls back only when its matched pages are on the device,      *)
(* whoever transferred them, and they stay marked so while it holds them.  *)
TransferAwaited ==
  \A c \in Clients : pc[c] \in {"ready", "append"} =>
    \A i \in 1..matched[c] : \/ tc[handle[c][i]] = "has"
                             \/ \E d \in Clients : tc[handle[c][i]] = d /\ ~pending[d]

(* "kvc2_handle, holds kvcache until being released": the columns a handle *)
(* names for its matched and appended pages hold those pages.              *)
HandleHolds ==
  \A c \in Clients : pc[c] = "ready" =>
    \A i \in 1..matched[c] : content[gpu_block_idx[handle[c][i]]] = handle[c][i]
=============================================================================
