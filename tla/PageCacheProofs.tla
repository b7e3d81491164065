---------------------------- MODULE PageCacheProofs ----------------------------
(***************************************************************************)
(* Proofs about PageCache, for any finite set of clients, any keys and any *)
(* number of columns and entries.                                          *)
(*                                                                         *)
(* The argument: the reference count of an entry is the number of clients  *)
(* whose handles have pinned it, so that an entry that somebody pinned is  *)
(* never evicted.  A page that a client is yet to compute belongs to that  *)
(* client alone until it is appended: it has no column before it is pinned *)
(* and is the occupant of its column from then on, so that appending marks *)
(* dirty only what can be flushed from where it is.  A thread that goes    *)
(* for a column holds the lock of a page without one, and no other thread  *)
(* can give that page a column meanwhile.                                  *)
(***************************************************************************)
EXTENDS PageCache, FiniteSetTheorems, TLAPS

\* The i-th page of a client's handle is pinned.
Holds(c, i) ==
  /\ i \in 1..Len(handle[c])
  /\ pc[c] \in {"pin", "column", "evict", "take"} => i < at[c]
  /\ pc[c] = "release" => i >= at[c]

\* The client has pinned the entry.
Has(c, e) == \E i \in 1..Len(handle[c]) : Holds(c, i) /\ handle[c][i] = e
Holders(e) == {c \in Clients : Has(c, e)}

Free(occ) == {i \in Columns : occ[i] = None}

\* A client has a page that it is yet to compute and to append.
HasFresh(c) == matched[c] < Len(handle[c])
Fresh(c) == handle[c][matched[c] + 1]

\* A client's own variables fit together.
ClientShape(c) ==
  /\ Len(handle[c]) <= 2 /\ scan[c] >= 1 /\ at[c] >= 1
  /\ Len(handle[c]) = 2 => handle[c][1] # handle[c][2]
  /\ pc[c] = "idle" => Len(handle[c]) = 0
  /\ pc[c] # "idle" => at[c] <= Len(handle[c]) + 1
  /\ pc[c] \notin {"idle", "release"} => matched[c] <= Len(handle[c]) /\ Len(handle[c]) <= matched[c] + 1
  /\ pc[c] \in {"pin", "column", "evict", "take"} => matched[c] <= 1
  /\ pc[c] \in {"absorb", "transfer"} => at[c] = 1 /\ matched[c] = 1
  /\ pc[c] = "append" => at[c] = matched[c] + 1 /\ HasFresh(c)
  /\ pc[c] \in {"column", "evict", "take"} => AtPage(c)
Shape == \A c \in Clients : ClientShape(c)

\* Who goes for a column holds the lock of a page that has none.
ClientLocks(c) ==
  /\ pc[c] \in {"column", "evict", "take"} =>
       entry_lock[Page(c)] = c /\ gpu_block_idx[Page(c)] = None
  /\ pc[c] \in {"evict", "take"} => gpu_lock = c
  /\ pc[c] = "take" => num_free_pages > 0
Locks == \A c \in Clients : ClientLocks(c)

Books ==
  /\ \A i \in Columns : occupations[i] # None => gpu_block_idx[occupations[i]] = i
  /\ num_free_pages = Cardinality(Free(occupations))
  /\ \A e \in Entries : dirty[e] => gpu_block_idx[e] # None /\ occupations[gpu_block_idx[e]] = e

References == \A e \in Entries : ref_count[e] = Cardinality(Holders(e))

\* Entries are made in the order of their numbers.
Known ==
  /\ \A k \in Keys : key_entry_map[k] # None => key_entry_map[k] <= created
  /\ \A c \in Clients : \A i \in 1..Len(handle[c]) : handle[c][i] <= created
  /\ \A e \in Entries : e > created => gpu_block_idx[e] = None

\* A page to compute is its client's own.
FreshOwned ==
  \A c \in Clients : HasFresh(c) =>
    /\ \A d \in Clients \ {c} : \A i \in 1..Len(handle[d]) : handle[d][i] # Fresh(c)
    /\ \A k \in Keys : key_entry_map[k] # Fresh(c)

\* It is placed once it is pinned, and has no column before.
ClientPlaced(c) ==
  HasFresh(c) =>
    /\ Holds(c, matched[c] + 1) =>
         gpu_block_idx[Fresh(c)] # None /\ occupations[gpu_block_idx[Fresh(c)]] = Fresh(c)
    /\ pc[c] \in {"pin", "column", "evict", "take"} /\ at[c] <= matched[c] + 1 =>
         gpu_block_idx[Fresh(c)] = None
FreshPlaced == \A c \in Clients : ClientPlaced(c)

\* Who has begun a transfer is at it, who wants one done waits for it, and who
\* was called back has it.
ClientTransfers(c) ==
  /\ \A e \in Entries : tc[e] = c => pc[c] = "transfer" /\ handle[c][1] = e
  /\ pc[c] = "transfer" =>
       \/ tc[handle[c][1]] \in {"has", c}
       \/ \E d \in Clients : tc[handle[c][1]] = d /\ (pending[d] => d \in futs[c])
  /\ pc[c] \in {"ready", "append"} => \A i \in 1..matched[c] :
       \/ tc[handle[c][i]] = "has"
       \/ \E d \in Clients : tc[handle[c][i]] = d /\ ~pending[d]
Transfers == \A c \in Clients : ClientTransfers(c)

IInv ==
  /\ TypeOK /\ Shape /\ Locks /\ Books /\ References /\ Known /\ FreshOwned /\ FreshPlaced
  /\ Transfers

-----------------------------------------------------------------------------
(* What a lookup hands out: a matched page that is in the entry map or     *)
(* new, and a page to compute that is new.                                 *)

NewHandle(c) ==
  /\ created' \in Nat /\ created <= created' /\ created' <= MaxEntries
  /\ matched'[c] \in {0, 1} /\ Len(handle'[c]) \in {1, 2}
  /\ handle'[c] \in Seq(Entries)
  /\ matched'[c] <= Len(handle'[c]) /\ Len(handle'[c]) <= matched'[c] + 1
  /\ \A i \in 1..Len(handle'[c]) : handle'[c][i] <= created'
  /\ matched'[c] < Len(handle'[c]) => handle'[c][matched'[c] + 1] > created
  /\ Len(handle'[c]) = 2 => handle'[c][1] # handle'[c][2]
  /\ matched'[c] = 1 => \/ handle'[c][1] > created
                        \/ \E k \in Keys : handle'[c][1] = key_entry_map[k]
  /\ \A k \in Keys :
       \/ key_entry_map'[k] = key_entry_map[k]
       \/ /\ key_entry_map'[k] \in Entries /\ key_entry_map'[k] <= created'
          /\ key_entry_map'[k] > created
          /\ matched'[c] < Len(handle'[c]) => key_entry_map'[k] # handle'[c][matched'[c] + 1]

LEMMA LookupHandle ==
  ASSUME IInv, NEW c \in Clients, Lookup(c)
  PROVE  /\ NewHandle(c)
         /\ \A d \in Clients \ {c} : handle'[d] = handle[d] /\ matched'[d] = matched[d]
<1> USE SizeAssumption, KeyAssumption DEF Entries
<1>1. /\ created \in Nat /\ created <= MaxEntries /\ tree \subseteq Keys
      /\ handle \in [Clients -> Seq(Entries)] /\ matched \in [Clients -> Nat]
      /\ key_entry_map \in [Keys -> Entries \cup {None}]
      /\ \A k \in Keys : key_entry_map[k] # None => key_entry_map[k] <= created
      /\ None \notin Entries
  BY DEF IInv, TypeOK, Known
<1>2. created' <= MaxEntries
  BY DEF Lookup
<1>3. CASE LookUpNothing(c)
  BY <1>1, <1>2, <1>3 DEF LookUpNothing, NewHandle
<1>4. ASSUME NEW k \in tree, NEW more \in {0, 1}, LookUpMatch(c, k, more)
      PROVE  /\ NewHandle(c)
             /\ \A d \in Clients \ {c} : handle'[d] = handle[d] /\ matched'[d] = matched[d]
  <2>1. k \in Keys /\ more \in {0, 1} /\ key_entry_map[k] \in Entries \cup {None}
    BY <1>1, <1>4
  <2>2. PICK entry \in Entries :
          /\ handle' = [handle EXCEPT ![c] = IF more = 0 THEN <<entry>> ELSE <<entry, created'>>]
          /\ key_entry_map' = [key_entry_map EXCEPT ![k] = entry]
          /\ \/ entry = key_entry_map[k] /\ entry <= created /\ created' = created + more
             \/ entry = created + 1 /\ created' = created + 1 + more
    <3>1. CASE key_entry_map[k] = None
      <4>1. created' = created + 1 + more
        BY <1>4, <3>1 DEF LookUpMatch
      <4>2. created + 1 \in Entries
        BY <1>1, <1>2, <2>1, <4>1
      <4>3. /\ handle' = [handle EXCEPT ![c] = IF more = 0 THEN <<created + 1>> ELSE <<created + 1, created'>>]
            /\ key_entry_map' = [key_entry_map EXCEPT ![k] = created + 1]
        BY <1>4, <3>1 DEF LookUpMatch
      <4> QED
        BY <4>1, <4>2, <4>3
    <3>2. CASE key_entry_map[k] # None
      <4>1. created' = created + 0 + more
        BY <1>4, <3>2 DEF LookUpMatch
      <4>2. key_entry_map[k] \in Entries /\ key_entry_map[k] <= created /\ created' = created + more
        BY <1>1, <2>1, <3>2, <4>1
      <4>3. /\ handle' = [handle EXCEPT ![c] = IF more = 0 THEN <<key_entry_map[k]>> ELSE <<key_entry_map[k], created'>>]
            /\ key_entry_map' = [key_entry_map EXCEPT ![k] = key_entry_map[k]]
        BY <1>4, <3>2 DEF LookUpMatch
      <4> QED
        BY <4>2, <4>3
    <3> QED
      BY <3>1, <3>2
  <2>3. \A d \in Clients \ {c} : handle'[d] = handle[d] /\ matched'[d] = matched[d]
    BY <1>1, <1>4, <2>2 DEF LookUpMatch
  <2>4. matched'[c] = 1
    BY <1>1, <1>4 DEF LookUpMatch
  <2>5. \/ entry > created /\ key_entry_map'[k] = entry
        \/ entry = key_entry_map[k] /\ key_entry_map'[k] = key_entry_map[k]
    BY <1>1, <2>1, <2>2
  <2>6. \A x \in Keys \ {k} : key_entry_map'[x] = key_entry_map[x]
    BY <1>1, <2>2
  <2>7. CASE more = 0
    <3>1. handle'[c] = <<entry>>
      BY <1>1, <2>2, <2>7
    <3>2. Len(handle'[c]) = 1 /\ handle'[c][1] = entry /\ handle'[c] \in Seq(Entries)
      BY <3>1
    <3>3. entry <= created' /\ created' \in Nat /\ created <= created'
      BY <1>1, <2>2, <2>7
    <3> QED
      BY SMTT(30), <1>1, <1>2, <2>1, <2>3, <2>4, <2>5, <2>6, <3>2, <3>3 DEF NewHandle
  <2>8. CASE more = 1
    <3>1. handle'[c] = <<entry, created'>>
      BY <1>1, <2>2, <2>8
    <3>2. /\ entry < created' /\ created' \in Nat /\ created < created'
          /\ created' \in Entries
      BY <1>1, <1>2, <2>2, <2>8
    <3>3. /\ Len(handle'[c]) = 2 /\ handle'[c][1] = entry /\ handle'[c][2] = created'
          /\ handle'[c] \in Seq(Entries)
      BY <3>1, <3>2
    <3> QED
      BY SMTT(30), <1>1, <1>2, <2>1, <2>3, <2>4, <2>5, <2>6, <3>2, <3>3 DEF NewHandle
  <2> QED
    BY <2>1, <2>7, <2>8
<1> QED
  BY <1>3, <1>4 DEF Lookup

-----------------------------------------------------------------------------
(* Where a client is at a page of its handle, and what it holds there.     *)

LEMMA AtAPage ==
  ASSUME TypeOK, Shape, NEW c \in Clients,
         pc[c] \in {"column", "evict", "take", "absorb", "transfer", "append"} \/ AtPage(c)
  PROVE  /\ at[c] \in 1..Len(handle[c]) /\ Page(c) \in Entries
         /\ Len(handle[c]) \in {1, 2} /\ at[c] \in {1, 2} /\ handle[c] \in Seq(Entries)
<1>1. /\ handle[c] \in Seq(Entries) /\ at[c] \in Nat /\ matched[c] \in Nat /\ Len(handle[c]) \in Nat
      /\ ClientShape(c) /\ Len(handle[c]) <= 2
  BY DEF TypeOK, Shape, ClientShape
<1>2. at[c] \in 1..Len(handle[c])
  BY <1>1 DEF ClientShape, AtPage, HasFresh
<1>3. Len(handle[c]) \in {1, 2} /\ at[c] \in {1, 2}
  <2>1. \A n, m \in Nat : m \in 1..n /\ n <= 2 => n \in {1, 2} /\ m \in {1, 2}
    OBVIOUS
  <2> QED
    BY <1>1, <1>2, <2>1
<1>4. handle[c][at[c]] \in Entries
  BY <1>1, <1>2
<1> QED
  BY <1>1, <1>2, <1>3, <1>4 DEF Page

\* Every page of a handle is an entry.
LEMMA HandlePages ==
  ASSUME TypeOK, NEW c \in Clients
  PROVE  /\ handle[c] \in Seq(Entries) /\ Len(handle[c]) \in Nat
         /\ \A i \in 1..Len(handle[c]) : handle[c][i] \in Entries
<1>1. handle[c] \in Seq(Entries)
  BY DEF TypeOK
<1> QED
  BY <1>1

\* A lookup that found no column keeps the first pages of its handle.
LEMMA Shortened ==
  ASSUME TypeOK, Shape, NEW c \in Clients, NoColumn(c), NEW d \in Clients
  PROVE  /\ Len(handle'[d]) \in Nat /\ Len(handle'[d]) <= Len(handle[d])
         /\ \A i \in 1..Len(handle'[d]) : i \in 1..Len(handle[d]) /\ handle'[d][i] = handle[d][i]
<1>1. /\ handle \in [Clients -> Seq(Entries)] /\ at[c] \in 1..Len(handle[c])
      /\ Len(handle[d]) \in Nat /\ Len(handle[c]) \in Nat
      /\ handle' = [handle EXCEPT ![c] = SubSeq(handle[c], 1, at[c] - 1)]
  BY AtAPage, HandlePages DEF TypeOK, NoColumn
<1>2. CASE d # c
  BY <1>1, <1>2
<1>3. CASE d = c
  <2>1. handle'[c] = SubSeq(handle[c], 1, at[c] - 1) /\ at[c] - 1 \in Nat
    BY <1>1
  <2>2. /\ Len(handle'[c]) = at[c] - 1
        /\ \A i \in 1..(at[c] - 1) : handle'[c][i] = handle[c][i]
    BY <1>1, <2>1
  <2> QED
    BY <1>1, <1>3, <2>2
<1> QED
  BY <1>2, <1>3

-----------------------------------------------------------------------------
(* Counting free columns.                                                  *)

\* A column that an entry leaves is one more, and one that it takes one less.
LEMMA FreeCount ==
  ASSUME NEW occ \in [Columns -> Entries \cup {None}], NEW i \in Columns, NEW e \in Entries
  PROVE  /\ IsFiniteSet(Free(occ)) /\ Cardinality(Free(occ)) \in 0..NumColumns
         /\ occ[i] # None =>
              /\ Cardinality(Free([occ EXCEPT ![i] = None])) = Cardinality(Free(occ)) + 1
              /\ Cardinality(Free(occ)) + 1 \in 0..NumColumns
         /\ occ[i] = None =>
              /\ Cardinality(Free([occ EXCEPT ![i] = e])) = Cardinality(Free(occ)) - 1
              /\ Cardinality(Free(occ)) - 1 \in 0..NumColumns
<1> USE SizeAssumption, KeyAssumption
<1>1. IsFiniteSet(Columns) /\ Cardinality(Columns) = NumColumns
  BY FS_Interval DEF Columns
<1>2. ASSUME NEW o
      PROVE  IsFiniteSet(Free(o)) /\ Cardinality(Free(o)) \in 0..NumColumns
  <2>1. Free(o) \subseteq Columns
    BY DEF Free
  <2>2. IsFiniteSet(Free(o)) /\ Cardinality(Free(o)) <= NumColumns
    BY <1>1, <2>1, FS_Subset
  <2> QED
    BY <2>2, FS_CardinalityType
<1>3. CASE occ[i] # None
  <2>1. /\ Free([occ EXCEPT ![i] = None]) = Free(occ) \cup {i}
        /\ i \notin Free(occ)
    BY <1>3 DEF Free
  <2>2. Cardinality(Free(occ) \cup {i}) = Cardinality(Free(occ)) + 1
    BY <1>2, <2>1, FS_AddElement
  <2>3. Cardinality(Free(occ) \cup {i}) \in 0..NumColumns
    BY <1>2, <2>1
  <2> QED
    BY <1>2, <1>3, <2>1, <2>2, <2>3
<1>4. CASE occ[i] = None
  <2>1. /\ Free([occ EXCEPT ![i] = e]) = Free(occ) \ {i}
        /\ i \in Free(occ)
    BY <1>4 DEF Free
  <2>2. Cardinality(Free(occ) \ {i}) = Cardinality(Free(occ)) - 1
    BY <1>2, <2>1, FS_RemoveElement
  <2>3. Cardinality(Free(occ) \ {i}) \in 0..NumColumns
    BY <1>2, <2>1
  <2> QED
    BY <1>2, <1>4, <2>1, <2>2, <2>3
<1> QED
  BY <1>2, <1>3, <1>4

-----------------------------------------------------------------------------
(* An entry is counted for every client that has pinned it.                *)

LEMMA HoldersFinite ==
  ASSUME NEW e
  PROVE  IsFiniteSet(Holders(e)) /\ Cardinality(Holders(e)) \in Nat
<1>1. Holders(e) \subseteq Clients
  BY DEF Holders
<1>2. IsFiniteSet(Holders(e))
  BY <1>1, ClientAssumption, FS_Subset
<1> QED
  BY <1>2, FS_CardinalityType

LEMMA HeldCounted ==
  ASSUME References, NEW e \in Entries, NEW c \in Holders(e)
  PROVE  ref_count[e] # 0
<1>1. ref_count[e] = Cardinality(Holders(e)) /\ Holders(e) # {}
  BY DEF References
<1> QED
  BY <1>1, HoldersFinite, FS_EmptySet

-----------------------------------------------------------------------------

(* Types are preserved.                                                    *)
LEMMA TypeStep ==
  ASSUME IInv, [Next]_vars
  PROVE  TypeOK'
<1> USE ClientAssumption, KeyAssumption, SizeAssumption DEF IInv, TypeOK
<1>1. ASSUME NEW c \in Clients, Lookup(c) PROVE TypeOK'
  <2>1. /\ created' \in 0..MaxEntries
        /\ \A d \in Clients : handle'[d] \in Seq(Entries) /\ matched'[d] \in Nat
        /\ \A k \in Keys : key_entry_map'[k] \in Entries \cup {None}
    <3>1. NewHandle(c) /\ \A d \in Clients \ {c} : handle'[d] = handle[d] /\ matched'[d] = matched[d]
      BY <1>1, LookupHandle
    <3>2. /\ created' \in 0..MaxEntries
          /\ \A k \in Keys : key_entry_map'[k] \in Entries \cup {None}
      BY <3>1 DEF NewHandle
    <3>3. handle'[c] \in Seq(Entries) /\ matched'[c] \in Nat
      BY <3>1 DEF NewHandle
    <3> QED
      BY <3>1, <3>2, <3>3
  <2>2. /\ handle' = [d \in Clients |-> handle'[d]]
        /\ matched' = [d \in Clients |-> matched'[d]]
        /\ key_entry_map' = [k \in Keys |-> key_entry_map'[k]]
    BY <1>1 DEF Lookup, LookUpNothing, LookUpMatch
  <2>3. /\ handle' \in [Clients -> Seq(Entries)] /\ matched' \in [Clients -> Nat]
        /\ key_entry_map' \in [Keys -> Entries \cup {None}]
    BY <2>1, <2>2
  <2>4. lookups' \in 0..MaxLookups
    BY <1>1 DEF Lookup
  <2>5. /\ at' \in [Clients -> Nat]
        /\ pc' \in [Clients -> {"idle", "pin", "column", "evict", "take", "absorb", "transfer",
                             "ready", "append", "release"}]
    BY <1>1 DEF Lookup, Goto
  <2> QED
    BY <1>1, <2>1, <2>3, <2>4, <2>5 DEF Lookup, entryVars, columnVars, waitVars, flushVars
<1>2. ASSUME NEW c \in Clients, PinPage(c) PROVE TypeOK'
  <2>1. at[c] \in 1..Len(handle[c]) /\ Page(c) \in Entries
    BY <1>2, AtAPage DEF PinPage
  <2>2. ref_count' \in [Entries -> Nat] /\ at' \in [Clients -> Nat]
    BY SMTT(30), <1>2, <2>1 DEF PinPage, Pinned
  <2> QED
    BY <1>2, <2>2 DEF PinPage, Goto, Pinned, columnVars, waitVars, handleVars, flushVars, boundVars
<1>3. ASSUME NEW c \in Clients, LockPage(c) PROVE TypeOK'
  BY <1>3 DEF LockPage, Goto, Page, AtPage, columnVars, waitVars, handleVars, flushVars,
     boundVars
<1>4. ASSUME NEW c \in Clients, LockCache(c) PROVE TypeOK'
  BY <1>4 DEF LockCache, Goto, entryVars, waitVars, handleVars, flushVars, boundVars
<1>5. ASSUME NEW c \in Clients, EvictColumn(c) PROVE TypeOK'
  <2>1. scan[c] \in Columns /\ occupations[scan[c]] \in Entries \cup {None}
    BY <1>5 DEF EvictColumn, Shape, ClientShape, Columns
  <2>2. /\ tc' \in [Entries -> Clients \cup {"none", "has"}]
        /\ occupations' \in [Columns -> Entries \cup {None}]
    <3> DEFINE col == scan[c]
               h == occupations[col]
    <3>1. CASE /\ tc' = [tc EXCEPT ![h] = "none"]
               /\ occupations' = [occupations EXCEPT ![col] = None]
      BY <3>1, <2>1
    <3>2. CASE UNCHANGED <<tc, occupations>>
      BY <3>2
    <3> QED
      BY <1>5, <3>1, <3>2 DEF EvictColumn
  <2>3. num_free_pages' \in 0..NumColumns
    <3>1. CASE num_free_pages' = num_free_pages
      BY <3>1
    <3>2. CASE num_free_pages' = num_free_pages + 1 /\ occupations[scan[c]] # None
      <4>1. occupations[scan[c]] \in Entries
        BY <2>1, <3>2
      <4> QED
        BY <2>1, <3>2, <4>1, FreeCount DEF Books
    <3> QED
      BY <1>5, <3>1, <3>2 DEF EvictColumn
  <2>4. scan' \in [Clients -> Nat]
    BY <1>5 DEF EvictColumn
  <2> QED
    BY <1>5, <2>2, <2>3, <2>4 DEF EvictColumn, waitVars, handleVars, flushVars, boundVars
<1>6. ASSUME NEW c \in Clients, Evicted(c) PROVE TypeOK'
  BY <1>6 DEF Evicted, Goto, entryVars, columnVars, waitVars, handleVars, flushVars,
     boundVars
<1>7. ASSUME NEW c \in Clients, TakeColumn(c) PROVE TypeOK'
  <2>1. at[c] \in 1..Len(handle[c]) /\ Page(c) \in Entries
    BY <1>7, AtAPage DEF TakeColumn
  <2>2. num_free_pages' \in 0..NumColumns
    <3>1. num_free_pages' = num_free_pages - 1 /\ \E i \in Columns : occupations[i] = None
      BY <1>7 DEF TakeColumn
    <3> QED
      BY <2>1, <3>1, FreeCount DEF Books
  <2> QED
    BY SMTT(30), <1>7, <2>1, <2>2 DEF TakeColumn, Goto, Pinned, waitVars, handleVars, flushVars, boundVars
<1>8. ASSUME NEW c \in Clients, NoColumn(c) PROVE TypeOK'
  <2>1. at[c] \in 1..Len(handle[c]) /\ handle[c] \in Seq(Entries)
    BY <1>8, AtAPage DEF NoColumn
  <2>2. SubSeq(handle[c], 1, at[c] - 1) \in Seq(Entries)
    BY <2>1
  <2>3. handle' \in [Clients -> Seq(Entries)]
    BY <1>8, <2>2 DEF NoColumn
  <2>4. entry_lock' \in [Entries -> Clients \cup {"flush", None}]
    BY <1>8 DEF NoColumn
  <2> QED
    BY <1>8, <2>3, <2>4 DEF NoColumn, Goto, waitVars, flushVars, boundVars
<1>9. ASSUME NEW c \in Clients, ToGpu(c) PROVE TypeOK'
  BY <1>9 DEF ToGpu, Goto, AtPage, entryVars, columnVars, handleVars, flushVars, boundVars
<1>10. ASSUME NEW c \in Clients, Absorb(c) PROVE TypeOK'
  BY <1>10 DEF Absorb, Goto, Page, columnVars, handleVars, flushVars, boundVars
<1>11. ASSUME NEW c \in Clients, TransferDone(c) PROVE TypeOK'
  <2>1. Page(c) \in Entries
    BY <1>11, AtAPage DEF TransferDone
  <2>2. content' \in [Columns -> Entries \cup {None}] /\ futs' \in [Clients -> SUBSET Clients]
    BY <1>11, <2>1 DEF TransferDone
  <2> QED
    BY <1>11, <2>2 DEF TransferDone, entryVars, columnVars, handleVars, flushVars, boundVars
<1>12. ASSUME NEW c \in Clients, Transferred(c) PROVE TypeOK'
  BY <1>12 DEF Transferred, Goto, Page, columnVars, waitVars, handleVars, flushVars,
     boundVars
<1>13. ASSUME NEW c \in Clients, AppendToTree(c) PROVE TypeOK'
  <2>1. at' = [at EXCEPT ![c] = matched[c] + 1] /\ matched[c] < Len(handle[c])
    BY <1>13 DEF AppendToTree
  <2>2. at' \in [Clients -> Nat]
    BY <2>1
  <2>3. at'[c] \in 1..Len(handle[c])
    <3>1. matched[c] \in Nat /\ Len(handle[c]) \in Nat /\ at'[c] = matched[c] + 1
      BY <2>1, HandlePages
    <3> QED
      BY <2>1, <3>1
  <2>4. handle[c][at'[c]] \in Entries
    BY <2>3, HandlePages
  <2>5. content' \in [Columns -> Entries \cup {None}]
    <3>1. content' = [content EXCEPT ![gpu_block_idx[handle[c][at'[c]]]] = handle[c][at'[c]]]
      BY <1>13 DEF AppendToTree
    <3> QED
      BY <2>4, <3>1
  <2>6. tree' \in SUBSET Keys /\ key' \in [Clients -> Keys \cup {None}]
    <3>1. PICK k \in Keys : tree' = tree \cup {k} /\ key' = [key EXCEPT ![c] = k]
      BY <1>13 DEF AppendToTree
    <3> QED
      BY <3>1
  <2> QED
    BY <1>13, <2>2, <2>5, <2>6 DEF AppendToTree, Goto, entryVars, columnVars, waitVars, flushVars,
       boundVars
<1>14. ASSUME NEW c \in Clients, AppendPage(c) PROVE TypeOK'
  <2>1. Page(c) \in Entries
    BY <1>14, AtAPage DEF AppendPage
  <2>2. key_entry_map' \in [Keys -> Entries \cup {None}]
    BY <1>14, <2>1 DEF AppendPage
  <2>3. tc' \in [Entries -> Clients \cup {"none", "has"}] /\ dirty' \in [Entries -> BOOLEAN]
    BY <1>14 DEF AppendPage
  <2>4. key' \in [Clients -> Keys \cup {None}]
    BY <1>14 DEF AppendPage
  <2>5. matched' \in [Clients -> Nat]
    BY <1>14 DEF AppendPage
  <2> QED
    BY <1>14, <2>2, <2>3, <2>4, <2>5 DEF AppendPage, Goto, columnVars, waitVars, flushVars, boundVars
<1>15. ASSUME NEW c \in Clients, Release(c) PROVE TypeOK'
  BY <1>15 DEF Release, Goto, entryVars, columnVars, waitVars, handleVars, flushVars,
     boundVars
<1>16. ASSUME NEW c \in Clients, ReleasePage(c) PROVE TypeOK'
  <2>1. Page(c) \in Entries /\ at[c] \in 1..Len(handle[c])
    BY <1>16, AtAPage DEF ReleasePage
  <2>2. c \in Holders(Page(c))
    BY <1>16, <2>1 DEF ReleasePage, Holders, Has, Holds, Page
  <2>3. ref_count[Page(c)] # 0
    BY <2>1, <2>2, HeldCounted
  <2>4. ref_count' \in [Entries -> Nat] /\ at' \in [Clients -> Nat]
    BY SMTT(30), <1>16, <2>1, <2>3 DEF ReleasePage
  <2> QED
    BY <1>16, <2>4 DEF ReleasePage, columnVars, waitVars, handleVars, flushVars, boundVars
<1>17. ASSUME NEW c \in Clients, Released(c) PROVE TypeOK'
  BY <1>17 DEF Released, Goto, AtPage, entryVars, columnVars, waitVars, flushVars, boundVars
<1>18. CASE FlushStart
  BY <1>18 DEF FlushStart, entryVars, columnVars, waitVars, handleVars, boundVars
<1>19. CASE FlushColumn
  <2>1. flush_at' \in 0..(NumColumns + 1)
    BY <1>19 DEF FlushColumn, Columns
  <2>2. dirty_cols' \in SUBSET Columns
    <3>1. dirty_cols' \in {dirty_cols, dirty_cols \cup {flush_at}} /\ flush_at \in Columns
      BY <1>19 DEF FlushColumn
    <3> QED
      BY <3>1
  <2>3. entry_lock' \in [Entries -> Clients \cup {"flush", None}]
    <3>1. entry_lock' = entry_lock \/ \E e : entry_lock' = [entry_lock EXCEPT ![e] = "flush"]
      BY <1>19 DEF FlushColumn
    <3> QED
      BY <3>1
  <2> QED
    BY <1>19, <2>1, <2>2, <2>3 DEF FlushColumn, columnVars, waitVars, handleVars, boundVars
<1>20. CASE FlushDone
  BY <1>20 DEF FlushDone, columnVars, waitVars, handleVars, boundVars
<1>21. CASE UNCHANGED vars
  BY <1>21 DEF vars, entryVars, columnVars, waitVars, handleVars, flushVars, boundVars
<1> QED
  BY <1>1, <1>2, <1>3, <1>4, <1>5, <1>6, <1>7, <1>8, <1>9, <1>10, <1>11, <1>12, <1>13,
     <1>14, <1>15, <1>16, <1>17, <1>18, <1>19, <1>20, <1>21 DEF Next, Flush, Client

-----------------------------------------------------------------------------
(* A client's step leaves the others where they are.                       *)

LEMMA OthersUnmoved ==
  ASSUME IInv, NEW c \in Clients, Client(c), NEW d \in Clients \ {c}
  PROVE  /\ pc'[d] = pc[d] /\ handle'[d] = handle[d] /\ matched'[d] = matched[d]
         /\ at'[d] = at[d] /\ scan'[d] = scan[d] /\ pending'[d] = pending[d]
<1> USE DEF IInv, TypeOK
<1>1. CASE Lookup(c)
  BY <1>1, LookupHandle DEF Lookup, Goto, entryVars, columnVars, waitVars, flushVars
<1>2. CASE PinPage(c)
  BY <1>2 DEF PinPage, Goto, Pinned, columnVars, waitVars, handleVars, flushVars, boundVars
<1>3. CASE LockPage(c)
  BY <1>3 DEF LockPage, Goto, columnVars, waitVars, handleVars, flushVars, boundVars
<1>4. CASE LockCache(c)
  BY <1>4 DEF LockCache, Goto, entryVars, waitVars, handleVars, flushVars, boundVars
<1>5. CASE EvictColumn(c)
  BY <1>5 DEF EvictColumn, waitVars, handleVars, flushVars, boundVars
<1>6. CASE Evicted(c)
  BY <1>6 DEF Evicted, Goto, entryVars, columnVars, waitVars, handleVars, flushVars, boundVars
<1>7. CASE TakeColumn(c)
  BY <1>7 DEF TakeColumn, Goto, Pinned, waitVars, handleVars, flushVars, boundVars
<1>8. CASE NoColumn(c)
  BY <1>8 DEF NoColumn, Goto, waitVars, flushVars, boundVars
<1>9. CASE ToGpu(c)
  BY <1>9 DEF ToGpu, Goto, entryVars, columnVars, handleVars, flushVars, boundVars
<1>10. CASE Absorb(c)
  BY <1>10 DEF Absorb, Goto, columnVars, handleVars, flushVars, boundVars
<1>11. CASE TransferDone(c)
  BY <1>11 DEF TransferDone, entryVars, columnVars, handleVars, flushVars, boundVars
<1>12. CASE Transferred(c)
  BY <1>12 DEF Transferred, Goto, columnVars, waitVars, handleVars, flushVars, boundVars
<1>13. CASE AppendToTree(c)
  BY <1>13 DEF AppendToTree, Goto, entryVars, columnVars, waitVars, flushVars, boundVars
<1>14. CASE AppendPage(c)
  BY <1>14 DEF AppendPage, Goto, columnVars, waitVars, flushVars, boundVars
<1>15. CASE Release(c)
  BY <1>15 DEF Release, Goto, entryVars, columnVars, waitVars, handleVars, flushVars, boundVars
<1>16. CASE ReleasePage(c)
  BY <1>16 DEF ReleasePage, columnVars, waitVars, handleVars, flushVars, boundVars
<1>17. CASE Released(c)
  BY <1>17 DEF Released, Goto, entryVars, columnVars, waitVars, flushVars, boundVars
<1> QED
  BY <1>1, <1>2, <1>3, <1>4, <1>5, <1>6, <1>7, <1>8, <1>9, <1>10, <1>11, <1>12, <1>13,
     <1>14, <1>15, <1>16, <1>17 DEF Client

-----------------------------------------------------------------------------

(* A client's own variables go on fitting together.                        *)
LEMMA ShapeStep ==
  ASSUME IInv, [Next]_vars
  PROVE  Shape'
<1>0. /\ TypeOK /\ Shape
      /\ \A c \in Clients : /\ ClientShape(c) /\ handle[c] \in Seq(Entries) /\ Len(handle[c]) \in Nat
                            /\ matched[c] \in Nat /\ at[c] \in Nat /\ scan[c] \in Nat
      /\ DOMAIN pc = Clients /\ at \in [Clients -> Nat] /\ scan \in [Clients -> Nat]
      /\ matched \in [Clients -> Nat] /\ handle \in [Clients -> Seq(Entries)]
  <2>1. TypeOK /\ Shape
    BY DEF IInv
  <2>2. /\ at \in [Clients -> Nat] /\ scan \in [Clients -> Nat]
        /\ matched \in [Clients -> Nat] /\ handle \in [Clients -> Seq(Entries)]
    BY <2>1 DEF TypeOK
  <2>3. DOMAIN pc = Clients
    BY <2>1 DEF TypeOK
  <2>4. \A c \in Clients : Len(handle[c]) \in Nat
    BY <2>1, HandlePages
  <2> QED
    BY <2>1, <2>2, <2>3, <2>4 DEF Shape
<1>1. ASSUME NEW c \in Clients, Lookup(c) PROVE ClientShape(c)'
  <2>1. NewHandle(c) /\ pc'[c] = "pin" /\ at'[c] = 1 /\ scan'[c] = scan[c]
    BY <1>0, <1>1, LookupHandle DEF Lookup, Goto
  <2> QED
    BY SMTT(30), <1>0, <2>1 DEF NewHandle, ClientShape, HasFresh, AtPage
<1>2. ASSUME NEW c \in Clients, PinPage(c) PROVE ClientShape(c)'
  BY <1>2, <1>0 DEF PinPage, Goto, Page, AtPage, Pinned, columnVars, waitVars, handleVars,
     flushVars, boundVars, ClientShape, HasFresh
<1>3. ASSUME NEW c \in Clients, LockPage(c) PROVE ClientShape(c)'
  BY <1>3, <1>0 DEF LockPage, Goto, Page, AtPage, columnVars, waitVars, handleVars,
     flushVars, boundVars, ClientShape, HasFresh
<1>4. ASSUME NEW c \in Clients, LockCache(c) PROVE ClientShape(c)'
  BY <1>4, <1>0 DEF LockCache, Goto, entryVars, waitVars, handleVars, flushVars, boundVars,
     ClientShape, HasFresh, AtPage
<1>5. ASSUME NEW c \in Clients, EvictColumn(c) PROVE ClientShape(c)'
  BY <1>5, <1>0 DEF EvictColumn, waitVars, handleVars, flushVars, boundVars, ClientShape,
     HasFresh, AtPage
<1>6. ASSUME NEW c \in Clients, Evicted(c) PROVE ClientShape(c)'
  BY <1>6, <1>0 DEF Evicted, Goto, entryVars, columnVars, waitVars, handleVars, flushVars,
     boundVars, ClientShape, HasFresh, AtPage
<1>7. ASSUME NEW c \in Clients, TakeColumn(c) PROVE ClientShape(c)'
  BY <1>7, <1>0 DEF TakeColumn, Goto, Page, Pinned, waitVars, handleVars, flushVars,
     boundVars, ClientShape, HasFresh, AtPage
<1>8. ASSUME NEW c \in Clients, NoColumn(c) PROVE ClientShape(c)'
  <2>1. /\ pc[c] = "evict" /\ AtPage(c) /\ ClientShape(c) /\ at[c] \in 1..Len(handle[c])
        /\ handle'[c] = SubSeq(handle[c], 1, at[c] - 1)
        /\ pc'[c] = "release" /\ at'[c] = 1 /\ scan'[c] = scan[c] /\ matched'[c] = matched[c]
    BY <1>0, <1>8 DEF NoColumn, Goto, ClientShape, AtPage
  <2>2. /\ Len(handle'[c]) = at[c] - 1
        /\ \A i \in 1..(at[c] - 1) : handle'[c][i] = handle[c][i]
    BY <1>0, <2>1
  <2>3. at[c] \in {1, 2}
    BY <1>0, <1>8, AtAPage DEF NoColumn
  <2>4. Len(handle'[c]) \in {0, 1}
    BY <2>2, <2>3
  <2> QED
    BY <1>0, <2>1, <2>4 DEF ClientShape, HasFresh, AtPage
<1>9. ASSUME NEW c \in Clients, ToGpu(c) PROVE ClientShape(c)'
  <2>1. /\ pc[c] = "pin" /\ ClientShape(c)
        /\ handle'[c] = handle[c] /\ matched'[c] = matched[c] /\ scan'[c] = scan[c]
        /\ at'[c] = 1 /\ pc'[c] = IF matched[c] > 0 THEN "absorb" ELSE "ready"
    BY <1>0, <1>9 DEF ToGpu, Goto, handleVars
  <2>2. matched[c] > 0 => matched[c] = 1
    BY <1>0, <2>1 DEF ClientShape
  <2> QED
    BY <1>0, <2>1, <2>2 DEF ClientShape, HasFresh, AtPage
<1>10. ASSUME NEW c \in Clients, Absorb(c) PROVE ClientShape(c)'
  BY <1>10, <1>0 DEF Absorb, Goto, Page, columnVars, handleVars, flushVars, boundVars,
     ClientShape, HasFresh, AtPage
<1>11. ASSUME NEW c \in Clients, TransferDone(c) PROVE ClientShape(c)'
  BY <1>11, <1>0 DEF TransferDone, Page, entryVars, columnVars, handleVars, flushVars,
     boundVars, ClientShape, HasFresh, AtPage
<1>12. ASSUME NEW c \in Clients, Transferred(c) PROVE ClientShape(c)'
  BY <1>12, <1>0 DEF Transferred, Goto, Page, columnVars, waitVars, handleVars, flushVars,
     boundVars, ClientShape, HasFresh, AtPage
<1>13. ASSUME NEW c \in Clients, AppendToTree(c) PROVE ClientShape(c)'
  <2>1. /\ pc[c] = "ready" /\ HasFresh(c) /\ ClientShape(c)
        /\ handle'[c] = handle[c] /\ matched'[c] = matched[c] /\ scan'[c] = scan[c]
        /\ at' = [at EXCEPT ![c] = matched[c] + 1] /\ pc'[c] = "append"
    BY <1>0, <1>13 DEF AppendToTree, Goto, HasFresh
  <2>2. at'[c] = matched[c] + 1
    BY <1>0, <2>1
  <2> QED
    BY <1>0, <2>1, <2>2 DEF ClientShape, HasFresh, AtPage
<1>14. ASSUME NEW c \in Clients, AppendPage(c) PROVE ClientShape(c)'
  BY <1>14, <1>0 DEF AppendPage, Goto, Page, columnVars, waitVars, flushVars, boundVars,
     ClientShape, HasFresh, AtPage
<1>15. ASSUME NEW c \in Clients, Release(c) PROVE ClientShape(c)'
  BY <1>15, <1>0 DEF Release, Goto, entryVars, columnVars, waitVars, handleVars, flushVars,
     boundVars, ClientShape, HasFresh, AtPage
<1>16. ASSUME NEW c \in Clients, ReleasePage(c) PROVE ClientShape(c)'
  BY <1>16, <1>0 DEF ReleasePage, Page, AtPage, columnVars, waitVars, handleVars,
     flushVars, boundVars, ClientShape, HasFresh
<1>17. ASSUME NEW c \in Clients, Released(c) PROVE ClientShape(c)'
  BY <1>17, <1>0 DEF Released, Goto, AtPage, entryVars, columnVars, waitVars, flushVars,
     boundVars, ClientShape, HasFresh
<1>18. ASSUME NEW c \in Clients, Client(c), NEW d \in Clients \ {c} PROVE ClientShape(d)'
  <2>1. /\ pc'[d] = pc[d] /\ handle'[d] = handle[d] /\ matched'[d] = matched[d]
        /\ at'[d] = at[d] /\ scan'[d] = scan[d]
    BY <1>18, OthersUnmoved
  <2> QED
    BY <1>0, <2>1 DEF ClientShape, HasFresh, AtPage
<1>19. ASSUME NEW c \in Clients, Flush PROVE ClientShape(c)'
  BY <1>0, <1>19 DEF Flush, FlushStart, FlushColumn, FlushDone, handleVars, ClientShape, HasFresh,
     AtPage
<1>20. ASSUME NEW c \in Clients, UNCHANGED vars PROVE ClientShape(c)'
  BY <1>0, <1>20 DEF vars, handleVars, ClientShape, HasFresh, AtPage
<1>21. ASSUME NEW c \in Clients, Client(c) PROVE ClientShape(c)'
  BY <1>21, <1>1, <1>2, <1>3, <1>4, <1>5, <1>6, <1>7, <1>8, <1>9, <1>10, <1>11, <1>12,
     <1>13, <1>14, <1>15, <1>16, <1>17 DEF Client
<1> QED
  BY <1>18, <1>19, <1>20, <1>21 DEF Next, Shape

-----------------------------------------------------------------------------

(* Who goes for a column goes on holding what it locked.                   *)
LEMMA LocksStep ==
  ASSUME IInv, [Next]_vars
  PROVE  Locks'
<1> USE ClientAssumption, KeyAssumption
<1>0. /\ TypeOK /\ Shape /\ DOMAIN pc = Clients
      /\ entry_lock \in [Entries -> Clients \cup {"flush", None}]
      /\ gpu_block_idx \in [Entries -> Columns \cup {None}]
      /\ num_free_pages \in Nat /\ at \in [Clients -> Nat]
      /\ handle \in [Clients -> Seq(Entries)]
      /\ \A c \in Clients : ClientLocks(c)
  BY SizeAssumption DEF IInv, TypeOK, Locks
<1>1. ASSUME NEW c \in Clients, Lookup(c) PROVE ClientLocks(c)'
  BY <1>1, <1>0 DEF Lookup, Goto, entryVars, columnVars, waitVars, flushVars, Page,
     ClientLocks
<1>2. ASSUME NEW c \in Clients, PinPage(c) PROVE ClientLocks(c)'
  BY <1>2, <1>0 DEF PinPage, Goto, Page, AtPage, Pinned, columnVars, waitVars, handleVars,
     flushVars, boundVars, ClientLocks
<1>3. ASSUME NEW c \in Clients, LockPage(c) PROVE ClientLocks(c)'
  <2>1. Page(c) \in Entries
    BY <1>0, <1>3, AtAPage DEF LockPage
  <2> QED
    BY <1>0, <1>3, <2>1 DEF LockPage, Goto, Page, AtPage, handleVars, ClientLocks
<1>4. ASSUME NEW c \in Clients, LockCache(c) PROVE ClientLocks(c)'
  BY <1>4, <1>0 DEF LockCache, Goto, entryVars, waitVars, handleVars, flushVars, boundVars,
     Page, ClientLocks
<1>5. ASSUME NEW c \in Clients, EvictColumn(c) PROVE ClientLocks(c)'
  BY <1>5, <1>0 DEF EvictColumn, waitVars, handleVars, flushVars, boundVars, Page,
     ClientLocks
<1>6. ASSUME NEW c \in Clients, Evicted(c) PROVE ClientLocks(c)'
  BY <1>6, <1>0 DEF Evicted, Goto, entryVars, columnVars, waitVars, handleVars, flushVars,
     boundVars, Page, ClientLocks
<1>7. ASSUME NEW c \in Clients, TakeColumn(c) PROVE ClientLocks(c)'
  BY <1>7, <1>0 DEF TakeColumn, Goto, Page, Pinned, waitVars, handleVars, flushVars,
     boundVars, ClientLocks
<1>8. ASSUME NEW c \in Clients, NoColumn(c) PROVE ClientLocks(c)'
  BY <1>8, <1>0 DEF NoColumn, Goto, Page, waitVars, flushVars, boundVars, ClientLocks
<1>9. ASSUME NEW c \in Clients, ToGpu(c) PROVE ClientLocks(c)'
  BY <1>9, <1>0 DEF ToGpu, Goto, AtPage, entryVars, columnVars, handleVars, flushVars,
     boundVars, Page, ClientLocks
<1>10. ASSUME NEW c \in Clients, Absorb(c) PROVE ClientLocks(c)'
  BY <1>10, <1>0 DEF Absorb, Goto, Page, columnVars, handleVars, flushVars, boundVars,
     ClientLocks
<1>11. ASSUME NEW c \in Clients, TransferDone(c) PROVE ClientLocks(c)'
  BY <1>11, <1>0 DEF TransferDone, Page, entryVars, columnVars, handleVars, flushVars,
     boundVars, ClientLocks
<1>12. ASSUME NEW c \in Clients, Transferred(c) PROVE ClientLocks(c)'
  BY <1>12, <1>0 DEF Transferred, Goto, Page, columnVars, waitVars, handleVars, flushVars,
     boundVars, ClientLocks
<1>13. ASSUME NEW c \in Clients, AppendToTree(c) PROVE ClientLocks(c)'
  BY <1>13, <1>0 DEF AppendToTree, Goto, entryVars, columnVars, waitVars, flushVars,
     boundVars, Page, ClientLocks
<1>14. ASSUME NEW c \in Clients, AppendPage(c) PROVE ClientLocks(c)'
  BY <1>14, <1>0 DEF AppendPage, Goto, Page, columnVars, waitVars, flushVars, boundVars,
     ClientLocks
<1>15. ASSUME NEW c \in Clients, Release(c) PROVE ClientLocks(c)'
  BY <1>15, <1>0 DEF Release, Goto, entryVars, columnVars, waitVars, handleVars, flushVars,
     boundVars, Page, ClientLocks
<1>16. ASSUME NEW c \in Clients, ReleasePage(c) PROVE ClientLocks(c)'
  BY <1>16, <1>0 DEF ReleasePage, Page, AtPage, columnVars, waitVars, handleVars,
     flushVars, boundVars, ClientLocks
<1>17. ASSUME NEW c \in Clients, Released(c) PROVE ClientLocks(c)'
  BY <1>17, <1>0 DEF Released, Goto, AtPage, entryVars, columnVars, waitVars, flushVars,
     boundVars, Page, ClientLocks
<1>18. ASSUME NEW c \in Clients, Client(c), NEW d \in Clients \ {c} PROVE ClientLocks(d)'
  <2>0. /\ ClientLocks(c) /\ ClientLocks(d) /\ d # None /\ d # "flush"
        /\ pc'[d] = pc[d] /\ Page(d)' = Page(d)
    BY <1>0, <1>18, OthersUnmoved DEF Page
  <2>1. CASE LockPage(c)
    BY <1>0, <2>0, <2>1 DEF LockPage, columnVars, ClientLocks
  <2>2. CASE LockCache(c)
    BY <1>0, <2>0, <2>2 DEF LockCache, entryVars, ClientLocks
  <2>3. CASE EvictColumn(c)
    BY <1>0, <2>0, <2>3 DEF EvictColumn, ClientLocks
  <2>4. CASE TakeColumn(c)
    <3>1. pc[d] \notin {"evict", "take"}
      BY <2>0, <1>18, <2>4 DEF ClientLocks, TakeColumn
    <3>2. pc[d] = "column" => Page(d) # Page(c)
      BY <2>0, <1>18, <2>4 DEF ClientLocks, TakeColumn
    <3>3. PICK i \in Columns : gpu_block_idx' = [gpu_block_idx EXCEPT ![Page(c)] = i]
      BY <2>4 DEF TakeColumn
    <3>4. entry_lock' = [entry_lock EXCEPT ![Page(c)] = None]
      BY <2>4 DEF TakeColumn
    <3> QED
      BY <1>0, <2>0, <3>1, <3>2, <3>3, <3>4 DEF ClientLocks
  <2>5. CASE NoColumn(c)
    BY <1>0, <2>0, <1>18, <2>5 DEF NoColumn, ClientLocks
  <2>6. CASE UNCHANGED <<entry_lock, gpu_block_idx, gpu_lock, num_free_pages>>
    BY <2>0, <2>6 DEF ClientLocks
  <2>7. \/ LockPage(c) \/ LockCache(c) \/ EvictColumn(c) \/ TakeColumn(c) \/ NoColumn(c)
        \/ UNCHANGED <<entry_lock, gpu_block_idx, gpu_lock, num_free_pages>>
    BY <1>18 DEF Client, Lookup, PinPage, Evicted, ToGpu, Absorb, TransferDone, Transferred,
       AppendToTree, AppendPage, Release, ReleasePage, Released, entryVars, columnVars
  <2> QED
    BY <2>1, <2>2, <2>3, <2>4, <2>5, <2>6, <2>7
<1>19. ASSUME NEW c \in Clients, Flush PROVE ClientLocks(c)'
  <2>0. /\ ClientLocks(c) /\ c # "flush" /\ c # None /\ pc'[c] = pc[c] /\ Page(c)' = Page(c)
        /\ pc[c] \in {"column", "evict", "take"} => Page(c) \in Entries
    BY <1>0, <1>19, AtAPage DEF Flush, FlushStart, FlushColumn, FlushDone, Page, handleVars
  <2>1. CASE FlushStart
    BY <2>0, <2>1 DEF FlushStart, entryVars, columnVars, ClientLocks
  <2>2. CASE FlushColumn
    BY <1>0, <2>0, <2>2 DEF FlushColumn, columnVars, ClientLocks
  <2>3. CASE FlushDone
    BY <1>0, <2>0, <2>3 DEF FlushDone, columnVars, ClientLocks
  <2> QED
    BY <1>19, <2>1, <2>2, <2>3 DEF Flush
<1>20. ASSUME NEW c \in Clients, UNCHANGED vars PROVE ClientLocks(c)'
  BY <1>0, <1>20 DEF vars, entryVars, columnVars, handleVars, ClientLocks, Page
<1>21. ASSUME NEW c \in Clients, Client(c) PROVE ClientLocks(c)'
  BY <1>21, <1>1, <1>2, <1>3, <1>4, <1>5, <1>6, <1>7, <1>8, <1>9, <1>10, <1>11, <1>12,
     <1>13, <1>14, <1>15, <1>16, <1>17 DEF Client
<1> QED
  BY <1>18, <1>19, <1>20, <1>21 DEF Next, Locks

-----------------------------------------------------------------------------
(* The books of the columns go on balancing: a column is taken by a page   *)
(* that has none, evicted from an entry that is clean, and an entry gets   *)
(* dirty where it is placed.                                               *)
LEMMA BooksStep ==
  ASSUME IInv, [Next]_vars
  PROVE  Books'
<1> USE ClientAssumption, KeyAssumption, SizeAssumption
<1>0. /\ TypeOK /\ Shape /\ Locks /\ Books /\ FreshPlaced
      /\ gpu_block_idx \in [Entries -> Columns \cup {None}] /\ dirty \in [Entries -> BOOLEAN]
      /\ occupations \in [Columns -> Entries \cup {None}]
      /\ num_free_pages = Cardinality(Free(occupations))
      /\ \A i \in Columns : occupations[i] # None => gpu_block_idx[occupations[i]] = i
      /\ \A e \in Entries : dirty[e] => gpu_block_idx[e] # None /\ occupations[gpu_block_idx[e]] = e
  BY DEF IInv, TypeOK, Books
<1>1. ASSUME NEW c \in Clients, EvictColumn(c) PROVE Books'
  <2>1. scan[c] \in Columns /\ UNCHANGED <<gpu_block_idx, dirty>>
    BY <1>0, <1>1 DEF TypeOK, EvictColumn, Shape, ClientShape, Columns
  <2>2. CASE UNCHANGED <<occupations, num_free_pages>>
    BY <1>0, <2>1, <2>2 DEF Books
  <2>3. CASE ~UNCHANGED <<occupations, num_free_pages>>
    <3>1. PICK h \in Entries :
            /\ occupations[scan[c]] = h /\ ~dirty[h]
            /\ occupations' = [occupations EXCEPT ![scan[c]] = None]
            /\ num_free_pages' = num_free_pages + 1
      BY <1>0, <1>1, <2>1, <2>3 DEF EvictColumn, can_desert
    <3>2. num_free_pages' = Cardinality(Free(occupations'))
      BY <1>0, <2>1, <3>1, FreeCount
    <3> QED
      BY <1>0, <2>1, <3>1, <3>2 DEF Books
  <2> QED
    BY <2>2, <2>3
<1>2. ASSUME NEW c \in Clients, TakeColumn(c) PROVE Books'
  <2>1. Page(c) \in Entries /\ gpu_block_idx[Page(c)] = None /\ UNCHANGED dirty
    BY <1>0, <1>2, AtAPage DEF TakeColumn, Locks, ClientLocks
  <2>2. PICK i \in Columns :
          /\ occupations[i] = None
          /\ occupations' = [occupations EXCEPT ![i] = Page(c)]
          /\ gpu_block_idx' = [gpu_block_idx EXCEPT ![Page(c)] = i]
          /\ num_free_pages' = num_free_pages - 1
    BY <1>2 DEF TakeColumn
  <2>3. num_free_pages' = Cardinality(Free(occupations'))
    BY <1>0, <2>1, <2>2, FreeCount
  <2>4. \A j \in Columns : occupations'[j] # None => gpu_block_idx'[occupations'[j]] = j
    BY <1>0, <2>1, <2>2
  <2>5. \A e \in Entries : dirty'[e] =>
          gpu_block_idx'[e] # None /\ occupations'[gpu_block_idx'[e]] = e
    BY <1>0, <2>1, <2>2
  <2> QED
    BY <2>3, <2>4, <2>5 DEF Books
<1>3. ASSUME NEW c \in Clients, AppendPage(c) PROVE Books'
  <2>1. /\ dirty' = [dirty EXCEPT ![Page(c)] = TRUE]
        /\ UNCHANGED <<gpu_block_idx, occupations, num_free_pages>>
    BY <1>3 DEF AppendPage, columnVars
  <2>2. /\ HasFresh(c) /\ Page(c) = Fresh(c) /\ Page(c) \in Entries
        /\ matched[c] + 1 \in 1..Len(handle[c])
    BY <1>0, <1>3, AtAPage DEF AppendPage, Shape, ClientShape, Page, Fresh
  <2>3. Holds(c, matched[c] + 1)
    BY <1>3, <2>2 DEF AppendPage, Holds
  <2>4. gpu_block_idx[Page(c)] # None /\ occupations[gpu_block_idx[Page(c)]] = Page(c)
    BY <1>0, <2>2, <2>3 DEF FreshPlaced, ClientPlaced
  <2> QED
    BY <1>0, <2>1, <2>4 DEF Books
<1>4. CASE FlushDone
  <2>1. UNCHANGED <<gpu_block_idx, occupations, num_free_pages>>
    BY <1>4 DEF FlushDone, columnVars
  <2>2. \A e \in Entries : dirty'[e] => dirty[e]
    BY <1>4 DEF FlushDone
  <2> QED
    BY <1>0, <2>1, <2>2 DEF Books
<1>5. CASE UNCHANGED <<gpu_block_idx, dirty, occupations, num_free_pages>>
  BY <1>0, <1>5 DEF Books
<1>6. \/ FlushDone \/ UNCHANGED <<gpu_block_idx, dirty, occupations, num_free_pages>>
      \/ \E c \in Clients : EvictColumn(c) \/ TakeColumn(c) \/ AppendPage(c)
  BY DEF Next, Flush, Client, FlushStart, FlushColumn, Lookup, PinPage, LockPage, LockCache,
     Evicted, NoColumn, ToGpu, Absorb, TransferDone, Transferred, AppendToTree, Release,
     ReleasePage, Released, vars, entryVars, columnVars
<1> QED
  BY <1>1, <1>2, <1>3, <1>4, <1>5, <1>6

-----------------------------------------------------------------------------
(* No number of an entry that is yet to be made is about.                  *)
LEMMA KnownStep ==
  ASSUME IInv, [Next]_vars
  PROVE  Known'
<1> USE KeyAssumption
<1>0. /\ TypeOK /\ Shape /\ Known /\ created \in Nat
      /\ \A e \in Entries : e \in Nat
      /\ gpu_block_idx \in [Entries -> Columns \cup {None}]
      /\ key_entry_map \in [Keys -> Entries \cup {None}]
      /\ handle \in [Clients -> Seq(Entries)]
      /\ \A c \in Clients : Len(handle[c]) \in Nat
      /\ \A k \in Keys : key_entry_map[k] # None => key_entry_map[k] <= created
      /\ \A c \in Clients : \A i \in 1..Len(handle[c]) : handle[c][i] <= created
      /\ \A e \in Entries : e > created => gpu_block_idx[e] = None
  <2>1. TypeOK /\ Shape /\ Known
    BY DEF IInv
  <2>2. \A c \in Clients : Len(handle[c]) \in Nat
    BY <2>1, HandlePages
  <2> QED
    BY <2>1, <2>2 DEF TypeOK, Known, Entries
<1>1. ASSUME NEW c \in Clients, Lookup(c) PROVE Known'
  <2>1. NewHandle(c) /\ \A d \in Clients \ {c} : handle'[d] = handle[d]
    BY <1>1, LookupHandle
  <2>2. created' \in Nat /\ created <= created' /\ UNCHANGED gpu_block_idx
    BY <1>1, <2>1 DEF Lookup, NewHandle, entryVars
  <2>3. \A k \in Keys : key_entry_map'[k] # None => key_entry_map'[k] <= created'
    BY <1>0, <2>1, <2>2 DEF NewHandle
  <2>4. \A d \in Clients : \A i \in 1..Len(handle'[d]) : handle'[d][i] <= created'
    <3>1. \A i \in 1..Len(handle'[c]) : handle'[c][i] <= created'
      BY <2>1 DEF NewHandle
    <3>2. ASSUME NEW d \in Clients \ {c}, NEW i \in 1..Len(handle[d])
          PROVE  handle[d][i] <= created'
      <4>1. handle[d][i] \in Nat /\ handle[d][i] <= created
        BY <1>0, HandlePages
      <4> QED
        BY <1>0, <2>2, <4>1
    <3> QED
      BY <2>1, <3>1, <3>2
  <2> QED
    BY <1>0, <2>2, <2>3, <2>4 DEF Known
<1>2. ASSUME NEW c \in Clients, TakeColumn(c) PROVE Known'
  <2>1. at[c] \in 1..Len(handle[c]) /\ Page(c) \in Entries
    BY <1>0, <1>2, AtAPage DEF TakeColumn
  <2>2. Page(c) <= created
    BY <1>0, <2>1 DEF Page
  <2>3. PICK i \in Columns : gpu_block_idx' = [gpu_block_idx EXCEPT ![Page(c)] = i]
    BY <1>2 DEF TakeColumn
  <2>4. UNCHANGED <<created, key_entry_map, handle>>
    BY <1>2 DEF TakeColumn, handleVars, boundVars
  <2>5. \A e \in Entries : e > created' => gpu_block_idx'[e] = None
    BY <1>0, <2>1, <2>2, <2>3, <2>4
  <2> QED
    BY <1>0, <2>4, <2>5 DEF Known
<1>3. ASSUME NEW c \in Clients, NoColumn(c) PROVE Known'
  <2>1. at[c] \in 1..Len(handle[c])
    BY <1>0, <1>3, AtAPage DEF NoColumn
  <2>2. /\ handle' = [handle EXCEPT ![c] = SubSeq(handle[c], 1, at[c] - 1)]
        /\ UNCHANGED <<created, key_entry_map, gpu_block_idx>>
    BY <1>3 DEF NoColumn, boundVars
  <2>3. \A i \in 1..Len(handle'[c]) : handle'[c][i] <= created
    <3>1. \A i \in 1..Len(handle'[c]) : i \in 1..Len(handle[c]) /\ handle'[c][i] = handle[c][i]
      BY <1>0, <2>1, <2>2
    <3> QED
      BY <1>0, <3>1
  <2>4. \A d \in Clients \ {c} : handle'[d] = handle[d]
    BY <1>0, <2>2
  <2>5. \A d \in Clients : \A i \in 1..Len(handle'[d]) : handle'[d][i] <= created'
    BY <1>0, <2>2, <2>3, <2>4
  <2> QED
    BY <1>0, <2>2, <2>5 DEF Known
<1>4. ASSUME NEW c \in Clients, AppendPage(c) PROVE Known'
  <2>1. at[c] \in 1..Len(handle[c]) /\ Page(c) \in Entries
    BY <1>0, <1>4, AtAPage DEF AppendPage
  <2>2. Page(c) <= created
    BY <1>0, <2>1 DEF Page
  <2>3. \A k \in Keys : key_entry_map'[k] \in {key_entry_map[k], Page(c)}
    BY <1>0, <1>4 DEF AppendPage
  <2>4. UNCHANGED <<created, gpu_block_idx, handle>>
    BY <1>4 DEF AppendPage, boundVars
  <2>5. \A k \in Keys : key_entry_map'[k] # None => key_entry_map'[k] <= created'
    BY <1>0, <2>2, <2>3, <2>4
  <2> QED
    BY <1>0, <2>4, <2>5 DEF Known
<1>5. ASSUME NEW c \in Clients, Released(c) PROVE Known'
  <2>1. /\ handle' = [handle EXCEPT ![c] = <<>>]
        /\ UNCHANGED <<created, key_entry_map, gpu_block_idx>>
    BY <1>5 DEF Released, entryVars, boundVars
  <2>2. \A d \in Clients : \A i \in 1..Len(handle'[d]) : handle'[d][i] <= created'
    BY <1>0, <2>1
  <2> QED
    BY <1>0, <2>1, <2>2 DEF Known
<1>6. CASE UNCHANGED <<created, key_entry_map, handle, gpu_block_idx>>
  BY <1>0, <1>6 DEF Known
<1>7. \/ UNCHANGED <<created, key_entry_map, handle, gpu_block_idx>>
      \/ \E c \in Clients :
           Lookup(c) \/ TakeColumn(c) \/ NoColumn(c) \/ AppendPage(c) \/ Released(c)
  BY DEF Next, Flush, Client, FlushStart, FlushColumn, FlushDone, PinPage, LockPage, LockCache,
     EvictColumn, Evicted, ToGpu, Absorb, TransferDone, Transferred, AppendToTree, Release,
     ReleasePage, vars, entryVars, handleVars, boundVars
<1> QED
  BY <1>1, <1>2, <1>3, <1>4, <1>5, <1>6, <1>7

-----------------------------------------------------------------------------
(* Which pages a client has pinned: what each step changes.                *)

LEMMA OthersHold ==
  ASSUME IInv, NEW c \in Clients, Client(c), NEW d \in Clients \ {c}, NEW e
  PROVE  Has(d, e)' <=> Has(d, e)
BY OthersUnmoved DEF Has, Holds

\* Only pinning and releasing a page change it.
LEMMA HoldsKept ==
  ASSUME IInv, NEW c \in Clients, Client(c), NEW e
  PROVE  \/ (Has(c, e)' <=> Has(c, e)) /\ UNCHANGED ref_count
         \/ PinPage(c) \/ TakeColumn(c) \/ ReleasePage(c)
<1>0. /\ TypeOK /\ Shape /\ ClientShape(c) /\ DOMAIN pc = Clients
      /\ at \in [Clients -> Nat] /\ handle \in [Clients -> Seq(Entries)] /\ Len(handle[c]) \in Nat
  BY HandlePages DEF IInv, TypeOK, Shape
<1>1. CASE Lookup(c)
  <2>0. UNCHANGED ref_count
    BY <1>1 DEF Lookup, entryVars
  <2>1. Len(handle[c]) = 0 /\ pc'[c] = "pin" /\ at'[c] = 1
    BY <1>0, <1>1 DEF Lookup, Goto, ClientShape
  <2> QED
    BY <2>0, <1>0, <2>1, <1>1, LookupHandle DEF NewHandle, Has, Holds
<1>2. CASE LockPage(c)
  BY <1>0, <1>2 DEF LockPage, Goto, Page, AtPage, columnVars, waitVars, handleVars,
     flushVars, boundVars, ClientShape, Has, Holds
<1>3. CASE LockCache(c)
  BY <1>0, <1>3 DEF LockCache, Goto, entryVars, waitVars, handleVars, flushVars, boundVars,
     AtPage, ClientShape, Has, Holds
<1>4. CASE EvictColumn(c)
  BY <1>0, <1>4 DEF EvictColumn, waitVars, handleVars, flushVars, boundVars, AtPage,
     ClientShape, Has, Holds
<1>5. CASE Evicted(c)
  BY <1>0, <1>5 DEF Evicted, Goto, entryVars, columnVars, waitVars, handleVars, flushVars,
     boundVars, AtPage, ClientShape, Has, Holds
<1>6. CASE NoColumn(c)
  <2>0. UNCHANGED ref_count
    BY <1>6 DEF NoColumn
  <2>1. at[c] \in 1..Len(handle[c]) /\ pc[c] = "evict"
    BY <1>0, <1>6, AtAPage DEF NoColumn
  <2>2. handle'[c] = SubSeq(handle[c], 1, at[c] - 1) /\ pc'[c] = "release" /\ at'[c] = 1
    BY <1>0, <1>6 DEF NoColumn, Goto
  <2>3. /\ Len(handle'[c]) = at[c] - 1
        /\ \A i \in 1..(at[c] - 1) : handle'[c][i] = handle[c][i]
    BY <1>0, <2>1, <2>2
  <2>4. at[c] - 1 \in Nat /\ at[c] \in Nat /\ Len(handle[c]) \in Nat
    BY <1>0, <2>1
  <2>5. \A i \in 1..(at[c] - 1) : Holds(c, i)' /\ Holds(c, i) /\ i \in 1..Len(handle[c])
    BY <2>1, <2>2, <2>3, <2>4 DEF Holds
  <2>6. \A i \in 1..Len(handle[c]) : Holds(c, i) => i \in 1..(at[c] - 1)
    BY <2>1, <2>4 DEF Holds
  <2> QED
    BY <2>0, <2>3, <2>5, <2>6 DEF Has
<1>7. CASE ToGpu(c)
  BY <1>0, <1>7 DEF ToGpu, Goto, AtPage, entryVars, columnVars, handleVars, flushVars,
     boundVars, ClientShape, Has, Holds
<1>8. CASE Absorb(c)
  BY <1>0, <1>8 DEF Absorb, Goto, Page, columnVars, handleVars, flushVars, boundVars,
     AtPage, ClientShape, Has, Holds
<1>9. CASE TransferDone(c)
  BY <1>0, <1>9 DEF TransferDone, Page, entryVars, columnVars, handleVars, flushVars,
     boundVars, AtPage, ClientShape, Has, Holds
<1>10. CASE Transferred(c)
  BY <1>0, <1>10 DEF Transferred, Goto, Page, columnVars, waitVars, handleVars, flushVars,
     boundVars, AtPage, ClientShape, Has, Holds
<1>11. CASE AppendToTree(c)
  BY <1>0, <1>11 DEF AppendToTree, Goto, entryVars, columnVars, waitVars, flushVars,
     boundVars, AtPage, ClientShape, Has, Holds
<1>12. CASE AppendPage(c)
  BY <1>0, <1>12 DEF AppendPage, Goto, Page, columnVars, waitVars, flushVars, boundVars,
     AtPage, ClientShape, Has, Holds
<1>13. CASE Release(c)
  BY <1>0, <1>13 DEF Release, Goto, entryVars, columnVars, waitVars, handleVars, flushVars,
     boundVars, AtPage, ClientShape, Has, Holds
<1>14. CASE Released(c)
  BY <1>0, <1>14 DEF Released, Goto, AtPage, entryVars, columnVars, waitVars, flushVars,
     boundVars, ClientShape, Has, Holds
<1> QED
  BY <1>1, <1>2, <1>3, <1>4, <1>5, <1>6, <1>7, <1>8, <1>9, <1>10, <1>11, <1>12, <1>13,
     <1>14 DEF Client

\* A page is pinned once by a client, and let go of once.
LEMMA HoldsMore ==
  ASSUME IInv, NEW c \in Clients, PinPage(c) \/ TakeColumn(c), NEW e
  PROVE  /\ Has(c, e)' <=> Has(c, e) \/ e = Page(c)
         /\ ~Has(c, Page(c))
<1>0. /\ TypeOK /\ Shape /\ ClientShape(c) /\ DOMAIN pc = Clients
      /\ at \in [Clients -> Nat] /\ handle \in [Clients -> Seq(Entries)] /\ Len(handle[c]) \in Nat
  BY HandlePages DEF IInv, TypeOK, Shape
<1>1. /\ at[c] \in 1..Len(handle[c]) /\ at[c] \in {1, 2} /\ Len(handle[c]) \in {1, 2}
      /\ pc[c] \in {"pin", "take"} /\ pc'[c] = "pin" /\ at'[c] = at[c] + 1 /\ handle' = handle
  BY <1>0, AtAPage DEF PinPage, TakeColumn, Pinned, Goto, handleVars
<1>2. Len(handle[c]) = 2 => handle[c][1] # handle[c][2]
  BY <1>0 DEF ClientShape
<1>3. \A i \in 1..Len(handle[c]) : Holds(c, i)' <=> Holds(c, i) \/ i = at[c]
  BY <1>0, <1>1 DEF Holds
<1>4. \A i \in 1..Len(handle[c]) : Holds(c, i) => i # at[c] /\ handle[c][i] # handle[c][at[c]]
  BY <1>0, <1>1, <1>2 DEF Holds
<1> QED
  BY <1>1, <1>3, <1>4 DEF Has, Page

LEMMA HoldsLess ==
  ASSUME IInv, NEW c \in Clients, ReleasePage(c), NEW e
  PROVE  /\ Has(c, e)' <=> Has(c, e) /\ e # Page(c)
         /\ Has(c, Page(c))
<1>0. /\ TypeOK /\ Shape /\ ClientShape(c)
      /\ at \in [Clients -> Nat] /\ handle \in [Clients -> Seq(Entries)] /\ Len(handle[c]) \in Nat
  BY HandlePages DEF IInv, TypeOK, Shape
<1>1. /\ at[c] \in 1..Len(handle[c]) /\ at[c] \in {1, 2} /\ Len(handle[c]) \in {1, 2}
      /\ pc[c] = "release" /\ pc' = pc /\ at'[c] = at[c] + 1 /\ handle' = handle
  BY <1>0, AtAPage DEF ReleasePage, handleVars
<1>2. Len(handle[c]) = 2 => handle[c][1] # handle[c][2]
  BY <1>0 DEF ClientShape
<1>3. \A i \in 1..Len(handle[c]) : Holds(c, i)' <=> Holds(c, i) /\ i # at[c]
  BY <1>0, <1>1 DEF Holds
<1>4. \A i \in 1..Len(handle[c]) : Holds(c, i) /\ i # at[c] => handle[c][i] # handle[c][at[c]]
  BY <1>0, <1>1, <1>2 DEF Holds
<1>5. Holds(c, at[c])
  BY <1>1 DEF Holds
<1> QED
  BY <1>1, <1>3, <1>4, <1>5 DEF Has, Page

(* The reference count of an entry goes on being the number of its holders. *)
LEMMA ReferencesStep ==
  ASSUME IInv, [Next]_vars
  PROVE  References'
<1>0. /\ TypeOK /\ Shape /\ ref_count \in [Entries -> Nat]
      /\ \A e \in Entries : ref_count[e] = Cardinality(Holders(e))
  BY DEF IInv, TypeOK, References
<1>1. ASSUME NEW c \in Clients, Client(c), NEW e \in Entries
      PROVE  ref_count'[e] = Cardinality(Holders(e)')
  <2>0. \A d \in Clients \ {c} : d \in Holders(e)' <=> d \in Holders(e)
    BY <1>1, OthersHold DEF Holders
  <2>1. CASE (Has(c, e)' <=> Has(c, e)) /\ UNCHANGED ref_count
    <3>1. Holders(e)' = Holders(e)
      BY <2>0, <2>1 DEF Holders
    <3> QED
      BY <1>0, <2>1, <3>1
  <2>2. CASE PinPage(c) \/ TakeColumn(c)
    <3>1. /\ ref_count' = [ref_count EXCEPT ![Page(c)] = @ + 1]
          /\ Page(c) \in Entries
      BY <1>0, <2>2, AtAPage DEF PinPage, TakeColumn, Pinned
    <3>2. CASE e = Page(c)
      <4>1. Holders(e)' = Holders(e) \cup {c} /\ c \notin Holders(e)
        BY <2>0, <2>2, <3>2, HoldsMore DEF Holders
      <4>2. Cardinality(Holders(e) \cup {c}) = Cardinality(Holders(e)) + 1
        BY <4>1, HoldersFinite, FS_AddElement
      <4> QED
        BY <1>0, <3>1, <3>2, <4>1, <4>2
    <3>3. CASE e # Page(c)
      <4>1. Holders(e)' = Holders(e)
        BY <2>0, <2>2, <3>3, HoldsMore DEF Holders
      <4> QED
        BY <1>0, <3>1, <3>3, <4>1
    <3> QED
      BY <3>2, <3>3
  <2>3. CASE ReleasePage(c)
    <3>1. /\ ref_count' = [ref_count EXCEPT ![Page(c)] = @ - 1]
          /\ Page(c) \in Entries
      BY <1>0, <2>3, AtAPage DEF ReleasePage
    <3>2. CASE e = Page(c)
      <4>1. Holders(e)' = Holders(e) \ {c} /\ c \in Holders(e)
        BY <2>0, <2>3, <3>2, HoldsLess DEF Holders
      <4> QED
        BY <1>0, <3>1, <3>2, <4>1, HoldersFinite, FS_RemoveElement
    <3>3. CASE e # Page(c)
      <4>1. Holders(e)' = Holders(e)
        BY <2>0, <2>3, <3>3, HoldsLess DEF Holders
      <4> QED
        BY <1>0, <3>1, <3>3, <4>1
    <3> QED
      BY <3>2, <3>3
  <2> QED
    BY <1>1, <2>1, <2>2, <2>3, HoldsKept
<1>2. CASE UNCHANGED <<ref_count, handle, pc, at>>
  BY <1>0, <1>2 DEF References, Holders, Has, Holds
<1>3. \/ UNCHANGED <<ref_count, handle, pc, at>>
      \/ \E c \in Clients : Client(c)
  BY DEF Next, Flush, FlushStart, FlushColumn, FlushDone, vars, entryVars, handleVars
<1> QED
  BY <1>1, <1>2, <1>3 DEF References

-----------------------------------------------------------------------------
(* A page to compute goes on being its client's own: it is new when it is  *)
(* handed out, and nobody comes to know of it before it is appended.       *)
LEMMA FreshOwnedStep ==
  ASSUME IInv, [Next]_vars
  PROVE  FreshOwned'
<1> USE KeyAssumption
<1>0. /\ TypeOK /\ Shape /\ Known /\ FreshOwned
      /\ created \in Nat /\ \A e \in Entries : e \in Nat /\ e # None
      /\ key_entry_map \in [Keys -> Entries \cup {None}]
      /\ handle \in [Clients -> Seq(Entries)] /\ matched \in [Clients -> Nat]
      /\ \A c \in Clients : /\ Len(handle[c]) \in Nat /\ matched[c] \in Nat
                            /\ \A i \in 1..Len(handle[c]) : handle[c][i] \in Entries
      /\ \A k \in Keys : key_entry_map[k] # None => key_entry_map[k] <= created
      /\ \A c \in Clients : \A i \in 1..Len(handle[c]) : handle[c][i] <= created
  <2>1. TypeOK /\ Shape /\ Known /\ FreshOwned
    BY DEF IInv
  <2>2. \A c \in Clients : /\ Len(handle[c]) \in Nat
                           /\ \A i \in 1..Len(handle[c]) : handle[c][i] \in Entries
    BY <2>1, HandlePages
  <2>3. \A e \in Entries : e \in Nat /\ e # None
    BY DEF Entries
  <2>4. /\ created \in Nat /\ key_entry_map \in [Keys -> Entries \cup {None}]
        /\ handle \in [Clients -> Seq(Entries)] /\ matched \in [Clients -> Nat]
    BY <2>1 DEF TypeOK
  <2> QED
    BY <2>1, <2>2, <2>3, <2>4 DEF Known
<1>1. \A a \in Clients : HasFresh(a) =>
        /\ matched[a] + 1 \in 1..Len(handle[a]) /\ Fresh(a) \in Entries /\ Fresh(a) <= created
        /\ \A d \in Clients \ {a} : \A i \in 1..Len(handle[d]) : handle[d][i] # Fresh(a)
        /\ \A k \in Keys : key_entry_map[k] # Fresh(a)
  BY <1>0 DEF FreshOwned, HasFresh, Fresh
<1>2. ASSUME NEW c \in Clients, Lookup(c) PROVE FreshOwned'
  <2>1. /\ NewHandle(c)
        /\ \A d \in Clients \ {c} : handle'[d] = handle[d] /\ matched'[d] = matched[d]
    BY <1>2, LookupHandle
  <2>2. /\ \A i \in 1..Len(handle'[c]) : handle'[c][i] \in Entries
        /\ Len(handle'[c]) \in {1, 2} /\ matched'[c] \in {0, 1}
    BY <2>1 DEF NewHandle
  <2>3. \A k \in Keys : \/ key_entry_map'[k] = key_entry_map[k]
                        \/ key_entry_map'[k] \in Entries /\ key_entry_map'[k] > created
    BY <2>1 DEF NewHandle
  <2>4. ASSUME HasFresh(c)'
        PROVE  /\ \A d \in Clients \ {c} : \A i \in 1..Len(handle'[d]) : handle'[d][i] # Fresh(c)'
               /\ \A k \in Keys : key_entry_map'[k] # Fresh(c)'
    <3>1. Fresh(c)' \in Entries /\ Fresh(c)' > created
      BY <2>1, <2>2, <2>4 DEF NewHandle, HasFresh, Fresh
    <3>2. \A d \in Clients \ {c} : \A i \in 1..Len(handle'[d]) : handle'[d][i] # Fresh(c)'
      BY <1>0, <2>1, <3>1
    <3>3. ASSUME NEW k \in Keys PROVE key_entry_map'[k] # Fresh(c)'
      <4>1. CASE key_entry_map'[k] = key_entry_map[k]
        BY <1>0, <3>1, <4>1
      <4>2. CASE key_entry_map'[k] # key_entry_map[k]
        BY <2>1, <2>4, <4>2 DEF NewHandle, HasFresh, Fresh
      <4> QED
        BY <4>1, <4>2
    <3> QED
      BY <3>2, <3>3
  <2>5. ASSUME NEW a \in Clients \ {c}, HasFresh(a)'
        PROVE  /\ \A d \in Clients \ {a} : \A i \in 1..Len(handle'[d]) : handle'[d][i] # Fresh(a)'
               /\ \A k \in Keys : key_entry_map'[k] # Fresh(a)'
    <3>1. HasFresh(a) /\ Fresh(a)' = Fresh(a)
      BY <2>1, <2>5 DEF HasFresh, Fresh
    <3>2. \A i \in 1..Len(handle'[c]) :
            handle'[c][i] > created \/ \E k \in Keys : handle'[c][i] = key_entry_map[k]
      <4>1. CASE matched'[c] = 1
        <5>1. handle'[c][1] > created \/ \E k \in Keys : handle'[c][1] = key_entry_map[k]
          BY <2>1, <4>1 DEF NewHandle
        <5>2. Len(handle'[c]) = 2 => handle'[c][2] > created
          BY <2>1, <4>1 DEF NewHandle
        <5> QED
          BY <2>2, <5>1, <5>2
      <4>2. CASE matched'[c] = 0
        <5>1. Len(handle'[c]) = 1 /\ handle'[c][1] > created
          BY <2>1, <2>2, <4>2 DEF NewHandle
        <5> QED
          BY <5>1
      <4> QED
        BY <2>2, <4>1, <4>2
    <3>3. \A i \in 1..Len(handle'[c]) : handle'[c][i] # Fresh(a)
      <4>1. Fresh(a) \in Nat /\ Fresh(a) <= created /\ \A k \in Keys : key_entry_map[k] # Fresh(a)
        BY <1>0, <1>1, <3>1
      <4>2. ASSUME NEW i \in 1..Len(handle'[c]), handle'[c][i] > created
            PROVE  handle'[c][i] # Fresh(a)
        BY <1>0, <2>2, <4>1, <4>2
      <4> QED
        BY <3>2, <4>1, <4>2
    <3>4. \A k \in Keys : key_entry_map'[k] # Fresh(a)
      BY <1>0, <1>1, <2>3, <3>1
    <3> QED
      BY <1>1, <2>1, <3>1, <3>3, <3>4
  <2> QED
    BY <2>4, <2>5 DEF FreshOwned
<1>3. ASSUME NEW c \in Clients, NoColumn(c) PROVE FreshOwned'
  <2>1. UNCHANGED <<matched, key_entry_map>>
    BY <1>3 DEF NoColumn
  <2>2. \A d \in Clients :
          /\ Len(handle'[d]) \in Nat /\ Len(handle'[d]) <= Len(handle[d])
          /\ \A i \in 1..Len(handle'[d]) : i \in 1..Len(handle[d]) /\ handle'[d][i] = handle[d][i]
    BY <1>0, <1>3, Shortened
  <2>3. ASSUME NEW a \in Clients, HasFresh(a)'
        PROVE  HasFresh(a) /\ Fresh(a)' = Fresh(a)
    <3>1. matched[a] \in Nat /\ matched[a] < Len(handle'[a])
      BY <1>0, <2>1, <2>3 DEF HasFresh
    <3>2. matched[a] + 1 \in 1..Len(handle'[a])
      BY <2>2, <3>1
    <3>3. HasFresh(a)
      BY <1>0, <2>2, <3>1 DEF HasFresh
    <3> QED
      BY <2>1, <2>2, <3>2, <3>3 DEF Fresh
  <2>4. ASSUME NEW a \in Clients, HasFresh(a)', NEW d \in Clients \ {a}, NEW i \in 1..Len(handle'[d])
        PROVE  handle'[d][i] # Fresh(a)'
    <3>1. i \in 1..Len(handle[d]) /\ handle'[d][i] = handle[d][i]
      BY <2>2
    <3> QED
      BY <1>1, <2>3, <2>4, <3>1
  <2>5. ASSUME NEW a \in Clients, HasFresh(a)', NEW k \in Keys
        PROVE  key_entry_map'[k] # Fresh(a)'
    BY <1>1, <2>1, <2>3, <2>5
  <2> QED
    BY <2>4, <2>5 DEF FreshOwned
<1>4. ASSUME NEW c \in Clients, AppendPage(c) PROVE FreshOwned'
  <2>1. /\ matched' = [matched EXCEPT ![c] = @ + 1] /\ UNCHANGED handle
        /\ \A k \in Keys : key_entry_map'[k] \in {key_entry_map[k], Page(c)}
    BY <1>0, <1>4 DEF AppendPage
  <2>2. at[c] \in 1..Len(handle[c])
    BY <1>0, <1>4, AtAPage DEF AppendPage
  <2>4. Len(handle[c]) <= matched[c] + 1 /\ matched'[c] = matched[c] + 1
    BY <1>0, <1>4, <2>1 DEF AppendPage, Shape, ClientShape
  <2>5. ~HasFresh(c)'
    BY <1>0, <2>1, <2>4 DEF HasFresh
  <2>3. \A a \in Clients \ {c} :
          HasFresh(a)' => HasFresh(a) /\ Fresh(a)' = Fresh(a) /\ Page(c) # Fresh(a)
    BY <1>0, <1>1, <2>1, <2>2 DEF HasFresh, Fresh, Page
  <2> QED
    BY <1>1, <2>1, <2>5, <2>3 DEF FreshOwned
<1>5. ASSUME NEW c \in Clients, Released(c) PROVE FreshOwned'
  <2>1. /\ handle' = [handle EXCEPT ![c] = <<>>] /\ matched' = [matched EXCEPT ![c] = 0]
        /\ UNCHANGED key_entry_map
    BY <1>5 DEF Released
  <2>2. Len(handle'[c]) = 0 /\ ~HasFresh(c)'
    BY <1>0, <2>1 DEF HasFresh
  <2>3. \A d \in Clients \ {c} : handle'[d] = handle[d] /\ matched'[d] = matched[d]
    BY <1>0, <2>1
  <2>4. \A a \in Clients \ {c} : HasFresh(a)' => HasFresh(a) /\ Fresh(a)' = Fresh(a)
    BY <2>3 DEF HasFresh, Fresh
  <2> QED
    BY <1>1, <2>1, <2>2, <2>3, <2>4 DEF FreshOwned
<1>6. CASE UNCHANGED <<handle, matched, key_entry_map>>
  BY <1>0, <1>6 DEF FreshOwned, HasFresh, Fresh
<1>7. \/ UNCHANGED <<handle, matched, key_entry_map>>
      \/ \E c \in Clients : Lookup(c) \/ NoColumn(c) \/ AppendPage(c) \/ Released(c)
  BY DEF Next, Flush, Client, FlushStart, FlushColumn, FlushDone, PinPage, LockPage, LockCache,
     EvictColumn, Evicted, TakeColumn, ToGpu, Absorb, TransferDone, Transferred, AppendToTree,
     Release, ReleasePage, vars, handleVars
<1> QED
  BY <1>2, <1>3, <1>4, <1>5, <1>6, <1>7

-----------------------------------------------------------------------------

(* A page to compute has no column before it is pinned, and is the occupant *)
(* of its column from then on: what is pinned is not evicted.              *)
LEMMA FreshPlacedStep ==
  ASSUME IInv, [Next]_vars
  PROVE  FreshPlaced'
<1> USE KeyAssumption
<1>0. /\ TypeOK /\ Shape /\ Locks /\ References /\ FreshOwned /\ DOMAIN pc = Clients
      /\ gpu_block_idx \in [Entries -> Columns \cup {None}]
      /\ occupations \in [Columns -> Entries \cup {None}]
      /\ at \in [Clients -> Nat] /\ handle \in [Clients -> Seq(Entries)]
      /\ \A c \in Clients : /\ ClientShape(c) /\ ClientPlaced(c) /\ ClientLocks(c)
                            /\ matched[c] \in Nat /\ at[c] \in Nat /\ Len(handle[c]) \in Nat
                            /\ \A i \in 1..Len(handle[c]) : handle[c][i] \in Entries
  <2>1. /\ TypeOK /\ Shape /\ Locks /\ References /\ FreshOwned /\ FreshPlaced
    BY DEF IInv
  <2>2. \A c \in Clients : /\ Len(handle[c]) \in Nat
                           /\ \A i \in 1..Len(handle[c]) : handle[c][i] \in Entries
    BY <2>1, HandlePages
  <2>3. \A c \in Clients : matched[c] \in Nat /\ at[c] \in Nat
    BY <2>1 DEF TypeOK
  <2>4. /\ gpu_block_idx \in [Entries -> Columns \cup {None}] /\ DOMAIN pc = Clients
        /\ occupations \in [Columns -> Entries \cup {None}]
        /\ at \in [Clients -> Nat] /\ handle \in [Clients -> Seq(Entries)]
    BY <2>1 DEF TypeOK
  <2> QED
    BY <2>1, <2>2, <2>3, <2>4 DEF Shape, Locks, FreshPlaced
<1>e. ASSUME NEW c \in Clients, EvictColumn(c), NEW a \in Clients, HasFresh(a),
             Holds(a, matched[a] + 1)
      PROVE  occupations'[gpu_block_idx[Fresh(a)]] = Fresh(a)
  <2>1. /\ Fresh(a) \in Entries /\ gpu_block_idx[Fresh(a)] \in Columns
        /\ occupations[gpu_block_idx[Fresh(a)]] = Fresh(a) /\ a \in Holders(Fresh(a))
    BY <1>0, <1>e DEF ClientPlaced, HasFresh, Fresh, Holders, Has, Holds
  <2>2. ref_count[Fresh(a)] # 0
    BY <1>0, <2>1, HeldCounted
  <2>3. \A i \in Columns : occupations'[i] # occupations[i] =>
          \E h \in Entries : occupations[i] = h /\ ref_count[h] = 0
    <3>1. \/ UNCHANGED occupations
          \/ /\ occupations' = [occupations EXCEPT ![scan[c]] = None]
             /\ occupations[scan[c]] # None /\ ref_count[occupations[scan[c]]] = 0
      BY <1>e DEF EvictColumn, can_desert
    <3> QED
      BY <1>0, <3>1
  <2> QED
    BY <2>1, <2>2, <2>3
<1>1. ASSUME NEW c \in Clients, Lookup(c) PROVE ClientPlaced(c)'
  <2>1. NewHandle(c) /\ pc'[c] = "pin" /\ at'[c] = 1 /\ UNCHANGED gpu_block_idx
    BY <1>0, <1>1, LookupHandle DEF Lookup, Goto, entryVars
  <2>2. HasFresh(c)' => Fresh(c)' \in Entries /\ Fresh(c)' > created
    BY <2>1 DEF NewHandle, HasFresh, Fresh
  <2>3. HasFresh(c)' => gpu_block_idx[Fresh(c)'] = None
    BY <2>2 DEF IInv, Known
  <2>4. ~Holds(c, matched[c] + 1)'
    BY <2>1 DEF NewHandle, Holds
  <2> QED
    BY <2>1, <2>3, <2>4 DEF ClientPlaced
<1>2. ASSUME NEW c \in Clients, PinPage(c) PROVE ClientPlaced(c)'
  <2>1. /\ pc[c] = "pin" /\ pc'[c] = "pin" /\ at[c] \in 1..Len(handle[c])
        /\ gpu_block_idx[Page(c)] # None /\ at'[c] = at[c] + 1
        /\ UNCHANGED <<gpu_block_idx, occupations, handle, matched>>
    BY <1>0, <1>2, AtAPage DEF PinPage, Pinned, Goto, columnVars, handleVars
  <2>2. HasFresh(c) => at[c] # matched[c] + 1
    BY <1>0, <2>1 DEF ClientPlaced, Page, Fresh
  <2> QED
    BY SMTT(30), <1>0, <2>1, <2>2 DEF ClientPlaced, HasFresh, Fresh, Holds
<1>3. ASSUME NEW c \in Clients, LockPage(c) PROVE ClientPlaced(c)'
  BY <1>3, <1>0 DEF LockPage, Goto, Page, AtPage, columnVars, waitVars, handleVars,
     flushVars, boundVars, ClientShape, HasFresh, Fresh, Holds, ClientPlaced
<1>4. ASSUME NEW c \in Clients, LockCache(c) PROVE ClientPlaced(c)'
  BY <1>4, <1>0 DEF LockCache, Goto, entryVars, waitVars, handleVars, flushVars, boundVars,
     ClientShape, HasFresh, AtPage, Fresh, Holds, ClientPlaced
<1>5. ASSUME NEW c \in Clients, EvictColumn(c) PROVE ClientPlaced(c)'
  <2>1. UNCHANGED <<gpu_block_idx, handle, matched, pc, at>>
    BY <1>5 DEF EvictColumn, handleVars
  <2>2. HasFresh(c) /\ Holds(c, matched[c] + 1) =>
          occupations'[gpu_block_idx[Fresh(c)]] = Fresh(c)
    BY <1>e, <1>5
  <2> QED
    BY <1>0, <2>1, <2>2 DEF ClientPlaced, HasFresh, Fresh, Holds
<1>6. ASSUME NEW c \in Clients, Evicted(c) PROVE ClientPlaced(c)'
  BY <1>6, <1>0 DEF Evicted, Goto, entryVars, columnVars, waitVars, handleVars, flushVars,
     boundVars, ClientShape, HasFresh, AtPage, Fresh, Holds, ClientPlaced
<1>7. ASSUME NEW c \in Clients, TakeColumn(c) PROVE ClientPlaced(c)'
  <2>1. /\ pc[c] = "take" /\ pc'[c] = "pin" /\ at[c] \in 1..Len(handle[c]) /\ Page(c) \in Entries
        /\ at'[c] = at[c] + 1 /\ UNCHANGED <<handle, matched>>
    BY <1>0, <1>7, AtAPage DEF TakeColumn, Pinned, Goto, handleVars
  <2>2. PICK i \in Columns : /\ occupations' = [occupations EXCEPT ![i] = Page(c)]
                             /\ gpu_block_idx' = [gpu_block_idx EXCEPT ![Page(c)] = i]
    BY <1>7 DEF TakeColumn
  <2>3. CASE at[c] = matched[c] + 1
    BY <1>0, <2>1, <2>2, <2>3 DEF ClientPlaced, HasFresh, Fresh, Holds, Page
  <2>4. CASE at[c] # matched[c] + 1
    <3>1. HasFresh(c) => /\ at[c] < matched[c] + 1 /\ Fresh(c) # Page(c) /\ Fresh(c) \in Entries
                         /\ gpu_block_idx[Fresh(c)] = None
      <4>1. HasFresh(c) => at[c] < matched[c] + 1 /\ Len(handle[c]) = 2 /\ at[c] = 1 /\ matched[c] = 1
        <5>1. \A m, n, a \in Nat : a \in 1..n /\ n <= 2 /\ m < n /\ n <= m + 1 /\ a # m + 1 =>
                a < m + 1 /\ n = 2 /\ a = 1 /\ m = 1
          OBVIOUS
        <5>2. HasFresh(c) => Len(handle[c]) <= 2 /\ matched[c] < Len(handle[c])
                             /\ Len(handle[c]) <= matched[c] + 1
          BY <1>0, <2>1 DEF ClientShape, HasFresh
        <5> QED
          BY <1>0, <2>1, <2>4, <5>1, <5>2
      <4> QED
        BY <1>0, <2>1, <4>1 DEF ClientShape, ClientPlaced, HasFresh, Fresh, Page
    <3>2. HasFresh(c) => gpu_block_idx'[Fresh(c)] = None
      BY <1>0, <2>1, <2>2, <3>1
    <3>3. HasFresh(c) => ~Holds(c, matched[c] + 1)'
      BY <1>0, <2>1, <3>1 DEF Holds
    <3> QED
      BY <1>0, <2>1, <3>2, <3>3 DEF ClientPlaced, HasFresh, Fresh
  <2> QED
    BY <2>3, <2>4
<1>8. ASSUME NEW c \in Clients, NoColumn(c) PROVE ClientPlaced(c)'
  <2>1. /\ pc[c] = "evict" /\ pc'[c] = "release" /\ at[c] \in 1..Len(handle[c])
        /\ handle'[c] = SubSeq(handle[c], 1, at[c] - 1)
        /\ UNCHANGED <<gpu_block_idx, occupations, matched>>
    BY <1>0, <1>8, AtAPage DEF NoColumn, Goto
  <2>2. /\ Len(handle'[c]) = at[c] - 1
        /\ \A i \in 1..(at[c] - 1) : handle'[c][i] = handle[c][i]
    BY <1>0, <2>1
  <2>3. ASSUME HasFresh(c)'
        PROVE  HasFresh(c) /\ Fresh(c)' = Fresh(c) /\ Holds(c, matched[c] + 1)
    <3>1. matched[c] + 1 \in 1..(at[c] - 1)
      BY <1>0, <2>1, <2>2, <2>3 DEF HasFresh
    <3>2. matched[c] < Len(handle[c]) /\ matched[c] + 1 < at[c] /\ matched[c] + 1 \in 1..Len(handle[c])
      BY <1>0, <2>1, <3>1
    <3> QED
      BY <2>1, <2>2, <3>1, <3>2 DEF HasFresh, Fresh, Holds
  <2> QED
    BY <1>0, <2>1, <2>3 DEF ClientPlaced
<1>9. ASSUME NEW c \in Clients, ToGpu(c) PROVE ClientPlaced(c)'
  BY <1>9, <1>0 DEF ToGpu, Goto, AtPage, entryVars, columnVars, handleVars, flushVars,
     boundVars, ClientShape, HasFresh, Fresh, Holds, ClientPlaced
<1>10. ASSUME NEW c \in Clients, Absorb(c) PROVE ClientPlaced(c)'
  BY <1>10, <1>0 DEF Absorb, Goto, Page, columnVars, handleVars, flushVars, boundVars,
     ClientShape, HasFresh, AtPage, Fresh, Holds, ClientPlaced
<1>11. ASSUME NEW c \in Clients, TransferDone(c) PROVE ClientPlaced(c)'
  BY <1>11, <1>0 DEF TransferDone, Page, entryVars, columnVars, handleVars, flushVars,
     boundVars, ClientShape, HasFresh, AtPage, Fresh, Holds, ClientPlaced
<1>12. ASSUME NEW c \in Clients, Transferred(c) PROVE ClientPlaced(c)'
  BY <1>12, <1>0 DEF Transferred, Goto, Page, columnVars, waitVars, handleVars, flushVars,
     boundVars, ClientShape, HasFresh, AtPage, Fresh, Holds, ClientPlaced
<1>13. ASSUME NEW c \in Clients, AppendToTree(c) PROVE ClientPlaced(c)'
  BY <1>13, <1>0 DEF AppendToTree, Goto, entryVars, columnVars, waitVars, flushVars,
     boundVars, ClientShape, HasFresh, AtPage, Fresh, Holds, ClientPlaced
<1>14. ASSUME NEW c \in Clients, AppendPage(c) PROVE ClientPlaced(c)'
  <2>1. Len(handle[c]) <= matched[c] + 1 /\ matched'[c] = matched[c] + 1 /\ handle' = handle
    BY <1>0, <1>14 DEF AppendPage, ClientShape, TypeOK
  <2> QED
    BY <1>0, <2>1 DEF ClientPlaced, HasFresh
<1>15. ASSUME NEW c \in Clients, Release(c) PROVE ClientPlaced(c)'
  BY <1>15, <1>0 DEF Release, Goto, entryVars, columnVars, waitVars, handleVars, flushVars,
     boundVars, ClientShape, HasFresh, AtPage, Fresh, Holds, ClientPlaced
<1>16. ASSUME NEW c \in Clients, ReleasePage(c) PROVE ClientPlaced(c)'
  BY SMTT(30), <1>16, <1>0 DEF ReleasePage, Page, AtPage, columnVars, waitVars, handleVars,
     flushVars, boundVars, ClientShape, HasFresh, Fresh, Holds, ClientPlaced
<1>17. ASSUME NEW c \in Clients, Released(c) PROVE ClientPlaced(c)'
  <2>1. Len(handle'[c]) = 0 /\ matched'[c] = 0
    BY <1>0, <1>17 DEF Released, TypeOK
  <2> QED
    BY <2>1 DEF ClientPlaced, HasFresh
<1>18. ASSUME NEW c \in Clients, Client(c), NEW d \in Clients \ {c} PROVE ClientPlaced(d)'
  <2>0. /\ HasFresh(d)' <=> HasFresh(d)
        /\ Fresh(d)' = Fresh(d) /\ matched'[d] = matched[d]
        /\ Holds(d, matched[d] + 1)' <=> Holds(d, matched[d] + 1)
        /\ pc'[d] = pc[d] /\ at'[d] = at[d] /\ ClientPlaced(d)
    BY <1>0, <1>18, OthersUnmoved DEF HasFresh, Fresh, Holds
  <2>1. CASE EvictColumn(c)
    <3>1. HasFresh(d) /\ Holds(d, matched[d] + 1) =>
            occupations'[gpu_block_idx[Fresh(d)]] = Fresh(d)
      BY <1>0, <1>e, <2>1
    <3>2. UNCHANGED gpu_block_idx
      BY <2>1 DEF EvictColumn
    <3> QED
      BY <2>0, <3>1, <3>2 DEF ClientPlaced
  <2>2. CASE TakeColumn(c)
    <3>1. Page(c) \in Entries /\ at[c] \in 1..Len(handle[c])
      BY <1>0, <2>2, AtAPage DEF TakeColumn
    <3>2. HasFresh(d) => Fresh(d) # Page(c) /\ Fresh(d) \in Entries
      BY <1>0, <3>1 DEF FreshOwned, Page, HasFresh, Fresh
    <3>3. PICK i \in Columns : /\ occupations[i] = None
                               /\ occupations' = [occupations EXCEPT ![i] = Page(c)]
                               /\ gpu_block_idx' = [gpu_block_idx EXCEPT ![Page(c)] = i]
      BY <2>2 DEF TakeColumn
    <3>4. HasFresh(d) => gpu_block_idx'[Fresh(d)] = gpu_block_idx[Fresh(d)]
      BY <1>0, <3>1, <3>2, <3>3
    <3>5. HasFresh(d) /\ Holds(d, matched[d] + 1) =>
            occupations'[gpu_block_idx[Fresh(d)]] = Fresh(d)
      BY <1>0, <2>0, <3>1, <3>2, <3>3 DEF ClientPlaced
    <3> QED
      BY <2>0, <3>4, <3>5 DEF ClientPlaced
  <2>3. CASE UNCHANGED <<gpu_block_idx, occupations>>
    BY <2>0, <2>3 DEF ClientPlaced
  <2>4. EvictColumn(c) \/ TakeColumn(c) \/ UNCHANGED <<gpu_block_idx, occupations>>
    BY <1>18 DEF Client, Lookup, PinPage, LockPage, LockCache, Evicted, NoColumn, ToGpu, Absorb,
       TransferDone, Transferred, AppendToTree, AppendPage, Release, ReleasePage, Released,
       entryVars, columnVars
  <2> QED
    BY <2>1, <2>2, <2>3, <2>4
<1>19. ASSUME NEW c \in Clients, Flush PROVE ClientPlaced(c)'
  BY <1>0, <1>19 DEF Flush, FlushStart, FlushColumn, FlushDone, entryVars, columnVars, handleVars,
     HasFresh, Fresh, Holds, ClientPlaced
<1>20. ASSUME NEW c \in Clients, UNCHANGED vars PROVE ClientPlaced(c)'
  BY <1>0, <1>20 DEF vars, entryVars, columnVars, handleVars, HasFresh, Fresh, Holds, ClientPlaced
<1>21. ASSUME NEW c \in Clients, Client(c) PROVE ClientPlaced(c)'
  BY <1>21, <1>1, <1>2, <1>3, <1>4, <1>5, <1>6, <1>7, <1>8, <1>9, <1>10, <1>11, <1>12,
     <1>13, <1>14, <1>15, <1>16, <1>17 DEF Client
<1> QED
  BY <1>18, <1>19, <1>20, <1>21 DEF Next, FreshPlaced

-----------------------------------------------------------------------------
(* What a client's step does to the transfers of an entry.                 *)

LEMMA TransferMoves ==
  ASSUME IInv, NEW c \in Clients, Client(c), NEW e \in Entries
  PROVE  \/ tc'[e] = tc[e]
         \/ tc'[e] = "has"
         \/ tc'[e] = "none" /\ ref_count[e] = 0
         \/ tc'[e] = c /\ tc[e] = "none" /\ pc'[c] = "transfer" /\ handle'[c][1] = e
<1>0. /\ TypeOK /\ Shape /\ DOMAIN pc = Clients /\ ClientShape(c)
      /\ tc \in [Entries -> Clients \cup {"none", "has"}]
  BY DEF IInv, TypeOK, Shape
<1>1. CASE EvictColumn(c)
  BY <1>0, <1>1 DEF EvictColumn, can_desert
<1>2. CASE Absorb(c)
  BY <1>0, <1>2 DEF Absorb, Goto, handleVars, ClientShape, Page
<1>3. CASE Transferred(c)
  BY <1>0, <1>3 DEF Transferred
<1>4. CASE AppendPage(c)
  BY <1>0, <1>4 DEF AppendPage
<1>5. CASE UNCHANGED tc
  BY <1>5
<1>6. EvictColumn(c) \/ Absorb(c) \/ Transferred(c) \/ AppendPage(c) \/ UNCHANGED tc
  BY DEF Client, Lookup, PinPage, LockPage, LockCache, Evicted, TakeColumn, NoColumn, ToGpu,
     TransferDone, AppendToTree, Release, ReleasePage, Released, entryVars
<1> QED
  BY <1>1, <1>2, <1>3, <1>4, <1>5, <1>6

\* A promise is made on the way to a transfer only.
LEMMA PromiseMoves ==
  ASSUME IInv, NEW c \in Clients, Client(c), NEW d \in Clients
  PROVE  pending'[d] = FALSE \/ pending'[d] = pending[d] \/ (d = c /\ pc[c] = "pin")
<1>1. CASE d # c
  <2>1. pending'[d] = pending[d]
    BY <1>1, OthersUnmoved
  <2> QED
    BY <2>1
<1>2. CASE d = c
  <2>1. CASE ToGpu(c)
    BY <1>2, <2>1 DEF ToGpu
  <2>2. CASE TransferDone(c)
    <3>1. pending' = [pending EXCEPT ![c] = FALSE] /\ pending \in [Clients -> BOOLEAN]
      BY <2>2 DEF TransferDone, IInv, TypeOK
    <3>2. pending'[c] = FALSE
      BY <3>1
    <3> QED
      BY <1>2, <3>2
  <2>3. CASE UNCHANGED pending
    BY <2>3
  <2>4. ToGpu(c) \/ TransferDone(c) \/ UNCHANGED pending
    BY DEF Client, Lookup, PinPage, LockPage, LockCache, EvictColumn, Evicted, TakeColumn,
       NoColumn, Absorb, Transferred, AppendToTree, AppendPage, Release, ReleasePage, Released,
       waitVars
  <2> QED
    BY <2>1, <2>2, <2>3, <2>4
<1> QED
  BY <1>1, <1>2


(* A transfer that somebody waits for is not forgotten: what is pinned is   *)
(* not evicted, and a promise is made before anybody can wait for it.      *)
LEMMA TransfersStep ==
  ASSUME IInv, [Next]_vars
  PROVE  Transfers'
<1> USE ClientAssumption, KeyAssumption
<1>0. /\ TypeOK /\ Shape /\ DOMAIN pc = Clients
      /\ tc \in [Entries -> Clients \cup {"none", "has"}] /\ pending \in [Clients -> BOOLEAN]
      /\ futs \in [Clients -> SUBSET Clients] /\ at \in [Clients -> Nat]
      /\ \A c \in Clients : /\ ClientShape(c) /\ ClientTransfers(c)
                            /\ c # "none" /\ c # "has"
                            /\ matched[c] \in Nat /\ at[c] \in Nat /\ Len(handle[c]) \in Nat
                            /\ \A i \in 1..Len(handle[c]) : handle[c][i] \in Entries
  <2>1. /\ TypeOK /\ Shape /\ Transfers
    BY DEF IInv
  <2>2. \A c \in Clients : /\ Len(handle[c]) \in Nat
                           /\ \A i \in 1..Len(handle[c]) : handle[c][i] \in Entries
    BY <2>1, HandlePages
  <2>3. \A c \in Clients : matched[c] \in Nat /\ at[c] \in Nat
    BY <2>1 DEF TypeOK
  <2>4. /\ tc \in [Entries -> Clients \cup {"none", "has"}] /\ pending \in [Clients -> BOOLEAN]
        /\ futs \in [Clients -> SUBSET Clients] /\ at \in [Clients -> Nat] /\ DOMAIN pc = Clients
    BY <2>1 DEF TypeOK
  <2> QED
    BY <2>1, <2>2, <2>3, <2>4 DEF Shape, Transfers
<1>1. ASSUME NEW c \in Clients, Lookup(c) PROVE ClientTransfers(c)'
  <2>1. pc'[c] # "transfer" /\ pc[c] # "transfer"
    BY <1>0, <1>1 DEF Lookup, Goto
  <2>2. \A e \in Entries : tc'[e] # c
    BY <1>0, <2>1, <1>1, TransferMoves DEF Client, ClientTransfers
  <2>3. pc'[c] \in {"ready", "append"} => matched'[c] = 0
    BY <1>0, <1>1 DEF Lookup, Goto
  <2> QED
    BY <2>1, <2>2, <2>3 DEF ClientTransfers
<1>2. ASSUME NEW c \in Clients, PinPage(c) PROVE ClientTransfers(c)'
  <2>1. pc'[c] # "transfer" /\ pc[c] # "transfer"
    BY <1>0, <1>2 DEF PinPage, Goto, Pinned
  <2>2. \A e \in Entries : tc'[e] # c
    BY <1>0, <2>1, <1>2, TransferMoves DEF Client, ClientTransfers
  <2>3. pc'[c] \in {"ready", "append"} => matched'[c] = 0
    BY <1>0, <1>2 DEF PinPage, Goto, Pinned
  <2> QED
    BY <2>1, <2>2, <2>3 DEF ClientTransfers
<1>3. ASSUME NEW c \in Clients, LockPage(c) PROVE ClientTransfers(c)'
  <2>1. pc'[c] # "transfer" /\ pc[c] # "transfer"
    BY <1>0, <1>3 DEF LockPage, Goto
  <2>2. \A e \in Entries : tc'[e] # c
    BY <1>0, <2>1, <1>3, TransferMoves DEF Client, ClientTransfers
  <2>3. pc'[c] \in {"ready", "append"} => matched'[c] = 0
    BY <1>0, <1>3 DEF LockPage, Goto
  <2> QED
    BY <2>1, <2>2, <2>3 DEF ClientTransfers
<1>4. ASSUME NEW c \in Clients, LockCache(c) PROVE ClientTransfers(c)'
  <2>1. pc'[c] # "transfer" /\ pc[c] # "transfer"
    BY <1>0, <1>4 DEF LockCache, Goto
  <2>2. \A e \in Entries : tc'[e] # c
    BY <1>0, <2>1, <1>4, TransferMoves DEF Client, ClientTransfers
  <2>3. pc'[c] \in {"ready", "append"} => matched'[c] = 0
    BY <1>0, <1>4 DEF LockCache, Goto
  <2> QED
    BY <2>1, <2>2, <2>3 DEF ClientTransfers
<1>5. ASSUME NEW c \in Clients, EvictColumn(c) PROVE ClientTransfers(c)'
  <2>1. pc'[c] # "transfer" /\ pc[c] # "transfer"
    BY <1>0, <1>5 DEF EvictColumn
  <2>2. \A e \in Entries : tc'[e] # c
    BY <1>0, <2>1, <1>5, TransferMoves DEF Client, ClientTransfers
  <2>3. pc'[c] \in {"ready", "append"} => matched'[c] = 0
    BY <1>0, <1>5 DEF EvictColumn
  <2> QED
    BY <2>1, <2>2, <2>3 DEF ClientTransfers
<1>6. ASSUME NEW c \in Clients, Evicted(c) PROVE ClientTransfers(c)'
  <2>1. pc'[c] # "transfer" /\ pc[c] # "transfer"
    BY <1>0, <1>6 DEF Evicted, Goto
  <2>2. \A e \in Entries : tc'[e] # c
    BY <1>0, <2>1, <1>6, TransferMoves DEF Client, ClientTransfers
  <2>3. pc'[c] \in {"ready", "append"} => matched'[c] = 0
    BY <1>0, <1>6 DEF Evicted, Goto
  <2> QED
    BY <2>1, <2>2, <2>3 DEF ClientTransfers
<1>7. ASSUME NEW c \in Clients, TakeColumn(c) PROVE ClientTransfers(c)'
  <2>1. pc'[c] # "transfer" /\ pc[c] # "transfer"
    BY <1>0, <1>7 DEF TakeColumn, Goto, Pinned
  <2>2. \A e \in Entries : tc'[e] # c
    BY <1>0, <2>1, <1>7, TransferMoves DEF Client, ClientTransfers
  <2>3. pc'[c] \in {"ready", "append"} => matched'[c] = 0
    BY <1>0, <1>7 DEF TakeColumn, Goto, Pinned
  <2> QED
    BY <2>1, <2>2, <2>3 DEF ClientTransfers
<1>8. ASSUME NEW c \in Clients, NoColumn(c) PROVE ClientTransfers(c)'
  <2>1. pc'[c] # "transfer" /\ pc[c] # "transfer"
    BY <1>0, <1>8 DEF NoColumn, Goto
  <2>2. \A e \in Entries : tc'[e] # c
    BY <1>0, <2>1, <1>8, TransferMoves DEF Client, ClientTransfers
  <2>3. pc'[c] \in {"ready", "append"} => matched'[c] = 0
    BY <1>0, <1>8 DEF NoColumn, Goto
  <2> QED
    BY <2>1, <2>2, <2>3 DEF ClientTransfers
<1>9. ASSUME NEW c \in Clients, ToGpu(c) PROVE ClientTransfers(c)'
  <2>1. pc'[c] # "transfer" /\ pc[c] # "transfer"
    BY <1>0, <1>9 DEF ToGpu, Goto
  <2>2. \A e \in Entries : tc'[e] # c
    BY <1>0, <2>1, <1>9, TransferMoves DEF Client, ClientTransfers
  <2>3. pc'[c] \in {"ready", "append"} => matched'[c] = 0
    BY <1>0, <1>9 DEF ToGpu, Goto, handleVars
  <2> QED
    BY <2>1, <2>2, <2>3 DEF ClientTransfers
<1>10. ASSUME NEW c \in Clients, Absorb(c) PROVE ClientTransfers(c)'
  <2>1. /\ Page(c) \in Entries /\ Page(c) = handle[c][1]
        /\ pc'[c] = "transfer" /\ pc[c] = "absorb" /\ UNCHANGED <<handle, pending>>
        /\ tc' = IF tc[Page(c)] = "none" THEN [tc EXCEPT ![Page(c)] = c] ELSE tc
        /\ futs'[c] = {d \in Clients \ {c} : tc[Page(c)] = d /\ pending[d]}
    BY <1>0, <1>10, AtAPage DEF Absorb, Goto, handleVars, ClientShape, Page
  <2>2. \A e \in Entries : tc[e] # c
    BY <1>0, <2>1 DEF ClientTransfers
  <2>3. \A e \in Entries : tc'[e] = c => e = Page(c)
    BY <1>0, <2>1, <2>2
  <2>4. \/ tc'[Page(c)] \in {"has", c}
        \/ \E d \in Clients : tc'[Page(c)] = d /\ (pending[d] => d \in futs'[c])
    BY <1>0, <2>1, <2>2
  <2> QED
    BY <2>1, <2>3, <2>4 DEF ClientTransfers
<1>11. ASSUME NEW c \in Clients, TransferDone(c) PROVE ClientTransfers(c)'
  <2>1. /\ pc[c] = "transfer" /\ UNCHANGED <<tc, pc, handle>> /\ handle[c][1] \in Entries
        /\ pending' = [pending EXCEPT ![c] = FALSE] /\ futs'[c] = futs[c] \ {c}
    BY SMTT(30), <1>0, <1>11 DEF TransferDone, entryVars, handleVars, ClientShape
  <2>2. \A d \in Clients : (pending[d] => d \in futs[c]) => (pending'[d] => d \in futs'[c])
    BY <1>0, <2>1
  <2> QED
    BY <1>0, <2>1, <2>2 DEF ClientTransfers
<1>12. ASSUME NEW c \in Clients, Transferred(c) PROVE ClientTransfers(c)'
  <2>1. /\ Page(c) \in Entries /\ Page(c) = handle[c][1] /\ matched[c] = 1
        /\ pc[c] = "transfer" /\ pc'[c] = "ready" /\ futs[c] = {}
        /\ UNCHANGED <<handle, matched, pending>>
        /\ tc' = IF tc[Page(c)] = c THEN [tc EXCEPT ![Page(c)] = "has"] ELSE tc
    BY <1>0, <1>12, AtAPage DEF Transferred, Goto, handleVars, waitVars, ClientShape, Page
  <2>2. \A e \in Entries : tc'[e] # c
    BY <1>0, <2>1 DEF ClientTransfers
  <2>3. tc'[Page(c)] = "has" \/ \E d \in Clients : tc'[Page(c)] = d /\ ~pending'[d]
    BY <1>0, <2>1 DEF ClientTransfers
  <2> QED
    BY <2>1, <2>2, <2>3 DEF ClientTransfers
<1>13. ASSUME NEW c \in Clients, AppendToTree(c) PROVE ClientTransfers(c)'
  <2>1. /\ pc[c] = "ready" /\ pc'[c] = "append" /\ UNCHANGED <<tc, handle, matched, pending>>
    BY <1>0, <1>13 DEF AppendToTree, Goto, entryVars, waitVars
  <2> QED
    BY <1>0, <2>1 DEF ClientTransfers
<1>14. ASSUME NEW c \in Clients, AppendPage(c) PROVE ClientTransfers(c)'
  <2>1. /\ pc[c] = "append" /\ pc'[c] = "ready" /\ UNCHANGED <<handle, pending>>
        /\ Page(c) \in Entries /\ Page(c) = handle[c][matched[c] + 1]
        /\ tc' = [tc EXCEPT ![Page(c)] = "has"] /\ matched'[c] = matched[c] + 1
    BY <1>0, <1>14, AtAPage DEF AppendPage, Goto, waitVars, ClientShape, Page, TypeOK
  <2>2. \A e \in Entries : tc'[e] # c
    BY <1>0, <2>1 DEF ClientTransfers
  <2>3. ASSUME NEW i \in 1..matched'[c]
        PROVE  \/ tc'[handle[c][i]] = "has"
               \/ \E d \in Clients : tc'[handle[c][i]] = d /\ ~pending[d]
    <3>1. CASE i = matched[c] + 1
      BY <1>0, <2>1, <3>1
    <3>2. CASE i \in 1..matched[c]
      <4>1. handle[c][i] \in Entries
        BY <1>0, <2>1, <3>2 DEF ClientShape, HasFresh
      <4>2. \/ tc[handle[c][i]] = "has"
            \/ \E d \in Clients : tc[handle[c][i]] = d /\ ~pending[d]
        BY <1>0, <2>1, <3>2 DEF ClientTransfers
      <4>3. tc'[handle[c][i]] \in {"has", tc[handle[c][i]]}
        BY <1>0, <2>1, <4>1
      <4> QED
        BY <4>2, <4>3
    <3> QED
      BY <1>0, <2>1, <3>1, <3>2
  <2> QED
    BY <2>1, <2>2, <2>3 DEF ClientTransfers
<1>15. ASSUME NEW c \in Clients, Release(c) PROVE ClientTransfers(c)'
  <2>1. pc'[c] # "transfer" /\ pc[c] # "transfer"
    BY <1>0, <1>15 DEF Release, Goto
  <2>2. \A e \in Entries : tc'[e] # c
    BY <1>0, <2>1, <1>15, TransferMoves DEF Client, ClientTransfers
  <2>3. pc'[c] \in {"ready", "append"} => matched'[c] = 0
    BY <1>0, <1>15 DEF Release, Goto
  <2> QED
    BY <2>1, <2>2, <2>3 DEF ClientTransfers
<1>16. ASSUME NEW c \in Clients, ReleasePage(c) PROVE ClientTransfers(c)'
  <2>1. pc'[c] # "transfer" /\ pc[c] # "transfer"
    BY <1>0, <1>16 DEF ReleasePage
  <2>2. \A e \in Entries : tc'[e] # c
    BY <1>0, <2>1, <1>16, TransferMoves DEF Client, ClientTransfers
  <2>3. pc'[c] \in {"ready", "append"} => matched'[c] = 0
    BY <1>0, <1>16 DEF ReleasePage
  <2> QED
    BY <2>1, <2>2, <2>3 DEF ClientTransfers
<1>17. ASSUME NEW c \in Clients, Released(c) PROVE ClientTransfers(c)'
  <2>1. pc'[c] # "transfer" /\ pc[c] # "transfer"
    BY <1>0, <1>17 DEF Released, Goto
  <2>2. \A e \in Entries : tc'[e] # c
    BY <1>0, <2>1, <1>17, TransferMoves DEF Client, ClientTransfers
  <2>3. pc'[c] \in {"ready", "append"} => matched'[c] = 0
    BY <1>0, <1>17 DEF Released, Goto
  <2> QED
    BY <2>1, <2>2, <2>3 DEF ClientTransfers
<1>18. ASSUME NEW c \in Clients, Client(c), NEW d \in Clients \ {c} PROVE ClientTransfers(d)'
  <2>0. /\ pc'[d] = pc[d] /\ handle'[d] = handle[d] /\ matched'[d] = matched[d]
        /\ ClientShape(d) /\ ClientTransfers(d) /\ d # c
    BY <1>0, <1>18, OthersUnmoved
  <2>1. \A e \in Entries : tc'[e] = d => tc[e] = d
    BY <1>0, <2>0, <1>18, TransferMoves
  <2>2. ASSUME NEW i \in 1..Len(handle[d]), pc[d] \in {"transfer", "ready", "append"},
               tc[handle[d][i]] # "none"
        PROVE  tc'[handle[d][i]] \in {"has", tc[handle[d][i]]}
    <3>1. handle[d][i] \in Entries /\ d \in Holders(handle[d][i])
      BY <1>0, <2>2 DEF Holders, Has, Holds
    <3>2. ref_count[handle[d][i]] # 0
      BY <3>1, HeldCounted DEF IInv
    <3> QED
      BY <2>2, <3>1, <3>2, <1>18, TransferMoves
  <2>3. ASSUME NEW e \in Entries, NEW b \in Clients, tc[e] = b, ~pending[b]
        PROVE  ~pending'[b]
    <3>1. ~(b = c /\ pc[c] = "pin")
      BY <1>0, <2>3 DEF ClientTransfers
    <3> QED
      BY <2>3, <3>1, <1>18, PromiseMoves
  <2>4. pc[d] = "transfer" =>
          \/ tc'[handle[d][1]] \in {"has", d}
          \/ \E b \in Clients : tc'[handle[d][1]] = b /\ (pending'[b] => b \in futs'[d])
    <3>1. SUFFICES ASSUME pc[d] = "transfer" 
                   PROVE  \/ tc'[handle[d][1]] \in {"has", d}
                          \/ \E b \in Clients : tc'[handle[d][1]] = b /\ (pending'[b] => b \in futs'[d])
      OBVIOUS
    <3>2. 1 \in 1..Len(handle[d]) /\ handle[d][1] \in Entries
      BY <1>0, <2>0, <3>1 DEF ClientShape
    <3>3. tc[handle[d][1]] # "none"
      BY <1>0, <2>0, <3>1 DEF ClientTransfers
    <3>4. tc'[handle[d][1]] \in {"has", tc[handle[d][1]]}
      BY <2>2, <3>1, <3>2, <3>3
    <3>5. ASSUME NEW b \in Clients, tc[handle[d][1]] = b, pending[b] => b \in futs[d]
          PROVE  pending'[b] => b \in futs'[d]
      <4>1. CASE ~pending[b]
        BY <2>3, <3>2, <3>5, <4>1
      <4>2. CASE b \in futs[d]
        <5>1. CASE TransferDone(c)
          BY <1>0, <4>2, <5>1 DEF TransferDone
        <5>2. CASE ~TransferDone(c)
          <6>1. futs'[d] = futs[d]
            BY <1>0, <2>0, <1>18, <5>2 DEF Client, Lookup, PinPage, LockPage, LockCache, EvictColumn,
               Evicted, TakeColumn, NoColumn, ToGpu, Absorb, Transferred, AppendToTree, AppendPage,
               Release, ReleasePage, Released, waitVars
          <6> QED
            BY <4>2, <6>1
        <5> QED
          BY <5>1, <5>2
      <4> QED
        BY <3>5, <4>1, <4>2
    <3> QED
      BY <1>0, <2>0, <3>1, <3>4, <3>5 DEF ClientTransfers
  <2>5. pc[d] \in {"ready", "append"} => \A i \in 1..matched[d] :
          \/ tc'[handle[d][i]] = "has"
          \/ \E b \in Clients : tc'[handle[d][i]] = b /\ ~pending'[b]
    <3>1. SUFFICES ASSUME pc[d] \in {"ready", "append"}, NEW i \in 1..matched[d]
                   PROVE  \/ tc'[handle[d][i]] = "has"
                          \/ \E b \in Clients : tc'[handle[d][i]] = b /\ ~pending'[b]
      OBVIOUS
    <3>2. i \in 1..Len(handle[d]) /\ handle[d][i] \in Entries
      BY <1>0, <2>0, <3>1 DEF ClientShape
    <3>3. \/ tc[handle[d][i]] = "has"
          \/ \E b \in Clients : tc[handle[d][i]] = b /\ ~pending[b]
      BY <2>0, <3>1 DEF ClientTransfers
    <3>4. tc'[handle[d][i]] \in {"has", tc[handle[d][i]]}
      BY <1>0, <2>2, <3>1, <3>2, <3>3
    <3> QED
      BY <2>3, <3>2, <3>3, <3>4
  <2> QED
    BY <2>0, <2>1, <2>4, <2>5 DEF ClientTransfers
<1>19. ASSUME NEW c \in Clients, Flush PROVE ClientTransfers(c)'
  <2>1. UNCHANGED <<tc, pc, handle, matched, pending, futs>>
    BY <1>19 DEF Flush, FlushStart, FlushColumn, FlushDone, entryVars, waitVars, handleVars
  <2> QED
    BY <1>0, <2>1 DEF ClientTransfers
<1>20. ASSUME NEW c \in Clients, UNCHANGED vars PROVE ClientTransfers(c)'
  BY <1>0, <1>20 DEF vars, entryVars, waitVars, handleVars, ClientTransfers
<1>21. ASSUME NEW c \in Clients, Client(c) PROVE ClientTransfers(c)'
  BY <1>21, <1>1, <1>2, <1>3, <1>4, <1>5, <1>6, <1>7, <1>8, <1>9, <1>10, <1>11, <1>12,
     <1>13, <1>14, <1>15, <1>16, <1>17 DEF Client
<1> QED
  BY <1>18, <1>19, <1>20, <1>21 DEF Next, Transfers

-----------------------------------------------------------------------------
(* The invariant holds at the start, is kept, and implies what is promised. *)

LEMMA Initially == Init => IInv
<1> SUFFICES ASSUME Init PROVE IInv
  OBVIOUS
<1> USE ClientAssumption, KeyAssumption, SizeAssumption DEF Init
<1>1. \A c \in Clients : Len(handle[c]) = 0
  OBVIOUS
<1>2. TypeOK
  BY DEF TypeOK
<1>3. Shape /\ Locks
  BY <1>1 DEF Shape, ClientShape, Locks, ClientLocks, HasFresh
<1>4. Books
  <2>1. Free(occupations) = Columns
    BY DEF Free
  <2>2. Cardinality(Columns) = NumColumns
    BY FS_Interval DEF Columns
  <2> QED
    BY <2>1, <2>2 DEF Books
<1>5. References
  <2>1. \A e : Holders(e) = {}
    BY <1>1 DEF Holders, Has
  <2> QED
    BY <2>1, FS_EmptySet DEF References
<1>6. Known /\ FreshOwned /\ FreshPlaced
  BY <1>1 DEF Known, FreshOwned, FreshPlaced, ClientPlaced, HasFresh
<1>7. Transfers
  BY DEF Transfers, ClientTransfers
<1> QED
  BY <1>2, <1>3, <1>4, <1>5, <1>6, <1>7 DEF IInv

LEMMA Preserved == IInv /\ [Next]_vars => IInv'
BY TypeStep, ShapeStep, LocksStep, BooksStep, ReferencesStep, KnownStep, FreshOwnedStep,
   FreshPlacedStep, TransfersStep DEF IInv

LEMMA Invariant == Spec => []IInv
BY Initially, Preserved, PTL DEF Spec

LEMMA Accounted == IInv => ColumnsAccounted
<1> SUFFICES ASSUME IInv PROVE ColumnsAccounted
  OBVIOUS
<1>1. Books /\ Locks /\ num_free_pages \in Nat
  BY SizeAssumption DEF IInv, TypeOK
<1>2. ASSUME NEW c \in Clients, pc[c] = "take"
      PROVE  \E i \in Columns : occupations[i] = None
  <2>1. num_free_pages # 0
    BY <1>1, <1>2 DEF Locks, ClientLocks
  <2>2. Free(occupations) # {}
    BY <1>1, <2>1, FS_EmptySet DEF Books
  <2> QED
    BY <2>2 DEF Free
<1> QED
  BY <1>1, <1>2 DEF ColumnsAccounted, Books, Free

-----------------------------------------------------------------------------

(* Every variable stays in the range its C++ type gives it: no reference   *)
(* count goes below zero, no count of free columns leaves its range, and   *)
(* no column is given to a page that is not there.                         *)
THEOREM TypeCorrect == Spec => []TypeOK
<1>1. IInv => TypeOK
  BY DEF IInv
<1> QED
  BY <1>1, Invariant, PTL

(* alloc_col, evict_cols, append_tokens and the background flush keep the  *)
(* books of the columns balanced between them, whatever their interleaving: *)
(* an occupant knows its column, next_empty_col finds one whenever it is   *)
(* called, and a dirty page stays in its column until it is copied back.   *)
THEOREM ColumnsBalanced == Spec => []ColumnsAccounted
BY Accounted, Invariant, PTL

(* A lookup that shares an entry with another, through absorb_tc and the   *)
(* promises, never calls back before the page is on the device.            *)
THEOREM TransfersAwaited == Spec => []TransferAwaited
<1>1. IInv => TransferAwaited
  BY DEF IInv, Transfers, ClientTransfers, TransferAwaited
<1> QED
  BY <1>1, Invariant, PTL

(* The reference count of an entry is the number of the clients that have  *)
(* pinned it: alloc_on_gpu_cols and gpu_releaser are matched, also when a  *)
(* lookup finds no column half way and lets go of what it had pinned.      *)
THEOREM PinsCounted == Spec => []References
<1>1. IInv => References
  BY DEF IInv
<1> QED
  BY <1>1, Invariant, PTL

(* What somebody has pinned is not evicted: no step takes an entry that a  *)
(* client holds out of its column.                                         *)
THEOREM PinnedStays ==
  Spec => [][\A i \in Columns, e \in Entries :
               occupations[i] = e /\ Holders(e) # {} => occupations'[i] = e]_vars
<1>1. ASSUME IInv, Next, NEW i \in Columns, NEW e \in Entries, occupations[i] = e, Holders(e) # {}
      PROVE  occupations'[i] = e
  <2>1. /\ occupations \in [Columns -> Entries \cup {None}] /\ ref_count[e] # 0
        /\ None \notin Entries
    BY <1>1, HeldCounted, KeyAssumption DEF IInv, TypeOK
  <2>2. ASSUME NEW c \in Clients, EvictColumn(c) PROVE occupations'[i] = e
    BY <1>1, <2>1, <2>2 DEF EvictColumn, can_desert
  <2>3. ASSUME NEW c \in Clients, TakeColumn(c) PROVE occupations'[i] = e
    BY <1>1, <2>1, <2>3 DEF TakeColumn
  <2>4. UNCHANGED occupations \/ \E c \in Clients : EvictColumn(c) \/ TakeColumn(c)
    BY <1>1 DEF Next, Flush, Client, FlushStart, FlushColumn, FlushDone, Lookup, PinPage, LockPage,
       LockCache, Evicted, NoColumn, ToGpu, Absorb, TransferDone, Transferred, AppendToTree,
       AppendPage, Release, ReleasePage, Released, columnVars
  <2> QED
    BY <1>1, <2>2, <2>3, <2>4
<1>2. IInv /\ [Next]_vars =>
        [\A i \in Columns, e \in Entries :
           occupations[i] = e /\ Holders(e) # {} => occupations'[i] = e]_vars
  BY <1>1
<1> QED
  BY <1>2, Invariant, PTL DEF Spec
=============================================================================
