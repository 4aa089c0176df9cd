----------------------------- MODULE PieceCache -----------------------------
(***************************************************************************)
(* The cache of piece data that all torrents of a session share, and its   *)
(* readers: the messageWriter goroutines, which read a block through       *)
(* CachedPiece.ReadAt just before they upload it.                          *)
(*                                                                         *)
(* A reader works under three locks: the cache's mutex m for each visit to *)
(* the map or the access list, the mutex of the item from the check of     *)
(* `loaded` until it returns, and a semaphore for the parallel reads of    *)
(* the disk.  Between two of them, other readers and timers run.           *)
(***************************************************************************)
EXTENDS Integers, Sequences, FiniteSets, SequencesExt, Functions

CONSTANTS
  Reader,         \* the messageWriter goroutines
  Torrent,
  Piece,          \* indexes of cached blocks, the same ones for every torrent
  SizeOf,         \* the size of a piece's data
  MaxSize,        \* cfg.ReadCacheSize
  ParallelReads,  \* cfg.ParallelReads
  Id,             \* the addresses of items; unreachable ones are reused
  None

ASSUME CacheAssumption ==
  /\ SizeOf \in [Piece -> Nat \ {0}] /\ MaxSize \in Nat /\ ParallelReads \in Nat \ {0}
  /\ Piece # {} /\ Id \subseteq Nat /\ None \notin Id \cup Reader \cup (Torrent \X Piece)

VARIABLES
  items,    \* Cache.items: the item of each key
  item,     \* the items themselves
  list,     \* Cache.accessList, the least recently accessed item first
  size,     \* Cache.size
  armed,    \* items whose timer is running
  firing,   \* items whose timer's function waits for m
  reader    \* what each reader is doing

vars == <<items, item, list, size, armed, firing, reader>>

Block == Torrent \X Piece

Item == [key : Piece, data : Block \cup {None}, state : {"new", "loaded", "failed"},
         timed : BOOLEAN, holder : Reader \cup {None}]

(* want is the block a reader asks for and it the item of its key.         *)
ReaderState ==
  [pc : {"idle", "locking", "touching", "waiting", "loading", "inserting"},
   want : Block \cup {None}, it : Id \cup {None}]

(* CachedPiece.ReadAt makes the key of the torrent's peerID and the        *)
(* block's index, but no torrent ever sets its peerID.                     *)
KeyOf(b) == b[2]

DataSize(i) == SizeOf[item[i].key]

NewItem(k) == [key |-> k, data |-> None, state |-> "new", timed |-> FALSE, holder |-> None]

Init ==
  /\ items = [k \in Piece |-> None]
  /\ item = [i \in Id |-> NewItem(CHOOSE k \in Piece : TRUE)]
  /\ list = <<>> /\ size = 0 /\ armed = {} /\ firing = {}
  /\ reader = [r \in Reader |-> [pc |-> "idle", want |-> None, it |-> None]]

Reachable ==
  {items[k] : k \in Piece} \cup ToSet(list) \cup armed \cup firing
    \cup {reader[r].it : r \in Reader}

(* The items of f after a step, unreachable ones forgotten.                *)
Kept(f) == [i \in Id |-> IF i \in Reachable' THEN f[i] ELSE NewItem(CHOOSE k \in Piece : TRUE)]

(* A new item: which of the free ones makes no difference.                 *)
NextFree == LET free == Id \ Reachable IN {i \in free : \A j \in free : i <= j}

-----------------------------------------------------------------------------
(* Cache.Get: getItem, under m.                                            *)
Get(r, b) ==
  /\ reader[r].pc = "idle"
  /\ LET k == KeyOf(b)
         found == items[k] # None
     IN \E i \in IF found THEN {items[k]} ELSE NextFree :
          /\ items' = [items EXCEPT ![k] = i]
          /\ item' = IF found THEN item
                     ELSE [item EXCEPT ![i] = NewItem(k)]
          /\ reader' = [reader EXCEPT ![r] =
                          [pc |-> "locking", want |-> b, it |-> i]]
  /\ UNCHANGED <<list, size, armed, firing>>

Returned(r) == [reader EXCEPT ![r] = [pc |-> "idle", want |-> None, it |-> None]]

LockUnheld(r) ==
  LET i == reader[r].it
  IN /\ reader[r].pc = "locking" /\ item[i].state # "failed"
     /\ item' = [item EXCEPT ![i].holder = r]
     /\ reader' = [reader EXCEPT ![r].pc = IF item[i].state = "new" THEN "waiting"
                                            ELSE "touching"]
     /\ UNCHANGED <<items, list, size, armed, firing>>

(* getValue takes the item's lock, and looks whether it is loaded.         *)
Lock(r) ==
  LET i == reader[r].it
  IN /\ reader[r].pc = "locking" /\ item[i].holder = None /\ item[i].state # "failed"
     /\ item' = [item EXCEPT ![i].holder = r]
     /\ reader' = [reader EXCEPT ![r].pc = IF item[i].state = "new" THEN "waiting"
                                            ELSE "touching"]
     /\ UNCHANGED <<items, list, size, armed, firing>>

(* The load it has waited for has failed.                                  *)
LockFailed(r) ==
  /\ reader[r].pc = "locking"
  /\ item[reader[r].it].holder = None /\ item[reader[r].it].state = "failed"
  /\ reader' = Returned(r)
  /\ UNCHANGED <<items, list, size, armed, firing>>
  /\ item' = Kept(item)

(* item.index, the place of a listed item in the access list.              *)
Index(i) == CHOOSE n \in 1 .. Len(list) : list[n] = i

(* updateAccessTime, under m.  The item may have left the list meanwhile;  *)
(* then heap.Fix and, later, the timer do nothing.  A nil timer panics.    *)
Touch(r) ==
  LET i == reader[r].it
  IN /\ reader[r].pc = "touching" /\ item[i].timed
     /\ list' = IF Contains(list, i) THEN Append(RemoveAt(list, Index(i)), i) ELSE list
     /\ armed' = IF Contains(list, i) THEN armed \cup {i} ELSE armed
     /\ reader' = Returned(r)
     /\ UNCHANGED <<items, size, firing>>
     /\ item' = Kept([item EXCEPT ![i].holder = None])

-----------------------------------------------------------------------------
(* Loading an item.                                                        *)

(* Semaphore.Wait.                                                         *)
Acquire(r) ==
  /\ reader[r].pc = "waiting"
  /\ Cardinality({q \in Reader : reader[q].pc = "loading"}) < ParallelReads
  /\ reader' = [reader EXCEPT ![r].pc = "loading"]
  /\ UNCHANGED <<items, item, list, size, armed, firing>>

(* The loader reads the disk; Semaphore.Signal.                            *)
Load(r, ok) ==
  LET i == reader[r].it
  IN /\ reader[r].pc = "loading"
     /\ item' = [item EXCEPT ![i].state = IF ok THEN "loaded" ELSE "failed",
                             ![i].data = IF ok THEN reader[r].want ELSE None]
     /\ reader' = [reader EXCEPT ![r].pc = "inserting"]
     /\ UNCHANGED <<items, list, size, armed, firing>>

(* removeItem of the items of s: from the map, the list and the size.      *)
Dropped(s) == [k \in Piece |-> IF \E i \in s : item[i].key = k THEN None ELSE items[k]]
SizeSum(s) == SumFunctionOnSet([i \in Id |-> DataSize(i)], s)

EvictedOne(need) == IF MaxSize - size < need THEN 1 ELSE 0

(* makeRoom: how many items it removes, the least recently accessed first. *)
Oldest(n) == ToSet(SubSeq(list, 1, n))
Evicted(need) ==
  LET enough(n) == MaxSize - (size - SizeSum(Oldest(n))) >= need
  IN CHOOSE n \in 0 .. Len(list) : enough(n) /\ \A j \in 0 .. n - 1 : ~enough(j)

(* handleNewItem, under m.                                                 *)
Insert(r) ==
  LET i == reader[r].it
      n == Evicted(DataSize(i))
      out == Oldest(n)
  IN /\ reader[r].pc = "inserting" /\ item[i].state = "loaded" /\ DataSize(i) <= MaxSize
     /\ items' = Dropped(out)
     /\ list' = Append(SubSeq(list, n + 1, Len(list)), i)
     /\ size' = size - SizeSum(out) + DataSize(i)
     /\ armed' = (armed \ out) \cup {i}
     /\ reader' = Returned(r)
     /\ UNCHANGED firing
     /\ item' = Kept([item EXCEPT ![i].timed = TRUE, ![i].holder = None])

InsertNotHolding(r) ==
  LET i == reader[r].it
  IN /\ reader[r].pc = "inserting"
     /\ item[i].state = "failed" \/ DataSize(i) > MaxSize
     /\ items' = [items EXCEPT ![item[i].key] = None]
     /\ reader' = Returned(r)
     /\ UNCHANGED <<list, size, armed, firing>>
     /\ item' = Kept(item)

(* handleNewItem for an error, and for a value larger than the cache: the  *)
(* item is not kept, but readers may already be waiting for its lock.      *)
InsertNot(r) ==
  LET i == reader[r].it
  IN /\ reader[r].pc = "inserting"
     /\ item[i].state = "failed" \/ DataSize(i) > MaxSize
     /\ items' = [items EXCEPT ![item[i].key] = None]
     /\ reader' = Returned(r)
     /\ UNCHANGED <<list, size, armed, firing>>
     /\ item' = Kept([item EXCEPT ![i].holder = None])

-----------------------------------------------------------------------------
(* An item's timer: it fires, and its function gets m later.               *)

Expire(i) ==
  /\ i \in armed
  /\ armed' = armed \ {i} /\ firing' = firing \cup {i}
  /\ UNCHANGED <<items, item, list, size, reader>>

RemoveExpired(i) ==
  /\ i \in firing
  /\ firing' = firing \ {i}
  /\ IF Contains(list, i)
     THEN /\ items' = Dropped({i}) /\ list' = RemoveAt(list, Index(i))
          /\ size' = size - DataSize(i) /\ armed' = armed \ {i}
     ELSE UNCHANGED <<items, list, size, armed>>
  /\ UNCHANGED reader
  /\ item' = Kept(item)

-----------------------------------------------------------------------------
Inside(r) ==
  \/ Lock(r) \/ LockFailed(r) \/ Touch(r) \/ Acquire(r)
  \/ (\E ok \in BOOLEAN : Load(r, ok)) \/ Insert(r) \/ InsertNot(r)

Timer(i) == Expire(i) \/ RemoveExpired(i)

Next ==
  \/ \E r \in Reader : Inside(r) \/ \E b \in Block : Get(r, b)
  \/ \E i \in Id : Timer(i)

Spec == Init /\ [][Next]_vars

(* A goroutine that can run does.  Go's mutexes and channels do not starve *)
(* a goroutine that waits for them: strong fairness for those steps.       *)
FairSpec ==
  /\ Spec
  /\ \A r \in Reader : WF_vars(Inside(r)) /\ SF_vars(Lock(r)) /\ SF_vars(Acquire(r))

-----------------------------------------------------------------------------
(* Properties.                                                             *)

(* The type of every variable; the size never goes below zero.             *)
TypeOK ==
  /\ items \in [Piece -> Id \cup {None}] /\ item \in [Id -> Item]
  /\ list \in Seq(Id) /\ size \in Nat
  /\ armed \subseteq Id /\ firing \subseteq Id
  /\ reader \in [Reader -> ReaderState]

(* Cache.size is the size of what the access list holds, and never exceeds *)
(* the limit, whatever evictions, expirations and failed loads cross; and  *)
(* an item in the access list is the map's item of its key: removing it by *)
(* key never takes a newer item of the same key out of the map, and no     *)
(* second copy of a block is kept.                                         *)
ListAccounted ==
  /\ TypeOK
  /\ IsInjective(list)
  /\ size = SizeSum(ToSet(list))
  /\ size <= MaxSize
  /\ \A n \in 1 .. Len(list) : items[item[list[n]].key] = list[n]

(* A block is not read from the disk twice by readers that ask for it at   *)
(* the same time: they share one load, also after evictions and failures;  *)
(* and the data that ReadAt is about to return, found or loaded, is that   *)
(* of the block it was asked for.                                          *)
SingleLoad ==
  LET loads(r) == reader[r].pc \in {"waiting", "loading", "inserting"}
  IN /\ \A q, r \in Reader :
          loads(q) /\ loads(r) /\ KeyOf(reader[q].want) = KeyOf(reader[r].want) => q = r
     /\ \A r \in Reader :
          reader[r].pc \in {"touching", "inserting"} =>
            item[reader[r].it].data \in {None, reader[r].want}

(* Every read ends: the three locks cannot block one another for ever.     *)
(* Only where the value was larger than the whole cache may a reader that  *)
(* waited for the load find no timer, and panic.                           *)
GetReturns ==
  \A r \in Reader :
    reader[r].pc = "locking" ~>
      reader[r].pc = "idle" \/ (reader[r].pc = "touching" /\ DataSize(reader[r].it) > MaxSize)
=============================================================================
