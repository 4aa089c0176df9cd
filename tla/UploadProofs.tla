---------------------------- MODULE UploadProofs ----------------------------
(***************************************************************************)
(* Serving blocks.  For any readers, blocks, sizes and limits: the size of *)
(* the piece cache is that of its access list, and readers of a block      *)
(* share one load.  For any pieces, blocks and queue lengths: each block   *)
(* that a downloader waits for is under way once, and a seeder that takes  *)
(* the first requests rejects none.                                        *)
(***************************************************************************)
EXTENDS PieceCache, Transfer, SequenceTheorems, FiniteSetTheorems, WellFoundedInduction, SumProofs

(***************************************************************************)
(* Part 1: the piece cache.                                                *)
(***************************************************************************)
Listed == ToSet(list)

(* A reader inside Get has an item of its block's key.  From the check of  *)
(* `loaded` on it holds that item's lock, and it loads one that is new.    *)
(* An item that is new, or loaded and not yet inserted, is the map's item  *)
(* of its key and not in the list.                                         *)
ReaderOK(r) ==
  LET pc == reader[r].pc
      i == reader[r].it
  IN pc # "idle" =>
       /\ i \in Id /\ reader[r].want \in Block
       /\ item[i].key = KeyOf(reader[r].want)
       /\ pc # "locking" => item[i].holder = r
       /\ pc \in {"waiting", "loading"} => item[i].state = "new"
       /\ pc = "inserting" => item[i].state # "new" /\ i \notin Listed
       /\ pc = "inserting" \/ item[i].state = "new" => items[item[i].key] = i

(* An item of the list has been loaded and is the map's item of its key.   *)
ListOK ==
  /\ IsInjective(list)
  /\ \A i \in Listed : item[i].state # "new" /\ items[item[i].key] = i

(* The map's items are at their keys.                                      *)
MapOK == \A k \in Piece : items[k] # None => item[items[k]].key = k

(* An item holds data of a block that has its key.                         *)
DataOK == \A i \in Id : item[i].data # None => KeyOf(item[i].data) = item[i].key

(* Cache.size is the size of the list.                                     *)
SumOK == size = SizeSum(Listed) /\ size <= MaxSize

(* What the proofs carry from state to state.                              *)
IInv ==
  /\ TypeOK
  /\ \A r \in Reader : ReaderOK(r)
  /\ ListOK /\ MapOK /\ DataOK /\ SumOK

-----------------------------------------------------------------------------
(* The access list as a set.                                               *)

(* ToSet, with the positions spelled out.                                  *)
LEMMA SetOf ==
  ASSUME NEW S, NEW s \in Seq(S)
  PROVE  /\ ToSet(s) = {s[n] : n \in 1 .. Len(s)} /\ ToSet(s) \subseteq S
         /\ Len(s) \in Nat
         /\ IsInjective(s) <=> \A a, b \in 1 .. Len(s) : s[a] = s[b] => a = b
<1>1. DOMAIN s = 1 .. Len(s) /\ Len(s) \in Nat /\ \A n \in 1 .. Len(s) : s[n] \in S
  BY LenProperties, ElementOfSeq
<1> QED
  BY <1>1, Zenon DEF ToSet, IsInjective

(* The elements of a sequence are finitely many.                           *)
LEMMA FinitelyMany ==
  ASSUME NEW S, NEW s \in Seq(S)
  PROVE  IsFiniteSet(ToSet(s))
<1>1. IsFiniteSet(1 .. Len(s))
  BY LenProperties, FS_Interval
<1>2. IsFiniteSet({s[n] : n \in 1 .. Len(s)})
  <2>1. s \in [1 .. Len(s) -> S] /\ DOMAIN s = 1 .. Len(s)
    BY LenProperties
  <2> DEFINE T == {s[n] : n \in 1 .. Len(s)}
  <2>2. s \in Surjection(1 .. Len(s), T)
    BY <2>1 DEF Surjection
  <2>3. IsFiniteSet(T)
    BY <1>1, <2>2, FS_Surjection
  <2> QED
    BY <2>3
<1> QED
  BY <1>2, SetOf

(* A new element at the end.                                               *)
LEMMA AppendSet ==
  ASSUME NEW S, NEW s \in Seq(S), NEW e \in S, IsInjective(s), e \notin ToSet(s)
  PROVE  /\ Append(s, e) \in Seq(S) /\ IsInjective(Append(s, e))
         /\ ToSet(Append(s, e)) = ToSet(s) \cup {e}
<1> DEFINE t == Append(s, e)
<1>1. /\ t \in Seq(S) /\ Len(t) = Len(s) + 1 /\ t[Len(s) + 1] = e
      /\ \A n \in 1 .. Len(s) : t[n] = s[n]
  BY AppendProperties
<1> HIDE DEF t
<1>2. /\ ToSet(s) = {s[n] : n \in 1 .. Len(s)} /\ Len(s) \in Nat
      /\ \A a, b \in 1 .. Len(s) : s[a] = s[b] => a = b
  BY SetOf
<1>3. ToSet(t) = {t[n] : n \in 1 .. Len(t)}
  BY <1>1, SetOf
<1>4. \A n \in 1 .. Len(t) : n \in 1 .. Len(s) \/ n = Len(s) + 1
  BY <1>1, <1>2
<1>5. 1 .. Len(s) \subseteq 1 .. Len(t) /\ Len(s) + 1 \in 1 .. Len(t)
  BY <1>1, <1>2
<1>6. ToSet(t) = ToSet(s) \cup {e}
  <2>1. \A x \in ToSet(t) : x \in ToSet(s) \cup {e}
    BY <1>1, <1>2, <1>3, <1>4
  <2>2. \A x \in ToSet(s) : x \in ToSet(t)
    BY <1>1, <1>2, <1>3, <1>5
  <2>3. e \in ToSet(t)
    BY <1>1, <1>3, <1>5
  <2> QED
    BY <2>1, <2>2, <2>3
<1>7. ASSUME NEW a \in 1 .. Len(t), NEW b \in 1 .. Len(t), t[a] = t[b] PROVE a = b
  <2>1. \A n \in 1 .. Len(s) : t[n] \in ToSet(s)
    BY <1>1, <1>2
  <2> QED
    BY <2>1, <1>1, <1>2, <1>4, <1>7, Zenon
<1>8. IsInjective(t)
  BY <1>1, <1>7, SetOf
<1> QED
  BY <1>1, <1>6, <1>8 DEF t

(* The first n elements, and the rest of the sequence.                     *)
LEMMA SplitSet ==
  ASSUME NEW S, NEW s \in Seq(S), IsInjective(s), NEW n \in 0 .. Len(s)
  PROVE  /\ SubSeq(s, n + 1, Len(s)) \in Seq(S) /\ IsInjective(SubSeq(s, n + 1, Len(s)))
         /\ ToSet(SubSeq(s, 1, n)) \subseteq ToSet(s)
         /\ ToSet(SubSeq(s, n + 1, Len(s))) = ToSet(s) \ ToSet(SubSeq(s, 1, n))
<1> DEFINE f == SubSeq(s, 1, n)
           t == SubSeq(s, n + 1, Len(s))
<1>1. /\ ToSet(s) = {s[k] : k \in 1 .. Len(s)} /\ Len(s) \in Nat
      /\ \A a, b \in 1 .. Len(s) : s[a] = s[b] => a = b
  BY SetOf
<1>2. \A k \in 1 .. Len(s) : s[k] \in S
  BY ElementOfSeq
<1>3. f \in Seq(S) /\ Len(f) = n /\ \A k \in 1 .. n : f[k] = s[k]
  <2>1. n \in Nat /\ 1 \in Int /\ n \in Int /\ \A k \in 1 .. n : s[k] \in S
    BY <1>1, <1>2
  <2>2. /\ SubSeq(s, 1, n) \in Seq(S) /\ Len(SubSeq(s, 1, n)) = IF 1 <= n THEN n - 1 + 1 ELSE 0
        /\ \A k \in 1 .. n - 1 + 1 : SubSeq(s, 1, n)[k] = s[1 + k - 1]
    BY <2>1, SubSeqProperties
  <2> HIDE DEF f
  <2>3. /\ f \in Seq(S) /\ Len(f) = IF 1 <= n THEN n - 1 + 1 ELSE 0
        /\ \A k \in 1 .. n - 1 + 1 : f[k] = s[1 + k - 1]
    BY <2>2 DEF f
  <2> QED
    BY <2>1, <2>3
<1>4. /\ t \in Seq(S) /\ Len(t) = Len(s) - n
      /\ \A k \in 1 .. Len(s) - n : t[k] = s[n + k]
  <2>1. n + 1 \in Int /\ Len(s) \in Int /\ n \in Nat /\ n <= Len(s) /\ \A k \in n + 1 .. Len(s) : s[k] \in S
    BY <1>1, <1>2
  <2>2. /\ t \in Seq(S) /\ Len(t) = IF n + 1 <= Len(s) THEN Len(s) - (n + 1) + 1 ELSE 0
        /\ \A k \in 1 .. Len(s) - (n + 1) + 1 : t[k] = s[n + 1 + k - 1]
    BY <2>1, SubSeqProperties
  <2> HIDE DEF t
  <2> QED
    BY <2>1, <2>2
<1> HIDE DEF f, t
<1>5. ToSet(f) = {s[k] : k \in 1 .. n}
  <2>1. ToSet(f) = {f[k] : k \in 1 .. Len(f)}
    BY <1>3, SetOf
  <2> QED
    BY <2>1, <1>3
<1>6. ToSet(t) = {s[k] : k \in n + 1 .. Len(s)}
  <2>1. ToSet(t) = {t[k] : k \in 1 .. Len(s) - n}
    BY <1>4, SetOf
  <2>2. ASSUME NEW k \in 1 .. Len(s) - n PROVE t[k] \in {s[j] : j \in n + 1 .. Len(s)}
    <3>1. n + k \in n + 1 .. Len(s)
      BY <1>1
    <3> QED
      BY <3>1, <1>4
  <2>3. ASSUME NEW j \in n + 1 .. Len(s) PROVE s[j] \in {t[k] : k \in 1 .. Len(s) - n}
    <3>1. j - n \in 1 .. Len(s) - n /\ n + (j - n) = j
      BY <1>1
    <3>2. t[j - n] = s[n + (j - n)]
      BY <3>1, <1>4
    <3> QED
      BY <3>1, <3>2
  <2> QED
    BY <2>1, <2>2, <2>3
<1>7. 1 .. n \subseteq 1 .. Len(s) /\ n + 1 .. Len(s) = (1 .. Len(s)) \ (1 .. n)
  BY <1>1
<1>8. ToSet(f) \subseteq ToSet(s) /\ ToSet(t) = ToSet(s) \ ToSet(f)
  <2>1. ToSet(f) \subseteq ToSet(s)
    BY <1>1, <1>5, <1>7
  <2>2. ASSUME NEW x \in ToSet(t) PROVE x \in ToSet(s) /\ x \notin ToSet(f)
    <3>1. PICK k \in n + 1 .. Len(s) : x = s[k]
      BY <1>6
    <3>2. k \in 1 .. Len(s) /\ k \notin 1 .. n
      BY <1>7
    <3>3. \A j \in 1 .. n : s[j] # s[k]
      BY <3>2, <1>1, <1>7
    <3> QED
      BY <3>1, <3>2, <3>3, <1>1, <1>5
  <2>3. ASSUME NEW x \in ToSet(s), x \notin ToSet(f) PROVE x \in ToSet(t)
    <3>1. PICK k \in 1 .. Len(s) : x = s[k]
      BY <1>1
    <3>2. k \notin 1 .. n
      BY <3>1, <2>3, <1>5
    <3> QED
      BY <3>1, <3>2, <1>6, <1>7
  <2> QED
    BY <2>1, <2>2, <2>3
<1>9. ASSUME NEW a \in 1 .. Len(t), NEW b \in 1 .. Len(t), t[a] = t[b] PROVE a = b
  <2>1. n + a \in 1 .. Len(s) /\ n + b \in 1 .. Len(s) /\ a \in 1 .. Len(s) - n /\ b \in 1 .. Len(s) - n
    BY <1>1, <1>4
  <2>2. s[n + a] = s[n + b]
    BY <2>1, <1>4, <1>9
  <2>3. n + a = n + b
    BY <2>1, <2>2, <1>1
  <2> QED
    BY <2>1, <2>3, <1>1
<1>10. IsInjective(t)
  BY <1>4, <1>9, SetOf
<1> QED
  BY <1>4, <1>8, <1>10 DEF f, t

(* One element taken out.                                                  *)
LEMMA RemoveSet ==
  ASSUME NEW S, NEW s \in Seq(S), IsInjective(s), NEW n \in 1 .. Len(s)
  PROVE  /\ RemoveAt(s, n) \in Seq(S) /\ IsInjective(RemoveAt(s, n))
         /\ ToSet(RemoveAt(s, n)) = ToSet(s) \ {s[n]}
<1> DEFINE f == SubSeq(s, 1, n - 1)
           g == SubSeq(s, n + 1, Len(s))
           t == f \o g
           old(k) == IF k < n THEN k ELSE k + 1
<1>1. /\ ToSet(s) = {s[k] : k \in 1 .. Len(s)} /\ Len(s) \in Nat
      /\ \A a, b \in 1 .. Len(s) : s[a] = s[b] => a = b
  BY SetOf
<1>2. \A k \in 1 .. Len(s) : s[k] \in S
  BY ElementOfSeq
<1>3. f \in Seq(S) /\ Len(f) = n - 1 /\ \A k \in 1 .. n - 1 : f[k] = s[k]
  <2>1. n - 1 \in Nat /\ 1 \in Int /\ n - 1 \in Int /\ \A k \in 1 .. n - 1 : s[k] \in S
    BY <1>1, <1>2
  <2>2. /\ f \in Seq(S) /\ Len(f) = IF 1 <= n - 1 THEN n - 1 - 1 + 1 ELSE 0
        /\ \A k \in 1 .. n - 1 - 1 + 1 : f[k] = s[1 + k - 1]
    BY <2>1, SubSeqProperties
  <2> HIDE DEF f
  <2> QED
    BY <2>1, <2>2
<1>4. /\ g \in Seq(S) /\ Len(g) = Len(s) - n
      /\ \A k \in 1 .. Len(s) - n : g[k] = s[n + k]
  <2>1. n + 1 \in Int /\ Len(s) \in Int /\ n \in Nat /\ n <= Len(s) /\ \A k \in n + 1 .. Len(s) : s[k] \in S
    BY <1>1, <1>2
  <2>2. /\ g \in Seq(S) /\ Len(g) = IF n + 1 <= Len(s) THEN Len(s) - (n + 1) + 1 ELSE 0
        /\ \A k \in 1 .. Len(s) - (n + 1) + 1 : g[k] = s[n + 1 + k - 1]
    BY <2>1, SubSeqProperties
  <2> HIDE DEF g, f, t, old
  <2>3. Len(g) = Len(s) - n /\ Len(s) - (n + 1) + 1 = Len(s) - n
    BY <2>1, <2>2
  <2>4. ASSUME NEW k \in 1 .. Len(s) - n PROVE g[k] = s[n + k]
    <3>1. n + 1 + k - 1 = n + k /\ k \in 1 .. Len(s) - (n + 1) + 1
      BY <2>1, <2>3
    <3> QED
      BY <3>1, <2>2
  <2> QED
    BY <2>2, <2>3, <2>4
<1> HIDE DEF f, g
<1>5. /\ t \in Seq(S) /\ Len(t) = Len(f) + Len(g)
      /\ \A k \in 1 .. Len(f) + Len(g) : t[k] = IF k <= Len(f) THEN f[k] ELSE g[k - Len(f)]
  BY <1>3, <1>4, ConcatProperties
<1> HIDE DEF t
<1>6. Len(t) = Len(s) - 1 /\ \A k \in 1 .. Len(s) - 1 : t[k] = s[old(k)]
  <2>1. Len(t) = Len(s) - 1
    BY <1>1, <1>3, <1>4, <1>5
  <2>2. ASSUME NEW k \in 1 .. Len(s) - 1 PROVE t[k] = s[old(k)]
    <3>1. CASE k < n
      <4>1. k \in 1 .. n - 1 /\ k <= Len(f) /\ k \in 1 .. Len(f) + Len(g)
        BY <3>1, <1>1, <1>3, <1>4
      <4> QED
        BY <4>1, <3>1, <1>3, <1>5
    <3>2. CASE ~(k < n)
      <4>1. /\ ~(k <= Len(f)) /\ k \in 1 .. Len(f) + Len(g) /\ k - Len(f) \in 1 .. Len(s) - n
            /\ n + (k - Len(f)) = k + 1
        BY <3>2, <1>1, <1>3, <1>4
      <4>2. t[k] = g[k - Len(f)]
        BY <4>1, <1>5
      <4>3. g[k - Len(f)] = s[n + (k - Len(f))]
        BY <4>1, <1>4
      <4> QED
        BY <4>1, <4>2, <4>3, <3>2
    <3> QED
      BY <3>1, <3>2
  <2> QED
    BY <2>1, <2>2
<1>7. \A k \in 1 .. Len(s) - 1 : old(k) \in 1 .. Len(s) /\ old(k) # n
  BY <1>1
<1>8. \A a, b \in 1 .. Len(s) - 1 : old(a) = old(b) => a = b
  BY <1>1
<1>9. \A j \in 1 .. Len(s) : j # n => \E k \in 1 .. Len(s) - 1 : old(k) = j
  <2> SUFFICES ASSUME NEW j \in 1 .. Len(s), j # n
               PROVE  \E k \in 1 .. Len(s) - 1 : old(k) = j
    OBVIOUS
  <2>1. CASE j < n
    <3>1. j \in 1 .. Len(s) - 1 /\ old(j) = j
      BY <2>1, <1>1
    <3> QED
      BY <3>1
  <2>2. CASE ~(j < n)
    <3>1. j - 1 \in 1 .. Len(s) - 1 /\ old(j - 1) = j
      BY <2>2, <1>1
    <3> QED
      BY <3>1
  <2> QED
    BY <2>1, <2>2
<1> HIDE DEF old
<1>10. ToSet(t) = {t[k] : k \in 1 .. Len(s) - 1}
  <2>1. t \in Seq(S)
    BY <1>5
  <2>2. ToSet(t) = {t[k] : k \in 1 .. Len(t)}
    BY ONLY <2>1, SetOf, Zenon
  <2> QED
    BY <1>6, <2>2, Zenon
<1>11. ToSet(t) = ToSet(s) \ {s[n]}
  <2>1. ASSUME NEW x \in ToSet(t) PROVE x \in ToSet(s) /\ x # s[n]
    <3>1. PICK k \in 1 .. Len(s) - 1 : x = t[k]
      BY <1>10
    <3>2. x = s[old(k)] /\ old(k) \in 1 .. Len(s) /\ old(k) # n
      BY <3>1, <1>6, <1>7
    <3> QED
      BY <3>2, <1>1
  <2>2. ASSUME NEW x \in ToSet(s), x # s[n] PROVE x \in ToSet(t)
    <3>1. PICK j \in 1 .. Len(s) : x = s[j]
      BY <1>1
    <3>2. PICK k \in 1 .. Len(s) - 1 : old(k) = j
      BY <3>1, <2>2, <1>9
    <3>3. x = t[k]
      BY <3>1, <3>2, <1>6
    <3> QED
      BY <3>3, <1>10
  <2> QED
    BY <2>1, <2>2
<1>12. IsInjective(t)
  <2>1. ASSUME NEW a \in 1 .. Len(t), NEW b \in 1 .. Len(t), t[a] = t[b] PROVE a = b
    <3>1. a \in 1 .. Len(s) - 1 /\ b \in 1 .. Len(s) - 1
      BY <1>6
    <3>2. s[old(a)] = s[old(b)] /\ old(a) \in 1 .. Len(s) /\ old(b) \in 1 .. Len(s)
      BY <3>1, <2>1, <1>6, <1>7
    <3> QED
      BY <3>1, <3>2, <1>1, <1>8
  <2> QED
    BY <2>1, <1>5, SetOf
<1>13. RemoveAt(s, n) = t
  BY DEF RemoveAt, t, f, g
<1> QED
  BY <1>5, <1>11, <1>12, <1>13

(* item.index is where the item is.                                        *)
LEMMA IndexOf ==
  ASSUME list \in Seq(Id), NEW i
  PROVE  /\ Contains(list, i) <=> i \in Listed
         /\ i \in Listed => Index(i) \in 1 .. Len(list) /\ list[Index(i)] = i
<1>1. Listed = {list[n] : n \in 1 .. Len(list)}
  BY SetOf DEF Listed
<1>2. Contains(list, i) <=> i \in Listed
  BY <1>1 DEF Contains
<1>3. ASSUME i \in Listed PROVE Index(i) \in 1 .. Len(list) /\ list[Index(i)] = i
  <2>1. \E n \in 1 .. Len(list) : list[n] = i
    BY <1>1, <1>3
  <2> QED
    BY <2>1 DEF Index
<1> QED
  BY <1>2, <1>3

-----------------------------------------------------------------------------
(* Items.                                                                  *)

(* A new item is an item without data.                                     *)
LEMMA NewItemIs ==
  ASSUME NEW k \in Piece
  PROVE  NewItem(k) \in Item /\ NewItem(k).data = None /\ NewItem(k).key = k
         /\ NewItem(k).state = "new" /\ NewItem(k).holder = None
  BY DEF NewItem, Item

(* What Kept does to an item: nothing, unless it is unreachable.           *)
LEMMA KeptIs ==
  ASSUME NEW f \in [Id -> Item]
  PROVE  /\ Kept(f) \in [Id -> Item]
         /\ \A i \in Id : i \in Reachable' => Kept(f)[i] = f[i]
         /\ \A i \in Id : Kept(f)[i] = f[i] \/ Kept(f)[i].data = None
<1> DEFINE new == NewItem(CHOOSE k \in Piece : TRUE)
<1>1. new \in Item /\ new.data = None
  BY CacheAssumption, NewItemIs
<1> HIDE DEF new
<1>2. Kept(f) = [i \in Id |-> IF i \in Reachable' THEN f[i] ELSE new]
  BY DEF Kept, new
<1> QED
  BY <1>1, <1>2

(* What is reachable: the list, the map, and the items of the readers.     *)
LEMMA ReachableHas ==
  /\ Listed \subseteq Reachable
  /\ \A k \in Piece : items[k] \in Reachable
  /\ \A r \in Reader : reader[r].it \in Reachable
  BY DEF Reachable, Listed

(* The same after a step.                                                  *)
LEMMA ReachableHasNext ==
  /\ Listed' \subseteq Reachable'
  /\ \A k \in Piece : items'[k] \in Reachable'
  /\ \A r \in Reader : reader'[r].it \in Reachable'
  BY DEF Reachable, Listed

(* A reader inside Get, with the types of what it works on.                *)
LEMMA InsideIs ==
  ASSUME IInv, NEW r \in Reader, reader[r].pc # "idle"
  PROVE  /\ reader[r].it \in Id /\ reader[r].want \in Block
         /\ item[reader[r].it] \in Item
         /\ item[reader[r].it].key = KeyOf(reader[r].want)
         /\ reader[r] \in ReaderState
<1>1. ReaderOK(r) /\ TypeOK
  BY DEF IInv
<1>2. reader[r].it \in Id /\ reader[r].want \in Block /\ item[reader[r].it].key = KeyOf(reader[r].want)
  BY <1>1 DEF ReaderOK
<1> QED
  BY <1>1, <1>2 DEF TypeOK

(* A reader that returns is idle, and the others go on.                    *)
LEMMA ReturnedIs ==
  ASSUME TypeOK, NEW r \in Reader, reader' = Returned(r)
  PROVE  /\ reader' \in [Reader -> ReaderState]
         /\ reader'[r].pc = "idle" /\ \A q \in Reader : q # r => reader'[q] = reader[q]
  BY DEF TypeOK, Returned, ReaderState

-----------------------------------------------------------------------------
(* The accounts.                                                           *)

(* The size of an item is positive, and sums of sizes are natural numbers. *)
LEMMA SizesAre ==
  ASSUME item \in [Id -> Item], NEW s \in SUBSET Id, IsFiniteSet(s)
  PROVE  /\ \A i \in s : [j \in Id |-> DataSize(j)][i] = DataSize(i) /\ DataSize(i) \in Nat \ {0}
         /\ SizeSum(s) \in Nat
<1> DEFINE f == [j \in Id |-> DataSize(j)]
<1>1. \A i \in s : f[i] = DataSize(i) /\ DataSize(i) \in Nat \ {0}
  BY CacheAssumption DEF DataSize, Item
<1> HIDE DEF f
<1>2. \A i \in s : f[i] \in Nat
  BY <1>1
<1>3. SumFunctionOnSet(f, s) \in Nat
  BY <1>2, SumType
<1> QED
  BY <1>1, <1>3 DEF f, SizeSum

(* Items that keep their keys keep their sizes.                            *)
LEMMA SizesKept ==
  ASSUME item \in [Id -> Item], item' \in [Id -> Item], NEW s \in SUBSET Id, IsFiniteSet(s),
         \A i \in s : item'[i].key = item[i].key
  PROVE  SumFunctionOnSet([i \in Id |-> SizeOf[item'[i].key]], s) = SizeSum(s)
<1> DEFINE f == [i \in Id |-> DataSize(i)]
           g == [i \in Id |-> SizeOf[item'[i].key]]
<1>1. \A i \in s : f[i] \in Nat /\ g[i] = f[i]
  BY CacheAssumption DEF DataSize, Item
<1> HIDE DEF f, g
<1>2. SumFunctionOnSet(f, s) = SumFunctionOnSet(g, s)
  BY <1>1, SumCong
<1> QED
  BY <1>2 DEF f, g, SizeSum

(* A part of the items, and the others.                                    *)
LEMMA SizesSplit ==
  ASSUME item \in [Id -> Item], NEW s \in SUBSET Id, IsFiniteSet(s), NEW p \in SUBSET s
  PROVE  SizeSum(s) = SizeSum(p) + SizeSum(s \ p)
<1> DEFINE f == [j \in Id |-> DataSize(j)]
<1>1. \A i \in s : f[i] \in Nat
  BY SizesAre
<1> HIDE DEF f
<1>2. SumFunctionOnSet(f, s) = SumFunctionOnSet(f, p) + SumFunctionOnSet(f, s \ p)
  BY <1>1, SumSplit
<1> QED
  BY <1>2 DEF f, SizeSum

(* One item less.                                                          *)
LEMMA SizesWithout ==
  ASSUME item \in [Id -> Item], NEW s \in SUBSET Id, IsFiniteSet(s), NEW i \in s
  PROVE  SizeSum(s) = DataSize(i) + SizeSum(s \ {i})
<1> DEFINE f == [j \in Id |-> DataSize(j)]
<1>1. \A j \in s : f[j] \in Nat
  BY SizesAre
<1>2. f[i] = DataSize(i)
  OBVIOUS
<1> HIDE DEF f
<1>3. SumFunctionOnSet(f, s) = f[i] + SumFunctionOnSet(f, s \ {i})
  BY <1>1, SumRemove
<1> QED
  BY <1>2, <1>3 DEF f, SizeSum

(* The list as a finite set of items, and its size.                        *)
LEMMA ListedIs ==
  ASSUME TypeOK
  PROVE  Listed \in SUBSET Id /\ IsFiniteSet(Listed)
  BY SetOf, FinitelyMany DEF TypeOK, Listed

(* makeRoom ends, with enough room for an item that fits into the cache.   *)
LEMMA EvictedIs ==
  ASSUME IInv, NEW need \in Nat, need <= MaxSize
  PROVE  /\ Evicted(need) \in 0 .. Len(list)
         /\ MaxSize - (size - SizeSum(Oldest(Evicted(need)))) >= need
<1> DEFINE enough(n) == MaxSize - (size - SizeSum(Oldest(n))) >= need
           N == {n \in 0 .. Len(list) : enough(n)}
<1>1. TypeOK /\ SumOK /\ list \in Seq(Id) /\ Len(list) \in Nat
  BY LenProperties DEF IInv, TypeOK
<1>2. Len(list) \in N
  <2>1. SubSeq(list, 1, Len(list)) = list
    BY <1>1, SubSeqFull
  <2>2. Oldest(Len(list)) = Listed
    BY <2>1 DEF Oldest, Listed
  <2>3. SizeSum(Oldest(Len(list))) = size /\ size \in Nat
    BY <1>1, <2>2 DEF SumOK, TypeOK
  <2>4. enough(Len(list))
    BY <2>3, CacheAssumption
  <2> HIDE DEF enough
  <2> QED
    BY <2>4, <1>1
<1> HIDE DEF enough
<1>3. \E n \in N : \A j \in N : <<j, n>> \notin OpToRel(<, Nat)
  <2>1. N \subseteq Nat /\ N # {}
    BY <1>2
  <2> HIDE DEF N
  <2> QED
    BY <2>1, WFMin, NatLessThanWellFounded, IsWellFoundedOnSubset
<1>4. \E n \in 0 .. Len(list) : enough(n) /\ \A j \in 0 .. n - 1 : ~enough(j)
  <2>1. PICK n \in N : \A j \in N : <<j, n>> \notin OpToRel(<, Nat)
    BY <1>3
  <2>2. n \in 0 .. Len(list) /\ enough(n) /\ n \in Nat
    OBVIOUS
  <2>3. ASSUME NEW j \in 0 .. n - 1 PROVE ~enough(j)
    <3>1. j \in Nat /\ j < n /\ j \in 0 .. Len(list)
      BY <2>2, <1>1
    <3>2. <<j, n>> \in OpToRel(<, Nat)
      BY <3>1, <2>2 DEF OpToRel
    <3>3. j \notin N
      BY <3>2, <2>1
    <3> QED
      BY <3>1, <3>3
  <2> QED
    BY <2>2, <2>3
<1>5. Evicted(need) = CHOOSE n \in 0 .. Len(list) : enough(n) /\ \A j \in 0 .. n - 1 : ~enough(j)
  BY DEF Evicted, enough
<1>6. Evicted(need) \in 0 .. Len(list) /\ enough(Evicted(need))
  BY <1>4, <1>5
<1> QED
  BY <1>6 DEF enough

-----------------------------------------------------------------------------
(* At the start the cache is empty.                                        *)
LEMMA InitOK == Init => IInv
<1> SUFFICES ASSUME Init PROVE IInv
  OBVIOUS
<1>1. NewItem(CHOOSE k \in Piece : TRUE) \in Item /\ NewItem(CHOOSE k \in Piece : TRUE).data = None
  BY CacheAssumption, NewItemIs
<1>2. list = <<>> /\ Listed = {}
  BY DEF Init, Listed, ToSet
<1>3. TypeOK
  BY <1>1 DEF Init, TypeOK, ReaderState
<1>4. \A r \in Reader : ReaderOK(r)
  BY DEF Init, ReaderOK
<1>5. ListOK
  BY <1>2 DEF ListOK, IsInjective
<1>6. MapOK
  BY DEF Init, MapOK
<1>7. DataOK
  BY <1>1 DEF Init, DataOK
<1>8. SumOK
  <2>1. SizeSum({}) = 0
    BY SumEmpty DEF SizeSum
  <2> QED
    BY <1>2, <2>1, CacheAssumption DEF Init, SumOK
<1> QED
  BY <1>3, <1>4, <1>5, <1>6, <1>7, <1>8 DEF IInv

(* While the list stays the same and its items keep their keys, so does    *)
(* the account.                                                            *)
LEMMA SumKept ==
  ASSUME IInv, TypeOK', Listed' = Listed, size' = size,
         \A i \in Listed : item'[i].key = item[i].key
  PROVE  SumOK'
<1>1. Listed \in SUBSET Id /\ IsFiniteSet(Listed)
  BY ListedIs DEF IInv
<1>2. SumFunctionOnSet([i \in Id |-> SizeOf[item'[i].key]], Listed) = SizeSum(Listed)
  BY <1>1, SizesKept DEF IInv, TypeOK
<1>3. SizeSum(Listed)' = SumFunctionOnSet([i \in Id |-> SizeOf[item'[i].key]], Listed')
  BY DEF SizeSum, DataSize
<1> QED
  BY <1>2, <1>3 DEF IInv, SumOK

-----------------------------------------------------------------------------
(* A step of a reader that leaves the map and the members of the list, in  *)
(* which no item but its own changes, and its own only forwards: the other *)
(* readers and the list are as they were.                                  *)
LEMMA OwnItemOnly ==
  ASSUME IInv, TypeOK', NEW r \in Reader, ReaderOK(r)', DataOK',
         items' = items, Listed' = Listed, IsInjective(list'), size' = size,
         \A q \in Reader : q # r => reader'[q] = reader[q],
         item[reader[r].it].holder \in {None, r},
         \A j \in Id : j \in Reachable' =>
           /\ item'[j].key = item[j].key
           /\ item[j].state # "new" => item'[j].state # "new"
           /\ j # reader[r].it =>
                item'[j].state = item[j].state /\ item'[j].holder = item[j].holder
  PROVE  IInv'
<1>t. /\ TypeOK /\ ListOK /\ MapOK /\ None \notin Reader /\ None \notin Id
      /\ \A q \in Reader : ReaderOK(q)
  BY CacheAssumption DEF IInv
<1>l. Listed \in SUBSET Id
  BY <1>t, ListedIs
<1>h. /\ Listed' \subseteq Reachable'
      /\ \A k \in Piece : items'[k] \in Reachable'
      /\ \A q \in Reader : reader'[q].it \in Reachable'
  BY ReachableHasNext
<1>1. ASSUME NEW q \in Reader, q # r PROVE ReaderOK(q)'
  <2>1. reader'[q] = reader[q]
    BY <1>1
  <2>2. CASE reader[q].pc = "idle"
    BY <2>1, <2>2 DEF ReaderOK
  <2>3. CASE reader[q].pc # "idle"
    <3> DEFINE j == reader[q].it
    <3>1. /\ j \in Id /\ reader[q].want \in Block /\ item[j].key = KeyOf(reader[q].want)
          /\ reader[q].pc # "locking" => item[j].holder = q
          /\ reader[q].pc \in {"waiting", "loading"} => item[j].state = "new"
          /\ reader[q].pc = "inserting" => item[j].state # "new" /\ j \notin Listed
          /\ (reader[q].pc = "inserting" \/ item[j].state = "new") => items[item[j].key] = j
      BY <2>3, <1>t DEF ReaderOK
    <3> HIDE DEF j
    <3>2. j \in Reachable' /\ reader'[q].it = j
      BY <2>1, <1>h DEF j
    <3>3. item'[j].key = item[j].key /\ (item[j].state # "new" => item'[j].state # "new")
      BY <3>1, <3>2
    <3>4. reader[q].pc # "locking" => j # reader[r].it
      BY <3>1, <1>1, <1>t
    <3>5. reader[q].pc # "locking" =>
            item'[j].state = item[j].state /\ item'[j].holder = item[j].holder
      BY <3>1, <3>2, <3>4
    <3>6. /\ reader'[q].it \in Id /\ reader'[q].want \in Block
          /\ item'[reader'[q].it].key = KeyOf(reader'[q].want)
          /\ reader'[q].pc # "locking" => item'[reader'[q].it].holder = q
          /\ reader'[q].pc \in {"waiting", "loading"} => item'[reader'[q].it].state = "new"
          /\ reader'[q].pc = "inserting" =>
               item'[reader'[q].it].state # "new" /\ reader'[q].it \notin Listed'
          /\ (reader'[q].pc = "inserting" \/ item'[reader'[q].it].state = "new") =>
               items'[item'[reader'[q].it].key] = reader'[q].it
      BY <2>1, <3>1, <3>2, <3>3, <3>5
    <3> QED
      BY <3>6, Zenon DEF ReaderOK, KeyOf
  <2> QED
    BY <2>2, <2>3
<1>2. ListOK'
  BY <1>t, <1>l, <1>h DEF ListOK
<1>3. MapOK'
  <2> SUFFICES ASSUME NEW k \in Piece, items'[k] # None PROVE item'[items'[k]].key = k
    BY DEF MapOK
  <2>1. items[k] \in Id /\ items'[k] = items[k] /\ items[k] \in Reachable'
    BY <1>t, <1>h DEF TypeOK
  <2>2. item[items[k]].key = k
    BY <2>1, <1>t DEF MapOK
  <2> QED
    BY <2>1, <2>2
<1>4. SumOK'
  <2>1. \A i \in Listed : item'[i].key = item[i].key
    BY <1>l, <1>h
  <2> QED
    BY <2>1, SumKept
<1> QED
  BY <1>1, <1>2, <1>3, <1>4 DEF IInv

(* getValue takes the item's lock.                                         *)
LEMMA LockStep ==
  ASSUME IInv, NEW r \in Reader, Lock(r)
  PROVE  IInv'
<1> DEFINE i == reader[r].it
<1>1. TypeOK /\ ReaderOK(r) /\ ListOK /\ DataOK /\ reader[r].pc = "locking"
  BY DEF IInv, Lock
<1>2. /\ i \in Id /\ reader[r].want \in Block /\ item[i] \in Item
      /\ item[i].key = KeyOf(reader[r].want) /\ reader[r] \in ReaderState
  BY <1>1, InsideIs
<1>3. /\ item[i].holder = None /\ item' = [item EXCEPT ![i].holder = r]
      /\ reader' = [reader EXCEPT ![r].pc = IF item[i].state = "new" THEN "waiting" ELSE "touching"]
      /\ UNCHANGED <<items, list, size, armed, firing>>
  BY DEF Lock
<1>4. item[i].state = "new" => items[item[i].key] = i
  BY <1>1 DEF ReaderOK
<1> HIDE DEF i
<1>5. /\ reader'[r].pc = IF item[i].state = "new" THEN "waiting" ELSE "touching"
      /\ reader'[r].it = reader[r].it /\ reader'[r].want = reader[r].want
      /\ reader' \in [Reader -> ReaderState]
      /\ \A q \in Reader : q # r => reader'[q] = reader[q]
  BY <1>1, <1>2, <1>3 DEF TypeOK, ReaderState
<1>6. /\ item' \in [Id -> Item] /\ item'[i].holder = r
      /\ \A j \in Id : /\ item'[j].key = item[j].key /\ item'[j].state = item[j].state
                       /\ item'[j].data = item[j].data
                       /\ j # i => item'[j].holder = item[j].holder
  BY <1>1, <1>2, <1>3 DEF TypeOK, Item
<1>7. TypeOK'
  BY <1>1, <1>3, <1>5, <1>6 DEF TypeOK
<1>8. Listed' = Listed /\ IsInjective(list')
  BY <1>1, <1>3 DEF Listed, ListOK
<1>9. ReaderOK(r)'
  <2>1. /\ reader'[r].it = i /\ i \in Id /\ reader'[r].want \in Block
        /\ item'[i].key = KeyOf(reader'[r].want) /\ item'[i].holder = r
        /\ reader'[r].pc \in {"waiting", "loading"} => item'[i].state = "new"
        /\ reader'[r].pc # "inserting"
        /\ item'[i].state = "new" => items'[item'[i].key] = i
    BY <1>2, <1>3, <1>4, <1>5, <1>6 DEF i
  <2> QED
    BY <2>1, Zenon DEF ReaderOK, KeyOf
<1>10. DataOK'
  BY <1>1, <1>6 DEF DataOK, KeyOf
<1> QED
  BY <1>3, <1>5, <1>6, <1>7, <1>8, <1>9, <1>10, OwnItemOnly DEF i

(* The load that the reader waited for has failed.                         *)
LEMMA LockFailedStep ==
  ASSUME IInv, NEW r \in Reader, LockFailed(r)
  PROVE  IInv'
<1>1. TypeOK /\ ListOK /\ DataOK /\ item \in [Id -> Item]
  BY DEF IInv, TypeOK
<1>2. /\ item[reader[r].it].holder = None /\ reader' = Returned(r) /\ item' = Kept(item)
      /\ UNCHANGED <<items, list, size, armed, firing>>
  BY DEF LockFailed
<1>3. /\ reader' \in [Reader -> ReaderState]
      /\ reader'[r].pc = "idle" /\ \A q \in Reader : q # r => reader'[q] = reader[q]
  BY <1>1, <1>2, ReturnedIs
<1>4. /\ item' \in [Id -> Item] /\ \A j \in Id : j \in Reachable' => item'[j] = item[j]
      /\ \A j \in Id : item'[j] = item[j] \/ item'[j].data = None
  BY <1>1, <1>2, KeptIs
<1>5. TypeOK'
  BY <1>1, <1>2, <1>3, <1>4 DEF TypeOK
<1>6. Listed' = Listed /\ IsInjective(list')
  BY <1>1, <1>2 DEF Listed, ListOK
<1>7. ReaderOK(r)'
  BY <1>3 DEF ReaderOK
<1>8. DataOK'
  BY <1>1, <1>4 DEF DataOK, KeyOf
<1> QED
  BY <1>2, <1>3, <1>4, <1>5, <1>6, <1>7, <1>8, OwnItemOnly

(* Semaphore.Wait returns.                                                 *)
LEMMA AcquireStep ==
  ASSUME IInv, NEW r \in Reader, Acquire(r)
  PROVE  IInv'
<1>1. TypeOK /\ ReaderOK(r) /\ ListOK /\ DataOK /\ reader[r].pc = "waiting"
  BY DEF IInv, Acquire
<1>2. /\ reader' = [reader EXCEPT ![r].pc = "loading"]
      /\ UNCHANGED <<items, item, list, size, armed, firing>>
  BY DEF Acquire
<1>3. /\ reader'[r].pc = "loading"
      /\ reader'[r].it = reader[r].it /\ reader'[r].want = reader[r].want
      /\ reader' \in [Reader -> ReaderState]
      /\ \A q \in Reader : q # r => reader'[q] = reader[q]
  BY <1>1, <1>2 DEF TypeOK, ReaderState
<1>4. TypeOK'
  BY <1>1, <1>2, <1>3 DEF TypeOK
<1>5. Listed' = Listed /\ IsInjective(list') /\ DataOK'
  BY <1>1, <1>2 DEF Listed, ListOK, DataOK, KeyOf
<1>6. ReaderOK(r)' /\ item[reader[r].it].holder = r
  BY <1>1, <1>2, <1>3, <1>5 DEF ReaderOK, KeyOf
<1> QED
  BY <1>2, <1>3, <1>4, <1>5, <1>6, OwnItemOnly

(* The loader returns.                                                     *)
LEMMA LoadStep ==
  ASSUME IInv, NEW r \in Reader, NEW ok \in BOOLEAN, Load(r, ok)
  PROVE  IInv'
<1> DEFINE i == reader[r].it
           state == IF ok THEN "loaded" ELSE "failed"
           data == IF ok THEN reader[r].want ELSE None
<1>1. TypeOK /\ ReaderOK(r) /\ ListOK /\ DataOK /\ reader[r].pc = "loading"
  BY DEF IInv, Load
<1>2. /\ i \in Id /\ reader[r].want \in Block /\ item[i] \in Item
      /\ item[i].key = KeyOf(reader[r].want) /\ reader[r] \in ReaderState
  BY <1>1, InsideIs
<1>3. /\ item' = [item EXCEPT ![i].state = state, ![i].data = data]
      /\ reader' = [reader EXCEPT ![r].pc = "inserting"]
      /\ UNCHANGED <<items, list, size, armed, firing>>
  BY DEF Load
<1>4. item[i].holder = r /\ item[i].state = "new" /\ items[item[i].key] = i
  BY <1>1 DEF ReaderOK
<1>5. state \in {"loaded", "failed"} /\ data \in {None, reader[r].want} /\ data \in Block \cup {None}
  BY <1>2
<1>6. i \notin Listed
  BY <1>1, <1>4 DEF ListOK
<1> HIDE DEF i, state, data
<1>7. /\ reader'[r].pc = "inserting"
      /\ reader'[r].it = reader[r].it /\ reader'[r].want = reader[r].want
      /\ reader' \in [Reader -> ReaderState]
      /\ \A q \in Reader : q # r => reader'[q] = reader[q]
  BY <1>1, <1>2, <1>3 DEF TypeOK, ReaderState
<1>8. /\ item' \in [Id -> Item] /\ item'[i].state = state /\ item'[i].data = data
      /\ item'[i].key = item[i].key /\ item'[i].holder = item[i].holder
      /\ \A j \in Id : j # i => item'[j] = item[j]
  BY <1>1, <1>2, <1>3, <1>5 DEF TypeOK, Item
<1>9. TypeOK'
  BY <1>1, <1>3, <1>7, <1>8 DEF TypeOK
<1>10. Listed' = Listed /\ IsInjective(list')
  BY <1>1, <1>3 DEF Listed, ListOK
<1>11. ReaderOK(r)'
  <2>1. /\ reader'[r].it = i /\ i \in Id /\ reader'[r].want \in Block
        /\ item'[i].key = KeyOf(reader'[r].want) /\ item'[i].holder = r
        /\ reader'[r].pc = "inserting" /\ item'[i].state # "new" /\ i \notin Listed'
        /\ items'[item'[i].key] = i
    BY <1>2, <1>3, <1>4, <1>5, <1>6, <1>7, <1>8, <1>10 DEF i
  <2> QED
    BY <2>1 DEF ReaderOK, KeyOf
<1>12. DataOK'
  <2> SUFFICES ASSUME NEW j \in Id, item'[j].data # None PROVE KeyOf(item'[j].data) = item'[j].key
    BY DEF DataOK, KeyOf
  <2>1. CASE j = i
    BY <2>1, <1>2, <1>5, <1>8
  <2>2. CASE j # i
    BY <2>2, <1>1, <1>8 DEF DataOK
  <2> QED
    BY <2>1, <2>2
<1>13. \A j \in Id : /\ item'[j].key = item[j].key
                     /\ item[j].state # "new" => item'[j].state # "new"
                     /\ j # i => item'[j].state = item[j].state /\ item'[j].holder = item[j].holder
  BY <1>4, <1>5, <1>8
<1> QED
  BY <1>3, <1>4, <1>7, <1>9, <1>10, <1>11, <1>12, <1>13, OwnItemOnly DEF i

(* updateAccessTime: the item moves to the end of the list, if it is there.*)
LEMMA TouchStep ==
  ASSUME IInv, NEW r \in Reader, Touch(r)
  PROVE  IInv'
<1> DEFINE i == reader[r].it
           f == [item EXCEPT ![i].holder = None]
<1>1. TypeOK /\ ReaderOK(r) /\ ListOK /\ DataOK /\ reader[r].pc = "touching"
  BY DEF IInv, Touch
<1>2. i \in Id /\ item[i] \in Item
  BY <1>1, InsideIs
<1>3. /\ list' = IF Contains(list, i) THEN Append(RemoveAt(list, Index(i)), i) ELSE list
      /\ armed' = IF Contains(list, i) THEN armed \cup {i} ELSE armed
      /\ reader' = Returned(r) /\ item' = Kept(f) /\ UNCHANGED <<items, size, firing>>
  BY DEF Touch
<1>4. item[i].holder = r
  BY <1>1 DEF ReaderOK
<1>5. f \in [Id -> Item]
  BY <1>1, <1>2 DEF TypeOK, Item
<1>6. \A j \in Id : /\ f[j].key = item[j].key /\ f[j].state = item[j].state
                    /\ f[j].data = item[j].data /\ (j # i => f[j] = item[j])
  BY <1>1, <1>2 DEF TypeOK, Item
<1> HIDE DEF i, f
<1>7. /\ item' \in [Id -> Item] /\ \A j \in Id : j \in Reachable' => item'[j] = f[j]
      /\ \A j \in Id : item'[j] = f[j] \/ item'[j].data = None
  BY <1>3, <1>5, KeptIs
<1>8. /\ reader' \in [Reader -> ReaderState]
      /\ reader'[r].pc = "idle" /\ \A q \in Reader : q # r => reader'[q] = reader[q]
  BY <1>1, <1>3, ReturnedIs
<1>9. list' \in Seq(Id) /\ Listed' = Listed /\ IsInjective(list')
  <2>1. list \in Seq(Id) /\ IsInjective(list)
    BY <1>1 DEF TypeOK, ListOK
  <2>2. CASE Contains(list, i)
    <3>1. Index(i) \in 1 .. Len(list) /\ list[Index(i)] = i /\ i \in Listed
      BY <2>1, <2>2, IndexOf
    <3> DEFINE t == RemoveAt(list, Index(i))
    <3>2. t \in Seq(Id) /\ IsInjective(t) /\ ToSet(t) = Listed \ {i}
      BY <2>1, <3>1, RemoveSet DEF Listed
    <3> HIDE DEF t
    <3>3. /\ Append(t, i) \in Seq(Id) /\ IsInjective(Append(t, i))
          /\ ToSet(Append(t, i)) = ToSet(t) \cup {i}
      BY <3>2, <1>2, AppendSet DEF i
    <3>4. list' = Append(t, i)
      BY <2>2, <1>3 DEF t
    <3>5. (Listed \ {i}) \cup {i} = Listed
      BY <3>1
    <3> QED
      BY <3>2, <3>3, <3>4, <3>5 DEF Listed
  <2>3. CASE ~Contains(list, i)
    BY <2>1, <2>3, <1>3 DEF Listed
  <2> QED
    BY <2>2, <2>3
<1>10. TypeOK'
  <2>1. armed' \subseteq Id
    BY <1>1, <1>2, <1>3 DEF TypeOK, i
  <2> QED
    BY <2>1, <1>1, <1>3, <1>7, <1>8, <1>9 DEF TypeOK
<1>11. ReaderOK(r)'
  BY <1>8 DEF ReaderOK
<1>12. DataOK'
  BY <1>1, <1>6, <1>7 DEF DataOK, KeyOf
<1>13. \A j \in Id : j \in Reachable' =>
         /\ item'[j].key = item[j].key
         /\ item[j].state # "new" => item'[j].state # "new"
         /\ j # i => item'[j].state = item[j].state /\ item'[j].holder = item[j].holder
  BY <1>6, <1>7
<1> QED
  BY <1>3, <1>4, <1>8, <1>9, <1>10, <1>11, <1>12, <1>13, OwnItemOnly DEF i

(* getItem finds the item of the key, or makes one that nobody knows.      *)
LEMMA GetStep ==
  ASSUME IInv, NEW r \in Reader, NEW b \in Block, Get(r, b)
  PROVE  IInv'
<1> DEFINE k == KeyOf(b)
<1>1. /\ TypeOK /\ ListOK /\ MapOK /\ DataOK /\ (\A q \in Reader : ReaderOK(q)) /\ None \notin Id
      /\ None \notin Reader
  BY CacheAssumption DEF IInv
<1>2. k \in Piece
  BY DEF KeyOf, Block
<1>3. PICK i \in IF items[k] # None THEN {items[k]} ELSE NextFree :
        /\ items' = [items EXCEPT ![k] = i]
        /\ item' = IF items[k] # None THEN item ELSE [item EXCEPT ![i] = NewItem(k)]
        /\ reader' = [reader EXCEPT ![r] = [pc |-> "locking", want |-> b, it |-> i]]
  BY DEF Get
<1>4. UNCHANGED <<list, size, armed, firing>> /\ Listed' = Listed
  BY DEF Get, Listed
<1>5. NewItem(k) \in Item /\ NewItem(k).data = None /\ NewItem(k).key = k /\ NewItem(k).state = "new"
  BY <1>2, NewItemIs
<1> HIDE DEF k
<1>6. i \in Id
  BY <1>1, <1>2, <1>3 DEF NextFree, TypeOK
<1>7. /\ reader' \in [Reader -> ReaderState]
      /\ reader'[r].pc = "locking" /\ reader'[r].want = b /\ reader'[r].it = i
      /\ \A q \in Reader : q # r => reader'[q] = reader[q]
  BY <1>1, <1>3, <1>6 DEF TypeOK, ReaderState
<1>8. items' \in [Piece -> Id \cup {None}] /\ items'[k] = i /\ \A x \in Piece : x # k => items'[x] = items[x]
  BY <1>1, <1>2, <1>3, <1>6 DEF TypeOK
<1>9. item' \in [Id -> Item] /\ \A j \in Id : j # i => item'[j] = item[j]
  BY <1>1, <1>3, <1>5, <1>6 DEF TypeOK
<1>10. TypeOK'
  BY <1>1, <1>4, <1>7, <1>8, <1>9 DEF TypeOK
<1>11. CASE items[k] # None
  <2>1. i = items[k] /\ item' = item /\ items' = items
    BY <1>1, <1>2, <1>3, <1>11 DEF TypeOK
  <2>2. item[i].key = k
    BY <2>1, <1>1, <1>2, <1>11 DEF MapOK
  <2>3. ReaderOK(r)'
    <3>1. /\ reader'[r].it = i /\ i \in Id /\ reader'[r].want = b
          /\ item'[i].key = KeyOf(b) /\ reader'[r].pc = "locking"
          /\ items'[item'[i].key] = i
      BY <1>6, <1>7, <2>1, <2>2 DEF k
    <3> QED
      BY <3>1 DEF ReaderOK, KeyOf
  <2>4. ASSUME NEW q \in Reader, q # r PROVE ReaderOK(q)'
    BY <2>1, <2>4, <1>1, <1>4, <1>7 DEF ReaderOK, KeyOf
  <2>5. ListOK' /\ MapOK' /\ DataOK'
    BY <2>1, <1>1, <1>4 DEF ListOK, MapOK, DataOK, KeyOf
  <2>6. SumOK'
    BY <2>1, <1>4, <1>10, SumKept
  <2> QED
    BY <2>3, <2>4, <2>5, <2>6, <1>10 DEF IInv
<1>12. CASE items[k] = None
  <2>1. i \notin Reachable /\ item'[i] = NewItem(k)
    BY <1>1, <1>3, <1>6, <1>12 DEF NextFree, TypeOK
  <2>2. i \notin Listed /\ (\A x \in Piece : items[x] # i) /\ (\A q \in Reader : reader[q].it # i)
    BY <2>1, ReachableHas
  <2>3. ReaderOK(r)'
    <3>1. /\ reader'[r].it = i /\ i \in Id /\ reader'[r].want = b
          /\ item'[i].key = KeyOf(b) /\ reader'[r].pc = "locking"
          /\ items'[item'[i].key] = i
      BY <1>5, <1>6, <1>7, <1>8, <2>1 DEF k
    <3> QED
      BY <3>1 DEF ReaderOK, KeyOf
  <2>4. \A j \in Id : items[item[j].key] = j => item[j].key # k
    BY <1>1, <1>12
  <2>5. ASSUME NEW q \in Reader, q # r PROVE ReaderOK(q)'
    <3>1. reader'[q] = reader[q] /\ ReaderOK(q)
      BY <1>1, <1>7, <2>5
    <3>2. CASE reader[q].pc = "idle"
      BY <3>1, <3>2 DEF ReaderOK
    <3>3. CASE reader[q].pc # "idle"
      <4>1. reader[q].it \in Id /\ item'[reader[q].it] = item[reader[q].it]
        BY <3>1, <3>3, <2>2, <1>9 DEF ReaderOK
      <4>2. item[reader[q].it].key \in Piece
        BY <4>1, <1>1 DEF TypeOK, Item
      <4>3. items[item[reader[q].it].key] = reader[q].it => items'[item[reader[q].it].key] = reader[q].it
        BY <4>1, <4>2, <2>4, <1>8
      <4> QED
        BY <3>1, <4>1, <4>3, <1>4 DEF ReaderOK, KeyOf
    <3> QED
      BY <3>2, <3>3
  <2>6. ListOK'
    <3>1. Listed \in SUBSET Id
      BY <1>1, ListedIs
    <3>2. ASSUME NEW j \in Listed PROVE item'[j].state # "new" /\ items'[item'[j].key] = j
      <4>1. item'[j] = item[j] /\ item[j].key \in Piece /\ j \in Id
        BY <3>1, <2>2, <1>1, <1>9 DEF TypeOK, Item
      <4>2. item[j].state # "new" /\ items[item[j].key] = j
        BY <1>1 DEF ListOK
      <4> QED
        BY <4>1, <4>2, <2>4, <1>8
    <3> QED
      BY <3>2, <1>1, <1>4 DEF ListOK
  <2>7. MapOK'
    <3> SUFFICES ASSUME NEW x \in Piece, items'[x] # None PROVE item'[items'[x]].key = x
      BY DEF MapOK
    <3>1. CASE x = k
      BY <3>1, <2>1, <1>5, <1>8
    <3>2. CASE x # k
      <4>1. items'[x] = items[x] /\ items[x] \in Id /\ items[x] # i
        BY <3>2, <2>2, <1>1, <1>8 DEF TypeOK
      <4> QED
        BY <4>1, <1>1, <1>9 DEF MapOK
    <3> QED
      BY <3>1, <3>2
  <2>8. DataOK'
    BY <2>1, <1>1, <1>5, <1>9 DEF DataOK, KeyOf
  <2>9. SumOK'
    <3>1. \A j \in Listed : item'[j].key = item[j].key
      BY <2>2, <1>1, <1>9, ListedIs
    <3> QED
      BY <3>1, <1>4, <1>10, SumKept
  <2> QED
    BY <2>3, <2>5, <2>6, <2>7, <2>8, <2>9, <1>10 DEF IInv
<1> QED
  BY <1>11, <1>12

(* A step in which items leave the map, none of which a reader loads, and  *)
(* readers may return.                                                     *)
LEMMA ItemsGone ==
  ASSUME IInv, TypeOK', DataOK', SumOK', IsInjective(list'), NEW gone \in SUBSET Id,
         \A j \in gone : items[item[j].key] = j,
         \A k \in Piece : items'[k] = IF \E j \in gone : item[j].key = k THEN None ELSE items[k],
         \A q \in Reader : reader'[q] = reader[q] \/ reader'[q].pc = "idle",
         \A q \in Reader :
           /\ reader'[q].pc # "idle"
           /\ reader[q].pc = "inserting" \/ item[reader[q].it].state = "new"
           => reader[q].it \notin gone,
         \A j \in Id : j \in Reachable' =>
           item'[j].key = item[j].key /\ item'[j].state = item[j].state,
         \A q \in Reader :
           reader'[q].pc \notin {"idle", "locking"} =>
             item'[reader[q].it].holder = item[reader[q].it].holder,
         \A q \in Reader : reader'[q].pc = "inserting" => reader[q].it \notin Listed',
         \A j \in Listed' : j \notin gone /\ item[j].state # "new" /\ items[item[j].key] = j
  PROVE  IInv'
<1>t. /\ TypeOK /\ MapOK /\ (\A q \in Reader : ReaderOK(q)) /\ None \notin Id
  BY CacheAssumption DEF IInv
<1>l. Listed' \in SUBSET Id
  BY SetOf DEF TypeOK, Listed
<1>h. /\ Listed' \subseteq Reachable'
      /\ \A k \in Piece : items'[k] \in Reachable'
      /\ \A q \in Reader : reader'[q].it \in Reachable'
  BY ReachableHasNext
<1>k. \A j \in Id : items[item[j].key] = j /\ j \notin gone => items'[item[j].key] = j
  <2> SUFFICES ASSUME NEW j \in Id, items[item[j].key] = j, j \notin gone
               PROVE  items'[item[j].key] = j
    OBVIOUS
  <2>1. item[j].key \in Piece
    BY <1>t DEF TypeOK, Item
  <2>2. ~ \E o \in gone : item[o].key = item[j].key
    OBVIOUS
  <2> QED
    BY <2>1, <2>2
<1>1. ASSUME NEW q \in Reader PROVE ReaderOK(q)'
  <2>1. CASE reader'[q].pc = "idle"
    BY <2>1 DEF ReaderOK
  <2>2. CASE reader'[q].pc # "idle"
    <3>1. reader'[q] = reader[q] /\ ReaderOK(q)
      BY <2>2, <1>t
    <3>2. reader[q].it \in Id /\ reader[q].it \in Reachable'
      BY <2>2, <3>1, <1>h DEF ReaderOK
    <3>3. item'[reader[q].it].key = item[reader[q].it].key /\ item'[reader[q].it].state = item[reader[q].it].state
      BY <3>2
    <3>4. reader[q].pc = "inserting" \/ item[reader[q].it].state = "new" =>
            items'[item[reader[q].it].key] = reader[q].it
      BY <2>2, <3>1, <3>2, <1>k DEF ReaderOK
    <3>5. reader[q].pc # "locking" => item'[reader[q].it].holder = item[reader[q].it].holder
      BY <2>2, <3>1
    <3>6. reader[q].pc = "inserting" => reader[q].it \notin Listed'
      BY <3>1
    <3> QED
      BY <2>2, <3>1, <3>3, <3>4, <3>5, <3>6 DEF ReaderOK, KeyOf
  <2> QED
    BY <2>1, <2>2
<1>2. ListOK'
  BY <1>k, <1>l, <1>h DEF ListOK
<1>3. MapOK'
  <2> SUFFICES ASSUME NEW k \in Piece, items'[k] # None PROVE item'[items'[k]].key = k
    BY DEF MapOK
  <2>1. items'[k] = items[k] /\ items[k] \in Id /\ items[k] \in Reachable'
    BY <1>t, <1>h DEF TypeOK
  <2> QED
    BY <2>1, <1>t DEF MapOK
<1> QED
  BY <1>1, <1>2, <1>3 DEF IInv

(* Two readers past the lock have different items.                         *)
LEMMA LocksExclude ==
  ASSUME IInv, NEW q \in Reader, NEW r \in Reader, q # r,
         reader[q].pc \notin {"idle", "locking"}, reader[r].pc \notin {"idle", "locking"}
  PROVE  reader[q].it # reader[r].it
<1>1. ReaderOK(q) /\ ReaderOK(r)
  BY DEF IInv
<1>2. item[reader[q].it].holder = q /\ item[reader[r].it].holder = r
  BY <1>1 DEF ReaderOK
<1> QED
  BY <1>2

(* handleNewItem does not keep the item.                                   *)
LEMMA InsertNotStep ==
  ASSUME IInv, NEW r \in Reader, InsertNot(r)
  PROVE  IInv'
<1> DEFINE i == reader[r].it
           f == [item EXCEPT ![i].holder = None]
<1>1. /\ TypeOK /\ ReaderOK(r) /\ ListOK /\ DataOK /\ reader[r].pc = "inserting"
      /\ \A q \in Reader : ReaderOK(q)
  BY DEF IInv, InsertNot
<1>2. i \in Id /\ item[i] \in Item
  BY <1>1, InsideIs
<1>3. /\ items' = [items EXCEPT ![item[i].key] = None]
      /\ reader' = Returned(r) /\ item' = Kept(f) /\ UNCHANGED <<list, size, armed, firing>>
  BY DEF InsertNot
<1>4. item[i].holder = r /\ item[i].state # "new" /\ i \notin Listed /\ items[item[i].key] = i
  BY <1>1 DEF ReaderOK
<1>5. f \in [Id -> Item]
  BY <1>1, <1>2 DEF TypeOK, Item
<1>6. \A j \in Id : /\ f[j].key = item[j].key /\ f[j].state = item[j].state
                    /\ f[j].data = item[j].data /\ (j # i => f[j] = item[j])
  BY <1>1, <1>2 DEF TypeOK, Item
<1> HIDE DEF f
<1>7. /\ item' \in [Id -> Item] /\ \A j \in Id : j \in Reachable' => item'[j] = f[j]
      /\ \A j \in Id : item'[j] = f[j] \/ item'[j].data = None
  BY <1>3, <1>5, KeptIs
<1>8. /\ reader' \in [Reader -> ReaderState]
      /\ reader'[r].pc = "idle" /\ \A q \in Reader : q # r => reader'[q] = reader[q]
  BY <1>1, <1>3, ReturnedIs
<1>9. \A q \in Reader : q # r /\ reader[q].pc \notin {"idle", "locking"} => reader[q].it # i
  BY <1>1, LocksExclude
<1>10. \A q \in Reader : reader[q].pc # "idle" => reader[q].it \in Id
  BY <1>1 DEF ReaderOK
<1>m. \A k \in Piece : items'[k] = IF \E j \in {i} : item[j].key = k THEN None ELSE items[k]
  BY <1>1, <1>3 DEF TypeOK
<1>n. items' \in [Piece -> Id \cup {None}]
  BY <1>1, <1>3 DEF TypeOK
<1> HIDE DEF i
<1>11. TypeOK'
  BY <1>n, <1>1, <1>3, <1>7, <1>8 DEF TypeOK
<1>12. Listed' = Listed /\ IsInjective(list')
  BY <1>1, <1>3 DEF Listed, ListOK
<1>13. DataOK'
  BY <1>1, <1>6, <1>7 DEF DataOK, KeyOf
<1>l. Listed \in SUBSET Id /\ Listed \subseteq Reachable'
  BY <1>1, <1>12, ListedIs, ReachableHasNext
<1>14. SumOK'
  <2>1. \A j \in Listed : item'[j].key = item[j].key
    BY <1>l, <1>6, <1>7
  <2> QED
    BY <2>1, <1>3, <1>11, <1>12, SumKept
<1>15. \A q \in Reader : reader'[q] = reader[q] \/ reader'[q].pc = "idle"
  BY <1>8
<1>16. ASSUME NEW q \in Reader, reader'[q].pc # "idle",
              reader[q].pc = "inserting" \/ item[reader[q].it].state = "new"
       PROVE  reader[q].it \notin {i}
  <2>1. q # r
    BY <1>8, <1>16
  <2> QED
    BY <2>1, <1>4, <1>9, <1>16
<1>17. \A j \in Id : j \in Reachable' => item'[j].key = item[j].key /\ item'[j].state = item[j].state
  BY <1>6, <1>7
<1>18. ASSUME NEW q \in Reader, reader'[q].pc \notin {"idle", "locking"}
       PROVE  item'[reader[q].it].holder = item[reader[q].it].holder
  <2>1. q # r /\ reader'[q] = reader[q]
    BY <1>8, <1>18
  <2>2. reader[q].it \in Id /\ reader[q].it # i /\ reader[q].it \in Reachable'
    BY <2>1, <1>9, <1>10, <1>18, ReachableHasNext
  <2> QED
    BY <2>2, <1>6, <1>7
<1>19. ASSUME NEW q \in Reader, reader'[q].pc = "inserting" PROVE reader[q].it \notin Listed'
  <2>1. reader'[q] = reader[q]
    BY <1>15, <1>19
  <2> QED
    BY <2>1, <1>1, <1>12, <1>19 DEF ReaderOK
<1>20. \A j \in Listed' : j \notin {i} /\ item[j].state # "new" /\ items[item[j].key] = j
  BY <1>1, <1>4, <1>12 DEF ListOK
<1>21. PICK gone : gone = {i}
  OBVIOUS
<1>22. /\ gone \in SUBSET Id /\ \A j \in gone : items[item[j].key] = j
       /\ \A k \in Piece : items'[k] = IF \E j \in gone : item[j].key = k THEN None ELSE items[k]
  BY <1>2, <1>4, <1>m, <1>21 DEF i
<1>23. \A q \in Reader :
         /\ reader'[q].pc # "idle"
         /\ reader[q].pc = "inserting" \/ item[reader[q].it].state = "new"
         => reader[q].it \notin gone
  BY <1>16, <1>21
<1>24. \A j \in Listed' : j \notin gone /\ item[j].state # "new" /\ items[item[j].key] = j
  BY <1>20, <1>21
<1> QED
  BY <1>11, <1>12, <1>13, <1>14, <1>15, <1>17, <1>18, <1>19, <1>22, <1>23, <1>24, ItemsGone

(* handleNewItem: room is made, and the item enters the list.              *)
LEMMA InsertStep ==
  ASSUME IInv, NEW r \in Reader, Insert(r)
  PROVE  IInv'
<1> DEFINE i == reader[r].it
           n == Evicted(DataSize(i))
           out == Oldest(n)
           f == [item EXCEPT ![i].timed = TRUE, ![i].holder = None]
<1>1. /\ TypeOK /\ ReaderOK(r) /\ ListOK /\ DataOK /\ SumOK /\ reader[r].pc = "inserting"
      /\ \A q \in Reader : ReaderOK(q)
  BY DEF IInv, Insert
<1>2. i \in Id /\ item[i] \in Item
  BY <1>1, InsideIs
<1>3. /\ DataSize(i) <= MaxSize /\ items' = Dropped(out)
      /\ list' = Append(SubSeq(list, n + 1, Len(list)), i)
      /\ size' = size - SizeSum(out) + DataSize(i) /\ armed' = (armed \ out) \cup {i}
      /\ reader' = Returned(r) /\ item' = Kept(f) /\ UNCHANGED firing
  BY DEF Insert
<1>4. item[i].holder = r /\ item[i].state # "new" /\ i \notin Listed /\ items[item[i].key] = i
  BY <1>1 DEF ReaderOK
<1>5. f \in [Id -> Item]
  BY <1>1, <1>2 DEF TypeOK, Item
<1>6. \A j \in Id : /\ f[j].key = item[j].key /\ f[j].state = item[j].state
                    /\ f[j].data = item[j].data /\ (j # i => f[j] = item[j])
  BY <1>1, <1>2 DEF TypeOK, Item
<1> HIDE DEF f
<1>7. /\ item' \in [Id -> Item] /\ \A j \in Id : j \in Reachable' => item'[j] = f[j]
      /\ \A j \in Id : item'[j] = f[j] \/ item'[j].data = None
  BY <1>3, <1>5, KeptIs
<1>8. /\ reader' \in [Reader -> ReaderState]
      /\ reader'[r].pc = "idle" /\ \A q \in Reader : q # r => reader'[q] = reader[q]
  BY <1>1, <1>3, ReturnedIs
<1>9. \A q \in Reader : q # r /\ reader[q].pc \notin {"idle", "locking"} => reader[q].it # i
  BY <1>1, LocksExclude
<1>10. \A q \in Reader : reader[q].pc # "idle" => reader[q].it \in Id
  BY <1>1 DEF ReaderOK
<1>d. DataSize(i) \in Nat
  BY <1>2, CacheAssumption DEF DataSize, Item
<1>11. n \in 0 .. Len(list) /\ MaxSize - (size - SizeSum(out)) >= DataSize(i)
  BY <1>3, <1>d, EvictedIs
<1> HIDE DEF i, n
<1>12. Listed \in SUBSET Id /\ IsFiniteSet(Listed) /\ list \in Seq(Id) /\ IsInjective(list)
  BY <1>1, ListedIs DEF TypeOK, ListOK
<1>13. /\ SubSeq(list, n + 1, Len(list)) \in Seq(Id) /\ IsInjective(SubSeq(list, n + 1, Len(list)))
       /\ out \in SUBSET Listed /\ ToSet(SubSeq(list, n + 1, Len(list))) = Listed \ out
  BY <1>11, <1>12, SplitSet DEF Listed, Oldest
<1> HIDE DEF out
<1>14. list' \in Seq(Id) /\ IsInjective(list') /\ Listed' = (Listed \ out) \cup {i}
  <2>1. i \in Id /\ i \notin ToSet(SubSeq(list, n + 1, Len(list)))
    BY <1>2, <1>4, <1>13 DEF i
  <2> DEFINE t == SubSeq(list, n + 1, Len(list))
  <2>2. t \in Seq(Id) /\ IsInjective(t) /\ i \notin ToSet(t) /\ list' = Append(t, i) /\ ToSet(t) = Listed \ out
    BY <2>1, <1>3, <1>13
  <2> HIDE DEF t
  <2>3. list' \in Seq(Id) /\ IsInjective(list') /\ ToSet(list') = ToSet(t) \cup {i}
    BY <2>1, <2>2, AppendSet
  <2> QED
    BY <2>2, <2>3 DEF Listed
<1>15. /\ items' \in [Piece -> Id \cup {None}]
       /\ \A k \in Piece : items'[k] = IF \E j \in out : item[j].key = k THEN None ELSE items[k]
  BY <1>1, <1>3 DEF Dropped, TypeOK
<1>16. /\ SizeSum(Listed) = SizeSum(out) + SizeSum(Listed \ out)
       /\ SizeSum(Listed') = DataSize(i) + SizeSum(Listed \ out)
       /\ {SizeSum(Listed), SizeSum(out), SizeSum(Listed \ out), SizeSum(Listed')} \subseteq Nat
  <2>1. item \in [Id -> Item] /\ Listed' \in SUBSET Id /\ i \in Listed'
    BY <1>1, <1>2, <1>12, <1>14 DEF TypeOK, i
  <2>2. IsFiniteSet(Listed') /\ IsFiniteSet(out) /\ IsFiniteSet(Listed \ out)
    <3>1. IsFiniteSet(out) /\ IsFiniteSet(Listed \ out)
      BY <1>12, <1>13, FS_Subset, FS_Difference
    <3> QED
      BY <3>1, <1>14, FS_AddElement
  <2>3. SizeSum(Listed) = SizeSum(out) + SizeSum(Listed \ out)
    BY <2>1, <1>12, <1>13, SizesSplit
  <2>4. SizeSum(Listed') = DataSize(i) + SizeSum(Listed' \ {i})
    BY <2>1, <2>2, SizesWithout
  <2>5. Listed' \ {i} = Listed \ out
    BY <1>4, <1>14 DEF i
  <2>6. SizeSum(Listed' \ {i}) = SizeSum(Listed \ out)
    BY <2>5
  <2>7. {SizeSum(Listed), SizeSum(out), SizeSum(Listed \ out), SizeSum(Listed')} \subseteq Nat
    <3>1. out \in SUBSET Id /\ Listed \ out \in SUBSET Id
      BY <1>12, <1>13
    <3> QED
      BY <3>1, <2>1, <2>2, <1>12, SizesAre
  <2> QED
    BY <2>3, <2>4, <2>6, <2>7
<1>17. size' = SizeSum(Listed') /\ size' \in Nat /\ size' <= MaxSize
  <2>1. size = SizeSum(Listed) /\ MaxSize \in Nat
    BY <1>1, CacheAssumption DEF SumOK
  <2> QED
    BY <2>1, <1>3, <1>d, <1>11, <1>16
<1>18. TypeOK'
  <2>1. armed' \subseteq Id
    BY <1>1, <1>2, <1>3 DEF TypeOK, i
  <2> QED
    BY <2>1, <1>1, <1>3, <1>7, <1>8, <1>14, <1>15, <1>17 DEF TypeOK
<1>l. Listed' \in SUBSET Id /\ Listed' \subseteq Reachable' /\ IsFiniteSet(Listed')
  <2>1. Listed' \in SUBSET Id
    BY <1>2, <1>12, <1>14 DEF i
  <2>2. IsFiniteSet(Listed \ out)
    BY <1>12, FS_Subset
  <2> QED
    BY <2>1, <2>2, <1>14, ReachableHasNext, FS_AddElement
<1>19. SumOK'
  <2>1. \A j \in Listed' : item'[j].key = item[j].key
    BY <1>l, <1>6, <1>7
  <2>2. SumFunctionOnSet([j \in Id |-> SizeOf[item'[j].key]], Listed') = SizeSum(Listed')
    BY <2>1, <1>l, <1>1, <1>7, SizesKept DEF TypeOK
  <2>3. SizeSum(Listed)' = SumFunctionOnSet([j \in Id |-> SizeOf[item'[j].key]], Listed')
    BY DEF SizeSum, DataSize
  <2> QED
    BY <2>2, <2>3, <1>17 DEF SumOK
<1>20. DataOK'
  BY <1>1, <1>6, <1>7 DEF DataOK, KeyOf
<1>21. \A q \in Reader : reader'[q] = reader[q] \/ reader'[q].pc = "idle"
  BY <1>8
<1>22. ASSUME NEW q \in Reader, reader'[q].pc # "idle",
              reader[q].pc = "inserting" \/ item[reader[q].it].state = "new"
       PROVE  reader[q].it \notin Listed
  <2>1. reader[q].pc # "idle" /\ ReaderOK(q)
    BY <1>1, <1>21, <1>22
  <2> QED
    BY <2>1, <1>1, <1>22 DEF ReaderOK, ListOK
<1>23. \A j \in Id : j \in Reachable' => item'[j].key = item[j].key /\ item'[j].state = item[j].state
  BY <1>6, <1>7
<1>24. ASSUME NEW q \in Reader, reader'[q].pc \notin {"idle", "locking"}
       PROVE  item'[reader[q].it].holder = item[reader[q].it].holder
  <2>1. q # r /\ reader'[q] = reader[q]
    BY <1>8, <1>24
  <2>2. reader[q].it \in Id /\ reader[q].it # i /\ reader[q].it \in Reachable'
    BY <2>1, <1>9, <1>10, <1>24, ReachableHasNext
  <2> QED
    BY <2>2, <1>6, <1>7
<1>25. ASSUME NEW q \in Reader, reader'[q].pc = "inserting" PROVE reader[q].it \notin Listed'
  <2>1. q # r /\ reader'[q] = reader[q]
    BY <1>8, <1>25
  <2>2. reader[q].it \notin Listed /\ reader[q].it # i
    BY <2>1, <1>1, <1>9, <1>25 DEF ReaderOK
  <2> QED
    BY <2>2, <1>14
<1>26. \A j \in Listed' : j \notin out /\ item[j].state # "new" /\ items[item[j].key] = j
  BY <1>1, <1>4, <1>13, <1>14 DEF ListOK, i
<1>27. out \in SUBSET Id /\ \A j \in out : items[item[j].key] = j
  BY <1>1, <1>12, <1>13 DEF ListOK
<1>28. \A q \in Reader :
         /\ reader'[q].pc # "idle"
         /\ reader[q].pc = "inserting" \/ item[reader[q].it].state = "new"
         => reader[q].it \notin out
  BY <1>13, <1>22
<1> QED
  BY <1>14, <1>15, <1>18, <1>19, <1>20, <1>21, <1>23, <1>24, <1>25, <1>26, <1>27, <1>28, ItemsGone

(* A timer fires: nothing changes but the timers.                          *)
LEMMA ExpireStep ==
  ASSUME IInv, NEW x \in Id, Expire(x)
  PROVE  IInv'
<1>1. /\ UNCHANGED <<items, item, list, size, reader>> /\ armed' \subseteq Id /\ firing' \subseteq Id
  BY DEF Expire, IInv, TypeOK
<1>2. TypeOK'
  BY <1>1 DEF IInv, TypeOK
<1>3. Listed' = Listed
  BY <1>1 DEF Listed
<1>4. \A r \in Reader : ReaderOK(r)'
  BY <1>1, <1>3 DEF IInv, ReaderOK, KeyOf
<1>5. ListOK' /\ MapOK' /\ DataOK'
  BY <1>1, <1>3 DEF IInv, ListOK, MapOK, DataOK, KeyOf
<1>6. SumOK'
  BY <1>1, <1>2, <1>3, SumKept
<1> QED
  BY <1>2, <1>4, <1>5, <1>6 DEF IInv

(* The timer's function removes the item if it is still in the list.       *)
LEMMA RemoveExpiredStep ==
  ASSUME IInv, NEW x \in Id, RemoveExpired(x)
  PROVE  IInv'
<1> DEFINE gone == IF Contains(list, x) THEN {x} ELSE {}
<1>1. /\ TypeOK /\ ListOK /\ DataOK /\ SumOK /\ item \in [Id -> Item] /\ \A q \in Reader : ReaderOK(q)
  BY DEF IInv, TypeOK
<1>2. item' = Kept(item) /\ reader' = reader /\ firing' = firing \ {x}
  BY DEF RemoveExpired
<1>3. /\ item' \in [Id -> Item] /\ \A j \in Id : j \in Reachable' => item'[j] = item[j]
      /\ \A j \in Id : item'[j] = item[j] \/ item'[j].data = None
  BY <1>1, <1>2, KeptIs
<1>4. Listed \in SUBSET Id /\ IsFiniteSet(Listed) /\ list \in Seq(Id) /\ IsInjective(list)
  BY <1>1, ListedIs DEF TypeOK, ListOK
<1>5. gone \in SUBSET Listed
  BY <1>4, IndexOf
<1>6. list' \in Seq(Id) /\ IsInjective(list') /\ Listed' = Listed \ gone
  <2>1. CASE Contains(list, x)
    <3>1. Index(x) \in 1 .. Len(list) /\ list[Index(x)] = x
      BY <2>1, <1>4, IndexOf
    <3>2. list' = RemoveAt(list, Index(x))
      BY <2>1 DEF RemoveExpired
    <3>3. list' \in Seq(Id) /\ IsInjective(list') /\ ToSet(list') = ToSet(list) \ {list[Index(x)]}
      BY <3>1, <3>2, <1>4, RemoveSet
    <3> QED
      BY <2>1, <3>1, <3>3 DEF Listed
  <2>2. CASE ~Contains(list, x)
    BY <2>2, <1>4 DEF RemoveExpired, Listed
  <2> QED
    BY <2>1, <2>2
<1>7. /\ items' \in [Piece -> Id \cup {None}]
      /\ \A k \in Piece : items'[k] = IF \E j \in gone : item[j].key = k THEN None ELSE items[k]
      /\ armed' \subseteq Id
  BY <1>1 DEF RemoveExpired, Dropped, TypeOK
<1>8. size' \in Nat /\ size' = SizeSum(Listed') /\ size' <= MaxSize
  <2>0. size = SizeSum(Listed) /\ size <= MaxSize /\ MaxSize \in Nat /\ size \in Nat
    BY <1>1, CacheAssumption DEF SumOK, TypeOK
  <2>1. CASE Contains(list, x)
    <3>1. x \in Listed /\ gone = {x} /\ size' = size - DataSize(x)
      BY <2>1, <1>4, IndexOf DEF RemoveExpired
    <3>2. SizeSum(Listed) = DataSize(x) + SizeSum(Listed \ {x})
      BY <3>1, <1>1, <1>4, SizesWithout
    <3>3. SizeSum(Listed') = SizeSum(Listed \ {x})
      BY <3>1, <1>6
    <3>4. DataSize(x) \in Nat
      BY <1>1, CacheAssumption DEF DataSize, Item
    <3>5. SizeSum(Listed \ {x}) \in Nat
      <4>1. IsFiniteSet(Listed \ {x}) /\ Listed \ {x} \in SUBSET Id
        BY <1>4, FS_Subset
      <4> QED
        BY <4>1, <1>1, SizesAre
    <3> QED
      BY <2>0, <3>1, <3>2, <3>3, <3>4, <3>5
  <2>2. CASE ~Contains(list, x)
    <3>1. size' = size /\ Listed' = Listed
      BY <2>2, <1>6 DEF RemoveExpired
    <3> QED
      BY <3>1, <2>0
  <2> QED
    BY <2>1, <2>2
<1> HIDE DEF gone
<1>9. TypeOK'
  BY <1>1, <1>2, <1>3, <1>6, <1>7, <1>8 DEF TypeOK
<1>10. Listed' \in SUBSET Id /\ Listed' \subseteq Reachable' /\ IsFiniteSet(Listed')
  <2>1. Listed' \in SUBSET Listed
    BY <1>6
  <2>2. IsFiniteSet(Listed')
    BY <2>1, <1>4, FS_Subset
  <2> QED
    BY <2>1, <2>2, <1>4, ReachableHasNext
<1>11. SumOK'
  <2>1. \A j \in Listed' : item'[j].key = item[j].key
    BY <1>3, <1>10
  <2>2. SumFunctionOnSet([j \in Id |-> SizeOf[item'[j].key]], Listed') = SizeSum(Listed')
    BY <2>1, <1>10, <1>1, <1>3, SizesKept
  <2>3. SizeSum(Listed)' = SumFunctionOnSet([j \in Id |-> SizeOf[item'[j].key]], Listed')
    BY DEF SizeSum, DataSize
  <2> QED
    BY <2>2, <2>3, <1>8 DEF SumOK
<1>12. DataOK'
  BY <1>1, <1>3 DEF DataOK, KeyOf
<1>13. \A q \in Reader :
         reader[q].pc # "idle" /\ (reader[q].pc = "inserting" \/ item[reader[q].it].state = "new")
         => reader[q].it \notin Listed
  BY <1>1 DEF ReaderOK, ListOK
<1>14. \A q \in Reader :
         /\ reader'[q].pc # "idle"
         /\ reader[q].pc = "inserting" \/ item[reader[q].it].state = "new"
         => reader[q].it \notin gone
  BY <1>2, <1>5, <1>13
<1>15. \A q \in Reader : reader'[q].pc = "inserting" => reader[q].it \notin Listed'
  BY <1>2, <1>6, <1>13
<1>16. \A q \in Reader :
         reader'[q].pc \notin {"idle", "locking"} =>
           item'[reader[q].it].holder = item[reader[q].it].holder
  <2> SUFFICES ASSUME NEW q \in Reader, reader'[q].pc \notin {"idle", "locking"}
               PROVE  item'[reader[q].it].holder = item[reader[q].it].holder
    OBVIOUS
  <2>1. reader[q].it \in Id /\ reader[q].it \in Reachable'
    BY <1>1, <1>2, ReachableHasNext DEF ReaderOK
  <2> QED
    BY <2>1, <1>3
<1>17. \A j \in Listed' : j \notin gone /\ item[j].state # "new" /\ items[item[j].key] = j
  BY <1>1, <1>6 DEF ListOK
<1>18. gone \in SUBSET Id /\ \A j \in gone : items[item[j].key] = j
  BY <1>1, <1>4, <1>5 DEF ListOK
<1>19. \A q \in Reader : reader'[q] = reader[q] \/ reader'[q].pc = "idle"
  BY <1>2
<1>20. \A j \in Id : j \in Reachable' => item'[j].key = item[j].key /\ item'[j].state = item[j].state
  BY <1>3
<1> QED
  BY <1>6, <1>7, <1>9, <1>11, <1>12, <1>14, <1>15, <1>16, <1>17, <1>18, <1>19, <1>20, ItemsGone

-----------------------------------------------------------------------------
(* The inductive invariant holds in every reachable state.                 *)
LEMMA Invariance == Spec => []IInv
<1>1. ASSUME IInv, [Next]_vars PROVE IInv'
  <2>1. CASE \E r \in Reader : Inside(r)
    BY <1>1, <2>1, LockStep, LockFailedStep, TouchStep, AcquireStep, LoadStep, InsertStep,
       InsertNotStep DEF Inside
  <2>2. CASE \E r \in Reader, b \in Block : Get(r, b)
    BY <1>1, <2>2, GetStep
  <2>3. CASE \E i \in Id : Timer(i)
    BY <1>1, <2>3, ExpireStep, RemoveExpiredStep DEF Timer
  <2>4. CASE UNCHANGED vars
    <3>1. UNCHANGED <<items, item, list, size, armed, firing, reader>>
      BY <2>4 DEF vars
    <3>2. Listed' = Listed /\ TypeOK' /\ (\A r \in Reader : ReaderOK(r)')
      BY <1>1, <3>1 DEF IInv, TypeOK, ReaderOK, Listed, KeyOf
    <3>3. ListOK' /\ MapOK' /\ DataOK'
      BY <1>1, <3>1, <3>2 DEF IInv, ListOK, MapOK, DataOK, KeyOf
    <3>4. SumOK'
      BY <1>1, <3>1, <3>2, SumKept
    <3> QED
      BY <3>2, <3>3, <3>4 DEF IInv
  <2> QED
    BY <1>1, <2>1, <2>2, <2>3, <2>4 DEF Next
<1> QED
  BY <1>1, InitOK, PTL DEF Spec

(* Whatever readers, timers, evictions and failed loads cross: the size is *)
(* that of the list and within the limit, and the list's items are the     *)
(* map's.                                                                  *)
THEOREM SizeIsListed == Spec => []ListAccounted
<1>1. ASSUME IInv PROVE ListAccounted
  <2>1. TypeOK /\ ListOK /\ SumOK
    BY <1>1 DEF IInv
  <2>2. Listed = {list[n] : n \in 1 .. Len(list)}
    BY <2>1, SetOf DEF TypeOK, Listed
  <2>3. \A n \in 1 .. Len(list) : items[item[list[n]].key] = list[n]
    BY <2>1, <2>2 DEF ListOK
  <2> QED
    BY <2>1, <2>3 DEF ListAccounted, ListOK, SumOK, Listed
<1> QED
  BY <1>1, Invariance, PTL

(* In a session of one torrent, whose blocks are told apart by their keys: *)
(* readers of a block share one load, and are given that block's data.     *)
THEOREM OneLoadOfABlock ==
  ASSUME \A t, u \in Torrent : t = u
  PROVE  Spec => []SingleLoad
<1>0. \A b, c \in Block : KeyOf(b) = KeyOf(c) => b = c
  BY DEF Block, KeyOf
<1>1. ASSUME IInv PROVE SingleLoad
  <2> DEFINE loads(r) == reader[r].pc \in {"waiting", "loading", "inserting"}
  <2>1. ASSUME NEW q \in Reader, NEW r \in Reader, loads(q), loads(r),
               KeyOf(reader[q].want) = KeyOf(reader[r].want)
        PROVE  q = r
    <3>1. ReaderOK(q) /\ ReaderOK(r)
      BY <1>1 DEF IInv
    <3>2. /\ item[reader[q].it].key = KeyOf(reader[q].want)
          /\ item[reader[r].it].key = KeyOf(reader[r].want)
          /\ items[item[reader[q].it].key] = reader[q].it
          /\ items[item[reader[r].it].key] = reader[r].it
          /\ item[reader[q].it].holder = q /\ item[reader[r].it].holder = r
      BY <3>1, <2>1 DEF ReaderOK
    <3>3. reader[q].it = reader[r].it
      BY <3>2, <2>1
    <3> QED
      BY <3>2, <3>3
  <2>2. ASSUME NEW r \in Reader, reader[r].pc \in {"touching", "inserting"}
        PROVE  item[reader[r].it].data \in {None, reader[r].want}
    <3>1. /\ reader[r].it \in Id /\ reader[r].want \in Block /\ item[reader[r].it] \in Item
          /\ item[reader[r].it].key = KeyOf(reader[r].want)
      BY <1>1, <2>2, InsideIs
    <3>2. CASE item[reader[r].it].data = None
      BY <3>2
    <3>3. CASE item[reader[r].it].data # None
      <4>1. item[reader[r].it].data \in Block /\ KeyOf(item[reader[r].it].data) = item[reader[r].it].key
        BY <3>1, <3>3, <1>1 DEF IInv, DataOK, Item
      <4> QED
        BY <4>1, <3>1, <1>0
    <3> QED
      BY <3>2, <3>3
  <2> QED
    BY <2>1, <2>2 DEF SingleLoad
<1> QED
  BY <1>1, Invariance, PTL

-----------------------------------------------------------------------------
(***************************************************************************)
(* Part 2: the blocks of a piece between downloader and seeder.            *)
(***************************************************************************)
(* A set of natural numbers has a least one.                               *)
LEMMA LeastNatural ==
  ASSUME NEW S, S \subseteq Nat, S # {}
  PROVE  \E x \in S : \A y \in S : x <= y
<1>1. \E x \in S : \A y \in S : <<y, x>> \notin OpToRel(<, Nat)
  BY WFMin, NatLessThanWellFounded, IsWellFoundedOnSubset
<1>2. PICK x \in S : \A y \in S : <<y, x>> \notin OpToRel(<, Nat)
  BY <1>1
<1>3. \A y \in S : ~(y < x)
  BY <1>2 DEF OpToRel
<1>4. \A y \in S : x <= y
  BY <1>3
<1> QED
  BY <1>4

-----------------------------------------------------------------------------
(* What is under way, as sets.                                             *)

AllMessages == BlockMessages({"request", "cancel"}) \cup Downward

(* The block of piece p that a message is about, of a sequence all.        *)
BlockOf(m, p) == IF Concerns(m, p) THEN {m.block} ELSE {}
Blocks(s, p) == {s[i].block : i \in {j \in 1 .. Len(s) : Concerns(s[j], p)}}

(* None is twice in the sequence.                                          *)
Distinct(s, p) ==
  \A i, j \in 1 .. Len(s) :
    Concerns(s[i], p) /\ Concerns(s[j], p) /\ s[i].block = s[j].block => i = j

(* The pieces that a sequence mentions, and those it cancels.              *)
Mentions(m, p) == m.type \in {"request", "cancel", "piece", "reject"} /\ m.piece = p
Mentioned(s, p) == \E i \in 1 .. Len(s) : Mentions(s[i], p)
Cancels(m, p) == m.type = "cancel" /\ m.piece = p
Cancelled(s, p) == \E i \in 1 .. Len(s) : Cancels(s[i], p)

(* One sequence after the other.                                           *)
LEMMA ConcatIs ==
  ASSUME NEW s \in Seq(AllMessages), NEW t \in Seq(AllMessages), NEW p
  PROVE  /\ s \o t \in Seq(AllMessages)
         /\ Blocks(s \o t, p) = Blocks(s, p) \cup Blocks(t, p)
         /\ Distinct(s \o t, p) <=>
              /\ Distinct(s, p) /\ Distinct(t, p)
              /\ Blocks(s, p) \cap Blocks(t, p) = {}
         /\ Mentioned(s \o t, p) <=> Mentioned(s, p) \/ Mentioned(t, p)
         /\ Cancelled(s \o t, p) <=> Cancelled(s, p) \/ Cancelled(t, p)
<1> DEFINE st == s \o t
           n == Len(s)
           m == Len(t)
<1>1. n \in Nat /\ m \in Nat
  BY LenProperties
<1>2. /\ st \in Seq(AllMessages) /\ Len(st) = n + m
      /\ \A i \in 1 .. n + m : st[i] = IF i <= n THEN s[i] ELSE t[i - n]
  BY ConcatProperties
<1> HIDE DEF st, n, m
<1>3. \A i \in 1 .. n : i \in 1 .. n + m /\ st[i] = s[i]
  BY <1>1, <1>2
<1>4. ASSUME NEW i \in 1 .. m PROVE n + i \in 1 .. n + m /\ st[n + i] = t[i]
  <2>1. n + i \in 1 .. n + m /\ ~(n + i <= n) /\ n + i - n = i
    BY <1>1
  <2>2. \A j \in 1 .. n + m : ~(j <= n) => st[j] = t[j - n]
    BY <1>2, Zenon
  <2>3. \A j \in 1 .. n + m : j = n + i => ~(j <= n) /\ j - n = i
    BY <1>1
  <2> QED
    BY <2>1, <2>2, <2>3
<1>5. ASSUME NEW i \in 1 .. n + m
      PROVE  i \in 1 .. n \/ \E k \in 1 .. m : i = n + k
  <2>1. CASE i <= n
    BY <2>1, <1>1
  <2>2. CASE ~(i <= n)
    <3>1. i - n \in 1 .. m /\ i = n + (i - n)
      BY <2>2, <1>1
    <3> QED
      BY <3>1
  <2> QED
    BY <2>1, <2>2
<1>6. \A i \in 1 .. n, k \in 1 .. m : i # n + k
  BY <1>1
<1>7. \A i, k \in 1 .. m : n + i = n + k => i = k
  BY <1>1
<1>8. Blocks(st, p) = Blocks(s, p) \cup Blocks(t, p)
  <2>1. ASSUME NEW b \in Blocks(st, p) PROVE b \in Blocks(s, p) \cup Blocks(t, p)
    <3>1. PICK i \in 1 .. n + m : Concerns(st[i], p) /\ b = st[i].block
      BY <1>2 DEF Blocks
    <3>2. CASE i \in 1 .. n
      BY <3>1, <3>2, <1>3 DEF Blocks, n
    <3>3. CASE \E k \in 1 .. m : i = n + k
      BY <3>1, <3>3, <1>4 DEF Blocks, m
    <3> QED
      BY <3>2, <3>3, <1>5
  <2>2. ASSUME NEW b \in Blocks(s, p) PROVE b \in Blocks(st, p)
    BY <1>2, <1>3 DEF Blocks, n
  <2>3. ASSUME NEW b \in Blocks(t, p) PROVE b \in Blocks(st, p)
    BY <1>2, <1>4 DEF Blocks, m
  <2> QED
    BY <2>1, <2>2, <2>3
<1>9. ASSUME Distinct(st, p)
      PROVE  Distinct(s, p) /\ Distinct(t, p) /\ Blocks(s, p) \cap Blocks(t, p) = {}
  <2>1. Distinct(s, p)
    BY <1>2, <1>3, <1>9 DEF Distinct, n
  <2>2. Distinct(t, p)
    BY <1>2, <1>4, <1>7, <1>9 DEF Distinct, m
  <2>3. ASSUME NEW b \in Blocks(s, p), b \in Blocks(t, p) PROVE FALSE
    <3>1. PICK i \in 1 .. n : Concerns(s[i], p) /\ b = s[i].block
      BY DEF Blocks, n
    <3>2. PICK k \in 1 .. m : Concerns(t[k], p) /\ b = t[k].block
      BY <2>3 DEF Blocks, m
    <3>3. i \in 1 .. Len(st) /\ n + k \in 1 .. Len(st) /\ st[i] = s[i] /\ st[n + k] = t[k]
      BY <1>2, <1>3, <1>4
    <3>4. i = n + k
      BY <3>1, <3>2, <3>3, <1>9, Zenon DEF Distinct
    <3> QED
      BY <3>4, <1>6
  <2> QED
    BY <2>1, <2>2, <2>3
<1>10. ASSUME Distinct(s, p), Distinct(t, p), Blocks(s, p) \cap Blocks(t, p) = {}
       PROVE  Distinct(st, p)
  <2> SUFFICES ASSUME NEW i \in 1 .. n + m, NEW j \in 1 .. n + m,
                      Concerns(st[i], p), Concerns(st[j], p), st[i].block = st[j].block
               PROVE  i = j
    BY <1>2 DEF Distinct
  <2>1. \A k \in 1 .. n : Concerns(s[k], p) => s[k].block \in Blocks(s, p)
    BY DEF Blocks, n
  <2>2. \A k \in 1 .. m : Concerns(t[k], p) => t[k].block \in Blocks(t, p)
    BY DEF Blocks, m
  <2>3. CASE i \in 1 .. n /\ j \in 1 .. n
    BY <2>3, <1>3, <1>10 DEF Distinct, n
  <2>4. CASE i \in 1 .. n /\ \E k \in 1 .. m : j = n + k
    BY <2>4, <2>1, <2>2, <1>3, <1>4, <1>10
  <2>5. CASE j \in 1 .. n /\ \E k \in 1 .. m : i = n + k
    BY <2>5, <2>1, <2>2, <1>3, <1>4, <1>10
  <2>6. CASE (\E k \in 1 .. m : i = n + k) /\ (\E k \in 1 .. m : j = n + k)
    <3>1. PICK k \in 1 .. m : i = n + k
      BY <2>6
    <3>2. PICK l \in 1 .. m : j = n + l
      BY <2>6
    <3>3. k = l
      BY <3>1, <3>2, <1>4, <1>10 DEF Distinct, m
    <3> QED
      BY <3>1, <3>2, <3>3
  <2> QED
    BY <1>5, <2>3, <2>4, <2>5, <2>6
<1>11. Mentioned(st, p) <=> Mentioned(s, p) \/ Mentioned(t, p)
  <2>1. Mentioned(s, p) \/ Mentioned(t, p) => Mentioned(st, p)
    BY <1>2, <1>3, <1>4 DEF Mentioned, n, m
  <2>2. Mentioned(st, p) => Mentioned(s, p) \/ Mentioned(t, p)
    BY <1>2, <1>3, <1>4, <1>5 DEF Mentioned, n, m
  <2> QED
    BY <2>1, <2>2
<1>12. Cancelled(st, p) <=> Cancelled(s, p) \/ Cancelled(t, p)
  <2>1. Cancelled(s, p) \/ Cancelled(t, p) => Cancelled(st, p)
    BY <1>2, <1>3, <1>4 DEF Cancelled, n, m
  <2>2. Cancelled(st, p) => Cancelled(s, p) \/ Cancelled(t, p)
    BY <1>2, <1>3, <1>4, <1>5 DEF Cancelled, n, m
  <2> QED
    BY <2>1, <2>2
<1> QED
  BY <1>2, <1>8, <1>9, <1>10, <1>11, <1>12 DEF st

(* No message, and one.                                                    *)
LEMMA EmptyIs ==
  ASSUME NEW p
  PROVE  /\ Blocks(<<>>, p) = {} /\ Distinct(<<>>, p)
         /\ ~Mentioned(<<>>, p) /\ ~Cancelled(<<>>, p)
  BY DEF Blocks, Distinct, Mentioned, Cancelled

LEMMA SingleIs ==
  ASSUME NEW m \in AllMessages, NEW p
  PROVE  /\ <<m>> \in Seq(AllMessages)
         /\ Blocks(<<m>>, p) = BlockOf(m, p) /\ Distinct(<<m>>, p)
         /\ Mentioned(<<m>>, p) <=> Mentions(m, p)
         /\ Cancelled(<<m>>, p) <=> Cancels(m, p)
<1>1. <<m>> \in Seq(AllMessages) /\ Len(<<m>>) = 1 /\ <<m>>[1] = m /\ 1 .. 1 = {1}
  OBVIOUS
<1> DEFINE s == <<m>>
<1>2. s \in Seq(AllMessages) /\ Len(s) = 1 /\ s[1] = m
  BY <1>1
<1> HIDE DEF s
<1>3. Blocks(s, p) = BlockOf(m, p)
  BY <1>1, <1>2 DEF Blocks, BlockOf
<1>4. Distinct(s, p)
  BY <1>1, <1>2 DEF Distinct
<1>5. /\ Mentioned(s, p) <=> Mentions(m, p)
      /\ Cancelled(s, p) <=> Cancels(m, p)
  BY <1>1, <1>2 DEF Mentioned, Cancelled
<1> QED
  BY <1>2, <1>3, <1>4, <1>5 DEF s

(* A message more at the end.                                              *)
LEMMA AppendIs ==
  ASSUME NEW s \in Seq(AllMessages), NEW m \in AllMessages, NEW p
  PROVE  /\ Blocks(Append(s, m), p) = Blocks(s, p) \cup BlockOf(m, p)
         /\ Distinct(Append(s, m), p) <=>
              Distinct(s, p) /\ Blocks(s, p) \cap BlockOf(m, p) = {}
         /\ Mentioned(Append(s, m), p) <=> Mentioned(s, p) \/ Mentions(m, p)
         /\ Cancelled(Append(s, m), p) <=> Cancelled(s, p) \/ Cancels(m, p)
<1>1. Append(s, m) = s \o <<m>>
  BY AppendIsConcat
<1> DEFINE t == <<m>>
<1>2. /\ t \in Seq(AllMessages)
      /\ Blocks(t, p) = BlockOf(m, p) /\ Distinct(t, p)
      /\ Mentioned(t, p) <=> Mentions(m, p)
      /\ Cancelled(t, p) <=> Cancels(m, p)
  BY SingleIs
<1>3. Append(s, m) = s \o t
  BY <1>1
<1> HIDE DEF t
<1>4. /\ Blocks(s \o t, p) = Blocks(s, p) \cup Blocks(t, p)
      /\ Distinct(s \o t, p) <=>
           Distinct(s, p) /\ Distinct(t, p) /\ Blocks(s, p) \cap Blocks(t, p) = {}
      /\ Mentioned(s \o t, p) <=> Mentioned(s, p) \/ Mentioned(t, p)
      /\ Cancelled(s \o t, p) <=> Cancelled(s, p) \/ Cancelled(t, p)
  BY <1>2, ConcatIs
<1> QED
  BY <1>2, <1>3, <1>4, Zenon

(* The first message taken.                                                *)
LEMMA TailIs ==
  ASSUME NEW S, S \subseteq AllMessages, NEW s \in Seq(S), s # <<>>, NEW p
  PROVE  /\ Head(s) \in S /\ Tail(s) \in Seq(S)
         /\ Blocks(s, p) = Blocks(Tail(s), p) \cup BlockOf(Head(s), p)
         /\ Distinct(s, p) =>
              Distinct(Tail(s), p) /\ Blocks(Tail(s), p) \cap BlockOf(Head(s), p) = {}
         /\ Mentioned(s, p) <=> Mentioned(Tail(s), p) \/ Mentions(Head(s), p)
         /\ Cancelled(s, p) <=> Cancelled(Tail(s), p) \/ Cancels(Head(s), p)
<1>1. Head(s) \in S /\ Tail(s) \in Seq(S) /\ s = <<Head(s)>> \o Tail(s)
  BY HeadTailProperties, ConcatSimplifications
<1> DEFINE h == Head(s)
           r == Tail(s)
           t == <<h>>
<1>2. h \in AllMessages /\ r \in Seq(AllMessages)
  BY <1>1, SeqMonotonic
<1>3. s = t \o r
  BY <1>1
<1>4. /\ t \in Seq(AllMessages)
      /\ Blocks(t, p) = BlockOf(h, p) /\ Distinct(t, p)
      /\ Mentioned(t, p) <=> Mentions(h, p)
      /\ Cancelled(t, p) <=> Cancels(h, p)
  BY <1>2, SingleIs
<1> HIDE DEF t, h, r
<1>5. /\ Blocks(t \o r, p) = Blocks(t, p) \cup Blocks(r, p)
      /\ Distinct(t \o r, p) <=>
           Distinct(t, p) /\ Distinct(r, p) /\ Blocks(t, p) \cap Blocks(r, p) = {}
      /\ Mentioned(t \o r, p) <=> Mentioned(t, p) \/ Mentioned(r, p)
      /\ Cancelled(t \o r, p) <=> Cancelled(t, p) \/ Cancelled(r, p)
  BY <1>2, <1>4, ConcatIs
<1>6. /\ Blocks(s, p) = Blocks(r, p) \cup BlockOf(h, p)
      /\ Distinct(s, p) => Distinct(r, p) /\ Blocks(r, p) \cap BlockOf(h, p) = {}
  BY <1>3, <1>4, <1>5
<1>7. /\ Mentioned(s, p) <=> Mentioned(r, p) \/ Mentions(h, p)
      /\ Cancelled(s, p) <=> Cancelled(r, p) \/ Cancels(h, p)
  BY <1>3, <1>4, <1>5, Zenon
<1> QED
  BY <1>1, <1>6, <1>7 DEF h, r

(* s is f, m and g, one after the other, and r is what is left without m.  *)
Split(s, m, r, f, g) == s = f \o (<<m>> \o g) /\ r = f \o g

(* The first of some messages in a queue taken out.                        *)
LEMMA RemovedSplit ==
  ASSUME NEW S, NEW s \in Seq(S), NEW m, Contains(s, m)
  PROVE  m \in S /\ \E f, g \in Seq(S) : Split(s, m, RemoveFirst(s, m), f, g)
<1> DEFINE I == {i \in 1 .. Len(s) : s[i] = m}
<1>1. \E i \in 1 .. Len(s) : s[i] = m
  BY DEF Contains
<1>2. RemoveFirst(s, m) = RemoveAt(s, Min(I))
  BY <1>1 DEF RemoveFirst, SelectInSeq
<1>3. Len(s) \in Nat
  BY LenProperties
<1>4. Min(I) \in I
  <2>1. I \subseteq Nat /\ I # {}
    BY <1>1, <1>3
  <2> HIDE DEF I
  <2>2. \E x \in I : \A y \in I : x <= y
    BY <2>1, LeastNatural
  <2> QED
    BY <2>2 DEF Min
<1>5. PICK n \in 1 .. Len(s) : n = Min(I) /\ s[n] = m
  BY <1>4
<1> HIDE DEF I
<1> DEFINE f == SubSeq(s, 1, n - 1)
           g == SubSeq(s, n + 1, Len(s))
<1>6. RemoveFirst(s, m) = f \o g
  BY <1>2, <1>5 DEF RemoveAt
<1>7. s = f \o (<<m>> \o g)
  <2>1. /\ 1 \in 1 .. Len(s) + 1 /\ n - 1 \in 1 - 1 .. Len(s) /\ Len(s) \in n - 1 .. Len(s)
        /\ Len(s) \in n .. Len(s) /\ n - 1 + 1 = n
    BY <1>3
  <2>2. f \o SubSeq(s, n - 1 + 1, Len(s)) = SubSeq(s, 1, Len(s))
    BY <2>1, ConcatAdjacentSubSeq
  <2>3. SubSeq(s, n, Len(s)) = <<s[n]>> \o g
    BY <2>1, SubSeqRecursiveFirst
  <2>4. SubSeq(s, 1, Len(s)) = s
    BY SubSeqFull
  <2> HIDE DEF f, g
  <2> QED
    BY <2>1, <2>2, <2>3, <2>4, <1>5
<1>8. f \in Seq(S) /\ g \in Seq(S) /\ m \in S
  <2>1. \A i \in 1 .. Len(s) : s[i] \in S
    BY ElementOfSeq
  <2>2. /\ 1 \in Int /\ n - 1 \in Int /\ n + 1 \in Int /\ Len(s) \in Int
        /\ 1 .. n - 1 \subseteq 1 .. Len(s) /\ n + 1 .. Len(s) \subseteq 1 .. Len(s)
    BY <1>3
  <2>3. f \in Seq(S)
    BY <2>1, <2>2, SubSeqProperties
  <2>4. g \in Seq(S)
    BY <2>1, <2>2, SubSeqProperties
  <2> QED
    BY <2>1, <2>3, <2>4, <1>5
<1> HIDE DEF f, g
<1>9. Split(s, m, RemoveFirst(s, m), f, g)
  BY <1>6, <1>7 DEF Split
<1> QED
  BY <1>8, <1>9

(* A message that is not about p taken out.                                *)
LEMMA RemovedIs ==
  ASSUME NEW S, S \subseteq AllMessages, NEW s \in Seq(S), NEW m, Contains(s, m), NEW p
  PROVE  /\ RemoveFirst(s, m) \in Seq(S)
         /\ Mentioned(RemoveFirst(s, m), p) => Mentioned(s, p)
         /\ ~Concerns(m, p) => Blocks(RemoveFirst(s, m), p) = Blocks(s, p)
         /\ ~Concerns(m, p) /\ Distinct(s, p) => Distinct(RemoveFirst(s, m), p)
<1>0. m \in S /\ \E f, g \in Seq(S) : Split(s, m, RemoveFirst(s, m), f, g)
  BY RemovedSplit
<1>1. PICK f \in Seq(S), g \in Seq(S) : Split(s, m, RemoveFirst(s, m), f, g)
  BY <1>0
<1> DEFINE h == <<m>>
           hg == h \o g
<1>6. RemoveFirst(s, m) = f \o g
  BY <1>1 DEF Split
<1>7. s = f \o hg
  BY <1>1 DEF Split
<1>8. f \in Seq(S) /\ g \in Seq(S) /\ m \in S
  BY <1>0
<1>9. /\ h \in Seq(AllMessages) /\ Blocks(h, p) = BlockOf(m, p)
      /\ f \in Seq(AllMessages) /\ g \in Seq(AllMessages)
  <2>1. m \in AllMessages /\ Seq(S) \subseteq Seq(AllMessages)
    BY <1>8, SeqMonotonic
  <2> QED
    BY <1>8, <2>1, SingleIs
<1> HIDE DEF h
<1>10. f \o g \in Seq(S)
  BY <1>8, ConcatProperties
<1>11. /\ hg \in Seq(AllMessages)
       /\ Blocks(hg, p) = Blocks(h, p) \cup Blocks(g, p)
       /\ Distinct(hg, p) => Distinct(g, p)
       /\ Mentioned(g, p) => Mentioned(hg, p)
  BY <1>9, ConcatIs
<1> HIDE DEF hg
<1>12. /\ Blocks(f \o hg, p) = Blocks(f, p) \cup Blocks(hg, p)
       /\ Distinct(f \o hg, p) =>
            /\ Distinct(f, p) /\ Distinct(hg, p)
            /\ Blocks(f, p) \cap Blocks(hg, p) = {}
       /\ Mentioned(f \o hg, p) <=> Mentioned(f, p) \/ Mentioned(hg, p)
  BY <1>9, <1>11, ConcatIs
<1>13. /\ Blocks(f \o g, p) = Blocks(f, p) \cup Blocks(g, p)
       /\ Distinct(f \o g, p) <=>
            /\ Distinct(f, p) /\ Distinct(g, p) /\ Blocks(f, p) \cap Blocks(g, p) = {}
       /\ Mentioned(f \o g, p) <=> Mentioned(f, p) \/ Mentioned(g, p)
  BY <1>9, ConcatIs
<1>14. Mentioned(f \o g, p) => Mentioned(s, p)
  BY <1>7, <1>11, <1>12, <1>13, Zenon
<1>15. ASSUME ~Concerns(m, p)
       PROVE  /\ Blocks(f \o g, p) = Blocks(s, p)
              /\ Distinct(s, p) => Distinct(f \o g, p)
  <2>1. Blocks(hg, p) = Blocks(g, p)
    BY <1>9, <1>11, <1>15 DEF BlockOf
  <2>2. Blocks(f \o g, p) = Blocks(s, p)
    BY <2>1, <1>7, <1>12, <1>13
  <2>3. Distinct(s, p) => Distinct(f \o g, p)
    BY <2>1, <1>7, <1>11, <1>12, <1>13, Zenon
  <2> QED
    BY <2>2, <2>3
<1> QED
  BY <1>6, <1>10, <1>14, <1>15

(* The messages about some blocks of a piece q.                            *)
LEMMA MessagesAre ==
  ASSUME NEW type \in {"request", "cancel"}, NEW q \in NeededPieces,
         NEW bs \in Seq(1 .. NumBlocks), NEW p
  PROVE  /\ Messages(type, q, bs) \in Seq(BlockMessages({"request", "cancel"}))
         /\ Blocks(Messages(type, q, bs), p) =
              IF type = "request" /\ p = q THEN ToSet(bs) ELSE {}
         /\ IsInjective(bs) => Distinct(Messages(type, q, bs), p)
         /\ Mentioned(Messages(type, q, bs), p) => p = q
         /\ Cancelled(Messages(type, q, bs), p) => type = "cancel" /\ p = q
<1> DEFINE s == Messages(type, q, bs)
<1>1. /\ ToSet(bs) = {bs[n] : n \in 1 .. Len(bs)} /\ Len(bs) \in Nat
      /\ IsInjective(bs) <=> \A a, b \in 1 .. Len(bs) : bs[a] = bs[b] => a = b
  BY SetOf
<1>2. \A n \in 1 .. Len(bs) : bs[n] \in 1 .. NumBlocks
  BY ElementOfSeq
<1>3. \A n \in 1 .. Len(bs) :
        /\ s[n] \in BlockMessages({"request", "cancel"})
        /\ s[n].type = type /\ s[n].piece = q /\ s[n].block = bs[n]
  BY <1>2 DEF Messages, BlockMessage, BlockMessages
<1>4. s \in Seq(BlockMessages({"request", "cancel"})) /\ Len(s) = Len(bs)
  <2>1. s \in [1 .. Len(bs) -> BlockMessages({"request", "cancel"})]
    BY <1>3 DEF Messages
  <2>2. s \in Seq(BlockMessages({"request", "cancel"}))
    BY <1>1, <2>1, IsASeq
  <2>3. DOMAIN s = 1 .. Len(s) /\ Len(s) \in Nat /\ DOMAIN s = 1 .. Len(bs)
    BY <2>1, <2>2, LenProperties
  <2> HIDE DEF s
  <2> QED
    BY <2>2, <2>3, <1>1
<1> HIDE DEF s
<1>5. \A n \in 1 .. Len(s) : Concerns(s[n], p) <=> type = "request" /\ p = q
  BY <1>3, <1>4 DEF Concerns
<1>6. Blocks(s, p) = IF type = "request" /\ p = q THEN ToSet(bs) ELSE {}
  <2>1. CASE type = "request" /\ p = q
    <3>1. Blocks(s, p) = {s[n].block : n \in 1 .. Len(s)}
      BY <2>1, <1>5 DEF Blocks
    <3>2. {s[n].block : n \in 1 .. Len(s)} = {bs[n] : n \in 1 .. Len(bs)}
      BY <1>3, <1>4
    <3> QED
      BY <2>1, <3>1, <3>2, <1>1
  <2>2. CASE ~(type = "request" /\ p = q)
    BY <2>2, <1>5 DEF Blocks
  <2> QED
    BY <2>1, <2>2
<1>7. IsInjective(bs) => Distinct(s, p)
  BY <1>1, <1>3, <1>4 DEF Distinct
<1>8. /\ Mentioned(s, p) => p = q
      /\ Cancelled(s, p) => type = "cancel" /\ p = q
  BY <1>3, <1>4 DEF Mentioned, Mentions, Cancelled, Cancels
<1> QED
  BY <1>4, <1>6, <1>7, <1>8 DEF s

-----------------------------------------------------------------------------
(* The blocks of a piece at the downloader.                                *)

Divided(d) ==
  /\ IsInjective(d.remaining)
  /\ ToSet(d.remaining) \cup d.pending \cup d.done = 1 .. NumBlocks
  /\ ToSet(d.remaining) \cap (d.pending \cup d.done) = {}
  /\ d.pending \cap d.done = {}

(* The number of blocks taken is one that there is, and no fewer will do.  *)
LEMMA TakenIs ==
  ASSUME NEW d \in Downloaders, NEW q
  PROVE  /\ Taken(d, q) \in 0 .. Len(d.remaining)
         /\ \A k \in 0 .. Taken(d, q) - 1 :
              ~(Cardinality(d.pending \cup ToSet(SubSeq(d.remaining, 1, k))) >= q)
<1> DEFINE full(k) == Cardinality(d.pending \cup ToSet(SubSeq(d.remaining, 1, k))) >= q
           N == Len(d.remaining)
           S == {n \in 0 .. N : full(n) \/ n = N}
<1>1. N \in Nat
  <2>1. d.remaining \in Seq(1 .. NumBlocks)
    BY DEF Downloaders
  <2> QED
    BY <2>1, LenProperties
<1> HIDE DEF N, full
<1>2. S \subseteq Nat /\ N \in S
  BY <1>1
<1>3. PICK n \in S : \A k \in S : n <= k
  <2>1. S # {}
    BY <1>2
  <2> HIDE DEF S
  <2> QED
    BY <1>2, <2>1, LeastNatural
<1>4. \A k \in 0 .. n - 1 : ~full(k)
  <2> SUFFICES ASSUME NEW k \in 0 .. n - 1, full(k) PROVE FALSE
    OBVIOUS
  <2>1. k \in S /\ ~(n <= k)
    BY <1>1
  <2> QED
    BY <2>1, <1>3
<1>5. n \in 0 .. N /\ (full(n) \/ n = N)
  OBVIOUS
<1>6. \E m \in 0 .. N : (full(m) \/ m = N) /\ \A k \in 0 .. m - 1 : ~full(k)
  BY <1>4, <1>5
<1>7. Taken(d, q) =
        CHOOSE m \in 0 .. N : (full(m) \/ m = N) /\ \A k \in 0 .. m - 1 : ~full(k)
  BY DEF Taken, full, N
<1> HIDE DEF S
<1>8. Taken(d, q) \in 0 .. N /\ \A k \in 0 .. Taken(d, q) - 1 : ~full(k)
  BY <1>6, <1>7
<1> QED
  BY <1>8 DEF N, full

(* None of the blocks taken has arrived, so that all of them are requested. *)
LEMMA RequestsAre ==
  ASSUME NEW d \in Downloaders, Divided(d), NEW q
  PROVE  /\ Requests(d, q) = SubSeq(d.remaining, 1, Taken(d, q))
         /\ Requests(d, q) \in Seq(1 .. NumBlocks) /\ IsInjective(Requests(d, q))
         /\ ToSet(Requests(d, q)) \subseteq ToSet(d.remaining)
<1> DEFINE s == d.remaining
           N == Taken(d, q)
           t == SubSeq(s, 1, N)
           missing == {i \in 1 .. Len(t) : t[i] \notin d.done}
           nth(n) == CHOOSE i \in missing : Cardinality({j \in missing : j <= i}) = n
<1>1. /\ s \in Seq(1 .. NumBlocks) /\ IsInjective(s) /\ ToSet(s) \cap d.done = {}
      /\ N \in 0 .. Len(s)
  BY TakenIs DEF Downloaders, Divided
<1>2. Requests(d, q) = [n \in 1 .. Cardinality(missing) |-> t[nth(n)]]
  BY DEF Requests
<1> HIDE DEF s, N
<1>3. /\ ToSet(s) = {s[n] : n \in 1 .. Len(s)} /\ Len(s) \in Nat
      /\ \A a, b \in 1 .. Len(s) : s[a] = s[b] => a = b
  BY <1>1, SetOf
<1>4. /\ t \in Seq(1 .. NumBlocks) /\ Len(t) = N /\ \A k \in 1 .. N : t[k] = s[k]
  <2>1. N \in Nat /\ 1 \in Int /\ N \in Int /\ \A k \in 1 .. N : s[k] \in 1 .. NumBlocks
    <3>1. N \in Nat /\ 1 .. N \subseteq 1 .. Len(s)
      BY <1>1, <1>3
    <3>2. \A k \in 1 .. Len(s) : s[k] \in 1 .. NumBlocks
      BY <1>1, ElementOfSeq
    <3> QED
      BY <3>1, <3>2
  <2>2. /\ SubSeq(s, 1, N) \in Seq(1 .. NumBlocks)
        /\ Len(SubSeq(s, 1, N)) = IF 1 <= N THEN N - 1 + 1 ELSE 0
        /\ \A k \in 1 .. N - 1 + 1 : SubSeq(s, 1, N)[k] = s[1 + k - 1]
    BY <2>1, SubSeqProperties
  <2> HIDE DEF t
  <2>3. /\ t \in Seq(1 .. NumBlocks) /\ Len(t) = IF 1 <= N THEN N - 1 + 1 ELSE 0
        /\ \A k \in 1 .. N - 1 + 1 : t[k] = s[1 + k - 1]
    BY <2>2 DEF t
  <2> QED
    BY <2>1, <2>3
<1> HIDE DEF t
<1>5. 1 .. N \subseteq 1 .. Len(s) /\ N \in Nat
  BY <1>1, <1>3
<1>6. missing = 1 .. N
  BY <1>1, <1>3, <1>4, <1>5
<1>7. Cardinality(1 .. N) = N /\ \A i \in 1 .. N : Cardinality({j \in 1 .. N : j <= i}) = i
  <2>1. Cardinality(1 .. N) = N
    BY <1>5, FS_Interval
  <2>2. ASSUME NEW i \in 1 .. N PROVE Cardinality({j \in 1 .. N : j <= i}) = i
    <3>1. {j \in 1 .. N : j <= i} = 1 .. i /\ i \in Nat
      BY <1>5
    <3>2. Cardinality(1 .. i) = i
      BY <3>1, FS_Interval
    <3> QED
      BY <3>1, <3>2
  <2> QED
    BY <2>1, <2>2
<1>8. \A n \in 1 .. N : nth(n) = n
  BY <1>6, <1>7
<1> HIDE DEF nth, missing
<1>9. Requests(d, q) = [n \in 1 .. N |-> t[n]]
  BY <1>2, <1>6, <1>7, <1>8
<1>10. Requests(d, q) = t
  <2>1. t = [n \in DOMAIN t |-> t[n]] /\ DOMAIN t = 1 .. N
    BY <1>4, LenProperties
  <2> QED
    BY <1>9, <2>1
<1>11. ToSet(t) = {t[n] : n \in 1 .. N}
  BY <1>4, SetOf
<1>12. ToSet(t) \subseteq ToSet(s)
  BY <1>3, <1>4, <1>5, <1>11
<1>13. IsInjective(t)
  <2>1. \A a, b \in 1 .. Len(t) : t[a] = t[b] => a = b
    BY <1>3, <1>4, <1>5
  <2> QED
    BY <2>1, <1>4, SetOf
<1> QED
  BY <1>4, <1>10, <1>12, <1>13 DEF t, s, N

(* RequestBlocks moves the blocks it requests from remaining to pending.   *)
LEMMA RequestBlocksIs ==
  ASSUME NEW d \in Downloaders, Divided(d), NEW q
  PROVE  /\ RequestBlocks(d, q) \in Downloaders /\ Divided(RequestBlocks(d, q))
         /\ RequestBlocks(d, q).piece = d.piece
         /\ RequestBlocks(d, q).pending = d.pending \cup ToSet(Requests(d, q))
         /\ RequestBlocks(d, q).done = d.done
         /\ d.pending \cap ToSet(Requests(d, q)) = {}
<1> DEFINE s == d.remaining
           N == Taken(d, q)
           t == Requests(d, q)
           r == SubSeq(s, N + 1, Len(s))
           e == RequestBlocks(d, q)
<1>1. /\ s \in Seq(1 .. NumBlocks) /\ d.pending \subseteq 1 .. NumBlocks
      /\ d.done \subseteq 1 .. NumBlocks /\ d.piece \in NeededPieces
      /\ IsInjective(s) /\ ToSet(s) \cup d.pending \cup d.done = 1 .. NumBlocks
      /\ ToSet(s) \cap (d.pending \cup d.done) = {} /\ d.pending \cap d.done = {}
  BY DEF Downloaders, Divided
<1>2. N \in 0 .. Len(s)
  BY TakenIs
<1>3. t = SubSeq(s, 1, N) /\ ToSet(t) \subseteq ToSet(s)
  BY RequestsAre
<1>4. e = [d EXCEPT !.pending = @ \cup ToSet(SubSeq(s, 1, N)), !.remaining = SubSeq(@, N + 1, Len(@))]
  BY DEF RequestBlocks
<1> HIDE DEF s, N, t, e
<1>5. /\ r \in Seq(1 .. NumBlocks) /\ IsInjective(r)
      /\ ToSet(r) = ToSet(s) \ ToSet(SubSeq(s, 1, N))
  BY <1>1, <1>2, SplitSet
<1>6. e = [piece |-> d.piece, remaining |-> r, pending |-> d.pending \cup ToSet(t), done |-> d.done]
  BY <1>3, <1>4 DEF Downloaders, s
<1> HIDE DEF r
<1>7. ToSet(t) \subseteq 1 .. NumBlocks
  BY <1>1, <1>3
<1>8. e \in Downloaders
  BY <1>1, <1>5, <1>6, <1>7 DEF Downloaders
<1>9. e.piece = d.piece /\ e.remaining = r /\ e.pending = d.pending \cup ToSet(t) /\ e.done = d.done
  BY <1>6
<1>10. Divided(e)
  <2>1. ToSet(r) = ToSet(s) \ ToSet(t)
    BY <1>3, <1>5
  <2>2. /\ ToSet(r) \cup (d.pending \cup ToSet(t)) \cup d.done = 1 .. NumBlocks
        /\ ToSet(r) \cap ((d.pending \cup ToSet(t)) \cup d.done) = {}
        /\ (d.pending \cup ToSet(t)) \cap d.done = {}
    BY <2>1, <1>1, <1>3
  <2> QED
    BY <2>2, <1>5, <1>9 DEF Divided
<1>11. d.pending \cap ToSet(t) = {}
  BY <1>1, <1>3
<1> QED
  BY <1>8, <1>9, <1>10, <1>11 DEF e, t

(* A new downloader has every block to request.                            *)
LEMMA NewDownloaderIs ==
  ASSUME NEW p \in NeededPieces
  PROVE  /\ NewDownloader(p, NumBlocks) \in Downloaders /\ Divided(NewDownloader(p, NumBlocks))
         /\ NewDownloader(p, NumBlocks).piece = p /\ NewDownloader(p, NumBlocks).pending = {}
<1> DEFINE s == [n \in 1 .. NumBlocks |-> n]
           d == NewDownloader(p, NumBlocks)
<1>1. s \in Seq(1 .. NumBlocks) /\ ToSet(s) = 1 .. NumBlocks /\ IsInjective(s)
  <2>1. s \in Seq(1 .. NumBlocks)
    BY TransferAssumption, IsASeq
  <2>2. DOMAIN s = 1 .. NumBlocks /\ \A n \in 1 .. NumBlocks : s[n] = n
    OBVIOUS
  <2> HIDE DEF s
  <2> QED
    BY <2>1, <2>2 DEF ToSet, IsInjective
<1>2. d = [piece |-> p, remaining |-> s, pending |-> {}, done |-> {}]
  BY DEF NewDownloader
<1> HIDE DEF s, d
<1>3. d \in Downloaders
  BY <1>1, <1>2 DEF Downloaders
<1>4. Divided(d)
  BY <1>1, <1>2 DEF Divided
<1> QED
  BY <1>2, <1>3, <1>4 DEF d

(* A block that was waited for arrives, or is rejected.                    *)
LEMMA GotBlockIs ==
  ASSUME NEW d \in Downloaders, Divided(d), NEW b \in d.pending
  PROVE  /\ GotBlock(d, b) \in Downloaders /\ Divided(GotBlock(d, b))
         /\ GotBlock(d, b).piece = d.piece /\ GotBlock(d, b).pending = d.pending \ {b}
         /\ GotBlock(d, b).done = d.done \cup {b} /\ GotBlock(d, b).remaining = d.remaining
<1> DEFINE e == GotBlock(d, b)
<1>1. b \notin d.done /\ b \in 1 .. NumBlocks
  BY DEF Divided, Downloaders
<1>2. e = [piece |-> d.piece, remaining |-> d.remaining,
           pending |-> d.pending \ {b}, done |-> d.done \cup {b}]
  BY <1>1 DEF GotBlock, Downloaders
<1> HIDE DEF e
<1>3. e \in Downloaders
  BY <1>1, <1>2 DEF Downloaders
<1>4. Divided(e)
  BY <1>1, <1>2 DEF Divided
<1> QED
  BY <1>2, <1>3, <1>4 DEF e

LEMMA RejectedIs ==
  ASSUME NEW d \in Downloaders, Divided(d), NEW b \in d.pending
  PROVE  /\ Rejected(d, b) \in Downloaders /\ Divided(Rejected(d, b))
         /\ Rejected(d, b).piece = d.piece /\ Rejected(d, b).pending = d.pending \ {b}
<1> DEFINE e == Rejected(d, b)
           s == d.remaining
           t == Append(s, b)
<1>1. b \notin ToSet(s) /\ b \in 1 .. NumBlocks /\ s \in Seq(1 .. NumBlocks) /\ IsInjective(s)
  BY DEF Divided, Downloaders
<1>2. e = [d EXCEPT !.pending = @ \ {b}, !.remaining = t]
  BY DEF Rejected
<1> HIDE DEF s, e
<1>3. t \in Seq(1 .. NumBlocks) /\ IsInjective(t) /\ ToSet(t) = ToSet(s) \cup {b}
  <2> DEFINE S == 1 .. NumBlocks
  <2>1. b \notin ToSet(s) /\ b \in S /\ s \in Seq(S) /\ IsInjective(s)
    BY <1>1
  <2> HIDE DEF S
  <2>2. t \in Seq(S) /\ IsInjective(t) /\ ToSet(t) = ToSet(s) \cup {b}
    BY <2>1, AppendSet
  <2> QED
    BY <2>2 DEF S
<1> HIDE DEF t
<1>4. e = [piece |-> d.piece, remaining |-> t, pending |-> d.pending \ {b}, done |-> d.done]
  BY <1>2 DEF Downloaders
<1>5. e \in Downloaders
  BY <1>3, <1>4 DEF Downloaders
<1>6. Divided(e)
  BY <1>3, <1>4 DEF Divided, s
<1> QED
  BY <1>4, <1>5, <1>6 DEF e

-----------------------------------------------------------------------------
(* The invariant.                                                          *)

(* What a downloader d waits for is what the sequence s of messages        *)
(* brings, once, and none of s cancels its piece.  No message mentions one *)
(* of the pieces ps, which have not been picked.                           *)
Sound(d, ps, s) ==
  /\ d # Absent =>
       /\ d \in Downloaders /\ Divided(d) /\ d.piece \notin ps
       /\ Distinct(s, d.piece) /\ Blocks(s, d.piece) = d.pending
       /\ ~Cancelled(s, d.piece)
  /\ \A p \in ps : ~Mentioned(s, p)

Held == IF writing = Absent THEN <<>> ELSE <<writing>>

Writers ==
  [queue : Seq(Downward), queuedRequests : Int, served : SUBSET BlockMessages({"piece"})]

TransferTyped ==
  /\ maxIn \in MaxRequestsIn /\ reqq \in MaxRequestsIn \cup {0} /\ todo \subseteq NeededPieces
  /\ toSeeder \in Seq(BlockMessages({"request", "cancel"})) /\ toLeech \in Seq(Downward)
  /\ writing \in Downward \cup {Absent} /\ writer \in Writers

TransferInv == TransferTyped /\ Sound(pd, todo, Pipeline)

(* Four sequences, one after the other, as sets.                           *)
Joined(s, a, b, c, d, p) ==
  /\ Blocks(s, p) = Blocks(a, p) \cup Blocks(b, p) \cup Blocks(c, p) \cup Blocks(d, p)
  /\ Distinct(s, p) <=>
       /\ Distinct(a, p) /\ Distinct(b, p) /\ Distinct(c, p) /\ Distinct(d, p)
       /\ Blocks(a, p) \cap Blocks(b, p) = {}
       /\ (Blocks(a, p) \cup Blocks(b, p)) \cap Blocks(c, p) = {}
       /\ (Blocks(a, p) \cup Blocks(b, p) \cup Blocks(c, p)) \cap Blocks(d, p) = {}
  /\ Mentioned(s, p) <=>
       Mentioned(a, p) \/ Mentioned(b, p) \/ Mentioned(c, p) \/ Mentioned(d, p)
  /\ Cancelled(s, p) <=>
       Cancelled(a, p) \/ Cancelled(b, p) \/ Cancelled(c, p) \/ Cancelled(d, p)

LEMMA FourAre ==
  ASSUME NEW a \in Seq(AllMessages), NEW b \in Seq(AllMessages),
         NEW c \in Seq(AllMessages), NEW d \in Seq(AllMessages), NEW p
  PROVE  /\ a \o b \o c \o d \in Seq(AllMessages) /\ a \o b \o c \in Seq(AllMessages)
         /\ Joined(a \o b \o c \o d, a, b, c, d, p)
<1> DEFINE ab == a \o b
           abc == ab \o c
           s == abc \o d
<1>1. /\ ab \in Seq(AllMessages)
      /\ Blocks(ab, p) = Blocks(a, p) \cup Blocks(b, p)
      /\ Distinct(ab, p) <=>
           Distinct(a, p) /\ Distinct(b, p) /\ Blocks(a, p) \cap Blocks(b, p) = {}
      /\ Mentioned(ab, p) <=> Mentioned(a, p) \/ Mentioned(b, p)
      /\ Cancelled(ab, p) <=> Cancelled(a, p) \/ Cancelled(b, p)
  BY ConcatIs
<1> HIDE DEF ab
<1>2. /\ abc \in Seq(AllMessages)
      /\ Blocks(abc, p) = Blocks(ab, p) \cup Blocks(c, p)
      /\ Distinct(abc, p) <=>
           Distinct(ab, p) /\ Distinct(c, p) /\ Blocks(ab, p) \cap Blocks(c, p) = {}
      /\ Mentioned(abc, p) <=> Mentioned(ab, p) \/ Mentioned(c, p)
      /\ Cancelled(abc, p) <=> Cancelled(ab, p) \/ Cancelled(c, p)
  BY <1>1, ConcatIs
<1> HIDE DEF abc
<1>3. /\ s \in Seq(AllMessages)
      /\ Blocks(s, p) = Blocks(abc, p) \cup Blocks(d, p)
      /\ Distinct(s, p) <=>
           Distinct(abc, p) /\ Distinct(d, p) /\ Blocks(abc, p) \cap Blocks(d, p) = {}
      /\ Mentioned(s, p) <=> Mentioned(abc, p) \/ Mentioned(d, p)
      /\ Cancelled(s, p) <=> Cancelled(abc, p) \/ Cancelled(d, p)
  BY <1>2, ConcatIs
<1> HIDE DEF s
<1>4. Joined(s, a, b, c, d, p)
  BY <1>1, <1>2, <1>3, Zenon DEF Joined
<1> QED
  BY <1>2, <1>3, <1>4 DEF s, abc, ab

(* What no message mentions.                                               *)
LEMMA Unmentioned ==
  ASSUME NEW s, NEW p, ~Mentioned(s, p)
  PROVE  Blocks(s, p) = {} /\ Distinct(s, p) /\ ~Cancelled(s, p)
<1>1. \A i \in 1 .. Len(s) : ~Concerns(s[i], p) /\ ~Cancels(s[i], p)
  BY DEF Mentioned, Mentions, Concerns, Cancels
<1> QED
  BY <1>1 DEF Blocks, Distinct, Cancelled

(* The types of the four.                                                  *)
LEMMA PartsAre ==
  ASSUME TransferTyped
  PROVE  /\ toLeech \in Seq(AllMessages) /\ Held \in Seq(AllMessages)
         /\ writer.queue \in Seq(AllMessages) /\ toSeeder \in Seq(AllMessages)
         /\ Pipeline = toLeech \o Held \o writer.queue \o toSeeder
<1>1. Downward \subseteq AllMessages /\ BlockMessages({"request", "cancel"}) \subseteq AllMessages
  BY DEF AllMessages
<1>2. Seq(Downward) \subseteq Seq(AllMessages)
  BY <1>1, SeqMonotonic
<1>3. Seq(BlockMessages({"request", "cancel"})) \subseteq Seq(AllMessages)
  BY <1>1, SeqMonotonic
<1>4. Held \in Seq(AllMessages)
  <2>1. <<>> \in Seq(AllMessages)
    BY EmptySeq
  <2>2. \A m \in AllMessages : <<m>> \in Seq(AllMessages)
    BY SingleIs
  <2> QED
    BY <2>1, <2>2, <1>1 DEF Held, TransferTyped
<1>5. writer.queue \in Seq(Downward)
  BY DEF TransferTyped, Writers
<1> QED
  BY <1>2, <1>3, <1>4, <1>5, Zenon DEF TransferTyped, Pipeline, Held

(* The type invariant, in its own words.                                   *)
LEMMA TransferInvTyped ==
  ASSUME TransferInv, snub \in SnubTimers
  PROVE  BlocksDivided
<1>1. /\ writer.queue \in Seq(Downward) /\ writer.served \subseteq BlockMessages({"piece"})
  BY DEF TransferInv, TransferTyped, Writers
<1>2. pd \in Downloaders \cup {Absent}
  BY DEF TransferInv, Sound
<1>3. TransferTypeOK
  BY <1>1, <1>2 DEF TransferInv, TransferTyped, TransferTypeOK
<1>4. pd # Absent => Divided(pd)
  BY DEF TransferInv, Sound
<1> QED
  BY <1>3, <1>4 DEF BlocksDivided, Divided

(* What is under way once is at one position.                              *)
LEMMA TransferInvAnswered ==
  ASSUME TransferInv
  PROVE  AnsweredOnce
<1> SUFFICES ASSUME pd # Absent, NEW b \in 1 .. NumBlocks
             PROVE  Cardinality({i \in 1 .. Len(Pipeline) :
                       Concerns(Pipeline[i], pd.piece) /\ Pipeline[i].block = b})
                      = IF b \in pd.pending THEN 1 ELSE 0
  BY DEF AnsweredOnce
<1> DEFINE P == {i \in 1 .. Len(Pipeline) :
                   Concerns(Pipeline[i], pd.piece) /\ Pipeline[i].block = b}
<1>1. Distinct(Pipeline, pd.piece) /\ Blocks(Pipeline, pd.piece) = pd.pending
  BY DEF TransferInv, Sound
<1>2. CASE b \in pd.pending
  <2>1. PICK i \in 1 .. Len(Pipeline) : Concerns(Pipeline[i], pd.piece) /\ Pipeline[i].block = b
    BY <1>1, <1>2 DEF Blocks
  <2>2. P = {i}
    BY <2>1, <1>1 DEF Distinct
  <2>3. Cardinality({i}) = 1
    BY FS_Singleton
  <2> HIDE DEF P
  <2>4. Cardinality(P) = 1
    BY <2>2, <2>3
  <2> QED
    BY <1>2, <2>4 DEF P
<1>3. CASE b \notin pd.pending
  <2>1. P = {}
    BY <1>1, <1>3 DEF Blocks
  <2>2. Cardinality({}) = 0
    BY FS_EmptySet
  <2> HIDE DEF P
  <2>3. Cardinality(P) = 0
    BY <2>1, <2>2
  <2> QED
    BY <1>3, <2>3 DEF P
<1> QED
  BY <1>2, <1>3

-----------------------------------------------------------------------------
(* Steps that pick a piece, or receive a message.                          *)

(* Requests for blocks bs of the piece of d, and d waits for them as well. *)
LEMMA RequestedSound ==
  ASSUME NEW d \in Downloaders, Divided(d), NEW ps, d.piece \notin ps, NEW q,
         NEW s \in Seq(AllMessages),
         Distinct(s, d.piece), Blocks(s, d.piece) = d.pending, ~Cancelled(s, d.piece),
         \A p \in ps : ~Mentioned(s, p)
  PROVE  LET more == Messages("request", d.piece, Requests(d, q))
         IN /\ more \in Seq(BlockMessages({"request", "cancel"}))
            /\ Sound(RequestBlocks(d, q), ps, s \o more)
<1> DEFINE bs == Requests(d, q)
           more == Messages("request", d.piece, bs)
           e == RequestBlocks(d, q)
           c == d.piece
<1>1. bs \in Seq(1 .. NumBlocks) /\ IsInjective(bs)
  BY RequestsAre
<1>2. /\ e \in Downloaders /\ Divided(e) /\ e.piece = c
      /\ e.pending = d.pending \cup ToSet(bs) /\ d.pending \cap ToSet(bs) = {}
  BY RequestBlocksIs
<1>3. c \in NeededPieces
  BY DEF Downloaders
<1> HIDE DEF bs, e, c
<1>4. /\ more \in Seq(BlockMessages({"request", "cancel"}))
      /\ Blocks(more, c) = ToSet(bs) /\ Distinct(more, c) /\ ~Cancelled(more, c)
  BY <1>1, <1>3, MessagesAre DEF c
<1>5. \A p : Mentioned(more, p) => p = c
  BY <1>1, <1>3, MessagesAre DEF c
<1> HIDE DEF more
<1>6. more \in Seq(AllMessages)
  <2>1. Seq(BlockMessages({"request", "cancel"})) \subseteq Seq(AllMessages)
    BY SeqMonotonic DEF AllMessages
  <2> QED
    BY <1>4, <2>1
<1>7. /\ Blocks(s \o more, c) = Blocks(s, c) \cup Blocks(more, c)
      /\ Distinct(s \o more, c) <=>
           Distinct(s, c) /\ Distinct(more, c) /\ Blocks(s, c) \cap Blocks(more, c) = {}
      /\ Cancelled(s \o more, c) <=> Cancelled(s, c) \/ Cancelled(more, c)
  BY <1>6, ConcatIs
<1>8. \A p : Mentioned(s \o more, p) <=> Mentioned(s, p) \/ Mentioned(more, p)
  BY <1>6, ConcatIs
<1>9. Distinct(s, c) /\ Blocks(s, c) = d.pending /\ ~Cancelled(s, c) /\ c \notin ps
  BY DEF c
<1>10. /\ Distinct(s \o more, c) /\ Blocks(s \o more, c) = e.pending
       /\ ~Cancelled(s \o more, c)
  BY <1>2, <1>4, <1>7, <1>9, Zenon
<1>11. \A p \in ps : ~Mentioned(s \o more, p)
  BY <1>5, <1>8, <1>9
<1>12. Sound(e, ps, s \o more)
  BY <1>2, <1>9, <1>10, <1>11, Zenon DEF Sound
<1> QED
  BY <1>4, <1>12 DEF e, more, bs, c

(* startPieceDownloaderFor: the piece picked has not been mentioned.       *)
LEMMA StartNextSound ==
  ASSUME TransferTyped, NEW a \in Seq(AllMessages),
         NEW before \in Seq(BlockMessages({"request", "cancel"})),
         NEW timer, StartNext(before, timer),
         \A p \in todo : ~Mentioned(a, p) /\ ~Mentioned(toSeeder, p) /\ ~Mentioned(before, p)
  PROVE  /\ toSeeder' \in Seq(BlockMessages({"request", "cancel"})) /\ todo' \subseteq NeededPieces
         /\ Sound(pd', todo', a \o toSeeder')
<1> DEFINE S == BlockMessages({"request", "cancel"})
           t == toSeeder \o before
           u == a \o t
<1>1. toSeeder \in Seq(S) /\ todo \subseteq NeededPieces
  BY DEF TransferTyped
<1>2. t \in Seq(S)
  BY <1>1, ConcatProperties
<1>3. Seq(S) \subseteq Seq(AllMessages)
  BY SeqMonotonic DEF AllMessages
<1> HIDE DEF S
<1>4. \A p \in todo : ~Mentioned(t, p)
  <2>1. \A p : Mentioned(t, p) <=> Mentioned(toSeeder, p) \/ Mentioned(before, p)
    BY <1>1, <1>3, ConcatIs DEF S
  <2> QED
    BY <2>1
<1> HIDE DEF t
<1>5. u \in Seq(AllMessages) /\ \A p \in todo : ~Mentioned(u, p)
  <2>1. t \in Seq(AllMessages)
    BY <1>2, <1>3
  <2>2. u \in Seq(AllMessages)
    BY <2>1, ConcatProperties
  <2>3. \A p : Mentioned(u, p) <=> Mentioned(a, p) \/ Mentioned(t, p)
    BY <2>1, ConcatIs
  <2> QED
    BY <2>2, <2>3, <1>4
<1> HIDE DEF u
<1>6. CASE todo = {} /\ pd' = Absent /\ todo' = todo /\ toSeeder' = t
  <2>1. Sound(pd', todo', u)
    BY <1>6 DEF Sound
  <2>2. a \o toSeeder' = u
    BY <1>6 DEF u
  <2> QED
    BY <1>1, <1>2, <1>6, <2>1, <2>2 DEF S
<1>7. ASSUME NEW p \in todo,
             pd' = RequestBlocks(NewDownloader(p, NumBlocks), MaxAllowedRequests(reqq)),
             todo' = todo \ {p},
             toSeeder' = t \o Messages("request", p,
                               Requests(NewDownloader(p, NumBlocks), MaxAllowedRequests(reqq)))
      PROVE  /\ toSeeder' \in Seq(S) /\ todo' \subseteq NeededPieces
             /\ Sound(pd', todo', a \o toSeeder')
  <2> DEFINE d == NewDownloader(p, NumBlocks)
             q == MaxAllowedRequests(reqq)
             more == Messages("request", d.piece, Requests(d, q))
  <2>1. d \in Downloaders /\ Divided(d) /\ d.piece = p /\ d.pending = {}
    BY <1>1, NewDownloaderIs
  <2>2. pd' = RequestBlocks(d, q) /\ toSeeder' = t \o more
    BY <1>7, <2>1
  <2> HIDE DEF d, q
  <2>3. Blocks(u, p) = {} /\ Distinct(u, p) /\ ~Cancelled(u, p)
    BY <1>5, Unmentioned
  <2>4. d.piece \notin todo' /\ \A r \in todo' : ~Mentioned(u, r)
    BY <1>5, <1>7, <2>1
  <2>5. more \in Seq(S) /\ Sound(RequestBlocks(d, q), todo', u \o more)
    BY <2>1, <2>3, <2>4, <1>5, RequestedSound DEF S
  <2> HIDE DEF more
  <2>6. u \o more = a \o (t \o more)
    <3>1. t \in Seq(AllMessages) /\ more \in Seq(AllMessages)
      BY <2>5, <1>2, <1>3
    <3> QED
      BY <3>1, ConcatAssociative DEF u
  <2>7. t \o more \in Seq(S)
    BY <2>5, <1>2, ConcatProperties
  <2> QED
    BY <2>2, <2>5, <2>6, <2>7, <1>1, <1>7
<1>8. \/ todo = {} /\ pd' = Absent /\ todo' = todo /\ toSeeder' = t
      \/ \E p \in todo :
           /\ pd' = RequestBlocks(NewDownloader(p, NumBlocks), MaxAllowedRequests(reqq))
           /\ todo' = todo \ {p}
           /\ toSeeder' = t \o Messages("request", p,
                               Requests(NewDownloader(p, NumBlocks), MaxAllowedRequests(reqq)))
  BY Zenon DEF StartNext, t
<1> QED
  BY <1>6, <1>7, <1>8 DEF S

(* What is left after a message has been received.                         *)
LEMMA AfterReceive ==
  ASSUME TransferTyped, toLeech # <<>>, NEW p
  PROVE  LET m == Head(toLeech)
             a == Tail(toLeech) \o Held \o writer.queue
             s == a \o toSeeder
         IN /\ m \in Downward /\ Tail(toLeech) \in Seq(Downward)
            /\ a \in Seq(AllMessages) /\ s \in Seq(AllMessages)
            /\ Blocks(Pipeline, p) = Blocks(s, p) \cup BlockOf(m, p)
            /\ Distinct(Pipeline, p) => Distinct(s, p) /\ Blocks(s, p) \cap BlockOf(m, p) = {}
            /\ Mentioned(s, p) => Mentioned(Pipeline, p)
            /\ Mentioned(s, p) <=> Mentioned(a, p) \/ Mentioned(toSeeder, p)
            /\ Mentions(m, p) => Mentioned(Pipeline, p)
            /\ Cancelled(s, p) => Cancelled(Pipeline, p)
<1> DEFINE m == Head(toLeech)
           r == Tail(toLeech)
           b == Held
           c == writer.queue
           a == r \o b \o c
           s == a \o toSeeder
           t == toLeech \o b \o c \o toSeeder
<1>1. /\ toLeech \in Seq(AllMessages) /\ b \in Seq(AllMessages)
      /\ c \in Seq(AllMessages) /\ toSeeder \in Seq(AllMessages) /\ Pipeline = t
  BY PartsAre
<1>2. Downward \subseteq AllMessages /\ toLeech \in Seq(Downward)
  BY DEF AllMessages, TransferTyped
<1>3. /\ m \in Downward /\ r \in Seq(Downward)
      /\ Blocks(toLeech, p) = Blocks(r, p) \cup BlockOf(m, p)
      /\ Distinct(toLeech, p) => Distinct(r, p) /\ Blocks(r, p) \cap BlockOf(m, p) = {}
      /\ Mentioned(toLeech, p) <=> Mentioned(r, p) \/ Mentions(m, p)
      /\ Cancelled(toLeech, p) <=> Cancelled(r, p) \/ Cancels(m, p)
  BY <1>2, TailIs
<1>4. r \in Seq(AllMessages)
  BY <1>2, <1>3, SeqMonotonic
<1> HIDE DEF m, r, b, c
<1>5. s \in Seq(AllMessages) /\ a \in Seq(AllMessages) /\ Joined(s, r, b, c, toSeeder, p)
  BY <1>1, <1>4, FourAre
<1>6. Joined(t, toLeech, b, c, toSeeder, p)
  BY <1>1, FourAre
<1>7. Mentioned(s, p) <=> Mentioned(a, p) \/ Mentioned(toSeeder, p)
  <2> HIDE DEF a
  <2> QED
    BY <1>1, <1>5, ConcatIs
<1> HIDE DEF s, t, a
<1>8. Blocks(t, p) = Blocks(s, p) \cup BlockOf(m, p)
  BY <1>3, <1>5, <1>6, Zenon DEF Joined
<1>9. Distinct(t, p) => Distinct(s, p) /\ Blocks(s, p) \cap BlockOf(m, p) = {}
  <2> SUFFICES ASSUME Distinct(t, p) PROVE Distinct(s, p) /\ Blocks(s, p) \cap BlockOf(m, p) = {}
    OBVIOUS
  <2>1. /\ Distinct(r, p) /\ Distinct(b, p) /\ Distinct(c, p) /\ Distinct(toSeeder, p)
        /\ Blocks(r, p) \cap BlockOf(m, p) = {}
    BY <1>3, <1>6, Zenon DEF Joined
  <2>2. /\ Blocks(toLeech, p) \cap Blocks(b, p) = {}
        /\ (Blocks(toLeech, p) \cup Blocks(b, p)) \cap Blocks(c, p) = {}
        /\ (Blocks(toLeech, p) \cup Blocks(b, p) \cup Blocks(c, p)) \cap Blocks(toSeeder, p) = {}
        /\ Blocks(toLeech, p) = Blocks(r, p) \cup BlockOf(m, p)
    BY <1>3, <1>6, Zenon DEF Joined
  <2>3. /\ Blocks(r, p) \cap Blocks(b, p) = {}
        /\ (Blocks(r, p) \cup Blocks(b, p)) \cap Blocks(c, p) = {}
        /\ (Blocks(r, p) \cup Blocks(b, p) \cup Blocks(c, p)) \cap Blocks(toSeeder, p) = {}
    BY ONLY <2>2
  <2>4. /\ Blocks(b, p) \cap BlockOf(m, p) = {} /\ Blocks(c, p) \cap BlockOf(m, p) = {}
        /\ Blocks(toSeeder, p) \cap BlockOf(m, p) = {}
    BY ONLY <2>2
  <2>5. Distinct(s, p)
    BY <2>1, <2>3, <1>5, Zenon DEF Joined
  <2>6. Blocks(s, p) \cap BlockOf(m, p) = {}
    BY <2>1, <2>4, <1>5 DEF Joined
  <2> QED
    BY <2>5, <2>6
<1>10. /\ Mentioned(s, p) \/ Mentions(m, p) => Mentioned(t, p)
       /\ Cancelled(s, p) => Cancelled(t, p)
  BY <1>3, <1>5, <1>6, Zenon DEF Joined
<1> QED
  BY <1>1, <1>3, <1>5, <1>7, <1>8, <1>9, <1>10, Zenon DEF m, r, b, c, a, s

(* handlePeerMessage: HaveAllMessage.                                      *)
LEMMA ReceiveHaveAllStep ==
  ASSUME TransferInv, ReceiveHaveAll
  PROVE  TransferInv'
<1> DEFINE a == Tail(toLeech) \o Held \o writer.queue
<1>1. TransferTyped /\ toLeech # <<>> /\ \A p \in todo : ~Mentioned(Pipeline, p)
  BY DEF TransferInv, Sound, ReceiveHaveAll, Receive
<1>2. a \in Seq(AllMessages) /\ Tail(toLeech) \in Seq(Downward)
  BY <1>1, AfterReceive, Zenon
<1>3. \A p \in todo : ~Mentioned(a, p) /\ ~Mentioned(toSeeder, p)
  BY <1>1, AfterReceive, Zenon
<1>4. Pipeline' = a \o toSeeder'
  BY DEF ReceiveHaveAll, Receive, Pipeline, Held
<1> HIDE DEF a
<1>5. <<>> \in Seq(BlockMessages({"request", "cancel"})) /\ \A p : ~Mentioned(<<>>, p)
  BY EmptySeq, EmptyIs
<1>6. /\ toSeeder' \in Seq(BlockMessages({"request", "cancel"})) /\ todo' \subseteq NeededPieces
      /\ Sound(pd', todo', a \o toSeeder')
  BY <1>1, <1>2, <1>3, <1>5, StartNextSound DEF ReceiveHaveAll
<1>7. TransferTyped'
  BY <1>1, <1>2, <1>6 DEF TransferTyped, ReceiveHaveAll, Receive
<1> QED
  BY <1>4, <1>6, <1>7 DEF TransferInv

(* The extension handshake tells the length of the seeder's queue.         *)
LEMMA ReceiveHandshakeStep ==
  ASSUME TransferInv, ReceiveHandshake
  PROVE  TransferInv'
<1> DEFINE m == Head(toLeech)
           s == Tail(toLeech) \o Held \o writer.queue \o toSeeder
<1>1. TransferTyped /\ toLeech # <<>> /\ m.type = "handshake"
  BY DEF TransferInv, ReceiveHandshake, Receive
<1>2. Tail(toLeech) \in Seq(Downward)
  BY <1>1, AfterReceive, Zenon
<1>3. \A p : /\ Blocks(Pipeline, p) = Blocks(s, p) \cup BlockOf(m, p)
             /\ Distinct(Pipeline, p) => Distinct(s, p)
             /\ Mentioned(s, p) => Mentioned(Pipeline, p)
             /\ Cancelled(s, p) => Cancelled(Pipeline, p)
  BY <1>1, AfterReceive, Zenon
<1>4. Pipeline' = s
  BY DEF ReceiveHandshake, Receive, Pipeline, Held
<1>5. \A p : BlockOf(m, p) = {}
  BY <1>1 DEF BlockOf, Concerns
<1> HIDE DEF s, m
<1>6. Sound(pd, todo, s)
  BY <1>3, <1>5 DEF TransferInv, Sound
<1>7. TransferTyped'
  BY <1>1, <1>2 DEF TransferTyped, ReceiveHandshake, Receive
<1>8. pd' = pd /\ todo' = todo
  BY DEF ReceiveHandshake
<1> QED
  BY <1>4, <1>6, <1>7, <1>8 DEF TransferInv

(* A message about the piece being downloaded is about a block waited for. *)
LEMMA OursIsPending ==
  ASSUME TransferInv, Receive({"piece", "reject"}), IsOurs(Head(toLeech))
  PROVE  LET m == Head(toLeech)
             s == Tail(toLeech) \o Held \o writer.queue \o toSeeder
         IN /\ pd \in Downloaders /\ Divided(pd) /\ m.block \in pd.pending
            /\ s \in Seq(AllMessages) /\ pd.piece \notin todo
            /\ Distinct(s, pd.piece) /\ Blocks(s, pd.piece) = pd.pending \ {m.block}
            /\ ~Cancelled(s, pd.piece) /\ \A p \in todo : ~Mentioned(s, p)
<1> DEFINE m == Head(toLeech)
           s == Tail(toLeech) \o Held \o writer.queue \o toSeeder
           c == pd.piece
<1>1. /\ TransferTyped /\ toLeech # <<>> /\ m.type \in {"piece", "reject"}
      /\ pd # Absent /\ m.piece = c
  BY DEF TransferInv, Receive, IsOurs
<1>2. /\ s \in Seq(AllMessages)
      /\ Blocks(Pipeline, c) = Blocks(s, c) \cup BlockOf(m, c)
      /\ Distinct(Pipeline, c) => Distinct(s, c) /\ Blocks(s, c) \cap BlockOf(m, c) = {}
      /\ Cancelled(s, c) => Cancelled(Pipeline, c)
  BY <1>1, AfterReceive, Zenon
<1>3. \A p : Mentioned(s, p) => Mentioned(Pipeline, p)
  BY <1>1, AfterReceive, Zenon
<1>4. /\ pd \in Downloaders /\ Divided(pd) /\ c \notin todo
      /\ Distinct(Pipeline, c) /\ Blocks(Pipeline, c) = pd.pending /\ ~Cancelled(Pipeline, c)
      /\ \A p \in todo : ~Mentioned(Pipeline, p)
  BY <1>1, Zenon DEF TransferInv, Sound
<1>5. BlockOf(m, c) = {m.block}
  BY <1>1 DEF BlockOf, Concerns
<1> HIDE DEF s, m, c
<1>6. Blocks(s, c) = pd.pending \ {m.block} /\ m.block \in pd.pending
  BY <1>2, <1>4, <1>5
<1> QED
  BY <1>2, <1>3, <1>4, <1>6, Zenon DEF s, m, c

(* handlePieceMessage.                                                     *)
LEMMA ReceivePieceStep ==
  ASSUME TransferInv, ReceivePiece
  PROVE  TransferInv'
<1> DEFINE m == Head(toLeech)
           a == Tail(toLeech) \o Held \o writer.queue
           s == a \o toSeeder
           got == GotBlock(pd, m.block)
           q == MaxAllowedRequests(reqq)
<1>1. Receive({"piece", "reject"}) /\ IsOurs(m) /\ TransferTyped /\ toLeech # <<>>
  BY DEF ReceivePiece, Receive, TransferInv
<1>2. /\ pd \in Downloaders /\ Divided(pd) /\ m.block \in pd.pending
      /\ s \in Seq(AllMessages) /\ pd.piece \notin todo
      /\ Distinct(s, pd.piece) /\ Blocks(s, pd.piece) = pd.pending \ {m.block}
      /\ ~Cancelled(s, pd.piece) /\ \A p \in todo : ~Mentioned(s, p)
  BY <1>1, OursIsPending, Zenon
<1>3. a \in Seq(AllMessages) /\ Tail(toLeech) \in Seq(Downward)
  BY <1>1, AfterReceive, Zenon
<1>4. \A p \in todo : ~Mentioned(a, p) /\ ~Mentioned(toSeeder, p)
  BY <1>1, <1>2, AfterReceive, Zenon
<1>5. Pipeline' = a \o toSeeder'
  BY DEF ReceivePiece, Receive, Pipeline, Held
<1>6. got \in Downloaders /\ Divided(got) /\ got.piece = pd.piece /\ got.pending = pd.pending \ {m.block}
  BY <1>2, GotBlockIs
<1>7. /\ toLeech' = Tail(toLeech) /\ UNCHANGED <<maxIn, reqq, writer, writing>>
      /\ \/ StartNext(<<>>, StopSnubTimer(snub))
         \/ /\ pd' = RequestBlocks(got, q) /\ todo' = todo
            /\ toSeeder' = toSeeder \o Messages("request", pd.piece, Requests(got, q))
  BY Zenon DEF ReceivePiece, Receive
<1>8. toSeeder \in Seq(BlockMessages({"request", "cancel"})) /\ todo \subseteq NeededPieces
  BY <1>1 DEF TransferTyped
<1> HIDE DEF m, got, q, a
<1>9. ASSUME StartNext(<<>>, StopSnubTimer(snub))
      PROVE  /\ toSeeder' \in Seq(BlockMessages({"request", "cancel"})) /\ todo' \subseteq NeededPieces
             /\ Sound(pd', todo', a \o toSeeder')
  <2>1. <<>> \in Seq(BlockMessages({"request", "cancel"})) /\ \A p : ~Mentioned(<<>>, p)
    BY EmptySeq, EmptyIs
  <2> QED
    BY <2>1, <1>1, <1>3, <1>4, <1>9, StartNextSound
<1>10. ASSUME pd' = RequestBlocks(got, q), todo' = todo,
              toSeeder' = toSeeder \o Messages("request", pd.piece, Requests(got, q))
       PROVE  /\ toSeeder' \in Seq(BlockMessages({"request", "cancel"})) /\ todo' \subseteq NeededPieces
              /\ Sound(pd', todo', a \o toSeeder')
  <2> DEFINE more == Messages("request", got.piece, Requests(got, q))
  <2>1. /\ got.piece \notin todo /\ Distinct(s, got.piece) /\ Blocks(s, got.piece) = got.pending
        /\ ~Cancelled(s, got.piece) /\ \A p \in todo : ~Mentioned(s, p)
    BY <1>2, <1>6
  <2> HIDE DEF s
  <2>2. /\ more \in Seq(BlockMessages({"request", "cancel"}))
        /\ Sound(RequestBlocks(got, q), todo, s \o more)
    BY <2>1, <1>2, <1>6, RequestedSound
  <2>3. toSeeder' = toSeeder \o more
    BY <1>6, <1>10
  <2> HIDE DEF more
  <2>4. toSeeder \o more \in Seq(BlockMessages({"request", "cancel"}))
    BY <2>2, <1>8, ConcatProperties
  <2>5. s \o more = a \o (toSeeder \o more)
    <3>1. Seq(BlockMessages({"request", "cancel"})) \subseteq Seq(AllMessages)
      BY SeqMonotonic DEF AllMessages
    <3>2. more \in Seq(AllMessages) /\ toSeeder \in Seq(AllMessages)
      BY <2>2, <1>8, <3>1
    <3>3. a \in Seq(AllMessages) /\ toSeeder \in Seq(AllMessages) /\ more \in Seq(AllMessages)
      BY <3>2, <1>3
    <3>4. (a \o toSeeder) \o more = a \o (toSeeder \o more)
      BY ONLY <3>3, ConcatAssociative
    <3> QED
      BY <3>4 DEF s
  <2> QED
    BY <2>2, <2>3, <2>4, <2>5, <1>8, <1>10
<1>11. /\ toSeeder' \in Seq(BlockMessages({"request", "cancel"})) /\ todo' \subseteq NeededPieces
       /\ Sound(pd', todo', a \o toSeeder')
  BY <1>7, <1>9, <1>10
<1>12. TransferTyped'
  BY <1>1, <1>3, <1>7, <1>11 DEF TransferTyped
<1> QED
  BY <1>5, <1>11, <1>12 DEF TransferInv

(* handlePeerMessage: RejectMessage.                                       *)
LEMMA ReceiveRejectStep ==
  ASSUME TransferInv, ReceiveReject
  PROVE  TransferInv'
<1> DEFINE m == Head(toLeech)
           s == Tail(toLeech) \o Held \o writer.queue \o toSeeder
           d == Rejected(pd, m.block)
<1>1. Receive({"piece", "reject"}) /\ IsOurs(m) /\ TransferTyped /\ toLeech # <<>>
  BY DEF ReceiveReject, Receive, TransferInv
<1>2. /\ pd \in Downloaders /\ Divided(pd) /\ m.block \in pd.pending
      /\ s \in Seq(AllMessages) /\ pd.piece \notin todo
      /\ Distinct(s, pd.piece) /\ Blocks(s, pd.piece) = pd.pending \ {m.block}
      /\ ~Cancelled(s, pd.piece) /\ \A p \in todo : ~Mentioned(s, p)
  BY <1>1, OursIsPending, Zenon
<1>3. Tail(toLeech) \in Seq(Downward)
  BY <1>1, AfterReceive, Zenon
<1>4. Pipeline' = s
  BY DEF ReceiveReject, Receive, Pipeline, Held
<1>5. d \in Downloaders /\ Divided(d) /\ d.piece = pd.piece /\ d.pending = pd.pending \ {m.block}
  BY <1>2, RejectedIs
<1>6. /\ toLeech' = Tail(toLeech) /\ pd' = d
      /\ UNCHANGED <<maxIn, reqq, todo, toSeeder, writer, writing>>
  BY DEF ReceiveReject, Receive
<1> HIDE DEF m, s, d
<1>7. Sound(d, todo, s)
  BY <1>2, <1>5 DEF Sound
<1>8. TransferTyped'
  BY <1>1, <1>3, <1>6 DEF TransferTyped
<1> QED
  BY <1>4, <1>6, <1>7, <1>8 DEF TransferInv

(* A message about another piece.                                          *)
LEMMA ReceiveOtherStep ==
  ASSUME TransferInv, ReceiveOther
  PROVE  TransferInv'
<1> DEFINE m == Head(toLeech)
           s == Tail(toLeech) \o Held \o writer.queue \o toSeeder
<1>1. TransferTyped /\ toLeech # <<>> /\ (pd # Absent => pd.piece # m.piece)
  BY DEF TransferInv, ReceiveOther, Receive, IsOurs
<1>2. Tail(toLeech) \in Seq(Downward)
  BY <1>1, AfterReceive, Zenon
<1>3. \A p : /\ Blocks(Pipeline, p) = Blocks(s, p) \cup BlockOf(m, p)
             /\ Distinct(Pipeline, p) => Distinct(s, p)
             /\ Mentioned(s, p) => Mentioned(Pipeline, p)
             /\ Cancelled(s, p) => Cancelled(Pipeline, p)
  BY <1>1, AfterReceive, Zenon
<1>4. Pipeline' = s
  BY DEF ReceiveOther, Receive, Pipeline, Held
<1>5. pd # Absent => BlockOf(m, pd.piece) = {}
  BY <1>1 DEF BlockOf, Concerns
<1>6. /\ toLeech' = Tail(toLeech)
      /\ UNCHANGED <<maxIn, reqq, todo, pd, toSeeder, writer, writing>>
  BY DEF ReceiveOther, Receive
<1> HIDE DEF s, m
<1>7. Sound(pd, todo, s)
  BY <1>3, <1>5 DEF TransferInv, Sound
<1>8. TransferTyped'
  BY <1>1, <1>2, <1>6 DEF TransferTyped
<1> QED
  BY <1>4, <1>6, <1>7, <1>8 DEF TransferInv

(* handlePieceWriteDone: what is cancelled is no longer waited for.        *)
LEMMA DoneElsewhereStep ==
  ASSUME TransferInv, DoneElsewhere
  PROVE  TransferInv'
<1> DEFINE a == toLeech \o Held \o writer.queue
           S == BlockMessages({"request", "cancel"})
<1>1. /\ TransferTyped /\ pd # Absent /\ pd \in Downloaders /\ pd.piece \notin todo
      /\ \A p \in todo : ~Mentioned(Pipeline, p)
  BY Zenon DEF DoneElsewhere, TransferInv, Sound
<1>2. /\ toLeech \in Seq(AllMessages) /\ Held \in Seq(AllMessages)
      /\ writer.queue \in Seq(AllMessages) /\ toSeeder \in Seq(AllMessages)
      /\ Pipeline = a \o toSeeder
  BY <1>1, PartsAre
<1>3. a \in Seq(AllMessages)
  BY <1>2, FourAre
<1>4. Pipeline' = a \o toSeeder'
  BY DEF DoneElsewhere, Pipeline, Held
<1> HIDE DEF a
<1>5. \A p \in todo : ~Mentioned(a, p) /\ ~Mentioned(toSeeder, p)
  <2>1. \A p : Mentioned(a \o toSeeder, p) <=> Mentioned(a, p) \/ Mentioned(toSeeder, p)
    BY <1>2, <1>3, ConcatIs
  <2> QED
    BY <1>1, <1>2, <2>1
<1>6. PICK cancels \in SetToSeqs(pd.pending) :
        StartNext(Messages("cancel", pd.piece, cancels), snub)
  BY DEF DoneElsewhere
<1>7. cancels \in Seq(1 .. NumBlocks)
  <2>1. pd.pending \subseteq 1 .. NumBlocks /\ IsFiniteSet(1 .. NumBlocks)
    BY <1>1, TransferAssumption, FS_Interval DEF Downloaders
  <2>2. Cardinality(pd.pending) \in Nat
    BY <2>1, FS_Subset, FS_CardinalityType
  <2>3. cancels \in [1 .. Cardinality(pd.pending) -> 1 .. NumBlocks]
    BY <2>1, <1>6 DEF SetToSeqs
  <2> QED
    BY <2>2, <2>3, SeqDef
<1>8. pd.piece \in NeededPieces
  BY <1>1 DEF Downloaders
<1> DEFINE before == Messages("cancel", pd.piece, cancels)
<1>9. before \in Seq(S) /\ \A p : Mentioned(before, p) => p = pd.piece
  BY <1>7, <1>8, MessagesAre
<1>10. StartNext(before, snub)
  BY <1>6
<1> HIDE DEF before
<1>11. \A p \in todo : ~Mentioned(before, p)
  BY <1>1, <1>9
<1>12. toSeeder' \in Seq(S) /\ todo' \subseteq NeededPieces /\ Sound(pd', todo', a \o toSeeder')
  BY <1>1, <1>3, <1>5, <1>9, <1>10, <1>11, StartNextSound
<1>13. TransferTyped'
  BY <1>1, <1>12 DEF TransferTyped, DoneElsewhere
<1> QED
  BY <1>4, <1>12, <1>13 DEF TransferInv

-----------------------------------------------------------------------------
(* Steps of the seeder.                                                    *)

(* What matters of a sequence s for piece p is kept in t.                  *)
Alike(s, t, p) ==
  /\ Blocks(s, p) = Blocks(t, p)
  /\ Distinct(s, p) => Distinct(t, p)
  /\ Mentioned(t, p) => Mentioned(s, p)
  /\ Cancelled(t, p) => Cancelled(s, p)

(* One message in the place of another one about the same block.           *)
LEMMA Replaced ==
  ASSUME NEW u \in Seq(AllMessages), NEW v \in Seq(AllMessages),
         NEW m \in AllMessages, NEW n \in AllMessages, NEW p,
         BlockOf(m, p) = BlockOf(n, p), Mentions(n, p) => Mentions(m, p), ~Cancels(n, p)
  PROVE  Alike(u \o <<m>> \o v, u \o <<n>> \o v, p)
<1> DEFINE x == <<m>>
           y == <<n>>
           ux == u \o x
           uy == u \o y
<1>1. /\ x \in Seq(AllMessages) /\ Blocks(x, p) = BlockOf(m, p) /\ Distinct(x, p)
      /\ Mentioned(x, p) <=> Mentions(m, p)
  BY SingleIs
<1>2. /\ y \in Seq(AllMessages) /\ Blocks(y, p) = BlockOf(n, p) /\ Distinct(y, p)
      /\ Mentioned(y, p) <=> Mentions(n, p)
      /\ Cancelled(y, p) <=> Cancels(n, p)
  BY SingleIs
<1> HIDE DEF x, y
<1>3. /\ ux \in Seq(AllMessages) /\ Blocks(ux, p) = Blocks(u, p) \cup Blocks(x, p)
      /\ Distinct(ux, p) <=> Distinct(u, p) /\ Distinct(x, p) /\ Blocks(u, p) \cap Blocks(x, p) = {}
      /\ Mentioned(ux, p) <=> Mentioned(u, p) \/ Mentioned(x, p)
      /\ Cancelled(ux, p) <=> Cancelled(u, p) \/ Cancelled(x, p)
  BY <1>1, ConcatIs
<1>4. /\ uy \in Seq(AllMessages) /\ Blocks(uy, p) = Blocks(u, p) \cup Blocks(y, p)
      /\ Distinct(uy, p) <=> Distinct(u, p) /\ Distinct(y, p) /\ Blocks(u, p) \cap Blocks(y, p) = {}
      /\ Mentioned(uy, p) <=> Mentioned(u, p) \/ Mentioned(y, p)
      /\ Cancelled(uy, p) <=> Cancelled(u, p) \/ Cancelled(y, p)
  BY <1>2, ConcatIs
<1> HIDE DEF ux, uy
<1>5. /\ Blocks(ux \o v, p) = Blocks(ux, p) \cup Blocks(v, p)
      /\ Distinct(ux \o v, p) <=> Distinct(ux, p) /\ Distinct(v, p) /\ Blocks(ux, p) \cap Blocks(v, p) = {}
      /\ Mentioned(ux \o v, p) <=> Mentioned(ux, p) \/ Mentioned(v, p)
      /\ Cancelled(ux \o v, p) <=> Cancelled(ux, p) \/ Cancelled(v, p)
  BY <1>3, ConcatIs
<1>6. /\ Blocks(uy \o v, p) = Blocks(uy, p) \cup Blocks(v, p)
      /\ Distinct(uy \o v, p) <=> Distinct(uy, p) /\ Distinct(v, p) /\ Blocks(uy, p) \cap Blocks(v, p) = {}
      /\ Mentioned(uy \o v, p) <=> Mentioned(uy, p) \/ Mentioned(v, p)
      /\ Cancelled(uy \o v, p) <=> Cancelled(uy, p) \/ Cancelled(v, p)
  BY <1>4, ConcatIs
<1>7. Blocks(ux, p) = Blocks(uy, p) /\ Blocks(x, p) = Blocks(y, p)
  BY <1>1, <1>2, <1>3, <1>4, Zenon
<1>8. Blocks(ux \o v, p) = Blocks(uy \o v, p)
  BY <1>5, <1>6, <1>7, Zenon
<1>9. Distinct(ux, p) => Distinct(uy, p)
  BY <1>2, <1>3, <1>4, <1>7, Zenon
<1>10. Distinct(ux \o v, p) => Distinct(uy \o v, p)
  BY <1>5, <1>6, <1>7, <1>9, Zenon
<1>11. /\ Mentioned(uy \o v, p) => Mentioned(ux \o v, p)
       /\ Cancelled(uy \o v, p) => Cancelled(ux \o v, p)
  BY <1>1, <1>2, <1>3, <1>4, <1>5, <1>6, Zenon
<1> QED
  BY <1>8, <1>10, <1>11, Zenon DEF Alike, ux, uy, x, y

(* The messages that a block message becomes at the seeder.                *)
LEMMA AnswersAre ==
  ASSUME NEW m \in BlockMessages({"request", "cancel", "piece", "reject"}),
         NEW type \in {"piece", "reject"}, NEW p
  PROVE  LET n == [m EXCEPT !.type = type]
         IN /\ n \in BlockMessages({"piece", "reject"}) /\ n \in Downward /\ n \in AllMessages
            /\ n.type = type /\ n.piece = m.piece /\ n.block = m.block
            /\ m.type # "cancel" => BlockOf(n, p) = BlockOf(m, p)
            /\ Mentions(n, p) <=> Mentions(m, p)
            /\ Concerns(n, p) <=> Mentions(m, p)
            /\ ~Cancels(n, p)
<1> DEFINE n == [m EXCEPT !.type = type]
<1>1. /\ n = [type |-> type, piece |-> m.piece, block |-> m.block]
      /\ m.piece \in NeededPieces /\ m.block \in 1 .. NumBlocks
      /\ m.type \in {"request", "cancel", "piece", "reject"}
  BY DEF BlockMessages
<1> HIDE DEF n
<1>2. n \in BlockMessages({"piece", "reject"})
  BY <1>1 DEF BlockMessages
<1>3. n \in Downward /\ n \in AllMessages
  BY <1>2 DEF Downward, AllMessages
<1>4. n.type = type /\ n.piece = m.piece /\ n.block = m.block
  BY <1>1
<1>5. /\ Mentions(n, p) <=> Mentions(m, p)
      /\ Concerns(n, p) <=> Mentions(m, p)
      /\ ~Cancels(n, p)
  BY <1>1, <1>4 DEF Mentions, Cancels, Concerns
<1>6. m.type # "cancel" => (Concerns(n, p) <=> Concerns(m, p))
  BY <1>1, <1>4 DEF Concerns
<1>7. m.type # "cancel" => BlockOf(n, p) = BlockOf(m, p)
  BY <1>4, <1>6 DEF BlockOf
<1> QED
  BY <1>2, <1>3, <1>4, <1>5, <1>7, Zenon DEF n

(* A step that only moves messages of the seeder.                          *)
LEMMA SeederSound ==
  ASSUME TransferInv, TransferTyped', pd' = pd, todo' = todo,
         \A p \in todo : Alike(Pipeline, Pipeline', p),
         pd # Absent => Alike(Pipeline, Pipeline', pd.piece)
  PROVE  TransferInv'
<1> DEFINE t == Pipeline'
<1>1. Sound(pd, todo, Pipeline)
  BY DEF TransferInv
<1> HIDE DEF t
<1>2. Sound(pd, todo, t)
  BY <1>1, Zenon DEF Sound, Alike, t
<1> QED
  BY <1>2, Zenon DEF TransferInv, t

(* handlePeerMessage: RequestMessage.  The answer is queued in its place.  *)
LEMMA HandleRequestStep ==
  ASSUME TransferInv, HandleRequest
  PROVE  TransferInv'
<1> DEFINE m == Head(toSeeder)
           v == Tail(toSeeder)
           n == [m EXCEPT !.type = "piece"]
           q == writer.queue
           lh == toLeech \o Held
           u == lh \o q
           S == BlockMessages({"request", "cancel"})
<1>1. /\ TransferTyped /\ toSeeder # <<>> /\ m.type = "request" /\ toSeeder' = v
      /\ writer' = QueueMessage(writer, n, maxIn)
      /\ UNCHANGED <<maxIn, reqq, todo, pd, writing, toLeech>>
  BY DEF TransferInv, HandleRequest
<1>2. /\ toLeech \in Seq(AllMessages) /\ Held \in Seq(AllMessages)
      /\ q \in Seq(AllMessages) /\ toSeeder \in Seq(AllMessages) /\ Pipeline = u \o toSeeder
  BY <1>1, PartsAre
<1>3. m \in S /\ v \in Seq(S) /\ toSeeder = <<m>> \o v
  <2>1. toSeeder \in Seq(S)
    BY <1>1 DEF TransferTyped
  <2> QED
    BY <2>1, <1>1, HeadTailProperties, ConcatSimplifications
<1>4. v \in Seq(AllMessages) /\ m \in AllMessages
  BY <1>3, SeqMonotonic DEF AllMessages
<1>5. m \in BlockMessages({"request", "cancel", "piece", "reject"})
  BY <1>3 DEF BlockMessages
<1>6. \E w \in Downward :
        /\ writer' \in Writers /\ writer'.queue = Append(q, w)
        /\ \A p : BlockOf(w, p) = BlockOf(m, p) /\ (Mentions(w, p) => Mentions(m, p)) /\ ~Cancels(w, p)
  <2> DEFINE r == [m EXCEPT !.type = "reject"]
  <2>1. /\ n \in Downward /\ n.type = "piece"
        /\ \A p : BlockOf(n, p) = BlockOf(m, p) /\ (Mentions(n, p) => Mentions(m, p)) /\ ~Cancels(n, p)
    BY <1>1, <1>5, AnswersAre, Zenon
  <2>2. /\ r \in Downward
        /\ \A p : BlockOf(r, p) = BlockOf(m, p) /\ (Mentions(r, p) => Mentions(m, p)) /\ ~Cancels(r, p)
    BY <1>1, <1>5, AnswersAre, Zenon
  <2>3. Reject(n) = r
    BY <1>5 DEF Reject, BlockMessages
  <2>4. writer \in Writers /\ q \in Seq(Downward)
    BY <1>1 DEF TransferTyped, Writers
  <2> HIDE DEF n, r
  <2>5. \A w \in Downward : Append(q, w) \in Seq(Downward)
    BY <2>4, AppendProperties
  <2>6. CASE writer.queuedRequests >= maxIn
    <3>1. writer' = [writer EXCEPT !.queue = Append(@, r)]
      BY <2>1, <2>3, <2>6, <1>1 DEF QueueMessage
    <3>2. writer' \in Writers /\ writer'.queue = Append(q, r)
      BY <3>1, <2>2, <2>4, <2>5 DEF Writers
    <3> QED
      BY <3>2, <2>2
  <2>7. CASE ~(writer.queuedRequests >= maxIn)
    <3>1. writer' = [writer EXCEPT !.queue = Append(@, n), !.queuedRequests = @ + 1]
      BY <2>1, <2>7, <1>1 DEF QueueMessage
    <3>2. writer' = [queue |-> Append(q, n), queuedRequests |-> writer.queuedRequests + 1,
                     served |-> writer.served]
      BY <3>1, <2>4 DEF Writers
    <3>3. writer.queuedRequests + 1 \in Int
      BY <2>4 DEF Writers
    <3>4. writer' \in Writers /\ writer'.queue = Append(q, n)
      BY <3>2, <3>3, <2>1, <2>4, <2>5 DEF Writers
    <3> QED
      BY <3>4, <2>1
  <2> QED
    BY <2>6, <2>7
<1>7. PICK w \in Downward :
        /\ writer' \in Writers /\ writer'.queue = Append(q, w)
        /\ \A p : BlockOf(w, p) = BlockOf(m, p) /\ (Mentions(w, p) => Mentions(m, p)) /\ ~Cancels(w, p)
  BY <1>6
<1>8. w \in AllMessages
  BY DEF AllMessages
<1>9. Pipeline' = lh \o Append(q, w) \o v
  BY <1>1, <1>7 DEF Pipeline, Held
<1> HIDE DEF m, n, q, v
<1>10. lh \in Seq(AllMessages) /\ u \in Seq(AllMessages)
  BY <1>2, ConcatProperties
<1> HIDE DEF lh, u
<1>11. <<m>> \in Seq(AllMessages) /\ <<w>> \in Seq(AllMessages)
  BY <1>4, <1>8, SingleIs
<1>12. Pipeline = u \o <<m>> \o v
  <2> DEFINE x == <<m>>
  <2>1. x \in Seq(AllMessages) /\ Pipeline = u \o (x \o v)
    BY <1>2, <1>3, <1>11
  <2> HIDE DEF x
  <2>2. u \in Seq(AllMessages) /\ x \in Seq(AllMessages) /\ v \in Seq(AllMessages)
    BY <2>1, <1>4, <1>10
  <2>3. (u \o x) \o v = u \o (x \o v)
    BY ONLY <2>2, ConcatAssociative
  <2> QED
    BY <2>1, <2>3 DEF x
<1>13. Pipeline' = u \o <<w>> \o v
  <2>1. Append(q, w) = q \o <<w>>
    BY <1>2, <1>8, AppendIsConcat
  <2>2. lh \o (q \o <<w>>) = u \o <<w>>
    BY <1>2, <1>10, <1>11, ConcatAssociative DEF u
  <2> QED
    BY <2>1, <2>2, <1>9
<1>14. ASSUME NEW p PROVE Alike(Pipeline, Pipeline', p)
  <2>1. BlockOf(m, p) = BlockOf(w, p) /\ (Mentions(w, p) => Mentions(m, p)) /\ ~Cancels(w, p)
    BY <1>7
  <2>2. Alike(u \o <<m>> \o v, u \o <<w>> \o v, p)
    BY <2>1, <1>4, <1>8, <1>10, Replaced
  <2> QED
    BY <2>2, <1>12, <1>13, Zenon
<1>15. TransferTyped'
  BY <1>1, <1>3, <1>7 DEF TransferTyped
<1> QED
  BY <1>1, <1>14, <1>15, SeederSound, Zenon

(* A cancel leaves the blocks of other pieces where they are.              *)
LEMMA HandleCancelStep ==
  ASSUME TransferInv, HandleCancel
  PROVE  TransferInv'
<1> DEFINE m == Head(toSeeder)
           v == Tail(toSeeder)
           n == [m EXCEPT !.type = "piece"]
           r == [m EXCEPT !.type = "reject"]
           q == writer.queue
           c == CancelRequest(writer, n)
           S == BlockMessages({"request", "cancel"})
<1>1. /\ TransferTyped /\ toSeeder # <<>> /\ m.type = "cancel" /\ toSeeder' = v
      /\ writer' = QueueMessage(c, Reject(n), maxIn)
      /\ UNCHANGED <<maxIn, reqq, todo, pd, writing, toLeech>>
  BY DEF TransferInv, HandleCancel
<1>2. /\ toLeech \in Seq(AllMessages) /\ Held \in Seq(AllMessages)
      /\ q \in Seq(AllMessages) /\ toSeeder \in Seq(AllMessages)
      /\ Pipeline = toLeech \o Held \o q \o toSeeder
  BY <1>1, PartsAre
<1>3. toSeeder \in Seq(S) /\ writer \in Writers /\ q \in Seq(Downward)
  BY <1>1 DEF TransferTyped, Writers
<1>4. m \in S /\ v \in Seq(S)
  BY <1>1, <1>3, HeadTailProperties
<1>5. S \subseteq AllMessages /\ Downward \subseteq AllMessages
  BY DEF AllMessages
<1>6. m \in BlockMessages({"request", "cancel", "piece", "reject"})
  BY <1>4 DEF BlockMessages
<1>7. /\ r \in Downward /\ r \in AllMessages /\ r.type = "reject" /\ n.type = "piece"
      /\ \A p : /\ Mentions(r, p) <=> Mentions(m, p)
                /\ Concerns(r, p) <=> Mentions(m, p)
                /\ Concerns(n, p) <=> Mentions(m, p)
                /\ ~Cancels(r, p)
  BY <1>6, AnswersAre, Zenon
<1>8. Reject(n) = r
  BY <1>6 DEF Reject, BlockMessages
<1> HIDE DEF n, r
<1>9. /\ c \in Writers
      /\ \A p : /\ Mentioned(c.queue, p) => Mentioned(q, p)
                /\ ~Mentions(m, p) => Blocks(c.queue, p) = Blocks(q, p)
                /\ ~Mentions(m, p) /\ Distinct(q, p) => Distinct(c.queue, p)
  <2>1. CASE Contains(q, n)
    <3> DEFINE x == RemoveFirst(q, n)
    <3>1. /\ x \in Seq(Downward)
          /\ \A p : /\ Mentioned(x, p) => Mentioned(q, p)
                    /\ ~Mentions(m, p) => Blocks(x, p) = Blocks(q, p)
                    /\ ~Mentions(m, p) /\ Distinct(q, p) => Distinct(x, p)
      BY <2>1, <1>3, <1>5, <1>7, RemovedIs, Zenon
    <3>2. c = [writer EXCEPT !.queue = x, !.queuedRequests = @ - 1]
      BY <2>1 DEF CancelRequest
    <3> HIDE DEF x, c
    <3>3. c = [queue |-> x, queuedRequests |-> writer.queuedRequests - 1, served |-> writer.served]
      BY <3>2, <1>3 DEF Writers
    <3>4. writer.queuedRequests - 1 \in Int /\ writer.served \subseteq BlockMessages({"piece"})
      BY <1>3 DEF Writers
    <3>5. c \in Writers /\ c.queue = x
      BY <3>1, <3>3, <3>4 DEF Writers
    <3> QED
      BY <3>1, <3>5
  <2>2. CASE ~Contains(q, n)
    <3>1. c = writer
      BY <2>2 DEF CancelRequest
    <3> QED
      BY <3>1, <1>3
  <2> QED
    BY <2>1, <2>2
<1> HIDE DEF c
<1>10. c.queue \in Seq(Downward) /\ c.queue \in Seq(AllMessages)
  <2>1. c.queue \in Seq(Downward)
    BY <1>9 DEF Writers
  <2> QED
    BY <2>1, <1>5, SeqMonotonic
<1> DEFINE x == c.queue
           y == Append(x, r)
<1>11. y \in Seq(Downward) /\ y \in Seq(AllMessages)
  BY <1>7, <1>10, AppendProperties
<1>12. writer' = [c EXCEPT !.queue = y]
  BY <1>1, <1>7, <1>8 DEF QueueMessage
<1>13. writer' \in Writers /\ writer'.queue = y
  BY <1>9, <1>11, <1>12 DEF Writers
<1>14. v \in Seq(AllMessages)
  BY <1>4, <1>5, SeqMonotonic
<1>15. \A p : /\ Blocks(y, p) = Blocks(x, p) \cup BlockOf(r, p)
              /\ Distinct(y, p) <=> Distinct(x, p) /\ Blocks(x, p) \cap BlockOf(r, p) = {}
              /\ Mentioned(y, p) <=> Mentioned(x, p) \/ Mentions(r, p)
  BY <1>7, <1>10, AppendIs
<1>16. \A p : /\ Blocks(toSeeder, p) = Blocks(v, p) \cup BlockOf(m, p)
              /\ Distinct(toSeeder, p) => Distinct(v, p)
              /\ Mentioned(toSeeder, p) <=> Mentioned(v, p) \/ Mentions(m, p)
              /\ Cancelled(toSeeder, p) <=> Cancelled(v, p) \/ Cancels(m, p)
  BY <1>1, <1>3, <1>5, TailIs, Zenon
<1>17. \A s \in Seq(Downward) : \A p : ~Cancelled(s, p)
  <2> SUFFICES ASSUME NEW s \in Seq(Downward), NEW p, NEW i \in 1 .. Len(s), Cancels(s[i], p)
               PROVE  FALSE
    BY DEF Cancelled
  <2>1. s[i] \in Downward
    BY ElementOfSeq
  <2> QED
    BY <2>1 DEF Downward, Cancels, BlockMessages, Hello
<1>18. Pipeline' = toLeech \o Held \o y \o v
  BY <1>1, <1>13 DEF Pipeline, Held
<1> HIDE DEF m, v, q, x, y
<1>19. ASSUME NEW p, ~Mentions(m, p) PROVE Alike(Pipeline, Pipeline', p)
  <2>1. Joined(Pipeline, toLeech, Held, q, toSeeder, p)
    BY <1>2, FourAre
  <2>2. Joined(Pipeline', toLeech, Held, y, v, p)
    BY <1>2, <1>11, <1>14, <1>18, FourAre
  <2>3. BlockOf(m, p) = {} /\ BlockOf(r, p) = {}
    BY <1>7, <1>19 DEF BlockOf, Concerns, Mentions
  <2>4. Blocks(y, p) = Blocks(q, p) /\ Blocks(v, p) = Blocks(toSeeder, p)
    BY <2>3, <1>9, <1>15, <1>16, <1>19 DEF x
  <2>5. Distinct(q, p) => Distinct(y, p)
    BY <2>3, <1>9, <1>15, <1>19 DEF x
  <2>6. Distinct(toSeeder, p) => Distinct(v, p)
    BY <1>16
  <2>7. (Mentioned(y, p) => Mentioned(q, p)) /\ (Mentioned(v, p) => Mentioned(toSeeder, p))
    BY <1>7, <1>9, <1>15, <1>16, <1>19, Zenon DEF x
  <2>8. ~Cancelled(y, p) /\ (Cancelled(v, p) => Cancelled(toSeeder, p))
    BY <1>11, <1>16, <1>17, Zenon
  <2>9. Blocks(Pipeline, p) = Blocks(Pipeline', p) /\ (Distinct(Pipeline, p) => Distinct(Pipeline', p))
    BY <2>1, <2>2, <2>4, <2>5, <2>6, Zenon DEF Joined
  <2>10. /\ Mentioned(Pipeline', p) => Mentioned(Pipeline, p)
         /\ Cancelled(Pipeline', p) => Cancelled(Pipeline, p)
    BY <2>1, <2>2, <2>7, <2>8, Zenon DEF Joined
  <2> QED
    BY <2>9, <2>10, Zenon DEF Alike
<1>20. \A p \in todo : ~Mentions(m, p)
  <2>1. \A p : Joined(Pipeline, toLeech, Held, q, toSeeder, p)
    BY <1>2, FourAre
  <2>2. \A p \in todo : ~Mentioned(Pipeline, p)
    BY DEF TransferInv, Sound
  <2> QED
    BY <2>1, <2>2, <1>16, Zenon DEF Joined
<1>21. pd # Absent => ~Mentions(m, pd.piece)
  <2>1. Joined(Pipeline, toLeech, Held, q, toSeeder, pd.piece)
    BY <1>2, FourAre
  <2>2. pd # Absent => ~Cancelled(Pipeline, pd.piece)
    BY DEF TransferInv, Sound
  <2>3. pd # Absent => ~Cancels(m, pd.piece)
    BY <2>1, <2>2, <1>16, Zenon DEF Joined
  <2> QED
    BY <2>3, <1>1 DEF Cancels, Mentions, m
<1>22. TransferTyped'
  BY <1>1, <1>4, <1>13 DEF TransferTyped, v
<1> QED
  BY <1>1, <1>19, <1>20, <1>21, <1>22, SeederSound

(* PeerWriter.Run hands a message over: nothing changes its place.         *)
LEMMA TakeStep ==
  ASSUME TransferInv, Take
  PROVE  TransferInv'
<1> DEFINE q == writer.queue
           m == Head(q)
           v == Tail(q)
           x == <<m>>
           k == IF m.type = "piece" THEN writer.queuedRequests - 1 ELSE writer.queuedRequests
<1>1. /\ TransferTyped /\ writing = Absent /\ q # <<>> /\ writing' = m /\ writer' = TakeFirst(writer)
      /\ UNCHANGED <<maxIn, reqq, todo, pd, toSeeder, toLeech>>
  BY DEF TransferInv, Take
<1>2. writer \in Writers /\ q \in Seq(Downward) /\ writer.queuedRequests \in Int
  BY <1>1 DEF TransferTyped, Writers
<1>3. m \in Downward /\ v \in Seq(Downward) /\ q = x \o v
  BY <1>1, <1>2, HeadTailProperties, ConcatSimplifications
<1>4. k \in Int
  BY <1>2
<1>5. writer' = [queue |-> v, queuedRequests |-> k, served |-> writer.served]
  BY <1>1, <1>2 DEF TakeFirst, Writers
<1> HIDE DEF k
<1>6. writer' \in Writers /\ writer'.queue = v
  BY <1>2, <1>3, <1>4, <1>5 DEF Writers
<1>7. writing' # Absent
  BY <1>1, <1>3, TransferAssumption
<1>8. Pipeline = toLeech \o <<>> \o q \o toSeeder /\ Pipeline' = toLeech \o x \o v \o toSeeder
  BY <1>1, <1>6, <1>7 DEF Pipeline
<1>9. /\ toLeech \in Seq(AllMessages) /\ v \in Seq(AllMessages) /\ x \in Seq(AllMessages)
  <2>1. Downward \subseteq AllMessages
    BY DEF AllMessages
  <2>2. v \in Seq(AllMessages) /\ m \in AllMessages
    BY <2>1, <1>3, SeqMonotonic
  <2> QED
    BY <2>2, <1>1, PartsAre, SingleIs
<1> HIDE DEF q, v, x, m
<1>10. toLeech \o <<>> = toLeech
  BY <1>9, ConcatEmptySeq
<1>11. (toLeech \o x) \o v = toLeech \o (x \o v)
  BY ONLY <1>9, ConcatAssociative
<1>12. Pipeline' = Pipeline
  BY <1>3, <1>8, <1>10, <1>11
<1>13. TransferTyped'
  BY <1>1, <1>3, <1>6 DEF TransferTyped
<1>14. \A p : Alike(Pipeline, Pipeline', p)
  BY <1>12, Zenon DEF Alike
<1> QED
  BY <1>1, <1>13, <1>14, SeederSound

(* The messageWriter writes a message, or rejects a block.                 *)
LEMMA WriteStep ==
  ASSUME TransferInv, Write
  PROVE  TransferInv'
<1> DEFINE m == writing
           n == ToWrite(writer, writing)
           q == writer.queue
           x == <<m>>
           y == <<n>>
           w == q \o toSeeder
<1>1. /\ TransferTyped /\ m # Absent /\ m \in Downward /\ toLeech' = Append(toLeech, n)
      /\ writing' = Absent /\ writer' = Serve(writer, m)
      /\ UNCHANGED <<maxIn, reqq, todo, pd, toSeeder>>
  BY DEF TransferInv, Write, TransferTyped
<1>2. /\ toLeech \in Seq(AllMessages) /\ q \in Seq(AllMessages) /\ toSeeder \in Seq(AllMessages)
      /\ Downward \subseteq AllMessages
  BY <1>1, PartsAre DEF AllMessages
<1>3. /\ n \in Downward
      /\ \A p : BlockOf(m, p) = BlockOf(n, p) /\ (Mentions(n, p) => Mentions(m, p)) /\ ~Cancels(n, p)
  <2>1. m \in BlockMessages({"piece", "reject"}) \/ m \in {Hello("haveall"), Hello("handshake")}
    BY <1>1 DEF Downward
  <2>2. CASE m.type = "piece" /\ m \in writer.served
    <3>1. m \in BlockMessages({"piece"})
      BY <2>2, <1>1 DEF TransferTyped, Writers
    <3>2. m \in BlockMessages({"request", "cancel", "piece", "reject"})
      BY <3>1 DEF BlockMessages
    <3>3. n = [m EXCEPT !.type = "reject"]
      BY <2>2 DEF ToWrite, Reject
    <3> HIDE DEF m, n
    <3> QED
      BY <2>2, <3>2, <3>3, AnswersAre, Zenon
  <2>3. CASE ~(m.type = "piece" /\ m \in writer.served)
    <3>1. n = m
      BY <2>3 DEF ToWrite
    <3>2. m.type # "cancel"
      BY <2>1 DEF BlockMessages, Hello
    <3> HIDE DEF m, n
    <3> QED
      BY <3>1, <3>2, <1>1 DEF Cancels
  <2> QED
    BY <2>2, <2>3
<1>4. writer' \in Writers /\ writer'.queue = q
  <2>1. writer \in Writers
    BY <1>1 DEF TransferTyped
  <2>2. CASE m.type = "piece"
    <3>1. m \in BlockMessages({"piece"})
      BY <1>1, <2>2 DEF Downward, BlockMessages, Hello
    <3>2. writer' = [writer EXCEPT !.served = @ \cup {m}]
      BY <1>1, <2>2 DEF Serve
    <3> HIDE DEF m
    <3> QED
      BY <2>1, <3>1, <3>2 DEF Writers
  <2>3. CASE m.type # "piece"
    <3>1. writer' = writer
      BY <1>1, <2>3 DEF Serve
    <3> QED
      BY <2>1, <3>1
  <2> QED
    BY <2>2, <2>3
<1>5. Pipeline = toLeech \o x \o q \o toSeeder /\ Pipeline' = Append(toLeech, n) \o <<>> \o q \o toSeeder
  BY <1>1, <1>4 DEF Pipeline
<1>6. /\ x \in Seq(AllMessages) /\ y \in Seq(AllMessages) /\ w \in Seq(AllMessages)
      /\ m \in AllMessages /\ n \in AllMessages
  BY <1>1, <1>2, <1>3, SingleIs, ConcatProperties
<1>7. toLeech' \in Seq(Downward)
  BY <1>1, <1>3, AppendProperties DEF TransferTyped
<1> HIDE DEF m, n, q
<1>8. Append(toLeech, n) = toLeech \o y
  BY <1>2, <1>6, AppendIsConcat
<1> HIDE DEF x, y
<1> DEFINE lx == toLeech \o x
           ly == toLeech \o y
<1>9. lx \in Seq(AllMessages) /\ ly \in Seq(AllMessages)
  BY <1>2, <1>6, ConcatProperties
<1>10. Pipeline = lx \o q \o toSeeder /\ Pipeline' = ly \o <<>> \o q \o toSeeder
  BY <1>5, <1>8
<1> HIDE DEF lx, ly
<1>11. ly \o <<>> = ly
  BY <1>9, ConcatEmptySeq
<1>12. (lx \o q) \o toSeeder = lx \o (q \o toSeeder)
  <2>1. lx \in Seq(AllMessages) /\ q \in Seq(AllMessages) /\ toSeeder \in Seq(AllMessages)
    BY <1>2, <1>9
  <2> QED
    BY ONLY <2>1, ConcatAssociative
<1>13. (ly \o q) \o toSeeder = ly \o (q \o toSeeder)
  <2>1. ly \in Seq(AllMessages) /\ q \in Seq(AllMessages) /\ toSeeder \in Seq(AllMessages)
    BY <1>2, <1>9
  <2> QED
    BY ONLY <2>1, ConcatAssociative
<1>14. Pipeline = lx \o w /\ Pipeline' = ly \o w
  BY <1>10, <1>11, <1>12, <1>13
<1> HIDE DEF w
<1>15. ASSUME NEW p PROVE Alike(Pipeline, Pipeline', p)
  <2>1. BlockOf(m, p) = BlockOf(n, p) /\ (Mentions(n, p) => Mentions(m, p)) /\ ~Cancels(n, p)
    BY <1>3
  <2>2. Alike(toLeech \o <<m>> \o w, toLeech \o <<n>> \o w, p)
    BY <2>1, <1>2, <1>6, Replaced
  <2> QED
    BY <2>2, <1>14, Zenon DEF lx, ly, x, y
<1>16. TransferTyped'
  BY <1>1, <1>4, <1>7 DEF TransferTyped
<1> QED
  BY <1>1, <1>15, <1>16, SeederSound

-----------------------------------------------------------------------------
(* At the start only the seeder's first messages are under way.            *)
LEMMA TransferInitOK == TransferInit => TransferInv
<1> SUFFICES ASSUME TransferInit PROVE TransferInv
  OBVIOUS
<1> DEFINE a == Hello("haveall")
           b == Hello("handshake")
           q == <<a, b>>
<1>1. a \in Downward /\ b \in Downward
  BY DEF Downward
<1>2. a.type = "haveall" /\ b.type = "handshake"
  BY DEF Hello
<1> HIDE DEF a, b
<1>3. /\ q \in Seq(Downward) /\ Len(q) = 2
      /\ \A i \in 1 .. Len(q) : q[i].type \in {"haveall", "handshake"}
  BY <1>1, <1>2
<1>4. writer = [queue |-> q, queuedRequests |-> 0, served |-> {}]
  BY DEF TransferInit, NewWriter, a, b
<1> HIDE DEF q
<1>5. writer \in Writers /\ writer.queue = q
  BY <1>3, <1>4 DEF Writers
<1>6. TransferTyped
  BY <1>5, EmptySeq DEF TransferInit, TransferTyped
<1>7. Pipeline = <<>> \o <<>> \o q \o <<>>
  BY <1>5 DEF TransferInit, Pipeline
<1>8. <<>> \in Seq(Downward) /\ <<>> \o <<>> = <<>> /\ <<>> \o q = q /\ q \o <<>> = q
  BY <1>3, EmptySeq, ConcatEmptySeq
<1>9. Pipeline = q
  BY <1>7, <1>8
<1>10. \A p : ~Mentioned(q, p)
  BY <1>3 DEF Mentioned, Mentions
<1>11. Sound(pd, todo, Pipeline)
  BY <1>9, <1>10 DEF Sound, TransferInit
<1> QED
  BY <1>6, <1>11 DEF TransferInv

LEMMA TransferInvariance == TransferSpec => []TransferInv
<1>1. ASSUME TransferInv, [TransferNext]_transferVars PROVE TransferInv'
  <2>1. CASE ReceiveHaveAll
    BY <1>1, <2>1, ReceiveHaveAllStep
  <2>2. CASE ReceiveHandshake
    BY <1>1, <2>2, ReceiveHandshakeStep
  <2>3. CASE ReceivePiece
    BY <1>1, <2>3, ReceivePieceStep
  <2>4. CASE ReceiveReject
    BY <1>1, <2>4, ReceiveRejectStep
  <2>5. CASE ReceiveOther
    BY <1>1, <2>5, ReceiveOtherStep
  <2>6. CASE DoneElsewhere
    BY <1>1, <2>6, DoneElsewhereStep
  <2>7. CASE HandleRequest
    BY <1>1, <2>7, HandleRequestStep
  <2>8. CASE HandleCancel
    BY <1>1, <2>8, HandleCancelStep
  <2>9. CASE Take
    BY <1>1, <2>9, TakeStep
  <2>10. CASE Write
    BY <1>1, <2>10, WriteStep
  <2>11. CASE UNCHANGED <<maxIn, reqq, todo, pd, toSeeder, writer, writing, toLeech>>
    <3>1. Pipeline' = Pipeline
      BY <2>11 DEF Pipeline
    <3>2. TransferTyped' /\ pd' = pd /\ todo' = todo
      BY <1>1, <2>11 DEF TransferInv, TransferTyped
    <3> QED
      BY <1>1, <3>1, <3>2 DEF TransferInv
  <2> QED
    BY <1>1, <2>1, <2>2, <2>3, <2>4, <2>5, <2>6, <2>7, <2>8, <2>9, <2>10, <2>11
       DEF TransferNext, Leech, Seeder, SnubTimerFires, Snubbed, transferVars
<1> QED
  BY <1>1, TransferInitOK, PTL DEF TransferSpec

(* The snub timer.                                                         *)
LEMMA SnubTimerTyped == TransferSpec => [](snub \in SnubTimers)
<1>1. TransferInit => snub \in SnubTimers
  BY DEF TransferInit, SnubTimers
<1>2. ASSUME snub \in SnubTimers, [TransferNext]_transferVars
      PROVE  (snub \in SnubTimers)'
  <2>1. \A t \in SnubTimers : ResetSnubTimer(t) \in SnubTimers /\ StopSnubTimer(t) \in SnubTimers
    BY DEF ResetSnubTimer, StopSnubTimer, SnubTimers
  <2>2. \A before : \A t \in SnubTimers : StartNext(before, t) => snub' \in SnubTimers
    BY <2>1, Zenon DEF StartNext
  <2>3. CASE Leech
    BY <1>2, <2>1, <2>2, <2>3, Zenon
       DEF Leech, ReceiveHaveAll, ReceiveHandshake, ReceivePiece, ReceiveReject, ReceiveOther
  <2>4. CASE DoneElsewhere
    BY <1>2, <2>2, <2>4, Zenon DEF DoneElsewhere
  <2>5. CASE SnubTimerFires \/ Snubbed
    BY <2>5 DEF SnubTimerFires, Snubbed, SnubTimers
  <2>6. CASE Seeder \/ Take \/ Write
    BY <1>2, <2>6, Zenon DEF Seeder, HandleRequest, HandleCancel, Take, Write
  <2> QED
    BY <1>2, <2>3, <2>4, <2>5, <2>6 DEF TransferNext, transferVars
<1> QED
  BY <1>1, <1>2, PTL DEF TransferSpec

(* However many pieces, blocks and requests: every block that the          *)
(* downloader waits for is under way exactly once between it and the       *)
(* seeder, as a request, as data or as a reject, and no other is, while    *)
(* pieces are cancelled and blocks rejected.                               *)
THEOREM EveryRequestAnsweredOnce == TransferSpec => []AnsweredOnce
<1>1. TransferInv => AnsweredOnce
  BY TransferInvAnswered
<1> QED
  BY <1>1, TransferInvariance, PTL

(* No block of the piece is forgotten by RequestBlocks, GotBlock and       *)
(* Rejected, none is requested twice, and every message is one of those    *)
(* that its receiver handles.                                              *)
THEOREM BlocksStayDivided == TransferSpec => []BlocksDivided
<1>1. TransferInv /\ snub \in SnubTimers => BlocksDivided
  BY TransferInvTyped
<1> QED
  BY <1>1, TransferInvariance, SnubTimerTyped, PTL

-----------------------------------------------------------------------------
(***************************************************************************)
(* Part 3: the requests that the seeder takes.                             *)
(***************************************************************************)
(* The books of the seeder.  W is the set of blocks that wait in its       *)
(* queue, s the messages on their way to it.                               *)

Data == BlockMessages({"piece"})

(* Message m asks for the block x, or takes the request back.              *)
AsksFor(m, x) == m.type = "request" /\ m.piece = x.piece /\ m.block = x.block
TakesBack(m, x) == m.type = "cancel" /\ m.piece = x.piece /\ m.block = x.block

(* One of the first k messages does.                                       *)
AskedFor(s, k, x) == \E i \in 1 .. k : AsksFor(s[i], x)
TakenBack(s, k, x) == \E i \in 1 .. k : TakesBack(s[i], x)

Waiting(q) == {x \in Data : \E i \in 1 .. Len(q) : q[i] = x}

(* The blocks that wait, or will be asked for, are x's.                    *)
Due(W, s, k, x) == x \in W \/ AskedFor(s, k, x)

(* No block is asked for twice, or after its request was taken back.       *)
AskedOnce(W, s) ==
  \A k \in 1 .. Len(s), x \in Data :
    AsksFor(s[k], x) => ~Due(W, s, k - 1, x) /\ ~TakenBack(s, k - 1, x)

(* Before a piece is asked for, the requests for others are taken back.    *)
Cleared(W, s) ==
  \A k \in 1 .. Len(s), x, y \in Data :
    AsksFor(s[k], y) /\ x.piece # y.piece /\ Due(W, s, k - 1, x) => TakenBack(s, k - 1, x)

(* So are those for every piece but that of downloader d.                  *)
OnlyFor(W, s, d) ==
  \A x \in Data :
    Due(W, s, Len(s), x) /\ (d = Absent \/ x.piece # d.piece) => TakenBack(s, Len(s), x)

(* No more blocks of a piece are asked for than the queue takes.           *)
OfPiece(W, s, p) == {x \in Data : x.piece = p /\ Due(W, s, Len(s), x)}
WithinLimit(W, s, M) == \A p \in NeededPieces : Cardinality(OfPiece(W, s, p)) <= M

Books(W, s, d, M) == AskedOnce(W, s) /\ Cleared(W, s) /\ OnlyFor(W, s, d) /\ WithinLimit(W, s, M)

(* The writer counts the blocks that wait, each of which waits once.       *)
Once(q) == \A i, j \in 1 .. Len(q) : q[i] \in Data /\ q[i] = q[j] => i = j
Counted(w) == Once(w.queue) /\ w.queuedRequests = Cardinality(Waiting(w.queue))

(* What has been served of the piece being downloaded has arrived or is    *)
(* on its way, in the sequence s; nothing is served of the pieces ps.      *)
Delivered(d, ps, served, s) ==
  /\ \A x \in served : x.piece \notin ps
  /\ d # Absent => \A x \in served : x.piece = d.piece => x.block \in d.done \cup Blocks(s, d.piece)

Refuses(m, p) == m.type = "reject" /\ m.piece = p
Unrefused(d, s) == d # Absent => \A i \in 1 .. Len(s) : ~Refuses(s[i], d.piece)

Few(d, M) == d # Absent => Cardinality(d.pending) <= M

(* What holds if the seeder takes the first requests.                      *)
InStep ==
  /\ Books(Waiting(writer.queue), toSeeder, pd, maxIn) /\ Counted(writer)
  /\ Delivered(pd, todo, writer.served, toLeech) /\ Few(pd, maxIn)
  /\ Unrefused(pd, toLeech) /\ Unrefused(pd, Held) /\ Unrefused(pd, writer.queue)

(* HaveAll is the first message, and nothing is picked before it comes.    *)
Greets(s) == \E i \in 1 .. Len(s) : s[i].type = "haveall"
First(s) == s # <<>> /\ \A i \in 1 .. Len(s) : s[i].type = "haveall" <=> i = 1

Quiet == ~Greets(toLeech) /\ ~Greets(Held) /\ ~Greets(writer.queue)

Opening ==
  \/ Quiet
  \/ /\ pd = Absent /\ toSeeder = <<>>
     /\ \/ toLeech = <<>> /\ writing = Absent /\ First(writer.queue)
        \/ toLeech = <<>> /\ First(Held) /\ ~Greets(writer.queue)
        \/ First(toLeech) /\ ~Greets(Held) /\ ~Greets(writer.queue)

LimitInv ==
  /\ Opening /\ reqq \in {0, maxIn}
  /\ maxIn >= DefaultRequestsOut => InStep

-----------------------------------------------------------------------------
(* Messages on their way to the seeder.                                    *)

(* The first message handled: the others move up.                          *)
LEMMA DueTail ==
  ASSUME NEW T, NEW s \in Seq(T), s # <<>>, NEW k \in 0 .. Len(Tail(s)), NEW x
  PROVE  /\ AskedFor(s, k + 1, x) <=> AsksFor(Head(s), x) \/ AskedFor(Tail(s), k, x)
         /\ TakenBack(s, k + 1, x) <=> TakesBack(Head(s), x) \/ TakenBack(Tail(s), k, x)
<1> DEFINE t == Tail(s)
<1>1. /\ Len(s) \in Nat \ {0} /\ Len(t) = Len(s) - 1 /\ Head(s) = s[1]
      /\ \A i \in 1 .. Len(t) : t[i] = s[i + 1]
  BY HeadTailProperties, LenProperties, EmptySeq
<1> HIDE DEF t
<1>2. k \in 0 .. Len(t) /\ Len(t) \in Nat
  BY <1>1 DEF t
<1>3. 1 \in 1 .. k + 1 /\ \A i \in 1 .. k : i + 1 \in 1 .. k + 1 /\ t[i] = s[i + 1]
  BY <1>1, <1>2
<1>4. ASSUME NEW i \in 1 .. k + 1 PROVE i = 1 \/ \E j \in 1 .. k : i = j + 1
  <2>1. CASE i = 1
    BY <2>1
  <2>2. CASE i # 1
    <3>1. i - 1 \in 1 .. k /\ i = (i - 1) + 1
      BY <1>2, <2>2
    <3> QED
      BY <3>1
  <2> QED
    BY <2>1, <2>2
<1>5. AskedFor(s, k + 1, x) <=> AsksFor(Head(s), x) \/ AskedFor(t, k, x)
  BY <1>1, <1>3, <1>4 DEF AskedFor
<1>6. TakenBack(s, k + 1, x) <=> TakesBack(Head(s), x) \/ TakenBack(t, k, x)
  BY <1>1, <1>3, <1>4 DEF TakenBack
<1> QED
  BY <1>5, <1>6 DEF t

(* More messages behind.                                                   *)
LEMMA DueConcat ==
  ASSUME NEW T, NEW s \in Seq(T), NEW t \in Seq(T), NEW x
  PROVE  /\ \A k \in 0 .. Len(s) : /\ AskedFor(s \o t, k, x) <=> AskedFor(s, k, x)
                                   /\ TakenBack(s \o t, k, x) <=> TakenBack(s, k, x)
         /\ \A j \in 0 .. Len(t) :
              /\ AskedFor(s \o t, Len(s) + j, x) <=> AskedFor(s, Len(s), x) \/ AskedFor(t, j, x)
              /\ TakenBack(s \o t, Len(s) + j, x) <=> TakenBack(s, Len(s), x) \/ TakenBack(t, j, x)
<1> DEFINE st == s \o t
           n == Len(s)
           m == Len(t)
<1>1. n \in Nat /\ m \in Nat
  BY LenProperties
<1>2. \A i \in 1 .. n + m : st[i] = IF i <= n THEN s[i] ELSE t[i - n]
  BY ConcatProperties
<1> HIDE DEF st, n, m
<1>3. ASSUME NEW k \in 0 .. n
      PROVE  /\ AskedFor(st, k, x) <=> AskedFor(s, k, x)
             /\ TakenBack(st, k, x) <=> TakenBack(s, k, x)
  <2>1. \A i \in 1 .. k : st[i] = s[i]
    BY <1>1, <1>2
  <2> QED
    BY <2>1 DEF AskedFor, TakenBack
<1>4. ASSUME NEW j \in 0 .. m
      PROVE  /\ AskedFor(st, n + j, x) <=> AskedFor(s, n, x) \/ AskedFor(t, j, x)
             /\ TakenBack(st, n + j, x) <=> TakenBack(s, n, x) \/ TakenBack(t, j, x)
  <2>1. \A i \in 1 .. n : i \in 1 .. n + j /\ st[i] = s[i]
    BY <1>1, <1>2
  <2>2. ASSUME NEW i \in 1 .. j PROVE n + i \in 1 .. n + j /\ st[n + i] = t[i]
    <3> DEFINE l == n + i
    <3>1. n + i \in 1 .. n + j
      BY <1>1
    <3>2. l \in 1 .. n + m /\ ~(l <= n) /\ l - n = i
      BY <1>1
    <3> HIDE DEF l
    <3>3. st[l] = t[i]
      BY <3>2, <1>2
    <3> QED
      BY <3>1, <3>3 DEF l
  <2>3. ASSUME NEW i \in 1 .. n + j PROVE i \in 1 .. n \/ \E l \in 1 .. j : i = n + l
    <3>1. CASE i <= n
      BY <3>1, <1>1
    <3>2. CASE ~(i <= n)
      <4>1. i - n \in 1 .. j /\ i = n + (i - n)
        BY <3>2, <1>1
      <4> QED
        BY <4>1
    <3> QED
      BY <3>1, <3>2
  <2>4. AskedFor(st, n + j, x) <=> AskedFor(s, n, x) \/ AskedFor(t, j, x)
    BY <2>1, <2>2, <2>3 DEF AskedFor
  <2>5. TakenBack(st, n + j, x) <=> TakenBack(s, n, x) \/ TakenBack(t, j, x)
    BY <2>1, <2>2, <2>3 DEF TakenBack
  <2> QED
    BY <2>4, <2>5
<1> QED
  BY <1>3, <1>4 DEF st, n, m

(* What a message about blocks of a piece says of one block.               *)
LEMMA SameBlock ==
  ASSUME NEW m, NEW x \in Data, NEW y \in Data, AsksFor(m, x) \/ TakesBack(m, x),
         AsksFor(m, y) \/ TakesBack(m, y)
  PROVE  x = y
<1>1. \A z \in Data : z = [type |-> "piece", piece |-> z.piece, block |-> z.block]
  BY DEF Data, BlockMessages
<1>2. x.piece = y.piece /\ x.block = y.block
  BY DEF AsksFor, TakesBack
<1> QED
  BY <1>1, <1>2

(* A set of blocks of one piece is no larger than that of their indices.   *)
LEMMA DataOf ==
  ASSUME NEW p, NEW B \in SUBSET (1 .. NumBlocks), NEW D \in SUBSET Data,
         \A x \in D : x.piece = p /\ x.block \in B
  PROVE  /\ IsFiniteSet(D) /\ Cardinality(D) \in Nat /\ Cardinality(B) \in Nat
         /\ Cardinality(D) <= Cardinality(B)
<1> DEFINE f == [x \in D |-> x.block]
<1>1. IsFiniteSet(B) /\ Cardinality(B) \in Nat
  <2>1. IsFiniteSet(1 .. NumBlocks)
    BY TransferAssumption, FS_Interval
  <2> QED
    BY <2>1, FS_Subset, FS_CardinalityType
<1>2. \A z \in Data : z = [type |-> "piece", piece |-> z.piece, block |-> z.block]
  BY DEF Data, BlockMessages
<1>3. \A x, y \in D : x.block = y.block => x = y
  BY <1>2
<1>4. f \in [D -> B] /\ \A x, y \in D : f[x] = f[y] => x = y
  BY <1>3
<1> HIDE DEF f
<1>5. f \in Injection(D, B)
  BY <1>4 DEF Injection, IsInjective
<1>6. IsFiniteSet(D) /\ Cardinality(D) <= Cardinality(B)
  BY <1>1, <1>5, FS_Injection
<1> QED
  BY <1>1, <1>6, FS_CardinalityType

LEMMA OfPieceFinite ==
  ASSUME NEW W, NEW s, NEW p
  PROVE  IsFiniteSet(OfPiece(W, s, p)) /\ Cardinality(OfPiece(W, s, p)) \in Nat
<1> DEFINE D == OfPiece(W, s, p)
<1>1. D \in SUBSET Data /\ \A x \in D : x.piece = p
  BY DEF OfPiece
<1>2. \A x \in Data : x.block \in 1 .. NumBlocks
  BY DEF Data, BlockMessages
<1>3. 1 .. NumBlocks \in SUBSET (1 .. NumBlocks)
  OBVIOUS
<1> HIDE DEF D
<1> QED
  BY <1>1, <1>2, <1>3, DataOf DEF D

(* The books after the first message has been handled.                     *)
LEMMA BooksShift ==
  ASSUME NEW W, NEW V, NEW T, NEW s \in Seq(T), s # <<>>, NEW d, NEW M \in Nat, Books(W, s, d, M),
         \A k \in 0 .. Len(Tail(s)), x \in Data :
           /\ Due(V, Tail(s), k, x) => Due(W, s, k + 1, x)
           /\ TakenBack(Tail(s), k, x) => TakenBack(s, k + 1, x)
           /\ Due(V, Tail(s), k, x) /\ TakenBack(s, k + 1, x) => TakenBack(Tail(s), k, x)
  PROVE  Books(V, Tail(s), d, M)
<1> DEFINE t == Tail(s)
<1>1. /\ Len(s) \in Nat \ {0} /\ Len(t) = Len(s) - 1
      /\ \A i \in 1 .. Len(t) : t[i] = s[i + 1]
  BY HeadTailProperties, LenProperties, EmptySeq
<1>2. \A k \in 0 .. Len(t), x \in Data :
        /\ Due(V, t, k, x) => Due(W, s, k + 1, x)
        /\ TakenBack(t, k, x) => TakenBack(s, k + 1, x)
        /\ Due(V, t, k, x) /\ TakenBack(s, k + 1, x) => TakenBack(t, k, x)
  OBVIOUS
<1> HIDE DEF t
<1>3. ASSUME NEW k \in 1 .. Len(t)
      PROVE  /\ k - 1 \in 0 .. Len(t) /\ (k - 1) + 1 = k /\ k + 1 \in 1 .. Len(s) /\ (k + 1) - 1 = k
             /\ t[k] = s[k + 1]
  BY <1>1
<1>4. ASSUME NEW k \in 1 .. Len(t), NEW x \in Data
      PROVE  /\ Due(V, t, k - 1, x) => Due(W, s, k, x)
             /\ TakenBack(t, k - 1, x) => TakenBack(s, k, x)
             /\ Due(V, t, k - 1, x) /\ TakenBack(s, k, x) => TakenBack(t, k - 1, x)
  BY <1>2, <1>3
<1>5. AskedOnce(V, t)
  <2> SUFFICES ASSUME NEW k \in 1 .. Len(t), NEW x \in Data, AsksFor(t[k], x)
               PROVE  ~Due(V, t, k - 1, x) /\ ~TakenBack(t, k - 1, x)
    BY DEF AskedOnce
  <2>1. ~Due(W, s, k, x) /\ ~TakenBack(s, k, x)
    BY <1>3 DEF Books, AskedOnce
  <2> QED
    BY <2>1, <1>4
<1>6. Cleared(V, t)
  <2> SUFFICES ASSUME NEW k \in 1 .. Len(t), NEW x \in Data, NEW y \in Data,
                      AsksFor(t[k], y), x.piece # y.piece, Due(V, t, k - 1, x)
               PROVE  TakenBack(t, k - 1, x)
    BY DEF Cleared
  <2>1. Due(W, s, k, x)
    BY <1>4
  <2>2. TakenBack(s, k, x)
    BY <2>1, <1>3 DEF Books, Cleared
  <2> QED
    BY <2>2, <1>4
<1>7. Len(t) \in 0 .. Len(t) /\ Len(t) + 1 = Len(s)
  BY <1>1
<1>8. \A x \in Data :
        /\ Due(V, t, Len(t), x) => Due(W, s, Len(s), x)
        /\ Due(V, t, Len(t), x) /\ TakenBack(s, Len(s), x) => TakenBack(t, Len(t), x)
  BY <1>2, <1>7
<1>9. OnlyFor(V, t, d)
  BY <1>8 DEF Books, OnlyFor
<1>10. WithinLimit(V, t, M)
  <2> SUFFICES ASSUME NEW p \in NeededPieces PROVE Cardinality(OfPiece(V, t, p)) <= M
    BY DEF WithinLimit
  <2> DEFINE A == OfPiece(V, t, p)
             B == OfPiece(W, s, p)
  <2>1. A \in SUBSET B
    BY <1>8 DEF OfPiece
  <2>2. Cardinality(B) <= M
    BY DEF Books, WithinLimit
  <2>3. IsFiniteSet(B) /\ Cardinality(B) \in Nat /\ Cardinality(A) \in Nat
    BY OfPieceFinite
  <2> HIDE DEF A, B
  <2>4. Cardinality(A) <= Cardinality(B)
    BY <2>1, <2>3, FS_Subset
  <2>5. Cardinality(A) <= M
    BY <2>2, <2>3, <2>4
  <2> QED
    BY <2>5 DEF A
<1> QED
  BY <1>5, <1>6, <1>9, <1>10 DEF Books, t

(* A request is handled: its block waits.                                  *)
LEMMA BooksRequested ==
  ASSUME NEW W, NEW T, NEW s \in Seq(T), s # <<>>, NEW d, NEW M \in Nat, Books(W, s, d, M),
         NEW x \in Data, AsksFor(Head(s), x)
  PROVE  Books(W \cup {x}, Tail(s), d, M)
<1> DEFINE V == W \cup {x}
           t == Tail(s)
<1>1. ASSUME NEW k \in 0 .. Len(t), NEW y \in Data
      PROVE  /\ Due(V, t, k, y) => Due(W, s, k + 1, y)
             /\ TakenBack(t, k, y) => TakenBack(s, k + 1, y)
             /\ Due(V, t, k, y) /\ TakenBack(s, k + 1, y) => TakenBack(t, k, y)
  <2>1. /\ AskedFor(s, k + 1, y) <=> AsksFor(Head(s), y) \/ AskedFor(t, k, y)
        /\ TakenBack(s, k + 1, y) <=> TakesBack(Head(s), y) \/ TakenBack(t, k, y)
    BY DueTail
  <2> HIDE DEF t
  <2>2. ~TakesBack(Head(s), y)
    BY DEF AsksFor, TakesBack
  <2>3. Due(V, t, k, y) => Due(W, s, k + 1, y)
    BY <2>1 DEF Due
  <2> QED
    BY <2>1, <2>2, <2>3
<1> HIDE DEF V
<1>2. Books(V, t, d, M)
  BY <1>1, BooksShift
<1> QED
  BY <1>2 DEF V, t

(* A cancel is handled: the block does not wait any more.                  *)
LEMMA BooksCancelled ==
  ASSUME NEW W, NEW T, NEW s \in Seq(T), s # <<>>, NEW d, NEW M \in Nat, Books(W, s, d, M),
         NEW x \in Data, TakesBack(Head(s), x)
  PROVE  Books(W \ {x}, Tail(s), d, M)
<1> DEFINE V == W \ {x}
           t == Tail(s)
<1>0. /\ Len(s) \in Nat \ {0} /\ Len(t) = Len(s) - 1
      /\ \A i \in 1 .. Len(t) : t[i] = s[i + 1]
  BY HeadTailProperties, LenProperties, EmptySeq
<1>1. \A k \in 0 .. Len(t) : ~AskedFor(t, k, x)
  <2> SUFFICES ASSUME NEW k \in 0 .. Len(t), NEW i \in 1 .. k, AsksFor(t[i], x)
               PROVE  FALSE
    BY DEF AskedFor
  <2>1. i \in 1 .. Len(t) /\ i + 1 \in 1 .. Len(s) /\ (i + 1) - 1 = i /\ i - 1 \in 0 .. Len(t)
        /\ (i - 1) + 1 = i
    BY <1>0
  <2>2. AsksFor(s[i + 1], x)
    BY <1>0, <2>1
  <2>3. ~TakenBack(s, i, x)
    BY <2>1, <2>2 DEF Books, AskedOnce
  <2>4. TakenBack(s, (i - 1) + 1, x)
    BY <2>1, DueTail
  <2> QED
    BY <2>1, <2>3, <2>4
<1>2. ASSUME NEW k \in 0 .. Len(t), NEW y \in Data
      PROVE  /\ Due(V, t, k, y) => Due(W, s, k + 1, y)
             /\ TakenBack(t, k, y) => TakenBack(s, k + 1, y)
             /\ Due(V, t, k, y) /\ TakenBack(s, k + 1, y) => TakenBack(t, k, y)
  <2>1. /\ AskedFor(s, k + 1, y) <=> AsksFor(Head(s), y) \/ AskedFor(t, k, y)
        /\ TakenBack(s, k + 1, y) <=> TakesBack(Head(s), y) \/ TakenBack(t, k, y)
    BY DueTail
  <2>2. ~AskedFor(t, k, x)
    BY <1>1
  <2> HIDE DEF t
  <2>3. TakesBack(Head(s), y) => y = x
    BY SameBlock
  <2>4. Due(V, t, k, y) => y # x /\ Due(W, s, k + 1, y)
    BY <2>1, <2>2 DEF Due
  <2> QED
    BY <2>1, <2>3, <2>4
<1> HIDE DEF V
<1>3. Books(V, t, d, M)
  BY <1>2, BooksShift
<1> QED
  BY <1>3 DEF V, t

(* A block is taken from the queue.                                        *)
LEMMA BooksFewer ==
  ASSUME NEW W, NEW V \in SUBSET W, NEW s, NEW d, NEW M \in Nat, Books(W, s, d, M)
  PROVE  Books(V, s, d, M)
<1>1. \A k, x : Due(V, s, k, x) => Due(W, s, k, x)
  BY DEF Due
<1>2. AskedOnce(V, s) /\ Cleared(V, s) /\ OnlyFor(V, s, d)
  BY <1>1 DEF Books, AskedOnce, Cleared, OnlyFor
<1>3. WithinLimit(V, s, M)
  <2> SUFFICES ASSUME NEW p \in NeededPieces PROVE Cardinality(OfPiece(V, s, p)) <= M
    BY DEF WithinLimit
  <2> DEFINE A == OfPiece(V, s, p)
             B == OfPiece(W, s, p)
  <2>1. A \in SUBSET B
    BY <1>1 DEF OfPiece
  <2>2. Cardinality(B) <= M
    BY DEF Books, WithinLimit
  <2>3. IsFiniteSet(B) /\ Cardinality(B) \in Nat /\ Cardinality(A) \in Nat
    BY OfPieceFinite
  <2> HIDE DEF A, B
  <2>4. Cardinality(A) <= Cardinality(B)
    BY <2>1, <2>3, FS_Subset
  <2>5. Cardinality(A) <= M
    BY <2>2, <2>3, <2>4
  <2> QED
    BY <2>5 DEF A
<1> QED
  BY <1>2, <1>3 DEF Books

(* The downloader is done with its piece, and takes back what is due of it.*)
LEMMA BooksClosed ==
  ASSUME NEW W, NEW T, NEW s \in Seq(T), NEW t \in Seq(T), NEW d, NEW M \in Nat, Books(W, s, d, M),
         \A i \in 1 .. Len(t) : t[i].type = "cancel",
         \A x \in Data : Due(W, s, Len(s), x) /\ d # Absent /\ x.piece = d.piece =>
                           TakenBack(t, Len(t), x)
  PROVE  Books(W, s \o t, Absent, M)
<1> DEFINE u == s \o t
           n == Len(s)
           m == Len(t)
<1>1. /\ n \in Nat /\ m \in Nat /\ Len(u) = n + m
      /\ \A i \in 1 .. n + m : u[i] = IF i <= n THEN s[i] ELSE t[i - n]
  BY ConcatProperties, LenProperties
<1>2. \A k \in 0 .. n : \A x : /\ AskedFor(u, k, x) <=> AskedFor(s, k, x)
                               /\ TakenBack(u, k, x) <=> TakenBack(s, k, x)
  BY DueConcat
<1>3. ASSUME NEW x
      PROVE  /\ AskedFor(u, n + m, x) <=> AskedFor(s, n, x)
             /\ TakenBack(u, n + m, x) <=> TakenBack(s, n, x) \/ TakenBack(t, m, x)
  <2>1. m \in 0 .. m
    BY <1>1
  <2>2. /\ AskedFor(u, n + m, x) <=> AskedFor(s, n, x) \/ AskedFor(t, m, x)
        /\ TakenBack(u, n + m, x) <=> TakenBack(s, n, x) \/ TakenBack(t, m, x)
    BY <2>1, DueConcat
  <2>3. ~AskedFor(t, m, x)
    BY DEF AskedFor, AsksFor
  <2> QED
    BY <2>2, <2>3
<1>4. \A i \in 1 .. m : t[i].type = "cancel"
  OBVIOUS
<1>5. \A x \in Data : Due(W, s, n, x) /\ d # Absent /\ x.piece = d.piece => TakenBack(t, m, x)
  OBVIOUS
<1>6. Books(W, s, d, M)
  OBVIOUS
<1>7. AskedOnce(W, s) /\ Cleared(W, s) /\ OnlyFor(W, s, d) /\ WithinLimit(W, s, M)
  BY DEF Books
<1> HIDE DEF u, n, m
<1>8. ASSUME NEW k \in 1 .. Len(u), NEW y, AsksFor(u[k], y)
      PROVE  k \in 1 .. n /\ u[k] = s[k] /\ k - 1 \in 0 .. n
  <2>1. CASE k <= n
    BY <2>1, <1>1
  <2>2. CASE ~(k <= n)
    <3>1. k - n \in 1 .. m /\ u[k] = t[k - n]
      BY <2>2, <1>1
    <3> QED
      BY <3>1, <1>4, <1>8 DEF AsksFor
  <2> QED
    BY <2>1, <2>2
<1>9. AskedOnce(W, u)
  <2> SUFFICES ASSUME NEW k \in 1 .. Len(u), NEW x \in Data, AsksFor(u[k], x)
               PROVE  ~Due(W, u, k - 1, x) /\ ~TakenBack(u, k - 1, x)
    BY DEF AskedOnce
  <2>1. k \in 1 .. n /\ u[k] = s[k] /\ k - 1 \in 0 .. n
    BY <1>8
  <2>2. ~Due(W, s, k - 1, x) /\ ~TakenBack(s, k - 1, x)
    BY <2>1, <1>7 DEF AskedOnce, n
  <2> QED
    BY <2>1, <2>2, <1>2 DEF Due
<1>10. Cleared(W, u)
  <2> SUFFICES ASSUME NEW k \in 1 .. Len(u), NEW x \in Data, NEW y \in Data,
                      AsksFor(u[k], y), x.piece # y.piece, Due(W, u, k - 1, x)
               PROVE  TakenBack(u, k - 1, x)
    BY DEF Cleared
  <2>1. k \in 1 .. n /\ u[k] = s[k] /\ k - 1 \in 0 .. n
    BY <1>8
  <2>2. Due(W, s, k - 1, x)
    BY <2>1, <1>2 DEF Due
  <2>3. TakenBack(s, k - 1, x)
    BY <2>1, <2>2, <1>7 DEF Cleared, n
  <2> QED
    BY <2>1, <2>3, <1>2
<1>11. \A x : Due(W, u, Len(u), x) <=> Due(W, s, n, x)
  BY <1>1, <1>3 DEF Due
<1>12. OnlyFor(W, u, Absent)
  <2> SUFFICES ASSUME NEW x \in Data, Due(W, u, Len(u), x) PROVE TakenBack(u, Len(u), x)
    BY DEF OnlyFor
  <2>1. Due(W, s, n, x)
    BY <1>11
  <2>2. TakenBack(s, n, x) \/ TakenBack(t, m, x)
    BY <2>1, <1>5, <1>7 DEF OnlyFor, n
  <2> QED
    BY <2>2, <1>1, <1>3
<1>13. WithinLimit(W, u, M)
  <2>1. \A p : OfPiece(W, u, p) = OfPiece(W, s, p)
    BY <1>11 DEF OfPiece, n
  <2> QED
    BY <2>1, <1>7 DEF WithinLimit
<1> QED
  BY <1>9, <1>10, <1>12, <1>13 DEF Books, u

(* The requests for blocks bs of the piece of d, which does not wait for   *)
(* more than the blocks B.                                                 *)
LEMMA BooksAsked ==
  ASSUME NEW W, NEW s \in Seq(BlockMessages({"request", "cancel"})), NEW e, NEW d, d # Absent,
         d.piece \in NeededPieces, NEW M \in Nat, Books(W, s, e, M), OnlyFor(W, s, d),
         NEW bs \in Seq(1 .. NumBlocks), IsInjective(bs),
         \A x \in Data : x.piece = d.piece /\ x.block \in ToSet(bs) =>
                           ~Due(W, s, Len(s), x) /\ ~TakenBack(s, Len(s), x),
         NEW B \in SUBSET (1 .. NumBlocks), ToSet(bs) \subseteq B, Cardinality(B) <= M,
         \A x \in Data : x.piece = d.piece /\ Due(W, s, Len(s), x) => x.block \in B
  PROVE  Books(W, s \o Messages("request", d.piece, bs), d, M)
<1> DEFINE t == Messages("request", d.piece, bs)
           u == s \o t
           n == Len(s)
           m == Len(t)
           S == BlockMessages({"request", "cancel"})
           p == d.piece
<1>1. t \in Seq(S)
  BY MessagesAre
<1>2. /\ m = Len(bs) /\ m \in Nat /\ ToSet(bs) = {bs[i] : i \in 1 .. m}
      /\ \A i, j \in 1 .. m : bs[i] = bs[j] => i = j
      /\ \A i \in 1 .. m : t[i].type = "request" /\ t[i].piece = p /\ t[i].block = bs[i]
  <2>1. Len(bs) \in Nat
    BY LenProperties
  <2>2. t = [i \in 1 .. Len(bs) |-> [type |-> "request", piece |-> p, block |-> bs[i]]]
    BY DEF Messages, BlockMessage
  <2>3. m = Len(bs)
    <3>1. DOMAIN t = 1 .. Len(t) /\ Len(t) \in Nat
      BY <1>1, LenProperties
    <3>2. DOMAIN t = 1 .. Len(bs)
      BY <2>2
    <3> QED
      BY <3>1, <3>2, <2>1
  <2>4. /\ ToSet(bs) = {bs[i] : i \in 1 .. Len(bs)}
        /\ \A i, j \in 1 .. Len(bs) : bs[i] = bs[j] => i = j
    BY SetOf
  <2> HIDE DEF t
  <2>5. ASSUME NEW i \in 1 .. Len(bs)
        PROVE  t[i].type = "request" /\ t[i].piece = p /\ t[i].block = bs[i]
    <3>1. t[i] = [type |-> "request", piece |-> p, block |-> bs[i]]
      BY <2>2
    <3> QED
      BY <3>1
  <2> QED
    BY <2>1, <2>3, <2>4, <2>5
<1>3. /\ n \in Nat /\ Len(u) = n + m
      /\ \A i \in 1 .. n + m : u[i] = IF i <= n THEN s[i] ELSE t[i - n]
  BY <1>1, ConcatProperties, LenProperties
<1>0. s \in Seq(S)
  OBVIOUS
<1> HIDE DEF S, t
<1>4. \A k \in 0 .. n : \A x : /\ AskedFor(u, k, x) <=> AskedFor(s, k, x)
                               /\ TakenBack(u, k, x) <=> TakenBack(s, k, x)
  BY <1>0, <1>1, DueConcat
<1>5. ASSUME NEW j \in 0 .. m, NEW x \in Data
      PROVE  /\ AskedFor(u, n + j, x) <=> AskedFor(s, n, x) \/ AskedFor(t, j, x)
             /\ TakenBack(u, n + j, x) <=> TakenBack(s, n, x)
             /\ AskedFor(t, j, x) => x.piece = p /\ x.block \in ToSet(bs)
  <2>1. /\ AskedFor(u, n + j, x) <=> AskedFor(s, n, x) \/ AskedFor(t, j, x)
        /\ TakenBack(u, n + j, x) <=> TakenBack(s, n, x) \/ TakenBack(t, j, x)
    BY <1>0, <1>1, DueConcat
  <2> HIDE DEF n, m, u
  <2>2. 1 .. j \subseteq 1 .. m
    BY <1>2
  <2>3. ~TakenBack(t, j, x)
    BY <2>2, <1>2 DEF TakenBack, TakesBack
  <2>4. AskedFor(t, j, x) => x.piece = p /\ x.block \in ToSet(bs)
    BY <2>2, <1>2 DEF AskedFor, AsksFor
  <2> QED
    BY <2>1, <2>3, <2>4
<1>6. AskedOnce(W, s) /\ Cleared(W, s) /\ OnlyFor(W, s, d) /\ WithinLimit(W, s, M)
  BY DEF Books
<1>7. \A x \in Data : x.piece = p /\ x.block \in ToSet(bs) =>
                        ~Due(W, s, n, x) /\ ~TakenBack(s, n, x)
  OBVIOUS
<1>8. \A x \in Data : x.piece = p /\ Due(W, s, n, x) => x.block \in B
  OBVIOUS
<1>9. \A x \in Data : x.piece # p /\ Due(W, s, n, x) => TakenBack(s, n, x)
  BY <1>6 DEF OnlyFor
<1> HIDE DEF u, n, m, p
(* A request is one of those before, or the j-th of the new ones.          *)
<1>10. ASSUME NEW k \in 1 .. Len(u), NEW y \in Data, AsksFor(u[k], y)
       PROVE  \/ k \in 1 .. n /\ u[k] = s[k] /\ k - 1 \in 0 .. n
              \/ \E j \in 1 .. m : /\ k - 1 = n + (j - 1) /\ j - 1 \in 0 .. m
                                   /\ y.piece = p /\ y.block = bs[j] /\ bs[j] \in ToSet(bs)
  <2>1. CASE k <= n
    BY <2>1, <1>3
  <2>2. CASE ~(k <= n)
    <3>1. k - n \in 1 .. m /\ u[k] = t[k - n] /\ k - 1 = n + ((k - n) - 1) /\ (k - n) - 1 \in 0 .. m
      BY <2>2, <1>2, <1>3
    <3> DEFINE j == k - n
    <3> HIDE DEF j
    <3>2. j \in 1 .. m /\ u[k] = t[j] /\ k - 1 = n + (j - 1) /\ j - 1 \in 0 .. m
      BY <3>1 DEF j
    <3>3. y.piece = p /\ y.block = bs[j] /\ bs[j] \in ToSet(bs)
      BY <3>2, <1>2, <1>10 DEF AsksFor
    <3> QED
      BY <3>2, <3>3
  <2> QED
    BY <2>1, <2>2
<1>11. AskedOnce(W, u)
  <2> SUFFICES ASSUME NEW k \in 1 .. Len(u), NEW x \in Data, AsksFor(u[k], x)
               PROVE  ~Due(W, u, k - 1, x) /\ ~TakenBack(u, k - 1, x)
    BY DEF AskedOnce
  <2>1. CASE k \in 1 .. n /\ u[k] = s[k] /\ k - 1 \in 0 .. n
    <3>1. ~Due(W, s, k - 1, x) /\ ~TakenBack(s, k - 1, x)
      BY <2>1, <1>6 DEF AskedOnce, n
    <3> QED
      BY <2>1, <3>1, <1>4 DEF Due
  <2>2. ASSUME NEW j \in 1 .. m, k - 1 = n + (j - 1), j - 1 \in 0 .. m,
               x.piece = p, x.block = bs[j], bs[j] \in ToSet(bs)
        PROVE  ~Due(W, u, k - 1, x) /\ ~TakenBack(u, k - 1, x)
    <3>1. ~Due(W, s, n, x) /\ ~TakenBack(s, n, x)
      BY <2>2, <1>7
    <3>2. ~AskedFor(t, j - 1, x)
      <4> SUFFICES ASSUME NEW i \in 1 .. j - 1, AsksFor(t[i], x) PROVE FALSE
        BY DEF AskedFor
      <4>1. i \in 1 .. m /\ i # j
        BY <1>2
      <4>2. x.block = bs[i]
        BY <4>1, <1>2 DEF AsksFor
      <4>3. bs[i] = bs[j] /\ i \in 1 .. m /\ j \in 1 .. m /\ i # j
        BY <4>1, <4>2, <2>2
      <4>4. \A a, b \in 1 .. m : bs[a] = bs[b] => a = b
        BY <1>2
      <4> QED
        BY ONLY <4>3, <4>4
    <3> QED
      BY <2>2, <3>1, <3>2, <1>5 DEF Due
  <2> QED
    BY <2>1, <2>2, <1>10
<1>12. Cleared(W, u)
  <2> SUFFICES ASSUME NEW k \in 1 .. Len(u), NEW x \in Data, NEW y \in Data,
                      AsksFor(u[k], y), x.piece # y.piece, Due(W, u, k - 1, x)
               PROVE  TakenBack(u, k - 1, x)
    BY DEF Cleared
  <2>1. CASE k \in 1 .. n /\ u[k] = s[k] /\ k - 1 \in 0 .. n
    <3>1. Due(W, s, k - 1, x)
      BY <2>1, <1>4 DEF Due
    <3>2. TakenBack(s, k - 1, x)
      BY <2>1, <3>1, <1>6 DEF Cleared, n
    <3> QED
      BY <2>1, <3>2, <1>4
  <2>2. ASSUME NEW j \in 1 .. m, k - 1 = n + (j - 1), j - 1 \in 0 .. m, y.piece = p
        PROVE  TakenBack(u, k - 1, x)
    <3>1. Due(W, s, n, x)
      BY <2>2, <1>5 DEF Due
    <3>2. TakenBack(s, n, x)
      BY <2>2, <3>1, <1>9
    <3> QED
      BY <2>2, <3>2, <1>5
  <2> QED
    BY <2>1, <2>2, <1>10
<1>13. ASSUME NEW x \in Data
       PROVE  /\ Due(W, u, Len(u), x) <=> Due(W, s, n, x) \/ AskedFor(t, m, x)
              /\ TakenBack(u, Len(u), x) <=> TakenBack(s, n, x)
              /\ AskedFor(t, m, x) => x.piece = p /\ x.block \in ToSet(bs)
  <2>1. m \in 0 .. m /\ Len(u) = n + m
    BY <1>2, <1>3
  <2> QED
    BY <2>1, <1>5 DEF Due
<1>14. OnlyFor(W, u, d)
  <2> SUFFICES ASSUME NEW x \in Data, Due(W, u, Len(u), x), x.piece # p
               PROVE  TakenBack(u, Len(u), x)
    BY DEF OnlyFor, p
  <2> QED
    BY <1>9, <1>13
<1>15. WithinLimit(W, u, M)
  <2> SUFFICES ASSUME NEW q \in NeededPieces PROVE Cardinality(OfPiece(W, u, q)) <= M
    BY DEF WithinLimit
  <2>1. CASE q # p
    <3>1. OfPiece(W, u, q) = OfPiece(W, s, q)
      BY <2>1, <1>13 DEF OfPiece, n
    <3> QED
      BY <3>1, <1>6 DEF WithinLimit
  <2>2. CASE q = p
    <3> DEFINE D == OfPiece(W, u, q)
    <3>1. D \in SUBSET Data
      BY DEF OfPiece
    <3>2. \A x \in D : x.piece = p /\ x.block \in B
      BY <2>2, <1>8, <1>13 DEF OfPiece
    <3> HIDE DEF D
    <3>3. Cardinality(D) \in Nat /\ Cardinality(B) \in Nat /\ Cardinality(D) <= Cardinality(B)
      BY <3>1, <3>2, DataOf
    <3>4. Cardinality(D) <= M
      BY <3>3
    <3> QED
      BY <3>4 DEF D
  <2> QED
    BY <2>1, <2>2
<1> QED
  BY <1>11, <1>12, <1>14, <1>15 DEF Books, u, t

-----------------------------------------------------------------------------
(* The writer's queue.                                                     *)

LEMMA WaitingFinite ==
  ASSUME NEW T, NEW q \in Seq(T)
  PROVE  IsFiniteSet(Waiting(q)) /\ Cardinality(Waiting(q)) \in Nat
<1> DEFINE W == Waiting(q)
           I == {i \in 1 .. Len(q) : q[i] \in Data}
           f == [i \in I |-> q[i]]
<1>1. IsFiniteSet(I)
  <2>1. Len(q) \in Nat
    BY LenProperties
  <2>2. IsFiniteSet(1 .. Len(q))
    BY <2>1, FS_Interval
  <2> QED
    BY <2>2, FS_Subset
<1>2. f \in Surjection(I, W)
  <2>1. f \in [I -> W] /\ \A x \in W : \E i \in I : f[i] = x
    BY DEF Waiting
  <2> HIDE DEF f, I, W
  <2> QED
    BY <2>1 DEF Surjection
<1> HIDE DEF f, I
<1> QED
  BY <1>1, <1>2, FS_Surjection, FS_CardinalityType

LEMMA WaitingAppend ==
  ASSUME NEW T, NEW q \in Seq(T), NEW m \in T
  PROVE  /\ Waiting(Append(q, m)) = Waiting(q) \cup ({m} \cap Data)
         /\ Once(q) /\ m \notin Waiting(q) => Once(Append(q, m))
<1> DEFINE t == Append(q, m)
<1>1. /\ Len(q) \in Nat /\ Len(t) = Len(q) + 1
      /\ \A i \in 1 .. Len(q) : t[i] = q[i] /\ i \in 1 .. Len(t)
      /\ t[Len(q) + 1] = m
  BY AppendProperties, LenProperties
<1> HIDE DEF t
<1>2. \A i \in 1 .. Len(t) : i \in 1 .. Len(q) \/ i = Len(q) + 1
  BY <1>1
<1>3. Len(q) + 1 \in 1 .. Len(t) /\ \A i \in 1 .. Len(q) : i # Len(q) + 1
  BY <1>1
<1>4. Waiting(t) = Waiting(q) \cup ({m} \cap Data)
  BY <1>1, <1>2, <1>3 DEF Waiting
<1>5. ASSUME Once(q), m \notin Waiting(q) PROVE Once(t)
  <2> SUFFICES ASSUME NEW i \in 1 .. Len(t), NEW j \in 1 .. Len(t), t[i] \in Data, t[i] = t[j]
               PROVE  i = j
    BY DEF Once
  <2>1. CASE i \in 1 .. Len(q) /\ j \in 1 .. Len(q)
    BY <2>1, <1>1, <1>5 DEF Once
  <2>2. CASE i = Len(q) + 1 /\ j \in 1 .. Len(q)
    BY <2>2, <1>1, <1>5 DEF Waiting
  <2>3. CASE i \in 1 .. Len(q) /\ j = Len(q) + 1
    BY <2>3, <1>1, <1>5 DEF Waiting
  <2> QED
    BY <2>1, <2>2, <2>3, <1>2
<1> QED
  BY <1>4, <1>5 DEF t

LEMMA WaitingTail ==
  ASSUME NEW T, NEW q \in Seq(T), q # <<>>, Once(q)
  PROVE  Waiting(Tail(q)) = Waiting(q) \ {Head(q)} /\ Once(Tail(q))
<1> DEFINE t == Tail(q)
<1>1. /\ Len(q) \in Nat \ {0} /\ Len(t) = Len(q) - 1 /\ Head(q) = q[1]
      /\ \A i \in 1 .. Len(t) : t[i] = q[i + 1]
  BY HeadTailProperties, LenProperties, EmptySeq
<1> HIDE DEF t
<1>2. 1 \in 1 .. Len(q) /\ \A i \in 1 .. Len(t) : i + 1 \in 1 .. Len(q) /\ i + 1 # 1
  BY <1>1
<1>3. ASSUME NEW i \in 1 .. Len(q) PROVE i = 1 \/ \E j \in 1 .. Len(t) : i = j + 1
  <2>1. CASE i # 1
    <3>1. i - 1 \in 1 .. Len(t) /\ i = (i - 1) + 1
      BY <1>1, <2>1
    <3> QED
      BY <3>1
  <2> QED
    BY <2>1
<1>4. \A i, j \in 1 .. Len(t) : i + 1 = j + 1 => i = j
  BY <1>1
<1>5. Waiting(t) = Waiting(q) \ {Head(q)}
  <2>1. \A x \in Waiting(t) : x \in Waiting(q) /\ x # Head(q)
    BY <1>1, <1>2 DEF Waiting, Once
  <2>2. ASSUME NEW x \in Waiting(q), x # Head(q) PROVE x \in Waiting(t)
    <3>1. PICK k \in 1 .. Len(q) : q[k] = x
      BY DEF Waiting
    <3>2. PICK j \in 1 .. Len(t) : k = j + 1
      BY <3>1, <2>2, <1>1, <1>3
    <3>3. t[j] = x
      BY <3>1, <3>2, <1>1
    <3> QED
      BY <3>3 DEF Waiting
  <2> QED
    BY <2>1, <2>2
<1>6. Once(t)
  BY <1>1, <1>2, <1>4 DEF Once
<1> QED
  BY <1>5, <1>6 DEF t

(* The messages that are left are those but m, in their order.             *)
LEMMA RemovedAre ==
  ASSUME NEW S, NEW s \in Seq(S), NEW m, Contains(s, m)
  PROVE  LET r == RemoveFirst(s, m)
         IN /\ r \in Seq(S)
            /\ \E n \in 1 .. Len(s) :
                 /\ s[n] = m /\ Len(r) = Len(s) - 1
                 /\ \A i \in 1 .. Len(r) : r[i] = IF i < n THEN s[i] ELSE s[i + 1]
<1>0. m \in S /\ \E f, g \in Seq(S) : Split(s, m, RemoveFirst(s, m), f, g)
  BY RemovedSplit
<1>1. PICK f \in Seq(S), g \in Seq(S) : Split(s, m, RemoveFirst(s, m), f, g)
  BY <1>0
<1> DEFINE r == f \o g
           h == <<m>>
           hg == h \o g
           F == Len(f)
           G == Len(g)
<1>2. F \in Nat /\ G \in Nat
  BY LenProperties
<1>3. h \in Seq(S) /\ Len(h) = 1 /\ h[1] = m
  BY <1>0
<1>4. /\ r \in Seq(S) /\ Len(r) = F + G
      /\ \A i \in 1 .. F + G : r[i] = IF i <= F THEN f[i] ELSE g[i - F]
  BY ConcatProperties
<1> HIDE DEF h
<1>5. /\ hg \in Seq(S) /\ Len(hg) = 1 + G
      /\ \A i \in 1 .. 1 + G : hg[i] = IF i <= 1 THEN h[i] ELSE g[i - 1]
  <2>1. /\ hg \in Seq(S) /\ Len(hg) = Len(h) + G
        /\ \A i \in 1 .. Len(h) + G : hg[i] = IF i <= Len(h) THEN h[i] ELSE g[i - Len(h)]
    BY <1>3, ConcatProperties
  <2> HIDE DEF hg, G
  <2> QED
    BY <2>1, <1>3
<1>6. s = f \o hg
  BY <1>1 DEF h, Split
<1> HIDE DEF hg, r, F, G
<1>7. /\ Len(s) = F + (1 + G)
      /\ \A i \in 1 .. F + (1 + G) : s[i] = IF i <= F THEN f[i] ELSE hg[i - F]
  BY <1>5, <1>6, ConcatProperties DEF F
<1> DEFINE n == F + 1
<1>8. n \in 1 .. Len(s) /\ ~(n <= F) /\ n - F = 1 /\ 1 \in 1 .. 1 + G /\ n \in 1 .. F + (1 + G)
  BY <1>2, <1>7
<1> HIDE DEF n
<1>9. s[n] = m
  <2>1. s[n] = hg[1]
    BY <1>7, <1>8
  <2>2. hg[1] = h[1]
    BY <1>5, <1>8
  <2> QED
    BY <2>1, <2>2, <1>3
<1>10. Len(r) = Len(s) - 1
  BY <1>2, <1>4, <1>7
<1>11. ASSUME NEW i \in 1 .. Len(r) PROVE r[i] = IF i < n THEN s[i] ELSE s[i + 1]
  <2>1. CASE i <= F
    <3>1. i < n /\ i \in 1 .. F + G /\ i \in 1 .. F + (1 + G)
      BY <2>1, <1>2, <1>4 DEF n
    <3>2. r[i] = f[i] /\ s[i] = f[i]
      BY <2>1, <3>1, <1>4, <1>7
    <3> QED
      BY <3>1, <3>2
  <2>2. CASE ~(i <= F)
    <3>1. /\ ~(i < n) /\ i \in 1 .. F + G /\ i + 1 \in 1 .. F + (1 + G) /\ ~(i + 1 <= F)
          /\ i - F \in 1 .. G
      BY <2>2, <1>2, <1>4 DEF n
    <3> DEFINE k == i - F
               j == (i + 1) - F
    <3>2. j \in 1 .. 1 + G /\ ~(j <= 1) /\ j - 1 = k
      BY <2>2, <1>2, <1>4
    <3>3. r[i] = g[k]
      BY <2>2, <3>1, <1>4
    <3> DEFINE l == i + 1
    <3>4. l \in 1 .. F + (1 + G) /\ ~(l <= F) /\ l - F = j
      BY <3>1
    <3> HIDE DEF k, j, l
    <3>5. s[l] = hg[j]
      BY <3>4, <1>7
    <3>6. hg[j] = g[k]
      BY <3>2, <1>5
    <3> QED
      BY <3>1, <3>3, <3>5, <3>6 DEF l
  <2> QED
    BY <2>1, <2>2
<1>12. \E x \in 1 .. Len(s) :
         /\ s[x] = m /\ Len(r) = Len(s) - 1
         /\ \A i \in 1 .. Len(r) : r[i] = IF i < x THEN s[i] ELSE s[i + 1]
  BY <1>8, <1>9, <1>10, <1>11
<1>13. RemoveFirst(s, m) = r
  BY <1>1 DEF r, Split
<1> HIDE DEF r
<1> QED
  BY <1>4, <1>12, <1>13

LEMMA WaitingRemoved ==
  ASSUME NEW T, NEW q \in Seq(T), NEW m \in Data, Contains(q, m), Once(q)
  PROVE  /\ Waiting(RemoveFirst(q, m)) = Waiting(q) \ {m} /\ Once(RemoveFirst(q, m))
         /\ m \in Waiting(q)
<1> DEFINE r == RemoveFirst(q, m)
<1>1. PICK n \in 1 .. Len(q) :
        /\ q[n] = m /\ Len(r) = Len(q) - 1
        /\ \A i \in 1 .. Len(r) : r[i] = IF i < n THEN q[i] ELSE q[i + 1]
  BY RemovedAre
<1>2. Len(q) \in Nat
  BY LenProperties
<1> HIDE DEF r
<1> DEFINE at(i) == IF i < n THEN i ELSE i + 1
<1>3. ASSUME NEW i \in 1 .. Len(r)
      PROVE  at(i) \in 1 .. Len(q) /\ at(i) # n /\ r[i] = q[at(i)]
  <2>1. CASE i < n
    BY <2>1, <1>1, <1>2
  <2>2. CASE ~(i < n)
    BY <2>2, <1>1, <1>2
  <2> QED
    BY <2>1, <2>2
<1>4. \A i, j \in 1 .. Len(r) : at(i) = at(j) => i = j
  BY <1>1, <1>2
<1>5. ASSUME NEW k \in 1 .. Len(q), k # n PROVE \E i \in 1 .. Len(r) : at(i) = k
  <2>1. CASE k < n
    <3>1. k \in 1 .. Len(r) /\ at(k) = k
      BY <2>1, <1>1, <1>2
    <3> QED
      BY <3>1
  <2>2. CASE ~(k < n)
    <3>1. k - 1 \in 1 .. Len(r) /\ at(k - 1) = k
      BY <2>2, <1>1, <1>2, <1>5
    <3> QED
      BY <3>1
  <2> QED
    BY <2>1, <2>2
<1> HIDE DEF at
<1>6. Waiting(r) = Waiting(q) \ {m}
  <2>1. \A x \in Waiting(r) : x \in Waiting(q) /\ x # m
    BY <1>1, <1>3 DEF Waiting, Once
  <2>2. ASSUME NEW x \in Waiting(q), x # m PROVE x \in Waiting(r)
    <3>1. PICK k \in 1 .. Len(q) : q[k] = x
      BY DEF Waiting
    <3>2. PICK i \in 1 .. Len(r) : at(i) = k
      BY <3>1, <2>2, <1>1, <1>5
    <3>3. r[i] = x
      BY <3>1, <3>2, <1>3
    <3> QED
      BY <3>3 DEF Waiting
  <2> QED
    BY <2>1, <2>2
<1>7. Once(r)
  BY <1>3, <1>4 DEF Once
<1>8. m \in Waiting(q)
  BY <1>1 DEF Waiting
<1> QED
  BY <1>6, <1>7, <1>8 DEF r

-----------------------------------------------------------------------------
(* The blocks that a downloader waits for.                                 *)

(* RequestBlocks waits for no more blocks than it may.                     *)
LEMMA RequestFew ==
  ASSUME NEW d \in Downloaders, Divided(d), NEW q \in Nat, NEW M \in Nat, q <= M,
         Cardinality(d.pending) <= M
  PROVE  Cardinality(RequestBlocks(d, q).pending) <= M
<1> DEFINE s == d.remaining
           N == Taken(d, q)
           t == SubSeq(s, 1, N)
           P == d.pending
<1>1. /\ s \in Seq(1 .. NumBlocks) /\ P \in SUBSET (1 .. NumBlocks) /\ N \in 0 .. Len(s)
      /\ Requests(d, q) = t /\ RequestBlocks(d, q).pending = P \cup ToSet(Requests(d, q))
  BY TakenIs, RequestsAre, RequestBlocksIs DEF Downloaders
<1>2. \A k \in 0 .. N - 1 : ~(Cardinality(P \cup ToSet(SubSeq(s, 1, k))) >= q)
  BY <1>1, TakenIs
<1>3. IsFiniteSet(1 .. NumBlocks) /\ Len(s) \in Nat
  <2>1. Len(s) \in Nat
    BY <1>1, LenProperties
  <2> QED
    BY <2>1, TransferAssumption, FS_Interval
<1>4. Cardinality(P) <= M
  OBVIOUS
<1> HIDE DEF s, N, P
<1>5. ASSUME NEW k \in 0 .. Len(s)
      PROVE  /\ ToSet(SubSeq(s, 1, k)) = {s[i] : i \in 1 .. k}
             /\ ToSet(SubSeq(s, 1, k)) \subseteq 1 .. NumBlocks
  <2> DEFINE r == SubSeq(s, 1, k)
  <2>1. \A i \in 1 .. Len(s) : s[i] \in 1 .. NumBlocks
    BY <1>1, ElementOfSeq
  <2>2. k \in Nat /\ 1 \in Int /\ k \in Int /\ \A i \in 1 .. k : s[i] \in 1 .. NumBlocks
    BY <2>1, <1>3
  <2>3. /\ r \in Seq(1 .. NumBlocks) /\ Len(r) = IF 1 <= k THEN k - 1 + 1 ELSE 0
        /\ \A i \in 1 .. k - 1 + 1 : r[i] = s[1 + i - 1]
    BY <2>2, SubSeqProperties
  <2> HIDE DEF r
  <2>4. Len(r) = k /\ \A i \in 1 .. k : r[i] = s[i]
    BY <2>2, <2>3
  <2>5. ToSet(r) = {r[i] : i \in 1 .. Len(r)} /\ ToSet(r) \subseteq 1 .. NumBlocks
    BY <2>3, SetOf
  <2> QED
    BY <2>4, <2>5 DEF r
<1>6. CASE N = 0
  <2>1. ToSet(t) = {}
    BY <1>1, <1>5, <1>6
  <2>2. P \cup ToSet(t) = P
    BY <2>1
  <2> QED
    BY <2>2, <1>1, <1>4
<1>7. CASE N # 0
  <2> DEFINE A == P \cup ToSet(SubSeq(s, 1, N - 1))
             b == s[N]
             R == P \cup ToSet(t)
  <2>1. N - 1 \in 0 .. N - 1 /\ N - 1 \in 0 .. Len(s) /\ N \in Nat
        /\ \A i : i \in 1 .. N <=> i \in 1 .. N - 1 \/ i = N
    BY <1>1, <1>3, <1>7
  <2>2. ~(Cardinality(A) >= q) /\ A \subseteq 1 .. NumBlocks
    BY <2>1, <1>1, <1>2, <1>5
  <2>3. R = A \cup {b}
    BY <2>1, <1>1, <1>5
  <2> HIDE DEF A, b
  <2>4. IsFiniteSet(A) /\ Cardinality(A) \in Nat
    BY <2>2, <1>3, FS_Subset, FS_CardinalityType
  <2>5. Cardinality(A \cup {b}) = IF b \in A THEN Cardinality(A) ELSE Cardinality(A) + 1
    BY <2>4, FS_AddElement
  <2>6. Cardinality(A \cup {b}) <= M
    BY <2>2, <2>4, <2>5
  <2> HIDE DEF R
  <2>7. Cardinality(R) <= M
    BY <2>3, <2>6
  <2> QED
    BY <2>7, <1>1 DEF R
<1> QED
  BY <1>6, <1>7

-----------------------------------------------------------------------------
(* What the books say of the messages under way.                           *)

(* A block that is due is under way, in the queue or as a request.         *)
LEMMA DueIsUnderWay ==
  ASSUME NEW q, NEW s, NEW x \in Data, Due(Waiting(q), s, Len(s), x)
  PROVE  /\ x.block \in Blocks(q, x.piece) \cup Blocks(s, x.piece)
         /\ Mentioned(q, x.piece) \/ Mentioned(s, x.piece)
<1>1. x.type = "piece"
  BY DEF Data, BlockMessages
<1>2. CASE x \in Waiting(q)
  <2>1. PICK i \in 1 .. Len(q) : q[i] = x
    BY <1>2 DEF Waiting
  <2>2. Concerns(q[i], x.piece) /\ Mentions(q[i], x.piece) /\ q[i].block = x.block
    BY <1>1, <2>1 DEF Concerns, Mentions
  <2> QED
    BY <2>2 DEF Blocks, Mentioned
<1>3. CASE AskedFor(s, Len(s), x)
  <2>1. PICK i \in 1 .. Len(s) : AsksFor(s[i], x)
    BY <1>3 DEF AskedFor
  <2>2. Concerns(s[i], x.piece) /\ Mentions(s[i], x.piece) /\ s[i].block = x.block
    BY <2>1 DEF Concerns, Mentions, AsksFor
  <2> QED
    BY <2>2 DEF Blocks, Mentioned
<1> QED
  BY <1>2, <1>3 DEF Due

(* A request taken back is a cancel under way.                             *)
LEMMA TakenBackCancels ==
  ASSUME NEW s, NEW x, TakenBack(s, Len(s), x)
  PROVE  Cancelled(s, x.piece) /\ Mentioned(s, x.piece)
<1>1. PICK i \in 1 .. Len(s) : TakesBack(s[i], x)
  BY DEF TakenBack
<1>2. Cancels(s[i], x.piece) /\ Mentions(s[i], x.piece)
  BY <1>1 DEF TakesBack, Cancels, Mentions
<1> QED
  BY <1>2 DEF Cancelled, Mentioned

(* What nobody mentions is not refused.                                    *)
LEMMA UnmentionedUnrefused ==
  ASSUME NEW d, NEW s, d # Absent => ~Mentioned(s, d.piece)
  PROVE  Unrefused(d, s)
  BY DEF Unrefused, Refuses, Mentioned, Mentions

(* A piece downloader asks for no more than the seeder's queue takes.      *)
LEMMA MayRequest ==
  ASSUME TransferTyped, reqq \in {0, maxIn}, maxIn >= DefaultRequestsOut
  PROVE  /\ maxIn \in Nat /\ MaxAllowedRequests(reqq) \in Nat
         /\ MaxAllowedRequests(reqq) <= maxIn
<1>1. maxIn \in Nat \ {0} /\ MaxRequestsOut \in Nat /\ DefaultRequestsOut \in Nat
  BY TransferAssumption DEF TransferTyped
<1> QED
  BY <1>1 DEF MaxAllowedRequests

(* A piece is picked, with the books balanced for none.                    *)
LEMMA StartNextKept ==
  ASSUME TransferTyped, reqq \in {0, maxIn}, maxIn >= DefaultRequestsOut,
         NEW before \in Seq(BlockMessages({"request", "cancel"})),
         NEW timer, StartNext(before, timer),
         UNCHANGED <<maxIn, writer, writing>>,
         Books(Waiting(writer.queue), toSeeder \o before, Absent, maxIn), Counted(writer),
         \A x \in writer.served : x.piece \notin todo,
         \A p \in todo : /\ ~Mentioned(toLeech', p) /\ ~Mentioned(Held, p)
                         /\ ~Mentioned(writer.queue, p) /\ ~Mentioned(toSeeder \o before, p)
  PROVE  InStep'
<1> DEFINE t == toSeeder \o before
           W == Waiting(writer.queue)
           Q == MaxAllowedRequests(reqq)
           S == BlockMessages({"request", "cancel"})
<1>1. maxIn \in Nat /\ Q \in Nat /\ Q <= maxIn
  BY MayRequest
<1>2. t \in Seq(S) /\ todo \subseteq NeededPieces
  BY ConcatProperties DEF TransferTyped
<1>3. Held' = Held /\ writer' = writer /\ maxIn' = maxIn
  BY DEF Held
<1>4. /\ Books(W, t, Absent, maxIn) /\ Counted(writer)
      /\ \A x \in writer.served : x.piece \notin todo
      /\ \A p \in todo : /\ ~Mentioned(toLeech', p) /\ ~Mentioned(Held, p)
                         /\ ~Mentioned(writer.queue, p) /\ ~Mentioned(t, p)
  OBVIOUS
<1>5. CASE todo = {} /\ pd' = Absent /\ todo' = todo /\ toSeeder' = t
  <2>1. Books(W, toSeeder', pd', maxIn)
    BY <1>4, <1>5
  <2>2. Delivered(pd', todo', writer.served, toLeech')
    BY <1>4, <1>5 DEF Delivered
  <2>3. Few(pd', maxIn) /\ \A s : Unrefused(pd', s)
    BY <1>5 DEF Few, Unrefused
  <2> HIDE DEF t, W
  <2> QED
    BY <2>1, <2>2, <2>3, <1>3, <1>4 DEF InStep, W
<1>6. ASSUME NEW p \in todo,
             pd' = RequestBlocks(NewDownloader(p, NumBlocks), Q), todo' = todo \ {p},
             toSeeder' = t \o Messages("request", p, Requests(NewDownloader(p, NumBlocks), Q))
      PROVE  InStep'
  <2> DEFINE d == NewDownloader(p, NumBlocks)
             bs == Requests(d, Q)
             B == ToSet(bs)
  <2>1. d \in Downloaders /\ Divided(d) /\ d.piece = p /\ d.pending = {} /\ p \in NeededPieces
    BY <1>2, NewDownloaderIs
  <2>2. /\ pd' = RequestBlocks(d, Q) /\ toSeeder' = t \o Messages("request", p, bs)
        /\ todo' = todo \ {p}
    BY <1>6
  <2> HIDE DEF d, Q, W, t, S
  <2>3. /\ bs \in Seq(1 .. NumBlocks) /\ IsInjective(bs)
        /\ B \subseteq ToSet(d.remaining) /\ ToSet(d.remaining) \subseteq 1 .. NumBlocks
    BY <2>1, RequestsAre DEF Divided
  <2>4. pd' \in Downloaders /\ pd'.piece = p /\ pd'.pending = {} \cup B
    BY <2>1, <2>2, RequestBlocksIs
  <2>5. pd' # Absent
    BY <2>4, TransferAssumption
  <2>6. Few(pd', maxIn)
    <3>1. Cardinality(d.pending) <= maxIn
      BY <2>1, <1>1, FS_EmptySet
    <3> QED
      BY <3>1, <2>1, <2>2, <1>1, RequestFew DEF Few
  <2>7. Books(W, toSeeder', pd', maxIn)
    <3> HIDE DEF bs, B
    <3>1. pd'.piece \in NeededPieces /\ OnlyFor(W, t, pd') /\ Books(W, t, Absent, maxIn)
      BY <1>4, <2>1, <2>4 DEF Books, OnlyFor
    <3>2. \A x \in Data : x.piece = pd'.piece =>
            ~Due(W, t, Len(t), x) /\ ~TakenBack(t, Len(t), x)
      BY <1>4, <2>4, DueIsUnderWay, TakenBackCancels DEF W
    <3>3. B \in SUBSET (1 .. NumBlocks) /\ B = ToSet(bs) /\ Cardinality(B) <= maxIn
      BY <2>3, <2>4, <2>5, <2>6 DEF Few, B
    <3>4. t \in Seq(BlockMessages({"request", "cancel"}))
      BY <1>2 DEF S
    <3>5. Books(W, t \o Messages("request", pd'.piece, bs), pd', maxIn)
      BY <3>1, <3>2, <3>3, <3>4, <2>3, <2>5, <1>1, BooksAsked
    <3> QED
      BY <3>5, <2>2, <2>4
  <2>8. Delivered(pd', todo', writer.served, toLeech')
    BY <1>4, <2>2, <2>4 DEF Delivered
  <2>9. Unrefused(pd', toLeech') /\ Unrefused(pd', Held) /\ Unrefused(pd', writer.queue)
    BY <1>4, <2>4, UnmentionedUnrefused
  <2> QED
    BY <2>6, <2>7, <2>8, <2>9, <1>3, <1>4 DEF InStep, W
<1>7. \/ todo = {} /\ pd' = Absent /\ todo' = todo /\ toSeeder' = t
      \/ \E p \in todo :
           /\ pd' = RequestBlocks(NewDownloader(p, NumBlocks), Q) /\ todo' = todo \ {p}
           /\ toSeeder' = t \o Messages("request", p, Requests(NewDownloader(p, NumBlocks), Q))
  BY Zenon DEF StartNext, t, Q
<1> QED
  BY <1>5, <1>6, <1>7

LEMMA UnrefusedTail ==
  ASSUME NEW T, NEW s \in Seq(T), s # <<>>, NEW d, Unrefused(d, s)
  PROVE  Unrefused(d, Tail(s))
<1> DEFINE t == Tail(s)
<1>1. /\ Len(s) \in Nat \ {0} /\ Len(t) = Len(s) - 1
      /\ \A i \in 1 .. Len(t) : t[i] = s[i + 1]
  BY HeadTailProperties, LenProperties, EmptySeq
<1> HIDE DEF t
<1>2. \A i \in 1 .. Len(t) : i + 1 \in 1 .. Len(s)
  BY <1>1
<1>3. Unrefused(d, t)
  BY <1>1, <1>2 DEF Unrefused
<1> QED
  BY <1>3 DEF t

LEMMA UnrefusedAppend ==
  ASSUME NEW T, NEW s \in Seq(T), NEW m \in T, NEW d, Unrefused(d, s),
         d # Absent => ~Refuses(m, d.piece)
  PROVE  Unrefused(d, Append(s, m))
<1> DEFINE t == Append(s, m)
<1>1. /\ Len(s) \in Nat /\ Len(t) = Len(s) + 1
      /\ \A i \in 1 .. Len(s) : t[i] = s[i]
      /\ t[Len(s) + 1] = m
  BY AppendProperties, LenProperties
<1> HIDE DEF t
<1>2. \A i \in 1 .. Len(t) : i \in 1 .. Len(s) \/ i = Len(s) + 1
  BY <1>1
<1>3. Unrefused(d, t)
  BY <1>1, <1>2 DEF Unrefused
<1> QED
  BY <1>3 DEF t

-----------------------------------------------------------------------------
(* The first message.                                                      *)

LEMMA GreetsTail ==
  ASSUME NEW T, NEW s \in Seq(T), s # <<>>
  PROVE  /\ Greets(s) <=> Head(s).type = "haveall" \/ Greets(Tail(s))
         /\ First(s) => Head(s).type = "haveall" /\ ~Greets(Tail(s))
<1> DEFINE t == Tail(s)
<1>1. /\ Len(s) \in Nat \ {0} /\ Len(t) = Len(s) - 1 /\ Head(s) = s[1]
      /\ \A i \in 1 .. Len(t) : t[i] = s[i + 1]
  BY HeadTailProperties, LenProperties, EmptySeq
<1> HIDE DEF t
<1>2. 1 \in 1 .. Len(s) /\ \A i \in 1 .. Len(t) : i + 1 \in 1 .. Len(s) /\ i + 1 # 1
  BY <1>1
<1>3. ASSUME NEW i \in 1 .. Len(s) PROVE i = 1 \/ \E j \in 1 .. Len(t) : i = j + 1
  <2>1. CASE i # 1
    <3>1. i - 1 \in 1 .. Len(t) /\ i = (i - 1) + 1
      BY <1>1, <2>1
    <3> QED
      BY <3>1
  <2> QED
    BY <2>1
<1>4. Greets(s) <=> Head(s).type = "haveall" \/ Greets(t)
  <2>1. Head(s).type = "haveall" => Greets(s)
    BY <1>1, <1>2 DEF Greets
  <2>2. Greets(t) => Greets(s)
    BY <1>1, <1>2 DEF Greets
  <2>3. ASSUME Greets(s) PROVE Head(s).type = "haveall" \/ Greets(t)
    <3>1. PICK i \in 1 .. Len(s) : s[i].type = "haveall"
      BY <2>3 DEF Greets
    <3>2. CASE i = 1
      BY <3>1, <3>2, <1>1
    <3>3. CASE \E j \in 1 .. Len(t) : i = j + 1
      BY <3>1, <3>3, <1>1 DEF Greets
    <3> QED
      BY <3>2, <3>3, <1>3
  <2> QED
    BY <2>1, <2>2, <2>3
<1>5. First(s) => Head(s).type = "haveall" /\ ~Greets(t)
  BY <1>1, <1>2 DEF Greets, First
<1> QED
  BY <1>4, <1>5 DEF t

LEMMA GreetsAppend ==
  ASSUME NEW T, NEW s \in Seq(T), NEW m \in T
  PROVE  /\ Greets(Append(s, m)) <=> Greets(s) \/ m.type = "haveall"
         /\ First(s) /\ m.type # "haveall" => First(Append(s, m))
<1> DEFINE t == Append(s, m)
<1>1. /\ Len(s) \in Nat /\ Len(t) = Len(s) + 1 /\ t \in Seq(T)
      /\ \A i \in 1 .. Len(s) : t[i] = s[i] /\ i \in 1 .. Len(t)
      /\ t[Len(s) + 1] = m
  BY AppendProperties, LenProperties
<1> HIDE DEF t
<1>2. \A i \in 1 .. Len(t) : i \in 1 .. Len(s) \/ i = Len(s) + 1
  BY <1>1
<1>3. Len(s) + 1 \in 1 .. Len(t)
  BY <1>1
<1>4. Greets(t) <=> Greets(s) \/ m.type = "haveall"
  BY <1>1, <1>2, <1>3 DEF Greets
<1>5. ASSUME First(s), m.type # "haveall" PROVE First(t)
  <2>1. Len(s) # 0 /\ Len(t) # 0
    BY <1>1, <1>5, EmptySeq DEF First
  <2>2. t # <<>> /\ Len(s) + 1 # 1
    BY <2>1, <1>1
  <2> QED
    BY <2>2, <1>1, <1>2, <1>5 DEF First
<1> QED
  BY <1>4, <1>5 DEF t

LEMMA GreetsOne ==
  ASSUME NEW m
  PROVE  /\ Greets(<<m>>) <=> m.type = "haveall"
         /\ First(<<m>>) <=> m.type = "haveall"
         /\ ~Greets(<<>>)
<1> DEFINE s == <<m>>
<1>1. Len(s) = 1 /\ s[1] = m /\ 1 .. 1 = {1} /\ s # <<>>
  OBVIOUS
<1> HIDE DEF s
<1>2. /\ Greets(s) <=> m.type = "haveall"
      /\ First(s) <=> m.type = "haveall"
  BY <1>1 DEF Greets, First
<1>3. ~Greets(<<>>)
  BY DEF Greets
<1> QED
  BY <1>2, <1>3 DEF s

(* Messages that have been waited for: the seeder's greeting has come.     *)
LEMMA QuietOnceAsked ==
  ASSUME Opening, pd # Absent \/ toSeeder # <<>>
  PROVE  Quiet
  BY DEF Opening

(* A message received that is not HaveAll.                                 *)
LEMMA ReceiveOpening ==
  ASSUME TransferTyped, Opening, toLeech # <<>>, Head(toLeech).type # "haveall",
         toLeech' = Tail(toLeech), UNCHANGED <<writer, writing>>
  PROVE  Quiet'
<1>1. toLeech \in Seq(Downward)
  BY DEF TransferTyped
<1>2. ~First(toLeech) /\ (Greets(Tail(toLeech)) => Greets(toLeech))
  BY <1>1, GreetsTail
<1>3. Quiet
  BY <1>2 DEF Opening
<1>4. ~Greets(toLeech')
  BY <1>2, <1>3 DEF Quiet
<1>5. Held' = Held
  BY DEF Held
<1> QED
  BY <1>3, <1>4, <1>5 DEF Quiet

-----------------------------------------------------------------------------
(* Steps of the downloader.                                                *)

LEMMA PipelineJoined ==
  ASSUME TransferTyped, NEW p
  PROVE  Joined(Pipeline, toLeech, Held, writer.queue, toSeeder, p)
<1>1. /\ toLeech \in Seq(AllMessages) /\ Held \in Seq(AllMessages)
      /\ writer.queue \in Seq(AllMessages) /\ toSeeder \in Seq(AllMessages)
      /\ Pipeline = toLeech \o Held \o writer.queue \o toSeeder
  BY PartsAre
<1> QED
  BY <1>1, FourAre

LEMMA ReceivedJoined ==
  ASSUME TransferTyped, toLeech # <<>>, NEW p
  PROVE  Joined(Tail(toLeech) \o Held \o writer.queue \o toSeeder,
                Tail(toLeech), Held, writer.queue, toSeeder, p)
<1>1. Tail(toLeech) \in Seq(AllMessages)
  <2>1. Seq(Downward) \subseteq Seq(AllMessages)
    BY SeqMonotonic DEF AllMessages
  <2>2. Tail(toLeech) \in Seq(Downward)
    BY AfterReceive, Zenon
  <2> QED
    BY <2>1, <2>2
<1>2. /\ Held \in Seq(AllMessages) /\ writer.queue \in Seq(AllMessages)
      /\ toSeeder \in Seq(AllMessages)
  BY PartsAre
<1> QED
  BY <1>1, <1>2, FourAre

(* A piece that is to be picked is not mentioned anywhere.                 *)
LEMMA TodoUnmentioned ==
  ASSUME TransferInv, NEW p \in todo
  PROVE  /\ ~Mentioned(toLeech, p) /\ ~Mentioned(Held, p)
         /\ ~Mentioned(writer.queue, p) /\ ~Mentioned(toSeeder, p)
<1>1. TransferTyped /\ ~Mentioned(Pipeline, p)
  BY DEF TransferInv, Sound
<1>2. Joined(Pipeline, toLeech, Held, writer.queue, toSeeder, p)
  BY <1>1, PipelineJoined
<1> QED
  BY <1>1, <1>2, Zenon DEF Joined

(* What is due of the piece being downloaded is waited for.                *)
LEMMA DueIsPending ==
  ASSUME TransferInv, pd # Absent
  PROVE  /\ \A x \in Data :
              x.piece = pd.piece /\ Due(Waiting(writer.queue), toSeeder, Len(toSeeder), x) =>
                x.block \in pd.pending
         /\ \A x \in Data : x.piece = pd.piece => ~TakenBack(toSeeder, Len(toSeeder), x)
<1> DEFINE p == pd.piece
<1>1. TransferTyped /\ Blocks(Pipeline, p) = pd.pending /\ ~Cancelled(Pipeline, p)
  BY DEF TransferInv, Sound
<1>2. Joined(Pipeline, toLeech, Held, writer.queue, toSeeder, p)
  BY <1>1, PipelineJoined
<1>3. /\ Blocks(writer.queue, p) \cup Blocks(toSeeder, p) \subseteq pd.pending
      /\ ~Cancelled(toSeeder, p)
  BY <1>1, <1>2 DEF Joined
<1>4. \A x \in Data : x.piece = p /\ Due(Waiting(writer.queue), toSeeder, Len(toSeeder), x) =>
                        x.block \in Blocks(writer.queue, p) \cup Blocks(toSeeder, p)
  BY DueIsUnderWay
<1>5. \A x \in Data : x.piece = p => ~TakenBack(toSeeder, Len(toSeeder), x)
  BY <1>3, TakenBackCancels
<1> HIDE DEF p
<1>6. \A x \in Data :
        x.piece = p /\ Due(Waiting(writer.queue), toSeeder, Len(toSeeder), x) => x.block \in pd.pending
  BY <1>3, <1>4
<1> QED
  BY <1>5, <1>6 DEF p

LEMMA ReceiveHaveAllLimit ==
  ASSUME TransferInv, LimitInv, ReceiveHaveAll
  PROVE  LimitInv'
<1>1. /\ TransferTyped /\ toLeech # <<>> /\ toLeech' = Tail(toLeech)
      /\ Head(toLeech).type = "haveall" /\ StartNext(<<>>, snub)
      /\ UNCHANGED <<maxIn, reqq, writer, writing>>
      /\ toLeech \in Seq(Downward) /\ toSeeder \in Seq(BlockMessages({"request", "cancel"}))
  BY DEF TransferInv, TransferTyped, ReceiveHaveAll, Receive
<1>2. Greets(toLeech)
  BY <1>1, GreetsTail
<1>3. First(toLeech) /\ pd = Absent /\ ~Greets(Held) /\ ~Greets(writer.queue)
  BY <1>1, <1>2 DEF LimitInv, Opening, Quiet
<1>4. Quiet'
  <2>1. ~Greets(toLeech')
    BY <1>1, <1>3, GreetsTail
  <2>2. Held' = Held
    BY <1>1 DEF Held
  <2> QED
    BY <1>1, <1>3, <2>1, <2>2 DEF Quiet
<1>5. ASSUME maxIn >= DefaultRequestsOut PROVE InStep'
  <2>1. InStep /\ reqq \in {0, maxIn}
    BY <1>5 DEF LimitInv
  <2>2. <<>> \in Seq(BlockMessages({"request", "cancel"})) /\ toSeeder \o <<>> = toSeeder
    BY <1>1, EmptySeq, ConcatEmptySeq
  <2>3. Books(Waiting(writer.queue), toSeeder \o <<>>, Absent, maxIn)
    BY <2>1, <2>2, <1>3 DEF InStep
  <2>4. Counted(writer) /\ \A x \in writer.served : x.piece \notin todo
    BY <2>1 DEF InStep, Delivered
  <2>5. \A p \in todo : /\ ~Mentioned(toLeech', p) /\ ~Mentioned(Held, p)
                        /\ ~Mentioned(writer.queue, p) /\ ~Mentioned(toSeeder \o <<>>, p)
    <3>1. \A p : Mentioned(Tail(toLeech), p) => Mentioned(toLeech, p)
      <4>1. Downward \subseteq AllMessages
        BY DEF AllMessages
      <4> QED
        BY <4>1, <1>1, TailIs
    <3> QED
      BY <3>1, <1>1, <2>2, TodoUnmentioned
  <2> QED
    BY <1>1, <1>5, <2>1, <2>2, <2>3, <2>4, <2>5, StartNextKept
<1> QED
  BY <1>1, <1>4, <1>5 DEF LimitInv, Opening

(* A message received that brings nothing of the piece downloaded.         *)
LEMMA ReceiveKept ==
  ASSUME TransferTyped, InStep, toLeech # <<>>, toLeech' = Tail(toLeech),
         pd # Absent => BlockOf(Head(toLeech), pd.piece) = {},
         UNCHANGED <<maxIn, todo, pd, toSeeder, writer, writing>>
  PROVE  InStep'
<1>1. toLeech \in Seq(Downward) /\ Downward \subseteq AllMessages
  BY DEF TransferTyped, AllMessages
<1>2. pd # Absent => Blocks(Tail(toLeech), pd.piece) = Blocks(toLeech, pd.piece)
  <2>1. Blocks(toLeech, pd.piece) = Blocks(Tail(toLeech), pd.piece) \cup BlockOf(Head(toLeech), pd.piece)
    BY <1>1, TailIs
  <2> QED
    BY <2>1
<1>3. Delivered(pd, todo, writer.served, toLeech')
  BY <1>2 DEF InStep, Delivered
<1>4. Unrefused(pd, toLeech')
  <2>1. Unrefused(pd, Tail(toLeech))
    BY <1>1, UnrefusedTail DEF InStep
  <2> QED
    BY <2>1
<1>5. Held' = Held
  BY DEF Held
<1> QED
  BY <1>3, <1>4, <1>5 DEF InStep

LEMMA ReceiveHandshakeLimit ==
  ASSUME TransferInv, LimitInv, ReceiveHandshake
  PROVE  LimitInv'
<1>1. /\ TransferTyped /\ toLeech # <<>> /\ toLeech' = Tail(toLeech)
      /\ Head(toLeech).type = "handshake" /\ reqq' = maxIn
      /\ UNCHANGED <<maxIn, todo, pd, toSeeder, writer, writing>>
  BY DEF TransferInv, ReceiveHandshake, Receive
<1>2. Quiet'
  BY <1>1, ReceiveOpening DEF LimitInv
<1>3. \A p : BlockOf(Head(toLeech), p) = {}
  BY <1>1 DEF BlockOf, Concerns
<1>4. InStep => InStep'
  BY <1>1, <1>3, ReceiveKept
<1> QED
  BY <1>1, <1>2, <1>4 DEF LimitInv, Opening

LEMMA ReceiveOtherLimit ==
  ASSUME TransferInv, LimitInv, ReceiveOther
  PROVE  LimitInv'
<1>1. /\ TransferTyped /\ toLeech # <<>> /\ toLeech' = Tail(toLeech)
      /\ Head(toLeech).type \in {"piece", "reject"} /\ ~IsOurs(Head(toLeech))
      /\ UNCHANGED <<maxIn, reqq, todo, pd, toSeeder, writer, writing>>
  BY DEF TransferInv, ReceiveOther, Receive
<1>2. Quiet'
  BY <1>1, ReceiveOpening DEF LimitInv
<1>3. pd # Absent => BlockOf(Head(toLeech), pd.piece) = {}
  BY <1>1 DEF BlockOf, Concerns, IsOurs
<1>4. InStep => InStep'
  BY <1>1, <1>3, ReceiveKept
<1> QED
  BY <1>1, <1>2, <1>4 DEF LimitInv, Opening

(* The seeder rejects nothing of the piece if it takes enough requests.    *)
LEMMA ReceiveRejectLimit ==
  ASSUME TransferInv, LimitInv, ReceiveReject
  PROVE  LimitInv'
<1>1. /\ TransferTyped /\ toLeech # <<>> /\ toLeech' = Tail(toLeech)
      /\ Head(toLeech).type = "reject" /\ IsOurs(Head(toLeech))
      /\ UNCHANGED <<maxIn, reqq, todo, toSeeder, writer, writing>>
  BY DEF TransferInv, ReceiveReject, Receive
<1>2. Quiet'
  BY <1>1, ReceiveOpening DEF LimitInv
<1>3. ~InStep
  <2>1. toLeech \in Seq(Downward)
    BY <1>1 DEF TransferTyped
  <2>2. Head(toLeech) = toLeech[1] /\ 1 \in 1 .. Len(toLeech)
    BY <2>1, <1>1, HeadTailProperties, LenProperties, EmptySeq
  <2>3. pd # Absent /\ Refuses(toLeech[1], pd.piece)
    BY <2>2, <1>1 DEF IsOurs, Refuses
  <2> QED
    BY <2>2, <2>3 DEF InStep, Unrefused
<1> QED
  BY <1>1, <1>2, <1>3 DEF LimitInv, Opening

(* A block has arrived, and more of the piece are requested.               *)
LEMMA ReceivePieceKept ==
  ASSUME TransferInv, LimitInv, maxIn >= DefaultRequestsOut,
         Receive({"piece", "reject"}), IsOurs(Head(toLeech)), Head(toLeech).type = "piece",
         NEW got, got = GotBlock(pd, Head(toLeech).block),
         NEW q, q = MaxAllowedRequests(reqq), pd' = RequestBlocks(got, q), todo' = todo,
         toSeeder' = toSeeder \o Messages("request", pd.piece, Requests(got, q)),
         UNCHANGED <<maxIn, writer, writing>>
  PROVE  InStep'
<1> DEFINE m == Head(toLeech)
           W == Waiting(writer.queue)
           bs == Requests(got, q)
           p == pd.piece
           B == pd'.pending
<1>1. /\ TransferTyped /\ InStep /\ reqq \in {0, maxIn} /\ pd # Absent /\ m.piece = p
      /\ toLeech # <<>> /\ toLeech' = Tail(toLeech)
  BY DEF TransferInv, LimitInv, Receive, IsOurs
<1>2. /\ pd \in Downloaders /\ Divided(pd) /\ m.block \in pd.pending /\ p \in NeededPieces
  BY OursIsPending DEF Downloaders
<1>3. maxIn \in Nat /\ q \in Nat /\ q <= maxIn
  BY <1>1, MayRequest
<1>4. /\ got \in Downloaders /\ Divided(got) /\ got.piece = p
      /\ got.pending = pd.pending \ {m.block} /\ got.done = pd.done \cup {m.block}
      /\ got.remaining = pd.remaining
  BY <1>2, GotBlockIs
<1>5. /\ pd' \in Downloaders /\ pd'.piece = p /\ pd'.done = got.done
      /\ B = got.pending \cup ToSet(bs)
  BY <1>4, RequestBlocksIs
<1>6. /\ bs \in Seq(1 .. NumBlocks) /\ IsInjective(bs)
      /\ ToSet(bs) \subseteq ToSet(pd.remaining)
  BY <1>4, RequestsAre
<1>7. pd' # Absent
  BY <1>5, TransferAssumption
<1> HIDE DEF m, W, bs, p
<1>8. Few(pd', maxIn)
  <2>1. IsFiniteSet(pd.pending) /\ got.pending \subseteq pd.pending
    <3>1. IsFiniteSet(1 .. NumBlocks) /\ pd.pending \subseteq 1 .. NumBlocks
      BY <1>2, TransferAssumption, FS_Interval DEF Downloaders
    <3> QED
      BY <3>1, <1>4, FS_Subset
  <2>2. /\ Cardinality(got.pending) <= Cardinality(pd.pending)
        /\ Cardinality(got.pending) \in Nat /\ Cardinality(pd.pending) \in Nat
    BY <2>1, FS_Subset, FS_CardinalityType
  <2>3. Cardinality(got.pending) <= maxIn
    BY <2>2, <1>1, <1>3 DEF InStep, Few
  <2>4. Cardinality(RequestBlocks(got, q).pending) <= maxIn
    BY <2>3, <1>3, <1>4, RequestFew
  <2> QED
    BY <2>4 DEF Few
<1>9. Books(W, toSeeder', pd', maxIn)
  <2>1. toSeeder \in Seq(BlockMessages({"request", "cancel"}))
    BY <1>1 DEF TransferTyped
  <2>2. Books(W, toSeeder, pd, maxIn)
    BY <1>1 DEF InStep, W
  <2>3. OnlyFor(W, toSeeder, pd')
    BY <2>2, <1>1, <1>5, <1>7 DEF Books, OnlyFor, p
  <2>4. \A x \in Data : x.piece = pd'.piece /\ x.block \in ToSet(bs) =>
          ~Due(W, toSeeder, Len(toSeeder), x) /\ ~TakenBack(toSeeder, Len(toSeeder), x)
    <3>1. ToSet(bs) \cap pd.pending = {}
      BY <1>2, <1>6 DEF Divided
    <3> QED
      BY <3>1, <1>1, <1>5, DueIsPending DEF W, p
  <2>5. ASSUME NEW x \in Data, x.piece = pd'.piece, Due(W, toSeeder, Len(toSeeder), x)
        PROVE  x.block \in B
    <3> DEFINE s == Tail(toLeech) \o Held \o writer.queue \o toSeeder
    <3>1. Blocks(s, p) = pd.pending \ {m.block}
      BY OursIsPending DEF p, m
    <3>2. Joined(s, Tail(toLeech), Held, writer.queue, toSeeder, p)
      BY <1>1, ReceivedJoined
    <3> HIDE DEF s
    <3>3. Blocks(writer.queue, p) \cup Blocks(toSeeder, p) \subseteq got.pending
      BY <3>1, <3>2, <1>4 DEF Joined
    <3>4. x.block \in Blocks(writer.queue, p) \cup Blocks(toSeeder, p)
      BY <2>5, <1>5, DueIsUnderWay DEF W
    <3> QED
      BY <3>3, <3>4, <1>5
  <2>6. B \in SUBSET (1 .. NumBlocks) /\ ToSet(bs) \subseteq B /\ Cardinality(B) <= maxIn
    BY <1>5, <1>7, <1>8 DEF Downloaders, Few
  <2>7. pd'.piece \in NeededPieces
    BY <1>2, <1>5
  <2> DEFINE d == pd'
             C == d.pending
  <2>8. /\ d # Absent /\ d.piece \in NeededPieces /\ OnlyFor(W, toSeeder, d)
        /\ C \in SUBSET (1 .. NumBlocks) /\ ToSet(bs) \subseteq C /\ Cardinality(C) <= maxIn
        /\ \A x \in Data : x.piece = d.piece /\ x.block \in ToSet(bs) =>
             ~Due(W, toSeeder, Len(toSeeder), x) /\ ~TakenBack(toSeeder, Len(toSeeder), x)
        /\ \A x \in Data : x.piece = d.piece /\ Due(W, toSeeder, Len(toSeeder), x) => x.block \in C
    BY <2>3, <2>4, <2>5, <2>6, <2>7, <1>7
  <2> HIDE DEF d, C
  <2>9. Books(W, toSeeder \o Messages("request", d.piece, bs), d, maxIn)
    BY <2>1, <2>2, <2>8, <1>3, <1>6, BooksAsked
  <2> QED
    BY <2>9, <1>5 DEF d, bs, p
<1>10. Delivered(pd', todo', writer.served, toLeech')
  <2>1. /\ toLeech \in Seq(Downward) /\ Downward \subseteq AllMessages
    BY <1>1 DEF TransferTyped, AllMessages
  <2>2. Blocks(toLeech, p) = Blocks(Tail(toLeech), p) \cup BlockOf(Head(toLeech), p)
    BY <2>1, <1>1, TailIs
  <2>3. BlockOf(Head(toLeech), p) \subseteq {m.block}
    BY DEF BlockOf, m
  <2>4. pd.done \cup Blocks(toLeech, p) \subseteq pd'.done \cup Blocks(toLeech', p)
    BY <2>2, <2>3, <1>1, <1>4, <1>5
  <2> QED
    BY <2>4, <1>1, <1>5 DEF InStep, Delivered, p
<1>11. Unrefused(pd', toLeech') /\ Unrefused(pd', Held) /\ Unrefused(pd', writer.queue)
  <2>1. toLeech \in Seq(Downward)
    BY <1>1 DEF TransferTyped
  <2>2. Unrefused(pd, Tail(toLeech))
    BY <2>1, <1>1, UnrefusedTail DEF InStep
  <2>3. Unrefused(pd, toLeech') /\ Unrefused(pd, Held) /\ Unrefused(pd, writer.queue)
    BY <2>2, <1>1 DEF InStep
  <2> QED
    BY <2>3, <1>1, <1>5 DEF Unrefused, p
<1>12. Held' = Held
  BY DEF Held
<1> QED
  BY <1>1, <1>8, <1>9, <1>10, <1>11, <1>12 DEF InStep, W

LEMMA ReceivePieceLimit ==
  ASSUME TransferInv, LimitInv, ReceivePiece
  PROVE  LimitInv'
<1> DEFINE m == Head(toLeech)
           got == GotBlock(pd, m.block)
           q == MaxAllowedRequests(reqq)
           W == Waiting(writer.queue)
<1>1. /\ TransferTyped /\ toLeech # <<>> /\ toLeech' = Tail(toLeech) /\ m.type = "piece"
      /\ Receive({"piece", "reject"}) /\ IsOurs(m) /\ pd # Absent /\ m.piece = pd.piece
      /\ UNCHANGED <<maxIn, reqq, writer, writing>>
  BY DEF TransferInv, ReceivePiece, Receive, IsOurs
<1>2. \/ Done(got, NumBlocks) /\ StartNext(<<>>, StopSnubTimer(snub))
      \/ /\ pd' = RequestBlocks(got, q) /\ todo' = todo
         /\ toSeeder' = toSeeder \o Messages("request", pd.piece, Requests(got, q))
  BY Zenon DEF ReceivePiece
<1>3. Quiet'
  BY <1>1, ReceiveOpening DEF LimitInv
<1>4. pd \in Downloaders /\ Divided(pd) /\ m.block \in pd.pending
  BY <1>1, OursIsPending
<1>5. /\ got \in Downloaders /\ Divided(got)
      /\ got.pending = pd.pending \ {m.block} /\ got.done = pd.done \cup {m.block}
  BY <1>4, GotBlockIs
<1> HIDE DEF got, q, W, m
<1>6. ASSUME maxIn >= DefaultRequestsOut, Done(got, NumBlocks), StartNext(<<>>, StopSnubTimer(snub))
      PROVE InStep'
  <2>1. InStep /\ reqq \in {0, maxIn}
    BY <1>6 DEF LimitInv
  <2>2. /\ toSeeder \in Seq(BlockMessages({"request", "cancel"}))
        /\ <<>> \in Seq(BlockMessages({"request", "cancel"})) /\ toSeeder \o <<>> = toSeeder
    BY <1>1, EmptySeq, ConcatEmptySeq DEF TransferTyped
  <2>3. got.pending = {}
    <3>1. IsFiniteSet(1 .. NumBlocks) /\ Cardinality(1 .. NumBlocks) = NumBlocks
      BY TransferAssumption, FS_Interval
    <3>2. got.done \in SUBSET (1 .. NumBlocks) /\ Cardinality(got.done) = NumBlocks
      BY <1>5, <1>6 DEF Downloaders, Done
    <3>3. got.done = 1 .. NumBlocks
      BY <3>1, <3>2, FS_Subset
    <3> QED
      BY <3>3, <1>5 DEF Divided, Downloaders
  <2>4. \A x \in Data :
          ~(x.piece = pd.piece /\ Due(W, toSeeder, Len(toSeeder), x))
    <3> SUFFICES ASSUME NEW x \in Data, x.piece = pd.piece, Due(W, toSeeder, Len(toSeeder), x)
                 PROVE  FALSE
      OBVIOUS
    <3> DEFINE p == pd.piece
               s == Tail(toLeech) \o Held \o writer.queue \o toSeeder
    <3>1. Blocks(s, p) = pd.pending \ {m.block}
      BY <1>1, OursIsPending DEF m
    <3>2. Joined(s, Tail(toLeech), Held, writer.queue, toSeeder, p)
      BY <1>1, ReceivedJoined
    <3>3. x.block \in Blocks(writer.queue, p) \cup Blocks(toSeeder, p)
      BY DueIsUnderWay DEF W
    <3> HIDE DEF s, p
    <3> QED
      BY <3>1, <3>2, <3>3, <1>5, <2>3 DEF Joined
  <2>5. Books(W, toSeeder \o <<>>, Absent, maxIn)
    <3>1. Books(W, toSeeder, pd, maxIn) /\ maxIn \in Nat
      BY <2>1, <1>1, <1>6, MayRequest DEF InStep, W
    <3>2. \A i \in 1 .. Len(<<>>) : <<>>[i].type = "cancel"
      OBVIOUS
    <3> QED
      BY <2>2, <2>4, <3>1, <3>2, BooksClosed
  <2>6. Counted(writer) /\ \A x \in writer.served : x.piece \notin todo
    BY <2>1 DEF InStep, Delivered
  <2>7. \A r \in todo : /\ ~Mentioned(toLeech', r) /\ ~Mentioned(Held, r)
                        /\ ~Mentioned(writer.queue, r) /\ ~Mentioned(toSeeder \o <<>>, r)
    <3>1. \A r : Mentioned(Tail(toLeech), r) => Mentioned(toLeech, r)
      <4>1. toLeech \in Seq(Downward) /\ Downward \subseteq AllMessages
        BY <1>1 DEF TransferTyped, AllMessages
      <4> QED
        BY <4>1, <1>1, TailIs
    <3> QED
      BY <3>1, <1>1, <2>2, TodoUnmentioned
  <2> QED
    BY <1>1, <1>6, <2>1, <2>2, <2>5, <2>6, <2>7, StartNextKept DEF W
<1>7. ASSUME maxIn >= DefaultRequestsOut, pd' = RequestBlocks(got, q), todo' = todo,
             toSeeder' = toSeeder \o Messages("request", pd.piece, Requests(got, q))
      PROVE  InStep'
  BY <1>1, <1>7, ReceivePieceKept DEF got, q, m
<1> QED
  BY <1>1, <1>2, <1>3, <1>6, <1>7 DEF LimitInv, Opening

(* The requests for a piece that has come from another peer are taken back. *)
LEMMA DoneElsewhereLimit ==
  ASSUME TransferInv, LimitInv, DoneElsewhere
  PROVE  LimitInv'
<1> DEFINE S == BlockMessages({"request", "cancel"})
           W == Waiting(writer.queue)
           p == pd.piece
<1>1. /\ TransferTyped /\ pd # Absent /\ pd \in Downloaders /\ p \notin todo /\ p \in NeededPieces
      /\ UNCHANGED <<maxIn, reqq, writer, writing, toLeech>>
      /\ toSeeder \in Seq(S) /\ pd.pending \subseteq 1 .. NumBlocks
  BY DEF TransferInv, TransferTyped, DoneElsewhere, Sound, Downloaders
<1>2. Quiet'
  <2>1. Quiet /\ Held' = Held
    BY <1>1, QuietOnceAsked DEF LimitInv, Held
  <2> QED
    BY <2>1, <1>1 DEF Quiet
<1>3. PICK cancels \in SetToSeqs(pd.pending) :
        StartNext(Messages("cancel", p, cancels), snub)
  BY DEF DoneElsewhere
<1>4. cancels \in Seq(1 .. NumBlocks) /\ \A b \in pd.pending : \E i \in 1 .. Len(cancels) : cancels[i] = b
  <2> DEFINE P == pd.pending
             n == Cardinality(P)
  <2>1. P \in SUBSET (1 .. NumBlocks) /\ IsFiniteSet(P)
    <3>1. IsFiniteSet(1 .. NumBlocks)
      BY TransferAssumption, FS_Interval
    <3> QED
      BY <3>1, <1>1, FS_Subset
  <2>2. n \in Nat
    BY <2>1, FS_CardinalityType
  <2>3. cancels \in [1 .. n -> P] /\ \A i, j \in 1 .. n : cancels[i] = cancels[j] => i = j
    BY <1>3 DEF SetToSeqs, IsInjective
  <2> HIDE DEF P, n
  <2>4. cancels \in Seq(1 .. NumBlocks) /\ DOMAIN cancels = 1 .. n
    <3>1. cancels \in [1 .. n -> 1 .. NumBlocks]
      BY <2>1, <2>3
    <3> QED
      BY <3>1, <2>2, SeqDef
  <2>5. Len(cancels) = n
    BY <2>2, <2>4, LenProperties
  <2>6. \A b \in P : \E i \in 1 .. n : cancels[i] = b
    <3>1. cancels \in Injection(1 .. n, P)
      BY <2>3 DEF Injection, IsInjective
    <3>2. IsFiniteSet(1 .. n) /\ Cardinality(1 .. n) = n
      BY <2>2, FS_Interval
    <3>3. cancels \in Surjection(1 .. n, P)
      BY <3>1, <3>2, <2>1, FS_Injection DEF n
    <3> QED
      BY <3>3 DEF Surjection
  <2> QED
    BY <2>4, <2>5, <2>6 DEF P
<1> DEFINE before == Messages("cancel", p, cancels)
<1>5. before \in Seq(S) /\ StartNext(before, snub) /\ \A r : Mentioned(before, r) => r = p
  BY <1>1, <1>3, <1>4, MessagesAre
<1>6. /\ Len(before) = Len(cancels)
      /\ \A i \in 1 .. Len(cancels) :
           before[i].type = "cancel" /\ before[i].piece = p /\ before[i].block = cancels[i]
  <2>1. before = [i \in 1 .. Len(cancels) |-> [type |-> "cancel", piece |-> p, block |-> cancels[i]]]
    BY DEF Messages, BlockMessage
  <2>2. Len(before) = Len(cancels)
    <3>1. DOMAIN before = 1 .. Len(before) /\ Len(before) \in Nat /\ Len(cancels) \in Nat
      BY <1>4, <1>5, LenProperties
    <3>2. DOMAIN before = 1 .. Len(cancels)
      BY <2>1
    <3> QED
      BY <3>1, <3>2
  <2> HIDE DEF before
  <2>3. ASSUME NEW i \in 1 .. Len(cancels)
        PROVE  before[i].type = "cancel" /\ before[i].piece = p /\ before[i].block = cancels[i]
    <3>1. before[i] = [type |-> "cancel", piece |-> p, block |-> cancels[i]]
      BY <2>1
    <3> QED
      BY <3>1
  <2> QED
    BY <2>2, <2>3
<1> HIDE DEF before, S, W
<1>7. ASSUME maxIn >= DefaultRequestsOut PROVE InStep'
  <2>1. InStep /\ reqq \in {0, maxIn} /\ maxIn \in Nat
    BY <1>1, <1>7, MayRequest DEF LimitInv
  <2>2. Books(W, toSeeder, pd, maxIn)
    BY <2>1 DEF InStep, W
  <2>3. \A i \in 1 .. Len(before) : before[i].type = "cancel"
    BY <1>6
  <2>4. ASSUME NEW x \in Data, Due(W, toSeeder, Len(toSeeder), x), x.piece = p
        PROVE  TakenBack(before, Len(before), x)
    <3>1. x.block \in pd.pending
      BY <2>4, <1>1, DueIsPending DEF W
    <3>2. PICK i \in 1 .. Len(cancels) : cancels[i] = x.block
      BY <3>1, <1>4
    <3>3. TakesBack(before[i], x)
      BY <2>4, <3>2, <1>6 DEF TakesBack
    <3> QED
      BY <3>2, <3>3, <1>6 DEF TakenBack
  <2>5. Books(W, toSeeder \o before, Absent, maxIn)
    BY <2>1, <2>2, <2>3, <2>4, <1>1, <1>5, BooksClosed
  <2>6. Counted(writer) /\ \A x \in writer.served : x.piece \notin todo
    BY <2>1 DEF InStep, Delivered
  <2>7. \A r \in todo : /\ ~Mentioned(toLeech', r) /\ ~Mentioned(Held, r)
                        /\ ~Mentioned(writer.queue, r) /\ ~Mentioned(toSeeder \o before, r)
    <3>1. Seq(S) \subseteq Seq(AllMessages)
      BY SeqMonotonic DEF S, AllMessages
    <3>2. toSeeder \in Seq(AllMessages) /\ before \in Seq(AllMessages)
      BY <3>1, <1>1, <1>5
    <3>3. \A r : Mentioned(toSeeder \o before, r) <=> Mentioned(toSeeder, r) \/ Mentioned(before, r)
      BY <3>2, ConcatIs
    <3> QED
      BY <3>3, <1>1, <1>5, TodoUnmentioned
  <2> QED
    BY <1>1, <1>5, <1>7, <2>1, <2>5, <2>6, <2>7, StartNextKept DEF W, S
<1> QED
  BY <1>1, <1>2, <1>7 DEF LimitInv, Opening

-----------------------------------------------------------------------------
(* Steps of the seeder.                                                    *)

(* Of the messages the seeder sends, the blocks are those of type piece.   *)
LEMMA DataIs ==
  ASSUME NEW m \in Downward
  PROVE  m.type = "piece" <=> m \in Data
<1>1. \A x \in Data : x.type = "piece"
  BY DEF Data, BlockMessages
<1>2. m.type = "piece" => m \in Data
  BY DEF Downward, Hello, Data, BlockMessages
<1> QED
  BY <1>1, <1>2

(* The block that a request or a cancel is about.                          *)
LEMMA SubjectIs ==
  ASSUME NEW m \in BlockMessages({"request", "cancel"})
  PROVE  LET x == [m EXCEPT !.type = "piece"]
         IN /\ x \in Data /\ x \in Downward /\ x.type = "piece" /\ x.piece = m.piece
            /\ m.type = "request" => AsksFor(m, x)
            /\ m.type = "cancel" => TakesBack(m, x)
<1> DEFINE x == [m EXCEPT !.type = "piece"]
<1>1. /\ x = [type |-> "piece", piece |-> m.piece, block |-> m.block]
      /\ m.piece \in NeededPieces /\ m.block \in 1 .. NumBlocks
  BY DEF BlockMessages
<1> HIDE DEF x
<1>2. x \in Data /\ x \in Downward
  BY <1>1 DEF Data, Downward, BlockMessages
<1>3. x.type = "piece" /\ x.piece = m.piece /\ x.block = m.block
  BY <1>1
<1> QED
  BY <1>2, <1>3 DEF x, AsksFor, TakesBack

(* The blocks that wait and the first one asked for are of the same piece, *)
(* so that the queue has room for it.                                      *)
LEMMA RoomForRequest ==
  ASSUME NEW T, NEW q \in Seq(T), NEW s \in Seq(BlockMessages({"request", "cancel"})), s # <<>>,
         NEW d, NEW M \in Nat, Books(Waiting(q), s, d, M), NEW x \in Data, AsksFor(Head(s), x)
  PROVE  x \notin Waiting(q) /\ Cardinality(Waiting(q)) < M
<1> DEFINE W == Waiting(q)
           D == OfPiece(W, s, x.piece)
<1>1. /\ 1 \in 1 .. Len(s) /\ 1 - 1 = 0 /\ Head(s) = s[1] /\ Len(s) \in Nat
  BY HeadTailProperties, LenProperties, EmptySeq
<1>2. AsksFor(s[1], x) /\ AskedOnce(W, s) /\ Cleared(W, s) /\ WithinLimit(W, s, M)
  BY <1>1 DEF Books
<1>3. \A y : ~TakenBack(s, 0, y)
  BY DEF TakenBack
<1>4. x \notin W
  BY <1>1, <1>2 DEF AskedOnce, Due
<1>5. \A y \in Data : y \in W => y.piece = x.piece
  BY <1>1, <1>2, <1>3 DEF Cleared, Due
<1>6. W \in SUBSET Data
  BY DEF Waiting
<1>7. W \cup {x} \in SUBSET D
  <2>1. AskedFor(s, Len(s), x)
    BY <1>1, <1>2 DEF AskedFor
  <2> HIDE DEF W
  <2> QED
    BY <2>1, <1>5, <1>6 DEF OfPiece, Due
<1>8. x.piece \in NeededPieces
  BY DEF Data, BlockMessages
<1>9. Cardinality(D) <= M
  BY <1>2, <1>8 DEF WithinLimit
<1>10. IsFiniteSet(D) /\ Cardinality(D) \in Nat
  BY OfPieceFinite
<1>11. IsFiniteSet(W) /\ Cardinality(W) \in Nat
  BY WaitingFinite
<1> HIDE DEF W, D
<1>12. Cardinality(W \cup {x}) = Cardinality(W) + 1
  BY <1>4, <1>11, FS_AddElement
<1>13. Cardinality(W \cup {x}) <= Cardinality(D)
  BY <1>7, <1>10, FS_Subset
<1>14. Cardinality(W) < M
  BY <1>9, <1>10, <1>11, <1>12, <1>13
<1> QED
  BY <1>4, <1>14 DEF W

LEMMA HandleRequestLimit ==
  ASSUME TransferInv, LimitInv, HandleRequest
  PROVE  LimitInv'
<1> DEFINE m == Head(toSeeder)
           x == [m EXCEPT !.type = "piece"]
           q == writer.queue
           W == Waiting(q)
<1>1. /\ TransferTyped /\ toSeeder # <<>> /\ m.type = "request" /\ toSeeder' = Tail(toSeeder)
      /\ writer' = QueueMessage(writer, x, maxIn)
      /\ UNCHANGED <<maxIn, reqq, todo, pd, writing, toLeech>>
  BY DEF TransferInv, HandleRequest
<1>2. /\ toSeeder \in Seq(BlockMessages({"request", "cancel"})) /\ q \in Seq(Downward)
      /\ writer \in Writers
  BY <1>1 DEF TransferTyped, Writers
<1>3. m \in BlockMessages({"request", "cancel"})
  BY <1>1, <1>2, HeadTailProperties
<1>4. x \in Data /\ x \in Downward /\ x.type = "piece" /\ AsksFor(m, x)
  BY <1>1, <1>3, SubjectIs
<1>5. Held' = Held
  BY <1>1 DEF Held
<1> HIDE DEF m, x
<1>6. Quiet'
  <2>1. Quiet
    BY <1>1, QuietOnceAsked DEF LimitInv
  <2>2. \E w \in Downward : w.type # "haveall" /\ writer'.queue = Append(q, w)
    <3> DEFINE r == Reject(x)
    <3>1. r \in Downward /\ r.type = "reject"
      <4>1. x \in BlockMessages({"request", "cancel", "piece", "reject"})
        BY <1>4 DEF Data, BlockMessages
      <4>2. r = [x EXCEPT !.type = "reject"]
        BY DEF Reject
      <4> HIDE DEF r
      <4> QED
        BY <4>1, <4>2, AnswersAre, Zenon
    <3> HIDE DEF r
    <3>2. writer'.queue = Append(q, r) \/ writer'.queue = Append(q, x)
      BY <1>1, <1>2, <1>4 DEF QueueMessage, Writers, r
    <3> QED
      BY <3>1, <3>2, <1>4
  <2> HIDE DEF q
  <2>3. ~Greets(writer'.queue)
    BY <2>1, <2>2, <1>2, GreetsAppend DEF Quiet, q
  <2> QED
    BY <2>1, <2>3, <1>1, <1>5 DEF Quiet
<1>7. ASSUME maxIn >= DefaultRequestsOut PROVE InStep'
  <2>1. InStep /\ maxIn \in Nat
    BY <1>1, <1>7, MayRequest DEF LimitInv
  <2>2. Books(W, toSeeder, pd, maxIn) /\ Once(q) /\ writer.queuedRequests = Cardinality(W)
    BY <2>1 DEF InStep, Counted
  <2>3. IsFiniteSet(W) /\ Cardinality(W) \in Nat
    BY <1>2, WaitingFinite
  <2>4. x \notin W /\ Cardinality(W) < maxIn
    BY <2>1, <2>2, <1>1, <1>2, <1>4, RoomForRequest DEF m
  <2>5. writer' = [writer EXCEPT !.queue = Append(@, x), !.queuedRequests = @ + 1]
    BY <2>1, <2>2, <2>3, <2>4, <1>1, <1>4 DEF QueueMessage
  <2>6. /\ writer'.queue = Append(q, x) /\ writer'.queuedRequests = writer.queuedRequests + 1
        /\ writer'.served = writer.served
    BY <2>5, <1>2 DEF Writers
  <2>7. Waiting(Append(q, x)) = W \cup {x} /\ Once(Append(q, x))
    <3>1. Waiting(Append(q, x)) = W \cup ({x} \cap Data) /\ Once(Append(q, x))
      BY <2>2, <2>4, <1>2, <1>4, WaitingAppend
    <3> QED
      BY <3>1, <1>4
  <2>8. Books(W \cup {x}, Tail(toSeeder), pd, maxIn)
    BY <2>1, <2>2, <1>1, <1>2, <1>4, BooksRequested DEF m
  <2>9. Cardinality(W \cup {x}) = Cardinality(W) + 1
    BY <2>3, <2>4, FS_AddElement
  <2>10. Unrefused(pd, Append(q, x))
    <3>1. ~Refuses(x, pd.piece)
      BY <1>4 DEF Refuses
    <3> QED
      BY <3>1, <2>1, <1>2, <1>4, UnrefusedAppend DEF InStep
  <2> HIDE DEF q, W
  <2>11. Counted(writer')
    BY <2>2, <2>6, <2>7, <2>9 DEF Counted
  <2>12. Books(Waiting(writer'.queue), toSeeder', pd', maxIn')
    BY <2>6, <2>7, <2>8, <1>1
  <2> QED
    BY <2>1, <2>6, <2>10, <2>11, <2>12, <1>1, <1>5 DEF InStep
<1> QED
  BY <1>1, <1>6, <1>7 DEF LimitInv, Opening

LEMMA HandleCancelLimit ==
  ASSUME TransferInv, LimitInv, HandleCancel
  PROVE  LimitInv'
<1> DEFINE m == Head(toSeeder)
           x == [m EXCEPT !.type = "piece"]
           r == Reject(x)
           q == writer.queue
           W == Waiting(q)
           c == CancelRequest(writer, x)
<1>1. /\ TransferTyped /\ toSeeder # <<>> /\ m.type = "cancel" /\ toSeeder' = Tail(toSeeder)
      /\ writer' = QueueMessage(c, r, maxIn)
      /\ UNCHANGED <<maxIn, reqq, todo, pd, writing, toLeech>>
  BY DEF TransferInv, HandleCancel
<1>2. /\ toSeeder \in Seq(BlockMessages({"request", "cancel"})) /\ q \in Seq(Downward)
      /\ writer \in Writers
  BY <1>1 DEF TransferTyped, Writers
<1>3. m \in BlockMessages({"request", "cancel"})
  BY <1>1, <1>2, HeadTailProperties
<1>4. x \in Data /\ x \in Downward /\ x.type = "piece" /\ x.piece = m.piece /\ TakesBack(m, x)
  BY <1>1, <1>3, SubjectIs
<1>5. Held' = Held
  BY <1>1 DEF Held
<1> HIDE DEF m, x
<1>6. r \in Downward /\ r.type = "reject" /\ r.piece = m.piece /\ r \notin Data
  <2>1. x \in BlockMessages({"request", "cancel", "piece", "reject"})
    BY <1>4 DEF Data, BlockMessages
  <2>2. r = [x EXCEPT !.type = "reject"]
    BY DEF Reject
  <2> HIDE DEF r
  <2>3. r \in Downward /\ r.type = "reject" /\ r.piece = x.piece
    BY <2>1, <2>2, AnswersAre, Zenon
  <2> QED
    BY <2>3, <1>4, DataIs
<1> HIDE DEF r
(* What cancelRequest leaves in the queue.                                 *)
<1>7. /\ c \in Writers /\ c.served = writer.served
      /\ \A i \in 1 .. Len(c.queue) : \E j \in 1 .. Len(q) : c.queue[i] = q[j]
      /\ Counted(writer) => Counted(c) /\ Waiting(c.queue) = W \ {x}
  <2>1. CASE Contains(q, x)
    <3> DEFINE t == RemoveFirst(q, x)
    <3>0. /\ t \in Seq(Downward)
          /\ \E n \in 1 .. Len(q) :
               /\ q[n] = x /\ Len(t) = Len(q) - 1
               /\ \A i \in 1 .. Len(t) : t[i] = IF i < n THEN q[i] ELSE q[i + 1]
      <4>1. q \in Seq(Downward) /\ Contains(q, x)
        BY <2>1, <1>2
      <4> HIDE DEF q
      <4> QED
        BY <4>1, RemovedAre
    <3>1. PICK n \in 1 .. Len(q) :
            /\ q[n] = x /\ Len(t) = Len(q) - 1
            /\ \A i \in 1 .. Len(t) : t[i] = IF i < n THEN q[i] ELSE q[i + 1]
      BY <3>0
    <3>2. t \in Seq(Downward)
      BY <3>0
    <3>3. c = [writer EXCEPT !.queue = t, !.queuedRequests = @ - 1]
      BY <2>1 DEF CancelRequest
    <3>4. Len(q) \in Nat
      BY <1>2, LenProperties
    <3> HIDE DEF t
    <3>5. \A i \in 1 .. Len(t) : \E j \in 1 .. Len(q) : t[i] = q[j]
      <4> SUFFICES ASSUME NEW i \in 1 .. Len(t) PROVE \E j \in 1 .. Len(q) : t[i] = q[j]
        OBVIOUS
      <4>1. i \in 1 .. Len(q) /\ i + 1 \in 1 .. Len(q)
        BY <3>1, <3>4
      <4> QED
        BY <4>1, <3>1
    <3>6. c.queue = t /\ c.queuedRequests = writer.queuedRequests - 1 /\ c.served = writer.served
      BY <3>3, <1>2 DEF Writers
    <3>7. c \in Writers
      <4>1. writer.queuedRequests - 1 \in Int
        BY <1>2 DEF Writers
      <4>2. c = [queue |-> t, queuedRequests |-> writer.queuedRequests - 1, served |-> writer.served]
        BY <3>3, <1>2 DEF Writers
      <4> HIDE DEF c
      <4> QED
        BY <4>1, <4>2, <3>2, <1>2 DEF Writers
    <3>8. ASSUME Counted(writer) PROVE Counted(c) /\ Waiting(c.queue) = W \ {x}
      <4>1. Waiting(t) = W \ {x} /\ Once(t) /\ x \in W
        BY <2>1, <3>8, <1>2, <1>4, WaitingRemoved DEF Counted, t
      <4>2. IsFiniteSet(W) /\ Cardinality(W) \in Nat
        BY <1>2, WaitingFinite
      <4> HIDE DEF W
      <4>3. Cardinality(W \ {x}) = Cardinality(W) - 1
        BY <4>1, <4>2, FS_RemoveElement
      <4>4. writer.queuedRequests = Cardinality(W)
        BY <3>8 DEF Counted, W
      <4> QED
        BY <4>1, <4>3, <4>4, <3>6 DEF Counted
    <3> HIDE DEF c, W
    <3> QED
      BY <3>5, <3>6, <3>7, <3>8
  <2>2. CASE ~Contains(q, x)
    <3>1. c = writer
      BY <2>2 DEF CancelRequest
    <3>2. x \notin W
      BY <2>2 DEF Waiting, Contains
    <3> HIDE DEF c, W
    <3> QED
      BY <3>1, <3>2, <1>2 DEF W
  <2> QED
    BY <2>1, <2>2
<1> HIDE DEF c
<1>8. /\ writer'.queue = Append(c.queue, r) /\ writer'.queuedRequests = c.queuedRequests
      /\ writer'.served = c.served /\ c.queue \in Seq(Downward)
  BY <1>1, <1>6, <1>7 DEF QueueMessage, Writers
<1>9. Quiet'
  <2>1. Quiet
    BY <1>1, QuietOnceAsked DEF LimitInv
  <2>2. ~Greets(c.queue)
    BY <2>1, <1>7 DEF Quiet, Greets
  <2>3. ~Greets(writer'.queue)
    BY <2>2, <1>6, <1>8, GreetsAppend
  <2> QED
    BY <2>1, <2>3, <1>1, <1>5 DEF Quiet
<1>10. ASSUME maxIn >= DefaultRequestsOut PROVE InStep'
  <2>1. InStep /\ maxIn \in Nat
    BY <1>1, <1>10, MayRequest DEF LimitInv
  <2>2. Books(W, toSeeder, pd, maxIn) /\ Counted(writer)
    BY <2>1 DEF InStep
  <2>3. Waiting(writer'.queue) = W \ {x} /\ Counted(writer')
    <3>1. Counted(c) /\ Waiting(c.queue) = W \ {x}
      BY <2>2, <1>7
    <3>2. /\ Waiting(Append(c.queue, r)) = Waiting(c.queue) \cup ({r} \cap Data)
          /\ r \notin Waiting(c.queue) => Once(Append(c.queue, r))
      BY <3>1, <1>6, <1>8, WaitingAppend DEF Counted
    <3>3. r \notin Waiting(c.queue)
      BY <1>6 DEF Waiting
    <3> HIDE DEF W
    <3>4. Waiting(Append(c.queue, r)) = Waiting(c.queue)
      BY <3>2, <1>6
    <3> QED
      BY <3>1, <3>2, <3>3, <3>4, <1>8 DEF Counted
  <2>4. Books(W \ {x}, Tail(toSeeder), pd, maxIn)
    BY <2>1, <2>2, <1>1, <1>2, <1>4, BooksCancelled DEF m
  <2>5. Unrefused(pd, writer'.queue)
    <3>1. Unrefused(pd, c.queue)
      BY <2>1, <1>7 DEF InStep, Unrefused
    <3>2. pd # Absent => ~Refuses(r, pd.piece)
      <4>1. pd # Absent => ~Cancelled(toSeeder, pd.piece)
        <5>1. pd # Absent => ~Cancelled(Pipeline, pd.piece)
          BY DEF TransferInv, Sound
        <5>2. Joined(Pipeline, toLeech, Held, writer.queue, toSeeder, pd.piece)
          BY <1>1, PipelineJoined
        <5> QED
          BY <5>1, <5>2 DEF Joined
      <4>2. toSeeder[1] = m /\ 1 \in 1 .. Len(toSeeder)
        BY <1>1, <1>2, HeadTailProperties, LenProperties, EmptySeq DEF m
      <4>3. pd # Absent => pd.piece # m.piece
        BY <4>1, <4>2, <1>1 DEF Cancelled, Cancels
      <4> QED
        BY <4>3, <1>6 DEF Refuses
    <3> QED
      BY <3>1, <3>2, <1>6, <1>8, UnrefusedAppend
  <2> HIDE DEF q, W
  <2>6. Books(Waiting(writer'.queue), toSeeder', pd', maxIn')
    BY <2>3, <2>4, <1>1
  <2> QED
    BY <2>1, <2>3, <2>5, <2>6, <1>1, <1>5, <1>7, <1>8 DEF InStep
<1> QED
  BY <1>1, <1>9, <1>10 DEF LimitInv, Opening

LEMMA TakeLimit ==
  ASSUME TransferInv, LimitInv, Take
  PROVE  LimitInv'
<1> DEFINE q == writer.queue
           m == Head(q)
           W == Waiting(q)
           k == IF m.type = "piece" THEN writer.queuedRequests - 1 ELSE writer.queuedRequests
<1>1. /\ TransferTyped /\ writing = Absent /\ q # <<>> /\ writing' = m /\ writer' = TakeFirst(writer)
      /\ UNCHANGED <<maxIn, reqq, todo, pd, toSeeder, toLeech>>
  BY DEF TransferInv, Take
<1>2. writer \in Writers /\ q \in Seq(Downward)
  BY <1>1 DEF TransferTyped, Writers
<1>3. m \in Downward /\ Head(q) = q[1] /\ 1 \in 1 .. Len(q)
  BY <1>1, <1>2, HeadTailProperties, LenProperties, EmptySeq
<1>4. writer' = [writer EXCEPT !.queue = Tail(q), !.queuedRequests = k]
  BY <1>1 DEF TakeFirst
<1>5. writer'.queue = Tail(q) /\ writer'.queuedRequests = k /\ writer'.served = writer.served
  BY <1>2, <1>4 DEF Writers
<1>6. Held = <<>> /\ Held' = <<m>>
  BY <1>1, <1>3, TransferAssumption DEF Held
<1> HIDE DEF m, k, q
<1>7. Opening'
  <2>1. /\ Greets(q) <=> m.type = "haveall" \/ Greets(Tail(q))
        /\ First(q) => m.type = "haveall" /\ ~Greets(Tail(q))
    BY <1>1, <1>2, GreetsTail DEF m
  <2>2. /\ Greets(Held') <=> m.type = "haveall"
        /\ First(Held') <=> m.type = "haveall"
        /\ ~Greets(Held)
    BY <1>6, GreetsOne
  <2>3. First(Held) => FALSE
    BY <1>6 DEF First
  <2>4. CASE Quiet
    <3>1. Quiet'
      BY <2>1, <2>2, <2>4, <1>1, <1>5 DEF Quiet, q
    <3> QED
      BY <3>1 DEF Opening
  <2>5. CASE /\ pd = Absent /\ toSeeder = <<>> /\ toLeech = <<>> /\ First(q)
    BY <2>1, <2>2, <2>5, <1>1, <1>5 DEF Opening
  <2>6. CASE /\ pd = Absent /\ toSeeder = <<>> /\ First(toLeech) /\ ~Greets(q)
    BY <2>1, <2>2, <2>6, <1>1, <1>5 DEF Opening
  <2> QED
    BY <2>3, <2>4, <2>5, <2>6 DEF LimitInv, Opening, q
<1>8. ASSUME maxIn >= DefaultRequestsOut PROVE InStep'
  <2>1. InStep /\ maxIn \in Nat
    BY <1>1, <1>8, MayRequest DEF LimitInv
  <2>2. Books(W, toSeeder, pd, maxIn) /\ Counted(writer) /\ Once(q)
    BY <2>1 DEF InStep, Counted, q
  <2>3. Waiting(Tail(q)) = W \ {m} /\ Once(Tail(q))
    BY <2>2, <1>1, <1>2, WaitingTail DEF m
  <2>4. IsFiniteSet(W) /\ Cardinality(W) \in Nat
    BY <1>2, WaitingFinite
  <2>5. m.type = "piece" <=> m \in W
    <3>1. m \in Data <=> m \in W
      BY <1>3 DEF Waiting, m
    <3> QED
      BY <3>1, <1>3, DataIs
  <2>6. writer.queuedRequests = Cardinality(W)
    BY <2>2 DEF Counted, q
  <2>7. Books(Waiting(Tail(q)), toSeeder, pd, maxIn)
    <3>1. Waiting(Tail(q)) \in SUBSET W
      BY <2>3
    <3> HIDE DEF W
    <3> QED
      BY <3>1, <2>1, <2>2, BooksFewer
  <2> HIDE DEF W
  <2>8. k = Cardinality(Waiting(Tail(q)))
    <3>1. CASE m \in W
      <4>1. Cardinality(W \ {m}) = Cardinality(W) - 1
        BY <3>1, <2>4, FS_RemoveElement
      <4> QED
        BY <4>1, <3>1, <2>3, <2>5, <2>6 DEF k
    <3>2. CASE m \notin W
      <4>1. W \ {m} = W
        BY <3>2
      <4> QED
        BY <4>1, <3>2, <2>3, <2>5, <2>6 DEF k
    <3> QED
      BY <3>1, <3>2
  <2>9. Counted(writer')
    BY <2>3, <2>8, <1>5 DEF Counted
  <2>10. Unrefused(pd, Tail(q)) /\ Unrefused(pd, <<m>>)
    <3>1. Unrefused(pd, q)
      BY <2>1 DEF InStep, q
    <3>2. Unrefused(pd, Tail(q))
      BY <3>1, <1>1, <1>2, UnrefusedTail
    <3>3. pd # Absent => ~Refuses(m, pd.piece)
      BY <3>1, <1>3 DEF Unrefused, m
    <3>4. Unrefused(pd, <<m>>)
      BY <3>3 DEF Unrefused
    <3> QED
      BY <3>2, <3>4
  <2> QED
    BY <2>1, <2>7, <2>9, <2>10, <1>1, <1>5, <1>6 DEF InStep
<1> QED
  BY <1>1, <1>7, <1>8 DEF LimitInv

(* The messageWriter has served no block that is still waited for, so that *)
(* none is refused as served before.                                       *)
LEMMA WriteLimit ==
  ASSUME TransferInv, LimitInv, Write
  PROVE  LimitInv'
<1> DEFINE m == writing
           n == ToWrite(writer, writing)
           q == writer.queue
           l == toLeech
<1>1. /\ TransferTyped /\ m # Absent /\ m \in Downward /\ toLeech' = Append(l, n)
      /\ writing' = Absent /\ writer' = Serve(writer, m)
      /\ UNCHANGED <<maxIn, reqq, todo, pd, toSeeder>>
  BY DEF TransferInv, Write, TransferTyped
<1>2. writer \in Writers /\ q \in Seq(Downward) /\ l \in Seq(Downward)
  BY <1>1 DEF TransferTyped, Writers
<1>3. /\ writer'.queue = q /\ writer'.queuedRequests = writer.queuedRequests
      /\ \A x \in writer'.served : x \in writer.served \/ (x = m /\ m.type = "piece")
  <2>1. CASE m.type = "piece"
    <3>1. writer' = [writer EXCEPT !.served = @ \cup {m}]
      BY <2>1, <1>1 DEF Serve
    <3> HIDE DEF m
    <3> QED
      BY <2>1, <3>1, <1>2 DEF Writers
  <2>2. CASE m.type # "piece"
    BY <2>2, <1>1 DEF Serve
  <2> QED
    BY <2>1, <2>2
<1>4. Held = <<m>> /\ Held' = <<>>
  BY <1>1 DEF Held
<1>5. \/ n = m /\ ~(m.type = "piece" /\ m \in writer.served)
      \/ m.type = "piece" /\ m \in writer.served /\ n = [m EXCEPT !.type = "reject"]
  BY DEF ToWrite, Reject
<1>6. /\ n \in Downward /\ (n.type = "haveall" <=> m.type = "haveall")
      /\ m.type = "piece" => n.piece = m.piece /\ n.block = m.block /\ n.type \in {"piece", "reject"}
  <2>1. CASE n = m
    BY <2>1, <1>1
  <2>2. CASE m.type = "piece" /\ n = [m EXCEPT !.type = "reject"]
    <3>1. m \in BlockMessages({"request", "cancel", "piece", "reject"})
      BY <2>2, <1>1 DEF Downward, Hello, BlockMessages
    <3> HIDE DEF m, n
    <3>2. n \in Downward /\ n.type = "reject" /\ n.piece = m.piece /\ n.block = m.block
      BY <2>2, <3>1, AnswersAre, Zenon
    <3> QED
      BY <2>2, <3>2
  <2> QED
    BY <2>1, <2>2, <1>5
<1> HIDE DEF m, n, q, l
<1>7. Opening'
  <2>1. /\ Greets(Append(l, n)) <=> Greets(l) \/ m.type = "haveall"
        /\ First(l) /\ m.type # "haveall" => First(Append(l, n))
    BY <1>2, <1>6, GreetsAppend
  <2>2. /\ Greets(Held) <=> m.type = "haveall"
        /\ First(Held) <=> m.type = "haveall"
        /\ ~Greets(Held')
    BY <1>4, GreetsOne
  <2>3. CASE Quiet
    <3>1. Quiet'
      BY <2>1, <2>2, <2>3, <1>1, <1>3 DEF Quiet, q, l
    <3> QED
      BY <3>1 DEF Opening
  <2>4. CASE pd = Absent /\ toSeeder = <<>> /\ l = <<>> /\ First(Held) /\ ~Greets(q)
    <3>1. toLeech' = <<n>> /\ n.type = "haveall"
      BY <2>2, <2>4, <1>1, <1>6
    <3>2. First(toLeech')
      BY <3>1, GreetsOne
    <3> QED
      BY <3>2, <2>2, <2>4, <1>1, <1>3 DEF Opening
  <2>5. CASE pd = Absent /\ toSeeder = <<>> /\ First(l) /\ ~Greets(Held) /\ ~Greets(q)
    <3>1. First(toLeech')
      BY <2>1, <2>2, <2>5, <1>1
    <3> QED
      BY <3>1, <2>2, <2>5, <1>1, <1>3 DEF Opening
  <2> QED
    BY <2>3, <2>4, <2>5, <1>1 DEF LimitInv, Opening, q, l, m
<1>8. ASSUME maxIn >= DefaultRequestsOut PROVE InStep'
  <2>1. InStep /\ maxIn \in Nat
    BY <1>1, <1>8, MayRequest DEF LimitInv
  <2>2. Books(Waiting(q), toSeeder, pd, maxIn) /\ Counted(writer')
    BY <2>1, <1>3 DEF InStep, Counted, q
  <2>3. Joined(Pipeline, l, Held, q, toSeeder, pd.piece)
    BY <1>1, PipelineJoined DEF l, q
  <2>4. pd # Absent => BlockOf(m, pd.piece) \subseteq pd.pending \ Blocks(l, pd.piece)
    <3>1. pd # Absent => Distinct(Pipeline, pd.piece) /\ Blocks(Pipeline, pd.piece) = pd.pending
      BY DEF TransferInv, Sound
    <3>2. Blocks(Held, pd.piece) = BlockOf(m, pd.piece)
      <4>1. m \in AllMessages
        BY <1>1 DEF AllMessages
      <4> QED
        BY <4>1, <1>4, SingleIs
    <3> QED
      BY <3>1, <3>2, <2>3 DEF Joined
  <2>5. ASSUME pd # Absent, m.type = "piece", m.piece = pd.piece PROVE n = m
    <3>1. BlockOf(m, pd.piece) = {m.block}
      BY <2>5 DEF BlockOf, Concerns
    <3>2. m.block \notin pd.done
      BY <3>1, <2>4, <2>5 DEF TransferInv, Sound, Divided
    <3>3. m \notin writer.served
      BY <3>1, <3>2, <2>1, <2>4, <2>5 DEF InStep, Delivered, l
    <3> QED
      BY <3>3, <1>5
  <2>6. Unrefused(pd, Append(l, n))
    <3>1. pd # Absent => ~Refuses(n, pd.piece)
      <4> SUFFICES ASSUME pd # Absent, n.type = "reject", n.piece = pd.piece PROVE FALSE
        BY DEF Refuses
      <4>1. CASE m.type = "piece"
        BY <4>1, <2>5, <1>6
      <4>2. CASE m.type # "piece"
        <5>1. n = m /\ Unrefused(pd, Held) /\ Len(<<m>>) = 1 /\ <<m>>[1] = m
          BY <4>2, <2>1, <1>5 DEF InStep
        <5> QED
          BY <5>1, <1>4 DEF Unrefused, Refuses
      <4> QED
        BY <4>1, <4>2
    <3>2. Unrefused(pd, l)
      BY <2>1 DEF InStep, l
    <3> QED
      BY <3>1, <3>2, <1>2, <1>6, UnrefusedAppend
  <2>7. Delivered(pd, todo, writer'.served, Append(l, n))
    <3>1. \A p : Blocks(Append(l, n), p) = Blocks(l, p) \cup BlockOf(n, p)
      <4>1. l \in Seq(AllMessages) /\ n \in AllMessages
        <5>1. Downward \subseteq AllMessages
          BY DEF AllMessages
        <5> QED
          BY <5>1, <1>2, <1>6, SeqMonotonic
      <4> QED
        BY <4>1, AppendIs
    <3>2. ASSUME NEW x \in writer'.served PROVE x.piece \notin todo
      <4>1. CASE x \in writer.served
        BY <4>1, <2>1 DEF InStep, Delivered
      <4>2. CASE x = m /\ m.type = "piece"
        <5>1. <<m>>[1] = m /\ 1 \in 1 .. Len(<<m>>)
          OBVIOUS
        <5>2. Mentioned(Held, m.piece)
          BY <5>1, <4>2, <1>4 DEF Mentioned, Mentions
        <5> QED
          BY <4>2, <5>2, TodoUnmentioned
      <4> QED
        BY <4>1, <4>2, <1>3
    <3>3. ASSUME pd # Absent, NEW x \in writer'.served, x.piece = pd.piece
          PROVE  x.block \in pd.done \cup Blocks(Append(l, n), pd.piece)
      <4>1. CASE x \in writer.served
        BY <4>1, <3>1, <3>3, <2>1 DEF InStep, Delivered, l
      <4>2. CASE x = m /\ m.type = "piece"
        <5>1. BlockOf(n, pd.piece) = {x.block}
          BY <4>2, <3>3, <1>6 DEF BlockOf, Concerns
        <5> QED
          BY <5>1, <3>1
      <4> QED
        BY <4>1, <4>2, <1>3
    <3> QED
      BY <3>2, <3>3 DEF Delivered
  <2>8. Unrefused(pd, <<>>) /\ Unrefused(pd, q) /\ Few(pd, maxIn)
    <3>1. Unrefused(pd, <<>>)
      BY DEF Unrefused
    <3> QED
      BY <3>1, <2>1 DEF InStep, q
  <2>9. Books(Waiting(writer'.queue), toSeeder', pd', maxIn')
    BY <2>2, <1>1, <1>3
  <2> QED
    BY <2>2, <2>6, <2>7, <2>8, <2>9, <1>1, <1>3, <1>4 DEF InStep
<1> QED
  BY <1>1, <1>7, <1>8 DEF LimitInv

LEMMA LimitInitOK == TransferInit => LimitInv
<1> SUFFICES ASSUME TransferInit PROVE LimitInv
  OBVIOUS
<1> DEFINE a == Hello("haveall")
           b == Hello("handshake")
           q == <<a, b>>
<1>1. a.type = "haveall" /\ b.type = "handshake"
  BY DEF Hello
<1> HIDE DEF a, b
<1>2. Len(q) = 2 /\ q[1] = a /\ q[2] = b /\ q # <<>>
  OBVIOUS
<1>3. writer = [queue |-> q, queuedRequests |-> 0, served |-> {}]
  BY DEF TransferInit, NewWriter, a, b
<1> HIDE DEF q
<1>4. \A i \in 1 .. Len(q) : i = 1 \/ i = 2
  BY <1>2
<1>5. First(q)
  BY <1>1, <1>2, <1>4 DEF First
<1>6. Opening
  BY <1>3, <1>5 DEF Opening, TransferInit
<1>7. \A i \in 1 .. Len(q) : q[i] \notin Data
  BY <1>1, <1>2, <1>4 DEF Data, BlockMessages
<1>8. Waiting(q) = {} /\ Once(q)
  BY <1>7 DEF Waiting, Once
<1>9. Counted(writer)
  BY <1>3, <1>8, FS_EmptySet DEF Counted
<1>10. Books({}, <<>>, Absent, maxIn)
  <2>1. AskedOnce({}, <<>>) /\ Cleared({}, <<>>)
    BY DEF AskedOnce, Cleared
  <2>2. \A x : ~Due({}, <<>>, Len(<<>>), x)
    BY DEF Due, AskedFor
  <2>3. OnlyFor({}, <<>>, Absent)
    BY <2>2 DEF OnlyFor
  <2>4. \A p : OfPiece({}, <<>>, p) = {}
    BY <2>2 DEF OfPiece
  <2>5. maxIn \in Nat
    BY TransferAssumption DEF TransferInit
  <2>6. WithinLimit({}, <<>>, maxIn)
    BY <2>4, <2>5, FS_EmptySet DEF WithinLimit
  <2> QED
    BY <2>1, <2>3, <2>6 DEF Books
<1>11. InStep
  <2>1. Delivered(pd, todo, writer.served, toLeech)
    BY <1>3 DEF Delivered, TransferInit
  <2>2. Few(pd, maxIn) /\ \A s : Unrefused(pd, s)
    BY DEF TransferInit, Few, Unrefused
  <2>3. Books(Waiting(writer.queue), toSeeder, pd, maxIn)
    <3>1. Waiting(writer.queue) = {} /\ toSeeder = <<>> /\ pd = Absent
      BY <1>3, <1>8 DEF TransferInit
    <3> QED
      BY <3>1, <1>10
  <2> QED
    BY <1>9, <2>1, <2>2, <2>3 DEF InStep
<1> QED
  BY <1>6, <1>11 DEF LimitInv, TransferInit

LEMMA LimitInvariance == TransferSpec => []LimitInv
<1>1. ASSUME TransferInv, LimitInv, [TransferNext]_transferVars PROVE LimitInv'
  <2>1. CASE ReceiveHaveAll
    BY <1>1, <2>1, ReceiveHaveAllLimit
  <2>2. CASE ReceiveHandshake
    BY <1>1, <2>2, ReceiveHandshakeLimit
  <2>3. CASE ReceivePiece
    BY <1>1, <2>3, ReceivePieceLimit
  <2>4. CASE ReceiveReject
    BY <1>1, <2>4, ReceiveRejectLimit
  <2>5. CASE ReceiveOther
    BY <1>1, <2>5, ReceiveOtherLimit
  <2>6. CASE DoneElsewhere
    BY <1>1, <2>6, DoneElsewhereLimit
  <2>7. CASE HandleRequest
    BY <1>1, <2>7, HandleRequestLimit
  <2>8. CASE HandleCancel
    BY <1>1, <2>8, HandleCancelLimit
  <2>9. CASE Take
    BY <1>1, <2>9, TakeLimit
  <2>10. CASE Write
    BY <1>1, <2>10, WriteLimit
  <2>11. CASE UNCHANGED <<maxIn, reqq, todo, pd, toSeeder, writer, writing, toLeech>>
    BY <1>1, <2>11 DEF LimitInv, Opening, Quiet, Held, InStep
  <2> QED
    BY <1>1, <2>1, <2>2, <2>3, <2>4, <2>5, <2>6, <2>7, <2>8, <2>9, <2>10, <2>11
       DEF TransferNext, Leech, Seeder, SnubTimerFires, Snubbed, transferVars
<1> QED
  BY <1>1, LimitInitOK, TransferInvariance, PTL DEF TransferSpec

LEMMA UnrefusedConcat ==
  ASSUME NEW T, NEW s \in Seq(T), NEW t \in Seq(T), NEW d, Unrefused(d, s), Unrefused(d, t)
  PROVE  Unrefused(d, s \o t)
<1> DEFINE st == s \o t
           n == Len(s)
           m == Len(t)
<1>1. /\ n \in Nat /\ m \in Nat /\ Len(st) = n + m
      /\ \A i \in 1 .. n + m : st[i] = IF i <= n THEN s[i] ELSE t[i - n]
  BY ConcatProperties, LenProperties
<1> HIDE DEF st, n, m
<1>2. ASSUME d # Absent, NEW i \in 1 .. Len(st) PROVE ~Refuses(st[i], d.piece)
  <2>1. CASE i <= n
    BY <2>1, <1>1, <1>2 DEF Unrefused, n
  <2>2. CASE ~(i <= n)
    <3>1. i - n \in 1 .. m /\ st[i] = t[i - n]
      BY <2>2, <1>1
    <3> QED
      BY <3>1, <1>2 DEF Unrefused, m
  <2> QED
    BY <2>1, <2>2
<1> QED
  BY <1>2 DEF Unrefused, st

(* However many pieces, blocks and requests: a seeder whose queue takes as *)
(* many requests as the downloader sends before the extension handshake    *)
(* has told it the limit rejects no block of the piece being downloaded,   *)
(* for want of room in PeerWriter.queueMessage or as served before.        *)
THEOREM NothingWantedRejected == TransferSpec => []NothingRejected
<1>1. ASSUME TransferInv, LimitInv, maxIn >= DefaultRequestsOut, pd # Absent,
             NEW i \in 1 .. Len(Pipeline)
      PROVE  ~(Pipeline[i].type = "reject" /\ Pipeline[i].piece = pd.piece)
  <2>1. /\ toLeech \in Seq(AllMessages) /\ Held \in Seq(AllMessages)
        /\ writer.queue \in Seq(AllMessages) /\ toSeeder \in Seq(AllMessages)
        /\ Pipeline = toLeech \o Held \o writer.queue \o toSeeder
        /\ toSeeder \in Seq(BlockMessages({"request", "cancel"}))
    BY <1>1, PartsAre DEF TransferInv, TransferTyped
  <2>2. Unrefused(pd, toLeech) /\ Unrefused(pd, Held) /\ Unrefused(pd, writer.queue)
    BY <1>1 DEF LimitInv, InStep
  <2>3. Unrefused(pd, toSeeder)
    <3>1. \A j \in 1 .. Len(toSeeder) : toSeeder[j].type # "reject"
      <4>1. \A j \in 1 .. Len(toSeeder) : toSeeder[j] \in BlockMessages({"request", "cancel"})
        BY <2>1, ElementOfSeq
      <4> QED
        BY <4>1 DEF BlockMessages
    <3> QED
      BY <3>1 DEF Unrefused, Refuses
  <2> DEFINE a == toLeech \o Held
             b == a \o writer.queue
  <2>4. a \in Seq(AllMessages) /\ Unrefused(pd, a)
    BY <2>1, <2>2, UnrefusedConcat, ConcatProperties
  <2> HIDE DEF a
  <2>5. b \in Seq(AllMessages) /\ Unrefused(pd, b)
    BY <2>1, <2>2, <2>4, UnrefusedConcat, ConcatProperties
  <2>6. Pipeline = b \o toSeeder
    BY <2>1 DEF a
  <2> HIDE DEF b
  <2>7. Unrefused(pd, Pipeline)
    BY <2>1, <2>3, <2>5, <2>6, UnrefusedConcat
  <2> QED
    BY <2>7, <1>1 DEF Unrefused, Refuses
<1>2. TransferInv /\ LimitInv => NothingRejected
  BY <1>1 DEF NothingRejected
<1> QED
  BY <1>2, TransferInvariance, LimitInvariance, PTL
=============================================================================
