----------------------------- MODULE Blocklist -----------------------------
(***************************************************************************)
(* The list of blocked addresses: blocklist.Blocklist and the segment tree *)
(* (stree) it looks addresses up in.  Reload and Blocked exclude each      *)
(* other with a lock, so each is one step.                                 *)
(*                                                                         *)
(* Addresses have Bits bits instead of 32 and wrap around like uint32.  A  *)
(* node of the tree is the pair of the first and the last leaf below it.   *)
(***************************************************************************)
EXTENDS Integers, Sequences, FiniteSets, SequencesExt

CONSTANTS Bits,     \* width of an address
          Lines,    \* lines of a list: CIDR ranges, Comment and Invalid
          MaxLines, \* lines of one list
          Comment,  \* an empty line or a comment
          Invalid   \* a line that cannot be parsed, or an IPv6 range

Addr == 0..(2^Bits - 1)

(* The parsed lines: the first address and the length of the prefix.       *)
CIDR == {<<a, n>> \in Addr \X (0..Bits) : a % 2^(Bits - n) = 0}

ASSUME BlocklistAssumption ==
  /\ Bits \in Nat /\ MaxLines \in Nat
  /\ Lines \subseteq CIDR \cup {Comment, Invalid}

VARIABLES tree,  \* Stree: the leaves, and the rules stored at each node
          count, \* the number of rules
          rules  \* history: the ranges of the last list that was loaded

blocklistVars == <<tree, count, rules>>

NoTree == [leaves |-> <<>>, overlap |-> <<>>]
Segment(from, to) == [from |-> from, to |-> to]

parseCIDR(l) == Segment(l[1], l[1] + 2^(Bits - l[2]) - 1)

-----------------------------------------------------------------------------
(* stree *)

(* dedup: the sorted endpoints, without those equal to their predecessor;  *)
(* the first is compared with its own successor, which may wrap around.    *)
DedupDropsFirst(sl) ==
  FoldLeft(LAMBDA s, v : IF v = s.prev THEN s ELSE [prev |-> v, out |-> Append(s.out, v)],
           [prev |-> sl[1], out |-> <<>>], sl).out

Dedup(sl) ==
  FoldLeft(LAMBDA s, v : IF v = s.prev THEN s ELSE [prev |-> v, out |-> Append(s.out, v)],
           [prev |-> (sl[1] + 1) % 2^Bits, out |-> <<>>], sl).out

Endpoints(base) ==
  Dedup(SortSeq([i \in 1..Len(base) |-> base[i].from]
                  \o [i \in 1..Len(base) |-> base[i].to], <))

ElementaryIntervals(es) ==
  [i \in 1..(2 * Len(es) - 1) |->
     IF i % 2 = 1 THEN Segment(es[(i + 1) \div 2], es[(i + 1) \div 2])
     ELSE Segment(es[i \div 2], es[i \div 2 + 1])]

(* insertNodes splits the leaves of a node in two halves.                  *)
Root(leaves) == <<1, Len(leaves)>>
IsLeaf(n) == n[1] = n[2]
Mid(n) == n[1] + (n[2] - n[1] + 1) \div 2
Left(n) == <<n[1], Mid(n) - 1>>
Right(n) == <<Mid(n), n[2]>>
NodeSegment(leaves, n) == Segment(leaves[n[1]].from, leaves[n[2]].to)
Ranges(leaves) == {n \in (1..Len(leaves)) \X (1..Len(leaves)) : n[1] <= n[2]}

SubsetOf(s, other) == other.from <= s.from /\ other.to >= s.to
IntersectsWith(s, other) ==
  \/ other.from <= s.to /\ s.from <= other.to
  \/ s.from <= other.to /\ other.from <= s.to
Disjoint(s, from, to) == from > s.to \/ to < s.from

(* The nodes at which insertInterval stores an interval.                   *)
InsertInterval(leaves, seg) ==
  LET at[n \in Ranges(leaves)] ==
        IF SubsetOf(NodeSegment(leaves, n), seg) THEN {n}
        ELSE IF IsLeaf(n) THEN {}
        ELSE UNION {at[c] : c \in {d \in {Left(n), Right(n)} :
                                     IntersectsWith(NodeSegment(leaves, d), seg)}}
  IN at[Root(leaves)]

(* AddRange for every rule, then Build.                                    *)
Build(base) ==
  IF base = <<>> THEN NoTree
  ELSE LET leaves == ElementaryIntervals(Endpoints(base))
           stored == [i \in 1..Len(base) |-> InsertInterval(leaves, base[i])]
       IN [leaves |-> leaves,
           overlap |-> [n \in Ranges(leaves) |-> {i \in 1..Len(base) : n \in stored[i]}]]

(* The rules that querySingle collects.                                    *)
Query(t, from, to) ==
  LET found[n \in Ranges(t.leaves)] ==
        IF Disjoint(NodeSegment(t.leaves, n), from, to) THEN {}
        ELSE t.overlap[n] \cup (IF IsLeaf(n) THEN {} ELSE found[Left(n)] \cup found[Right(n)])
  IN IF t = NoTree THEN {} ELSE found[Root(t.leaves)]

TreeContains(t, value) == Query(t, value, value) # {}

-----------------------------------------------------------------------------
BlocklistInit == tree = NoTree /\ count = 0 /\ rules = {}

Blocked(a) == TreeContains(tree, a)

Lists == UNION {[1..n -> Lines] : n \in 0..MaxLines}

(* The scanner reads the whole list, or stops with an error; a list that   *)
(* has only unreadable rules is refused.                                   *)
Reload(list, readError) ==
  LET valid == SelectSeq(list, LAMBDA l : l \notin {Comment, Invalid})
      base == [i \in 1..Len(valid) |-> parseCIDR(valid[i])]
      refused == base = <<>> /\ \E i \in 1..Len(list) : list[i] = Invalid
  IN IF readError \/ refused
     THEN UNCHANGED blocklistVars
     ELSE /\ tree' = Build(base)
          /\ count' = Len(base)
          /\ rules' = {base[i] : i \in 1..Len(base)}

BlocklistNext == \E list \in Lists, readError \in BOOLEAN : Reload(list, readError)

-----------------------------------------------------------------------------
(* An address is blocked exactly when a rule of the list loaded last       *)
(* contains it: the tree loses no rule and blocks no address beside them,  *)
(* also at both ends of the address space, with equal, nested and adjacent *)
(* ranges, and a list that cannot be read leaves the one before in force.  *)
BlockedIffListed ==
  /\ \A a \in Addr : Blocked(a) <=> \E r \in rules : r.from <= a /\ a <= r.to
  /\ rules = {} => tree = NoTree /\ count = 0
  /\ count >= Cardinality(rules)
=============================================================================
