--------------------------- MODULE Paging_proofs ---------------------------
(***************************************************************************)
(* WalkIsExact and ContextFits for every number of rows, every page size   *)
(* and all limits.  A listing is not unfolded: what the proofs use of it   *)
(* is that each row found is at the position that its number of            *)
(* predecessors gives.  The loop over the messages and the sum of their    *)
(* lengths are recursive functions; what holds after each of their turns   *)
(* is proved by least counterexample (UpTo).                               *)
(***************************************************************************)
EXTENDS Paging, FiniteSetTheorems, SequenceTheorems, WellFoundedInduction, TLAPS

(* What a table is: rowids, sequences and names are unique, and so are     *)
(* ids.                                                                    *)
Keyed(found) ==
  /\ IsFiniteSet(found)
  /\ \A r \in found : r.key \in Nat
  /\ \A r, s \in found : r.key = s.key => r = s

TypeOK ==
  /\ kind \in {"history", "files", "channels"}
  /\ limit \in Nat \ {0}
  /\ issued \in Nat

Row == [id : Nat, key : Nat, size : Nat \ {0}, at : Time, here : BOOLEAN]

RowsInv ==
  /\ Keyed(rows) /\ rows \subseteq Row
  /\ \A r \in rows : r.id \in 1..issued /\ r.here \in BOOLEAN
  /\ \A r, s \in rows : r.id = s.id => r = s
  /\ kind # "channels" => \A r \in rows : r.key \in 1..issued
  /\ kind = "channels" => \A r \in rows : r.here

Walk ==
  [state : {"walking", "done"}, token : Nat, seen : SUBSET Nat, got : Seq(Nat),
   begun : Seq(Nat), added : BOOLEAN, removed : BOOLEAN]

Left(token) == {r \in Here : token = NoToken \/ r.key < token}

(* A walk by key has still to fetch what is below its token; the row that  *)
(* the token names is there.                                               *)
KeyInv(w) ==
  /\ w.token # NoToken => \E r \in Here : r.key = w.token
  /\ \A t \in w.seen : w.token # NoToken /\ w.token <= t
  /\ w.begun = w.got \o Ids(InOrder(kind, Left(w.token)))

Place(r) == Cardinality(Before(kind, Here, r))

(* Without insertions what a walk by offset has is before its offset, and  *)
(* without deletions what it has missed is behind it.                      *)
OffsetInv(w) ==
  /\ \A t \in w.seen : t <= w.token
  /\ \A i \in DOMAIN w.begun : w.begun[i] <= issued
  /\ ~w.added => /\ IsInjective(w.got)
                 /\ \A r \in rows : Contains(w.got, r.id) => Place(r) < w.token
  /\ ~w.removed => \A r \in rows : Contains(w.begun, r.id) /\ ~Contains(w.got, r.id)
                                     => w.token <= Place(r)

WalkInv(w) == IF kind = "channels" THEN OffsetInv(w) ELSE KeyInv(w)

IInv ==
  /\ TypeOK
  /\ RowsInv
  /\ walk = NoWalk \/ walk \in Walk
  /\ Walking => walk.token # NoToken /\ WalkInv(walk)
  /\ WalkIsExact

-----------------------------------------------------------------------------
(* Sooner orders the rows of a table strictly and totally.                 *)
LEMMA SoonerOrders ==
  ASSUME NEW k, NEW found, Keyed(found), NEW r \in found, NEW s \in found
  PROVE  /\ r = s \/ Sooner(k, r, s) \/ Sooner(k, s, r)
         /\ ~(Sooner(k, r, s) /\ Sooner(k, s, r))
         /\ ~Sooner(k, r, r)
         /\ \A q \in found : Sooner(k, q, r) /\ Sooner(k, r, s) => Sooner(k, q, s)
  BY DEF Sooner, Keyed

LEMMA KeyedSubset ==
  ASSUME NEW found, Keyed(found), NEW some, some \subseteq found
  PROVE  Keyed(some)
<1>1. IsFiniteSet(some)
  BY FS_Subset DEF Keyed
<1> QED BY <1>1 DEF Keyed

(* The number of rows before a row is its position, which is its own.      *)
LEMMA Positions ==
  ASSUME NEW k, NEW found, Keyed(found)
  PROVE  /\ Cardinality(found) \in Nat
         /\ \A r \in found : /\ IsFiniteSet(Before(k, found, r))
                             /\ Cardinality(Before(k, found, r)) \in 0..(Cardinality(found) - 1)
         /\ \A r, s \in found : Sooner(k, r, s)
              => Cardinality(Before(k, found, r)) < Cardinality(Before(k, found, s))
         /\ \A r, s \in found : Cardinality(Before(k, found, r)) = Cardinality(Before(k, found, s))
              => r = s
<1> DEFINE B(r) == Before(k, found, r)
<1>1. IsFiniteSet(found) /\ Cardinality(found) \in Nat
  BY FS_CardinalityType DEF Keyed
<1>2. ASSUME NEW r \in found
      PROVE  IsFiniteSet(B(r)) /\ Cardinality(B(r)) \in 0..(Cardinality(found) - 1)
  <2>1. B(r) \subseteq found \ {r}
    BY SoonerOrders DEF Before
  <2>2. IsFiniteSet(found \ {r}) /\ Cardinality(found \ {r}) = Cardinality(found) - 1
    BY <1>1, FS_RemoveElement
  <2>3. IsFiniteSet(B(r)) /\ Cardinality(B(r)) <= Cardinality(found \ {r})
    BY <2>1, <2>2, FS_Subset
  <2>4. Cardinality(B(r)) \in Nat
    BY <2>3, FS_CardinalityType
  <2> QED BY <1>1, <2>2, <2>3, <2>4
<1>3. ASSUME NEW r \in found, NEW s \in found, Sooner(k, r, s)
      PROVE  Cardinality(B(r)) < Cardinality(B(s))
  <2>1. B(r) \subseteq B(s)
    BY <1>3, SoonerOrders DEF Before
  <2>2. r \in B(s) /\ r \notin B(r)
    BY <1>3, SoonerOrders DEF Before
  <2>3. IsFiniteSet(B(s)) /\ Cardinality(B(r)) \in Nat /\ Cardinality(B(s)) \in Nat
    BY <1>1, <1>2
  <2>4. /\ Cardinality(B(r)) <= Cardinality(B(s))
        /\ Cardinality(B(s)) = Cardinality(B(r)) => B(s) = B(r)
    BY <2>1, <2>3, FS_Subset
  <2> QED BY <2>2, <2>3, <2>4
<1>4. ASSUME NEW r \in found, NEW s \in found, Cardinality(B(r)) = Cardinality(B(s))
      PROVE  r = s
  <2>1. Cardinality(B(r)) \in Nat
    BY <1>1, <1>2
  <2>2. ~Sooner(k, r, s) /\ ~Sooner(k, s, r)
    BY <1>3, <1>4, <2>1
  <2> QED BY <2>2, SoonerOrders
<1> QED BY <1>1, <1>2, <1>3, <1>4

(* Every position up to the number of rows is taken.                       *)
LEMMA EveryPosition ==
  ASSUME NEW k, NEW found, Keyed(found), NEW i \in 1..Cardinality(found)
  PROVE  \E r \in found : Cardinality(Before(k, found, r)) = i - 1
<1> DEFINE n == Cardinality(found)
           at == [r \in found |-> Cardinality(Before(k, found, r)) + 1]
<1>1. n \in Nat /\ IsFiniteSet(found)
  BY Positions DEF Keyed
<1>2. at \in [found -> 1..n]
  <2>1. ASSUME NEW r \in found PROVE Cardinality(Before(k, found, r)) + 1 \in 1..n
    BY <1>1, Positions
  <2> QED BY <2>1
<1>3. ASSUME NEW r \in found, NEW s \in found, at[r] = at[s] PROVE r = s
  <2>1. /\ Cardinality(Before(k, found, r)) \in Int
        /\ Cardinality(Before(k, found, s)) \in Int
    BY <1>1, Positions
  <2>2. Cardinality(Before(k, found, r)) = Cardinality(Before(k, found, s))
    BY <1>3, <2>1
  <2> QED BY <2>2, Positions
<1>4. at \in Injection(found, 1..n)
  BY <1>2, <1>3 DEF Injection, IsInjective
<1>5. IsFiniteSet(1..n) /\ Cardinality(1..n) = n
  BY <1>1, FS_Interval
<1>6. at \in Surjection(found, 1..n)
  BY <1>4, <1>5, FS_Injection
<1>7. PICK r \in found : at[r] = i
  BY <1>6 DEF Surjection
<1>8. Cardinality(Before(k, found, r)) \in Int
  BY <1>1, Positions
<1> QED BY <1>7, <1>8

(* What ORDER BY returns: each row found once, at its position.            *)
LEMMA Ordered ==
  ASSUME NEW k, NEW found, Keyed(found)
  PROVE  /\ InOrder(k, found) \in Seq(found)
         /\ Len(InOrder(k, found)) = Cardinality(found)
         /\ \A i \in 1..Cardinality(found) :
              /\ InOrder(k, found)[i] \in found
              /\ Cardinality(Before(k, found, InOrder(k, found)[i])) = i - 1
         /\ \A r \in found :
              InOrder(k, found)[Cardinality(Before(k, found, r)) + 1] = r
<1> DEFINE n == Cardinality(found)
           s == InOrder(k, found)
<1>1. n \in Nat
  BY Positions
<1>2. ASSUME NEW i \in 1..n
      PROVE  s[i] \in found /\ Cardinality(Before(k, found, s[i])) = i - 1
  <2>1. s[i] = CHOOSE r \in found : Cardinality(Before(k, found, r)) = i - 1
    BY DEF InOrder
  <2>2. \E r \in found : Cardinality(Before(k, found, r)) = i - 1
    BY EveryPosition
  <2> QED BY <2>1, <2>2
<1>3. s \in [1..n -> found]
  BY <1>2 DEF InOrder
<1>4. s \in Seq(found) /\ Len(s) = n
  BY <1>1, <1>3
<1>5. ASSUME NEW r \in found PROVE s[Cardinality(Before(k, found, r)) + 1] = r
  <2> DEFINE i == Cardinality(Before(k, found, r)) + 1
  <2>1. i \in 1..n /\ i - 1 = Cardinality(Before(k, found, r))
    BY <1>1, Positions
  <2>2. s[i] \in found /\ Cardinality(Before(k, found, s[i])) = i - 1
    BY <1>2, <2>1
  <2> QED BY <2>1, <2>2, Positions
<1> QED BY <1>2, <1>4, <1>5

(* The rows behind the n-th are the rest of the listing.                   *)
LEMMA Rest ==
  ASSUME NEW k, NEW found, Keyed(found), NEW n \in 1..Cardinality(found), NEW some,
         some = {r \in found : Sooner(k, InOrder(k, found)[n], r)}
  PROVE  InOrder(k, some) = SubSeq(InOrder(k, found), n + 1, Len(InOrder(k, found)))
<1> DEFINE m == Cardinality(found)
           s == InOrder(k, found)
           first == Before(k, found, s[n]) \cup {s[n]}
<1>1. m \in Nat /\ IsFiniteSet(found) /\ s[n] \in found /\ Keyed(some)
  BY Positions, Ordered, KeyedSubset DEF Keyed
<1>2. IsFiniteSet(first) /\ Cardinality(first) = n
  <2>1. IsFiniteSet(Before(k, found, s[n])) /\ Cardinality(Before(k, found, s[n])) = n - 1
    <3>1. IsFiniteSet(Before(k, found, s[n]))
      BY <1>1, Positions
    <3> QED BY <3>1, Ordered
  <2>2. s[n] \notin Before(k, found, s[n])
    BY <1>1, SoonerOrders DEF Before
  <2> QED BY <2>1, <2>2, FS_AddElement
<1>3. first \subseteq found /\ some = found \ first
  BY <1>1, SoonerOrders DEF Before
<1>4. Cardinality(some) = m - n
  <2>1. found \cap first = first
    BY <1>3
  <2>2. Cardinality(found \ first) = m - Cardinality(found \cap first)
    BY <1>1, FS_Difference
  <2> QED BY <1>2, <1>3, <2>1, <2>2
<1>5. ASSUME NEW r \in some
      PROVE  Cardinality(Before(k, some, r)) = Cardinality(Before(k, found, r)) - n
  <2>1. first \subseteq Before(k, found, r)
    BY <1>1, SoonerOrders DEF Before
  <2>2. Before(k, some, r) = Before(k, found, r) \ first
    BY <1>3 DEF Before
  <2>3. IsFiniteSet(Before(k, found, r))
    BY Positions
  <2>4. Before(k, found, r) \cap first = first
    BY <2>1
  <2>5. Cardinality(Before(k, found, r) \ first)
          = Cardinality(Before(k, found, r)) - Cardinality(Before(k, found, r) \cap first)
    BY <2>3, FS_Difference
  <2> QED BY <1>2, <2>2, <2>4, <2>5
<1>6. ASSUME NEW i \in 1..(m - n) PROVE InOrder(k, some)[i] = s[n + i]
  <2>1. n + i \in 1..m
    BY <1>1
  <2>2. s[n + i] \in found /\ Cardinality(Before(k, found, s[n + i])) = n + i - 1
    BY <2>1, Ordered
  <2>3. Cardinality(Before(k, found, s[n])) = n - 1
    BY Ordered
  <2>4. s[n + i] \in some
    <3>1. ~Sooner(k, s[n + i], s[n])
      <4>1. Sooner(k, s[n + i], s[n]) => n + i - 1 < n - 1
        BY <1>1, <2>2, <2>3, Positions
      <4> QED BY <4>1
    <3>2. s[n + i] # s[n]
      BY <2>2, <2>3
    <3> QED BY <1>1, <2>2, <3>1, <3>2, SoonerOrders
  <2>5. Cardinality(Before(k, some, s[n + i])) + 1 = i
    BY <1>1, <1>5, <2>2, <2>4
  <2> QED BY <1>1, <2>4, <2>5, Ordered
<1>7. /\ InOrder(k, some) \in Seq(some) /\ Len(InOrder(k, some)) = m - n
      /\ s \in Seq(found) /\ Len(s) = m
  BY <1>1, <1>4, Ordered
<1>8. /\ SubSeq(s, n + 1, m) \in Seq(found) /\ Len(SubSeq(s, n + 1, m)) = m - n
      /\ \A i \in 1..(m - n) : SubSeq(s, n + 1, m)[i] = s[n + i]
  BY <1>1, <1>7, SubSeqProperties
<1>9. InOrder(k, some) \in Seq(found)
  BY <1>3, <1>7, SeqMonotonic
<1>10. \A i \in 1..Len(InOrder(k, some)) : InOrder(k, some)[i] = SubSeq(s, n + 1, m)[i]
  BY <1>6, <1>7, <1>8
<1>11. InOrder(k, some) = SubSeq(s, n + 1, m)
  BY <1>7, <1>8, <1>9, <1>10, SeqEqual
<1> QED BY <1>7, <1>11

-----------------------------------------------------------------------------
LEMMA InitIInv == Init => IInv
<1> SUFFICES ASSUME Init PROVE IInv
  OBVIOUS
<1>1. TypeOK
  BY PagingAssumption DEF Init, TypeOK
<1>2. RowsInv
  BY FS_EmptySet DEF Init, RowsInv, Keyed
<1>3. walk = NoWalk /\ walk.state = "off"
  BY DEF Init, NoWalk
<1> QED BY <1>1, <1>2, <1>3 DEF IInv, Walking, WalkIsExact

(* The largest rowid in use, if any.                                       *)
LEMMA LargestKey ==
  ASSUME RowsInv, rows # {}
  PROVE  \E r \in rows : \A s \in rows : s.key <= r.key
<1>1. Keyed(rows) /\ IsFiniteSet(rows) /\ Cardinality(rows) \in Nat
  BY FS_CardinalityType DEF RowsInv, Keyed
<1>2. Cardinality(rows) # 0
  BY <1>1, FS_EmptySet
<1>3. PICK r \in rows : Cardinality(Before("history", rows, r)) = 1 - 1
  <2>1. 1 \in 1..Cardinality(rows)
    BY <1>1, <1>2
  <2> QED BY <1>1, <2>1, EveryPosition
<1>4. IsFiniteSet(Before("history", rows, r))
  BY <1>1, Positions
<1>5. Before("history", rows, r) = {}
  BY <1>3, <1>4, FS_EmptySet
<1>6. \A s \in rows : ~(s.key > r.key)
  BY <1>5 DEF Before, Sooner
<1> QED BY <1>1, <1>6 DEF Keyed

(* A new row gets a key of its own; a sequence or a rowid is also larger   *)
(* than all that are there.                                                *)
LEMMA NewKeyIsNew ==
  ASSUME TypeOK, RowsInv, NEW key \in NewKeys
  PROVE  /\ key \in Nat
         /\ \A r \in rows : r.key # key
         /\ kind # "channels" => key \in 1..(issued + 1) /\ \A r \in rows : r.key < key
<1>1. CASE kind = "history"
  BY <1>1 DEF NewKeys, TypeOK, RowsInv
<1>2. CASE kind = "files"
  <2>1. \E k \in 1..(issued + 1) :
          /\ \A r \in rows : r.key < k
          /\ k = 1 \/ \E r \in rows : r.key = k - 1
    <3>1. CASE rows = {}
      <4>1. 1 \in 1..(issued + 1)
        BY DEF TypeOK
      <4> QED BY <3>1, <4>1
    <3>2. CASE rows # {}
      <4>1. PICK r \in rows : \A s \in rows : s.key <= r.key
        BY <3>2, LargestKey
      <4>2. \A s \in rows : s.key \in 1..issued
        BY <1>2 DEF RowsInv
      <4>3. r.key + 1 \in 1..(issued + 1) /\ r.key = (r.key + 1) - 1
        BY <4>2 DEF TypeOK
      <4>4. \A s \in rows : s.key < r.key + 1
        BY <4>1, <4>2 DEF TypeOK
      <4> QED BY <4>3, <4>4
    <3> QED BY <3>1, <3>2
  <2>2. NextRowid \in 1..(issued + 1) /\ \A r \in rows : r.key < NextRowid
    BY <2>1 DEF NextRowid
  <2>3. key = NextRowid
    BY <1>2 DEF NewKeys
  <2> QED BY <2>2, <2>3 DEF TypeOK, RowsInv, Keyed
<1>3. CASE kind = "channels"
  <2>1. key \in Name /\ key \notin {r.key : r \in rows}
    BY <1>3 DEF NewKeys
  <2> QED BY <1>3, <2>1, PagingAssumption
<1> QED BY <1>1, <1>2, <1>3 DEF TypeOK

LEMMA InsertRows ==
  ASSUME TypeOK, RowsInv, NEW key, NEW size \in Size, NEW at \in Time, NEW here \in BOOLEAN,
         Insert(key, size, at, here)
  PROVE  TypeOK' /\ RowsInv'
<1> DEFINE row == [id |-> issued + 1, key |-> key, size |-> size, at |-> at, here |-> here]
<1>1. /\ rows' = rows \cup {row} /\ issued' = issued + 1
      /\ kind' = kind /\ limit' = limit /\ key \in NewKeys
      /\ kind = "channels" => here
  BY DEF Insert
<1>2. /\ key \in Nat
      /\ \A r \in rows : r.key # key
      /\ kind # "channels" => key \in 1..(issued + 1)
  BY <1>1, NewKeyIsNew
<1>3. row.id = issued + 1 /\ row.key = key /\ row.here = here
  OBVIOUS
<1> HIDE DEF row
<1>4. TypeOK'
  BY <1>1 DEF TypeOK
<1>5. Keyed(rows)'
  <2>1. IsFiniteSet(rows')
    BY <1>1, FS_AddElement DEF RowsInv, Keyed
  <2> QED BY <1>1, <1>2, <1>3, <2>1 DEF RowsInv, Keyed
<1>6. /\ \A r \in rows : r.id \in 1..issued
      /\ row.id \in 1..(issued + 1) /\ \A r \in rows : r.id # row.id
  BY <1>3 DEF TypeOK, RowsInv
<1>7. \A r \in rows' : r.id \in 1..(issued') /\ r.here \in BOOLEAN
  BY <1>1, <1>3, <1>6 DEF TypeOK, RowsInv
<1>8. \A r, s \in rows' : r.id = s.id => r = s
  BY <1>1, <1>6 DEF RowsInv
<1>9. kind' # "channels" => \A r \in rows' : r.key \in 1..(issued')
  BY <1>1, <1>2, <1>3 DEF TypeOK, RowsInv
<1>10. kind' = "channels" => \A r \in rows' : r.here
  BY <1>1, <1>3 DEF RowsInv
<1>11. rows' \subseteq Row
  <2>1. size \in Nat \ {0} /\ issued + 1 \in Nat
    BY PagingAssumption DEF TypeOK
  <2>2. row \in Row
    BY <1>2, <2>1 DEF Row, row
  <2> QED BY <1>1, <2>2 DEF RowsInv
<1> QED BY <1>4, <1>5, <1>7, <1>8, <1>9, <1>10, <1>11 DEF RowsInv

LEMMA DeleteRows ==
  ASSUME TypeOK, RowsInv, NEW gone, Delete(gone)
  PROVE  TypeOK' /\ RowsInv'
<1>1. rows' = rows \ gone /\ kind' = kind /\ limit' = limit /\ issued' = issued
  BY DEF Delete
<1>2. rows' \subseteq rows
  BY <1>1
<1>3. Keyed(rows)'
  BY <1>2, KeyedSubset DEF RowsInv, Keyed
<1>4. TypeOK'
  BY <1>1 DEF TypeOK
<1> QED BY <1>1, <1>2, <1>3, <1>4 DEF RowsInv

(* What an insertion or a deletion does to a walk.                         *)
LEMMA WritingKeepsWalk ==
  ASSUME walk = NoWalk \/ walk \in Walk, MayWrite, NEW flag \in {"added", "removed"},
         walk' = IF Walking THEN [walk EXCEPT ![flag] = TRUE] ELSE walk
  PROVE  /\ walk' = NoWalk \/ walk' \in Walk
         /\ WalkIsExact'
         /\ Walking' <=> Walking
         /\ Walking => /\ walk \in Walk
                       /\ walk'.token = walk.token /\ walk'.seen = walk.seen
                       /\ walk'.got = walk.got /\ walk'.begun = walk.begun
                       /\ walk'[flag] /\ \A f \in {"added", "removed"} \ {flag} : walk'[f] = walk[f]
<1>1. CASE Walking
  <2>1. walk \in Walk
    BY <1>1 DEF Walking, NoWalk
  <2>2. walk' = [walk EXCEPT ![flag] = TRUE]
    BY <1>1
  <2>3. walk' \in Walk /\ walk'.state = "walking"
    BY <1>1, <2>1, <2>2 DEF Walk, Walking
  <2> QED BY <1>1, <2>1, <2>2, <2>3 DEF Walking, WalkIsExact, Walk
<1>2. CASE ~Walking
  <2>1. walk' = walk /\ walk.state = "off"
    BY <1>2 DEF MayWrite, Walking
  <2> QED BY <1>2, <2>1 DEF Walking, WalkIsExact
<1> QED BY <1>1, <1>2

(* New keys are above the token, and rows of the listing stay.             *)
LEMMA InsertKeyInv ==
  ASSUME TypeOK, RowsInv, kind # "channels", NEW w, w.token # NoToken, KeyInv(w),
         NEW key, NEW size \in Size, NEW at \in Time, NEW here \in BOOLEAN, Insert(key, size, at, here),
         NEW v, v.token = w.token, v.seen = w.seen, v.got = w.got, v.begun = w.begun
  PROVE  KeyInv(v)'
<1> DEFINE row == [id |-> issued + 1, key |-> key, size |-> size, at |-> at, here |-> here]
<1>1. rows' = rows \cup {row} /\ key \in NewKeys
  BY DEF Insert
<1>2. \A r \in rows : r.key < key /\ r.key \in Nat
  BY <1>1, NewKeyIsNew DEF RowsInv, Keyed
<1>3. PICK r \in Here : r.key = w.token
  BY DEF KeyInv
<1>4. row.key = key /\ key \in Nat
  BY <1>1, NewKeyIsNew
<1>5. ~(row.key < w.token)
  BY <1>2, <1>3, <1>4 DEF Here
<1> HIDE DEF row
<1>6. r \in Here' /\ Left(w.token)' = Left(w.token)
  BY <1>1, <1>3, <1>5 DEF Here, Left
<1>7. kind' = kind
  BY DEF Insert
<1> QED BY <1>3, <1>6, <1>7 DEF KeyInv

LEMMA DeleteKeyInv ==
  ASSUME TypeOK, RowsInv, kind # "channels", NEW w, w.token # NoToken, KeyInv(w),
         NEW gone, Delete(gone),
         NEW v, v.token = w.token, v.seen = w.seen, v.got = w.got, v.begun = w.begun
  PROVE  KeyInv(v)'
<1>1. rows' = rows \ {r \in rows : ~r.here}
  BY DEF Delete
<1>2. Here' = Here
  BY <1>1 DEF Here
<1>3. Left(w.token)' = Left(w.token) /\ kind' = kind
  BY <1>2 DEF Left, Delete
<1> QED BY <1>2, <1>3 DEF KeyInv

LEMMA HereIsKeyed == ASSUME RowsInv PROVE Keyed(Here)
  BY KeyedSubset DEF RowsInv, Here

(* More rows put a row further behind.                                     *)
LEMMA PlaceIsMonotonic ==
  ASSUME NEW k, NEW found, Keyed(found), NEW some, some \subseteq found, NEW r \in some
  PROVE  Cardinality(Before(k, some, r)) <= Cardinality(Before(k, found, r))
<1>1. IsFiniteSet(Before(k, found, r))
  BY Positions
<1>2. Before(k, some, r) \subseteq Before(k, found, r)
  BY DEF Before
<1> QED BY <1>1, <1>2, FS_Subset

LEMMA PlacesAreNumbers ==
  ASSUME NEW k, NEW found, Keyed(found)
  PROVE  \A r \in found : Cardinality(Before(k, found, r)) \in Int
  BY Positions

LEMMA PlaceType ==
  ASSUME RowsInv, NEW r \in rows, r.here
  PROVE  Place(r) \in 0..(Cardinality(Here) - 1)
<1>1. r \in Here /\ Keyed(Here)
  BY HereIsKeyed DEF Here
<1> QED BY <1>1, Positions DEF Place

LEMMA InsertOffsetInv ==
  ASSUME TypeOK, RowsInv, kind = "channels", NEW w \in Walk, OffsetInv(w),
         NEW key, NEW size \in Size, NEW at \in Time, NEW here \in BOOLEAN, Insert(key, size, at, here),
         NEW v, v.token = w.token, v.seen = w.seen, v.got = w.got, v.begun = w.begun,
         v.added, v.removed = w.removed
  PROVE  OffsetInv(v)'
<1> DEFINE row == [id |-> issued + 1, key |-> key, size |-> size, at |-> at, here |-> here]
<1>1. rows' = rows \cup {row} /\ row.id = issued + 1 /\ issued' = issued + 1 /\ kind' = kind
  BY DEF Insert
<1> HIDE DEF row
<1>2. Here = rows /\ Here' = rows' /\ RowsInv'
  <2>1. RowsInv'
    BY InsertRows
  <2>2. (\A r \in rows : r.here) /\ (\A r \in rows' : r.here)
    BY <1>1, <2>1 DEF RowsInv
  <2> QED BY <2>1, <2>2 DEF Here
<1>3. \A i \in DOMAIN w.begun : w.begun[i] <= issued /\ w.begun[i] \in Nat
  BY DEF OffsetInv, Walk
<1>4. \A i \in DOMAIN v.begun : v.begun[i] <= issued'
  BY <1>1, <1>3 DEF TypeOK
<1>5. ASSUME ~v.removed, NEW r \in rows', Contains(v.begun, r.id), ~Contains(v.got, r.id)
      PROVE  v.token <= Place(r)'
  <2>1. w.begun \in Seq(Nat)
    BY DEF Walk
  <2>2. ~Contains(w.begun, issued + 1)
    BY <1>3, <2>1 DEF Contains, TypeOK
  <2>3. r \in rows
    BY <1>1, <1>5, <2>2
  <2>4. w.token <= Place(r)
    BY <1>5, <2>3 DEF OffsetInv
  <2>5. Place(r) <= Place(r)'
    <3>1. Keyed(rows') /\ rows \subseteq rows'
      BY <1>1, <1>2 DEF RowsInv
    <3>2. Cardinality(Before(kind, rows, r)) <= Cardinality(Before(kind, rows', r))
      BY <2>3, <3>1, PlaceIsMonotonic
    <3> QED BY <1>1, <1>2, <3>2 DEF Place
  <2>6. Place(r) \in Int /\ w.token \in Int /\ Place(r)' \in Int
    <3>1. Keyed(rows) /\ Keyed(rows')
      BY <1>2 DEF RowsInv
    <3>2. Cardinality(Before(kind, rows, r)) \in Int /\ Cardinality(Before(kind, rows', r)) \in Int
      <4>1. r \in rows /\ r \in rows'
        BY <1>5, <2>3
      <4> QED BY <3>1, <4>1, PlacesAreNumbers
    <3> QED BY <1>1, <1>2, <3>2 DEF Place, Walk
  <2> QED BY <2>4, <2>5, <2>6
<1> QED BY <1>4, <1>5 DEF OffsetInv

LEMMA DeleteOffsetInv ==
  ASSUME TypeOK, RowsInv, kind = "channels", NEW w \in Walk, OffsetInv(w),
         NEW gone, Delete(gone),
         NEW v, v.token = w.token, v.seen = w.seen, v.got = w.got, v.begun = w.begun,
         v.added = w.added, v.removed
  PROVE  OffsetInv(v)'
<1>1. rows' = rows \ gone /\ rows' \subseteq rows /\ issued' = issued /\ kind' = kind
  BY DEF Delete
<1>2. Here = rows /\ Here' = rows' /\ RowsInv'
  BY <1>1, DeleteRows DEF RowsInv, Here
<1>3. ASSUME ~v.added, NEW r \in rows', Contains(v.got, r.id)
      PROVE  Place(r)' < v.token
  <2>1. r \in rows
    BY <1>1
  <2>2. Place(r) < w.token
    BY <1>3, <2>1 DEF OffsetInv
  <2>3. Keyed(rows) /\ Keyed(rows')
    BY <1>2 DEF RowsInv
  <2>4. Cardinality(Before(kind, rows', r)) <= Cardinality(Before(kind, rows, r))
    BY <1>1, <2>3, PlaceIsMonotonic
  <2>5. Cardinality(Before(kind, rows, r)) \in Int /\ Cardinality(Before(kind, rows', r)) \in Int
    BY <1>3, <2>1, <2>3, PlacesAreNumbers
  <2>6. w.token \in Int
    BY DEF Walk
  <2> QED BY <1>1, <1>2, <2>2, <2>4, <2>5, <2>6 DEF Place
<1> QED BY <1>1, <1>3 DEF OffsetInv

LEMMA InsertIInv ==
  ASSUME IInv, NEW key, NEW size \in Size, NEW at \in Time, NEW here \in BOOLEAN, Insert(key, size, at, here)
  PROVE  IInv'
<1>1. TypeOK' /\ RowsInv' /\ kind' = kind
  BY InsertRows DEF IInv, Insert
<1>2. /\ MayWrite
      /\ walk' = IF Walking THEN [walk EXCEPT !["added"] = TRUE] ELSE walk
  BY DEF Insert
<1>3. /\ walk' = NoWalk \/ walk' \in Walk
      /\ WalkIsExact'
      /\ Walking' <=> Walking
      /\ Walking => /\ walk \in Walk
                    /\ walk'.token = walk.token /\ walk'.seen = walk.seen
                    /\ walk'.got = walk.got /\ walk'.begun = walk.begun
                    /\ walk'.added /\ walk'.removed = walk.removed
  BY <1>2, WritingKeepsWalk DEF IInv
<1>4. ASSUME Walking PROVE walk'.token # NoToken /\ WalkInv(walk)'
  <2>1. walk \in Walk /\ walk.token # NoToken /\ WalkInv(walk) /\ TypeOK /\ RowsInv
    BY <1>3, <1>4 DEF IInv
  <2>2. CASE kind = "channels"
    <3>1. OffsetInv(walk)'
      BY <1>3, <1>4, <2>1, <2>2, InsertOffsetInv DEF WalkInv
    <3> QED BY <1>1, <1>3, <1>4, <2>1, <2>2, <3>1 DEF WalkInv
  <2>3. CASE kind # "channels"
    <3>1. KeyInv(walk)
      BY <2>1, <2>3 DEF WalkInv
    <3>2. KeyInv(walk)'
      BY <1>3, <1>4, <2>1, <2>3, <3>1, InsertKeyInv
    <3> QED BY <1>1, <1>3, <1>4, <2>1, <2>3, <3>2 DEF WalkInv
  <2> QED BY <2>2, <2>3
<1> QED BY <1>1, <1>3, <1>4 DEF IInv

LEMMA DeleteIInv ==
  ASSUME IInv, NEW gone, Delete(gone)
  PROVE  IInv'
<1>1. TypeOK' /\ RowsInv' /\ kind' = kind
  BY DeleteRows DEF IInv, Delete
<1>2. /\ MayWrite
      /\ walk' = IF Walking THEN [walk EXCEPT !["removed"] = TRUE] ELSE walk
  BY DEF Delete
<1>3. /\ walk' = NoWalk \/ walk' \in Walk
      /\ WalkIsExact'
      /\ Walking' <=> Walking
      /\ Walking => /\ walk \in Walk
                    /\ walk'.token = walk.token /\ walk'.seen = walk.seen
                    /\ walk'.got = walk.got /\ walk'.begun = walk.begun
                    /\ walk'.removed /\ walk'.added = walk.added
  BY <1>2, WritingKeepsWalk DEF IInv
<1>4. ASSUME Walking PROVE walk'.token # NoToken /\ WalkInv(walk)'
  <2>1. walk \in Walk /\ walk.token # NoToken /\ WalkInv(walk) /\ TypeOK /\ RowsInv
    BY <1>3, <1>4 DEF IInv
  <2>2. CASE kind = "channels"
    <3>1. OffsetInv(walk)'
      BY <1>3, <1>4, <2>1, <2>2, DeleteOffsetInv DEF WalkInv
    <3> QED BY <1>1, <1>3, <1>4, <2>1, <2>2, <3>1 DEF WalkInv
  <2>3. CASE kind # "channels"
    <3>1. KeyInv(walk)
      BY <2>1, <2>3 DEF WalkInv
    <3>2. KeyInv(walk)'
      BY <1>3, <1>4, <2>1, <2>3, <3>1, DeleteKeyInv
    <3> QED BY <1>1, <1>3, <1>4, <2>1, <2>3, <3>2 DEF WalkInv
  <2> QED BY <2>2, <2>3
<1> QED BY <1>1, <1>3, <1>4 DEF IInv

-----------------------------------------------------------------------------
(* The row that is fetched beyond the page tells whether there are more,   *)
(* and is not on the page.                                                 *)
LEMMA FetchedPage ==
  ASSUME limit \in Nat \ {0}, NEW S, NEW s \in Seq(S)
  PROVE  /\ More(Prefix(s, limit + 1)) <=> Len(s) > limit
         /\ Prefix(Prefix(s, limit + 1), limit) = IF Len(s) > limit THEN SubSeq(s, 1, limit) ELSE s
<1>1. Len(s) \in Nat /\ limit \in Nat
  OBVIOUS
<1>2. CASE Len(s) > limit
  <2>1. Prefix(s, limit + 1) = SubSeq(s, 1, limit + 1)
    BY <1>1, <1>2 DEF Prefix, Least
  <2>2. \A i \in 1..(limit + 1) : s[i] \in S
    BY <1>1, <1>2, ElementOfSeq
  <2>3. /\ SubSeq(s, 1, limit + 1) \in Seq(S) /\ Len(SubSeq(s, 1, limit + 1)) = limit + 1
        /\ \A i \in 1..(limit + 1) : SubSeq(s, 1, limit + 1)[i] = s[i]
    BY <1>1, <2>2, SubSeqProperties
  <2>4. SubSeq(SubSeq(s, 1, limit + 1), 1, limit) = SubSeq(s, 1, limit)
    <3>1. 1 \in 1..Len(s) /\ limit + 1 \in 1..Len(s)
      BY <1>1, <1>2
    <3>2. 1 \in 1..(limit + 1) - 1 + 1 /\ limit \in 1..(limit + 1) - 1 + 1
      BY <1>1
    <3> QED BY <1>1, <3>1, <3>2, SubSeqOfSubSeq
  <2> QED BY <1>1, <1>2, <2>1, <2>3, <2>4 DEF Prefix, Least, More
<1>3. CASE ~(Len(s) > limit)
  <2>1. Prefix(s, limit + 1) = s /\ Prefix(s, limit) = s
    <3>1. Least(limit + 1, Len(s)) = Len(s) /\ Least(limit, Len(s)) = Len(s)
      BY <1>1, <1>3 DEF Least
    <3> QED BY <3>1, SubSeqFull DEF Prefix
  <2> QED BY <1>1, <1>3, <2>1 DEF More
<1> QED BY <1>2, <1>3

LEMMA IdsOfRows ==
  ASSUME RowsInv, NEW s \in Seq(rows)
  PROVE  /\ Ids(s) \in Seq(Nat) /\ Len(Ids(s)) = Len(s)
         /\ \A i \in 1..Len(s) : Ids(s)[i] = s[i].id
<1>1. Len(s) \in Nat /\ DOMAIN s = 1..Len(s)
  OBVIOUS
<1>2. \A i \in 1..Len(s) : s[i].id \in Nat
  BY ElementOfSeq DEF RowsInv
<1>3. Ids(s) \in [1..Len(s) -> Nat]
  BY <1>1, <1>2 DEF Ids
<1>4. Ids(s) \in Seq(Nat) /\ Len(Ids(s)) = Len(s)
  BY <1>1, <1>3
<1> QED BY <1>1, <1>4 DEF Ids

LEMMA IdsOfConcat ==
  ASSUME RowsInv, NEW s \in Seq(rows), NEW t \in Seq(rows)
  PROVE  Ids(s \o t) = Ids(s) \o Ids(t)
<1>1. /\ s \o t \in Seq(rows) /\ Len(s \o t) = Len(s) + Len(t)
      /\ \A i \in 1..(Len(s) + Len(t)) : (s \o t)[i] = IF i <= Len(s) THEN s[i] ELSE t[i - Len(s)]
  BY ConcatProperties
<1>2. Ids(s \o t) \in Seq(Nat) /\ Ids(s) \in Seq(Nat) /\ Ids(t) \in Seq(Nat)
  BY <1>1, IdsOfRows
<1>3. /\ Ids(s) \o Ids(t) \in Seq(Nat) /\ Len(Ids(s) \o Ids(t)) = Len(s) + Len(t)
      /\ \A i \in 1..(Len(s) + Len(t)) :
           (Ids(s) \o Ids(t))[i] = IF i <= Len(s) THEN Ids(s)[i] ELSE Ids(t)[i - Len(s)]
  <2>1. Len(Ids(s)) = Len(s) /\ Len(Ids(t)) = Len(t)
    BY IdsOfRows
  <2>2. /\ Ids(s) \o Ids(t) \in Seq(Nat) /\ Len(Ids(s) \o Ids(t)) = Len(Ids(s)) + Len(Ids(t))
        /\ \A i \in 1..(Len(Ids(s)) + Len(Ids(t))) : (Ids(s) \o Ids(t))[i]
             = IF i <= Len(Ids(s)) THEN Ids(s)[i] ELSE Ids(t)[i - Len(Ids(s))]
    BY <1>2, ConcatProperties
  <2> QED BY <2>1, <2>2
<1>4. ASSUME NEW i \in 1..(Len(s) + Len(t)) PROVE Ids(s \o t)[i] = (Ids(s) \o Ids(t))[i]
  <2>1. Ids(s \o t)[i] = (s \o t)[i].id
    BY <1>1, IdsOfRows
  <2>2. CASE i <= Len(s)
    <3>1. i \in 1..Len(s)
      BY <2>2
    <3> QED BY <1>1, <1>3, <2>1, <2>2, <3>1, IdsOfRows
  <2>3. CASE ~(i <= Len(s))
    <3>1. i - Len(s) \in 1..Len(t)
      BY <2>3
    <3> QED BY <1>1, <1>3, <2>1, <2>3, <3>1, IdsOfRows
  <2> QED BY <2>2, <2>3
<1>5. Len(Ids(s \o t)) = Len(s) + Len(t)
  BY <1>1, IdsOfRows
<1> QED BY <1>2, <1>3, <1>4, <1>5, SeqEqual

(* The answer without the row fetched beyond the page.                     *)
PageOf(found) == IF Len(found) > limit THEN SubSeq(found, 1, limit) ELSE found

TokenAfter(found, token) ==
  IF ~(Len(found) > limit) THEN NoToken
  ELSE IF kind = "channels" THEN token + limit
  ELSE found[limit].key

LEMMA Answered ==
  ASSUME TypeOK, NEW token, After(token) \in Seq(rows)
  PROVE  Response(token) = [page |-> PageOf(After(token)),
                            next |-> TokenAfter(After(token), token)]
<1> DEFINE found == After(token)
<1>1. limit \in Nat \ {0} /\ Len(found) \in Nat
  BY DEF TypeOK
<1>2. /\ More(Prefix(found, limit + 1)) <=> Len(found) > limit
      /\ Prefix(Prefix(found, limit + 1), limit) = PageOf(found)
  BY <1>1, FetchedPage DEF PageOf
<1>3. ASSUME Len(found) > limit PROVE PageOf(found)[limit] = found[limit]
  <2>1. \A j \in 1..limit : found[j] \in rows
    BY <1>1, <1>3, ElementOfSeq
  <2>2. \A j \in 1..limit : SubSeq(found, 1, limit)[j] = found[j]
    BY <1>1, <2>1, SubSeqProperties
  <2> QED BY <1>1, <1>3, <2>2 DEF PageOf
<1> HIDE DEF found
<1>4. Response(token) =
        [page |-> PageOf(found),
         next |-> CASE ~(Len(found) > limit) -> NoToken
                    [] Len(found) > limit /\ kind = "channels" -> token + limit
                    [] OTHER -> PageOf(found)[limit].key]
  BY <1>2 DEF Response, found
<1>5. TokenAfter(found, token) =
        CASE ~(Len(found) > limit) -> NoToken
          [] Len(found) > limit /\ kind = "channels" -> token + limit
          [] OTHER -> PageOf(found)[limit].key
  BY <1>3 DEF TokenAfter
<1> QED BY <1>4, <1>5 DEF found

(* A client's turn, when no token comes a second time.                     *)
LEMMA PageTaken ==
  ASSUME TypeOK, RowsInv, NEW w \in Walk, w.state = "walking", Page(w),
         NEW found, found = After(w.token), found \in Seq(rows),
         TokenAfter(found, w.token) \in Nat,
         TokenAfter(found, w.token) \notin w.seen \/ TokenAfter(found, w.token) = NoToken
  PROVE  /\ walk' \in Walk
         /\ walk'.token = TokenAfter(found, w.token)
         /\ walk'.seen = w.seen \cup {TokenAfter(found, w.token)}
         /\ walk'.got = w.got \o Ids(PageOf(found))
         /\ walk'.state = IF TokenAfter(found, w.token) = NoToken THEN "done" ELSE "walking"
         /\ walk'.begun = w.begun /\ walk'.added = w.added /\ walk'.removed = w.removed
<1> DEFINE next == TokenAfter(found, w.token)
           page == PageOf(found)
<1>1. Response(w.token) = [page |-> page, next |-> next]
  BY Answered
<1>2. page \in Seq(rows)
  <2>1. CASE Len(found) > limit
    <3>1. \A j \in 1..limit : found[j] \in rows
      BY <2>1, ElementOfSeq DEF TypeOK
    <3>2. SubSeq(found, 1, limit) \in Seq(rows)
      BY <3>1, SubSeqProperties DEF TypeOK
    <3> QED BY <2>1, <3>2 DEF PageOf
  <2>2. CASE ~(Len(found) > limit)
    BY <2>2 DEF PageOf
  <2> QED BY <2>1, <2>2
<1>3. Ids(page) \in Seq(Nat) /\ w.got \in Seq(Nat)
  BY <1>2, IdsOfRows DEF Walk
<1>4. w.got \o Ids(page) \in Seq(Nat)
  BY <1>3, ConcatProperties
<1> HIDE DEF next, page
<1>5. next \in Nat /\ (next \notin w.seen \/ next = NoToken)
  BY DEF next
<1>6. walk' = [w EXCEPT
        !.got = @ \o Ids(page),
        !.token = next,
        !.seen = @ \cup {next},
        !.state = CASE next = NoToken -> "done"
                    [] next # NoToken /\ next \in w.seen -> "repeated"
                    [] OTHER -> "walking"]
  BY <1>1 DEF Page
<1>7. walk' = [w EXCEPT
        !.got = w.got \o Ids(page),
        !.token = next,
        !.seen = w.seen \cup {next},
        !.state = IF next = NoToken THEN "done" ELSE "walking"]
  BY <1>5, <1>6 DEF Walk
<1>8. walk' \in Walk
  BY <1>4, <1>5, <1>7 DEF Walk
<1> QED BY <1>7, <1>8 DEF Walk, next, page

(* What a page by key leaves is what is below the last row of the page.    *)
LEMMA KeyPage ==
  ASSUME TypeOK, RowsInv, kind # "channels", UNCHANGED <<kind, limit, rows, issued>>,
         NEW w \in Walk, w.state = "walking", KeyInv(w), Page(w)
  PROVE  /\ walk' \in Walk
         /\ Walking' => walk'.token # NoToken /\ KeyInv(walk)'
         /\ WalkIsExact'
<1> DEFINE below == Left(w.token)
           found == InOrder(kind, below)
           next == TokenAfter(found, w.token)
<1>1. After(w.token) = found
  BY DEF After, Left
<1>2. below \subseteq rows /\ Keyed(below)
  BY KeyedSubset DEF Left, Here, RowsInv
<1>3. /\ found \in Seq(below) /\ found \in Seq(rows) /\ Len(found) = Cardinality(below)
      /\ Len(found) \in Nat /\ limit \in Nat \ {0}
      /\ \A i \in 1..Len(found) : found[i] \in below
  BY <1>2, Ordered, SeqMonotonic DEF TypeOK
<1>4. ASSUME Len(found) > limit
      PROVE  /\ next = found[limit].key /\ found[limit] \in Here
             /\ next \in Nat \ {0}
             /\ w.token = NoToken \/ next < w.token
  <2>1. found[limit] \in below
    BY <1>3, <1>4
  <2>2. next = found[limit].key
    BY <1>4 DEF TokenAfter
  <2> QED BY <1>2, <2>1, <2>2 DEF Left, Here, RowsInv, TypeOK
<1>5. next \in Nat /\ (next \notin w.seen \/ next = NoToken)
  <2>1. CASE Len(found) > limit
    <3>1. \A t \in w.seen : t \in Nat /\ w.token \in Nat /\ w.token # NoToken /\ w.token <= t
      BY DEF KeyInv, Walk
    <3> QED BY <1>4, <2>1, <3>1
  <2>2. CASE ~(Len(found) > limit)
    BY <2>2 DEF TokenAfter, NoToken
  <2> QED BY <2>1, <2>2
<1>6. /\ walk' \in Walk
      /\ walk'.token = next
      /\ walk'.seen = w.seen \cup {next}
      /\ walk'.got = w.got \o Ids(PageOf(found))
      /\ walk'.state = IF next = NoToken THEN "done" ELSE "walking"
      /\ walk'.begun = w.begun
  <2> HIDE DEF found
  <2> QED BY <1>1, <1>3, <1>5, PageTaken
<1>7. w.begun = w.got \o Ids(found)
  BY DEF KeyInv
<1>8. CASE Len(found) > limit
  <2> DEFINE rest == SubSeq(found, limit + 1, Len(found))
             page == SubSeq(found, 1, limit)
  <2>1. PageOf(found) = page /\ walk'.state = "walking"
    BY <1>4, <1>6, <1>8 DEF PageOf, NoToken
  <2>2. Left(next) = {r \in below : Sooner(kind, found[limit], r)}
    <3>1. \A r \in Here : r.key < next <=> r \in below /\ found[limit].key > r.key
      BY <1>4, <1>8, <1>2 DEF Left, Here, RowsInv, Keyed, Walk
    <3>2. next # NoToken
      BY <1>4, <1>8 DEF NoToken
    <3> QED BY <3>1, <3>2 DEF Left, Sooner
  <2>3. InOrder(kind, Left(next)) = rest
    <3>1. limit \in 1..Cardinality(below)
      BY <1>3, <1>8
    <3> QED BY <1>2, <2>2, <3>1, Rest
  <2>4. page \in Seq(rows) /\ rest \in Seq(rows)
    <3>1. \A j \in 1..Len(found) : found[j] \in rows
      BY <1>3, ElementOfSeq
    <3> QED BY <1>3, <1>8, <3>1, SubSeqProperties
  <2>5. page \o rest = found
    <3>1. page \o rest = SubSeq(found, 1, Len(found))
      BY <1>3, <1>8, ConcatAdjacentSubSeq
    <3> QED BY <1>3, <3>1, SubSeqFull
  <2>6. w.begun = (w.got \o Ids(page)) \o Ids(rest)
    <3>1. Ids(found) = Ids(page) \o Ids(rest)
      BY <2>4, <2>5, IdsOfConcat
    <3>2. w.got \in Seq(Nat) /\ Ids(page) \in Seq(Nat) /\ Ids(rest) \in Seq(Nat)
      BY <2>4, IdsOfRows DEF Walk
    <3>3. (w.got \o Ids(page)) \o Ids(rest) = w.got \o (Ids(page) \o Ids(rest))
      <4> DEFINE a == w.got
                 b == Ids(page)
                 c == Ids(rest)
      <4>1. a \in Seq(Nat) /\ b \in Seq(Nat) /\ c \in Seq(Nat)
        BY <3>2
      <4> HIDE DEF a, b, c
      <4>2. (a \o b) \o c = a \o (b \o c)
        BY <4>1, ConcatAssociative, SMTT(40)
      <4> QED BY <4>2 DEF a, b, c
    <3> QED BY <1>7, <3>1, <3>3
  <2>7. walk'.begun = walk'.got \o Ids(InOrder(kind, Left(next)))
    BY <1>6, <2>1, <2>3, <2>6
  <2>8. \A t \in walk'.seen : next # NoToken /\ next <= t
    <3>1. \A t \in w.seen : t \in Nat /\ w.token \in Nat /\ w.token # NoToken /\ w.token <= t
      BY DEF KeyInv, Walk
    <3> QED BY <1>4, <1>6, <1>8, <3>1 DEF NoToken
  <2>9. \E r \in Here : r.key = next
    BY <1>4, <1>8
  <2> HIDE DEF next, found
  <2>10. KeyInv(walk)'
    BY <1>6, <2>7, <2>8, <2>9 DEF KeyInv, Left, Here
  <2> QED BY <1>4, <1>6, <1>8, <2>1, <2>10 DEF WalkIsExact, NoToken
<1>9. CASE ~(Len(found) > limit)
  <2>1. next = NoToken /\ PageOf(found) = found
    BY <1>9 DEF TokenAfter, PageOf
  <2> QED BY <1>6, <1>7, <2>1 DEF Walking, WalkIsExact
<1> QED BY <1>8, <1>9

(* What a page by offset returns: the rows from the token-th on.           *)
LEMMA OffsetAfter ==
  ASSUME TypeOK, RowsInv, kind = "channels", NEW token \in Nat,
         NEW n, n = IF token <= Cardinality(Here) THEN Cardinality(Here) - token ELSE 0
  PROVE  /\ n \in Nat
         /\ After(token) \in Seq(rows) /\ Len(After(token)) = n
         /\ \A i \in 1..n : /\ After(token)[i] \in rows
                            /\ Place(After(token)[i]) = token + i - 1
         /\ \A r \in rows : token <= Place(r) => /\ Place(r) - token + 1 \in 1..n
                                                 /\ After(token)[Place(r) - token + 1] = r
<1> DEFINE N == Cardinality(Here)
<1>1. Here = rows /\ Keyed(Here) /\ N \in Nat
  BY HereIsKeyed, Positions DEF Here, RowsInv
<1>2. /\ Listing \in Seq(Here) /\ Len(Listing) = N
      /\ \A i \in 1..N : Listing[i] \in Here /\ Place(Listing[i]) = i - 1
      /\ \A r \in Here : Listing[Place(r) + 1] = r
  BY <1>1, Ordered DEF Listing, Place
<1>3. \A r \in Here : Place(r) \in 0..(N - 1)
  BY <1>1, Positions DEF Place
<1>4. After(token) = SubSeq(Listing, token + 1, N)
  BY <1>2 DEF After
<1> HIDE DEF N
<1>5. \A i \in (token + 1)..N : Listing[i] \in rows
  BY <1>1, <1>2
<1>6. /\ After(token) \in Seq(rows)
      /\ Len(After(token)) = IF token + 1 <= N THEN N - (token + 1) + 1 ELSE 0
      /\ \A i \in 1..(N - (token + 1) + 1) : After(token)[i] = Listing[token + 1 + i - 1]
  BY <1>1, <1>4, <1>5, SubSeqProperties
<1>7. n \in Nat /\ Len(After(token)) = n
  BY <1>1, <1>6 DEF N
<1>8. ASSUME NEW i \in 1..n
      PROVE  After(token)[i] \in rows /\ Place(After(token)[i]) = token + i - 1
  <2>1. i \in 1..(N - (token + 1) + 1) /\ token + i \in 1..N
    BY <1>1, <1>7 DEF N
  <2>2. After(token)[i] = Listing[token + i]
    BY <1>6, <2>1
  <2> QED BY <1>1, <1>2, <2>1, <2>2
<1>9. ASSUME NEW r \in rows, token <= Place(r)
      PROVE  Place(r) - token + 1 \in 1..n /\ After(token)[Place(r) - token + 1] = r
  <2>1. Place(r) \in 0..(N - 1)
    BY <1>1, <1>3
  <2> DEFINE i == Place(r) - token + 1
  <2>2. i \in 1..n /\ i \in 1..(N - (token + 1) + 1)
    BY <1>1, <1>9, <2>1 DEF N
  <2>3. After(token)[i] = Listing[Place(r) + 1]
    BY <1>6, <2>1, <2>2
  <2> QED BY <1>1, <1>2, <2>2, <2>3
<1> QED BY <1>6, <1>7, <1>8, <1>9

LEMMA ContainsConcat ==
  ASSUME NEW a \in Seq(Nat), NEW b \in Seq(Nat), NEW e
  PROVE  Contains(a \o b, e) <=> Contains(a, e) \/ Contains(b, e)
<1>1. /\ a \o b \in Seq(Nat) /\ Len(a \o b) = Len(a) + Len(b)
      /\ \A i \in 1..(Len(a) + Len(b)) : (a \o b)[i] = IF i <= Len(a) THEN a[i] ELSE b[i - Len(a)]
  BY ConcatProperties
<1>2. ASSUME Contains(a \o b, e) PROVE Contains(a, e) \/ Contains(b, e)
  <2>1. PICK i \in 1..(Len(a) + Len(b)) : (a \o b)[i] = e
    BY <1>1, <1>2 DEF Contains
  <2>2. i <= Len(a) => i \in 1..Len(a) /\ a[i] = e
    BY <1>1, <2>1
  <2>3. ~(i <= Len(a)) => i - Len(a) \in 1..Len(b) /\ b[i - Len(a)] = e
    BY <1>1, <2>1
  <2> QED BY <2>2, <2>3 DEF Contains
<1>3. ASSUME Contains(a, e) PROVE Contains(a \o b, e)
  <2>1. PICK i \in 1..Len(a) : a[i] = e
    BY <1>3 DEF Contains
  <2>2. i \in 1..Len(a \o b) /\ (a \o b)[i] = e
    BY <1>1, <2>1
  <2> QED BY <2>2 DEF Contains
<1>4. ASSUME Contains(b, e) PROVE Contains(a \o b, e)
  <2>1. PICK i \in 1..Len(b) : b[i] = e
    BY <1>4 DEF Contains
  <2>2. Len(a) + i \in 1..(Len(a) + Len(b)) /\ ~(Len(a) + i <= Len(a)) /\ (Len(a) + i) - Len(a) = i
    BY <1>1
  <2>3. (a \o b)[Len(a) + i] = e
    BY <1>1, <2>1, <2>2
  <2> QED BY <1>1, <2>2, <2>3 DEF Contains
<1> QED BY <1>2, <1>3, <1>4

LEMMA InjectiveConcat ==
  ASSUME NEW a \in Seq(Nat), NEW b \in Seq(Nat), IsInjective(a), IsInjective(b),
         \A i \in 1..Len(b) : ~Contains(a, b[i])
  PROVE  IsInjective(a \o b)
<1>1. /\ a \o b \in Seq(Nat) /\ Len(a \o b) = Len(a) + Len(b)
      /\ \A i \in 1..(Len(a) + Len(b)) : (a \o b)[i] = IF i <= Len(a) THEN a[i] ELSE b[i - Len(a)]
  BY ConcatProperties
<1>2. /\ \A i, j \in 1..Len(a) : a[i] = a[j] => i = j
      /\ \A i, j \in 1..Len(b) : b[i] = b[j] => i = j
  <2>1. DOMAIN a = 1..Len(a) /\ DOMAIN b = 1..Len(b)
    OBVIOUS
  <2> QED BY <2>1 DEF IsInjective
<1>3. ASSUME NEW i \in 1..(Len(a) + Len(b)), NEW j \in 1..(Len(a) + Len(b)),
             (a \o b)[i] = (a \o b)[j]
      PROVE  i = j
  <2>1. /\ i <= Len(a) => i \in 1..Len(a) /\ (a \o b)[i] = a[i]
        /\ ~(i <= Len(a)) => i - Len(a) \in 1..Len(b) /\ (a \o b)[i] = b[i - Len(a)]
    BY <1>1
  <2>2. /\ j <= Len(a) => j \in 1..Len(a) /\ (a \o b)[j] = a[j]
        /\ ~(j <= Len(a)) => j - Len(a) \in 1..Len(b) /\ (a \o b)[j] = b[j - Len(a)]
    BY <1>1
  <2>3. CASE i <= Len(a) /\ j <= Len(a)
    BY <1>2, <1>3, <2>1, <2>2, <2>3
  <2>4. CASE ~(i <= Len(a)) /\ ~(j <= Len(a))
    <3>1. i - Len(a) = j - Len(a)
      BY <1>2, <1>3, <2>1, <2>2, <2>4
    <3> QED BY <3>1
  <2>5. CASE i <= Len(a) /\ ~(j <= Len(a))
    BY <1>3, <2>1, <2>2, <2>5 DEF Contains
  <2>6. CASE ~(i <= Len(a)) /\ j <= Len(a)
    BY <1>3, <2>1, <2>2, <2>6 DEF Contains
  <2> QED BY <2>3, <2>4, <2>5, <2>6
<1>4. DOMAIN (a \o b) = 1..(Len(a) + Len(b))
  BY <1>1
<1> QED BY <1>3, <1>4 DEF IsInjective

(* A page by offset, and the invariant behind it.                          *)
LEMMA OffsetPage ==
  ASSUME TypeOK, RowsInv, kind = "channels", UNCHANGED <<kind, limit, rows, issued>>,
         NEW w \in Walk, w.state = "walking", OffsetInv(w), Page(w)
  PROVE  /\ walk' \in Walk
         /\ Walking' => walk'.token # NoToken /\ OffsetInv(walk)'
         /\ WalkIsExact'
<1> DEFINE found == After(w.token)
           n == IF w.token <= Cardinality(Here) THEN Cardinality(Here) - w.token ELSE 0
           m == IF n > limit THEN limit ELSE n
           page == Ids(PageOf(found))
           next == TokenAfter(found, w.token)
<1>1. w.token \in Nat /\ limit \in Nat \ {0} /\ w.got \in Seq(Nat) /\ w.begun \in Seq(Nat)
  BY DEF Walk, TypeOK
<1>2. /\ n \in Nat
      /\ found \in Seq(rows) /\ Len(found) = n
      /\ \A i \in 1..n : found[i] \in rows /\ Place(found[i]) = w.token + i - 1
      /\ \A r \in rows : w.token <= Place(r)
           => Place(r) - w.token + 1 \in 1..n /\ found[Place(r) - w.token + 1] = r
  BY <1>1, OffsetAfter
<1> HIDE DEF found, n
<1>3. m \in Nat /\ m <= n /\ m <= limit
  BY <1>1, <1>2
<1>4. /\ PageOf(found) \in Seq(rows) /\ Len(PageOf(found)) = m
      /\ \A i \in 1..m : PageOf(found)[i] = found[i]
  <2>1. CASE n > limit
    <3>1. \A i \in 1..limit : found[i] \in rows
      BY <1>1, <1>2, <2>1
    <3>2. /\ SubSeq(found, 1, limit) \in Seq(rows) /\ Len(SubSeq(found, 1, limit)) = limit
          /\ \A i \in 1..limit : SubSeq(found, 1, limit)[i] = found[i]
      BY <1>1, <3>1, SubSeqProperties
    <3> QED BY <1>2, <2>1, <3>2 DEF PageOf
  <2>2. CASE ~(n > limit)
    BY <1>2, <2>2 DEF PageOf
  <2> QED BY <2>1, <2>2
<1> HIDE DEF m
<1>5. /\ page \in Seq(Nat) /\ Len(page) = m
      /\ \A i \in 1..m : page[i] = found[i].id
  BY <1>4, IdsOfRows
<1> HIDE DEF page
<1>6. \A r, s \in rows : r.id = s.id => r = s
  BY DEF RowsInv
<1>7. \A r \in rows : Place(r) \in 0..(Cardinality(Here) - 1) /\ Place(r) \in Int
  BY PlaceType DEF RowsInv
<1>8. \A i \in 1..m : i \in 1..n
  BY <1>2, <1>3
<1>9. ASSUME NEW r \in rows
      PROVE  Contains(page, r.id) <=> w.token <= Place(r) /\ Place(r) < w.token + m
  <2>1. ASSUME Contains(page, r.id) PROVE w.token <= Place(r) /\ Place(r) < w.token + m
    <3>1. PICK i \in 1..m : page[i] = r.id
      BY <1>5, <2>1 DEF Contains
    <3>2. found[i] = r
      <4>1. found[i] \in rows /\ found[i].id = r.id
        BY <1>2, <1>5, <1>8, <3>1
      <4> QED BY <1>6, <4>1
    <3>3. Place(r) = w.token + i - 1
      BY <1>2, <1>8, <3>2
    <3> QED BY <1>1, <1>3, <3>3
  <2>2. ASSUME w.token <= Place(r), Place(r) < w.token + m PROVE Contains(page, r.id)
    <3> DEFINE i == Place(r) - w.token + 1
    <3>1. i \in 1..n /\ found[i] = r
      BY <1>2, <2>2
    <3>2. i \in 1..m
      BY <1>1, <1>3, <1>7, <2>2
    <3>3. page[i] = r.id
      BY <1>5, <3>1, <3>2
    <3> QED BY <1>5, <3>2, <3>3 DEF Contains
  <2> QED BY <2>1, <2>2
<1>10. next = IF n > limit THEN w.token + limit ELSE NoToken
  BY <1>2 DEF TokenAfter
<1>11. next \in Nat /\ (next \notin w.seen \/ next = NoToken)
  <2>1. \A t \in w.seen : t \in Nat /\ t <= w.token
    BY DEF OffsetInv, Walk
  <2> QED BY <1>1, <1>10, <2>1 DEF NoToken
<1>12. /\ walk' \in Walk
       /\ walk'.token = next
       /\ walk'.seen = w.seen \cup {next}
       /\ walk'.got = w.got \o page
       /\ walk'.state = IF next = NoToken THEN "done" ELSE "walking"
       /\ walk'.begun = w.begun /\ walk'.added = w.added /\ walk'.removed = w.removed
  BY <1>2, <1>11, PageTaken DEF found, page
<1>13. \A e : Contains(w.got \o page, e) <=> Contains(w.got, e) \/ Contains(page, e)
  BY <1>1, <1>5, ContainsConcat
<1>14. ASSUME ~w.added PROVE IsInjective(w.got \o page)
  <2>1. IsInjective(page)
    <3>1. ASSUME NEW i \in 1..m, NEW j \in 1..m, page[i] = page[j] PROVE i = j
      <4>1. found[i] = found[j]
        <5>1. found[i] \in rows /\ found[j] \in rows /\ found[i].id = found[j].id
          BY <1>2, <1>5, <1>8, <3>1
        <5> QED BY <1>6, <5>1
      <4>2. w.token + i - 1 = w.token + j - 1
        BY <1>2, <1>8, <4>1
      <4> QED BY <1>1, <4>2
    <3>2. DOMAIN page = 1..m
      BY <1>5
    <3> QED BY <3>1, <3>2 DEF IsInjective
  <2>2. ASSUME NEW i \in 1..Len(page) PROVE ~Contains(w.got, page[i])
    <3>1. found[i] \in rows /\ Place(found[i]) = w.token + i - 1 /\ page[i] = found[i].id
      BY <1>2, <1>5, <1>8
    <3>2. ~(Place(found[i]) < w.token)
      BY <1>1, <3>1
    <3> QED BY <1>14, <3>1, <3>2 DEF OffsetInv
  <2>3. IsInjective(w.got)
    BY <1>14 DEF OffsetInv
  <2> QED BY <1>1, <1>5, <2>1, <2>2, <2>3, InjectiveConcat
<1>15. ASSUME ~w.added, NEW r \in rows, Contains(w.got \o page, r.id)
       PROVE  Place(r) < w.token + m
  <2>1. CASE Contains(w.got, r.id)
    <3>1. Place(r) < w.token
      BY <1>15, <2>1 DEF OffsetInv
    <3> QED BY <1>1, <1>3, <1>7, <3>1
  <2>2. CASE Contains(page, r.id)
    BY <1>9, <2>2
  <2> QED BY <1>13, <1>15, <2>1, <2>2
<1>16. ASSUME ~w.removed, NEW r \in rows, Contains(w.begun, r.id), ~Contains(w.got \o page, r.id)
       PROVE  w.token + m <= Place(r)
  <2>1. ~Contains(w.got, r.id) /\ ~Contains(page, r.id)
    BY <1>13, <1>16
  <2>2. w.token <= Place(r)
    BY <1>16, <2>1 DEF OffsetInv
  <2>3. ~(Place(r) < w.token + m)
    BY <1>9, <2>1, <2>2
  <2> QED BY <1>1, <1>3, <1>7, <2>3
<1>17. CASE n > limit
  <2>1. m = limit /\ next = w.token + limit /\ next # NoToken
    BY <1>1, <1>10, <1>17 DEF m, NoToken
  <2>2. walk'.state = "walking" /\ walk'.token = w.token + m
    BY <1>12, <2>1
  <2>3. \A t \in walk'.seen : t <= walk'.token
    <3>1. \A t \in w.seen : t \in Nat /\ t <= w.token
      BY DEF OffsetInv, Walk
    <3> QED BY <1>1, <1>12, <2>1, <3>1
  <2>4. \A i \in DOMAIN walk'.begun : walk'.begun[i] <= issued
    BY <1>12 DEF OffsetInv
  <2>5. \A r \in rows : Place(r)' = Place(r)
    BY DEF Place, Here
  <2> HIDE DEF next
  <2>6. OffsetInv(walk)'
    <3>1. ~walk'.added => /\ IsInjective(walk'.got)
                          /\ \A r \in rows : Contains(walk'.got, r.id) => Place(r) < walk'.token
      BY <1>12, <1>14, <1>15, <2>2
    <3>2. ~walk'.removed => \A r \in rows : Contains(walk'.begun, r.id) /\ ~Contains(walk'.got, r.id)
                                              => walk'.token <= Place(r)
      BY <1>12, <1>16, <2>2
    <3> QED BY <2>3, <2>4, <2>5, <3>1, <3>2 DEF OffsetInv
  <2> QED BY <1>12, <2>1, <2>2, <2>6 DEF WalkIsExact
<1>18. CASE ~(n > limit)
  <2>1. m = n /\ next = NoToken
    BY <1>10, <1>18 DEF m
  <2>2. walk'.state = "done"
    BY <1>12, <2>1
  <2>3. ASSUME NEW r \in rows PROVE ~(w.token + n <= Place(r))
    <3>1. w.token <= Place(r) => Place(r) - w.token + 1 \in 1..n
      BY <1>2
    <3> QED BY <1>1, <1>2, <1>7, <3>1
  <2>4. ~w.removed => \A r \in rows : Contains(w.begun, r.id) => Contains(w.got \o page, r.id)
    BY <1>16, <2>1, <2>3
  <2> QED BY <1>12, <1>14, <2>2, <2>4 DEF Walking, WalkIsExact
<1> QED BY <1>17, <1>18

LEMMA PageIInv ==
  ASSUME TypeOK, RowsInv, UNCHANGED <<kind, limit, rows, issued>>,
         NEW w \in Walk, w.state = "walking", WalkInv(w), Page(w)
  PROVE  IInv'
<1>1. TypeOK' /\ RowsInv'
  BY DEF TypeOK, RowsInv, Keyed
<1>2. CASE kind = "channels"
  <2>1. OffsetInv(w)
    BY <1>2 DEF WalkInv
  <2>2. /\ walk' \in Walk
        /\ Walking' => walk'.token # NoToken /\ OffsetInv(walk)'
        /\ WalkIsExact'
    BY <1>2, <2>1, OffsetPage
  <2> QED BY <1>1, <1>2, <2>2 DEF IInv, WalkInv
<1>3. CASE kind # "channels"
  <2>1. KeyInv(w)
    BY <1>3 DEF WalkInv
  <2>2. /\ walk' \in Walk
        /\ Walking' => walk'.token # NoToken /\ KeyInv(walk)'
        /\ WalkIsExact'
    BY <1>3, <2>1, KeyPage
  <2> QED BY <1>1, <1>3, <2>2 DEF IInv, WalkInv
<1> QED BY <1>2, <1>3

LEMMA StartIInv == ASSUME IInv, Start PROVE IInv'
<1> DEFINE w == [state |-> "walking", token |-> NoToken, seen |-> {}, got |-> <<>>,
                 begun |-> Ids(Listing), added |-> FALSE, removed |-> FALSE]
<1>1. TypeOK /\ RowsInv /\ Page(w) /\ UNCHANGED <<kind, limit, rows, issued>>
  BY DEF IInv, Start
<1>2. Keyed(Here) /\ Here \subseteq rows
  BY <1>1, HereIsKeyed DEF Here
<1>3. Listing \in Seq(rows)
  BY <1>2, Ordered, SeqMonotonic DEF Listing
<1>4. /\ Ids(Listing) \in Seq(Nat)
      /\ \A i \in DOMAIN Ids(Listing) : Ids(Listing)[i] <= issued
  <2>1. /\ Ids(Listing) \in Seq(Nat) /\ Len(Ids(Listing)) = Len(Listing)
        /\ \A i \in 1..Len(Listing) : Ids(Listing)[i] = Listing[i].id
    BY <1>1, <1>3, IdsOfRows
  <2>2. \A i \in 1..Len(Listing) : Listing[i] \in rows
    BY <1>3, ElementOfSeq
  <2>3. \A r \in rows : r.id <= issued
    BY <1>1 DEF RowsInv, TypeOK
  <2>4. DOMAIN Ids(Listing) = 1..Len(Listing)
    BY <2>1
  <2> QED BY <2>1, <2>2, <2>3, <2>4
<1>5. <<>> \in Seq(Nat) /\ Len(<<>>) = 0 /\ NoToken \in Nat
  BY DEF NoToken
<1>6. w \in Walk /\ w.state = "walking"
  BY <1>4, <1>5 DEF Walk
<1>7. CASE kind = "channels"
  <2>1. \A r \in rows : ~Contains(<<>>, r.id)
    BY <1>5 DEF Contains
  <2>2. IsInjective(<<>>)
    BY DEF IsInjective
  <2>3. \A r \in rows : NoToken <= Place(r)
    BY <1>1, <1>7, PlaceType DEF RowsInv, NoToken
  <2>4. OffsetInv(w)
    BY <1>4, <2>1, <2>2, <2>3 DEF OffsetInv
  <2> QED BY <1>1, <1>6, <1>7, <2>4, PageIInv DEF WalkInv
<1>8. CASE kind # "channels"
  <2>1. Left(NoToken) = Here
    BY DEF Left
  <2>2. <<>> \o Ids(InOrder(kind, Left(NoToken))) = Ids(Listing)
    BY <1>4, <2>1, ConcatEmptySeq DEF Listing
  <2>3. KeyInv(w)
    BY <2>2 DEF KeyInv
  <2> QED BY <1>1, <1>6, <1>8, <2>3, PageIInv DEF WalkInv
<1> QED BY <1>7, <1>8

LEMMA StepIInv == ASSUME IInv, [Next]_vars PROVE IInv'
<1>1. ASSUME NEW key \in 1..MaxRows, NEW size \in Size, NEW at \in Time, NEW here \in BOOLEAN,
             Insert(key, size, at, here)
      PROVE  IInv'
  BY <1>1, InsertIInv
<1>2. ASSUME NEW gone \in SUBSET rows, Delete(gone) PROVE IInv'
  BY <1>2, DeleteIInv
<1>3. CASE Start
  BY <1>3, StartIInv
<1>4. CASE Continue
  <2>1. walk \in Walk /\ walk.state = "walking"
    BY <1>4 DEF Continue, IInv, Walking, NoWalk
  <2> QED BY <1>4, <2>1, PageIInv DEF Continue, IInv, Walking
<1>5. CASE Fail
  BY <1>5 DEF Fail, IInv, TypeOK, RowsInv, Keyed, Walking, NoWalk, WalkIsExact
<1>6. CASE UNCHANGED vars
  BY <1>6 DEF vars, IInv, TypeOK, RowsInv, Keyed, Walking, WalkIsExact, WalkInv, KeyInv, OffsetInv,
     Left, Here, Place
<1> QED BY <1>1, <1>2, <1>3, <1>4, <1>5, <1>6 DEF Next

(* A walk through a listing, page by page, returns what was there when it  *)
(* began, whatever is written between two pages: exactly for the history   *)
(* and the files, as far as an offset allows for the channels.             *)
THEOREM WalksAreExact == Spec => []WalkIsExact
<1>1. IInv => WalkIsExact
  BY DEF IInv
<1> QED BY <1>1, InitIInv, StepIInv, PTL DEF Spec

-----------------------------------------------------------------------------
(* What holds for 0 and goes from k - 1 to k holds up to n: a set without  *)
(* a least element is empty.                                               *)
LEMMA UpTo ==
  ASSUME NEW n \in Nat, NEW T, 0 \in T, \A k \in 1..n : k - 1 \in T => k \in T
  PROVE  \A k \in 0..n : k \in T
<1> SUFFICES ASSUME NEW m \in 0..n, m \notin T PROVE FALSE
  OBVIOUS
<1> DEFINE bad == {k \in 0..n : k \notin T}
<1>1. bad \subseteq Nat /\ bad # {}
  BY m \in bad
<1>2. PICK k \in bad : \A j \in bad : <<j, k>> \notin OpToRel(<, Nat)
  BY <1>1, NatLessThanWellFounded, WFMin
<1>3. k # 0 /\ k \in 1..n
  OBVIOUS
<1>4. k - 1 \in T
  <2>1. k - 1 \in Nat /\ k \in Nat /\ k - 1 < k /\ k - 1 \in 0..n
    BY <1>3
  <2>2. <<k - 1, k>> \in OpToRel(<, Nat)
    BY <2>1 DEF OpToRel
  <2>3. k - 1 \notin bad
    <3> HIDE DEF bad
    <3> QED BY <1>2, <2>2
  <2> QED BY <2>1, <2>3
<1> QED BY <1>3, <1>4

(* A loop of n turns over states of S has a state after each turn.         *)
HasRun(S, start, n, turn) ==
  \E f \in [0..n -> S] : f[0] = start /\ \A k \in 1..n : f[k] = turn[<<k, f[k - 1]>>]

LEMMA LoopExists ==
  ASSUME NEW S, NEW start \in S, NEW n \in Nat, NEW turn \in [(1..n) \X S -> S]
  PROVE  HasRun(S, start, n, turn)
<1> DEFINE Runs(f, m) == f[0] = start /\ \A k \in 1..m : f[k] = turn[<<k, f[k - 1]>>]
           T == {m \in 0..n : \E f \in [0..m -> S] : Runs(f, m)}
<1>1. 0 \in T
  <2> DEFINE f == [k \in 0..0 |-> start]
  <2>1. f \in [0..0 -> S] /\ f[0] = start
    OBVIOUS
  <2>2. Runs(f, 0)
    BY <2>1
  <2> HIDE DEF f
  <2>3. 0 \in 0..n /\ \E g \in [0..0 -> S] : Runs(g, 0)
    BY <2>1, <2>2
  <2> QED BY <2>3
<1>2. ASSUME NEW m \in 1..n, m - 1 \in T PROVE m \in T
  <2>1. PICK f \in [0..(m - 1) -> S] : Runs(f, m - 1)
    BY <1>2
  <2> DEFINE g == [k \in 0..m |-> IF k = m THEN turn[<<m, f[m - 1]>>] ELSE f[k]]
  <2>2. f[m - 1] \in S /\ turn[<<m, f[m - 1]>>] \in S
    <3>1. m - 1 \in 0..(m - 1)
      OBVIOUS
    <3> QED BY <3>1
  <2>3. \A k \in 0..m : k # m => k \in 0..(m - 1)
    OBVIOUS
  <2>4. g \in [0..m -> S]
    BY <2>2, <2>3
  <2>5. g[0] = start
    BY <2>1
  <2>6. ASSUME NEW k \in 1..m PROVE g[k] = turn[<<k, g[k - 1]>>]
    <3>1. k - 1 \in 0..m /\ k - 1 # m /\ k \in 0..m
      OBVIOUS
    <3>2. g[k - 1] = f[k - 1]
      BY <3>1
    <3>3. k # m => k \in 1..(m - 1) /\ g[k] = f[k]
      BY <3>1
    <3> QED BY <2>1, <3>1, <3>2, <3>3
  <2>7. Runs(g, m)
    BY <2>5, <2>6
  <2> HIDE DEF g
  <2>8. m \in 0..n /\ \E h \in [0..m -> S] : Runs(h, m)
    <3> HIDE DEF Runs
    <3> QED BY <2>4, <2>7
  <2> QED BY <2>8
<1>3. n \in T
  <2> HIDE DEF T
  <2>1. n \in 0..n
    OBVIOUS
  <2> QED BY <1>1, <1>2, <2>1, UpTo
<1>4. \E f \in [0..n -> S] : Runs(f, n)
  BY <1>3
<1> QED BY <1>4 DEF HasRun

(* What Take works on: messages chosen and cut so far, characters left.    *)
Progress == [selected : Seq(Row), remaining : Nat]

LEMMA TakeType ==
  ASSUME NEW acc \in Progress, NEW m \in Row
  PROVE  Take(acc, m) \in Progress
<1>1. CASE acc.remaining <= 0
  BY <1>1 DEF Take
<1>2. CASE ~(acc.remaining <= 0)
  <2> DEFINE size == Least(m.size, acc.remaining)
  <2>1. size \in Nat \ {0} /\ acc.remaining - size \in Nat
    BY <1>2 DEF Least, Row, Progress
  <2> HIDE DEF size
  <2>2. Cut(m, size) \in Row
    BY <2>1 DEF Cut, Row
  <2>3. Append(acc.selected, Cut(m, size)) \in Seq(Row)
    BY <2>2, AppendProperties DEF Progress
  <2>4. Take(acc, m) = [selected  |-> Append(acc.selected, Cut(m, size)),
                        remaining |-> acc.remaining - size]
    BY <1>2 DEF Take, size
  <2> QED BY <2>1, <2>3, <2>4 DEF Progress
<1> QED BY <1>1, <1>2

LEMMA TurnsTaken ==
  ASSUME NEW messages \in Seq(Row), NEW maxChars \in Nat
  PROVE  /\ Turns(messages, maxChars) \in [0..Len(messages) -> Progress]
         /\ Turns(messages, maxChars)[0] = [selected |-> <<>>, remaining |-> maxChars]
         /\ \A k \in 1..Len(messages) :
              Turns(messages, maxChars)[k] = Take(Turns(messages, maxChars)[k - 1], messages[k])
<1> DEFINE n == Len(messages)
           start == [selected |-> <<>>, remaining |-> maxChars]
           turn == [e \in (1..n) \X Progress |-> Take(e[2], messages[e[1]])]
           Is(f) == f = [k \in 0..n |-> IF k = 0 THEN start ELSE Take(f[k - 1], messages[k])]
<1>1. n \in Nat /\ start \in Progress
  BY DEF Progress
<1>2. turn \in [(1..n) \X Progress -> Progress]
  <2>1. \A e \in (1..n) \X Progress : Take(e[2], messages[e[1]]) \in Progress
    BY TakeType, ElementOfSeq
  <2> QED BY <2>1
<1> HIDE DEF start
<1>3. PICK f \in [0..n -> Progress] :
        f[0] = start /\ \A k \in 1..n : f[k] = turn[<<k, f[k - 1]>>]
  <2> HIDE DEF turn, n, Is
  <2>1. HasRun(Progress, start, n, turn)
    BY <1>1, <1>2, LoopExists
  <2> QED BY <2>1 DEF HasRun
<1>4. ASSUME NEW k \in 1..n
      PROVE  k - 1 \in 0..n /\ f[k] = Take(f[k - 1], messages[k])
  <2>1. k - 1 \in 0..n
    BY <1>1
  <2>2. <<k, f[k - 1]>> \in (1..n) \X Progress
    BY <1>3, <2>1
  <2>3. turn[<<k, f[k - 1]>>] = Take(f[k - 1], messages[k])
    BY <2>2
  <2> QED BY <1>3, <2>1, <2>3
<1>5. Is(f)
  <2>1. \A k \in 0..n : f[k] = IF k = 0 THEN start ELSE Take(f[k - 1], messages[k])
    BY <1>1, <1>3, <1>4
  <2> QED BY <2>1
<1>6. Turns(messages, maxChars) = CHOOSE g : Is(g)
  BY DEF Turns, start
<1>7. Is(Turns(messages, maxChars))
  BY <1>5, <1>6
<1> DEFINE t == Turns(messages, maxChars)
<1> HIDE DEF t
<1>8. /\ DOMAIN t = 0..n /\ t[0] = start
      /\ \A k \in 1..n : t[k] = Take(t[k - 1], messages[k])
  BY <1>1, <1>7 DEF t
<1>9. \A k \in 0..n : t[k] \in Progress
  <2> DEFINE T == {k \in 0..n : t[k] \in Progress}
  <2>1. 0 \in T
    BY <1>1, <1>8
  <2>2. ASSUME NEW k \in 1..n, k - 1 \in T PROVE k \in T
    BY <1>8, <2>2, TakeType, ElementOfSeq
  <2> HIDE DEF T
  <2>3. \A k \in 0..n : k \in T
    BY <1>1, <2>1, <2>2, UpTo
  <2> QED BY <2>3 DEF T
<1>10. t \in [0..n -> Progress]
  <2>1. t = [k \in 0..n |-> t[k]]
    BY <1>7 DEF t
  <2> QED BY <1>9, <2>1
<1> QED BY <1>8, <1>10 DEF t, start

(* After k turns: what was chosen is the first messages, each cut by what  *)
(* the budget lost in its turn, and only the last of them really cut, when *)
(* nothing is left.                                                        *)
Chosen(messages, t, k) ==
  LET sel == t[k].selected
      c   == Len(sel)
  IN  /\ c \in 0..k
      /\ t[k].remaining > 0 => c = k
      /\ t[k].remaining = t[c].remaining
      /\ \A j \in 1..c : /\ sel[j] = Cut(messages[j], t[j - 1].remaining - t[j].remaining)
                         /\ sel[j].size \in 1..messages[j].size
                         /\ sel[j] # messages[j] => t[k].remaining = 0 /\ j = c

LEMMA TurnsChoose ==
  ASSUME NEW messages \in Seq(Row), NEW maxChars \in Nat, NEW t,
         t = Turns(messages, maxChars)
  PROVE  \A k \in 0..Len(messages) : Chosen(messages, t, k)
<1> DEFINE n == Len(messages)
           T == {k \in 0..n : Chosen(messages, t, k)}
<1>1. /\ n \in Nat /\ t \in [0..n -> Progress]
      /\ t[0] = [selected |-> <<>>, remaining |-> maxChars]
      /\ \A k \in 1..n : t[k] = Take(t[k - 1], messages[k])
  BY TurnsTaken
<1>2. 0 \in T
  <2>1. Len(t[0].selected) = 0
    BY <1>1
  <2> QED BY <1>1, <2>1 DEF Chosen
<1>3. ASSUME NEW k \in 1..n, k - 1 \in T PROVE k \in T
  <2> DEFINE m == messages[k]
             prev == t[k - 1]
             p == prev.selected
             c == Len(p)
  <2>1. /\ k - 1 \in 0..n /\ k \in 0..n /\ m \in Row
        /\ prev \in Progress /\ t[k] = Take(prev, m) /\ prev = t[k - 1]
    BY <1>1, ElementOfSeq
  <2>2. /\ c \in 0..(k - 1)
        /\ prev.remaining > 0 => c = k - 1
        /\ prev.remaining = t[c].remaining
        /\ \A j \in 1..c : /\ p[j] = Cut(messages[j], t[j - 1].remaining - t[j].remaining)
                           /\ p[j].size \in 1..messages[j].size
                           /\ p[j] # messages[j] => prev.remaining = 0 /\ j = c
    BY <1>3 DEF Chosen
  <2>3. prev.remaining \in Nat /\ p \in Seq(Row) /\ m.size \in Nat \ {0}
    BY <2>1 DEF Progress, Row
  <2> HIDE DEF prev, p, m
  <2>4. CASE prev.remaining <= 0
    <3>1. t[k] = prev
      BY <2>1, <2>4 DEF Take
    <3>2. t[k].selected = p
      BY <3>1 DEF p
    <3> HIDE DEF c
    <3>3. c \in 0..k /\ Len(t[k].selected) = c /\ ~(t[k].remaining > 0)
      BY <2>2, <2>3, <2>4, <3>1, <3>2 DEF c
    <3>4. Chosen(messages, t, k)
      BY <2>2, <3>1, <3>2, <3>3 DEF Chosen
    <3> QED BY <2>1, <3>4
  <2>5. CASE ~(prev.remaining <= 0)
    <3> DEFINE size == Least(m.size, prev.remaining)
               cut == Cut(m, size)
               s == Append(p, cut)
    <3>1. t[k].selected = s /\ t[k].remaining = prev.remaining - size
      BY <2>1, <2>5 DEF Take, p
    <3>2. size \in 1..m.size /\ prev.remaining > 0
      BY <2>3, <2>5 DEF Least
    <3>3. size # m.size => size = prev.remaining
      BY DEF Least
    <3> HIDE DEF size
    <3>4. size # m.size => t[k].remaining = 0
      BY <2>3, <3>1, <3>3
    <3>5. /\ cut.size = size /\ size = t[k - 1].remaining - t[k].remaining
          /\ cut # m => t[k].remaining = 0
      <4>1. cut.size = size /\ (size = m.size => cut = m)
        BY <2>1 DEF Cut, Row
      <4>2. size = t[k - 1].remaining - t[k].remaining
        BY <2>1, <2>3, <3>1, <3>2
      <4> QED BY <3>4, <4>1, <4>2
    <3>6. c = k - 1
      BY <2>2, <3>2
    <3>7. cut \in Row
      <4>1. size \in Nat \ {0}
        BY <2>3, <3>2
      <4> QED BY <2>1, <4>1 DEF Cut, Row
    <3> HIDE DEF cut
    <3>8. /\ Len(s) = k /\ s[k] = cut
          /\ \A j \in 1..(k - 1) : s[j] = p[j]
      BY <2>3, <3>6, <3>7, AppendProperties DEF c
    <3> HIDE DEF s
    <3>9. ASSUME NEW j \in 1..k
          PROVE  /\ s[j] = Cut(messages[j], t[j - 1].remaining - t[j].remaining)
                 /\ s[j].size \in 1..messages[j].size
                 /\ s[j] # messages[j] => t[k].remaining = 0 /\ j = k
      <4>1. CASE j = k
        BY <3>2, <3>5, <3>8, <4>1 DEF cut, m
      <4>2. CASE j # k
        <5>1. j \in 1..(k - 1) /\ s[j] = p[j]
          BY <3>8, <4>2
        <5>2. p[j] = messages[j]
          BY <2>2, <3>2, <3>6, <5>1
        <5> QED BY <2>2, <3>6, <5>1, <5>2
      <4> QED BY <4>1, <4>2
    <3>10. Chosen(messages, t, k)
      BY <3>1, <3>8, <3>9 DEF Chosen
    <3> QED BY <2>1, <3>10
  <2> QED BY <2>3, <2>4, <2>5
<1> HIDE DEF T
<1>4. \A k \in 0..n : k \in T
  BY <1>1, <1>2, <1>3, UpTo
<1> QED BY <1>4 DEF T

(* Chars is what a loop that adds the sizes comes to.                      *)
LEMMA CharsAdd ==
  ASSUME NEW context \in Seq(Row)
  PROVE  \E f \in [0..Len(context) -> Nat] :
           /\ f[0] = 0
           /\ \A k \in 1..Len(context) : f[k] = f[k - 1] + context[k].size
           /\ Chars(context) = f[Len(context)]
<1> DEFINE n == Len(context)
           turn == [e \in (1..n) \X Nat |-> e[2] + context[e[1]].size]
           Is(f) == f = [k \in 0..n |-> IF k = 0 THEN 0 ELSE f[k - 1] + context[k].size]
<1>1. n \in Nat /\ 0 \in Nat
  OBVIOUS
<1>2. turn \in [(1..n) \X Nat -> Nat]
  <2>1. \A k \in 1..n : context[k] \in Row
    BY ElementOfSeq
  <2>2. \A k \in 1..n : context[k].size \in Nat
    BY <2>1 DEF Row
  <2> HIDE DEF n
  <2>3. \A e \in (1..n) \X Nat : e[1] \in 1..n /\ e[2] \in Nat
    OBVIOUS
  <2>4. \A e \in (1..n) \X Nat : e[2] + context[e[1]].size \in Nat
    BY <2>2, <2>3
  <2> QED BY <2>4
<1>3. PICK f \in [0..n -> Nat] :
        f[0] = 0 /\ \A k \in 1..n : f[k] = turn[<<k, f[k - 1]>>]
  <2> HIDE DEF turn, n, Is
  <2>1. HasRun(Nat, 0, n, turn)
    BY <1>1, <1>2, LoopExists
  <2> QED BY <2>1 DEF HasRun
<1>4. ASSUME NEW k \in 1..n
      PROVE  k - 1 \in 0..n /\ f[k] = f[k - 1] + context[k].size
  <2>1. k - 1 \in 0..n
    BY <1>1
  <2>2. <<k, f[k - 1]>> \in (1..n) \X Nat
    BY <1>3, <2>1
  <2>3. turn[<<k, f[k - 1]>>] = f[k - 1] + context[k].size
    BY <2>2
  <2> QED BY <1>3, <2>1, <2>3
<1>5. Is(f)
  <2>1. \A k \in 0..n : f[k] = IF k = 0 THEN 0 ELSE f[k - 1] + context[k].size
    BY <1>1, <1>3, <1>4
  <2> QED BY <2>1
<1> DEFINE g == CHOOSE h : Is(h)
<1>6. Chars(context) = g[n]
  BY DEF Chars
<1>7. Is(g)
  BY <1>5
<1> HIDE DEF g
<1>8. DOMAIN g = 0..n /\ g[0] = 0 /\ \A k \in 1..n : g[k] = g[k - 1] + context[k].size
  BY <1>1, <1>7
<1>9. \A k \in 0..n : g[k] = f[k]
  <2> DEFINE T == {k \in 0..n : g[k] = f[k]}
  <2>1. 0 \in T
    BY <1>1, <1>3, <1>8
  <2>2. ASSUME NEW k \in 1..n, k - 1 \in T PROVE k \in T
    BY <1>4, <1>8, <2>2
  <2> HIDE DEF T
  <2>3. \A k \in 0..n : k \in T
    BY <1>1, <2>1, <2>2, UpTo
  <2> QED BY <2>3 DEF T
<1>10. Chars(context) = f[n]
  BY <1>1, <1>6, <1>9
<1> QED BY <1>3, <1>4, <1>10

(* What Build chose is as long as what the budget lost.                    *)
LEMMA CharsOfChosen ==
  ASSUME NEW messages \in Seq(Row), NEW maxChars \in Nat, NEW t,
         t = Turns(messages, maxChars)
  PROVE  Chars(Reverse(t[Len(messages)].selected)) = maxChars - t[Len(messages)].remaining
<1> DEFINE n == Len(messages)
           sel == t[n].selected
           c == Len(sel)
           context == Reverse(sel)
<1>1. /\ n \in Nat /\ t \in [0..n -> Progress] /\ t[0].remaining = maxChars
  <2>1. n \in Nat /\ t \in [0..n -> Progress] /\ t[0] = [selected |-> <<>>, remaining |-> maxChars]
    BY TurnsTaken
  <2> QED BY <2>1
<1>2. sel \in Seq(Row) /\ c \in 0..n /\ t[n].remaining = t[c].remaining
  <2>1. Chosen(messages, t, n) /\ n \in 0..n
    BY <1>1, TurnsChoose
  <2> QED BY <1>1, <2>1 DEF Chosen, Progress
<1>3. \A j \in 1..c : sel[j].size = t[j - 1].remaining - t[j].remaining
  <2>1. Chosen(messages, t, n)
    BY <1>1, TurnsChoose
  <2>2. \A j \in 1..c : messages[j] \in Row
    BY <1>1, <1>2, ElementOfSeq
  <2>3. \A j \in 1..c : sel[j] = Cut(messages[j], t[j - 1].remaining - t[j].remaining)
    BY <2>1 DEF Chosen
  <2>4. \A m \in Row : \A size : Cut(m, size).size = size
    BY DEF Cut, Row
  <2> QED BY <2>2, <2>3, <2>4
<1>4. \A k \in 0..n : t[k].remaining \in Nat
  BY <1>1 DEF Progress
<1> HIDE DEF sel
<1>5. /\ context \in Seq(Row) /\ Len(context) = c
      /\ \A i \in 1..c : context[i] = sel[c - i + 1]
  BY <1>2 DEF Reverse
<1> HIDE DEF c, context, n
<1>6. PICK f \in [0..c -> Nat] :
        /\ f[0] = 0
        /\ \A k \in 1..c : f[k] = f[k - 1] + context[k].size
        /\ Chars(context) = f[c]
  BY <1>5, CharsAdd
<1> DEFINE T == {i \in 0..c : f[i] = t[c - i].remaining - t[c].remaining}
<1>7. 0 \in T
  BY <1>2, <1>4, <1>6
<1>8. ASSUME NEW i \in 1..c, i - 1 \in T PROVE i \in T
  <2>1. /\ c - i + 1 \in 1..c /\ i - 1 \in 0..c /\ c - i \in 0..n /\ c - i + 1 \in 0..n
        /\ (c - i + 1) - 1 = c - i /\ c - (i - 1) = c - i + 1
    BY <1>1, <1>2
  <2>2. context[i].size = t[c - i].remaining - t[c - i + 1].remaining
    BY <1>3, <1>5, <2>1
  <2>3. f[i - 1] = t[c - i + 1].remaining - t[c].remaining
    BY <1>8, <2>1
  <2>4. /\ t[c - i].remaining \in Nat /\ t[c - i + 1].remaining \in Nat /\ t[c].remaining \in Nat
        /\ f[i] = f[i - 1] + context[i].size /\ i \in 0..c
    <3>1. c \in 0..n /\ i \in 0..c
      BY <1>1, <1>2
    <3>2. f[i] = f[i - 1] + context[i].size
      BY <1>6
    <3> QED BY <1>4, <2>1, <3>1, <3>2
  <2>5. f[i] = t[c - i].remaining - t[c].remaining
    BY <2>2, <2>3, <2>4
  <2> QED BY <2>4, <2>5
<1> HIDE DEF T
<1>9. c \in T
  <2>1. c \in Nat /\ c \in 0..c
    BY <1>1, <1>2
  <2> QED BY <1>7, <1>8, <2>1, UpTo
<1>10. f[c] = maxChars - t[n].remaining
  BY <1>1, <1>2, <1>9 DEF T
<1> QED BY <1>6, <1>10 DEF context, sel, n

(* The messages that Build goes through: the newest of those in the range, *)
(* newest first.                                                           *)
LEMMA WindowIsNewest ==
  ASSUME RowsInv, NEW range, NEW most \in Nat, NEW messages,
         messages = Reverse(ListContext(Here, range, most))
  PROVE  /\ messages \in Seq(Row) /\ Len(messages) <= most
         /\ \A i \in 1..Len(messages) : messages[i] \in Newest(range, most)
         /\ \A r \in Newest(range, most) : \E i \in 1..Len(messages) : messages[i] = r
         /\ \A i, j \in 1..Len(messages) : i < j => messages[i].key > messages[j].key
<1> DEFINE found == InRange(Here, range)
           all == InOrder("history", found)
           n == Cardinality(found)
           before(r) == Before("history", found, r)
<1>1. Keyed(Here) /\ Here \subseteq Row
  BY HereIsKeyed DEF RowsInv, Here
<1>2. Keyed(found) /\ found \subseteq Row /\ found \subseteq Here
  BY <1>1, KeyedSubset DEF InRange
<1>3. \A r \in found : before(r) = {s \in Here : s.at \in range /\ s.key > r.key}
  BY DEF Before, Sooner, InRange
<1>4. Newest(range, most) = {r \in found : Cardinality(before(r)) < most}
  BY <1>3 DEF InRange, Newest
<1> HIDE DEF found
<1>5. /\ n \in Nat /\ all \in Seq(found) /\ Len(all) = n
      /\ \A i \in 1..n : all[i] \in found /\ Cardinality(before(all[i])) = i - 1
      /\ \A r \in found : Cardinality(before(r)) \in 0..(n - 1) /\ all[Cardinality(before(r)) + 1] = r
  <2>1. n \in Nat /\ \A r \in found : Cardinality(before(r)) \in 0..(n - 1)
    BY <1>2, Positions
  <2>2. /\ all \in Seq(found) /\ Len(all) = n
        /\ \A i \in 1..n : all[i] \in found /\ Cardinality(before(all[i])) = i - 1
        /\ \A r \in found : all[Cardinality(before(r)) + 1] = r
    BY <1>2, Ordered
  <2> QED BY <2>1, <2>2
<1> HIDE DEF all, n
<1>6. /\ messages \in Seq(found) /\ Len(messages) = Least(most, n)
      /\ \A i \in 1..Least(most, n) : messages[i] = all[i]
  <2> DEFINE s == Prefix(all, most)
  <2>1. Least(most, n) \in 0..n
    BY <1>5 DEF Least
  <2>2. s = SubSeq(all, 1, Least(most, n))
    BY <1>5 DEF Prefix
  <2>3. /\ s \in Seq(found) /\ Len(s) = Least(most, n)
        /\ \A i \in 1..Least(most, n) : s[i] = all[i]
    BY <1>5, <2>1, <2>2, SubSeqProperties
  <2> HIDE DEF s
  <2>4. messages = Reverse(Reverse(s))
    BY DEF ListContext, s, all, found
  <2>5. Reverse(Reverse(s)) = s
    <3>1. Len(s) \in Nat
      BY <2>3
    <3>2. Reverse(s) = [i \in 1..Len(s) |-> s[Len(s) - i + 1]] /\ Len(Reverse(s)) = Len(s)
      BY <2>3, <3>1 DEF Reverse
    <3>3. Reverse(Reverse(s)) = [i \in 1..Len(s) |-> Reverse(s)[Len(s) - i + 1]]
      BY <3>2 DEF Reverse
    <3>4. \A i \in 1..Len(s) : /\ Len(s) - i + 1 \in 1..Len(s)
                               /\ Len(s) - (Len(s) - i + 1) + 1 = i
      BY <3>1
    <3>5. \A i \in 1..Len(s) : Reverse(s)[Len(s) - i + 1] = s[i]
      BY <3>2, <3>4
    <3>6. s = [i \in 1..Len(s) |-> s[i]]
      BY <2>3
    <3> QED BY <3>3, <3>5, <3>6
  <2> QED BY <2>3, <2>4, <2>5
<1>7. Least(most, n) \in 0..n /\ Least(most, n) <= most
  BY <1>5 DEF Least
<1>8. messages \in Seq(Row) /\ Len(messages) <= most
  BY <1>2, <1>6, <1>7, SeqMonotonic
<1>9. ASSUME NEW i \in 1..Len(messages)
      PROVE  /\ i \in 1..n /\ i <= most /\ messages[i] \in found
             /\ Cardinality(before(messages[i])) = i - 1
  BY <1>5, <1>6, <1>7, <1>9
<1>10. ASSUME NEW i \in 1..Len(messages) PROVE messages[i] \in Newest(range, most)
  <2>1. i \in Nat /\ i <= most /\ messages[i] \in found /\ Cardinality(before(messages[i])) = i - 1
    BY <1>5, <1>9
  <2> HIDE DEF before
  <2>2. Cardinality(before(messages[i])) < most
    BY <2>1
  <2> QED BY <1>4, <2>1, <2>2
<1>11. ASSUME NEW r \in Newest(range, most) PROVE \E i \in 1..Len(messages) : messages[i] = r
  <2> DEFINE p == Cardinality(before(r))
  <2>1. r \in found /\ p < most
    BY <1>4
  <2>2. p \in 0..(n - 1) /\ all[p + 1] = r
    BY <1>5, <2>1
  <2> HIDE DEF p
  <2>3. p + 1 \in 1..Least(most, n)
    BY <1>5, <2>1, <2>2 DEF Least
  <2> QED BY <1>6, <2>2, <2>3
<1>12. ASSUME NEW i \in 1..Len(messages), NEW j \in 1..Len(messages), i < j
       PROVE  messages[i].key > messages[j].key
  <2> DEFINE r == messages[i]
             s == messages[j]
  <2>1. /\ r \in found /\ Cardinality(before(r)) = i - 1 /\ i \in 1..n
        /\ s \in found /\ Cardinality(before(s)) = j - 1 /\ j \in 1..n
    BY <1>9
  <2> HIDE DEF r, s
  <2>2. r # s /\ ~(Cardinality(before(s)) < Cardinality(before(r)))
    BY <1>5, <1>12, <2>1
  <2>3. ~Sooner("history", s, r)
    BY <1>2, <2>1, <2>2, Positions
  <2>4. Sooner("history", r, s)
    BY <1>2, <2>1, <2>2, <2>3, SoonerOrders
  <2> QED BY <2>4 DEF Sooner, r, s
<1> QED BY <1>8, <1>10, <1>11, <1>12

(* The text of the last message chosen may be cut, never to nothing.       *)
LEMMA WindowFits ==
  ASSUME RowsInv, NEW range, NEW most \in Nat, NEW maxChars \in Nat, NEW context,
         context = Build(Here, range, most, maxChars)
  PROVE  /\ Accepted(context, most, maxChars)
         /\ OnlyOldestCut(context, Newest(range, most))
         /\ OldestFirst(context)
         /\ NewestTaken(context, Newest(range, most), maxChars)
<1> DEFINE newest == Newest(range, most)
           messages == Reverse(ListContext(Here, range, most))
           n == Len(messages)
           t == Turns(messages, maxChars)
           sel == t[n].selected
           left == t[n].remaining
           c == Len(sel)
<1>1. messages = Reverse(ListContext(Here, range, most))
  OBVIOUS
<1>2. context = Reverse(sel)
  BY DEF Build
<1> HIDE DEF messages
<1>3. /\ messages \in Seq(Row) /\ n <= most
      /\ \A i \in 1..n : messages[i] \in newest
      /\ \A r \in newest : \E i \in 1..n : messages[i] = r
      /\ \A i, j \in 1..n : i < j => messages[i].key > messages[j].key
  BY <1>1, WindowIsNewest
<1>4. /\ t[n] \in Progress /\ Chosen(messages, t, n)
      /\ Chars(Reverse(sel)) = maxChars - left
  <2>1. n \in 0..n
    BY <1>3
  <2>2. t \in [0..n -> Progress]
    BY <1>3, TurnsTaken
  <2> QED BY <1>3, <2>1, <2>2, TurnsChoose, CharsOfChosen
<1> HIDE DEF t, newest
<1>5. sel \in Seq(Row) /\ left \in Nat
  BY <1>4 DEF Progress
<1>6. /\ c \in 0..n
      /\ left > 0 => c = n
      /\ \A j \in 1..c : /\ sel[j] = Cut(messages[j], t[j - 1].remaining - t[j].remaining)
                         /\ sel[j].size \in 1..messages[j].size
                         /\ sel[j] # messages[j] => left = 0 /\ j = c
  BY <1>4 DEF Chosen
<1> HIDE DEF sel, left, n
<1>7. n \in Nat /\ c \in Nat
  BY <1>3, <1>5 DEF n
<1>8. /\ DOMAIN context = 1..c /\ Len(context) = c
      /\ \A i \in 1..c : context[i] = sel[c - i + 1]
  BY <1>2, <1>5 DEF Reverse
<1> HIDE DEF c
<1>9. Chars(context) = maxChars - left
  BY <1>2, <1>4
<1>10. \A i \in 1..c : c - i + 1 \in 1..c /\ c - (c - i + 1) + 1 = i
  BY <1>7
<1>11. ASSUME NEW j \in 1..c
       PROVE  /\ messages[j] \in Row /\ j \in 1..n /\ sel[j].key = messages[j].key
              /\ sel[j] = Cut(messages[j], sel[j].size)
              /\ sel[j].size \in 1..messages[j].size
              /\ sel[j] = messages[j] \/ (left = 0 /\ j = c /\ sel[j].size < messages[j].size)
  <2>1. j \in 1..n /\ messages[j] \in Row
    BY <1>3, <1>6, <1>7, ElementOfSeq DEF n
  <2> DEFINE m == messages[j]
             size == t[j - 1].remaining - t[j].remaining
  <2>2. sel[j] = Cut(m, size) /\ sel[j].size \in 1..m.size
    BY <1>6
  <2> HIDE DEF m, size
  <2>3. m \in Row
    BY <2>1 DEF m
  <2>4. sel[j].size = size /\ sel[j].key = m.key /\ (size = m.size => sel[j] = m)
    BY <2>2, <2>3 DEF Cut, Row
  <2>5. sel[j] # m => left = 0 /\ j = c
    BY <1>6 DEF m
  <2>6. sel[j] # m => size < m.size
    BY <2>2, <2>3, <2>4 DEF Row
  <2> QED BY <2>1, <2>2, <2>4, <2>5, <2>6 DEF m
<1>12. Accepted(context, most, maxChars)
  <2>1. Len(context) <= most
    BY <1>3, <1>6, <1>7, <1>8
  <2>2. Chars(context) <= maxChars
    BY <1>5, <1>9
  <2>3. ASSUME NEW i \in DOMAIN context PROVE context[i].size > 0
    <3>1. c - i + 1 \in 1..c /\ context[i] = sel[c - i + 1]
      BY <1>8, <1>10
    <3>2. sel[c - i + 1].size \in 1..messages[c - i + 1].size
      BY <1>11, <3>1
    <3>3. messages[c - i + 1] \in Row
      BY <1>11, <3>1
    <3> QED BY <3>1, <3>2, <3>3 DEF Row
  <2> QED BY <2>1, <2>2, <2>3 DEF Accepted
<1>13. ASSUME NEW i \in DOMAIN context
       PROVE  \E r \in newest : /\ context[i] = Cut(r, context[i].size)
                                /\ context[i] = r \/ (i = 1 /\ context[i].size < r.size)
  <2> DEFINE j == c - i + 1
  <2>1. i \in 1..c /\ j \in 1..c /\ context[i] = sel[j] /\ (j = c => i = 1)
    BY <1>7, <1>8, <1>10
  <2> HIDE DEF j
  <2>2. messages[j] \in newest
    BY <1>3, <1>11, <2>1
  <2> QED BY <1>11, <2>1, <2>2
<1>14. ASSUME NEW i \in DOMAIN context, NEW j \in DOMAIN context, i < j
       PROVE  context[i].key < context[j].key
  <2> DEFINE a == c - i + 1
             b == c - j + 1
  <2>1. a \in 1..c /\ b \in 1..c /\ context[i] = sel[a] /\ context[j] = sel[b] /\ b < a
    BY <1>7, <1>8, <1>10, <1>14
  <2> HIDE DEF a, b
  <2>2. messages[b].key > messages[a].key
    BY <1>3, <1>11, <2>1
  <2>3. sel[a].key = messages[a].key /\ sel[b].key = messages[b].key
        /\ messages[a].key \in Nat /\ messages[b].key \in Nat
    BY <1>11, <2>1 DEF Row
  <2> QED BY <2>1, <2>2, <2>3
<1>15. \A j \in 1..c : sel[j] = messages[j] \/ (left = 0 /\ j = c)
  BY <1>11
<1>16. ASSUME NEW r \in newest
       PROVE  \/ \E i \in DOMAIN context : context[i] = r
              \/ /\ Chars(context) = maxChars
                 /\ \A i \in DOMAIN context : r.key <= context[i].key
  <2>1. PICK m \in 1..n : messages[m] = r
    BY <1>3
  <2>2. CASE m \in 1..c /\ sel[m] = messages[m]
    <3>1. c - m + 1 \in 1..c /\ context[c - m + 1] = sel[m]
      BY <1>8, <1>10, <2>2
    <3> QED BY <1>8, <2>1, <2>2, <3>1
  <2>3. CASE ~(m \in 1..c /\ sel[m] = messages[m])
    <3>1. left = 0 /\ m >= c
      <4>1. CASE m \in 1..c
        BY <1>7, <1>15, <2>3, <4>1
      <4>2. CASE ~(m \in 1..c)
        BY <1>5, <1>6, <1>7, <4>2
      <4> QED BY <4>1, <4>2
    <3>2. Chars(context) = maxChars
      BY <1>9, <3>1
    <3>3. ASSUME NEW i \in DOMAIN context PROVE r.key <= context[i].key
      <4> DEFINE j == c - i + 1
      <4>1. j \in 1..c /\ context[i] = sel[j]
        BY <1>8, <1>10
      <4> HIDE DEF j
      <4>2. j \in 1..n /\ sel[j].key = messages[j].key /\ messages[j] \in Row
        BY <1>11, <4>1
      <4>7. j <= m
        BY <1>7, <3>1, <4>1
      <4>3. j = m \/ messages[j].key > messages[m].key
        BY <1>3, <4>2, <4>7
      <4>4. r \in Row
        BY <1>3, <2>1, ElementOfSeq DEF n
      <4>5. r.key \in Nat /\ messages[j].key \in Nat
        BY <4>2, <4>4 DEF Row
      <4>6. r.key <= messages[j].key
        BY <2>1, <4>3, <4>5
      <4> QED BY <4>1, <4>2, <4>6
    <3> QED BY <3>2, <3>3
  <2> QED BY <2>2, <2>3
<1>17. OnlyOldestCut(context, newest)
  BY <1>13 DEF OnlyOldestCut
<1>18. OldestFirst(context)
  BY <1>14 DEF OldestFirst
<1>19. NewestTaken(context, newest, maxChars)
  BY <1>16 DEF NewestTaken
<1> QED BY <1>12, <1>17, <1>18, <1>19 DEF newest

(* Whatever was written to the channel, for every range and every limit:   *)
(* the request that the gateway builds passes the checks of the LLM        *)
(* server; it holds the newest messages in their order, whole but the      *)
(* oldest, and what it leaves out did not fit.                             *)
THEOREM ContextAlwaysFits == Spec => []ContextFits
<1>1. ASSUME IInv PROVE ContextFits
  <2>1. RowsInv
    BY <1>1 DEF IInv
  <2> SUFFICES ASSUME NEW range \in SUBSET Time, NEW most \in 1..MaxRows, NEW maxChars \in 1..MaxRows
               PROVE  /\ Accepted(Build(Here, range, most, maxChars), most, maxChars)
                      /\ OnlyOldestCut(Build(Here, range, most, maxChars), Newest(range, most))
                      /\ OldestFirst(Build(Here, range, most, maxChars))
                      /\ NewestTaken(Build(Here, range, most, maxChars), Newest(range, most), maxChars)
    BY DEF ContextFits
  <2>2. most \in Nat /\ maxChars \in Nat
    BY PagingAssumption
  <2> QED BY <2>1, <2>2, WindowFits
<1> QED BY <1>1, InitIInv, StepIInv, PTL DEF Spec

=============================================================================
