------------------------ MODULE NativeSessionProofs ------------------------
(***************************************************************************)
(* The safety of a plugin session, proved for any number of sessions,      *)
(* messages and troubles: TypeOK, SetsAreOwned, DeletedLeavesNothing,      *)
(* NothingAfterDisposal, CursorIsPosted and EventsAreIngested.             *)
(*                                                                         *)
(* TypeInv says how a queue fits its running operation and its idle pass;  *)
(* ControlInv whose each storage mutation is, and that a deletion and the  *)
(* disposal wait for what they found at work; PostingInv that what is      *)
(* posted has no gaps, which is what a cursor stands for.                  *)
(***************************************************************************)
EXTENDS NativeSession, SequenceTheorems, FiniteSetTheorems, WellFoundedInduction, TLAPS

(* The plain types. *)
Shapes ==
  /\ history \in [Sessions -> Seq(Messages)]
  /\ host \in [Sessions -> {"resting", "waiting", "answered", "gone"}]
  /\ stream \in Seq(Event)
  /\ posted \in [Sessions -> SUBSET Messages] /\ summarized \in [Sessions -> SUBSET Messages]
  /\ stored \in [Sessions -> Stored] /\ writes \subseteq Write
  /\ life \in {"up", "disposing", "disposed"}
  /\ registry \in {"trying", "down", "ready", "failed"}
  /\ queue \in [Sessions -> Seq(Item)] /\ op \in [Sessions -> Op]
  /\ left \in [Sessions -> Nat] /\ drain \in [Sessions -> Nat]
  /\ deleted \subseteq Sessions
  /\ deleting \in [Sessions -> {"none", "waiting", "removing", "done", "failed"}]
  /\ idle \in [Sessions -> {"none", "clean", "dirty"}] /\ leaving \in [Sessions -> BOOLEAN]
  /\ sweep \in Sweep /\ (sweep.at = "visit" => sweep.batch # <<>>)
  /\ revisions \in [Sessions -> BOOLEAN]
  /\ summaries \in [Sessions -> SUBSET Messages]
  /\ used \in [messages : 0..MaxMessages, troubles : 0..MaxTroubles]

(* A queue with no idle pass, and with one. *)
NoPass(q)  == \A i \in 1..Len(q) : q[i].kind # "idle"
OnePass(q) == \E i \in 1..Len(q) :
  /\ q[i].kind = "idle" /\ q[i].live
  /\ \A j \in 1..Len(q) : q[j].kind = "idle" => j = i

(* The head of a queue runs; an idle entry is in the queue until it leaves. *)
QueueFits(s) ==
  /\ op[s].at # "none" => queue[s] # <<>> /\ op[s].kind = Head(queue[s]).kind
  /\ left[s] <= Len(queue[s]) /\ drain[s] <= Len(queue[s])
  /\ idle[s] = "none" \/ leaving[s] => NoPass(queue[s])
  /\ idle[s] # "none" /\ ~leaving[s] => OnePass(queue[s])
  /\ leaving[s] => idle[s] # "none"

TypeInv == Shapes /\ \A s \in Sessions : QueueFits(s)

-----------------------------------------------------------------------------
(* Sequences, and sets put in order. *)

LEMMA Sizes ==
  /\ LastSession \in Nat \ {0} /\ PageSize \in Nat \ {0} /\ Existing \in Nat
  /\ MaxMessages \in Nat /\ MaxTroubles \in Nat
  /\ Messages \subseteq Nat \ {0} /\ Sessions \subseteq Nat \ {0}
<1>1. MaxMessages \in Nat
  <2>1. LastSession * Existing \in Nat
    BY SessionAssumption
  <2>2. QED
    BY SessionAssumption DEF Messages
<1>2. QED
  BY <1>1, SessionAssumption DEF Messages, Sessions

\* Every non-empty set of numbers has a least one.
LEMMA Least ==
  ASSUME NEW T, T \subseteq Nat, T # {}
  PROVE  \E x \in T : \A y \in T : x <= y
<1> DEFINE R == OpToRel(<, Nat)
<1>1. \A x, y \in Nat : <<y, x>> \in R <=> y < x
  BY DEF OpToRel
<1>2. IsWellFoundedOn(R, Nat)
  BY NatLessThanWellFounded
<1> HIDE DEF R
<1>3. PICK x \in T : \A y \in T : ~(<<y, x>> \in R)
  BY <1>2, WFMin
<1>4. ASSUME NEW y \in T PROVE x <= y
  <2>1. x \in Nat /\ y \in Nat
    OBVIOUS
  <2>2. ~(y < x)
    BY <1>1, <1>3, <2>1
  <2>3. QED
    BY <2>1, <2>2
<1>5. QED
  BY <1>4

\* A set of numbers with a bound has a greatest one.
LEMMA Greatest ==
  ASSUME NEW N \in Nat, NEW ids, ids \subseteq 1..N, ids # {}
  PROVE  \E i \in ids : \A j \in ids : j <= i
<1> DEFINE T == {n \in Nat : \A j \in ids : j <= n}
<1>1. N \in T
  OBVIOUS
<1>2. PICK x \in T : \A y \in T : x <= y
  BY <1>1, Least
<1>3. PICK k \in ids : TRUE
  OBVIOUS
<1>4. CASE x \in ids
  BY <1>4, <1>2
<1>5. CASE x \notin ids
  <2>1. x >= 1 /\ x - 1 \in Nat
    BY <1>2, <1>3
  <2>2. \A j \in ids : j <= x - 1
    BY <1>2, <1>5, <2>1
  <2>3. x - 1 \in T
    BY <2>1, <2>2
  <2>4. QED
    BY <1>2, <2>1, <2>3
<1>6. QED
  BY <1>4, <1>5

LEMMA LastIsIn ==
  ASSUME NEW ids, ids \subseteq Messages
  PROVE  Last0(ids) \in ids \cup {Nothing}
<1>1. CASE ids = {}
  BY <1>1 DEF Last0
<1>2. CASE ids # {}
  <2>1. \E i \in ids : \A j \in ids : j <= i
    BY <1>2, Sizes, Greatest DEF Messages
  <2>2. QED
    BY <1>2, <2>1 DEF Last0
<1>3. QED
  BY <1>1, <1>2

Sorted(q, ids) ==
  /\ q \in [1..Cardinality(ids) -> ids] /\ ToSet(q) = ids
  /\ \A i, j \in DOMAIN q : i < j => q[i] < q[j]

\* One more number behind those that are in order.
LEMMA SortedGrows ==
  ASSUME NEW k \in Nat \ {0}, NEW ids, ids \subseteq 1..k - 1, NEW q, Sorted(q, ids)
  PROVE  \E r : Sorted(r, ids \cup {k})
<1> DEFINE n == Cardinality(ids)
           r == [i \in 1..n + 1 |-> IF i <= n THEN q[i] ELSE k]
<1>1. IsFiniteSet(ids)
  <2>1. IsFiniteSet(1..k - 1)
    BY FS_Interval
  <2>2. QED
    BY <2>1, FS_Subset
<1>2. n \in Nat /\ Cardinality(ids \cup {k}) = n + 1
  BY <1>1, FS_CardinalityType, FS_AddElement
<1>3. DOMAIN q = 1..n /\ \A i \in 1..n : q[i] \in ids
  BY DEF Sorted
<1> HIDE DEF n
<1>4. r \in [1..n + 1 -> ids \cup {k}]
  BY <1>2, <1>3
<1>a. \A i \in 1..n : i \in 1..n + 1 /\ r[i] = q[i]
  BY <1>2
<1>b. n + 1 \in 1..n + 1 /\ r[n + 1] = k /\ DOMAIN r = 1..n + 1
  BY <1>2
<1> HIDE DEF r
<1>5. ToSet(r) = ids \cup {k}
  <2>1. ASSUME NEW m \in ids PROVE \E i \in 1..n + 1 : r[i] = m
    <3>1. PICK i \in 1..n : q[i] = m
      BY <1>3 DEF Sorted, ToSet
    <3>2. QED
      BY <1>a, <3>1
  <2>2. ToSet(r) = {r[i] : i \in 1..n + 1}
    BY <1>b DEF ToSet
  <2>3. \A i \in 1..n + 1 : r[i] \in ids \cup {k}
    BY <1>4
  <2>4. k \in ToSet(r)
    BY <1>b, <2>2
  <2>5. ids \subseteq ToSet(r)
    BY <2>1, <2>2
  <2>6. ToSet(r) \subseteq ids \cup {k}
    BY <2>2, <2>3
  <2>7. QED
    BY <2>4, <2>5, <2>6
<1>6. ASSUME NEW i \in 1..n + 1, NEW j \in 1..n + 1, i < j PROVE r[i] < r[j]
  <2>1. i \in 1..n
    BY <1>2, <1>6
  <2>a. r[i] = q[i] /\ q[i] \in ids
    BY <1>3, <1>a, <2>1
  <2>2. CASE j <= n
    <3>1. j \in 1..n
      BY <1>2, <2>2
    <3>2. QED
      BY <1>3, <1>6, <1>a, <2>1, <3>1 DEF Sorted
  <2>3. CASE j > n
    <3>1. j = n + 1
      BY <1>2, <2>3
    <3>2. q[i] \in 1..k - 1
      BY <2>a
    <3>3. q[i] < k
      BY <3>2
    <3>4. QED
      BY <1>b, <2>a, <3>1, <3>3
  <2>4. QED
    <3>1. n \in Nat /\ j \in Int
      BY <1>2
    <3>2. QED
      BY <2>2, <2>3, <3>1
<1>7. Sorted(r, ids \cup {k})
  BY <1>2, <1>4, <1>5, <1>6, <1>b DEF Sorted
<1>8. QED
  BY <1>7

\* A set of numbers can be put in order.
LEMMA InOrderSorts ==
  ASSUME NEW N \in Nat, NEW ids, ids \subseteq 1..N
  PROVE  Sorted(InOrder(ids), ids)
<1> DEFINE Bad == {k \in 0..N : ~\E q : Sorted(q, ids \cap 1..k)}
<1>1. Bad = {}
  <2>1. SUFFICES ASSUME Bad # {} PROVE FALSE
    OBVIOUS
  <2>2. Bad \subseteq Nat
    OBVIOUS
  <2>3. PICK k \in Bad : \A j \in Bad : k <= j
    BY <2>1, <2>2, Least
  <2>4. CASE k = 0
    <3>1. ids \cap 1..k = {}
      BY <2>4
    <3>2. Sorted(<<>>, {})
      BY FS_EmptySet DEF Sorted, ToSet
    <3>3. QED
      BY <3>1, <3>2
  <2>5. CASE k # 0
    <3> DEFINE low == ids \cap 1..k - 1
    <3>0. k \in 0..N
      BY <2>3
    <3>1. k \in 1..N /\ k - 1 \in 0..N
      BY <2>5, <3>0
    <3>a. k - 1 \notin Bad
      <4> HIDE DEF Bad
      <4>1. QED
        BY <2>3, <3>1
    <3>2. PICK q : Sorted(q, low)
      BY <3>1, <3>a
    <3>3. low \subseteq 1..k - 1 /\ k \in Nat \ {0}
      BY <3>1
    <3>4. CASE k \in ids
      <4>1. ids \cap 1..k = low \cup {k}
        BY <3>1, <3>4
      <4> HIDE DEF low
      <4>2. \E r : Sorted(r, low \cup {k})
        BY <3>2, <3>3, SortedGrows
      <4>3. QED
        BY <4>1, <4>2
    <3>5. CASE k \notin ids
      <4>1. ids \cap 1..k = low
        BY <3>1, <3>5
      <4>2. QED
        BY <3>2, <4>1
    <3>6. QED
      BY <3>4, <3>5
  <2>6. QED
    BY <2>4, <2>5
<1>2. ids \cap 1..N = ids
  OBVIOUS
<1>3. \E q : Sorted(q, ids)
  BY <1>1, <1>2
<1>4. \E q \in [1..Cardinality(ids) -> ids] :
        ToSet(q) = ids /\ \A i, j \in DOMAIN q : i < j => q[i] < q[j]
  BY <1>3 DEF Sorted
<1>5. QED
  BY <1>4 DEF InOrder, Sorted

LEMMA InOrderIsSeq ==
  ASSUME NEW N \in Nat, NEW ids, ids \subseteq 1..N
  PROVE  /\ InOrder(ids) \in Seq(ids) /\ ToSet(InOrder(ids)) = ids
         /\ \A i, j \in 1..Len(InOrder(ids)) : i < j => InOrder(ids)[i] < InOrder(ids)[j]
<1>1. Sorted(InOrder(ids), ids)
  BY InOrderSorts
<1>2. IsFiniteSet(1..N)
  BY FS_Interval
<1>3. Cardinality(ids) \in Nat
  BY <1>2, FS_Subset, FS_CardinalityType
<1>4. PICK q : q = InOrder(ids)
  OBVIOUS
<1>5. PICK n \in Nat : n = Cardinality(ids)
  BY <1>3
<1>6. q \in [1..n -> ids]
  BY <1>1, <1>4, <1>5 DEF Sorted
<1>7. q \in Seq(ids) /\ Len(q) = n /\ DOMAIN q = 1..n
  BY <1>6
<1>8. QED
  BY <1>1, <1>4, <1>7 DEF Sorted

-----------------------------------------------------------------------------
(* Queues: an entry comes, the head goes, an abort reaches entries.         *)

LEMMA Jobs ==
  ASSUME NEW kind \in Kinds
  PROVE  /\ Job(kind) \in Item /\ Job(kind).kind = kind /\ Job(kind).live
         /\ \A seen \in Seq(Messages), call \in Messages :
              [Job("project") EXCEPT !.seen = seen, !.call = call] \in Item
<1>1. PICK h \in Seq(Messages) : h = <<>>
  BY EmptySeq
<1>2. QED
  BY <1>1 DEF Job, Item, Kinds, Known

LEMMA Joined ==
  ASSUME NEW q \in Seq(Item), NEW item \in Item
  PROVE  LET r == Append(q, item) IN
         /\ r \in Seq(Item) /\ Len(r) = Len(q) + 1 /\ r # <<>>
         /\ q # <<>> => Head(r) = Head(q)
         /\ item.kind # "idle" /\ NoPass(q) => NoPass(r)
         /\ item.kind # "idle" /\ OnePass(q) => OnePass(r)
         /\ item.kind = "idle" /\ item.live /\ NoPass(q) => OnePass(r)
<1>1. PICK r : r = Append(q, item)
  OBVIOUS
<1>2. /\ r \in Seq(Item) /\ Len(r) = Len(q) + 1 /\ r # <<>>
      /\ \A i \in 1..Len(q) : r[i] = q[i]
      /\ r[Len(q) + 1] = item
  BY <1>1, AppendProperties
<1>3. PICK n \in Nat : n = Len(q)
  OBVIOUS
<1>4. q # <<>> => Head(r) = Head(q)
  BY <1>1, HeadTailAppend
<1>5. \A i \in 1..n + 1 : IF i = n + 1 THEN r[i] = item ELSE i \in 1..n /\ r[i] = q[i]
  BY <1>2, <1>3
<1>6. \A i \in 1..n : i \in 1..n + 1 /\ i # n + 1
  BY <1>3
<1>7. n + 1 \in 1..n + 1
  BY <1>3
<1>8. QED
  BY <1>1, <1>2, <1>3, <1>4, <1>5, <1>6, <1>7 DEF NoPass, OnePass

LEMMA Popped ==
  ASSUME NEW q \in Seq(Item), q # <<>>
  PROVE  /\ Head(q) \in Item /\ Tail(q) \in Seq(Item)
         /\ Len(q) \in Nat \ {0} /\ Len(Tail(q)) = Len(q) - 1
         /\ NoPass(q) => Head(q).kind # "idle" /\ NoPass(Tail(q))
         /\ OnePass(q) => IF Head(q).kind = "idle" THEN Head(q).live /\ NoPass(Tail(q))
                          ELSE OnePass(Tail(q))
<1>1. PICK r : r = Tail(q)
  OBVIOUS
<1>2. /\ Head(q) \in Item /\ r \in Seq(Item) /\ Len(r) = Len(q) - 1
      /\ \A i \in 1..Len(r) : r[i] = q[i + 1]
      /\ Len(q) \in Nat \ {0}
  BY <1>1, HeadTailProperties, EmptySeq
<1>3. PICK n \in Nat \ {0} : n = Len(q)
  BY <1>2
<1>4. \A i \in 1..n - 1 : i + 1 \in 1..n /\ i + 1 # 1 /\ r[i] = q[i + 1]
  BY <1>2, <1>3
<1>5. Len(r) = n - 1 /\ 1 \in 1..n /\ Head(q) = q[1]
  BY <1>2, <1>3
<1>6. NoPass(q) => Head(q).kind # "idle" /\ NoPass(r)
  BY <1>3, <1>4, <1>5 DEF NoPass
<1>7. ASSUME OnePass(q)
      PROVE  IF Head(q).kind = "idle" THEN Head(q).live /\ NoPass(r) ELSE OnePass(r)
  <2>1. PICK k \in 1..n : /\ q[k].kind = "idle" /\ q[k].live
                          /\ \A j \in 1..n : q[j].kind = "idle" => j = k
    BY <1>3, <1>7 DEF OnePass
  <2>2. CASE k = 1
    BY <1>4, <1>5, <2>1, <2>2 DEF NoPass
  <2>3. CASE k # 1
    <3>1. k - 1 \in 1..n - 1 /\ (k - 1) + 1 = k
      BY <2>3
    <3>2. r[k - 1] = q[k]
      BY <1>4, <3>1
    <3>3. \A j \in 1..n - 1 : r[j].kind = "idle" => j = k - 1
      BY <1>4, <2>1
    <3>4. Head(q).kind # "idle"
      BY <1>5, <2>1, <2>3
    <3>5. OnePass(r)
      BY <1>5, <2>1, <3>1, <3>2, <3>3 DEF OnePass
    <3>6. QED
      BY <3>4, <3>5
  <2>4. QED
    BY <2>2, <2>3
<1>8. QED
  BY <1>1, <1>2, <1>6, <1>7

LEMMA OrphanedFits ==
  ASSUME NEW q \in Seq(Item)
  PROVE  LET r == Orphaned(q) IN
         /\ r \in Seq(Item) /\ Len(r) = Len(q)
         /\ q # <<>> => r # <<>> /\ Head(r).kind = Head(q).kind
         /\ q = <<>> => r = <<>>
         /\ NoPass(q) => NoPass(r)
         /\ OnePass(q) => OnePass(r)
<1>1. PICK n \in Nat : n = Len(q) /\ DOMAIN q = 1..n
  OBVIOUS
<1>2. \A i \in 1..n : q[i] \in Item
  BY <1>1
<1>3. \A i \in 1..n : LET e == [q[i] EXCEPT !.live = @ /\ q[i].kind # "sweep"] IN
        /\ e \in Item /\ e.kind = q[i].kind
        /\ e.kind = "idle" /\ q[i].live => e.live
  BY <1>2 DEF Item
<1>4. PICK r : r = Orphaned(q)
  OBVIOUS
<1>5. r = [i \in 1..n |-> [q[i] EXCEPT !.live = @ /\ q[i].kind # "sweep"]]
  BY <1>1, <1>4 DEF Orphaned
<1>6. r \in [1..n -> Item]
  BY <1>3, <1>5
<1>7. r \in Seq(Item) /\ Len(r) = n
  BY <1>6
<1>8. \A i \in 1..n : r[i].kind = q[i].kind /\ (r[i].kind = "idle" /\ q[i].live => r[i].live)
  BY <1>3, <1>5
<1>9. ASSUME q # <<>> PROVE r # <<>> /\ Head(r).kind = Head(q).kind
  <2>1. n # 0
    BY <1>1, <1>9, EmptySeq
  <2>2. 1 \in 1..n /\ Head(r) = r[1] /\ Head(q) = q[1] /\ r # <<>>
    BY <1>1, <1>7, <2>1
  <2>3. QED
    BY <1>8, <2>2
<1>10. q = <<>> => r = <<>>
  BY <1>1, <1>7
<1>11. QED
  BY <1>1, <1>4, <1>7, <1>8, <1>9, <1>10 DEF NoPass, OnePass

\* The idle entries of a queue, counted.
LEMMA PassesAreCounted ==
  ASSUME NEW q \in Seq(Item)
  PROVE  LET found == {i \in DOMAIN q : q[i].kind = "idle"} IN
         /\ NoPass(q) => Cardinality(found) = 0
         /\ OnePass(q) => Cardinality(found) = 1
<1>1. DOMAIN q = 1..Len(q)
  OBVIOUS
<1> DEFINE found == {i \in DOMAIN q : q[i].kind = "idle"}
<1>2. NoPass(q) => found = {}
  BY <1>1 DEF NoPass
<1>3. OnePass(q) => \E i : found = {i}
  BY <1>1 DEF OnePass
<1> HIDE DEF found
<1>4. NoPass(q) => Cardinality(found) = 0
  BY <1>2, FS_EmptySet
<1>5. OnePass(q) => Cardinality(found) = 1
  BY <1>3, FS_Singleton
<1>6. QED
  BY <1>4, <1>5 DEF found

-----------------------------------------------------------------------------
(* Operations: what becomes of one while it runs.                           *)

LEMMA Records ==
  /\ NoOp \in Op /\ NoOp.at = "none" /\ ~NoOp.aborted /\ NoOp.fresh = <<>>
  /\ NoOp.through = Nothing /\ NoOp.summarized = Nothing
  /\ NotStored \in Stored /\ ~NotStored.cursor /\ ~NotStored.usage
  /\ NotStored.through = Nothing /\ NotStored.summarized = Nothing
  /\ NoSweep \in Sweep /\ NoSweep.at = "none" /\ ~NoSweep.aborted
<1>1. PICK h \in Seq(Messages) : h = <<>>
  BY EmptySeq
<1>2. PICK b \in Seq(Sessions) : b = <<>>
  BY EmptySeq
<1>3. 0 \in 0..LastSession
  BY Sizes
<1>4. QED
  BY <1>1, <1>2, <1>3 DEF NoOp, Op, Places, Kinds, Known, NotStored, Stored, NoSweep, Sweep

LEMMA AbortedOp ==
  ASSUME NEW o \in Op
  PROVE  /\ Aborted(o) \in Op /\ Aborted(o).at = o.at /\ Aborted(o).kind = o.kind
         /\ o.at = "none" => Aborted(o) = o
         /\ o.at # "none" => Aborted(o).aborted /\ Aborted(o).fresh = <<>>
         /\ Aborted(o).through \in {o.through, Nothing}
         /\ Aborted(o).summarized \in {o.summarized, Nothing}
         /\ Aborted(o).fresh \in {o.fresh, <<>>}
<1>1. PICK h \in Seq(Messages) : h = <<>>
  BY EmptySeq
<1>2. CASE o.at = "none"
  BY <1>2 DEF Aborted
<1>3. CASE o.at # "none"
  BY <1>1, <1>3 DEF Aborted, NoOp, Op, Known
<1>4. QED
  BY <1>2, <1>3

LEMMA Edited ==
  ASSUME NEW o \in Op, NEW place \in Places
  PROVE  /\ [o EXCEPT !.at = place] \in Op
         /\ \A t, u \in Known : [o EXCEPT !.at = place, !.through = t, !.summarized = u] \in Op
         /\ \A t, u \in Known, b \in BOOLEAN :
              [o EXCEPT !.at = place, !.manifest = b, !.summarized = u, !.through = t] \in Op
         /\ \A h \in Seq(Messages) : [o EXCEPT !.at = place, !.seen = h] \in Op
         /\ \A h \in Seq(Messages) : [o EXCEPT !.at = place, !.fresh = h] \in Op
         /\ \A h, f \in Seq(Messages), b \in BOOLEAN :
              /\ [o EXCEPT !.at = place, !.seen = h, !.manifest = b] \in Op
              /\ [o EXCEPT !.at = place, !.seen = h, !.manifest = b, !.fresh = f] \in Op
BY DEF Op

LEMMA EditedPosts ==
  ASSUME NEW o \in Op
  PROVE  /\ \A f \in Seq(Messages) : [o EXCEPT !.fresh = f] \in Op
         /\ \A t \in Known, f \in Seq(Messages) : [o EXCEPT !.through = t, !.fresh = f] \in Op
BY DEF Op

\* The operation of s alone, and the operations that an abort reaches.
LEMMA Aborting ==
  ASSUME Shapes, NEW reached, reached \subseteq Sessions, Abort(reached)
  PROVE  /\ op' \in [Sessions -> Op]
         /\ \A s \in Sessions : op'[s] = IF s \in reached THEN Aborted(op[s]) ELSE op[s]
         /\ \A s \in Sessions : op'[s].at = op[s].at /\ op'[s].kind = op[s].kind
         /\ writes' = writes \ Interrupt(reached)
<1>1. op' = [s \in Sessions |-> IF s \in reached THEN Aborted(op[s]) ELSE op[s]]
  BY DEF Abort
<1>2. \A s \in Sessions : op[s] \in Op
  BY DEF Shapes
<1>3. QED
  BY <1>1, <1>2, AbortedOp DEF Abort

\* Every entry of the queues keeps its place, and no operation begins.
Quiet == /\ UNCHANGED <<queue, left, drain, idle, leaving>>
         /\ \A s \in Sessions : op'[s].at # "none" => op[s].at # "none" /\ op'[s].kind = op[s].kind

LEMMA QuietFits ==
  ASSUME TypeInv, Quiet
  PROVE  \A s \in Sessions : QueueFits(s)'
BY DEF TypeInv, Quiet, QueueFits, NoPass, OnePass

-----------------------------------------------------------------------------
(* The plain types, action by action.                                       *)

LEMMA BeginTypes ==
  ASSUME TypeInv, NEW s \in Sessions, Begin(s)
  PROVE  TypeInv'
<1>1. /\ queue[s] \in Seq(Item) /\ queue[s] # <<>> /\ Head(queue[s]) \in Item
  BY Popped DEF TypeInv, Shapes, Begin
<1>2. PICK h \in Seq(Messages) : h = <<>>
  BY EmptySeq
<1>3. [NoOp EXCEPT !.at = "begin", !.kind = Head(queue[s]).kind,
                   !.seen = Head(queue[s]).seen] \in Op
  BY <1>1, <1>2 DEF NoOp, Op, Item, Places, Kinds, Known
<1>4. Shapes'
  BY <1>3 DEF TypeInv, Shapes, Begin, hostVars, serverVars, storeVars, ends
<1>5. ASSUME NEW r \in Sessions PROVE QueueFits(r)'
  BY <1>1, Popped DEF TypeInv, Shapes, Begin, hostVars, storeVars, ends, QueueFits, NoOp
<1>6. QED
  BY <1>4, <1>5 DEF TypeInv

LEMMA AwaitRegistryTypes ==
  ASSUME TypeInv, NEW s \in Sessions, AwaitRegistry(s)
  PROVE  TypeInv'
<1>1. [op[s] EXCEPT !.at = "registry"] \in Op
  BY Edited DEF TypeInv, Shapes, Places
<1>2. Shapes'
  BY <1>1 DEF TypeInv, Shapes, AwaitRegistry, Moves, hostVars, serverVars, storeVars, marks
<1>3. Quiet
  BY DEF TypeInv, Shapes, AwaitRegistry, Moves, Project, marks, Quiet
<1>4. QED
  BY <1>2, <1>3, QuietFits DEF TypeInv

LEMMA ReadCursorTypes ==
  ASSUME TypeInv, NEW s \in Sessions, ReadCursor(s)
  PROVE  TypeInv'
<1>1. /\ op[s] \in Op /\ "manifest" \in Places
      /\ stored[s].through \in Known /\ stored[s].summarized \in Known
  BY DEF TypeInv, Shapes, Stored, Places
<1>a. [op[s] EXCEPT !.at = "manifest", !.through = stored[s].through,
                    !.summarized = stored[s].summarized] \in Op
  BY <1>1, Edited
<1>2. Shapes'
  BY <1>a DEF TypeInv, Shapes, ReadCursor, Moves, OnlyOp, hostVars, serverVars, storeVars, ends
<1>3. Quiet
  BY DEF TypeInv, Shapes, ReadCursor, Moves, Project, OnlyOp, ends, Quiet
<1>4. QED
  BY <1>2, <1>3, QuietFits DEF TypeInv

LEMMA SweepMoves ==
  ASSUME Shapes
  PROVE  /\ Visited \in Sweep /\ (Visited.at = "visit" => Visited.batch # <<>>)
         /\ Trigger \in Sweep /\ (Trigger.at = "visit" => Trigger.batch # <<>>)
         /\ SweepEnded \in Sweep /\ SweepEnded.at # "visit"
<1>1. PICK w \in Sweep : w = sweep /\ (w.at = "visit" => w.batch # <<>>)
  BY DEF Shapes
<1>2. w.batch \in Seq(Sessions)
  BY DEF Sweep
<1>3. w.at = "visit" => Tail(w.batch) \in Seq(Sessions)
  BY <1>1, <1>2, HeadTailProperties
<1>4. Visited \in Sweep /\ (Visited.at = "visit" => Visited.batch # <<>>)
  BY <1>1, <1>3 DEF Visited, Sweep
<1>5. Trigger \in Sweep /\ (Trigger.at = "visit" => Trigger.batch # <<>>)
  BY <1>1 DEF Trigger, Sweep
<1>6. SweepEnded \in Sweep /\ SweepEnded.at # "visit"
  BY <1>1, Records DEF SweepEnded, Sweep
<1>7. QED
  BY <1>4, <1>5, <1>6

LEMMA SettleTypes ==
  ASSUME TypeInv, NEW s \in Sessions, queue[s] # <<>>, Settle(s)
  PROVE  /\ queue' \in [Sessions -> Seq(Item)]
         /\ left' \in [Sessions -> Nat] /\ drain' \in [Sessions -> Nat]
         /\ leaving' \in [Sessions -> BOOLEAN]
         /\ host' \in [Sessions -> {"resting", "waiting", "answered", "gone"}]
<1>1. queue[s] \in Seq(Item) /\ Tail(queue[s]) \in Seq(Item)
  BY Popped DEF TypeInv, Shapes
<1>2. queue' \in [Sessions -> Seq(Item)]
  BY <1>1 DEF TypeInv, Shapes, Settle
<1>3. left' \in [Sessions -> Nat] /\ drain' \in [Sessions -> Nat]
  BY DEF TypeInv, Shapes, Settle
<1>4. leaving' \in [Sessions -> BOOLEAN]
  <2>1. (Head(queue[s]).kind = "idle") \in BOOLEAN /\ leaving[s] \in BOOLEAN
    BY DEF TypeInv, Shapes
  <2>2. (leaving[s] \/ Head(queue[s]).kind = "idle") \in BOOLEAN
    BY <2>1
  <2>3. QED
    BY <2>2 DEF TypeInv, Shapes, Settle
<1>5. host' \in [Sessions -> {"resting", "waiting", "answered", "gone"}]
  BY DEF TypeInv, Shapes, Settle
<1>6. QED
  BY <1>2, <1>3, <1>4, <1>5

\* The head of the queue goes, and what was its operation is over.
LEMMA SettleFits ==
  ASSUME TypeInv, NEW s \in Sessions, queue[s] # <<>>, Settle(s), idle' = idle,
         \A r \in Sessions : op'[r].at # "none" => r # s /\ op'[r] = op[r]
  PROVE  \A r \in Sessions : QueueFits(r)'
<1>1. ASSUME NEW r \in Sessions, r # s PROVE QueueFits(r)'
  <2>1. /\ queue'[r] = queue[r] /\ left'[r] = left[r] /\ drain'[r] = drain[r]
        /\ leaving'[r] = leaving[r] /\ idle'[r] = idle[r]
    BY <1>1 DEF TypeInv, Shapes, Settle
  <2>2. QED
    BY <1>1, <2>1 DEF TypeInv, QueueFits, NoPass, OnePass
<1>2. QueueFits(s)'
  <2>1. PICK q \in Seq(Item) : q = queue[s] /\ q # <<>>
    BY DEF TypeInv, Shapes
  <2>2. PICK r \in Seq(Item) : r = Tail(q)
    BY <2>1, Popped
  <2>3. /\ Len(q) \in Nat \ {0} /\ Len(r) = Len(q) - 1
        /\ NoPass(q) => Head(q).kind # "idle" /\ NoPass(r)
        /\ OnePass(q) => IF Head(q).kind = "idle" THEN NoPass(r) ELSE OnePass(r)
    BY <2>1, <2>2, Popped
  <2>4. /\ queue'[s] = r /\ idle'[s] = idle[s]
        /\ leaving'[s] <=> leaving[s] \/ Head(q).kind = "idle"
        /\ left'[s] = IF left[s] > 0 THEN left[s] - 1 ELSE 0
        /\ drain'[s] = IF drain[s] > 0 THEN drain[s] - 1 ELSE 0
    BY <2>1, <2>2 DEF TypeInv, Shapes, Settle
  <2>5. left[s] \in Nat /\ drain[s] \in Nat /\ left[s] <= Len(q) /\ drain[s] <= Len(q)
    BY <2>1 DEF TypeInv, Shapes, QueueFits
  <2>6. left'[s] <= Len(r) /\ drain'[s] <= Len(r)
    BY <2>3, <2>4, <2>5
  <2>7. /\ idle[s] = "none" \/ leaving[s] => NoPass(q)
        /\ idle[s] # "none" /\ ~leaving[s] => OnePass(q)
        /\ leaving[s] => idle[s] # "none"
    BY <2>1 DEF TypeInv, QueueFits
  <2>8. /\ idle'[s] = "none" \/ leaving'[s] => NoPass(r)
        /\ idle'[s] # "none" /\ ~leaving'[s] => OnePass(r)
        /\ leaving'[s] => idle'[s] # "none"
    BY <2>3, <2>4, <2>7
  <2>9. QED
    BY <2>4, <2>6, <2>8 DEF QueueFits, NoPass, OnePass
<1>3. QED
  BY <1>1, <1>2

LEMMA FinishTypes ==
  ASSUME TypeInv, NEW s \in Sessions, NEW submitted \in BOOLEAN, op[s].at # "none",
         Finish(s, submitted)
  PROVE  /\ queue' \in [Sessions -> Seq(Item)] /\ op' \in [Sessions -> Op]
         /\ left' \in [Sessions -> Nat] /\ drain' \in [Sessions -> Nat]
         /\ leaving' \in [Sessions -> BOOLEAN]
         /\ host' \in [Sessions -> {"resting", "waiting", "answered", "gone"}]
         /\ sweep' \in Sweep /\ (sweep'.at = "visit" => sweep'.batch # <<>>)
         /\ \A r \in Sessions : QueueFits(r)'
<1>1. queue[s] # <<>>
  BY DEF TypeInv, QueueFits
<1>2. /\ op' \in [Sessions -> Op]
      /\ \A r \in Sessions : op'[r].at # "none" => r # s /\ op'[r] = op[r]
  BY Records DEF TypeInv, Shapes, Finish
<1>3. sweep' \in Sweep /\ (sweep'.at = "visit" => sweep'.batch # <<>>)
  BY SweepMoves DEF TypeInv, Shapes, Finish
<1>4. idle' = idle
  BY DEF Finish
<1>5. CASE op[s].kind = "idle" /\ Repeats(s)
  <2>1. UNCHANGED <<queue, left, drain, leaving, host>>
    BY <1>5 DEF Finish
  <2>2. Quiet
    BY <1>2, <1>4, <2>1 DEF Quiet
  <2>3. \A r \in Sessions : QueueFits(r)'
    BY <2>2, QuietFits
  <2>4. QED
    BY <1>2, <1>3, <2>1, <2>3 DEF TypeInv, Shapes
<1>6. CASE ~(op[s].kind = "idle" /\ Repeats(s))
  <2>1. Settle(s)
    BY <1>6 DEF Finish
  <2>2. \A r \in Sessions : QueueFits(r)'
    BY <1>1, <1>2, <1>4, <2>1, SettleFits
  <2>3. QED
    BY <1>1, <1>2, <1>3, <2>1, <2>2, SettleTypes
<1>7. QED
  BY <1>5, <1>6

\* What follows a message, and what is closed.
LEMMA Cuts ==
  ASSUME NEW seq \in Seq(Messages), NEW id \in Known
  PROVE  /\ After(seq, id) \in Seq(Messages) /\ Closed(seq) \in Seq(Messages)
         /\ ToSet(seq) \subseteq Messages
<1>1. PICK n \in Nat : n = Len(seq) /\ DOMAIN seq = 1..n
  OBVIOUS
<1>2. \A i \in 1..n : seq[i] \in Messages
  BY <1>1
<1>3. ToSet(seq) \subseteq Messages
  BY <1>1, <1>2 DEF ToSet
<1>4. \A a \in Nat \ {0} : \A b \in Int : b <= n => SubSeq(seq, a, b) \in Seq(Messages)
  BY <1>2, SubSeqProperties
<1>5. Closed(seq) \in Seq(Messages)
  BY <1>1, <1>4 DEF Closed
<1>6. CASE id = Nothing \/ id \notin ToSet(seq)
  BY <1>3, <1>5, <1>6, EmptySeq DEF After
<1>7. CASE id # Nothing /\ id \in ToSet(seq)
  <2>1. \E i \in DOMAIN seq : seq[i] = id
    BY <1>7 DEF ToSet
  <2>2. PICK k \in 1..n : k = CHOOSE i \in DOMAIN seq : seq[i] = id
    BY <1>1, <2>1
  <2>3. Len(UpTo(seq, id)) = k
    BY <1>2, <2>2, SubSeqProperties DEF UpTo
  <2>4. After(seq, id) = SubSeq(seq, k + 1, n)
    BY <1>1, <1>7, <2>3 DEF After
  <2>5. k + 1 \in Nat \ {0} /\ n \in Int /\ n <= n
    BY <1>1, <2>2
  <2>6. After(seq, id) \in Seq(Messages)
    BY <1>4, <2>4, <2>5
  <2>7. QED
    BY <1>3, <1>5, <2>6
<1>8. QED
  BY <1>6, <1>7

\* A bound that is used up further.
LEMMA TroubleTypes ==
  ASSUME Shapes, Trouble \/ UNCHANGED used
  PROVE  /\ used' \in [messages : 0..MaxMessages, troubles : 0..MaxTroubles]
         /\ used'.messages = used.messages
<1>1. MaxTroubles \in Nat
  BY Sizes
<1>2. used \in [messages : 0..MaxMessages, troubles : 0..MaxTroubles]
  BY DEF Shapes
<1>3. CASE Trouble
  <2>1. used.troubles \in 0..MaxTroubles /\ used.troubles < MaxTroubles
    BY <1>2, <1>3 DEF Trouble
  <2>2. used.troubles + 1 \in 0..MaxTroubles
    BY <1>1, <2>1
  <2>3. used' = [used EXCEPT !.troubles = used.troubles + 1]
    BY <1>3 DEF Trouble
  <2>4. QED
    BY <1>2, <2>2, <2>3
<1>4. QED
  BY <1>2, <1>3

LEMMA ReadManifestTypes ==
  ASSUME TypeInv, NEW s \in Sessions, ReadManifest(s)
  PROVE  TypeInv'
<1>1. PICK available \in BOOLEAN, committed \in SUBSET posted[s] :
       LET sums == IF available THEN committed ELSE summaries[s]
           last == IF available /\ sums # {} THEN Last0(sums) ELSE op[s].summarized IN
       /\ IF available THEN UNCHANGED used ELSE Trouble
       /\ summarized[s] \subseteq committed
       /\ summarized' = [summarized EXCEPT ![s] = IF available THEN committed ELSE @]
       /\ summaries' = [summaries EXCEPT ![s] = sums]
       /\ Moves(s, [op[s] EXCEPT !.at = "history", !.manifest = available,
            !.summarized = last, !.through = Resumes(@, sums, op[s].seen, last)])
  BY DEF ReadManifest
<1>2. PICK sums \in SUBSET Messages : sums = IF available THEN committed ELSE summaries[s]
  BY DEF TypeInv, Shapes
<1>3. /\ op[s] \in Op /\ op[s].through \in Known /\ op[s].summarized \in Known
      /\ op[s].seen \in Seq(Messages) /\ op[s].at # "none"
  BY DEF TypeInv, Shapes, Op, ReadManifest, Project
<1>4. PICK last \in Known :
        last = IF available /\ sums # {} THEN Last0(sums) ELSE op[s].summarized
  BY <1>3, LastIsIn DEF Known
<1>5. PICK t \in Known : t = Resumes(op[s].through, sums, op[s].seen, last)
  <2>1. Last0(sums \cap ToSet(op[s].seen)) \in Known
    BY LastIsIn DEF Known
  <2>2. QED
    BY <1>3, <1>4, <2>1 DEF Resumes
<1>6. PICK o \in Op : o = [op[s] EXCEPT !.at = "history", !.manifest = available,
                                        !.summarized = last, !.through = t]
  BY <1>3, Edited DEF Places
<1>7. op' = [op EXCEPT ![s] = o]
  BY <1>1, <1>2, <1>3, <1>4, <1>5, <1>6 DEF Moves, Op
<1>8. /\ summarized' \in [Sessions -> SUBSET Messages] /\ summaries' \in [Sessions -> SUBSET Messages]
      /\ used' \in [messages : 0..MaxMessages, troubles : 0..MaxTroubles]
  <2>1. summaries' = [summaries EXCEPT ![s] = sums]
    BY <1>1, <1>2
  <2>2. committed \subseteq Messages
    BY DEF TypeInv, Shapes
  <2>3. Trouble \/ UNCHANGED used
    BY <1>1
  <2>4. used' \in [messages : 0..MaxMessages, troubles : 0..MaxTroubles]
    BY <2>3, TroubleTypes DEF TypeInv
  <2>5. QED
    BY <1>1, <2>1, <2>2, <2>4 DEF TypeInv, Shapes
<1>9. Shapes'
  BY <1>7, <1>8 DEF TypeInv, Shapes, ReadManifest, OnlyOp, hostVars, storeVars, ends
<1>10. Quiet
  BY <1>3, <1>6, <1>7 DEF TypeInv, Shapes, ReadManifest, OnlyOp, ends, Quiet, Op
<1>11. QED
  BY <1>9, <1>10, QuietFits DEF TypeInv

LEMMA ReadHistoryTypes ==
  ASSUME TypeInv, NEW s \in Sessions, ReadHistory(s)
  PROVE  TypeInv'
<1>1. /\ op[s] \in Op /\ op[s].through \in Known /\ op[s].at # "none"
      /\ history[s] \in Seq(Messages)
  BY DEF TypeInv, Shapes, Op, ReadHistory, Project
<1>2. PICK h \in Seq(Messages) : h = <<>>
  BY EmptySeq
<1>3. PICK f \in Seq(Messages) :
        f = IF op[s].manifest THEN Closed(After(history[s], op[s].through)) ELSE <<>>
  BY <1>1, <1>2, Cuts DEF Known
<1>4. \E o \in Op : op' = [op EXCEPT ![s] = o] /\ o.at = "usage" /\ o.kind = op[s].kind
  <2>1. "usage" \in Places
    BY DEF Places
  <2>2. PICK o \in Op : o = [op[s] EXCEPT !.at = "usage", !.seen = h, !.manifest = FALSE]
    BY <1>1, <2>1, Edited
  <2>3. PICK o2 \in Op : o2 = [op[s] EXCEPT !.at = "usage", !.seen = h, !.manifest = FALSE,
                                            !.fresh = f]
    BY <1>1, <2>1, Edited
  <2>4. op' = [op EXCEPT ![s] = o] \/ op' = [op EXCEPT ![s] = o2]
    BY <1>2, <1>3, <2>2, <2>3 DEF ReadHistory, Moves
  <2>5. /\ o.at = "usage" /\ o.kind = op[s].kind
        /\ o2.at = "usage" /\ o2.kind = op[s].kind
    BY <1>1, <2>2, <2>3 DEF Op
  <2>6. QED
    BY <2>4, <2>5
<1>5. used' \in [messages : 0..MaxMessages, troubles : 0..MaxTroubles]
  BY TroubleTypes DEF TypeInv, ReadHistory
<1>6. Setting(s, "usage") \in Write
  BY DEF Setting, Write
<1>7. Shapes'
  BY <1>4, <1>5, <1>6 DEF TypeInv, Shapes, ReadHistory, OnlyOp, hostVars, serverVars, ends
<1>8. Quiet
  BY <1>1, <1>4 DEF TypeInv, Shapes, ReadHistory, OnlyOp, ends, Quiet
<1>9. QED
  BY <1>7, <1>8, QuietFits DEF TypeInv

LEMMA UsageStoredTypes ==
  ASSUME TypeInv, NEW s \in Sessions, UsageStored(s)
  PROVE  TypeInv'
<1>1. [op[s] EXCEPT !.at = "posting"] \in Op
  BY Edited DEF TypeInv, Shapes, Places
<1>2. Shapes'
  BY <1>1 DEF TypeInv, Shapes, UsageStored, Moves, OnlyOp, hostVars, serverVars, storeVars, ends
<1>3. Quiet
  BY DEF TypeInv, Shapes, UsageStored, Moves, Project, OnlyOp, ends, Quiet
<1>4. QED
  BY <1>2, <1>3, QuietFits DEF TypeInv

LEMMA StoreCursorTypes ==
  ASSUME TypeInv, NEW s \in Sessions, StoreCursor(s)
  PROVE  TypeInv'
<1>1. [op[s] EXCEPT !.at = "storing"] \in Op
  BY Edited DEF TypeInv, Shapes, Places
<1>2. Setting(s, "cursor") \in Write
  BY DEF Setting, Write
<1>3. Shapes'
  BY <1>1, <1>2 DEF TypeInv, Shapes, StoreCursor, Moves, OnlyOp, hostVars, serverVars, ends
<1>4. Quiet
  BY DEF TypeInv, Shapes, StoreCursor, Moves, Project, OnlyOp, ends, Quiet
<1>5. QED
  BY <1>3, <1>4, QuietFits DEF TypeInv

LEMMA PostTypes ==
  ASSUME TypeInv, NEW s \in Sessions, Post(s)
  PROVE  TypeInv'
<1>1. op[s] \in Op /\ op[s].fresh \in Seq(Messages) /\ op[s].fresh # <<>>
  BY DEF TypeInv, Shapes, Op, Post
<1>2. Head(op[s].fresh) \in Messages /\ Tail(op[s].fresh) \in Seq(Messages)
  BY <1>1, HeadTailProperties
<1>3. PICK o \in Op : o = Advanced(op[s])
  BY <1>1, <1>2, EditedPosts DEF Advanced, Known
<1>4. o.at = op[s].at /\ o.kind = op[s].kind
  BY <1>1, <1>3 DEF Advanced, Op
<1>5. op' = [op EXCEPT ![s] = o]
  BY <1>3 DEF Post, Moves
<1>6. Shapes'
  BY <1>2, <1>5 DEF TypeInv, Shapes, Post, OnlyOp, hostVars, storeVars, ends
<1>7. Quiet
  BY <1>4, <1>5 DEF TypeInv, Shapes, Post, OnlyOp, ends, Quiet
<1>8. QED
  BY <1>6, <1>7, QuietFits DEF TypeInv

LEMMA PostFailsTypes ==
  ASSUME TypeInv, NEW s \in Sessions, PostFails(s)
  PROVE  TypeInv'
<1>1. op[s] \in Op /\ op[s].fresh \in Seq(Messages) /\ op[s].fresh # <<>>
  BY DEF TypeInv, Shapes, Op, PostFails
<1>2. Head(op[s].fresh) \in Messages
  BY <1>1, HeadTailProperties
<1>3. PICK o \in Op : o = Deferred(op[s])
  BY <1>1, EditedPosts, EmptySeq DEF Deferred
<1>4. o.at = op[s].at /\ o.kind = op[s].kind
  BY <1>1, <1>3 DEF Deferred, Op
<1>5. op' = [op EXCEPT ![s] = o]
  BY <1>3 DEF PostFails, Moves
<1>6. used' \in [messages : 0..MaxMessages, troubles : 0..MaxTroubles]
  BY TroubleTypes DEF TypeInv, PostFails
<1>7. posted' \in [Sessions -> SUBSET Messages]
  <2>1. PICK m \in Messages : m = Head(op[s].fresh)
    BY <1>2
  <2>2. posted' = posted \/ posted' = [posted EXCEPT ![s] = @ \cup {m}]
    BY <2>1 DEF PostFails
  <2>3. posted[s] \cup {m} \subseteq Messages /\ posted \in [Sessions -> SUBSET Messages]
    BY DEF TypeInv, Shapes
  <2>4. QED
    BY <2>2, <2>3
<1>8. Shapes'
  BY <1>5, <1>6, <1>7 DEF TypeInv, Shapes, PostFails, OnlyOp, hostVars, storeVars, ends
<1>9. Quiet
  BY <1>4, <1>5 DEF TypeInv, Shapes, PostFails, OnlyOp, ends, Quiet
<1>10. QED
  BY <1>8, <1>9, QuietFits DEF TypeInv

LEMMA AnswerTypes ==
  ASSUME TypeInv, NEW s \in Sessions, Answer(s)
  PROVE  TypeInv'
<1>1. op[s].at # "none" /\ Finish(s, FALSE)
  BY DEF Answer, Project
<1>2. PICK b \in BOOLEAN : b = FALSE
  OBVIOUS
<1>3. Finish(s, b)
  BY <1>1, <1>2
<1>4. QED
  BY <1>1, <1>3, FinishTypes DEF TypeInv, Shapes, Answer, Finish, serverVars, storeVars

LEMMA OperationFailsTypes ==
  ASSUME TypeInv, NEW s \in Sessions, OperationFails(s)
  PROVE  TypeInv'
<1>1. op[s].at # "none" /\ op[s] \in Op
  BY DEF TypeInv, Shapes, OperationFails
<1>2. used' \in [messages : 0..MaxMessages, troubles : 0..MaxTroubles]
  BY TroubleTypes DEF TypeInv, OperationFails
<1>3. CASE op[s].at = "usage"
  <2>1. [op[s] EXCEPT !.at = "cleaning"] \in Op
    BY <1>1, Edited DEF Places
  <2>2. Removal(s, "usage", "cleanup") \in Write
    BY DEF Removal, Write
  <2>3. op' = [op EXCEPT ![s] = [op[s] EXCEPT !.at = "cleaning"]]
    BY <1>3 DEF OperationFails, Moves
  <2>4. writes' \subseteq Write
    BY <1>3, <2>2 DEF TypeInv, Shapes, OperationFails
  <2>5. OnlyOp /\ UNCHANGED <<summaries, serverVars, stored>>
    BY <1>3 DEF OperationFails
  <2>6. Shapes'
    BY <1>2, <2>1, <2>3, <2>4, <2>5 DEF TypeInv, Shapes, OnlyOp, hostVars, serverVars, ends
  <2>7. Quiet
    BY <1>1, <2>3, <2>5 DEF TypeInv, Shapes, OnlyOp, ends, Quiet
  <2>8. QED
    BY <2>6, <2>7, QuietFits DEF TypeInv
<1>4. CASE op[s].at # "usage"
  <2>1. PICK b \in BOOLEAN : b = FALSE
    OBVIOUS
  <2>2. Finish(s, b) /\ UNCHANGED <<writes, revisions, serverVars, stored>>
    BY <1>4, <2>1 DEF OperationFails
  <2>3. QED
    BY <1>1, <1>2, <2>2, FinishTypes DEF TypeInv, Shapes, Finish, serverVars
<1>5. QED
  BY <1>3, <1>4

LEMMA CleanedTypes ==
  ASSUME TypeInv, NEW s \in Sessions, Cleaned(s)
  PROVE  TypeInv'
<1>1. PICK b \in BOOLEAN : b = FALSE
  OBVIOUS
<1>2. op[s].at # "none" /\ Finish(s, b)
  BY <1>1 DEF Cleaned
<1>3. QED
  BY <1>2, FinishTypes DEF TypeInv, Shapes, Cleaned, Finish, serverVars, storeVars

LEMMA UpdateReadTypes ==
  ASSUME TypeInv, NEW s \in Sessions, UpdateRead(s)
  PROVE  TypeInv'
<1>1. op[s] \in Op /\ history[s] \in Seq(Messages)
  BY DEF TypeInv, Shapes
<1>2. [op[s] EXCEPT !.at = "manifest", !.seen = history[s]] \in Op
  BY <1>1, Edited DEF Places
<1>3. Shapes'
  BY <1>2 DEF TypeInv, Shapes, UpdateRead, Moves, OnlyOp, hostVars, serverVars, storeVars, ends
<1>4. Quiet
  BY <1>1 DEF TypeInv, Shapes, UpdateRead, Moves, Update, OnlyOp, ends, Quiet
<1>5. QED
  BY <1>3, <1>4, QuietFits DEF TypeInv

LEMMA UpdateSkipsTypes ==
  ASSUME TypeInv, NEW s \in Sessions, UpdateSkips(s)
  PROVE  TypeInv'
<1>1. PICK b \in BOOLEAN : b = FALSE
  OBVIOUS
<1>2. op[s].at # "none" /\ Finish(s, b)
  BY <1>1 DEF UpdateSkips, Update
<1>3. QED
  BY <1>2, FinishTypes DEF TypeInv, Shapes, UpdateSkips, Finish, serverVars, storeVars

\* What is planned: messages in order, none of them posted yet.
LEMMA Planned ==
  ASSUME TypeInv, NEW s \in Sessions, NEW seen \in Seq(Messages)
  PROVE  /\ Plan(s, seen) \in Seq(Messages)
         /\ ToSet(Plan(s, seen)) =
              ToSet(IF op[s].kind = "sweep" THEN seen ELSE Closed(seen)) \ posted[s]
         /\ \A i, j \in 1..Len(Plan(s, seen)) : i < j => Plan(s, seen)[i] < Plan(s, seen)[j]
<1>1. PICK ids : ids = ToSet(IF op[s].kind = "sweep" THEN seen ELSE Closed(seen)) \ posted[s]
  OBVIOUS
<1>2. ids \subseteq Messages
  <2>1. ToSet(seen) \subseteq Messages /\ Closed(seen) \in Seq(Messages)
    BY Cuts DEF Known
  <2>2. ToSet(Closed(seen)) \subseteq Messages
    BY <2>1, Cuts DEF Known
  <2>3. QED
    BY <1>1, <2>1, <2>2
<1>3. /\ InOrder(ids) \in Seq(ids) /\ ToSet(InOrder(ids)) = ids
      /\ \A i, j \in 1..Len(InOrder(ids)) : i < j => InOrder(ids)[i] < InOrder(ids)[j]
  BY <1>2, Sizes, InOrderIsSeq DEF Messages
<1>4. InOrder(ids) \in Seq(Messages)
  BY <1>2, <1>3, SeqMonotonic
<1>5. Plan(s, seen) = InOrder(ids)
  BY <1>1 DEF Plan
<1>6. QED
  BY <1>1, <1>3, <1>4, <1>5

LEMMA UpdateCheckTypes ==
  ASSUME TypeInv, NEW s \in Sessions, UpdateCheck(s)
  PROVE  TypeInv'
<1>1. op[s] \in Op /\ op[s].seen \in Seq(Messages) /\ op[s].at # "none"
  BY DEF TypeInv, Shapes, Op, UpdateCheck, Update
<1>2. PICK f \in Seq(Messages) : f = Plan(s, op[s].seen)
  BY <1>1, Planned
<1>3. PICK o \in Op : o = [op[s] EXCEPT !.at = "posting", !.fresh = f]
  BY <1>1, Edited DEF Places
<1>4. op' = [op EXCEPT ![s] = o] /\ o.kind = op[s].kind
  BY <1>1, <1>2, <1>3 DEF UpdateCheck, Moves, Op
<1>5. Shapes'
  BY <1>4 DEF TypeInv, Shapes, UpdateCheck, OnlyOp, hostVars, serverVars, storeVars, ends
<1>6. Quiet
  BY <1>1, <1>4 DEF TypeInv, Shapes, UpdateCheck, OnlyOp, ends, Quiet
<1>7. QED
  BY <1>5, <1>6, QuietFits DEF TypeInv

LEMMA UpdateDoneTypes ==
  ASSUME TypeInv, NEW s \in Sessions, UpdateDone(s)
  PROVE  TypeInv'
<1>1. PICK b \in BOOLEAN : b = TRUE
  OBVIOUS
<1>2. op[s].at # "none" /\ Finish(s, b)
  BY <1>1 DEF UpdateDone, Update
<1>3. revisions' \in [Sessions -> BOOLEAN]
  BY DEF TypeInv, Shapes, UpdateDone
<1>4. QED
  BY <1>2, <1>3, FinishTypes DEF TypeInv, Shapes, UpdateDone, Finish, serverVars, storeVars

LEMMA RefuseTypes ==
  ASSUME TypeInv, NEW s \in Sessions, Refuse(s)
  PROVE  TypeInv'
<1>1. queue[s] # <<>> /\ Settle(s) /\ idle' = idle /\ op' = op /\ op[s].at = "none"
  BY DEF Refuse
<1>2. \A r \in Sessions : op'[r].at # "none" => r # s /\ op'[r] = op[r]
  BY <1>1
<1>3. \A r \in Sessions : QueueFits(r)'
  BY <1>1, <1>2, SettleFits
<1>4. sweep' \in Sweep /\ (sweep'.at = "visit" => sweep'.batch # <<>>)
  BY SweepMoves DEF TypeInv, Shapes, Refuse
<1>5. QED
  BY <1>1, <1>3, <1>4, SettleTypes DEF TypeInv, Shapes, Refuse, serverVars, storeVars

LEMMA TimeoutTypes ==
  ASSUME TypeInv, NEW s \in Sessions, Timeout(s)
  PROVE  TypeInv'
<1>1. /\ op' \in [Sessions -> Op]
      /\ \A r \in Sessions : op'[r].at = op[r].at /\ op'[r].kind = op[r].kind
      /\ writes' \subseteq Write
  <2>1. Shapes /\ Abort({s}) /\ {s} \subseteq Sessions
    BY DEF TypeInv, Timeout
  <2>2. /\ op' \in [Sessions -> Op]
        /\ \A r \in Sessions : op'[r].at = op[r].at /\ op'[r].kind = op[r].kind
        /\ writes' = writes \ Interrupt({s})
    BY <2>1, Aborting
  <2>3. writes \subseteq Write
    BY DEF TypeInv, Shapes
  <2>4. QED
    BY <2>2, <2>3
<1>2. used' \in [messages : 0..MaxMessages, troubles : 0..MaxTroubles]
  BY TroubleTypes DEF TypeInv, Timeout
<1>3. Shapes'
  BY <1>1, <1>2 DEF TypeInv, Shapes, Timeout, hostVars, serverVars, marks, ends
<1>4. Quiet
  BY <1>1 DEF Timeout, marks, ends, Quiet
<1>5. QED
  BY <1>3, <1>4, QuietFits DEF TypeInv

LEMMA Announced ==
  ASSUME Shapes, NEW events \in Seq(Event), Announce(events)
  PROVE  stream' \in Seq(Event)
<1>1. stream \o events \in Seq(Event)
  BY ConcatProperties DEF Shapes
<1>2. QED
  BY <1>1 DEF Shapes, Announce

\* A queue gets an entry that is no idle pass.
LEMMA JoinedFits ==
  ASSUME TypeInv, NEW s \in Sessions, NEW item \in Item, item.kind # "idle",
         queue' = [queue EXCEPT ![s] = Append(@, item)],
         UNCHANGED <<op, left, drain, idle, leaving>>
  PROVE  /\ queue' \in [Sessions -> Seq(Item)]
         /\ \A r \in Sessions : QueueFits(r)'
<1>1. PICK q \in Seq(Item) : q = queue[s]
  BY DEF TypeInv, Shapes
<1>2. PICK n \in Seq(Item) : n = Append(q, item)
  BY Joined
<1>3. /\ Len(n) = Len(q) + 1 /\ n # <<>> /\ Len(q) \in Nat
      /\ q # <<>> => Head(n) = Head(q)
      /\ NoPass(q) => NoPass(n)
      /\ OnePass(q) => OnePass(n)
  BY <1>2, Joined
<1>4. queue' = [queue EXCEPT ![s] = n]
  BY <1>1, <1>2
<1>5. queue' \in [Sessions -> Seq(Item)]
  BY <1>4 DEF TypeInv, Shapes
<1>6. ASSUME NEW r \in Sessions, r # s PROVE QueueFits(r)'
  <2>1. /\ queue'[r] = queue[r] /\ op'[r] = op[r] /\ left'[r] = left[r] /\ drain'[r] = drain[r]
        /\ idle'[r] = idle[r] /\ leaving'[r] = leaving[r]
    BY <1>4, <1>6 DEF TypeInv, Shapes
  <2>2. QueueFits(r)
    BY DEF TypeInv
  <2>3. /\ op'[r].at # "none" => queue'[r] # <<>> /\ op'[r].kind = Head(queue'[r]).kind
        /\ left'[r] <= Len(queue'[r]) /\ drain'[r] <= Len(queue'[r])
        /\ leaving'[r] => idle'[r] # "none"
    BY <2>1, <2>2 DEF QueueFits
  <2>4. /\ idle'[r] = "none" \/ leaving'[r] => NoPass(queue'[r])
        /\ idle'[r] # "none" /\ ~leaving'[r] => OnePass(queue'[r])
    BY <2>1, <2>2 DEF QueueFits
  <2>5. QED
    BY <2>3, <2>4 DEF QueueFits, NoPass, OnePass
<1>7. QueueFits(s)'
  <2>1. /\ queue'[s] = n /\ op'[s] = op[s] /\ left'[s] = left[s] /\ drain'[s] = drain[s]
        /\ idle'[s] = idle[s] /\ leaving'[s] = leaving[s]
    BY <1>4 DEF TypeInv, Shapes
  <2>2. left[s] \in Nat /\ drain[s] \in Nat
    BY DEF TypeInv, Shapes
  <2>3. left[s] <= Len(n) /\ drain[s] <= Len(n)
    BY <1>1, <1>3, <2>2 DEF TypeInv, QueueFits
  <2>4. QueueFits(s)
    BY DEF TypeInv
  <2>5. /\ op[s].at # "none" => n # <<>> /\ op[s].kind = Head(n).kind
        /\ idle[s] = "none" \/ leaving[s] => NoPass(n)
        /\ idle[s] # "none" /\ ~leaving[s] => OnePass(n)
        /\ leaving[s] => idle[s] # "none"
    BY <1>1, <1>3, <2>4 DEF QueueFits
  <2>6. QED
    BY <2>1, <2>3, <2>5 DEF QueueFits, NoPass, OnePass
<1>8. QED
  BY <1>5, <1>6, <1>7

LEMMA CallHookTypes ==
  ASSUME TypeInv, NEW s \in Sessions, CallHook(s)
  PROVE  TypeInv'
<1>1. PICK m \in Messages : m = used.messages + 1 /\ used' = [used EXCEPT !.messages = m]
  <2>1. used.messages \in 0..MaxMessages /\ used.messages < MaxMessages /\ MaxMessages \in Nat
    BY Sizes DEF TypeInv, Shapes, CallHook
  <2>2. used' = [used EXCEPT !.messages = used.messages + 1]
    BY DEF CallHook
  <2>3. used.messages + 1 \in Messages
    BY <2>1 DEF Messages
  <2>4. QED
    BY <2>2, <2>3
<1>2. /\ used' \in [messages : 0..MaxMessages, troubles : 0..MaxTroubles]
      /\ used'.messages = m
  <2>1. m \in 0..MaxMessages
    BY Sizes DEF Messages
  <2>2. QED
    BY <1>1, <2>1 DEF TypeInv, Shapes
<1>3. PICK h \in Seq(Messages) : h = Append(history[s], m)
  BY AppendProperties DEF TypeInv, Shapes
<1>4. history' = [history EXCEPT ![s] = h] /\ history'[s] = h
  BY <1>2, <1>3 DEF TypeInv, Shapes, CallHook
<1>5. PICK item \in Item :
        item = [Job("project") EXCEPT !.seen = h, !.call = m] /\ item.kind = "project"
  <2>1. [Job("project") EXCEPT !.seen = h, !.call = m] \in Item
    BY Jobs DEF Kinds
  <2>2. [Job("project") EXCEPT !.seen = h, !.call = m].kind = "project"
    BY DEF Job
  <2>3. QED
    BY <2>1, <2>2
<1>6. queue' = [queue EXCEPT ![s] = Append(@, item)]
  BY <1>2, <1>4, <1>5 DEF CallHook
<1>7. queue' \in [Sessions -> Seq(Item)] /\ \A r \in Sessions : QueueFits(r)'
  BY <1>5, <1>6, JoinedFits DEF CallHook, ends
<1>8. Shapes'
  BY <1>2, <1>4, <1>7 DEF TypeInv, Shapes, CallHook, serverVars, storeVars, ends
<1>9. QED
  BY <1>7, <1>8 DEF TypeInv

LEMMA EndRunTypes ==
  ASSUME TypeInv, NEW s \in Sessions, EndRun(s)
  PROVE  TypeInv'
<1>1. PICK e \in Event : e = [kind |-> "idle", session |-> s]
  BY DEF Event
<1>2. \/ Announce(<<e>>) /\ UNCHANGED used
      \/ Announce(<<e, e>>) /\ Trouble
  BY <1>1 DEF EndRun
<1>3. <<e>> \in Seq(Event) /\ <<e, e>> \in Seq(Event)
  OBVIOUS
<1>4. stream' \in Seq(Event)
  BY <1>2, <1>3, Announced DEF TypeInv
<1>5. used' \in [messages : 0..MaxMessages, troubles : 0..MaxTroubles]
  BY <1>2, TroubleTypes DEF TypeInv
<1>6. Shapes'
  BY <1>4, <1>5 DEF TypeInv, Shapes, EndRun, serverVars, storeVars, tasks, marks, ends
<1>7. Quiet
  BY DEF EndRun, tasks, marks, ends, Quiet
<1>8. QED
  BY <1>6, <1>7, QuietFits DEF TypeInv

LEMMA RevertTypes ==
  ASSUME TypeInv, NEW s \in Sessions, Revert(s)
  PROVE  TypeInv'
<1>1. used' \in [messages : 0..MaxMessages, troubles : 0..MaxTroubles]
  BY TroubleTypes DEF TypeInv, Revert
<1>2. PICK k \in 0..Len(history[s]) - 1 :
        history' = [history EXCEPT ![s] = SubSeq(history[s], 1, k)]
  BY DEF Revert
<1>3. history[s] \in Seq(Messages)
  BY DEF TypeInv, Shapes
<1>4. SubSeq(history[s], 1, k) \in Seq(Messages)
  BY <1>3, SubSeqProperties
<1>5. Shapes'
  BY <1>1, <1>2, <1>4 DEF TypeInv, Shapes, Revert, serverVars, storeVars, tasks, ends
<1>6. Quiet
  BY DEF Revert, tasks, ends, Quiet
<1>7. QED
  BY <1>5, <1>6, QuietFits DEF TypeInv

LEMMA DeleteSessionTypes ==
  ASSUME TypeInv, NEW s \in Sessions, DeleteSession(s)
  PROVE  TypeInv'
<1>1. used' \in [messages : 0..MaxMessages, troubles : 0..MaxTroubles]
  BY TroubleTypes DEF TypeInv, DeleteSession
<1>2. PICK e \in Event : e = [kind |-> "deleted", session |-> s]
  BY DEF Event
<1>3. <<e>> \in Seq(Event)
  OBVIOUS
<1>4. stream' \in Seq(Event)
  BY <1>2, <1>3, Announced DEF TypeInv, DeleteSession
<1>5. PICK h \in Seq(Messages) : h = <<>>
  BY EmptySeq
<1>6. history' = [history EXCEPT ![s] = h]
  BY <1>5 DEF DeleteSession
<1>7. Shapes'
  BY <1>1, <1>4, <1>6 DEF TypeInv, Shapes, DeleteSession, serverVars, storeVars, tasks, marks, ends
<1>8. Quiet
  BY DEF DeleteSession, tasks, marks, ends, Quiet
<1>9. QED
  BY <1>7, <1>8, QuietFits DEF TypeInv

LEMMA IdleForgottenTypes ==
  ASSUME TypeInv, NEW s \in Sessions, IdleForgotten(s)
  PROVE  TypeInv'
<1>1. Shapes'
  BY DEF TypeInv, Shapes, IdleForgotten, hostVars, serverVars, storeVars, tasks, ends
<1>2. ASSUME NEW r \in Sessions PROVE QueueFits(r)'
  BY DEF TypeInv, Shapes, IdleForgotten, tasks, ends, QueueFits, NoPass, OnePass
<1>3. QED
  BY <1>1, <1>2 DEF TypeInv

LEMMA SweepListTypes ==
  ASSUME TypeInv, SweepList
  PROVE  TypeInv'
<1>1. PICK end \in Int : sweep' = [sweep EXCEPT !.at = "batch",
         !.cursor = IF end = LastSession THEN 0 ELSE end,
         !.batch = InOrder({s \in (sweep.cursor + 1)..end : host[s] # "gone"})]
        /\ end \in 0..LastSession
  <2>1. sweep.cursor \in 0..LastSession
    BY DEF TypeInv, Shapes, Sweep
  <2>2. (sweep.cursor + 1) + PageSize > LastSession \/ sweep.cursor + PageSize \in 0..LastSession
    BY <2>1, Sizes
  <2>3. PICK end \in Int : end = IF (sweep.cursor + 1) + PageSize > LastSession
                                   THEN LastSession ELSE sweep.cursor + PageSize
    BY <2>1, Sizes
  <2>4. end \in 0..LastSession
    BY <2>1, <2>2, <2>3, Sizes
  <2>5. sweep' = [sweep EXCEPT !.at = "batch", !.cursor = IF end = LastSession THEN 0 ELSE end,
                    !.batch = InOrder({s \in (sweep.cursor + 1)..end : host[s] # "gone"})]
    BY <2>3 DEF SweepList
  <2>6. QED
    BY <2>4, <2>5
<1>2. {s \in (sweep.cursor + 1)..end : host[s] # "gone"} \subseteq 1..LastSession
  <2>1. sweep.cursor \in 0..LastSession
    BY DEF TypeInv, Shapes, Sweep
  <2>2. QED
    BY <1>1, <2>1, Sizes
<1>3. PICK batch \in Seq(Sessions) :
        batch = InOrder({s \in (sweep.cursor + 1)..end : host[s] # "gone"})
  BY <1>2, Sizes, InOrderIsSeq, SeqMonotonic DEF Sessions
<1>4. sweep' \in Sweep /\ sweep'.at = "batch"
  <2>1. PICK c \in 0..LastSession : c = IF end = LastSession THEN 0 ELSE end
    BY <1>1, Sizes
  <2>2. sweep' = [sweep EXCEPT !.at = "batch", !.cursor = c, !.batch = batch]
    BY <1>1, <1>3, <2>1
  <2>3. QED
    BY <2>2 DEF TypeInv, Shapes, Sweep
<1>5. Shapes'
  BY <1>4 DEF TypeInv, Shapes, SweepList, OnlySweep, hostVars, serverVars, marks, ends
<1>6. Quiet
  BY DEF SweepList, OnlySweep, marks, ends, Quiet
<1>7. QED
  BY <1>5, <1>6, QuietFits DEF TypeInv

LEMMA SweepVisitsTypes ==
  ASSUME TypeInv, SweepVisits
  PROVE  TypeInv'
<1>1. /\ sweep \in Sweep /\ sweep.batch \in Seq(Sessions) /\ sweep.batch # <<>>
      /\ sweep.at = "batch"
  BY DEF TypeInv, Shapes, Sweep, SweepVisits
<1>2. PICK s \in Sessions : s = Head(sweep.batch)
  BY <1>1, HeadTailProperties
<1>3. Tail(sweep.batch) \in Seq(Sessions)
  BY <1>1, HeadTailProperties
<1>4. CASE sweep' = [sweep EXCEPT !.batch = Tail(@)] /\ UNCHANGED queue
  <2>1. sweep' \in Sweep /\ sweep'.at = "batch"
    BY <1>1, <1>3, <1>4 DEF Sweep
  <2>2. Shapes'
    BY <1>4, <2>1 DEF TypeInv, Shapes, SweepVisits, OnlySweep, hostVars, serverVars, marks, ends
  <2>3. Quiet
    BY <1>4 DEF SweepVisits, OnlySweep, marks, ends, Quiet
  <2>4. QED
    BY <2>2, <2>3, QuietFits DEF TypeInv
<1>5. CASE /\ queue' = [queue EXCEPT ![s] = Append(@, Job("sweep"))]
           /\ sweep' = [sweep EXCEPT !.at = "visit"]
  <2>1. PICK item \in Item : item = Job("sweep") /\ item.kind = "sweep"
    BY Jobs DEF Kinds
  <2>2. queue' \in [Sessions -> Seq(Item)] /\ \A r \in Sessions : QueueFits(r)'
    BY <1>5, <2>1, JoinedFits DEF SweepVisits, OnlySweep, marks, ends
  <2>3. sweep' \in Sweep /\ sweep'.batch # <<>>
    BY <1>1, <1>5 DEF Sweep
  <2>4. Shapes'
    BY <2>2, <2>3 DEF TypeInv, Shapes, SweepVisits, OnlySweep, hostVars, serverVars, marks, ends
  <2>5. QED
    BY <2>2, <2>4 DEF TypeInv
<1>6. QED
  BY <1>2, <1>4, <1>5 DEF SweepVisits

\* An abort reaches operations and entries of all queues.
LEMMA OrphaningFits ==
  ASSUME TypeInv, NEW reached, reached \subseteq Sessions, Abort(reached),
         queue' = [s \in Sessions |-> Orphaned(queue[s])],
         left' = left, idle' = idle, leaving' = leaving,
         drain' = drain \/ drain' = [s \in Sessions |-> Len(queue[s])]
  PROVE  /\ queue' \in [Sessions -> Seq(Item)] /\ drain' \in [Sessions -> Nat]
         /\ op' \in [Sessions -> Op] /\ writes' \subseteq Write
         /\ \A s \in Sessions : QueueFits(s)'
<1>1. /\ op' \in [Sessions -> Op] /\ writes' \subseteq Write
      /\ \A s \in Sessions : op'[s].at = op[s].at /\ op'[s].kind = op[s].kind
  BY Aborting DEF TypeInv, Shapes
<1>2. \A s \in Sessions : queue[s] \in Seq(Item)
  BY DEF TypeInv, Shapes
<1>3. queue' \in [Sessions -> Seq(Item)]
  BY <1>2, OrphanedFits
<1>4. drain' \in [Sessions -> Nat]
  BY <1>2, LenProperties DEF TypeInv, Shapes
<1>5. ASSUME NEW s \in Sessions PROVE QueueFits(s)'
  <2>1. PICK q \in Seq(Item) : q = queue[s]
    BY <1>2
  <2>2. PICK r \in Seq(Item) : r = Orphaned(q)
    BY OrphanedFits
  <2>3. /\ Len(r) = Len(q) /\ Len(q) \in Nat
        /\ q # <<>> => r # <<>> /\ Head(r).kind = Head(q).kind
        /\ NoPass(q) => NoPass(r)
        /\ OnePass(q) => OnePass(r)
    BY <2>2, OrphanedFits
  <2>4. queue'[s] = r /\ (drain'[s] = drain[s] \/ drain'[s] = Len(q))
    BY <2>1, <2>2
  <2>5. /\ op'[s].at = op[s].at /\ op'[s].kind = op[s].kind /\ left'[s] = left[s]
        /\ idle'[s] = idle[s] /\ leaving'[s] = leaving[s]
    BY <1>1
  <2>6. QED
    BY <2>1, <2>3, <2>4, <2>5 DEF TypeInv, QueueFits, NoPass, OnePass
<1>6. QED
  BY <1>1, <1>3, <1>4, <1>5

LEMMA SweepTimeoutTypes ==
  ASSUME TypeInv, SweepTimeout
  PROVE  TypeInv'
<1>1. used' \in [messages : 0..MaxMessages, troubles : 0..MaxTroubles]
  BY TroubleTypes DEF TypeInv, SweepTimeout
<1>2. /\ queue' \in [Sessions -> Seq(Item)]
      /\ op' \in [Sessions -> Op] /\ writes' \subseteq Write
      /\ \A s \in Sessions : QueueFits(s)'
  <2>1. PICK reached \in SUBSET Sessions : Abort(reached)
    BY DEF SweepTimeout
  <2>2. QED
    BY <2>1, OrphaningFits DEF SweepTimeout, OnlySweep, marks, ends
<1>3. sweep' \in Sweep /\ sweep'.at = sweep.at /\ sweep'.batch = sweep.batch
  BY DEF TypeInv, Shapes, SweepTimeout, Sweep
<1>4. Shapes'
  BY <1>1, <1>2, <1>3 DEF TypeInv, Shapes, SweepTimeout, OnlySweep, hostVars, serverVars, marks, ends
<1>5. QED
  BY <1>2, <1>4 DEF TypeInv

LEMMA SweepEndsTypes ==
  ASSUME TypeInv, SweepEnds
  PROVE  TypeInv'
<1>1. used' \in [messages : 0..MaxMessages, troubles : 0..MaxTroubles]
  BY TroubleTypes DEF TypeInv, SweepEnds
<1>2. sweep' \in Sweep /\ sweep'.at # "visit"
  BY SweepMoves DEF TypeInv, SweepEnds
<1>3. Shapes'
  BY <1>1, <1>2 DEF TypeInv, Shapes, SweepEnds, OnlySweep, hostVars, serverVars, marks, ends
<1>4. Quiet
  BY DEF SweepEnds, OnlySweep, marks, ends, Quiet
<1>5. QED
  BY <1>3, <1>4, QuietFits DEF TypeInv

LEMMA ApplyWriteTypes ==
  ASSUME TypeInv, NEW w \in writes, ApplyWrite(w)
  PROVE  TypeInv'
<1>1. w \in Write /\ w.session \in Sessions /\ w.set \in BOOLEAN
  BY DEF TypeInv, Shapes, Write
<1>2. stored[w.session] \in Stored /\ op[w.session] \in Op
  BY <1>1 DEF TypeInv, Shapes
<1>3. Applied(w) \in Stored
  BY <1>1, <1>2, Records DEF Applied, Stored, Op
<1>4. Shapes'
  BY <1>1, <1>3 DEF TypeInv, Shapes, ApplyWrite, hostVars, serverVars, tasks, marks, ends
<1>5. Quiet
  BY DEF ApplyWrite, tasks, marks, ends, Quiet
<1>6. QED
  BY <1>4, <1>5, QuietFits DEF TypeInv

LEMMA WriteFailsTypes ==
  ASSUME TypeInv, NEW w \in writes, WriteFails(w)
  PROVE  TypeInv'
<1>1. w.session \in Sessions
  BY DEF TypeInv, Shapes, Write
<1>2. used' \in [messages : 0..MaxMessages, troubles : 0..MaxTroubles]
  BY TroubleTypes DEF TypeInv, WriteFails
<1>3. PICK o \in Op : /\ o = Aborted(op[w.session])
                      /\ o.at = op[w.session].at /\ o.kind = op[w.session].kind
  BY <1>1, AbortedOp DEF TypeInv, Shapes
<1>4. op' = op \/ op' = [op EXCEPT ![w.session] = o]
  BY <1>3 DEF WriteFails
<1>5. deleting' \in [Sessions -> {"none", "waiting", "removing", "done", "failed"}]
  BY DEF TypeInv, Shapes, WriteFails, DeletionFails
<1>6. /\ op' \in [Sessions -> Op]
      /\ \A s \in Sessions : op'[s].at = op[s].at /\ op'[s].kind = op[s].kind
  <2>1. PICK x \in Sessions : x = w.session
    BY <1>1
  <2>2. op \in [Sessions -> Op]
    BY DEF TypeInv, Shapes
  <2>3. op' = op \/ op' = [op EXCEPT ![x] = o]
    BY <1>4, <2>1
  <2>4. o.at = op[x].at /\ o.kind = op[x].kind
    BY <1>3, <2>1
  <2>5. QED
    BY <2>2, <2>3, <2>4
<1>7. Shapes'
  BY <1>2, <1>5, <1>6 DEF TypeInv, Shapes, WriteFails, hostVars, serverVars, marks
<1>8. Quiet
  BY <1>6 DEF WriteFails, marks, Quiet
<1>9. QED
  BY <1>7, <1>8, QuietFits DEF TypeInv

LEMMA RemovalExpiresTypes ==
  ASSUME TypeInv, NEW s \in Sessions, NEW by, RemovalExpires(s, by)
  PROVE  TypeInv'
<1>1. used' \in [messages : 0..MaxMessages, troubles : 0..MaxTroubles]
  BY TroubleTypes DEF TypeInv, RemovalExpires
<1>2. deleting' \in [Sessions -> {"none", "waiting", "removing", "done", "failed"}]
  BY DEF TypeInv, Shapes, RemovalExpires, DeletionFails
<1>3. Shapes'
  BY <1>1, <1>2 DEF TypeInv, Shapes, RemovalExpires, hostVars, serverVars, tasks, marks
<1>4. Quiet
  BY DEF RemovalExpires, tasks, marks, Quiet
<1>5. QED
  BY <1>3, <1>4, QuietFits DEF TypeInv

LEMMA RegistryTypes ==
  ASSUME TypeInv, RegistryAttempt \/ StreamFails
  PROVE  TypeInv'
<1>1. used' \in [messages : 0..MaxMessages, troubles : 0..MaxTroubles]
  BY TroubleTypes DEF TypeInv, RegistryAttempt, StreamFails
<1>2. registry' \in {"trying", "down", "ready", "failed"}
  BY DEF TypeInv, Shapes, RegistryAttempt, StreamFails
<1>3. UNCHANGED <<history, host, serverVars, storeVars, tasks, marks, life, deleted,
                  deleting, left, drain>>
  BY DEF RegistryAttempt, StreamFails, OnlyRegistry, hostVars
<1>4. stream' \in Seq(Event)
  BY EmptySeq DEF TypeInv, Shapes, RegistryAttempt, StreamFails, OnlyRegistry, hostVars
<1>5. Shapes'
  BY <1>1, <1>2, <1>3, <1>4 DEF TypeInv, Shapes, serverVars, storeVars, tasks, marks
<1>6. Quiet
  BY <1>3 DEF tasks, marks, Quiet
<1>7. QED
  BY <1>5, <1>6, QuietFits DEF TypeInv

\* A pass is queued, or its entry marked.
LEMMA ScheduleFits ==
  ASSUME TypeInv, NEW s \in Sessions, Schedule(s), UNCHANGED <<left, drain, leaving>>,
         \A r \in Sessions : op'[r].at = op[r].at /\ op'[r].kind = op[r].kind
  PROVE  /\ queue' \in [Sessions -> Seq(Item)]
         /\ idle' \in [Sessions -> {"none", "clean", "dirty"}]
         /\ \A r \in Sessions : QueueFits(r)'
<1>1. PICK q \in Seq(Item) : q = queue[s]
  BY DEF TypeInv, Shapes
<1>2. PICK item \in Item : item = Job("idle") /\ item.kind = "idle" /\ item.live
  BY Jobs DEF Kinds
<1>3. PICK n \in Seq(Item) : n = Append(q, item)
  BY Joined
<1>4. /\ Len(n) = Len(q) + 1 /\ n # <<>> /\ Len(q) \in Nat
      /\ q # <<>> => Head(n) = Head(q)
      /\ NoPass(q) => OnePass(n)
  BY <1>2, <1>3, Joined
<1>5. CASE idle[s] = "none"
  <2>1. queue' = [queue EXCEPT ![s] = n] /\ idle' = [idle EXCEPT ![s] = "clean"]
    BY <1>1, <1>2, <1>3, <1>5 DEF Schedule
  <2>2. /\ queue' \in [Sessions -> Seq(Item)]
        /\ idle' \in [Sessions -> {"none", "clean", "dirty"}]
    BY <2>1 DEF TypeInv, Shapes
  <2>3. ASSUME NEW r \in Sessions, r # s PROVE QueueFits(r)'
    <3>1. /\ queue'[r] = queue[r] /\ idle'[r] = idle[r] /\ leaving'[r] = leaving[r]
          /\ left'[r] = left[r] /\ drain'[r] = drain[r]
      BY <2>1, <2>3 DEF TypeInv, Shapes
    <3>2. QueueFits(r)
      BY DEF TypeInv
    <3>3. QED
      BY <3>1, <3>2 DEF QueueFits, NoPass, OnePass
  <2>4. QueueFits(s)'
    <3>1. /\ queue'[s] = n /\ idle'[s] = "clean" /\ leaving'[s] = leaving[s]
          /\ left'[s] = left[s] /\ drain'[s] = drain[s]
      BY <2>1 DEF TypeInv, Shapes
    <3>2. QueueFits(s)
      BY DEF TypeInv
    <3>3. ~leaving[s] /\ OnePass(n)
      BY <1>1, <1>4, <1>5, <3>2 DEF QueueFits
    <3>4. left[s] <= Len(n) /\ drain[s] <= Len(n)
      BY <1>1, <1>4, <3>2 DEF TypeInv, Shapes, QueueFits
    <3>5. op[s].at # "none" => n # <<>> /\ op[s].kind = Head(n).kind
      BY <1>1, <1>4, <3>2 DEF QueueFits
    <3>6. QED
      BY <3>1, <3>3, <3>4, <3>5 DEF QueueFits, NoPass, OnePass
  <2>5. QED
    BY <2>2, <2>3, <2>4
<1>6. CASE idle[s] # "none"
  <2>1. queue' = queue /\ idle' = [idle EXCEPT ![s] = "dirty"]
    BY <1>6 DEF Schedule
  <2>2. ASSUME NEW r \in Sessions PROVE QueueFits(r)'
    <3>1. idle'[r] = "none" <=> idle[r] = "none"
      BY <1>6, <2>1 DEF TypeInv, Shapes
    <3>2. QueueFits(r)
      BY DEF TypeInv
    <3>3. QED
      BY <2>1, <3>1, <3>2 DEF QueueFits, NoPass, OnePass
  <2>3. QED
    BY <2>1, <2>2 DEF TypeInv, Shapes
<1>7. QED
  BY <1>5, <1>6

LEMMA ListenTypes ==
  ASSUME TypeInv, Listen
  PROVE  TypeInv'
<1>1. stream \in Seq(Event) /\ stream # <<>>
  BY DEF TypeInv, Shapes, Listen
<1>2. Head(stream) \in Event /\ stream' \in Seq(Event)
  BY <1>1, HeadTailProperties DEF Listen
<1>3. PICK s \in Sessions : s = Head(stream).session
  BY <1>2 DEF Event
<1>4. CASE Head(stream).kind = "idle"
  <2>1. HandleIdle(s)
    BY <1>3, <1>4 DEF Listen
  <2>2. PICK reached \in SUBSET Sessions : Abort(reached)
    BY <2>1 DEF HandleIdle
  <2>3. /\ op' \in [Sessions -> Op] /\ writes' \subseteq Write
        /\ \A r \in Sessions : op'[r].at = op[r].at /\ op'[r].kind = op[r].kind
    BY <2>2, Aborting DEF TypeInv, Shapes
  <2>4. /\ queue' \in [Sessions -> Seq(Item)]
        /\ idle' \in [Sessions -> {"none", "clean", "dirty"}]
        /\ \A r \in Sessions : QueueFits(r)'
    BY <2>1, <2>3, ScheduleFits DEF HandleIdle, Listen
  <2>5. Shapes'
    BY <1>2, <2>1, <2>3, <2>4 DEF TypeInv, Shapes, Listen, HandleIdle, serverVars
  <2>6. QED
    BY <2>4, <2>5 DEF TypeInv
<1>5. CASE Head(stream).kind # "idle"
  <2>1. HandleDeleted(s)
    BY <1>3, <1>5 DEF Listen
  <2>2. /\ op' \in [Sessions -> Op] /\ writes' \subseteq Write
        /\ \A r \in Sessions : op'[r].at = op[r].at /\ op'[r].kind = op[r].kind
    BY <2>1, Aborting DEF TypeInv, Shapes, HandleDeleted
  <2>3. Len(queue[s]) \in Nat
    BY LenProperties DEF TypeInv, Shapes
  <2>4. Shapes'
    BY <1>2, <2>1, <2>2, <2>3 DEF TypeInv, Shapes, Listen, HandleDeleted, serverVars
  <2>5. ASSUME NEW r \in Sessions PROVE QueueFits(r)'
    <3>1. QueueFits(r)
      BY DEF TypeInv
    <3>2. /\ queue' = queue /\ idle' = idle /\ leaving' = leaving /\ drain' = drain
          /\ left'[r] = left[r] \/ left'[r] = Len(queue[r])
      BY <2>1, <2>3 DEF TypeInv, Shapes, Listen, HandleDeleted
    <3>3. left'[r] <= Len(queue[r])
      BY <3>1, <3>2, LenProperties DEF TypeInv, Shapes, QueueFits
    <3>4. QED
      BY <2>2, <3>1, <3>2, <3>3 DEF QueueFits, NoPass, OnePass
  <2>6. QED
    BY <2>4, <2>5 DEF TypeInv
<1>6. QED
  BY <1>4, <1>5

LEMMA RemoveStateTypes ==
  ASSUME TypeInv, NEW s \in Sessions, RemoveState(s)
  PROVE  TypeInv'
<1>1. Removal(s, "cursor", "delete") \in Write /\ Removal(s, "usage", "delete") \in Write
  BY DEF Removal, Write
<1>2. Shapes'
  BY <1>1 DEF TypeInv, Shapes, RemoveState, hostVars, serverVars, tasks, marks
<1>3. Quiet
  BY DEF RemoveState, tasks, marks, Quiet
<1>4. QED
  BY <1>2, <1>3, QuietFits DEF TypeInv

LEMMA RemovedTypes ==
  ASSUME TypeInv, NEW s \in Sessions, Removed(s)
  PROVE  TypeInv'
<1>1. Shapes'
  BY DEF TypeInv, Shapes, Removed, hostVars, serverVars, storeVars, tasks, marks
<1>2. Quiet
  BY DEF Removed, storeVars, tasks, marks, Quiet
<1>3. QED
  BY <1>1, <1>2, QuietFits DEF TypeInv

LEMMA DisposeTypes ==
  ASSUME TypeInv, Dispose
  PROVE  TypeInv'
<1>1. /\ queue' \in [Sessions -> Seq(Item)] /\ drain' \in [Sessions -> Nat]
      /\ op' \in [Sessions -> Op] /\ writes' \subseteq Write
      /\ \A s \in Sessions : QueueFits(s)'
  BY OrphaningFits DEF Dispose, marks
<1>2. sweep' \in Sweep /\ sweep'.at = sweep.at /\ sweep'.batch = sweep.batch
  <2>1. PICK b \in BOOLEAN : b = (sweep.aborted \/ sweep.at # "none")
    BY DEF TypeInv, Shapes, Sweep
  <2>2. sweep' = [sweep EXCEPT !.aborted = b]
    BY <2>1 DEF Dispose
  <2>3. QED
    BY <2>2 DEF TypeInv, Shapes, Sweep
<1>3. stream' \in Seq(Event) /\ registry' \in {"trying", "down", "ready", "failed"}
  BY EmptySeq DEF Dispose
<1>4. Shapes'
  BY <1>1, <1>2, <1>3 DEF TypeInv, Shapes, Dispose, serverVars, marks
<1>5. QED
  BY <1>1, <1>4 DEF TypeInv

LEMMA DisposedTypes ==
  ASSUME TypeInv, Disposed
  PROVE  TypeInv'
<1>1. Shapes'
  BY DEF TypeInv, Shapes, Disposed, hostVars, serverVars, storeVars, tasks, marks
<1>2. Quiet
  BY DEF Disposed, storeVars, tasks, marks, Quiet
<1>3. QED
  BY <1>1, <1>2, QuietFits DEF TypeInv

\* The maps of a new instance.
LEMMA NewMaps ==
  ASSUME NEW h \in Seq(Item), h = <<>>
  PROVE  /\ Each(h) \in [Sessions -> Seq(Item)] /\ Each(NoOp) \in [Sessions -> Op]
         /\ \A s \in Sessions : Each(h)[s] = h /\ Each(NoOp)[s].at = "none"
         /\ NoPass(h) /\ Len(h) = 0
BY Records, EmptySeq DEF Each, NoPass

LEMMA SetupTypes ==
  ASSUME TypeInv, Setup, writes' \subseteq writes,
         host' \in [Sessions -> {"resting", "waiting", "answered", "gone"}]
  PROVE  TypeInv'
<1>1. used' \in [messages : 0..MaxMessages, troubles : 0..MaxTroubles]
  BY TroubleTypes DEF TypeInv, Setup
<1>2. PICK h \in Seq(Item) : h = <<>>
  BY EmptySeq
<1>3. queue' = Each(h) /\ op' = Each(NoOp)
  BY <1>2 DEF Setup
<1>4. stream' \in Seq(Event) /\ sweep' \in Sweep /\ sweep'.at # "visit"
  BY EmptySeq, Records DEF Setup
<1>5. /\ left' \in [Sessions -> Nat] /\ drain' \in [Sessions -> Nat]
      /\ deleting' \in [Sessions -> {"none", "waiting", "removing", "done", "failed"}]
      /\ idle' \in [Sessions -> {"none", "clean", "dirty"}] /\ leaving' \in [Sessions -> BOOLEAN]
      /\ revisions' \in [Sessions -> BOOLEAN] /\ summaries' \in [Sessions -> SUBSET Messages]
      /\ \A s \in Sessions : left'[s] = 0 /\ drain'[s] = 0 /\ idle'[s] = "none" /\ ~leaving'[s]
  BY DEF Setup, Each
<1>6. Shapes'
  <2>1. queue' \in [Sessions -> Seq(Item)] /\ op' \in [Sessions -> Op]
    BY <1>2, <1>3, NewMaps
  <2>2. /\ life' = "up" /\ registry' = "trying" /\ deleted' = {}
        /\ UNCHANGED <<history, posted, summarized, stored>>
    BY DEF Setup, serverVars
  <2>3. QED
    BY <1>1, <1>4, <1>5, <2>1, <2>2 DEF TypeInv, Shapes
<1>7. ASSUME NEW s \in Sessions PROVE QueueFits(s)'
  <2>1. queue'[s] = h /\ op'[s].at = "none"
    BY <1>2, <1>3, NewMaps
  <2>2. NoPass(h) /\ Len(h) = 0
    BY <1>2, NewMaps
  <2>3. QED
    BY <1>5, <2>1, <2>2 DEF QueueFits, NoPass
<1>8. QED
  BY <1>6, <1>7 DEF TypeInv

LEMMA RestartTypes ==
  ASSUME TypeInv, Reload \/ Crash
  PROVE  TypeInv'
<1>1. Setup /\ writes' \subseteq writes
  BY DEF Reload, Crash
<1>2. host' \in [Sessions -> {"resting", "waiting", "answered", "gone"}]
  BY DEF TypeInv, Shapes, Reload, Crash
<1>3. QED
  BY <1>1, <1>2, SetupTypes

-----------------------------------------------------------------------------
(* Every step by its action.                                                *)

\* The steps of one session.
SessionStep(s) ==
  \/ CallHook(s) \/ EndRun(s) \/ Revert(s) \/ DeleteSession(s)
  \/ Begin(s) \/ Refuse(s) \/ AwaitRegistry(s) \/ ReadCursor(s) \/ ReadManifest(s)
  \/ ReadHistory(s) \/ UsageStored(s) \/ Post(s) \/ PostFails(s) \/ StoreCursor(s)
  \/ Answer(s) \/ OperationFails(s) \/ Cleaned(s)
  \/ UpdateRead(s) \/ UpdateSkips(s) \/ UpdateCheck(s) \/ UpdateDone(s)
  \/ IdleForgotten(s) \/ RemoveState(s) \/ Removed(s) \/ Timeout(s)
  \/ \E by \in {"cleanup", "delete"} : RemovalExpires(s, by)

\* The steps of the plugin as a whole.
PluginStep ==
  \/ SweepList \/ SweepVisits \/ SweepEnds \/ SweepTimeout
  \/ \E w \in writes : ApplyWrite(w) \/ WriteFails(w)
  \/ RegistryAttempt \/ StreamFails \/ Listen
  \/ Dispose \/ Disposed \/ Reload \/ Crash

LEMMA Steps ==
  ASSUME Next
  PROVE  (\E s \in Sessions : SessionStep(s)) \/ PluginStep
BY DEF Next, Host, Works, Deletes, Sweeps, Storage, Expiry, SessionStep, PluginStep

\* A session's messages at the start: numbered throughout.
LEMMA Numbered ==
  ASSUME Init
  PROVE  /\ history \in [Sessions -> Seq(Messages)]
         /\ LastSession * Existing \in 0..MaxMessages
         /\ \A s \in Sessions :
              /\ Len(history[s]) = Existing
              /\ \A i \in 1..Existing : /\ history[s][i] = (s - 1) * Existing + i
                                        /\ history[s][i] \in 1..LastSession * Existing
<1>1. LastSession * Existing \in 0..MaxMessages
  BY SessionAssumption
<1>2. ASSUME NEW s \in Sessions, NEW i \in 1..Existing
      PROVE  (s - 1) * Existing + i \in 1..LastSession * Existing
  <2>1. s \in Nat /\ s >= 1 /\ s <= LastSession /\ Existing \in Nat /\ LastSession \in Nat
    BY Sizes DEF Sessions
  <2>2. (s - 1) * Existing >= 0 /\ (LastSession - s) * Existing >= 0
    BY <2>1
  <2>3. (s - 1) * Existing = s * Existing - Existing
    BY <2>1
  <2>4. (LastSession - s) * Existing = LastSession * Existing - s * Existing
    BY <2>1
  <2>5. s * Existing \in Int /\ LastSession * Existing \in Int
    BY <2>1
  <2>6. QED
    BY <2>1, <2>2, <2>3, <2>4, <2>5
<1>3. PICK n \in Nat : n = LastSession * Existing /\ 1..n \subseteq Messages
  BY <1>1, Sizes DEF Messages
<1>4. ASSUME NEW s \in Sessions
      PROVE  /\ history[s] = [i \in 1..Existing |-> (s - 1) * Existing + i]
             /\ history[s] \in Seq(Messages) /\ Len(history[s]) = Existing
             /\ \A i \in 1..Existing : /\ history[s][i] = (s - 1) * Existing + i
                                       /\ history[s][i] \in 1..n
  <2>1. history[s] = [i \in 1..Existing |-> (s - 1) * Existing + i]
    BY DEF Init
  <2>2. \A i \in 1..Existing : history[s][i] \in 1..n /\ history[s][i] \in Messages
    BY <1>2, <1>3, <2>1
  <2>3. history[s] \in [1..Existing -> Messages]
    BY <2>1, <2>2
  <2>4. Existing \in Nat
    BY Sizes
  <2>5. history[s] \in Seq(Messages) /\ Len(history[s]) = Existing
    BY <2>3, <2>4
  <2>6. QED
    BY <2>1, <2>2, <2>5
<1>5. history \in [Sessions -> Seq(Messages)]
  <2>1. history = [s \in Sessions |-> [i \in 1..Existing |-> (s - 1) * Existing + i]]
    BY DEF Init
  <2>2. QED
    BY <1>4, <2>1
<1>6. QED
  BY <1>1, <1>3, <1>4, <1>5

LEMMA TypesBegin ==
  ASSUME Init
  PROVE  TypeInv
<1>1. history \in [Sessions -> Seq(Messages)] /\ LastSession * Existing \in 0..MaxMessages
  BY Numbered
<1>2. PICK h \in Seq(Item) : h = <<>>
  BY EmptySeq
<1>3. queue = Each(h) /\ op = Each(NoOp)
  BY <1>2 DEF Init
<1>4. queue \in [Sessions -> Seq(Item)] /\ op \in [Sessions -> Op]
  BY <1>2, <1>3, NewMaps
<1>5. used \in [messages : 0..MaxMessages, troubles : 0..MaxTroubles]
  <2>1. 0 \in 0..MaxTroubles
    BY Sizes
  <2>2. PICK n \in 0..MaxMessages : n = LastSession * Existing
    BY <1>1
  <2>3. used = [messages |-> n, troubles |-> 0]
    BY <2>2 DEF Init
  <2>4. QED
    BY <2>1, <2>3
<1>6. stored \in [Sessions -> Stored] /\ writes \subseteq Write /\ sweep \in Sweep /\ sweep.at # "visit"
  BY Records DEF Init, Each
<1>7. /\ left \in [Sessions -> Nat] /\ drain \in [Sessions -> Nat]
      /\ deleting \in [Sessions -> {"none", "waiting", "removing", "done", "failed"}]
      /\ idle \in [Sessions -> {"none", "clean", "dirty"}] /\ leaving \in [Sessions -> BOOLEAN]
      /\ revisions \in [Sessions -> BOOLEAN] /\ summaries \in [Sessions -> SUBSET Messages]
      /\ posted \in [Sessions -> SUBSET Messages] /\ summarized \in [Sessions -> SUBSET Messages]
      /\ host \in [Sessions -> {"resting", "waiting", "answered", "gone"}]
      /\ \A s \in Sessions : left[s] = 0 /\ drain[s] = 0 /\ idle[s] = "none" /\ ~leaving[s]
  BY DEF Init, Each
<1>8. stream \in Seq(Event) /\ life = "up" /\ registry = "trying" /\ deleted = {}
  BY EmptySeq DEF Init
<1>9. Shapes
  BY <1>1, <1>4, <1>5, <1>6, <1>7, <1>8 DEF Shapes
<1>10. ASSUME NEW s \in Sessions PROVE QueueFits(s)
  <2>1. queue[s] = h /\ op[s].at = "none" /\ NoPass(h) /\ Len(h) = 0
    BY <1>2, <1>3, NewMaps
  <2>2. QED
    BY <1>7, <2>1 DEF QueueFits
<1>11. QED
  BY <1>9, <1>10 DEF TypeInv

LEMMA TypesStep ==
  ASSUME TypeInv, [Next]_vars
  PROVE  TypeInv'
<1>1. ASSUME NEW s \in Sessions, SessionStep(s) PROVE TypeInv'
  BY <1>1, CallHookTypes, EndRunTypes, RevertTypes, DeleteSessionTypes, BeginTypes, RefuseTypes,
     AwaitRegistryTypes, ReadCursorTypes, ReadManifestTypes, ReadHistoryTypes,
     UsageStoredTypes, PostTypes, PostFailsTypes, StoreCursorTypes, AnswerTypes,
     OperationFailsTypes, CleanedTypes, UpdateReadTypes, UpdateSkipsTypes, UpdateCheckTypes,
     UpdateDoneTypes, IdleForgottenTypes, RemoveStateTypes, RemovedTypes, TimeoutTypes,
     RemovalExpiresTypes DEF SessionStep
<1>2. CASE PluginStep
  BY <1>2, SweepListTypes, SweepVisitsTypes, SweepEndsTypes, SweepTimeoutTypes, ApplyWriteTypes,
     WriteFailsTypes, RegistryTypes, ListenTypes, DisposeTypes, DisposedTypes, RestartTypes
     DEF PluginStep
<1>3. CASE UNCHANGED vars
  <2>1. Shapes'
    BY <1>3 DEF TypeInv, Shapes, vars, hostVars, serverVars, storeVars, tasks, marks, ends
  <2>2. Quiet
    BY <1>3 DEF vars, storeVars, tasks, marks, ends, Quiet
  <2>3. QED
    BY <2>1, <2>2, QuietFits DEF TypeInv
<1>4. QED
  BY <1>1, <1>2, <1>3, Steps

\* TypeInv holds: the plugin's tables fit each other, whatever is called,
\* aborted, deleted or disposed meanwhile.
THEOREM SessionTypesHold == Spec => []TypeInv
<1>1. Init => TypeInv
  BY TypesBegin
<1>2. TypeInv /\ [Next]_vars => TypeInv'
  BY TypesStep
<1>3. QED
  BY <1>1, <1>2, PTL DEF Spec

\* The types of the session's state, its queues' ties and its idle entries.
THEOREM SessionTypeCorrect == Spec => []TypeOK
<1>1. ASSUME TypeInv PROVE TypeOK
  <2>1. ASSUME NEW s \in Sessions
        PROVE  /\ left[s] \in 0..Len(queue[s]) /\ drain[s] \in 0..Len(queue[s])
               /\ Cardinality({i \in DOMAIN queue[s] : queue[s][i].kind = "idle"})
                    = IF idle[s] = "none" \/ leaving[s] THEN 0 ELSE 1
    <3>1. QueueFits(s) /\ queue[s] \in Seq(Item)
      BY <1>1 DEF TypeInv, Shapes
    <3>2. left[s] \in Nat /\ drain[s] \in Nat /\ Len(queue[s]) \in Nat
      BY <1>1, <3>1, LenProperties DEF TypeInv, Shapes
    <3>3. left[s] \in 0..Len(queue[s]) /\ drain[s] \in 0..Len(queue[s])
      BY <3>1, <3>2 DEF QueueFits
    <3>4. CASE idle[s] = "none" \/ leaving[s]
      BY <3>1, <3>3, <3>4, PassesAreCounted DEF QueueFits
    <3>5. CASE ~(idle[s] = "none" \/ leaving[s])
      BY <3>1, <3>3, <3>5, PassesAreCounted DEF QueueFits
    <3>6. QED
      BY <3>4, <3>5
  <2>2. \A s \in Sessions : op[s].at # "none" => queue[s] # <<>> /\ op[s].kind = Head(queue[s]).kind
    BY <1>1 DEF TypeInv, QueueFits
  <2>3. QED
    BY <1>1, <2>1, <2>2 DEF TypeOK, TypeInv, Shapes
<1>2. QED
  BY <1>1, SessionTypesHold, PTL

-----------------------------------------------------------------------------
(* Whose is what: operations, storage mutations, deletions, the disposal.   *)

(* What runs unaborted may run; a deletion and the disposal wait for what   *)
(* runs.                                                                    *)
OpFits(s) ==
  /\ op[s].at # "none" /\ ~op[s].aborted => ~Unavailable(s)
  /\ op[s].at # "none" /\ s \in deleted => deleting[s] = "waiting" /\ left[s] > 0
  /\ op[s].at # "none" /\ life # "up" => drain[s] > 0
  /\ deleting[s] # "none" => s \in deleted
OpsInv == \A s \in Sessions : OpFits(s)

(* A mutation has an operation that waits for it, or is a deletion's.       *)
WriteFits(w) ==
  LET o == op[w.session] IN
  /\ w.set <=> w.by = "project"
  /\ w.set => /\ o.kind = "project" /\ ~o.aborted
              /\ o.at = IF w.key = "usage" THEN "usage" ELSE "storing"
  /\ w.by = "cleanup" => w.key = "usage" /\ o.at = "cleaning"
  /\ w.by = "delete" => deleting[w.session] # "done"
WritesInv == \A w \in writes : WriteFits(w)

(* A deletion has removed what it does not remove any more. *)
DeletionFits(s) ==
  /\ deleting[s] = "removing" =>
       /\ Removal(s, "cursor", "delete") \in writes \/ ~stored[s].cursor
       /\ Removal(s, "usage", "delete") \in writes \/ ~stored[s].usage
  /\ deleting[s] = "done" => ~stored[s].cursor /\ ~stored[s].usage
DeletionInv == \A s \in Sessions : DeletionFits(s)

(* Once the disposal has begun no sweep goes on, and once it is over nothing *)
(* is left to wait for.                                                      *)
DisposalInv ==
  /\ life # "up" /\ sweep.at # "none" => sweep.aborted
  /\ life = "disposed" =>
       /\ sweep.at = "none" /\ registry # "trying"
       /\ \A s \in Sessions : drain[s] = 0 /\ deleting[s] \notin {"waiting", "removing"}

Control    == OpsInv /\ WritesInv /\ DeletionInv /\ DisposalInv
ControlInv == TypeInv /\ Control

\* No mutation of s belongs to an operation.
Unowned(s) == \A w \in writes : w.session = s => w.by = "delete"

LEMMA NothingOwned ==
  ASSUME TypeInv, WritesInv, NEW s \in Sessions
  PROVE  /\ op[s].at \notin {"usage", "storing", "cleaning"} => Unowned(s)
         /\ op[s].aborted /\ op[s].at # "cleaning" => Unowned(s)
         /\ op[s].at = "usage" /\ Setting(s, "usage") \notin writes => Unowned(s)
         /\ op[s].at = "storing" /\ Setting(s, "cursor") \notin writes => Unowned(s)
         /\ op[s].at = "cleaning" /\ Removal(s, "usage", "cleanup") \notin writes => Unowned(s)
<1>1. ASSUME NEW w \in writes, w.session = s, w.by # "delete"
      PROVE  /\ ~op[s].aborted \/ op[s].at = "cleaning"
             /\ \/ op[s].at = "usage" /\ w = Setting(s, "usage")
                \/ op[s].at = "storing" /\ w = Setting(s, "cursor")
                \/ op[s].at = "cleaning" /\ w = Removal(s, "usage", "cleanup")
  <2>1. w \in Write /\ WriteFits(w)
    BY DEF TypeInv, Shapes, WritesInv
  <2>2. w.set \in BOOLEAN /\ w.by \in {"project", "cleanup"} /\ w.key \in {"cursor", "usage"}
    BY <1>1, <2>1 DEF Write
  <2>3. CASE w.by = "project"
    <3>1. w.set /\ ~op[s].aborted /\ op[s].at = IF w.key = "usage" THEN "usage" ELSE "storing"
      BY <1>1, <2>1, <2>3 DEF WriteFits
    <3>2. w = Setting(s, w.key)
      BY <1>1, <2>1, <2>3, <3>1 DEF Write, Setting
    <3>3. QED
      BY <2>2, <3>1, <3>2
  <2>4. CASE w.by = "cleanup"
    <3>1. ~w.set /\ w.key = "usage" /\ op[s].at = "cleaning"
      BY <1>1, <2>1, <2>4 DEF WriteFits
    <3>2. w = Removal(s, "usage", "cleanup")
      BY <1>1, <2>1, <2>2, <2>4, <3>1 DEF Write, Removal
    <3>3. QED
      BY <3>1, <3>2
  <2>5. QED
    BY <2>2, <2>3, <2>4
<1>2. QED
  BY <1>1 DEF Unowned

\* Operations end, go on, or are aborted, and nobody waits for something else.
OpsTame ==
  /\ UNCHANGED <<deleted, deleting>> /\ (life' = "up" <=> life = "up")
  /\ \A s \in Sessions : op'[s].at # "none" =>
       /\ op[s].at # "none" /\ (op[s].aborted => op'[s].aborted)
       /\ left'[s] = left[s] /\ drain'[s] = drain[s]

LEMMA OpsStayFit ==
  ASSUME OpsInv, OpsTame
  PROVE  OpsInv'
BY DEF OpsInv, OpFits, OpsTame, Unavailable

\* Deletions and their removals are as they were.
DeletionTame ==
  /\ UNCHANGED <<stored, deleting>>
  /\ \A w \in writes : w.by = "delete" => w \in writes'

LEMMA DeletionStaysFit ==
  ASSUME DeletionInv, DeletionTame
  PROVE  DeletionInv'
BY DEF DeletionInv, DeletionFits, DeletionTame, Removal

\* The operation of s goes on as it may, with the mutations in more.
LEMMA WritesFollow ==
  ASSUME TypeInv, WritesInv, NEW s \in Sessions, Unowned(s), NEW more,
         writes' = writes \cup more, deleting' = deleting,
         \A r \in Sessions \ {s} : op'[r] = op[r],
         \A w \in more : w.session = s /\ w.by # "delete" /\ WriteFits(w)'
  PROVE  WritesInv'
<1>1. ASSUME NEW w \in writes PROVE WriteFits(w)'
  <2>1. w.session \in Sessions /\ WriteFits(w)
    BY DEF TypeInv, Shapes, Write, WritesInv
  <2>2. w.session = s => w.by = "delete" /\ ~w.set
    BY <2>1 DEF Unowned, WriteFits
  <2>3. CASE w.session = s
    BY <2>1, <2>2, <2>3 DEF WriteFits
  <2>4. CASE w.session # s
    <3>1. op'[w.session] = op[w.session]
      BY <2>1, <2>4
    <3>2. QED
      BY <2>1, <3>1 DEF WriteFits
  <2>5. QED
    BY <2>3, <2>4
<1>2. QED
  BY <1>1 DEF WritesInv

\* An abort takes the mutations with it.
LEMMA WritesAborted ==
  ASSUME TypeInv, WritesInv, NEW reached, reached \subseteq Sessions, Abort(reached),
         \A s \in Sessions : deleting'[s] = deleting[s] \/ deleting'[s] = "waiting"
  PROVE  /\ WritesInv' /\ writes' \subseteq writes
         /\ \A w \in writes : w.by = "delete" => w \in writes'
<1>1. /\ writes' = writes \ Interrupt(reached)
      /\ \A s \in Sessions : /\ op'[s].at = op[s].at /\ op'[s].kind = op[s].kind
                             /\ s \notin reached => op'[s] = op[s]
  BY Aborting DEF TypeInv
<1>2. ASSUME NEW w \in writes' PROVE WriteFits(w)'
  <2>1. w \in writes /\ w.session \in Sessions /\ WriteFits(w)
    BY <1>1 DEF TypeInv, Shapes, Write, WritesInv
  <2>2. w.session \in reached => w.by # "project"
    BY <1>1, <2>1 DEF Interrupt
  <2>3. QED
    BY <1>1, <2>1, <2>2 DEF WriteFits
<1>3. QED
  BY <1>1, <1>2 DEF WritesInv, Interrupt

\* Nothing happens to operations, storage and whoever waits.
LEMMA UntouchedControl ==
  ASSUME ControlInv, UNCHANGED <<op, stored, writes, life, deleted, deleting, left, drain>>,
         life # "up" /\ sweep'.at # "none" => sweep'.aborted,
         life = "disposed" => sweep'.at = "none" /\ registry' # "trying"
  PROVE  Control'
<1>1. OpsInv'
  BY DEF ControlInv, Control, OpsInv, OpFits, Unavailable
<1>2. WritesInv' /\ DeletionInv'
  BY DEF ControlInv, Control, WritesInv, WriteFits, DeletionInv, DeletionFits
<1>3. DisposalInv'
  BY DEF ControlInv, Control, DisposalInv
<1>4. QED
  BY <1>1, <1>2, <1>3 DEF ControlInv, Control

\* An operation goes on.
LEMMA MovesControl ==
  ASSUME ControlInv, NEW s \in Sessions, Unowned(s), op[s].at # "none",
         NEW o, op' = [op EXCEPT ![s] = o], op[s].aborted => o.aborted,
         NEW more, writes' = writes \cup more,
         \A w \in more : w.session = s /\ w.by # "delete" /\ WriteFits(w)',
         UNCHANGED <<stored, sweep, life, deleted, deleting, left, drain>>,
         registry' = registry \/ life = "up"
  PROVE  Control'
<1>1. op \in [Sessions -> Op]
  BY DEF ControlInv, Control, TypeInv, Shapes
<1>2. op'[s] = o /\ \A r \in Sessions \ {s} : op'[r] = op[r]
  BY <1>1
<1>3. OpsTame
  BY <1>2 DEF OpsTame
<1>4. WritesInv'
  BY <1>2, WritesFollow DEF ControlInv, Control
<1>5. DeletionTame
  BY DEF DeletionTame
<1>6. OpsInv' /\ DeletionInv'
  BY <1>3, <1>5, OpsStayFit, DeletionStaysFit DEF ControlInv, Control
<1>7. DisposalInv'
  BY DEF ControlInv, Control, DisposalInv
<1>8. QED
  BY <1>4, <1>6, <1>7 DEF ControlInv, Control

\* A settled entry: nobody waits longer, and no sweep begins after the end.
LEMMA SettlesControl ==
  ASSUME ControlInv, NEW s \in Sessions, Settle(s) \/ UNCHANGED <<left, drain>>
  PROVE  /\ \A r \in Sessions \ {s} : left'[r] = left[r] /\ drain'[r] = drain[r]
         /\ \A r \in Sessions : drain[r] = 0 => drain'[r] = 0
         /\ life # "up" /\ Visited.at # "none" => Visited.aborted
         /\ life # "up" /\ Trigger.at # "none" => Trigger.aborted
         /\ life = "disposed" => Visited.at = "none" /\ Trigger.at = "none"
<1>1. left \in [Sessions -> Nat] /\ drain \in [Sessions -> Nat] /\ sweep \in Sweep
  BY DEF ControlInv, Control, TypeInv, Shapes
<1>2. /\ \A r \in Sessions \ {s} : left'[r] = left[r] /\ drain'[r] = drain[r]
      /\ \A r \in Sessions : drain[r] = 0 => drain'[r] = 0
  BY <1>1 DEF Settle
<1>3. /\ life # "up" /\ Visited.at # "none" => Visited.aborted
      /\ life # "up" /\ Trigger.at # "none" => Trigger.aborted
      /\ life = "disposed" => Visited.at = "none" /\ Trigger.at = "none"
  BY <1>1 DEF ControlInv, Control, DisposalInv, Visited, Trigger, Sweep
<1>4. QED
  BY <1>2, <1>3

LEMMA FinishesControl ==
  ASSUME ControlInv, NEW s \in Sessions, NEW submitted \in BOOLEAN, Unowned(s),
         op[s].at # "none", Finish(s, submitted), UNCHANGED <<stored, writes>>
  PROVE  Control'
<1>1. op \in [Sessions -> Op]
  BY DEF ControlInv, Control, TypeInv, Shapes
<1>2. op'[s] = NoOp /\ \A r \in Sessions \ {s} : op'[r] = op[r]
  BY <1>1 DEF Finish
<1>3. Settle(s) \/ UNCHANGED <<left, drain>>
  BY DEF Finish
<1>4. /\ \A r \in Sessions \ {s} : left'[r] = left[r] /\ drain'[r] = drain[r]
      /\ \A r \in Sessions : drain[r] = 0 => drain'[r] = 0
      /\ life # "up" /\ Visited.at # "none" => Visited.aborted
      /\ life # "up" /\ Trigger.at # "none" => Trigger.aborted
      /\ life = "disposed" => Visited.at = "none" /\ Trigger.at = "none"
  BY <1>3, SettlesControl
<1>5. OpsTame
  BY <1>2, <1>4, Records DEF OpsTame, Finish
<1>6. WritesInv'
  <2>1. PICK more : more = {}
    OBVIOUS
  <2>2. writes' = writes \cup more /\ deleting' = deleting
    BY <2>1 DEF Finish
  <2>3. QED
    BY <1>2, <2>1, <2>2, WritesFollow DEF ControlInv, Control
<1>7. DeletionTame
  BY DEF DeletionTame, Finish
<1>8. OpsInv' /\ DeletionInv'
  BY <1>5, <1>7, OpsStayFit, DeletionStaysFit DEF ControlInv, Control
<1>9. DisposalInv'
  <2>1. sweep' \in {Visited, Trigger, sweep} /\ UNCHANGED <<life, registry, deleting>>
    BY DEF Finish
  <2>2. QED
    BY <1>4, <2>1 DEF ControlInv, Control, DisposalInv
<1>10. QED
  BY <1>6, <1>8, <1>9 DEF ControlInv, Control

\* The steps of operations that begin, go on or end.
LEMMA BeginControl ==
  ASSUME ControlInv, NEW s \in Sessions, Begin(s)
  PROVE  Control'
<1>1. op \in [Sessions -> Op] /\ op[s].at = "none" /\ ~Unavailable(s)
  BY DEF ControlInv, Control, TypeInv, Shapes, Begin
<1>2. \A r \in Sessions \ {s} : op'[r] = op[r]
  BY <1>1 DEF Begin
<1>3. UNCHANGED <<stored, writes, sweep, life, registry, deleted, deleting, left, drain>>
  BY DEF Begin, storeVars, ends
<1>4. OpsInv'
  BY <1>1, <1>2, <1>3 DEF ControlInv, Control, OpsInv, OpFits, Unavailable
<1>5. Unowned(s)
  BY <1>1, NothingOwned DEF ControlInv, Control
<1>6. WritesInv'
  <2>1. PICK more : more = {}
    OBVIOUS
  <2>2. writes' = writes \cup more /\ deleting' = deleting
    BY <1>3, <2>1
  <2>3. QED
    BY <1>2, <1>5, <2>1, <2>2, WritesFollow DEF ControlInv, Control
<1>7. DeletionInv' /\ DisposalInv'
  BY <1>3 DEF ControlInv, Control, DeletionInv, DeletionFits, DisposalInv
<1>8. QED
  BY <1>4, <1>6, <1>7 DEF ControlInv, Control

LEMMA RefuseControl ==
  ASSUME ControlInv, NEW s \in Sessions, Refuse(s)
  PROVE  Control'
<1>1. /\ op[s].at = "none" /\ Settle(s) /\ sweep' \in {Visited, sweep}
      /\ UNCHANGED <<op, stored, writes, life, registry, deleted, deleting>>
  BY DEF Refuse, storeVars
<1>2. /\ \A r \in Sessions \ {s} : left'[r] = left[r] /\ drain'[r] = drain[r]
      /\ \A r \in Sessions : drain[r] = 0 => drain'[r] = 0
      /\ life # "up" /\ Visited.at # "none" => Visited.aborted
      /\ life = "disposed" => Visited.at = "none"
  BY <1>1, SettlesControl
<1>3. OpsTame
  BY <1>1, <1>2 DEF OpsTame
<1>4. OpsInv'
  BY <1>3, OpsStayFit DEF ControlInv, Control
<1>5. WritesInv' /\ DeletionInv'
  BY <1>1 DEF ControlInv, Control, WritesInv, WriteFits, DeletionInv, DeletionFits
<1>6. DisposalInv'
  BY <1>1, <1>2 DEF ControlInv, Control, DisposalInv
<1>7. QED
  BY <1>4, <1>5, <1>6 DEF ControlInv, Control

\* Steps that leave the storage alone.
LEMMA QuietMoves ==
  ASSUME ControlInv, NEW s \in Sessions,
         \/ AwaitRegistry(s) \/ ReadCursor(s) \/ ReadManifest(s) \/ UsageStored(s)
         \/ Post(s) \/ PostFails(s) \/ UpdateRead(s) \/ UpdateCheck(s)
  PROVE  Control'
<1>1. op[s] \in Op /\ op[s].at # "none" /\ ~op[s].aborted
  BY DEF ControlInv, Control, TypeInv, Shapes, AwaitRegistry, ReadCursor, ReadManifest, UsageStored,
     Post, PostFails, UpdateRead, UpdateCheck, Project, Update
<1>2. Unowned(s)
  BY NothingOwned DEF ControlInv, Control, AwaitRegistry, ReadCursor, ReadManifest, UsageStored,
     Post, PostFails, UpdateRead, UpdateCheck, Project, Update
<1>3. PICK o : op' = [op EXCEPT ![s] = o]
  BY DEF AwaitRegistry, ReadCursor, ReadManifest, UsageStored,
     Post, PostFails, UpdateRead, UpdateCheck, Moves
<1>4. /\ UNCHANGED <<stored, writes, sweep, life, deleted, deleting, left, drain>>
      /\ registry' = registry \/ life = "up"
  BY DEF AwaitRegistry, ReadCursor, ReadManifest, UsageStored,
     Post, PostFails, UpdateRead, UpdateCheck, OnlyOp, storeVars, ends
<1>5. PICK more : more = {}
  OBVIOUS
<1>6. writes' = writes \cup more
  BY <1>4, <1>5
<1>7. \A w \in more : w.session = s /\ w.by # "delete" /\ WriteFits(w)'
  BY <1>5
<1>8. QED
  BY <1>1, <1>2, <1>3, <1>4, <1>6, <1>7, MovesControl

LEMMA ReadHistoryControl ==
  ASSUME ControlInv, NEW s \in Sessions, ReadHistory(s)
  PROVE  Control'
<1>1. /\ op[s] \in Op /\ op[s].at = "history" /\ ~op[s].aborted /\ op[s].kind = "project"
      /\ op \in [Sessions -> Op]
  BY DEF ControlInv, Control, TypeInv, Shapes, ReadHistory, Project
<1>2. Unowned(s)
  BY <1>1, NothingOwned DEF ControlInv, Control
<1>3. PICK o : /\ op' = [op EXCEPT ![s] = o]
               /\ o.at = "usage" /\ ~o.aborted /\ o.kind = "project"
  <2> DEFINE a(f) == [op[s] EXCEPT !.at = "usage", !.seen = <<>>, !.manifest = FALSE, !.fresh = f]
             b    == [op[s] EXCEPT !.at = "usage", !.seen = <<>>, !.manifest = FALSE]
  <2>1. (\E f : op' = [op EXCEPT ![s] = a(f)]) \/ op' = [op EXCEPT ![s] = b]
    BY DEF ReadHistory, Moves
  <2>2. \A f : a(f).at = "usage" /\ ~a(f).aborted /\ a(f).kind = "project"
    BY <1>1 DEF Op
  <2>3. b.at = "usage" /\ ~b.aborted /\ b.kind = "project"
    BY <1>1 DEF Op
  <2> HIDE DEF a, b
  <2>4. QED
    BY <2>1, <2>2, <2>3
<1>4. PICK more : more = {Setting(s, "usage")}
  OBVIOUS
<1>5. \A w \in more : w.session = s /\ w.by # "delete" /\ WriteFits(w)'
  BY <1>1, <1>3, <1>4 DEF Setting, WriteFits
<1>6. /\ writes' = writes \cup more
      /\ UNCHANGED <<stored, sweep, life, registry, deleted, deleting, left, drain>>
  BY <1>4 DEF ReadHistory, OnlyOp, ends
<1>7. QED
  BY <1>1, <1>2, <1>3, <1>5, <1>6, MovesControl

LEMMA StoreCursorControl ==
  ASSUME ControlInv, NEW s \in Sessions, StoreCursor(s)
  PROVE  Control'
<1>1. /\ op[s] \in Op /\ op[s].at = "posting" /\ ~op[s].aborted /\ op[s].kind = "project"
      /\ op \in [Sessions -> Op]
  BY DEF ControlInv, Control, TypeInv, Shapes, StoreCursor, Project
<1>2. Unowned(s)
  BY <1>1, NothingOwned DEF ControlInv, Control
<1>a. PICK o : o = [op[s] EXCEPT !.at = "storing"]
  OBVIOUS
<1>b. o.at = "storing" /\ ~o.aborted /\ o.kind = "project"
  BY <1>1, <1>a DEF Op
<1>3. op' = [op EXCEPT ![s] = o]
  BY <1>a DEF StoreCursor, Moves
<1>4. PICK more : more = {Setting(s, "cursor")}
  OBVIOUS
<1>5. \A w \in more : w.session = s /\ w.by # "delete" /\ WriteFits(w)'
  <2>1. op'[s] = o
    BY <1>1, <1>3
  <2>2. QED
    BY <1>b, <1>4, <2>1 DEF Setting, WriteFits
<1>6. /\ writes' = writes \cup more
      /\ UNCHANGED <<stored, sweep, life, registry, deleted, deleting, left, drain>>
  BY <1>4 DEF StoreCursor, OnlyOp, ends
<1>7. QED
  BY <1>1, <1>2, <1>3, <1>5, <1>6, MovesControl

LEMMA EndsControl ==
  ASSUME ControlInv, NEW s \in Sessions,
         Answer(s) \/ Cleaned(s) \/ UpdateSkips(s) \/ UpdateDone(s)
  PROVE  Control'
<1>1. op[s].at # "none" /\ Unowned(s)
  BY NothingOwned DEF ControlInv, Control, Answer, Cleaned, UpdateSkips, UpdateDone, Project, Update
<1>2. PICK yes \in BOOLEAN, no \in BOOLEAN : yes = TRUE /\ no = FALSE
  OBVIOUS
<1>3. Finish(s, yes) \/ Finish(s, no)
  BY <1>2 DEF Answer, Cleaned, UpdateSkips, UpdateDone
<1>4. UNCHANGED <<stored, writes>>
  BY DEF Answer, Cleaned, UpdateSkips, UpdateDone, storeVars
<1>5. QED
  BY <1>1, <1>3, <1>4, FinishesControl

LEMMA OperationFailsControl ==
  ASSUME ControlInv, NEW s \in Sessions, OperationFails(s)
  PROVE  Control'
<1>1. op[s] \in Op /\ op[s].at # "none" /\ op[s].at # "cleaning" /\ op \in [Sessions -> Op]
  BY DEF ControlInv, Control, TypeInv, Shapes, OperationFails
<1>2. op[s].at \in {"usage", "storing"} => op[s].aborted
  BY DEF OperationFails, Fails, Failable
<1>3. Unowned(s)
  BY <1>1, <1>2, NothingOwned DEF ControlInv, Control
<1>4. CASE op[s].at = "usage"
  <2>1. PICK o : /\ op' = [op EXCEPT ![s] = o]
                 /\ o.at = "cleaning" /\ o.aborted
    BY <1>1, <1>2, <1>4 DEF OperationFails, Moves, Op
  <2>2. PICK more : more = {Removal(s, "usage", "cleanup")}
    OBVIOUS
  <2>3. \A w \in more : w.session = s /\ w.by # "delete" /\ WriteFits(w)'
    BY <1>1, <2>1, <2>2 DEF Removal, WriteFits
  <2>4. /\ writes' = writes \cup more
        /\ UNCHANGED <<stored, sweep, life, registry, deleted, deleting, left, drain>>
    BY <1>4, <2>2 DEF OperationFails, OnlyOp, ends
  <2>5. QED
    BY <1>1, <1>3, <2>1, <2>3, <2>4, MovesControl
<1>5. CASE op[s].at # "usage"
  <2>1. PICK no \in BOOLEAN : no = FALSE
    OBVIOUS
  <2>2. Finish(s, no) /\ UNCHANGED <<stored, writes>>
    BY <1>5, <2>1 DEF OperationFails
  <2>3. QED
    BY <1>1, <1>3, <2>2, FinishesControl
<1>6. QED
  BY <1>4, <1>5

\* Steps that operations do not take part in.
LEMMA AsideControl ==
  ASSUME ControlInv,
         \/ \E s \in Sessions : \/ CallHook(s) \/ EndRun(s) \/ Revert(s) \/ DeleteSession(s)
                                \/ IdleForgotten(s)
         \/ SweepList \/ SweepVisits \/ SweepEnds \/ RegistryAttempt \/ StreamFails
  PROVE  Control'
<1>1. UNCHANGED <<op, stored, writes, life, deleted, deleting, left, drain>>
  BY DEF CallHook, EndRun, Revert, DeleteSession, IdleForgotten, SweepList, SweepVisits,
     SweepEnds, RegistryAttempt, StreamFails, OnlySweep, OnlyRegistry, storeVars, tasks, ends
<1>2. sweep \in Sweep /\ DisposalInv
  BY DEF ControlInv, Control, TypeInv, Shapes
<1>3. \/ sweep' = sweep
      \/ life = "up"
      \/ sweep'.at = "none"
  <2>1. CASE SweepList \/ SweepVisits
    BY <1>2, <2>1 DEF SweepList, SweepVisits, DisposalInv
  <2>2. CASE SweepEnds
    BY <1>2, <2>2, Records DEF SweepEnds, SweepEnded, NoSweep
  <2>3. CASE ~(SweepList \/ SweepVisits \/ SweepEnds)
    BY <2>3 DEF CallHook, EndRun, Revert, DeleteSession, IdleForgotten,
       RegistryAttempt, StreamFails, OnlyRegistry, tasks
  <2>4. QED
    BY <2>1, <2>2, <2>3
<1>4. life = "disposed" => registry' # "trying"
  <2>1. registry' = registry \/ registry' = "failed" \/ registry = "trying"
    BY DEF CallHook, EndRun, Revert, DeleteSession, IdleForgotten, SweepList, SweepVisits,
       SweepEnds, RegistryAttempt, StreamFails, OnlySweep, ends
  <2>2. QED
    BY <1>2, <2>1 DEF DisposalInv
<1>5. /\ life # "up" /\ sweep'.at # "none" => sweep'.aborted
      /\ life = "disposed" => sweep'.at = "none"
  BY <1>2, <1>3 DEF DisposalInv
<1>6. QED
  BY <1>1, <1>4, <1>5, UntouchedControl

\* An abort that ends nobody's waiting.
LEMMA AbortsControl ==
  ASSUME ControlInv, NEW reached, reached \subseteq Sessions, Abort(reached),
         UNCHANGED <<stored, life, registry, deleted, deleting, left, drain>>,
         life # "up" /\ sweep'.at # "none" => sweep'.aborted,
         life = "disposed" => sweep'.at = "none"
  PROVE  Control'
<1>1. WritesInv' /\ \A w \in writes : w.by = "delete" => w \in writes'
  BY WritesAborted DEF ControlInv, Control
<1>2. \A r \in Sessions : op'[r].at = op[r].at /\ (op'[r] = op[r] \/ op'[r] = Aborted(op[r]))
  BY Aborting DEF ControlInv, TypeInv
<1>3. ASSUME NEW r \in Sessions, op'[r].at # "none" PROVE op[r].aborted => op'[r].aborted
  <2>1. op[r] \in Op /\ op[r].at # "none"
    BY <1>2, <1>3 DEF ControlInv, TypeInv, Shapes
  <2>2. Aborted(op[r]).aborted
    BY <2>1, AbortedOp
  <2>3. QED
    BY <1>2, <2>2
<1>4. OpsTame
  BY <1>2, <1>3 DEF OpsTame
<1>5. DeletionTame
  BY <1>1 DEF DeletionTame
<1>6. OpsInv' /\ DeletionInv'
  BY <1>4, <1>5, OpsStayFit, DeletionStaysFit DEF ControlInv, Control
<1>7. DisposalInv'
  BY DEF ControlInv, Control, DisposalInv
<1>8. QED
  BY <1>1, <1>6, <1>7 DEF Control

LEMMA TimeoutControl ==
  ASSUME ControlInv, NEW s \in Sessions, Timeout(s)
  PROVE  Control'
<1>1. PICK reached \in SUBSET Sessions : reached = {s}
  OBVIOUS
<1>2. Abort(reached)
  BY <1>1 DEF Timeout
<1>3. UNCHANGED <<stored, sweep, life, registry, deleted, deleting, left, drain>>
  BY DEF Timeout, ends
<1>4. /\ life # "up" /\ sweep'.at # "none" => sweep'.aborted
      /\ life = "disposed" => sweep'.at = "none"
  BY <1>3 DEF ControlInv, Control, DisposalInv
<1>5. QED
  BY <1>2, <1>3, <1>4, AbortsControl

LEMMA SweepTimeoutControl ==
  ASSUME ControlInv, SweepTimeout
  PROVE  Control'
<1>1. PICK reached \in SUBSET Sessions : Abort(reached)
  <2>1. {s \in Sessions : op[s].kind = "sweep"} \in SUBSET Sessions
    OBVIOUS
  <2>2. QED
    BY <2>1 DEF SweepTimeout
<1>2. UNCHANGED <<stored, life, registry, deleted, deleting, left, drain>>
  BY DEF SweepTimeout, OnlySweep, ends
<1>3. sweep.at # "none" /\ sweep'.aborted
  BY DEF SweepTimeout, ControlInv, TypeInv, Shapes, Sweep
<1>4. life # "disposed"
  BY <1>3 DEF ControlInv, Control, DisposalInv
<1>5. QED
  BY <1>1, <1>2, <1>3, <1>4, AbortsControl

\* An idle event aborts the projection; a deletion waits for what it aborts.
LEMMA ListenControl ==
  ASSUME ControlInv, Listen
  PROVE  Control'
<1>1. stream \in Seq(Event) /\ stream # <<>>
  BY DEF ControlInv, TypeInv, Shapes, Listen
<1>2. Head(stream) \in Event
  BY <1>1, HeadTailProperties
<1>3. PICK s \in Sessions : s = Head(stream).session
  BY <1>2 DEF Event
<1>4. life = "up" /\ UNCHANGED <<stored, sweep, life, registry, drain>>
  BY DEF Listen
<1>5. CASE Head(stream).kind = "idle"
  <2>1. HandleIdle(s)
    BY <1>3, <1>5 DEF Listen
  <2>2. PICK reached \in SUBSET Sessions : Abort(reached)
    BY <2>1 DEF HandleIdle
  <2>3. UNCHANGED <<deleted, deleting, left>>
    BY <2>1 DEF HandleIdle
  <2>4. QED
    BY <1>4, <2>2, <2>3, AbortsControl
<1>6. CASE Head(stream).kind # "idle"
  <2>1. HandleDeleted(s)
    BY <1>3, <1>6 DEF Listen
  <2>2. PICK reached \in SUBSET Sessions : reached = {s}
    OBVIOUS
  <2>3. Abort(reached)
    BY <2>1, <2>2 DEF HandleDeleted
  <2>4. /\ deleting'[s] = "waiting" /\ left'[s] = Len(queue[s]) /\ deleted' = deleted \cup {s}
        /\ \A r \in Sessions \ {s} : deleting'[r] = deleting[r] /\ left'[r] = left[r]
    BY <2>1 DEF HandleDeleted, ControlInv, TypeInv, Shapes
  <2>5. WritesInv' /\ \A w \in writes : w.by = "delete" => w \in writes'
    <3>1. \A r \in Sessions : deleting'[r] = deleting[r] \/ deleting'[r] = "waiting"
      BY <2>4
    <3>2. QED
      BY <2>3, <3>1, WritesAborted DEF ControlInv, Control
  <2>6. op'[s] = Aborted(op[s]) /\ \A r \in Sessions \ {s} : op'[r] = op[r]
    BY <2>2, <2>3, Aborting DEF ControlInv, TypeInv
  <2>7. op[s].at # "none" => Len(queue[s]) > 0
    <3>1. queue[s] \in Seq(Item) /\ QueueFits(s)
      BY DEF ControlInv, TypeInv, Shapes
    <3>2. QED
      BY <3>1, EmptySeq, LenProperties DEF QueueFits
  <2>8. op'[s].at = op[s].at /\ (op[s].at # "none" => op'[s].aborted)
    BY <2>6, AbortedOp DEF ControlInv, TypeInv, Shapes
  <2>9. ASSUME NEW r \in Sessions PROVE OpFits(r)'
    <3>1. CASE r = s
      BY <1>4, <2>4, <2>7, <2>8, <3>1 DEF OpFits
    <3>2. CASE r # s
      <4>1. OpFits(r)
        BY DEF ControlInv, Control, OpsInv
      <4>2. QED
        BY <1>4, <2>4, <2>6, <3>2, <4>1 DEF OpFits, Unavailable
    <3>3. QED
      BY <3>1, <3>2
  <2>10. DeletionInv'
    BY <1>4, <2>4, <2>5 DEF ControlInv, Control, DeletionInv, DeletionFits, Removal
  <2>11. DisposalInv'
    BY <1>4 DEF DisposalInv
  <2>12. QED
    BY <2>5, <2>9, <2>10, <2>11 DEF Control, OpsInv
<1>7. QED
  BY <1>5, <1>6

\* What has been set belongs to nobody who is deleted.
LEMMA SetsAreFresh ==
  ASSUME ControlInv, NEW w \in writes
  PROVE  /\ w \in Write /\ w.session \in Sessions /\ WriteFits(w)
         /\ w.set => /\ op[w.session].at # "none" /\ ~op[w.session].aborted
                     /\ ~Unavailable(w.session) /\ deleting[w.session] = "none"
<1>1. w \in Write /\ w.session \in Sessions /\ WriteFits(w)
  BY DEF ControlInv, Control, TypeInv, Shapes, Write, WritesInv
<1>2. OpFits(w.session)
  BY <1>1 DEF ControlInv, Control, OpsInv
<1>3. QED
  BY <1>1, <1>2 DEF WriteFits, OpFits, Unavailable

LEMMA ApplyWriteControl ==
  ASSUME ControlInv, NEW w \in writes, ApplyWrite(w)
  PROVE  Control'
<1>1. PICK x \in Sessions : x = w.session
  BY SetsAreFresh
<1>2. w \in Write /\ (w.set => deleting[x] = "none")
  BY <1>1, SetsAreFresh
<1>3. /\ writes' = writes \ {w}
      /\ UNCHANGED <<op, sweep, life, registry, deleted, deleting, left, drain>>
  BY DEF ApplyWrite, tasks, ends
<1>4. \A s \in Sessions \ {x} : stored'[s] = stored[s]
  BY <1>1 DEF ControlInv, TypeInv, Shapes, ApplyWrite
<1>5. stored[x] \in Stored /\ stored'[x] = Applied(w)
  BY <1>1 DEF ControlInv, TypeInv, Shapes, ApplyWrite
<1>6. CASE w.set
  <2>1. OpsInv' /\ WritesInv' /\ DisposalInv'
    BY <1>3 DEF ControlInv, Control, OpsInv, OpFits, Unavailable, WritesInv, WriteFits, DisposalInv
  <2>2. ASSUME NEW s \in Sessions PROVE DeletionFits(s)'
    <3>1. DeletionFits(s)
      BY DEF ControlInv, Control, DeletionInv
    <3>2. CASE s = x
      BY <1>2, <1>3, <1>6, <3>2 DEF DeletionFits
    <3>3. CASE s # x
      <4>1. /\ Removal(s, "cursor", "delete") # w /\ Removal(s, "usage", "delete") # w
        BY <1>1, <3>3 DEF Removal
      <4>2. QED
        BY <1>3, <1>4, <3>1, <3>3, <4>1 DEF DeletionFits
    <3>4. QED
      BY <3>2, <3>3
  <2>3. QED
    BY <2>1, <2>2 DEF Control, DeletionInv
<1>7. CASE ~w.set
  <2>1. OpsInv' /\ WritesInv' /\ DisposalInv'
    BY <1>3 DEF ControlInv, Control, OpsInv, OpFits, Unavailable, WritesInv, WriteFits, DisposalInv
  <2>2. /\ w.key = "usage" => ~stored'[x].usage /\ stored'[x].cursor = stored[x].cursor
        /\ w.key # "usage" => ~stored'[x].cursor /\ stored'[x].usage = stored[x].usage
    BY <1>1, <1>5, <1>7, Records DEF Applied, Stored, NotStored
  <2>3. ASSUME NEW s \in Sessions PROVE DeletionFits(s)'
    <3>1. DeletionFits(s)
      BY DEF ControlInv, Control, DeletionInv
    <3>2. CASE s = x
      <4>1. /\ w.key = "usage" => Removal(s, "cursor", "delete") # w
            /\ w.key # "usage" => Removal(s, "usage", "delete") # w
        BY DEF Removal
      <4>2. QED
        BY <1>3, <2>2, <3>1, <3>2, <4>1 DEF DeletionFits
    <3>3. CASE s # x
      <4>1. /\ Removal(s, "cursor", "delete") # w /\ Removal(s, "usage", "delete") # w
        BY <1>1, <3>3 DEF Removal
      <4>2. QED
        BY <1>3, <1>4, <3>1, <3>3, <4>1 DEF DeletionFits
    <3>4. QED
      BY <3>2, <3>3
  <2>4. QED
    BY <2>1, <2>3 DEF Control, DeletionInv
<1>8. QED
  BY <1>6, <1>7

LEMMA FailedDeletion ==
  ASSUME Shapes, NEW s \in Sessions, NEW d, d = DeletionFails(s)
  PROVE  /\ \A r \in Sessions : d[r] = deleting[r] \/ r = s
         /\ d[s] = deleting[s] \/ (deleting[s] = "removing" /\ d[s] = "failed")
         /\ d[s] # "removing"
<1>1. deleting \in [Sessions -> {"none", "waiting", "removing", "done", "failed"}]
  BY DEF Shapes
<1>2. QED
  BY <1>1 DEF DeletionFails

\* Removals that are lost, with the deletion that waits for them.
LEMMA RemovalsLost ==
  ASSUME ControlInv, NEW s \in Sessions, NEW by \in {"cleanup", "delete"},
         writes' \subseteq writes,
         \A w \in writes : w.session # s \/ w.by # by => w \in writes',
         deleting' = IF by = "delete" THEN DeletionFails(s) ELSE deleting,
         UNCHANGED <<op, stored, sweep, life, registry, deleted, left, drain>>
  PROVE  Control'
<1>1. /\ \A r \in Sessions : deleting'[r] = deleting[r] \/ r = s
      /\ deleting'[s] = deleting[s] \/ (deleting[s] = "removing" /\ deleting'[s] = "failed")
      /\ by = "delete" => deleting'[s] # "removing"
      /\ by # "delete" => deleting' = deleting
  <2>1. PICK d : d = DeletionFails(s)
    OBVIOUS
  <2>2. deleting' = IF by = "delete" THEN d ELSE deleting
    BY <2>1
  <2>3. /\ \A r \in Sessions : d[r] = deleting[r] \/ r = s
        /\ d[s] = deleting[s] \/ (deleting[s] = "removing" /\ d[s] = "failed")
        /\ d[s] # "removing"
    BY <2>1, FailedDeletion DEF ControlInv, TypeInv
  <2>4. QED
    BY <2>2, <2>3, Zenon
<1>2. OpsInv'
  BY <1>1 DEF ControlInv, Control, OpsInv, OpFits, Unavailable
<1>3. ASSUME NEW w \in writes' PROVE WriteFits(w)'
  <2>1. w \in writes /\ w.session \in Sessions /\ WriteFits(w)
    BY SetsAreFresh
  <2>2. QED
    BY <1>1, <2>1 DEF WriteFits
<1>4. ASSUME NEW r \in Sessions PROVE DeletionFits(r)'
  <2>1. DeletionFits(r)
    BY DEF ControlInv, Control, DeletionInv
  <2>2. CASE r = s /\ by = "delete"
    BY <1>1, <2>1, <2>2 DEF DeletionFits
  <2>3. CASE ~(r = s /\ by = "delete")
    <3>1. /\ Removal(r, "cursor", "delete") \in writes => Removal(r, "cursor", "delete") \in writes'
          /\ Removal(r, "usage", "delete") \in writes => Removal(r, "usage", "delete") \in writes'
      BY <2>3 DEF Removal
    <3>2. deleting'[r] = deleting[r]
      BY <1>1, <2>3
    <3>3. QED
      BY <2>1, <3>1, <3>2 DEF DeletionFits
  <2>4. QED
    BY <2>2, <2>3
<1>5. DisposalInv'
  BY <1>1 DEF ControlInv, Control, DisposalInv
<1>6. QED
  BY <1>2, <1>3, <1>4, <1>5 DEF Control, WritesInv, DeletionInv

\* A projection whose mutation fails has no other one.
LEMMA WriteFailsControl ==
  ASSUME ControlInv, NEW w \in writes, WriteFails(w)
  PROVE  Control'
<1>1. PICK x \in Sessions : x = w.session
  BY SetsAreFresh
<1>2. w \in Write /\ WriteFits(w)
  BY SetsAreFresh
<1>3. /\ writes' = writes \ {w}
      /\ UNCHANGED <<stored, sweep, life, registry, deleted, left, drain>>
  BY DEF WriteFails
<1>4. CASE w.by # "project"
  <2>1. PICK by \in {"cleanup", "delete"} : by = w.by
    BY <1>2, <1>4 DEF Write
  <2>2. op' = op /\ deleting' = IF by = "delete" THEN DeletionFails(x) ELSE deleting
    BY <1>1, <1>4, <2>1 DEF WriteFails
  <2>3. \A v \in writes : v.session # x \/ v.by # by => v \in writes'
    BY <1>1, <1>3, <2>1
  <2>4. QED
    BY <1>3, <2>2, <2>3, RemovalsLost
<1>5. CASE w.by = "project"
  <2>1. op' = [op EXCEPT ![x] = Aborted(op[x])] /\ deleting' = deleting
    BY <1>1, <1>5 DEF WriteFails
  <2>2. op[x] \in Op /\ op[x].at # "none" /\ w.set
    BY <1>1, <1>2, <1>5 DEF ControlInv, TypeInv, Shapes, WriteFits
  <2>3. PICK o : o = Aborted(op[x]) /\ o.at = op[x].at /\ o.kind = op[x].kind /\ o.aborted
    BY <2>2, AbortedOp
  <2>4. op'[x] = o /\ \A r \in Sessions \ {x} : op'[r] = op[r]
    BY <2>1, <2>3 DEF ControlInv, TypeInv, Shapes
  <2>5. ASSUME NEW v \in writes', v.session = x PROVE ~v.set
    <3>1. v \in Write /\ WriteFits(v)
      BY <1>3, SetsAreFresh
    <3>2. ASSUME v.set PROVE FALSE
      <4>1. v.key = w.key /\ v.by = w.by /\ v.set = w.set
        BY <1>1, <1>2, <1>5, <2>2, <2>5, <3>1, <3>2 DEF WriteFits, Write
      <4>2. v = w
        BY <1>1, <1>2, <2>5, <3>1, <4>1 DEF Write
      <4>3. QED
        BY <1>3, <4>2
    <3>3. QED
      BY <3>2
  <2>6. ASSUME NEW v \in writes' PROVE WriteFits(v)'
    <3>1. v.session \in Sessions /\ WriteFits(v)
      BY <1>3, SetsAreFresh
    <3>2. CASE v.session = x
      BY <2>1, <2>3, <2>4, <2>5, <3>1, <3>2 DEF WriteFits
    <3>3. CASE v.session # x
      <4>1. op'[v.session] = op[v.session]
        BY <2>4, <3>1, <3>3
      <4>2. QED
        BY <2>1, <3>1, <4>1 DEF WriteFits
    <3>4. QED
      BY <3>2, <3>3
  <2>7. OpsTame
    BY <1>3, <2>1, <2>2, <2>3, <2>4 DEF OpsTame
  <2>8. DeletionTame
    BY <1>3, <1>5, <2>1 DEF DeletionTame
  <2>9. OpsInv' /\ DeletionInv'
    BY <2>7, <2>8, OpsStayFit, DeletionStaysFit DEF ControlInv, Control
  <2>10. DisposalInv'
    BY <1>3, <2>1 DEF ControlInv, Control, DisposalInv
  <2>11. QED
    BY <2>6, <2>9, <2>10 DEF Control, WritesInv
<1>6. QED
  BY <1>4, <1>5

LEMMA RemovalExpiresControl ==
  ASSUME ControlInv, NEW s \in Sessions, NEW by \in {"cleanup", "delete"}, RemovalExpires(s, by)
  PROVE  Control'
<1>1. /\ writes' \subseteq writes
      /\ \A w \in writes : w.session # s \/ w.by # by => w \in writes'
      /\ deleting' = IF by = "delete" THEN DeletionFails(s) ELSE deleting
      /\ UNCHANGED <<op, stored, sweep, life, registry, deleted, left, drain>>
  BY DEF RemovalExpires, tasks
<1>2. QED
  BY <1>1, RemovalsLost

\* Deletions go on when nothing of the session runs.
LEMMA RemoveStateControl ==
  ASSUME ControlInv, NEW s \in Sessions, RemoveState(s)
  PROVE  Control'
<1>1. /\ deleting[s] = "waiting" /\ left[s] = 0 /\ deleting'[s] = "removing"
      /\ \A r \in Sessions \ {s} : deleting'[r] = deleting[r]
      /\ writes' = writes \cup {Removal(s, "cursor", "delete"), Removal(s, "usage", "delete")}
      /\ UNCHANGED <<op, stored, sweep, life, registry, deleted, left, drain>>
  BY DEF ControlInv, TypeInv, Shapes, RemoveState, tasks
<1>2. op[s].at = "none"
  <2>1. OpFits(s)
    BY DEF ControlInv, Control, OpsInv
  <2>2. QED
    BY <1>1, <2>1 DEF OpFits
<1>3. OpsInv'
  BY <1>1, <1>2 DEF ControlInv, Control, OpsInv, OpFits, Unavailable
<1>4. ASSUME NEW w \in writes' PROVE WriteFits(w)'
  <2>1. CASE w \in writes
    <3>1. w.session \in Sessions /\ WriteFits(w)
      BY <2>1, SetsAreFresh
    <3>2. deleting'[w.session] # "done" \/ deleting'[w.session] = deleting[w.session]
      BY <1>1, <3>1
    <3>3. QED
      BY <1>1, <3>1, <3>2 DEF WriteFits
  <2>2. CASE w \notin writes
    <3>1. ~w.set /\ w.by = "delete" /\ w.session = s
      BY <1>1, <2>2 DEF Removal
    <3>2. QED
      BY <1>1, <3>1 DEF WriteFits
  <2>3. QED
    BY <2>1, <2>2
<1>5. DeletionInv'
  BY <1>1 DEF ControlInv, Control, DeletionInv, DeletionFits, Removal
<1>6. DisposalInv'
  BY <1>1 DEF ControlInv, Control, DisposalInv
<1>7. QED
  BY <1>3, <1>4, <1>5, <1>6 DEF Control, WritesInv

LEMMA RemovedControl ==
  ASSUME ControlInv, NEW s \in Sessions, Removed(s)
  PROVE  Control'
<1>1. /\ deleting[s] = "removing" /\ deleting'[s] = "done"
      /\ \A r \in Sessions \ {s} : deleting'[r] = deleting[r]
      /\ ~\E w \in writes : w.session = s /\ w.by = "delete"
      /\ UNCHANGED <<op, stored, writes, sweep, life, registry, deleted, left, drain>>
  BY DEF ControlInv, TypeInv, Shapes, Removed, storeVars, tasks
<1>2. OpFits(s) /\ DeletionFits(s)
  BY DEF ControlInv, Control, OpsInv, DeletionInv
<1>3. OpsInv'
  BY <1>1, <1>2 DEF ControlInv, Control, OpsInv, OpFits, Unavailable
<1>4. ASSUME NEW w \in writes' PROVE WriteFits(w)'
  <2>1. w \in writes /\ w.session \in Sessions /\ WriteFits(w)
    BY <1>1, SetsAreFresh
  <2>2. w.by = "delete" => deleting'[w.session] = deleting[w.session]
    BY <1>1, <2>1
  <2>3. QED
    BY <1>1, <2>1, <2>2 DEF WriteFits
<1>5. ~stored[s].cursor /\ ~stored[s].usage
  BY <1>1, <1>2 DEF DeletionFits, Removal
<1>6. DeletionInv'
  BY <1>1, <1>5 DEF ControlInv, Control, DeletionInv, DeletionFits
<1>7. DisposalInv'
  BY <1>1 DEF ControlInv, Control, DisposalInv
<1>8. QED
  BY <1>3, <1>4, <1>6, <1>7 DEF Control, WritesInv

\* The disposal aborts whatever runs, and waits for it.
LEMMA DisposeControl ==
  ASSUME ControlInv, Dispose
  PROVE  Control'
<1>1. PICK reached \in SUBSET Sessions : reached = Sessions
  OBVIOUS
<1>2. /\ life = "up" /\ life' = "disposing" /\ Abort(reached)
      /\ UNCHANGED <<stored, deleted, deleting, left>>
      /\ \A s \in Sessions : drain'[s] = Len(queue[s])
  BY <1>1 DEF Dispose
<1>3. WritesInv' /\ \A w \in writes : w.by = "delete" => w \in writes'
  BY <1>2, WritesAborted DEF ControlInv, Control
<1>4. ASSUME NEW s \in Sessions PROVE OpFits(s)'
  <2>1. op[s] \in Op /\ queue[s] \in Seq(Item) /\ QueueFits(s) /\ OpFits(s)
    BY DEF ControlInv, Control, OpsInv, TypeInv, Shapes
  <2>2. op'[s] = Aborted(op[s])
    BY <1>1, <1>2, Aborting DEF ControlInv, TypeInv
  <2>3. op'[s].at = op[s].at /\ (op[s].at # "none" => op'[s].aborted)
    BY <2>1, <2>2, AbortedOp
  <2>4. op[s].at # "none" => Len(queue[s]) > 0
    BY <2>1, EmptySeq, LenProperties DEF QueueFits
  <2>5. QED
    BY <1>2, <2>1, <2>3, <2>4 DEF OpFits
<1>5. DeletionInv'
  BY <1>2, <1>3 DEF ControlInv, Control, DeletionInv, DeletionFits, Removal
<1>6. DisposalInv'
  <2>1. PICK b \in BOOLEAN : b = (sweep.aborted \/ sweep.at # "none")
    BY DEF ControlInv, TypeInv, Shapes, Sweep
  <2>2. sweep' = [sweep EXCEPT !.aborted = b] /\ sweep \in Sweep
    BY <2>1 DEF ControlInv, TypeInv, Shapes, Dispose
  <2>3. QED
    BY <1>2, <2>1, <2>2 DEF DisposalInv, Sweep
<1>7. QED
  BY <1>3, <1>4, <1>5, <1>6 DEF Control, OpsInv

LEMMA DisposedControl ==
  ASSUME ControlInv, Disposed
  PROVE  Control'
<1>1. /\ life = "disposing" /\ life' = "disposed" /\ registry # "trying" /\ sweep.at = "none"
      /\ \A s \in Sessions : drain[s] = 0 /\ deleting[s] \notin {"waiting", "removing"}
      /\ UNCHANGED <<op, stored, writes, sweep, registry, deleted, deleting, left, drain>>
  BY DEF Disposed, storeVars, tasks
<1>2. OpsInv'
  BY <1>1 DEF ControlInv, Control, OpsInv, OpFits, Unavailable
<1>3. WritesInv' /\ DeletionInv'
  BY <1>1 DEF ControlInv, Control, WritesInv, WriteFits, DeletionInv, DeletionFits
<1>4. DisposalInv'
  BY <1>1 DEF DisposalInv
<1>5. QED
  BY <1>2, <1>3, <1>4 DEF Control

\* At the end nothing runs, and nothing is under way that anybody waits for.
LEMMA NothingLeft ==
  ASSUME ControlInv, life = "disposed"
  PROVE  /\ \A s \in Sessions : op[s].at = "none"
         /\ \A w \in writes : w.by = "delete" /\ ~w.set
<1>1. ASSUME NEW s \in Sessions PROVE op[s].at = "none"
  <2>1. OpFits(s) /\ drain[s] = 0
    BY DEF ControlInv, Control, OpsInv, DisposalInv
  <2>2. QED
    BY <2>1 DEF OpFits
<1>2. ASSUME NEW w \in writes PROVE w.by = "delete" /\ ~w.set
  <2>1. w.session \in Sessions /\ WriteFits(w)
    BY SetsAreFresh
  <2>2. Unowned(w.session)
    BY <1>1, <2>1, NothingOwned DEF ControlInv, Control
  <2>3. QED
    BY <2>1, <2>2 DEF Unowned, WriteFits
<1>3. QED
  BY <1>1, <1>2

LEMMA RestartControl ==
  ASSUME ControlInv, Reload \/ Crash
  PROVE  Control'
<1>1. /\ life' = "up" /\ op' = Each(NoOp) /\ deleting' = Each("none")
  BY DEF Reload, Crash, Setup
<1>2. \A s \in Sessions : op'[s].at = "none" /\ deleting'[s] = "none"
  BY <1>1, Records DEF Each
<1>3. \A w \in writes' : w.session \in Sessions /\ w.by = "delete" /\ ~w.set
  <2>1. CASE Reload
    BY <2>1, NothingLeft, SetsAreFresh DEF Reload
  <2>2. CASE Crash
    BY <2>2 DEF Crash
  <2>3. QED
    BY <2>1, <2>2
<1>4. OpsInv' /\ DeletionInv' /\ DisposalInv'
  BY <1>1, <1>2 DEF OpsInv, OpFits, DeletionInv, DeletionFits, DisposalInv
<1>5. WritesInv'
  BY <1>2, <1>3 DEF WritesInv, WriteFits
<1>6. QED
  BY <1>4, <1>5 DEF Control

-----------------------------------------------------------------------------
LEMMA ControlBegins ==
  ASSUME Init
  PROVE  ControlInv
<1>1. \A s \in Sessions : op[s].at = "none" /\ deleting[s] = "none"
  BY Records DEF Init, Each
<1>2. Control
  BY <1>1 DEF Init, Control, OpsInv, OpFits, WritesInv, DeletionInv, DeletionFits, DisposalInv
<1>3. QED
  BY <1>2, TypesBegin DEF ControlInv

LEMMA ControlStep ==
  ASSUME ControlInv, [Next]_vars
  PROVE  ControlInv'
<1>1. ASSUME NEW s \in Sessions, SessionStep(s) PROVE Control'
  BY <1>1, AsideControl, BeginControl, RefuseControl, QuietMoves, ReadHistoryControl,
     StoreCursorControl, EndsControl, OperationFailsControl, RemoveStateControl,
     RemovedControl, TimeoutControl, RemovalExpiresControl DEF SessionStep
<1>2. ASSUME PluginStep PROVE Control'
  <2>1. CASE SweepList \/ SweepVisits \/ SweepEnds \/ RegistryAttempt \/ StreamFails
    BY <2>1, AsideControl
  <2>2. ASSUME NEW w \in writes, ApplyWrite(w) \/ WriteFails(w) PROVE Control'
    BY <2>2, ApplyWriteControl, WriteFailsControl
  <2>3. CASE SweepTimeout \/ Listen \/ Dispose \/ Disposed \/ Reload \/ Crash
    BY <2>3, SweepTimeoutControl, ListenControl, DisposeControl, DisposedControl, RestartControl
  <2>4. QED
    BY <1>2, <2>1, <2>2, <2>3 DEF PluginStep
<1>3. ASSUME UNCHANGED vars PROVE Control'
  <2>1. UNCHANGED <<op, stored, writes, sweep, life, registry, deleted, deleting, left, drain>>
    BY <1>3 DEF vars, storeVars, tasks, ends
  <2>2. QED
    BY <2>1, UntouchedControl DEF ControlInv, Control, DisposalInv
<1>4. Control'
  BY <1>1, <1>2, <1>3, Steps
<1>5. QED
  BY <1>4, TypesStep DEF ControlInv

\* ControlInv holds: whatever runs, is stored, is deleted or is disposed.
THEOREM SessionControlHolds == Spec => []ControlInv
<1>1. Init => ControlInv
  BY ControlBegins
<1>2. ControlInv /\ [Next]_vars => ControlInv'
  BY ControlStep
<1>3. QED
  BY <1>1, <1>2, PTL DEF Spec

\* Whatever is being set belongs to a running projection of a session that is
\* neither deleted nor disposed, however its operation was aborted.
THEOREM SetsBelongToTheirOperation == Spec => []SetsAreOwned
<1>1. ASSUME ControlInv PROVE SetsAreOwned
  <2>1. ASSUME NEW w \in writes, w.set
        PROVE  /\ op[w.session].kind = "project" /\ ~op[w.session].aborted
               /\ op[w.session].at = IF w.key = "usage" THEN "usage" ELSE "storing"
               /\ ~Unavailable(w.session)
    BY <1>1, <2>1, SetsAreFresh DEF WriteFits
  <2>2. QED
    BY <2>1 DEF SetsAreOwned
<1>2. QED
  BY <1>1, SessionControlHolds, PTL

\* A deletion that is done has left nothing of the session, whatever its
\* operations were doing when it was deleted.
THEOREM DeletionLeavesNothing == Spec => []DeletedLeavesNothing
<1>1. ASSUME ControlInv PROVE DeletedLeavesNothing
  <2>1. ASSUME NEW s \in Sessions, deleting[s] = "done"
        PROVE  ~stored[s].cursor /\ ~stored[s].usage /\ op[s].at = "none"
    <3>1. OpFits(s) /\ DeletionFits(s)
      BY <1>1 DEF ControlInv, Control, OpsInv, DeletionInv
    <3>2. QED
      BY <2>1, <3>1 DEF OpFits, DeletionFits
  <2>2. QED
    BY <2>1 DEF DeletedLeavesNothing
<1>2. QED
  BY <1>1, SessionControlHolds, PTL

\* A disposal that is over has left nothing at work but removals whose
\* deletion has failed or is of an earlier instance.
THEOREM DisposalEndsAll == Spec => []NothingAfterDisposal
<1>1. ASSUME ControlInv PROVE NothingAfterDisposal
  <2>1. ASSUME life = "disposed", NEW w \in writes
        PROVE  w.by = "delete" /\ deleting[w.session] \in {"failed", "none"}
    <3>1. w.by = "delete" /\ w.session \in Sessions /\ WriteFits(w)
      BY <1>1, <2>1, NothingLeft, SetsAreFresh
    <3>2. deleting[w.session] \notin {"waiting", "removing", "done"}
      BY <1>1, <2>1, <3>1 DEF ControlInv, Control, DisposalInv, WriteFits
    <3>3. QED
      BY <1>1, <3>1, <3>2 DEF ControlInv, TypeInv, Shapes
  <2>2. QED
    BY <1>1, <2>1, NothingLeft DEF NothingAfterDisposal, ControlInv, Control, DisposalInv
<1>2. QED
  BY <1>1, SessionControlHolds, PTL

-----------------------------------------------------------------------------
(* What is posted has no gaps.                                              *)

(* All of the session's messages up to t are posted. *)
Good(s, t) ==
  /\ t <= used.messages
  /\ \A k \in ToSet(history[s]) : k <= t => k \in posted[s]

(* What is left to post comes in order: nothing before it is missing. *)
Leads(s, f) == \A i \in 1..Len(f) :
  /\ f[i] <= used.messages
  /\ \A k \in ToSet(history[s]) :
       k < f[i] => k \in posted[s] \/ \E j \in 1..i - 1 : f[j] = k

StoredPosts(s, c) == Good(s, c.through) /\ Good(s, c.summarized)
OpPosts(s, o) == Good(s, o.through) /\ Good(s, o.summarized) /\ Leads(s, o.fresh)

(* Messages are numbered as they come, and posted as they come: a later one *)
(* of those that are left is posted only after the earlier ones.            *)
HistoryPosts(s) ==
  /\ \A i, j \in 1..Len(history[s]) : i < j => history[s][i] < history[s][j]
  /\ \A i \in 1..Len(history[s]) : history[s][i] <= used.messages
  /\ \A m \in posted[s] : Good(s, m)
  /\ summaries[s] \subseteq posted[s]

PostingInv == \A s \in Sessions :
  HistoryPosts(s) /\ StoredPosts(s, stored[s]) /\ OpPosts(s, op[s])

\* Neither the history nor what is posted changes.
LEMMA Resting ==
  ASSUME PostingInv, UNCHANGED <<history, posted>>, used'.messages = used.messages,
         \A s \in Sessions : /\ summaries'[s] \subseteq posted[s]
                             /\ StoredPosts(s, stored'[s]) /\ OpPosts(s, op'[s])
  PROVE  PostingInv'
<1>1. ASSUME NEW s \in Sessions PROVE HistoryPosts(s)'
  BY DEF PostingInv, HistoryPosts, Good
<1>2. ASSUME NEW s \in Sessions PROVE StoredPosts(s, stored[s])' /\ OpPosts(s, op[s])'
  BY DEF StoredPosts, OpPosts, Good, Leads
<1>3. QED
  BY <1>1, <1>2 DEF PostingInv

LEMMA NoneIsGood ==
  ASSUME TypeInv, NEW s \in Sessions
  PROVE  Good(s, Nothing) /\ Leads(s, <<>>)
<1>1. history[s] \in Seq(Messages) /\ used.messages \in 0..MaxMessages /\ Nothing \in Known
  BY DEF TypeInv, Shapes, Known
<1>2. ToSet(history[s]) \subseteq Messages
  BY <1>1, Cuts
<1>3. Good(s, Nothing)
  <2>1. ASSUME NEW k \in ToSet(history[s]) PROVE ~(k <= 0)
    <3>1. k \in Messages
      BY <1>2
    <3>2. k \in Nat \ {0}
      BY <3>1, Sizes
    <3>3. QED
      BY <3>2
  <2>2. QED
    BY <1>1, <2>1 DEF Good, Nothing
<1>4. Leads(s, <<>>)
  BY DEF Leads
<1>5. QED
  BY <1>3, <1>4

\* What an operation is left with when it ends or is aborted.
LEMMA EndedPosts ==
  ASSUME TypeInv, NEW s \in Sessions, OpPosts(s, op[s])
  PROVE  OpPosts(s, NoOp) /\ OpPosts(s, Aborted(op[s]))
<1>1. Good(s, Nothing) /\ Leads(s, <<>>)
  BY NoneIsGood
<1>2. OpPosts(s, NoOp)
  BY <1>1, Records DEF OpPosts
<1>3. PICK o : /\ o = Aborted(op[s])
               /\ o.through \in {op[s].through, Nothing}
               /\ o.summarized \in {op[s].summarized, Nothing}
               /\ o.fresh \in {op[s].fresh, <<>>}
  BY AbortedOp DEF TypeInv, Shapes
<1>4. OpPosts(s, o)
  BY <1>1, <1>3 DEF OpPosts
<1>5. QED
  BY <1>2, <1>3, <1>4

\* Operations only end or are aborted.
Calm ==
  /\ UNCHANGED <<history, posted, stored>> /\ used'.messages = used.messages
  /\ \A s \in Sessions : /\ summaries'[s] \in {summaries[s], {}}
                         /\ op'[s] \in {op[s], Aborted(op[s]), NoOp}

LEMMA CalmPosts ==
  ASSUME TypeInv, PostingInv, Calm
  PROVE  PostingInv'
<1>1. ASSUME NEW s \in Sessions
      PROVE  /\ summaries'[s] \subseteq posted[s]
             /\ StoredPosts(s, stored'[s]) /\ OpPosts(s, op'[s])
  <2>1. HistoryPosts(s) /\ StoredPosts(s, stored[s]) /\ OpPosts(s, op[s])
    BY DEF PostingInv
  <2>2. OpPosts(s, NoOp) /\ OpPosts(s, Aborted(op[s]))
    BY <2>1, EndedPosts
  <2>3. stored' = stored /\ summaries'[s] \in {summaries[s], {}}
    BY DEF Calm
  <2>4. op'[s] = op[s] \/ op'[s] = Aborted(op[s]) \/ op'[s] = NoOp
    BY DEF Calm
  <2>5. OpPosts(s, op'[s])
    BY <2>1, <2>2, <2>4
  <2>6. QED
    BY <2>1, <2>3, <2>5 DEF HistoryPosts
<1>2. QED
  BY <1>1, Resting DEF Calm

\* The operation of s goes on with o.
LEMMA MovedPosts ==
  ASSUME TypeInv, PostingInv, NEW s \in Sessions, NEW o, op' = [op EXCEPT ![s] = o],
         OpPosts(s, o), UNCHANGED <<history, posted, stored>>, used'.messages = used.messages,
         \A r \in Sessions : summaries'[r] \subseteq posted[r]
  PROVE  PostingInv'
<1>1. ASSUME NEW r \in Sessions
      PROVE  StoredPosts(r, stored'[r]) /\ OpPosts(r, op'[r])
  <2>1. StoredPosts(r, stored[r]) /\ OpPosts(r, op[r])
    BY DEF PostingInv
  <2>2. op'[r] = IF r = s THEN o ELSE op[r]
    BY DEF TypeInv, Shapes
  <2>3. OpPosts(r, op'[r])
    BY <2>1, <2>2
  <2>4. QED
    BY <2>1, <2>3
<1>2. QED
  BY <1>1, Resting

\* Steps that post nothing and plan nothing.
LEMMA AsidePosts ==
  ASSUME TypeInv, PostingInv,
         \/ \E s \in Sessions : \/ EndRun(s) \/ IdleForgotten(s) \/ RemoveState(s) \/ Removed(s)
                                \/ Refuse(s)
                                \/ \E by \in {"cleanup", "delete"} : RemovalExpires(s, by)
         \/ SweepList \/ SweepVisits \/ SweepEnds \/ RegistryAttempt \/ StreamFails \/ Disposed
  PROVE  PostingInv'
<1>1. UNCHANGED <<history, posted, stored, op>>
  BY DEF EndRun, IdleForgotten, RemoveState, Removed, Refuse, RemovalExpires, SweepList,
     SweepVisits, SweepEnds, RegistryAttempt, StreamFails, Disposed, OnlySweep, OnlyRegistry,
     hostVars, serverVars, storeVars, tasks
<1>2. summaries' = summaries
  BY DEF EndRun, IdleForgotten, RemoveState, Removed, Refuse, RemovalExpires, SweepList,
     SweepVisits, SweepEnds, RegistryAttempt, StreamFails, Disposed, OnlySweep, OnlyRegistry, marks
<1>3. Trouble \/ UNCHANGED used
  BY DEF EndRun, IdleForgotten, RemoveState, Removed, Refuse, RemovalExpires, SweepList,
     SweepVisits, SweepEnds, RegistryAttempt, StreamFails, Disposed
<1>4. used'.messages = used.messages
  BY <1>3, TroubleTypes DEF TypeInv
<1>5. Calm
  BY <1>1, <1>2, <1>4 DEF Calm
<1>6. QED
  BY <1>5, CalmPosts

LEMMA AbortedPosts ==
  ASSUME TypeInv, PostingInv, (\E s \in Sessions : Timeout(s)) \/ SweepTimeout \/ Listen \/ Dispose
  PROVE  PostingInv'
<1>1. UNCHANGED <<history, posted, stored>> /\ (Trouble \/ UNCHANGED used)
  BY DEF Timeout, SweepTimeout, Listen, Dispose, OnlySweep, hostVars, serverVars
<1>2. PICK reached \in SUBSET Sessions : Abort(reached)
  <2>1. CASE \E s \in Sessions : Timeout(s)
    <3>1. PICK s \in Sessions : Timeout(s)
      BY <2>1
    <3>2. {s} \in SUBSET Sessions
      OBVIOUS
    <3>3. QED
      BY <3>1, <3>2 DEF Timeout
  <2>2. CASE SweepTimeout
    <3>1. {s \in Sessions : op[s].kind = "sweep"} \in SUBSET Sessions
      OBVIOUS
    <3>2. QED
      BY <2>2, <3>1 DEF SweepTimeout
  <2>3. CASE Listen
    <3>1. stream \in Seq(Event) /\ stream # <<>>
      BY <2>3 DEF TypeInv, Shapes, Listen
    <3>2. Head(stream) \in Event
      BY <3>1, HeadTailProperties
    <3>3. PICK s \in Sessions : s = Head(stream).session
      BY <3>2 DEF Event
    <3>4. PICK all \in SUBSET Sessions, some \in SUBSET Sessions :
            all = {s} /\ some = {r \in {s} : op[r].kind = "project"}
      OBVIOUS
    <3>5. Abort(some) \/ Abort(all)
      BY <2>3, <3>3, <3>4 DEF Listen, HandleIdle, HandleDeleted
    <3>6. QED
      BY <3>5
  <2>4. CASE Dispose
    <3>1. Sessions \in SUBSET Sessions
      OBVIOUS
    <3>2. QED
      BY <2>4, <3>1 DEF Dispose
  <2>5. QED
    BY <2>1, <2>2, <2>3, <2>4
<1>3. \A s \in Sessions : summaries'[s] \in {summaries[s], {}}
  BY DEF TypeInv, Shapes, Timeout, SweepTimeout, Listen, HandleIdle, HandleDeleted, Dispose,
     OnlySweep, marks
<1>4. \A s \in Sessions : op'[s] \in {op[s], Aborted(op[s])}
  BY <1>2, Aborting DEF TypeInv
<1>5. used'.messages = used.messages
  BY <1>1, TroubleTypes DEF TypeInv
<1>6. Calm
  BY <1>1, <1>3, <1>4, <1>5 DEF Calm
<1>7. QED
  BY <1>6, CalmPosts

LEMMA WriteFailsPosts ==
  ASSUME TypeInv, PostingInv, NEW w \in writes, WriteFails(w)
  PROVE  PostingInv'
<1>1. PICK x \in Sessions : x = w.session
  BY DEF TypeInv, Shapes, Write
<1>2. PICK o : o = Aborted(op[x])
  OBVIOUS
<1>3. op' = op \/ op' = [op EXCEPT ![x] = o]
  BY <1>1, <1>2 DEF WriteFails
<1>4. op \in [Sessions -> Op]
  BY DEF TypeInv, Shapes
<1>5. \A s \in Sessions : op'[s] = op[s] \/ (s = x /\ op'[s] = o)
  BY <1>3, <1>4
<1>6. \A s \in Sessions : op'[s] \in {op[s], Aborted(op[s]), NoOp}
  BY <1>2, <1>5
<1>7. /\ UNCHANGED <<history, posted, stored, summaries>> /\ used'.messages = used.messages
  BY TroubleTypes DEF TypeInv, WriteFails, hostVars, serverVars, marks
<1>8. Calm
  BY <1>6, <1>7 DEF Calm
<1>9. QED
  BY <1>8, CalmPosts

LEMMA RestartPosts ==
  ASSUME TypeInv, PostingInv, Reload \/ Crash
  PROVE  PostingInv'
<1>1. /\ UNCHANGED <<history, posted, stored>> /\ Trouble
      /\ op' = Each(NoOp) /\ summaries' = Each({})
  BY DEF Reload, Crash, Setup, serverVars
<1>2. \A s \in Sessions : op'[s] = NoOp /\ summaries'[s] = {}
  BY <1>1 DEF Each
<1>3. used'.messages = used.messages
  BY <1>1, TroubleTypes DEF TypeInv
<1>4. Calm
  BY <1>1, <1>2, <1>3 DEF Calm
<1>5. QED
  BY <1>4, CalmPosts

LEMMA FinishPosts ==
  ASSUME TypeInv, PostingInv, NEW s \in Sessions,
         \/ Answer(s) \/ Cleaned(s) \/ UpdateSkips(s) \/ UpdateDone(s)
         \/ OperationFails(s) /\ op[s].at # "usage"
  PROVE  PostingInv'
<1>1. PICK yes \in BOOLEAN, no \in BOOLEAN : yes = TRUE /\ no = FALSE
  OBVIOUS
<1>2. Finish(s, yes) \/ Finish(s, no)
  BY <1>1 DEF Answer, Cleaned, UpdateSkips, UpdateDone, OperationFails
<1>3. op' = [op EXCEPT ![s] = NoOp] /\ UNCHANGED <<history, summaries>>
  BY <1>2 DEF Finish
<1>4. UNCHANGED <<posted, stored>> /\ (Trouble \/ UNCHANGED used)
  BY DEF Answer, Cleaned, UpdateSkips, UpdateDone, OperationFails, serverVars, storeVars
<1>5. used'.messages = used.messages
  BY <1>4, TroubleTypes DEF TypeInv
<1>6. \A r \in Sessions : op'[r] \in {op[r], NoOp}
  BY <1>3 DEF TypeInv, Shapes
<1>7. Calm
  BY <1>3, <1>4, <1>5, <1>6 DEF Calm
<1>8. QED
  BY <1>7, CalmPosts

\* An operation that keeps what it is to post.
LEMMA GoesOnPosts ==
  ASSUME TypeInv, PostingInv, NEW s \in Sessions,
         \/ AwaitRegistry(s) \/ UsageStored(s) \/ StoreCursor(s) \/ UpdateRead(s)
         \/ Begin(s) \/ ReadCursor(s)
         \/ OperationFails(s) /\ op[s].at = "usage"
  PROVE  PostingInv'
<1>1. op[s] \in Op /\ HistoryPosts(s) /\ StoredPosts(s, stored[s]) /\ OpPosts(s, op[s])
  BY DEF TypeInv, Shapes, PostingInv
<1>2. UNCHANGED <<history, posted, stored, summaries>> /\ (Trouble \/ UNCHANGED used)
  BY DEF AwaitRegistry, UsageStored, StoreCursor, UpdateRead, Begin, ReadCursor, OperationFails,
     OnlyOp, hostVars, serverVars, storeVars, marks
<1>3. used'.messages = used.messages
  BY <1>2, TroubleTypes DEF TypeInv
<1>4. PICK o : /\ op' = [op EXCEPT ![s] = o]
               /\ o.through \in {op[s].through, stored[s].through, Nothing}
               /\ o.summarized \in {op[s].summarized, stored[s].summarized, Nothing}
               /\ o.fresh \in {op[s].fresh, <<>>}
  <2>1. CASE Begin(s)
    <3>1. PICK o : o = [NoOp EXCEPT !.at = "begin", !.kind = Head(queue[s]).kind,
                                    !.seen = Head(queue[s]).seen]
      OBVIOUS
    <3>2. op' = [op EXCEPT ![s] = o]
      BY <2>1, <3>1 DEF Begin
    <3>3. o.through = Nothing /\ o.summarized = Nothing /\ o.fresh = <<>>
      BY <3>1 DEF NoOp
    <3>4. QED
      BY <3>2, <3>3
  <2>2. CASE ReadCursor(s)
    <3>1. PICK o : o = [op[s] EXCEPT !.at = "manifest", !.through = stored[s].through,
                                     !.summarized = stored[s].summarized]
      OBVIOUS
    <3>2. op' = [op EXCEPT ![s] = o]
      BY <2>2, <3>1 DEF ReadCursor, Moves
    <3>3. o.through = stored[s].through /\ o.summarized = stored[s].summarized /\ o.fresh = op[s].fresh
      BY <1>1, <3>1 DEF Op
    <3>4. QED
      BY <3>2, <3>3
  <2>3. CASE UpdateRead(s)
    <3>1. PICK o : o = [op[s] EXCEPT !.at = "manifest", !.seen = history[s]]
      OBVIOUS
    <3>2. op' = [op EXCEPT ![s] = o]
      BY <2>3, <3>1 DEF UpdateRead, Moves
    <3>3. o.through = op[s].through /\ o.summarized = op[s].summarized /\ o.fresh = op[s].fresh
      BY <1>1, <3>1 DEF Op
    <3>4. QED
      BY <3>2, <3>3
  <2>4. CASE ~(Begin(s) \/ ReadCursor(s) \/ UpdateRead(s))
    <3>1. PICK place : op' = [op EXCEPT ![s] = [op[s] EXCEPT !.at = place]]
      BY <2>4 DEF AwaitRegistry, UsageStored, StoreCursor, OperationFails, Moves
    <3>2. PICK o : o = [op[s] EXCEPT !.at = place]
      OBVIOUS
    <3>3. o.through = op[s].through /\ o.summarized = op[s].summarized /\ o.fresh = op[s].fresh
      BY <1>1, <3>2 DEF Op
    <3>4. QED
      BY <3>1, <3>2, <3>3
  <2>5. QED
    BY <2>1, <2>2, <2>3, <2>4
<1>5. OpPosts(s, o)
  BY <1>1, <1>4, NoneIsGood DEF StoredPosts, OpPosts
<1>6. \A r \in Sessions : summaries'[r] \subseteq posted[r]
  BY <1>2 DEF PostingInv, HistoryPosts
<1>7. QED
  BY <1>2, <1>3, <1>4, <1>5, <1>6, MovedPosts

-----------------------------------------------------------------------------
(* What is left to post, cut from a history in order.                       *)

LEMMA Slices ==
  ASSUME NEW seq \in Seq(Messages), NEW a \in Nat \ {0}, NEW b \in Int, b <= Len(seq)
  PROVE  /\ SubSeq(seq, a, b) \in Seq(Messages)
         /\ Len(SubSeq(seq, a, b)) = IF a <= b THEN b - a + 1 ELSE 0
         /\ \A i \in 1..b - a + 1 : SubSeq(seq, a, b)[i] = seq[a + i - 1]
<1>1. \A i \in a..b : seq[i] \in Messages
  OBVIOUS
<1>2. QED
  BY <1>1, SubSeqProperties

LEMMA Members ==
  ASSUME NEW seq \in Seq(Messages)
  PROVE  /\ Len(seq) \in Nat
         /\ \A k : k \in ToSet(seq) <=> \E i \in 1..Len(seq) : seq[i] = k
         /\ \A i \in 1..Len(seq) : seq[i] \in Messages /\ seq[i] \in Nat \ {0}
<1>1. Messages \subseteq Nat \ {0}
  BY Sizes
<1>2. DOMAIN seq = 1..Len(seq) /\ \A i \in 1..Len(seq) : seq[i] \in Messages
  OBVIOUS
<1>3. \A k : k \in ToSet(seq) <=> \E i \in 1..Len(seq) : seq[i] = k
  BY <1>2 DEF ToSet
<1>4. Len(seq) \in Nat /\ \A i \in 1..Len(seq) : seq[i] \in Messages /\ seq[i] \in Nat \ {0}
  <2>1. ASSUME NEW i \in 1..Len(seq) PROVE seq[i] \in Messages /\ seq[i] \in Nat \ {0}
    <3>1. seq[i] \in Messages
      BY <1>2
    <3>2. QED
      BY <1>1, <3>1
  <2>2. Len(seq) \in Nat
    OBVIOUS
  <2>3. QED
    BY <2>1, <2>2
<1>5. QED
  BY <1>3, <1>4

\* Where a session's messages are, by their numbers.
LEMMA Ordered ==
  ASSUME TypeInv, NEW s \in Sessions, HistoryPosts(s),
         NEW i \in 1..Len(history[s]), NEW j \in 1..Len(history[s])
  PROVE  /\ i <= j => history[s][i] <= history[s][j]
         /\ history[s][i] < history[s][j] => i < j
<1>1. PICK h \in Seq(Messages) : h = history[s]
  BY DEF TypeInv, Shapes
<1>2. \A k, l \in 1..Len(h) : k < l => h[k] < h[l]
  BY <1>1 DEF HistoryPosts
<1>3. h[i] \in Nat /\ h[j] \in Nat /\ Len(h) \in Nat
  BY <1>1, Members
<1>4. (i < j => h[i] < h[j]) /\ (j < i => h[j] < h[i])
  BY <1>1, <1>2
<1>5. (i <= j => h[i] <= h[j]) /\ (h[i] < h[j] => i < j)
  BY <1>3, <1>4
<1>6. QED
  BY <1>1, <1>5

LEMMA AfterIs ==
  ASSUME NEW seq \in Seq(Messages), NEW id \in Known
  PROVE  \/ After(seq, id) = <<>>
         \/ \E p \in 0..Len(seq) : /\ p = 0 \/ seq[p] = id
                                   /\ Len(After(seq, id)) = Len(seq) - p
                                   /\ \A i \in 1..Len(seq) - p : After(seq, id)[i] = seq[p + i]
<1>1. PICK n \in Nat : n = Len(seq)
  OBVIOUS
<1>2. CASE id = Nothing
  <2>1. After(seq, id) = seq /\ 0 \in 0..n
    BY <1>2 DEF After
  <2>2. Len(seq) = n - 0 /\ \A i \in 1..n - 0 : seq[i] = seq[0 + i]
    BY <1>1
  <2>3. QED
    BY <1>1, <2>1, <2>2
<1>3. CASE id # Nothing /\ id \notin ToSet(seq)
  BY <1>3 DEF After
<1>4. CASE id # Nothing /\ id \in ToSet(seq)
  <2>1. DOMAIN seq = 1..n
    BY <1>1
  <2>2. \E i \in DOMAIN seq : seq[i] = id
    BY <1>4 DEF ToSet
  <2>3. PICK p \in 1..n : p = (CHOOSE i \in DOMAIN seq : seq[i] = id) /\ seq[p] = id
    BY <2>1, <2>2
  <2>4. Len(UpTo(seq, id)) = p
    BY <1>1, <2>3, Slices DEF UpTo
  <2>5. After(seq, id) = SubSeq(seq, p + 1, n)
    BY <1>1, <1>4, <2>4 DEF After
  <2>6. p + 1 \in Nat \ {0} /\ n \in Int /\ n <= Len(seq) /\ p \in 0..n
    BY <1>1
  <2>7. PICK r : r = SubSeq(seq, p + 1, n)
    OBVIOUS
  <2>8. /\ Len(r) = IF p + 1 <= n THEN n - (p + 1) + 1 ELSE 0
        /\ \A i \in 1..n - (p + 1) + 1 : r[i] = seq[(p + 1) + i - 1]
    BY <2>6, <2>7, Slices
  <2>9. Len(r) = n - p /\ \A i \in 1..n - p : r[i] = seq[p + i]
    <3>1. n - (p + 1) + 1 = n - p /\ \A i \in 1..n - p : (p + 1) + i - 1 = p + i
      BY <1>1, <2>3
    <3>2. QED
      BY <2>8, <3>1
  <2>10. p \in 0..n /\ seq[p] = id /\ After(seq, id) = r
    BY <2>3, <2>5, <2>6, <2>7
  <2>11. QED
    BY <1>1, <2>9, <2>10
<1>5. QED
  BY <1>2, <1>3, <1>4

LEMMA ClosedIs ==
  ASSUME NEW seq \in Seq(Messages)
  PROVE  /\ Closed(seq) \in Seq(Messages)
         /\ Len(Closed(seq)) = IF seq = <<>> THEN 0 ELSE Len(seq) - 1
         /\ \A i \in 1..Len(seq) - 1 : Closed(seq)[i] = seq[i]
<1>1. PICK n \in Nat : n = Len(seq)
  OBVIOUS
<1>2. PICK r : r = SubSeq(seq, 1, n - 1)
  OBVIOUS
<1>3. /\ r \in Seq(Messages)
      /\ Len(r) = IF 1 <= n - 1 THEN (n - 1) - 1 + 1 ELSE 0
      /\ \A i \in 1..(n - 1) - 1 + 1 : r[i] = seq[1 + i - 1]
  BY <1>1, <1>2, Slices
<1>4. Len(r) = IF n = 0 THEN 0 ELSE n - 1
  BY <1>3
<1>5. \A i \in 1..n - 1 : r[i] = seq[i]
  BY <1>3
<1>6. n = 0 <=> seq = <<>>
  BY <1>1, EmptySeq
<1>7. QED
  BY <1>1, <1>2, <1>3, <1>4, <1>5, <1>6 DEF Closed

\* What follows a message that all is posted up to.
LEMMA AfterLeads ==
  ASSUME TypeInv, NEW s \in Sessions, HistoryPosts(s), NEW t \in Known, Good(s, t)
  PROVE  Leads(s, Closed(After(history[s], t)))
<1>1. PICK h \in Seq(Messages) : h = history[s]
  BY DEF TypeInv, Shapes
<1>2. PICK a \in Seq(Messages) : a = After(h, t)
  BY Cuts
<1>3. PICK c \in Seq(Messages) : /\ c = Closed(a)
                                 /\ Len(c) = IF a = <<>> THEN 0 ELSE Len(a) - 1
                                 /\ \A i \in 1..Len(a) - 1 : c[i] = a[i]
  BY ClosedIs
<1>4. CASE a = <<>>
  BY <1>1, <1>2, <1>3, <1>4 DEF Leads
<1>5. CASE a # <<>>
  <2>1. PICK p \in 0..Len(h) : /\ p = 0 \/ h[p] = t
                               /\ Len(a) = Len(h) - p
                               /\ \A i \in 1..Len(h) - p : a[i] = h[p + i]
    BY <1>2, <1>5, AfterIs
  <2>2. PICK n \in Nat : n = Len(h)
    OBVIOUS
  <2>3. Len(c) = n - p - 1 /\ \A i \in 1..n - p - 1 : p + i \in 1..n /\ c[i] = h[p + i]
    <3>1. \A i \in 1..n - p - 1 : p + i \in 1..n /\ i \in 1..n - p
      BY <2>1, <2>2
    <3>2. QED
      BY <1>3, <1>5, <2>1, <2>2, <3>1
  <2>4. ASSUME NEW i \in 1..n - p - 1, NEW k \in ToSet(h), k < c[i]
        PROVE  k \in posted[s] \/ \E j \in 1..i - 1 : c[j] = k
    <3>1. PICK q \in 1..n : h[q] = k
      BY <2>2, Members
    <3>2. q < p + i
      BY <1>1, <2>2, <2>3, <2>4, <3>1, Ordered
    <3>3. CASE q <= p
      <4>1. p \in 1..n /\ h[p] = t
        BY <2>1, <2>2, <3>1, <3>3
      <4>2. k <= t
        BY <1>1, <2>2, <3>1, <3>3, <4>1, Ordered
      <4>3. QED
        BY <1>1, <4>2 DEF Good
    <3>4. CASE q > p
      <4>1. q - p \in 1..i - 1 /\ q - p \in 1..n - p - 1 /\ p + (q - p) = q
        BY <2>1, <3>1, <3>2, <3>4
      <4>2. c[q - p] = k
        BY <2>3, <3>1, <4>1
      <4>3. QED
        BY <4>1, <4>2
    <3>5. p \in Nat /\ q \in Nat
      BY <2>1, <3>1
    <3>6. QED
      BY <3>3, <3>4, <3>5
  <2>5. \A i \in 1..n - p - 1 : c[i] <= used.messages
    BY <1>1, <2>2, <2>3 DEF HistoryPosts
  <2>6. QED
    BY <1>1, <1>2, <1>3, <2>3, <2>4, <2>5 DEF Leads
<1>6. QED
  BY <1>4, <1>5

\* What is planned when a session is looked at.
LEMMA PlanLeads ==
  ASSUME TypeInv, NEW s \in Sessions, HistoryPosts(s)
  PROVE  Leads(s, Plan(s, history[s]))
<1>1. PICK h \in Seq(Messages) : h = history[s]
  BY DEF TypeInv, Shapes
<1>2. PICK f \in Seq(Messages) :
        /\ f = Plan(s, h)
        /\ ToSet(f) = ToSet(IF op[s].kind = "sweep" THEN h ELSE Closed(h)) \ posted[s]
        /\ \A i, j \in 1..Len(f) : i < j => f[i] < f[j]
  BY Planned
<1>3. PICK n \in Nat : n = Len(h)
  OBVIOUS
<1>4. PICK m \in 0..n :
        \A k : k \in ToSet(f) <=> (\E q \in 1..m : h[q] = k) /\ k \notin posted[s]
  <2>1. CASE op[s].kind = "sweep"
    <3>1. n \in 0..n /\ \A k : k \in ToSet(h) <=> \E q \in 1..n : h[q] = k
      BY <1>3, Members
    <3>2. QED
      BY <1>2, <2>1, <3>1
  <2>2. CASE op[s].kind # "sweep"
    <3>1. PICK c \in Seq(Messages) : /\ c = Closed(h)
                                     /\ Len(c) = IF h = <<>> THEN 0 ELSE n - 1
                                     /\ \A i \in 1..n - 1 : c[i] = h[i]
      BY <1>3, ClosedIs
    <3>2. PICK m \in 0..n : m = Len(c)
      BY <1>3, <3>1, EmptySeq
    <3>3. \A i \in 1..m : c[i] = h[i]
      BY <1>3, <3>1, <3>2, EmptySeq
    <3>4. \A k : k \in ToSet(c) <=> \E q \in 1..m : h[q] = k
      BY <3>2, <3>3, Members
    <3>5. QED
      BY <1>2, <2>2, <3>1, <3>4
  <2>3. QED
    BY <2>1, <2>2
<1>5. ASSUME NEW i \in 1..Len(f), NEW k \in ToSet(h), k < f[i]
      PROVE  k \in posted[s] \/ \E j \in 1..i - 1 : f[j] = k
  <2>1. f[i] \in ToSet(f) /\ f[i] \in Nat /\ Len(f) \in Nat
    BY Members
  <2>2. PICK r \in 1..m : h[r] = f[i]
    BY <1>4, <2>1
  <2>3. PICK q \in 1..n : h[q] = k
    BY <1>3, Members
  <2>4. r \in 1..n
    BY <2>2
  <2>5. q < r
    BY <1>1, <1>3, <1>5, <2>2, <2>3, <2>4, Ordered
  <2>6. q \in 1..m
    BY <2>2, <2>3, <2>5
  <2>7. ASSUME k \notin posted[s] PROVE \E j \in 1..i - 1 : f[j] = k
    <3>1. PICK j \in 1..Len(f) : f[j] = k
      BY <1>4, <2>3, <2>6, <2>7, Members
    <3>2. ~(i < j) /\ i # j
      <4>1. i < j => f[i] < f[j]
        BY <1>2
      <4>2. k \in Nat
        BY <3>1, Members
      <4>3. QED
        BY <1>5, <2>1, <3>1, <4>1, <4>2
    <3>3. j \in 1..i - 1
      BY <2>1, <3>2
    <3>4. QED
      BY <3>1, <3>3
  <2>8. QED
    BY <2>7
<1>6. ASSUME NEW i \in 1..Len(f) PROVE f[i] <= used.messages
  <2>1. f[i] \in ToSet(f)
    BY Members
  <2>2. PICK r \in 1..m : h[r] = f[i]
    BY <1>4, <2>1
  <2>3. r \in 1..n
    BY <2>2
  <2>4. QED
    BY <1>1, <1>3, <2>2, <2>3 DEF HistoryPosts
<1>7. QED
  BY <1>1, <1>2, <1>5, <1>6 DEF Leads

-----------------------------------------------------------------------------
(* The steps that plan, post, store a cursor or change a history.           *)

\* What is posted is as good as posted before, if its turn has come.
LEMMA ManifestIsGood ==
  ASSUME TypeInv, NEW s \in Sessions, HistoryPosts(s), NEW ids, ids \subseteq posted[s]
  PROVE  Good(s, Last0(ids))
<1>1. ids \subseteq Messages
  BY DEF TypeInv, Shapes
<1>2. PICK t : t = Last0(ids)
  OBVIOUS
<1>3. t \in ids \/ t = Nothing
  BY <1>1, <1>2, LastIsIn
<1>4. Good(s, t)
  BY <1>3, NoneIsGood DEF HistoryPosts
<1>5. QED
  BY <1>2, <1>4

LEMMA ReadManifestPosts ==
  ASSUME TypeInv, PostingInv, NEW s \in Sessions, ReadManifest(s)
  PROVE  PostingInv'
<1>1. PICK available \in BOOLEAN, committed \in SUBSET posted[s] :
       LET sums == IF available THEN committed ELSE summaries[s]
           last == IF available /\ sums # {} THEN Last0(sums) ELSE op[s].summarized IN
       /\ IF available THEN UNCHANGED used ELSE Trouble
       /\ summaries' = [summaries EXCEPT ![s] = sums]
       /\ Moves(s, [op[s] EXCEPT !.at = "history", !.manifest = available,
            !.summarized = last, !.through = Resumes(@, sums, op[s].seen, last)])
  BY DEF ReadManifest
<1>2. /\ HistoryPosts(s) /\ OpPosts(s, op[s]) /\ op[s] \in Op
      /\ summaries[s] \subseteq posted[s]
  BY DEF PostingInv, HistoryPosts, TypeInv, Shapes
<1>3. PICK sums \in SUBSET posted[s] : sums = IF available THEN committed ELSE summaries[s]
  BY <1>2
<1>4. PICK last : last = IF available /\ sums # {} THEN Last0(sums) ELSE op[s].summarized
  OBVIOUS
<1>5. Good(s, last)
  <2>1. Good(s, Last0(sums)) /\ Good(s, op[s].summarized)
    BY <1>2, ManifestIsGood DEF OpPosts
  <2>2. QED
    BY <1>4, <2>1
<1>6. PICK t : t = Resumes(op[s].through, sums, op[s].seen, last)
  OBVIOUS
<1>7. Good(s, t)
  <2>1. PICK ids : ids = sums \cap ToSet(op[s].seen)
    OBVIOUS
  <2>2. Good(s, Last0(ids)) /\ Good(s, op[s].through)
    BY <1>2, <2>1, ManifestIsGood DEF OpPosts
  <2>3. t \in {last, op[s].through, Last0(ids)}
    BY <1>6, <2>1 DEF Resumes
  <2>4. QED
    BY <1>5, <2>2, <2>3
<1>8. PICK o : o = [op[s] EXCEPT !.at = "history", !.manifest = available,
                                 !.summarized = last, !.through = t]
  OBVIOUS
<1>9. o.through = t /\ o.summarized = last /\ o.fresh = op[s].fresh
  BY <1>2, <1>8 DEF Op
<1>10. OpPosts(s, o)
  BY <1>2, <1>5, <1>7, <1>9 DEF OpPosts
<1>11. op' = [op EXCEPT ![s] = o]
  BY <1>1, <1>2, <1>3, <1>4, <1>6, <1>8 DEF Moves, Op
<1>12. UNCHANGED <<history, posted, stored>> /\ (Trouble \/ UNCHANGED used)
  BY <1>1 DEF ReadManifest, OnlyOp, hostVars, storeVars
<1>13. \A r \in Sessions : summaries'[r] \subseteq posted[r]
  <2>1. summaries' = [summaries EXCEPT ![s] = sums]
    BY <1>1, <1>3
  <2>2. \A r \in Sessions : summaries[r] \subseteq posted[r]
    BY DEF PostingInv, HistoryPosts
  <2>3. \A r \in Sessions : summaries'[r] = IF r = s THEN sums ELSE summaries[r]
    BY <2>1 DEF TypeInv, Shapes
  <2>4. QED
    BY <2>2, <2>3
<1>14. used'.messages = used.messages
  BY <1>12, TroubleTypes DEF TypeInv
<1>15. QED
  BY <1>10, <1>11, <1>12, <1>13, <1>14, MovedPosts

LEMMA PlansPosts ==
  ASSUME TypeInv, PostingInv, NEW s \in Sessions, ReadHistory(s) \/ UpdateCheck(s)
  PROVE  PostingInv'
<1>1. HistoryPosts(s) /\ OpPosts(s, op[s]) /\ op[s] \in Op /\ op[s].through \in Known
  BY DEF PostingInv, TypeInv, Shapes, Op
<1>2. PICK cut : /\ cut = Closed(After(history[s], op[s].through)) /\ Leads(s, cut)
  BY <1>1, AfterLeads DEF OpPosts
<1>3. PICK plan : plan = Plan(s, history[s]) /\ Leads(s, plan)
  BY <1>1, PlanLeads
<1>4. PICK f \in {cut, plan, <<>>, op[s].fresh} :
        \/ op' = [op EXCEPT ![s] = [op[s] EXCEPT !.at = "usage", !.seen = <<>>, !.manifest = FALSE,
                                                 !.fresh = f]]
        \/ op' = [op EXCEPT ![s] = [op[s] EXCEPT !.at = "usage", !.seen = <<>>, !.manifest = FALSE]]
        \/ op' = [op EXCEPT ![s] = [op[s] EXCEPT !.at = "posting", !.fresh = f]]
  <2>1. CASE UpdateCheck(s)
    BY <1>3, <2>1 DEF UpdateCheck, Moves
  <2>2. CASE ReadHistory(s)
    BY <1>2, <2>2 DEF ReadHistory, Moves
  <2>3. QED
    BY <2>1, <2>2
<1>5. Leads(s, f) /\ Leads(s, op[s].fresh)
  BY <1>1, <1>2, <1>3, NoneIsGood DEF OpPosts
<1>6. PICK o : /\ op' = [op EXCEPT ![s] = o]
               /\ o.through = op[s].through /\ o.summarized = op[s].summarized
               /\ o.fresh \in {f, op[s].fresh}
  <2>1. PICK a : a = [op[s] EXCEPT !.at = "usage", !.seen = <<>>, !.manifest = FALSE, !.fresh = f]
    OBVIOUS
  <2>2. PICK b : b = [op[s] EXCEPT !.at = "usage", !.seen = <<>>, !.manifest = FALSE]
    OBVIOUS
  <2>3. PICK c : c = [op[s] EXCEPT !.at = "posting", !.fresh = f]
    OBVIOUS
  <2>4. /\ a.through = op[s].through /\ a.summarized = op[s].summarized /\ a.fresh = f
        /\ b.through = op[s].through /\ b.summarized = op[s].summarized /\ b.fresh = op[s].fresh
        /\ c.through = op[s].through /\ c.summarized = op[s].summarized /\ c.fresh = f
    BY <1>1, <2>1, <2>2, <2>3 DEF Op
  <2>5. op' = [op EXCEPT ![s] = a] \/ op' = [op EXCEPT ![s] = b] \/ op' = [op EXCEPT ![s] = c]
    BY <1>4, <2>1, <2>2, <2>3
  <2>6. QED
    BY <2>4, <2>5
<1>7. OpPosts(s, o)
  BY <1>1, <1>5, <1>6 DEF OpPosts
<1>8. UNCHANGED <<history, posted, stored, summaries>> /\ (Trouble \/ UNCHANGED used)
  BY DEF ReadHistory, UpdateCheck, OnlyOp, hostVars, serverVars, storeVars
<1>9. used'.messages = used.messages
  BY <1>8, TroubleTypes DEF TypeInv
<1>10. \A r \in Sessions : summaries'[r] \subseteq posted[r]
  BY <1>8 DEF PostingInv, HistoryPosts
<1>11. QED
  BY <1>6, <1>7, <1>8, <1>9, <1>10, MovedPosts

LEMMA ApplyWritePosts ==
  ASSUME TypeInv, PostingInv, NEW w \in writes, ApplyWrite(w)
  PROVE  PostingInv'
<1>1. PICK x \in Sessions : x = w.session
  BY DEF TypeInv, Shapes, Write
<1>2. /\ StoredPosts(x, stored[x]) /\ OpPosts(x, op[x]) /\ stored[x] \in Stored
  BY DEF PostingInv, TypeInv, Shapes
<1>3. PICK c : c = Applied(w)
  OBVIOUS
<1>4. /\ c.through \in {stored[x].through, op[x].through, Nothing}
      /\ c.summarized \in {stored[x].summarized, op[x].summarized, Nothing}
  <2>1. CASE w.key = "usage"
    BY <1>1, <1>2, <1>3, <2>1 DEF Applied, Stored
  <2>2. CASE w.key # "usage" /\ w.set
    BY <1>1, <1>2, <1>3, <2>2 DEF Applied, Stored
  <2>3. CASE w.key # "usage" /\ ~w.set
    BY <1>1, <1>2, <1>3, <2>3 DEF Applied, NotStored
  <2>4. QED
    BY <2>1, <2>2, <2>3
<1>5. StoredPosts(x, c)
  BY <1>2, <1>4, NoneIsGood DEF StoredPosts, OpPosts
<1>6. /\ stored' = [stored EXCEPT ![x] = c]
      /\ UNCHANGED <<history, posted, op, summaries, used>>
  BY <1>1, <1>3 DEF ApplyWrite, hostVars, serverVars, tasks, marks
<1>7. ASSUME NEW r \in Sessions
      PROVE  /\ summaries'[r] \subseteq posted[r]
             /\ StoredPosts(r, stored'[r]) /\ OpPosts(r, op'[r])
  <2>1. StoredPosts(r, stored[r]) /\ OpPosts(r, op[r]) /\ HistoryPosts(r)
    BY DEF PostingInv
  <2>2. stored'[r] = IF r = x THEN c ELSE stored[r]
    BY <1>6 DEF TypeInv, Shapes
  <2>3. StoredPosts(r, stored'[r])
    BY <1>5, <2>1, <2>2
  <2>4. QED
    BY <1>6, <2>1, <2>3 DEF HistoryPosts
<1>8. QED
  BY <1>6, <1>7, Resting

\* A message is posted when its turn has come.
LEMMA MorePosted ==
  ASSUME TypeInv, PostingInv, NEW s \in Sessions, NEW m \in Messages, m <= used.messages,
         \A k \in ToSet(history[s]) : k < m => k \in posted[s],
         \/ posted' = posted
         \/ posted' = [posted EXCEPT ![s] = posted[s] \cup {m}],
         UNCHANGED <<history, stored, summaries>>, used'.messages = used.messages
  PROVE  /\ \A r \in Sessions : HistoryPosts(r)' /\ StoredPosts(r, stored[r])'
         /\ \A r \in Sessions : posted[r] \subseteq posted'[r]
         /\ \A r \in Sessions : \A t : Good(r, t) => Good(r, t)'
         /\ m \in posted'[s] => Good(s, m)'
<1>1. /\ \A r \in Sessions : posted[r] \subseteq posted'[r]
      /\ \A r \in Sessions \ {s} : posted'[r] = posted[r]
      /\ posted'[s] \subseteq posted[s] \cup {m}
  <2>1. PICK more : more = posted[s] \cup {m}
    OBVIOUS
  <2>2. posted' = posted \/ posted' = [posted EXCEPT ![s] = more]
    BY <2>1
  <2>3. posted \in [Sessions -> SUBSET Messages]
    BY DEF TypeInv, Shapes
  <2>4. \A r \in Sessions : posted'[r] = posted[r] \/ (r = s /\ posted'[r] = more)
    BY <2>2, <2>3
  <2>5. posted[s] \subseteq more
    BY <2>1
  <2>6. QED
    BY <2>1, <2>4, <2>5
<1>2. \A r \in Sessions : \A t : Good(r, t) => Good(r, t)'
  BY <1>1 DEF Good
<1>3. m \in posted'[s] => Good(s, m)'
  <2>1. ASSUME NEW k \in ToSet(history[s]), k <= m, m \in posted'[s] PROVE k \in posted'[s]
    <3>1. k \in Nat /\ m \in Nat
      BY Members, Sizes DEF TypeInv, Shapes
    <3>2. k = m \/ k < m
      BY <2>1, <3>1
    <3>3. QED
      BY <1>1, <2>1, <3>2
  <2>2. QED
    BY <2>1 DEF Good
<1>4. ASSUME NEW r \in Sessions PROVE HistoryPosts(r)'
  <2>1. HistoryPosts(r)
    BY DEF PostingInv
  <2>2. ASSUME NEW i \in posted'[r] PROVE Good(r, i)'
    <3>1. i \in posted[r] \/ (r = s /\ i = m)
      BY <1>1
    <3>2. QED
      BY <1>2, <1>3, <2>1, <3>1 DEF HistoryPosts
  <2>3. summaries'[r] \subseteq posted'[r]
    BY <1>1, <2>1 DEF HistoryPosts
  <2>4. QED
    BY <2>1, <2>2, <2>3 DEF HistoryPosts
<1>5. ASSUME NEW r \in Sessions PROVE StoredPosts(r, stored[r])'
  <2>1. Good(r, stored[r].through) /\ Good(r, stored[r].summarized)
    BY DEF PostingInv, StoredPosts
  <2>2. QED
    BY <1>2, <2>1 DEF StoredPosts, Good
<1>6. QED
  BY <1>1, <1>2, <1>3, <1>4, <1>5

LEMMA PostPosts ==
  ASSUME TypeInv, PostingInv, NEW s \in Sessions, Post(s) \/ PostFails(s)
  PROVE  PostingInv'
<1>1. /\ op[s] \in Op /\ OpPosts(s, op[s])
      /\ op[s].fresh \in Seq(Messages) /\ op[s].fresh # <<>>
  BY DEF TypeInv, Shapes, Op, Post, PostFails, PostingInv
<1>2. PICK f \in Seq(Messages) : f = op[s].fresh
  BY <1>1
<1>3. PICK m \in Messages : m = Head(f) /\ m = f[1] /\ 1 \in 1..Len(f)
  BY <1>1, <1>2, EmptySeq, HeadTailProperties
<1>4. PICK g \in Seq(Messages) : /\ g = Tail(f) /\ Len(g) = Len(f) - 1
                                 /\ \A i \in 1..Len(g) : g[i] = f[i + 1]
  <2>1. f # <<>>
    BY <1>1, <1>2
  <2>2. /\ Tail(f) \in Seq(Messages) /\ Len(Tail(f)) = Len(f) - 1
        /\ \A i \in 1..Len(Tail(f)) : Tail(f)[i] = f[i + 1]
    BY <2>1, HeadTailProperties
  <2>3. QED
    BY <2>2
<1>5. Leads(s, f)
  BY <1>1, <1>2 DEF OpPosts
<1>6. m <= used.messages /\ \A k \in ToSet(history[s]) : k < m => k \in posted[s]
  <2>1. ~\E j \in 1..1 - 1 : TRUE
    OBVIOUS
  <2>2. QED
    BY <1>3, <1>5, <2>1 DEF Leads
<1>7. /\ posted' = posted \/ posted' = [posted EXCEPT ![s] = posted[s] \cup {m}]
      /\ UNCHANGED <<history, stored, summaries>> /\ (Trouble \/ UNCHANGED used)
  BY <1>2, <1>3 DEF Post, PostFails, OnlyOp, hostVars, storeVars
<1>8. used'.messages = used.messages
  BY <1>7, TroubleTypes DEF TypeInv
<1>9. /\ \A r \in Sessions : HistoryPosts(r)' /\ StoredPosts(r, stored[r])'
      /\ \A r \in Sessions : posted[r] \subseteq posted'[r]
      /\ \A r \in Sessions : \A t : Good(r, t) => Good(r, t)'
      /\ m \in posted'[s] => Good(s, m)'
  BY <1>6, <1>7, <1>8, MorePosted
<1>10. ASSUME NEW r \in Sessions, r # s PROVE OpPosts(r, op[r])'
  <2>1. op'[r] = op[r]
    BY <1>10 DEF TypeInv, Shapes, Post, PostFails, Moves
  <2>2. OpPosts(r, op[r])
    BY DEF PostingInv
  <2>3. Leads(r, op[r].fresh)'
    BY <1>7, <1>8, <1>9, <2>1, <2>2 DEF OpPosts, Leads
  <2>4. Good(r, op[r].through)' /\ Good(r, op[r].summarized)'
    BY <1>9, <2>1, <2>2 DEF OpPosts, Good
  <2>5. QED
    BY <2>3, <2>4 DEF OpPosts
<1>11. OpPosts(s, op[s])'
  <2>1. CASE Post(s)
    <3>1. PICK o : o = Advanced(op[s])
      OBVIOUS
    <3>2. op'[s] = o
      BY <2>1, <3>1 DEF Post, Moves, TypeInv, Shapes
    <3>3. o.through = m /\ o.summarized = op[s].summarized /\ o.fresh = g
      BY <1>1, <1>2, <1>3, <1>4, <3>1 DEF Advanced, Op
    <3>4. m \in posted'[s]
      BY <1>2, <1>3, <2>1 DEF Post, TypeInv, Shapes
    <3>5. Good(s, m)' /\ Good(s, op[s].summarized)
      BY <1>1, <1>9, <3>4 DEF OpPosts
    <3>6. Good(s, o.through)' /\ Good(s, o.summarized)'
      BY <1>9, <3>3, <3>5
    <3>7. ASSUME NEW i \in 1..Len(g)
          PROVE  /\ g[i] <= used.messages
                 /\ \A k \in ToSet(history[s]) :
                      k < g[i] => k \in posted'[s] \/ \E j \in 1..i - 1 : g[j] = k
      <4>1. i + 1 \in 1..Len(f) /\ g[i] = f[i + 1] /\ i \in Nat /\ Len(g) \in Nat
        BY <1>4
      <4>2. ASSUME NEW k \in ToSet(history[s]), k < g[i], k \notin posted'[s]
            PROVE  \E j \in 1..i - 1 : g[j] = k
        <5>1. PICK j \in 1..(i + 1) - 1 : f[j] = k
          BY <1>5, <1>9, <4>1, <4>2 DEF Leads
        <5>2. j # 1
          BY <1>3, <3>4, <4>2, <5>1
        <5>3. j - 1 \in 1..i - 1 /\ j - 1 \in 1..Len(g) /\ (j - 1) + 1 = j
          BY <4>1, <5>1, <5>2
        <5>4. QED
          BY <1>4, <5>1, <5>3
      <4>3. QED
        BY <1>5, <4>1, <4>2 DEF Leads
    <3>8. Leads(s, g)'
      BY <1>7, <1>8, <3>7 DEF Leads
    <3>9. QED
      BY <3>2, <3>3, <3>6, <3>8 DEF OpPosts, Good
  <2>2. CASE PostFails(s)
    <3>1. PICK o : o = Deferred(op[s])
      OBVIOUS
    <3>2. op'[s] = o
      BY <2>2, <3>1 DEF PostFails, Moves, TypeInv, Shapes
    <3>3. o.through = op[s].through /\ o.summarized = op[s].summarized /\ o.fresh = <<>>
      BY <1>1, <3>1 DEF Deferred, Op
    <3>4. Good(s, o.through)' /\ Good(s, o.summarized)'
      BY <1>1, <1>9, <3>3 DEF OpPosts
    <3>5. QED
      BY <3>2, <3>3, <3>4 DEF OpPosts, Good, Leads
  <2>3. QED
    BY <2>1, <2>2
<1>12. QED
  BY <1>7, <1>9, <1>10, <1>11 DEF PostingInv

\* A history that loses messages.
LEMMA ShrinkingPosts ==
  ASSUME TypeInv, PostingInv, NEW s \in Sessions, Revert(s) \/ DeleteSession(s)
  PROVE  PostingInv'
<1>1. PICK h \in Seq(Messages) : h = history[s]
  BY DEF TypeInv, Shapes
<1>2. PICK g \in Seq(Messages) : /\ history' = [history EXCEPT ![s] = g] /\ Len(g) <= Len(h)
                                 /\ \A i \in 1..Len(g) : g[i] = h[i]
  <2>1. CASE Revert(s)
    <3>1. PICK k \in 0..Len(h) - 1 : history' = [history EXCEPT ![s] = SubSeq(h, 1, k)]
      BY <1>1, <2>1 DEF Revert
    <3>2. k \in Int /\ k <= Len(h)
      OBVIOUS
    <3>3. PICK g : g = SubSeq(h, 1, k)
      OBVIOUS
    <3>4. /\ g \in Seq(Messages) /\ Len(g) = IF 1 <= k THEN k - 1 + 1 ELSE 0
          /\ \A i \in 1..k - 1 + 1 : g[i] = h[1 + i - 1]
      BY <3>2, <3>3, Slices
    <3>5. Len(g) = k /\ \A i \in 1..k : g[i] = h[i]
      BY <3>4
    <3>6. QED
      BY <3>1, <3>2, <3>3, <3>4, <3>5
  <2>2. CASE DeleteSession(s)
    <3>1. PICK g \in Seq(Messages) : g = <<>> /\ Len(g) = 0
      BY EmptySeq
    <3>2. history' = [history EXCEPT ![s] = g]
      BY <2>2, <3>1 DEF DeleteSession
    <3>3. Len(g) <= Len(h) /\ \A i \in 1..Len(g) : g[i] = h[i]
      BY <3>1
    <3>4. QED
      BY <3>2, <3>3
  <2>3. QED
    BY <2>1, <2>2
<1>3. /\ UNCHANGED <<posted, stored, op>> /\ Trouble /\ summaries' = summaries
  BY DEF Revert, DeleteSession, serverVars, storeVars, tasks, marks
<1>4. used'.messages = used.messages
  BY <1>3, TroubleTypes DEF TypeInv
<1>5. \A r \in Sessions : history'[r] = IF r = s THEN g ELSE history[r]
  BY <1>2 DEF TypeInv, Shapes
<1>6. ToSet(g) \subseteq ToSet(h)
  <2>1. Len(g) \in Nat /\ Len(h) \in Nat
    OBVIOUS
  <2>2. ASSUME NEW k \in ToSet(g) PROVE k \in ToSet(h)
    <3>1. PICK i \in 1..Len(g) : g[i] = k
      BY Members
    <3>2. i \in 1..Len(h) /\ h[i] = k
      BY <1>2, <2>1, <3>1
    <3>3. QED
      BY <3>2, Members
  <2>3. QED
    BY <2>2
<1>7. \A r \in Sessions : ToSet(history'[r]) \subseteq ToSet(history[r])
  BY <1>1, <1>5, <1>6
<1>8. \A r \in Sessions : \A t : Good(r, t) => Good(r, t)'
  BY <1>3, <1>4, <1>7 DEF Good
<1>9. ASSUME NEW r \in Sessions
      PROVE  /\ \A i, j \in 1..Len(history'[r]) : i < j => history'[r][i] < history'[r][j]
             /\ \A i \in 1..Len(history'[r]) : history'[r][i] <= used.messages
  <2>1. HistoryPosts(r)
    BY DEF PostingInv
  <2>2. CASE r = s
    <3>1. \A i \in 1..Len(g) : i \in 1..Len(h) /\ g[i] = h[i]
      BY <1>2
    <3>2. history'[r] = g
      BY <1>5, <2>2
    <3>3. QED
      BY <1>1, <2>1, <2>2, <3>1, <3>2 DEF HistoryPosts
  <2>3. CASE r # s
    BY <1>5, <2>1, <2>3 DEF HistoryPosts
  <2>4. QED
    BY <2>2, <2>3
<1>10. ASSUME NEW r \in Sessions
       PROVE  HistoryPosts(r)' /\ StoredPosts(r, stored[r])' /\ OpPosts(r, op[r])'
  <2>1. HistoryPosts(r) /\ StoredPosts(r, stored[r]) /\ OpPosts(r, op[r])
    BY DEF PostingInv
  <2>2. HistoryPosts(r)'
    BY <1>3, <1>4, <1>8, <1>9, <2>1 DEF HistoryPosts
  <2>3. StoredPosts(r, stored[r])'
    BY <1>3, <1>8, <2>1 DEF StoredPosts
  <2>4. Leads(r, op[r].fresh)'
    BY <1>3, <1>4, <1>7, <2>1 DEF OpPosts, Leads
  <2>5. Good(r, op[r].through)' /\ Good(r, op[r].summarized)'
    BY <1>3, <1>8, <2>1 DEF OpPosts
  <2>6. QED
    BY <2>2, <2>3, <2>4, <2>5 DEF OpPosts
<1>11. QED
  BY <1>10 DEF PostingInv

\* A message that comes is later than all that is posted or left to post.
LEMMA CallHookPosts ==
  ASSUME TypeInv, PostingInv, NEW s \in Sessions, CallHook(s)
  PROVE  PostingInv'
<1>1. PICK n \in 0..MaxMessages : n = used.messages
  BY DEF TypeInv, Shapes
<1>2. PICK m \in Messages : m = n + 1 /\ used'.messages = m
  <2>1. n \in Nat /\ n < MaxMessages /\ MaxMessages \in Nat
    BY <1>1, Sizes DEF CallHook
  <2>2. used' = [used EXCEPT !.messages = n + 1]
    BY <1>1 DEF CallHook
  <2>3. n + 1 \in Messages
    BY <2>1 DEF Messages
  <2>4. used'.messages = n + 1
    BY <2>2 DEF TypeInv, Shapes
  <2>5. QED
    BY <2>3, <2>4
<1>3. PICK h \in Seq(Messages) : h = history[s]
  BY DEF TypeInv, Shapes
<1>4. PICK g \in Seq(Messages) : /\ g = Append(h, m) /\ Len(g) = Len(h) + 1
                                 /\ \A i \in 1..Len(h) : g[i] = h[i]
                                 /\ g[Len(h) + 1] = m
  BY AppendProperties
<1>5. history' = [history EXCEPT ![s] = g]
  BY <1>2, <1>3, <1>4 DEF CallHook
<1>6. UNCHANGED <<posted, stored, op, summaries>>
  BY DEF CallHook, serverVars, storeVars
<1>7. \A r \in Sessions : history'[r] = IF r = s THEN g ELSE history[r]
  BY <1>5 DEF TypeInv, Shapes
<1>8. ASSUME NEW r \in Sessions, NEW k \in ToSet(history'[r]) PROVE k \in ToSet(history[r]) \/ k = m
  <2>1. CASE r = s
    <3>1. PICK i \in 1..Len(g) : g[i] = k
      BY <1>7, <1>8, <2>1, Members
    <3>2. Len(h) \in Nat /\ (i = Len(h) + 1 \/ i \in 1..Len(h))
      BY <1>4
    <3>3. CASE i = Len(h) + 1
      BY <1>4, <3>1, <3>3
    <3>4. CASE i \in 1..Len(h)
      <4>1. h[i] = k
        BY <1>4, <3>1, <3>4
      <4>2. k \in ToSet(h)
        BY <3>4, <4>1, Members
      <4>3. QED
        BY <1>3, <2>1, <4>2
    <3>5. QED
      BY <3>2, <3>3, <3>4
  <2>2. CASE r # s
    BY <1>7, <1>8, <2>2
  <2>3. QED
    BY <2>1, <2>2
<1>9. ASSUME NEW r \in Sessions, NEW t \in Known, Good(r, t) PROVE Good(r, t)'
  <2>1. t \in Nat /\ t <= n
    BY <1>1, <1>9, Sizes DEF Good, Known, Nothing
  <2>2. t <= m /\ ~(m <= t)
    BY <1>1, <1>2, <2>1
  <2>3. QED
    BY <1>2, <1>6, <1>8, <1>9, <2>2 DEF Good
<1>10. ASSUME NEW r \in Sessions, NEW f \in Seq(Messages), Leads(r, f) PROVE Leads(r, f)'
  <2>1. ASSUME NEW i \in 1..Len(f)
        PROVE  /\ f[i] <= m
               /\ \A k \in ToSet(history'[r]) :
                    k < f[i] => k \in posted[r] \/ \E j \in 1..i - 1 : f[j] = k
    <3>1. f[i] \in Nat /\ f[i] <= n
      BY <1>1, <1>10, Members DEF Leads
    <3>2. f[i] <= m /\ ~(m < f[i])
      BY <1>1, <1>2, <3>1
    <3>3. QED
      BY <1>8, <1>10, <3>2 DEF Leads
  <2>2. QED
    BY <1>2, <1>6, <2>1 DEF Leads
<1>11. ASSUME NEW r \in Sessions PROVE HistoryPosts(r)'
  <2>1. HistoryPosts(r)
    BY DEF PostingInv
  <2>2. \A i \in posted[r] : Good(r, i)'
    <3>1. posted[r] \subseteq Known
      BY DEF TypeInv, Shapes, Known
    <3>2. QED
      BY <1>9, <2>1, <3>1 DEF HistoryPosts
  <2>3. CASE r = s
    <3>1. \A i \in 1..Len(h) : h[i] \in Nat /\ h[i] <= n
      BY <1>1, <1>3, <2>1, <2>3, Members DEF HistoryPosts
    <3>2. \A i \in 1..Len(g) : (i \in 1..Len(h) /\ g[i] = h[i]) \/ (i = Len(h) + 1 /\ g[i] = m)
      <4>1. Len(h) \in Nat
        OBVIOUS
      <4>2. QED
        BY <1>4, <4>1
    <3>3. \A i \in 1..Len(g) : g[i] <= m
      BY <1>1, <1>2, <3>1, <3>2
    <3>4. ASSUME NEW i \in 1..Len(g), NEW j \in 1..Len(g), i < j PROVE g[i] < g[j]
      <4>1. i \in 1..Len(h) /\ g[i] = h[i]
        BY <1>4, <3>2, <3>4
      <4>2. CASE j \in 1..Len(h)
        <5>1. h[i] < h[j] /\ g[j] = h[j]
          BY <1>3, <1>4, <2>1, <2>3, <3>4, <4>1, <4>2 DEF HistoryPosts
        <5>2. QED
          BY <4>1, <5>1
      <4>3. CASE j \notin 1..Len(h)
        <5>1. g[j] = m /\ h[i] \in Nat /\ h[i] <= n
          BY <3>1, <3>2, <4>1, <4>3
        <5>2. QED
          BY <1>1, <1>2, <4>1, <5>1
      <4>4. QED
        BY <4>2, <4>3
    <3>5. history'[r] = g
      BY <1>7, <2>3
    <3>6. QED
      BY <1>2, <1>6, <2>1, <2>2, <3>3, <3>4, <3>5 DEF HistoryPosts
  <2>4. CASE r # s
    <3>1. history'[r] = history[r] /\ history[r] \in Seq(Messages)
      BY <1>7, <2>4 DEF TypeInv, Shapes
    <3>2. ASSUME NEW i \in 1..Len(history[r]) PROVE history[r][i] <= m
      <4>1. history[r][i] \in Nat /\ history[r][i] <= n
        BY <1>1, <2>1, <3>1, Members DEF HistoryPosts
      <4>2. QED
        BY <1>1, <1>2, <4>1
    <3>3. QED
      BY <1>2, <1>6, <2>1, <2>2, <3>1, <3>2 DEF HistoryPosts
  <2>5. QED
    BY <2>3, <2>4
<1>12. ASSUME NEW r \in Sessions PROVE StoredPosts(r, stored[r])' /\ OpPosts(r, op[r])'
  <2>1. StoredPosts(r, stored[r]) /\ OpPosts(r, op[r])
    BY DEF PostingInv
  <2>2. /\ stored[r].through \in Known /\ stored[r].summarized \in Known
        /\ op[r].through \in Known /\ op[r].summarized \in Known /\ op[r].fresh \in Seq(Messages)
    BY DEF TypeInv, Shapes, Stored, Op
  <2>3. Good(r, stored[r].through)' /\ Good(r, stored[r].summarized)'
    BY <1>6, <1>9, <2>1, <2>2 DEF StoredPosts
  <2>4. Good(r, op[r].through)' /\ Good(r, op[r].summarized)' /\ Leads(r, op[r].fresh)'
    BY <1>6, <1>9, <1>10, <2>1, <2>2 DEF OpPosts
  <2>5. QED
    BY <2>3, <2>4 DEF StoredPosts, OpPosts
<1>13. QED
  BY <1>11, <1>12 DEF PostingInv

LEMMA PostingBegins ==
  ASSUME Init
  PROVE  PostingInv
<1>1. TypeInv
  BY TypesBegin
<1>2. /\ used.messages = LastSession * Existing
      /\ \A s \in Sessions : /\ posted[s] = {} /\ summaries[s] = {}
                             /\ stored[s] = NotStored /\ op[s] = NoOp
  BY DEF Init, Each
<1>3. ASSUME NEW s \in Sessions PROVE HistoryPosts(s)
  <2>1. PICK h \in Seq(Messages) : h = history[s]
    BY <1>1 DEF TypeInv, Shapes
  <2>2. /\ Len(h) = Existing
        /\ \A i \in 1..Existing : /\ h[i] = (s - 1) * Existing + i
                                  /\ h[i] \in 1..LastSession * Existing
    BY <2>1, Numbered
  <2>3. PICK base \in Int : base = (s - 1) * Existing
    BY Sizes DEF Sessions
  <2>4. PICK n \in Int : n = LastSession * Existing
    BY Sizes
  <2>5. \A i \in 1..Existing : h[i] = base + i /\ h[i] <= n
    BY <2>2, <2>3, <2>4
  <2>6. \A i, j \in 1..Existing : i < j => h[i] < h[j]
    BY <2>3, <2>5
  <2>7. QED
    BY <1>2, <2>1, <2>2, <2>4, <2>5, <2>6 DEF HistoryPosts
<1>4. ASSUME NEW s \in Sessions PROVE StoredPosts(s, stored[s]) /\ OpPosts(s, op[s])
  <2>1. Good(s, Nothing) /\ Leads(s, <<>>)
    BY <1>1, NoneIsGood
  <2>2. QED
    BY <1>2, <2>1, Records DEF StoredPosts, OpPosts
<1>5. QED
  BY <1>3, <1>4 DEF PostingInv

LEMMA PostingStep ==
  ASSUME TypeInv, PostingInv, [Next]_vars
  PROVE  PostingInv'
<1>1. ASSUME NEW s \in Sessions, SessionStep(s) PROVE PostingInv'
  <2>1. CASE \/ CallHook(s) \/ Revert(s) \/ DeleteSession(s) \/ ReadManifest(s)
             \/ ReadHistory(s) \/ UpdateCheck(s) \/ Post(s) \/ PostFails(s) \/ Timeout(s)
    BY <2>1, CallHookPosts, ShrinkingPosts, ReadManifestPosts, PlansPosts, PostPosts, AbortedPosts
  <2>2. CASE \/ EndRun(s) \/ IdleForgotten(s) \/ RemoveState(s) \/ Removed(s) \/ Refuse(s)
             \/ \E by \in {"cleanup", "delete"} : RemovalExpires(s, by)
    BY <2>2, AsidePosts
  <2>3. CASE \/ Answer(s) \/ Cleaned(s) \/ UpdateSkips(s) \/ UpdateDone(s) \/ OperationFails(s)
             \/ AwaitRegistry(s) \/ UsageStored(s) \/ StoreCursor(s) \/ UpdateRead(s)
             \/ Begin(s) \/ ReadCursor(s)
    BY <2>3, FinishPosts, GoesOnPosts
  <2>4. QED
    BY <1>1, <2>1, <2>2, <2>3 DEF SessionStep
<1>2. ASSUME PluginStep PROVE PostingInv'
  <2>1. CASE SweepList \/ SweepVisits \/ SweepEnds \/ RegistryAttempt \/ StreamFails \/ Disposed
    BY <2>1, AsidePosts
  <2>2. ASSUME NEW w \in writes, ApplyWrite(w) \/ WriteFails(w) PROVE PostingInv'
    BY <2>2, ApplyWritePosts, WriteFailsPosts
  <2>3. CASE SweepTimeout \/ Listen \/ Dispose \/ Reload \/ Crash
    BY <2>3, AbortedPosts, RestartPosts
  <2>4. QED
    BY <1>2, <2>1, <2>2, <2>3 DEF PluginStep
<1>3. CASE UNCHANGED vars
  <2>1. Calm
    BY <1>3 DEF Calm, vars, hostVars, serverVars, storeVars, tasks, marks
  <2>2. QED
    BY <2>1, CalmPosts
<1>4. QED
  BY <1>1, <1>2, <1>3, Steps

\* PostingInv holds: what is posted has no gaps, in whatever order projections,
\* passes, reverts and restarts follow each other.
THEOREM PostingHasNoGaps == Spec => [](TypeInv /\ PostingInv)
<1>1. Init => TypeInv /\ PostingInv
  BY TypesBegin, PostingBegins
<1>2. TypeInv /\ PostingInv /\ [Next]_vars => (TypeInv /\ PostingInv)'
  BY TypesStep, PostingStep
<1>3. QED
  BY <1>1, <1>2, PTL DEF Spec

\* All messages up to the one that a stored cursor names are posted, across
\* failed posts, aborts, reverts, summaries of removed messages and crashes.
THEOREM CursorNeverOvertakes == Spec => []CursorIsPosted
<1>1. ASSUME TypeInv, PostingInv PROVE CursorIsPosted
  <2>1. ASSUME NEW s \in Sessions, NEW t, t = stored[s].through, t \in ToSet(history[s])
        PROVE  ToSet(UpTo(history[s], t)) \subseteq posted[s]
    <3>1. PICK h \in Seq(Messages) : h = history[s]
      BY <1>1 DEF TypeInv, Shapes
    <3>2. PICK n \in Nat : n = Len(h) /\ DOMAIN h = 1..n
      OBVIOUS
    <3>3. \E i \in DOMAIN h : h[i] = t
      BY <2>1, <3>1, <3>2, Members
    <3>4. PICK p \in 1..n : p = (CHOOSE i \in DOMAIN h : h[i] = t) /\ h[p] = t
      BY <3>2, <3>3
    <3>5. PICK g \in Seq(Messages) : /\ g = SubSeq(h, 1, p) /\ Len(g) = p
                                     /\ \A i \in 1..p : g[i] = h[i]
      <4>1. p \in Int /\ p <= Len(h) /\ 1 <= p /\ p - 1 + 1 = p
        BY <3>2
      <4>2. PICK g : g = SubSeq(h, 1, p)
        OBVIOUS
      <4>3. /\ g \in Seq(Messages) /\ Len(g) = IF 1 <= p THEN p - 1 + 1 ELSE 0
            /\ \A i \in 1..p - 1 + 1 : g[i] = h[1 + i - 1]
        BY <4>1, <4>2, Slices
      <4>4. Len(g) = p /\ \A i \in 1..p : g[i] = h[i]
        BY <4>1, <4>3
      <4>5. QED
        BY <4>2, <4>3, <4>4
    <3>6. ASSUME NEW k \in ToSet(g) PROVE k \in posted[s]
      <4>0. \E i \in 1..Len(g) : g[i] = k
        BY Members
      <4>1. PICK i \in 1..p : h[i] = k
        BY <3>5, <4>0
      <4>2. i \in 1..n /\ i <= p
        BY <3>4
      <4>3. k <= t
        BY <1>1, <3>1, <3>2, <3>4, <4>1, <4>2, Ordered DEF PostingInv
      <4>4. k \in ToSet(h)
        BY <3>2, <4>1, <4>2, Members
      <4>5. QED
        BY <1>1, <2>1, <3>1, <4>3, <4>4 DEF PostingInv, StoredPosts, Good
    <3>7. UpTo(history[s], t) = g
      BY <3>1, <3>4, <3>5 DEF UpTo
    <3>8. QED
      BY <3>6, <3>7
  <2>2. QED
    BY <2>1 DEF CursorIsPosted
<1>2. QED
  BY <1>1, PostingHasNoGaps, PTL

-----------------------------------------------------------------------------
(* Events and their rounds.                                                 *)

\* The head of a queue is an idle entry.
LEMMA HeadPass ==
  ASSUME TypeInv, NEW s \in Sessions, queue[s] # <<>>, Head(queue[s]).kind = "idle", ~leaving[s]
  PROVE  idle[s] \in {"clean", "dirty"} /\ Head(queue[s]).live
<1>1. queue[s] \in Seq(Item) /\ QueueFits(s) /\ idle[s] \in {"none", "clean", "dirty"}
  BY DEF TypeInv, Shapes
<1>2. NoPass(queue[s]) => Head(queue[s]).kind # "idle"
  BY <1>1, Popped
<1>3. OnePass(queue[s]) => Head(queue[s]).live
  BY <1>1, Popped
<1>4. QED
  BY <1>1, <1>2, <1>3 DEF QueueFits

\* What a pass may settle with.
Rounded(s) == \/ idle[s] = "clean" /\ op[s].kind = "idle" /\ op[s].at # "none"
              \/ Unavailable(s)

LEMMA SettlesRounded ==
  ASSUME TypeInv, NEW s \in Sessions, Settle(s), queue[s] # <<>>,
         \/ Refuse(s)
         \/ op[s].at # "none" /\ ~(op[s].kind = "idle" /\ Repeats(s)),
         NEW r \in Sessions, ~leaving[r], leaving'[r]
  PROVE  Rounded(r)
<1>1. r = s /\ Head(queue[s]).kind = "idle"
  <2>1. leaving' = [leaving EXCEPT ![s] = leaving[s] \/ Head(queue[s]).kind = "idle"]
    BY DEF Settle
  <2>2. leaving \in [Sessions -> BOOLEAN]
    BY DEF TypeInv, Shapes
  <2>3. r = s
    BY <2>1, <2>2
  <2>4. QED
    BY <2>1, <2>2, <2>3
<1>2. idle[s] \in {"clean", "dirty"} /\ Head(queue[s]).live
  BY <1>1, HeadPass
<1>3. CASE Refuse(s)
  BY <1>1, <1>2, <1>3 DEF Refuse, Rounded
<1>4. CASE ~Refuse(s)
  <2>1. op[s].at # "none" /\ op[s].kind = "idle"
    BY <1>1, <1>4 DEF TypeInv, QueueFits
  <2>2. QED
    BY <1>1, <1>2, <1>4, <2>1 DEF Repeats, Rounded
<1>5. QED
  BY <1>3, <1>4

LEMMA FinishRounded ==
  ASSUME TypeInv, NEW s \in Sessions, NEW submitted \in BOOLEAN, Finish(s, submitted),
         op[s].at # "none", NEW r \in Sessions, ~leaving[r], leaving'[r]
  PROVE  Rounded(r)
<1>1. queue[s] # <<>>
  BY DEF TypeInv, QueueFits
<1>2. CASE op[s].kind = "idle" /\ Repeats(s)
  BY <1>2 DEF Finish
<1>3. CASE ~(op[s].kind = "idle" /\ Repeats(s))
  <2>1. Settle(s)
    BY <1>3 DEF Finish
  <2>2. QED
    BY <1>1, <1>3, <2>1, SettlesRounded
<1>4. QED
  BY <1>2, <1>3

LEMMA RoundedStep ==
  ASSUME TypeInv, [Next]_vars, NEW r \in Sessions, ~leaving[r], leaving'[r]
  PROVE  Rounded(r)
<1>1. ASSUME NEW s \in Sessions,
             \/ Answer(s) \/ Cleaned(s) \/ UpdateSkips(s) \/ UpdateDone(s)
             \/ OperationFails(s) /\ op[s].at # "usage"
      PROVE  Rounded(r)
  <2>1. PICK yes \in BOOLEAN, no \in BOOLEAN : yes = TRUE /\ no = FALSE
    OBVIOUS
  <2>2. Finish(s, yes) \/ Finish(s, no)
    BY <1>1, <2>1 DEF Answer, Cleaned, UpdateSkips, UpdateDone, OperationFails
  <2>3. op[s].at # "none"
    BY <1>1 DEF Answer, Cleaned, UpdateSkips, UpdateDone, OperationFails, Project, Update
  <2>4. QED
    BY <2>2, <2>3, FinishRounded
<1>2. ASSUME NEW s \in Sessions, Refuse(s) PROVE Rounded(r)
  <2>1. Settle(s) /\ queue[s] # <<>>
    BY <1>2 DEF Refuse
  <2>2. QED
    BY <1>2, <2>1, SettlesRounded
<1>3. ASSUME NEW s \in Sessions, SessionStep(s) PROVE Rounded(r)
  <2>1. CASE \/ CallHook(s) \/ EndRun(s) \/ Revert(s) \/ DeleteSession(s) \/ Begin(s)
             \/ AwaitRegistry(s) \/ RemoveState(s) \/ Removed(s) \/ Timeout(s)
             \/ \E by \in {"cleanup", "delete"} : RemovalExpires(s, by)
    BY <2>1 DEF CallHook, EndRun, Revert, DeleteSession, Begin, AwaitRegistry, RemoveState,
       Removed, Timeout, RemovalExpires, marks
  <2>2. CASE \/ ReadCursor(s) \/ ReadManifest(s) \/ ReadHistory(s) \/ UsageStored(s) \/ Post(s)
             \/ PostFails(s) \/ StoreCursor(s) \/ UpdateRead(s) \/ UpdateCheck(s)
             \/ OperationFails(s) /\ op[s].at = "usage"
    BY <2>2 DEF ReadCursor, ReadManifest, ReadHistory, UsageStored, Post, PostFails, StoreCursor,
       UpdateRead, UpdateCheck, OperationFails, OnlyOp
  <2>3. CASE IdleForgotten(s)
    BY <2>3 DEF IdleForgotten, TypeInv, Shapes
  <2>4. QED
    BY <1>1, <1>2, <1>3, <2>1, <2>2, <2>3 DEF SessionStep
<1>4. ASSUME PluginStep PROVE Rounded(r)
  <2>1. CASE Reload \/ Crash
    BY <2>1 DEF Reload, Crash, Setup, Each
  <2>2. CASE ~(Reload \/ Crash)
    BY <1>4, <2>2 DEF PluginStep, SweepList, SweepVisits, SweepEnds, SweepTimeout, ApplyWrite,
       WriteFails, RegistryAttempt, StreamFails, Listen, Dispose, Disposed,
       OnlySweep, OnlyRegistry, marks
  <2>3. QED
    BY <2>1, <2>2
<1>5. CASE UNCHANGED vars
  BY <1>5 DEF vars, marks
<1>6. QED
  BY <1>3, <1>4, <1>5, Steps

\* No idle event that comes before its pass has settled goes without a round,
\* however many events, operations and aborts there are.
THEOREM EventsHaveTheirRound == Spec => EventsAreIngested
<1>1. ASSUME TypeInv, [Next]_vars
      PROVE  \A s \in Sessions : ~leaving[s] /\ leaving'[s] =>
               \/ idle[s] = "clean" /\ op[s].kind = "idle" /\ op[s].at # "none"
               \/ Unavailable(s)
  BY <1>1, RoundedStep DEF Rounded
<1>2. QED
  BY <1>1, SessionTypesHold, PTL DEF Spec, EventsAreIngested

=============================================================================
