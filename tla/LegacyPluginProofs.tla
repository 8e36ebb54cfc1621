------------------------- MODULE LegacyPluginProofs -------------------------
(***************************************************************************)
(* The safety of a session of the v1 plugin, proved for all histories and  *)
(* bounds: TypeOK, EventsAreHeld and DeletedLeavesNothing.                 *)
(*                                                                         *)
(* LegacyInv says what fits together in the chain of target updates: an    *)
(* operation posts a segment of the plan it has read, only a sweep is      *)
(* aborted by itself, a pass has an operation in the chain, and an event   *)
(* that nobody looked after is held by one of them.                        *)
(***************************************************************************)
EXTENDS LegacyPlugin, SequenceTheorems, FiniteSetTheorems, WellFoundedInduction, TLAPS

Submission == [text : Texts, priority : {0, 50, 100}]
Host       == [texts : Histories, tail : Tails, busy : BOOLEAN,
               inactive : BOOLEAN, events : 0..2]
Used       == [runs : 0..MaxRuns, projections : 0..MaxProjections,
               troubles : 0..MaxTroubles]
Revisions  == 0..MaxRuns \cup {None}

(* What an update posts is a segment of its plan; only a sweep is aborted. *)
Fits(update) ==
  /\ update.at \in {"post", "retry"} => update.next \in 1..Len(update.plan)
  /\ update.aborted => update.kind = "sweep"

(* The chain has an idle pass, and one that is still to look. *)
HasPass(chain)  == \E k \in 1..Len(chain) : chain[k].kind = "idle"
HasFresh(chain) == \E k \in 1..Len(chain) : chain[k].kind = "idle" /\ chain[k].at = "status"

(* A chain whose entries fit. *)
Chain(chain) == chain \in Seq(Update) /\ \A k \in 1..Len(chain) : Fits(chain[k])

ServerTypes ==
  /\ target \in [Spans -> Texts \cup {None}] /\ memory \in [Spans -> Texts \cup {None}]
  /\ failed \subseteq Spans /\ \A n \in failed : target[n] # None
CacheTypes ==
  /\ cached \in [Spans -> Submission \cup {None}]
  /\ retried \in [Spans -> Texts \cup {None}]
ViewTypes ==
  /\ host \in Host /\ late \subseteq {"post", "retry"} \X Spans \X Texts
  /\ projection \in BOOLEAN /\ projected \in BOOLEAN /\ deleted \in BOOLEAN
  /\ owed \in BOOLEAN /\ used \in Used
TaskTypes ==
  /\ Chain(updates) /\ pass \in {"none", "clean", "dirty"}
  /\ sweep \in Revisions /\ checked \in Revisions
  /\ pass # "none" => HasPass(updates)

(* Somebody will look. *)
Watched == deleted \/ pass = "dirty" \/ HasFresh(updates)

LegacyInv ==
  ServerTypes /\ CacheTypes /\ ViewTypes /\ TaskTypes /\ (owed => Watched)

-----------------------------------------------------------------------------
(* The constants.                                                          *)

\* Every non-empty set of numbers has a least one.
LEMMA Least ==
  ASSUME NEW T, T \subseteq Nat, T # {}
  PROVE  \E x \in T : \A y \in T : x <= y
<1> DEFINE R == OpToRel(<, Nat)
<1>1. \A x, y \in Nat : <<y, x>> \in R <=> y < x
  BY DEF OpToRel
<1>2. IsWellFoundedOn(R, Nat)
  BY NatLessThanWellFounded
<1> HIDE DEF R
<1>3. PICK x \in T : \A y \in T : ~(<<y, x>> \in R)
  BY <1>2, WFMin
<1>4. ASSUME NEW y \in T PROVE x <= y
  <2>1. x \in Nat /\ y \in Nat
    OBVIOUS
  <2>2. ~(y < x)
    BY <1>1, <1>3, <2>1
  <2>3. QED
    BY <2>1, <2>2
<1>5. QED
  BY <1>4

\* Finitely many histories have a bound on their lengths: the first of them
\* that has none with those before it would be the least counterexample.
LEMMA LengthsAreBounded ==
  \E b \in Nat : \A texts \in Histories : Len(texts) <= b
<1>1. \A texts \in Histories : Len(texts) \in Nat
  BY LegacyAssumption, LenProperties
<1>2. PICK n \in Nat : \E f : f \in Surjection(1..n, Histories)
  <2>1. IsFiniteSet(Histories)
    BY LegacyAssumption
  <2>2. \E n \in Nat : ExistsBijection(1..n, Histories)
    BY <2>1, FS_NatBijection
  <2>3. QED
    BY <2>2 DEF ExistsBijection, Bijection
<1>3. PICK f : f \in [1..n -> Histories] /\ \A texts \in Histories : \E i \in 1..n : f[i] = texts
  BY <1>2 DEF Surjection
<1> DEFINE Bounds(k, b) == \A i \in 1..k : Len(f[i]) <= b
           T == {k \in 0..n : ~ \E b \in Nat : Bounds(k, b)}
<1>4. T = {}
  <2>1. SUFFICES ASSUME T # {} PROVE FALSE
    OBVIOUS
  <2>0. n \in Nat /\ T \subseteq Nat
    BY <1>2
  <2>2. PICK k \in T : \A m \in T : k <= m
    <3> HIDE DEF T
    <3>1. QED
      BY <2>0, <2>1, Least
  <2>3. k # 0
    <3>1. Bounds(0, 0)
      OBVIOUS
    <3>2. QED
      BY <3>1
  <2>4. k - 1 \in 0..n /\ k \in 1..n /\ ~(k <= k - 1)
    BY <2>0, <2>3
  <2>5. PICK b \in Nat : Bounds(k - 1, b)
    <3>1. k - 1 \notin T
      BY <2>2, <2>4
    <3>2. QED
      BY <2>4, <3>1
  <2>6. PICK l \in Nat : l = Len(f[k])
    BY <1>1, <1>3, <2>4
  <2>7. PICK c \in Nat : b <= c /\ l <= c
    <3>1. b \in Nat /\ l \in Nat /\ b + l \in Nat /\ b <= b + l /\ l <= b + l
      OBVIOUS
    <3>2. QED
      BY <3>1
  <2>8. Bounds(k, c)
    <3>1. ASSUME NEW i \in 1..k PROVE Len(f[i]) <= c
      <4>1. CASE i = k
        BY <2>6, <2>7, <4>1
      <4>2. CASE i # k
        <5>1. i \in 1..k - 1 /\ i \in 1..n
          BY <2>4, <4>2
        <5>2. Len(f[i]) \in Nat
          BY <1>1, <1>3, <5>1
        <5>3. QED
          BY <2>5, <2>7, <5>1, <5>2
      <4>3. QED
        BY <4>1, <4>2
    <3>2. QED
      BY <3>1
  <2>9. QED
    BY <2>8
<1>5. PICK b \in Nat : Bounds(n, b)
  <2>1. n \in 0..n
    BY <1>2
  <2>2. QED
    BY <1>4, <2>1
<1>6. QED
  BY <1>3, <1>5

\* The longest history has LastSpan segments.
LEMMA Spanned ==
  /\ LastSpan \in Nat \ {0}
  /\ \A texts \in Histories :
       /\ texts \in Seq(Texts) /\ Len(texts) \in 1..LastSpan
       /\ DOMAIN texts = 1..Len(texts)
<1> DEFINE Lens == {Len(texts) : texts \in Histories}
           T == {b \in Nat : \A l \in Lens : l <= b}
<1>1. \A texts \in Histories :
        texts \in Seq(Texts) /\ Len(texts) \in Nat \ {0} /\ DOMAIN texts = 1..Len(texts)
  BY LegacyAssumption, LenProperties, EmptySeq
<1>2. Lens \subseteq Nat \ {0} /\ Lens # {}
  BY <1>1, LegacyAssumption
<1>3. T # {}
  <2>1. PICK b \in Nat : \A texts \in Histories : Len(texts) <= b
    BY LengthsAreBounded
  <2>2. b \in T
    BY <2>1
  <2>3. QED
    BY <2>2
<1> HIDE DEF Lens
<1>4. PICK x \in T : \A y \in T : x <= y
  BY <1>3, Least
<1>5. x \in Lens
  <2>1. SUFFICES ASSUME x \notin Lens PROVE FALSE
    OBVIOUS
  <2>0. x \in Nat /\ \A l \in Lens : l <= x
    BY <1>4
  <2>2. PICK l \in Lens : l <= x /\ l >= 1
    <3>1. PICK l \in Lens : TRUE
      BY <1>2
    <3>2. l \in Nat \ {0} /\ l <= x
      BY <1>2, <2>0
    <3>3. QED
      BY <3>1, <3>2
  <2>3. x - 1 \in Nat
    BY <1>2, <1>4, <2>2
  <2>4. \A k \in Lens : k <= x - 1
    BY <1>2, <1>4, <2>1, <2>3
  <2>5. x - 1 \in T
    BY <2>3, <2>4
  <2>6. QED
    BY <1>4, <2>5
<1>6. Max(Lens) \in Lens /\ \A l \in Lens : Max(Lens) >= l
  <2>1. \A l \in Lens : x >= l
    BY <1>2, <1>4, <1>5
  <2>2. QED
    BY <1>5, <2>1 DEF Max
<1>7. LastSpan = Max(Lens)
  BY DEF LastSpan, Lens
<1>8. \A texts \in Histories : Len(texts) \in Lens
  BY DEF Lens
<1>9. LastSpan \in Nat \ {0} /\ \A l \in Lens : l <= LastSpan
  <2>1. \A l \in Lens : l <= Max(Lens)
    BY <1>2, <1>6
  <2>2. QED
    BY <1>2, <1>6, <1>7, <2>1
<1>10. ASSUME NEW texts \in Histories PROVE Len(texts) \in 1..LastSpan
  <2>1. Len(texts) \in Nat \ {0} /\ Len(texts) <= LastSpan
    BY <1>1, <1>8, <1>9
  <2>2. QED
    BY <1>9, <2>1
<1>11. QED
  BY <1>1, <1>9, <1>10

-----------------------------------------------------------------------------
(* The chain of target updates.                                            *)

\* It is an idle operation that is still to look.
Looks(update) == update.kind = "idle" /\ update.at = "status"

LEMMA NewUpdates ==
  ASSUME NEW kind \in Kinds
  PROVE  /\ NewUpdate(kind) \in Update /\ Fits(NewUpdate(kind))
         /\ NewUpdate(kind).kind = kind /\ NewUpdate(kind).at = "status"
<1>1. 1 \in 1..LastSpan + 1 /\ "closed" \in Tails
  BY Spanned DEF Tails
<1>2. QED
  BY <1>1 DEF NewUpdate, Update, Fits

LEMMA KindsAre == Kinds = {"sweep", "idle", "foreground"}
  BY DEF Kinds, Priority

\* An operation joins the chain.
LEMMA Joined ==
  ASSUME NEW q, Chain(q), NEW u \in Update, Fits(u), NEW n, n = Append(q, u)
  PROVE  /\ Chain(n)
         /\ HasPass(q) => HasPass(n)
         /\ HasFresh(q) => HasFresh(n)
         /\ u.kind = "idle" => HasPass(n)
         /\ Looks(u) => HasFresh(n)
<1>1. q \in Seq(Update) /\ \A k \in 1..Len(q) : Fits(q[k])
  BY DEF Chain
<1>2. /\ n \in Seq(Update) /\ Len(n) = Len(q) + 1 /\ Len(q) \in Nat
      /\ \A k \in 1..Len(q) : n[k] = q[k]
      /\ n[Len(q) + 1] = u
  BY <1>1, AppendProperties, LenProperties
<1>3. PICK l \in Nat : l = Len(q) /\ Len(n) = l + 1
  BY <1>2
<1>4. Chain(n)
  <2>1. ASSUME NEW k \in 1..l + 1 PROVE Fits(n[k])
    <3>1. k \in 1..l \/ k = l + 1
      OBVIOUS
    <3>2. QED
      BY <1>1, <1>2, <1>3, <3>1
  <2>2. QED
    BY <1>2, <1>3, <2>1 DEF Chain
<1>5. l + 1 \in 1..l + 1 /\ \A k \in 1..l : k \in 1..l + 1
  OBVIOUS
<1>6. (HasPass(q) => HasPass(n)) /\ (HasFresh(q) => HasFresh(n))
  BY <1>2, <1>3, <1>5 DEF HasPass, HasFresh
<1>7. (u.kind = "idle" => HasPass(n)) /\ (Looks(u) => HasFresh(n))
  BY <1>2, <1>3, <1>5 DEF HasPass, HasFresh, Looks
<1>8. QED
  BY <1>4, <1>6, <1>7

\* The operation at work leaves the chain.
LEMMA Dropped ==
  ASSUME NEW q, Chain(q), q # <<>>, NEW n, n = Tail(q)
  PROVE  /\ Chain(n)
         /\ HasPass(q) /\ q[1].kind # "idle" => HasPass(n)
         /\ HasFresh(q) /\ ~Looks(q[1]) => HasFresh(n)
<1>1. q \in Seq(Update) /\ \A k \in 1..Len(q) : Fits(q[k])
  BY DEF Chain
<1>2. /\ n \in Seq(Update) /\ Len(n) = Len(q) - 1
      /\ \A k \in 1..Len(n) : n[k] = q[k + 1]
  BY <1>1, HeadTailProperties
<1>3. PICK l \in Nat : Len(q) = l + 1 /\ Len(n) = l
  <2>1. Len(q) \in Nat /\ Len(q) # 0
    BY <1>1, LenProperties, EmptySeq
  <2>2. Len(q) - 1 \in Nat /\ Len(q) = (Len(q) - 1) + 1
    BY <2>1
  <2>3. QED
    BY <1>2, <2>2
<1>4. Chain(n)
  <2>1. ASSUME NEW k \in 1..l PROVE Fits(n[k])
    <3>1. k + 1 \in 1..l + 1
      OBVIOUS
    <3>2. QED
      BY <1>1, <1>2, <1>3, <3>1
  <2>2. QED
    BY <1>2, <1>3, <2>1 DEF Chain
<1>5. ASSUME NEW k \in 1..l + 1, k # 1 PROVE k - 1 \in 1..Len(n) /\ n[k - 1] = q[k]
  <2>1. k - 1 \in 1..l /\ (k - 1) + 1 = k
    BY <1>5
  <2>2. QED
    BY <1>2, <1>3, <2>1
<1>6. HasPass(q) /\ q[1].kind # "idle" => HasPass(n)
  BY <1>3, <1>5 DEF HasPass
<1>7. HasFresh(q) /\ ~Looks(q[1]) => HasFresh(n)
  BY <1>3, <1>5 DEF HasFresh, Looks
<1>8. QED
  BY <1>4, <1>6, <1>7

\* Entries change where they are, and remain of their kind.
LEMMA Changed ==
  ASSUME NEW q, Chain(q), NEW n, n \in Seq(Update), Len(n) = Len(q),
         \A k \in 1..Len(q) :
           /\ Fits(n[k]) /\ n[k].kind = q[k].kind
           /\ Looks(q[k]) /\ (k # 1 \/ ~Looks(q[1])) => Looks(n[k])
  PROVE  /\ Chain(n)
         /\ HasPass(q) => HasPass(n)
         /\ HasFresh(q) /\ ~Looks(q[1]) => HasFresh(n)
<1>1. Chain(n)
  BY DEF Chain
<1>2. HasPass(q) => HasPass(n)
  BY DEF HasPass
<1>3. ASSUME HasFresh(q), ~Looks(q[1]) PROVE HasFresh(n)
  <2>1. PICK k \in 1..Len(q) : Looks(q[k])
    BY <1>3 DEF HasFresh, Looks
  <2>2. Looks(n[k])
    BY <1>3, <2>1
  <2>3. k \in 1..Len(n)
    OBVIOUS
  <2>4. QED
    BY <2>2, <2>3 DEF HasFresh, Looks
<1>4. QED
  BY <1>1, <1>2, <1>3

\* The operation at work makes a step.
LEMMA Replaced ==
  ASSUME NEW q, Chain(q), q # <<>>, NEW u \in Update, Fits(u), u.kind = q[1].kind,
         NEW n, n = [q EXCEPT ![1] = u]
  PROVE  /\ Chain(n)
         /\ HasPass(q) => HasPass(n)
         /\ HasFresh(q) /\ ~Looks(q[1]) => HasFresh(n)
<1>1. q \in Seq(Update) /\ \A k \in 1..Len(q) : Fits(q[k])
  BY DEF Chain
<1>2. 1 \in 1..Len(q) /\ DOMAIN q = 1..Len(q)
  <2>1. Len(q) \in Nat /\ Len(q) # 0 /\ DOMAIN q = 1..Len(q)
    BY <1>1, LenProperties, EmptySeq
  <2>2. QED
    BY <2>1
<1>3. n \in Seq(Update) /\ Len(n) = Len(q) /\ n[1] = u /\ \A k \in 1..Len(q) : k # 1 => n[k] = q[k]
  BY <1>1, <1>2, ExceptSeq
<1>4. ASSUME NEW k \in 1..Len(q)
      PROVE  /\ Fits(n[k]) /\ n[k].kind = q[k].kind
             /\ Looks(q[k]) /\ (k # 1 \/ ~Looks(q[1])) => Looks(n[k])
  <2>1. CASE k = 1
    BY <1>3, <2>1
  <2>2. CASE k # 1
    BY <1>1, <1>3, <2>2
  <2>3. QED
    BY <2>1, <2>2
<1>5. QED
  BY <1>3, <1>4, Changed

-----------------------------------------------------------------------------
(* How the operation at work goes on, or ends.                             *)

(* Unless it was to look, who watches goes on watching. *)
WorksOn ==
  /\ TaskTypes'
  /\ Watched /\ ~Looks(Current) => deleted \/ pass' = "dirty" \/ HasFresh(updates')

\* The operation at work, and the chain behind it.
LEMMA Working ==
  ASSUME LegacyInv, updates # <<>>
  PROVE  /\ Chain(updates) /\ Current \in Update /\ Fits(Current)
         /\ Current = updates[1]
<1>1. Chain(updates)
  BY DEF LegacyInv, TaskTypes
<1>2. updates \in Seq(Update) /\ Len(updates) \in Nat /\ Len(updates) # 0
  BY <1>1, LenProperties, EmptySeq DEF Chain
<1>3. 1 \in 1..Len(updates)
  BY <1>2
<1>4. updates[1] \in Update
  BY <1>2, <1>3, ElementOfSeq
<1>5. QED
  BY <1>1, <1>3, <1>4 DEF Chain, Current

LEMMA EndsFits ==
  ASSUME LegacyInv, updates # <<>>, NEW ingested, NEW accepted, NEW erred,
         Ends(ingested, accepted, erred)
  PROVE  WorksOn
<1> DEFINE rest == Tail(updates)
<1>1. TaskTypes /\ Chain(updates)
  BY DEF LegacyInv, TaskTypes
<1>2. /\ Chain(rest)
      /\ HasPass(updates) /\ Current.kind # "idle" => HasPass(rest)
      /\ HasFresh(updates) /\ ~Looks(Current) => HasFresh(rest)
  BY <1>1, Dropped DEF Current
<1>3. CASE Current.kind = "idle"
  <2>1. PassGoesOn /\ UNCHANGED <<sweep, checked>>
    BY <1>3 DEF Ends
  <2>2. CASE pass = "dirty" /\ ~deleted
    <3>1. pass' = "clean" /\ updates' = Append(rest, NewUpdate("idle"))
      BY <2>1, <2>2 DEF PassGoesOn
    <3>2. "idle" \in Kinds
      BY KindsAre
    <3>3. /\ NewUpdate("idle") \in Update /\ Fits(NewUpdate("idle"))
          /\ NewUpdate("idle").kind = "idle" /\ Looks(NewUpdate("idle"))
      BY <3>2, NewUpdates DEF Looks
    <3>4. Chain(updates') /\ HasPass(updates') /\ HasFresh(updates')
      BY <1>2, <3>1, <3>3, Joined
    <3>5. QED
      BY <1>1, <2>1, <3>1, <3>4 DEF WorksOn, TaskTypes
  <2>3. CASE ~(pass = "dirty" /\ ~deleted)
    <3>1. pass' = "none" /\ updates' = rest
      BY <2>1, <2>3 DEF PassGoesOn
    <3>2. TaskTypes'
      BY <1>1, <1>2, <2>1, <3>1 DEF TaskTypes
    <3>3. Watched /\ ~Looks(Current) => deleted \/ HasFresh(updates')
      BY <1>2, <2>3, <3>1 DEF Watched
    <3>4. QED
      BY <3>2, <3>3 DEF WorksOn
  <2>4. QED
    BY <2>2, <2>3
<1>4. CASE Current.kind # "idle"
  <2>1. updates' = rest /\ pass' = pass /\ sweep' \in Revisions /\ checked' \in Revisions
    <3>1. CASE Current.kind = "sweep"
      BY <1>1, <3>1 DEF Ends, TaskTypes, Revisions
    <3>2. CASE Current.kind # "sweep"
      BY <1>1, <1>4, <3>2 DEF Ends, TaskTypes
    <3>3. QED
      BY <3>1, <3>2
  <2>2. TaskTypes'
    BY <1>1, <1>2, <1>4, <2>1 DEF TaskTypes
  <2>3. Watched /\ ~Looks(Current) => deleted \/ pass' = "dirty" \/ HasFresh(updates')
    BY <1>2, <2>1 DEF Watched
  <2>4. QED
    BY <2>2, <2>3 DEF WorksOn
<1>5. QED
  BY <1>3, <1>4

LEMMA StepFits ==
  ASSUME LegacyInv, updates # <<>>, NEW u \in Update, Fits(u), u.kind = Current.kind,
         Step(u), UNCHANGED <<pass, sweep, checked>>
  PROVE  WorksOn
<1>1. TaskTypes /\ Chain(updates)
  BY DEF LegacyInv, TaskTypes
<1>2. updates' = [updates EXCEPT ![1] = u]
  BY DEF Step
<1>3. /\ Chain(updates')
      /\ HasPass(updates) => HasPass(updates')
      /\ HasFresh(updates) /\ ~Looks(Current) => HasFresh(updates')
  BY <1>1, <1>2, Replaced DEF Current
<1>4. TaskTypes'
  BY <1>1, <1>3 DEF TaskTypes
<1>5. Watched /\ ~Looks(Current) => deleted \/ pass' = "dirty" \/ HasFresh(updates')
  BY <1>3 DEF Watched
<1>6. QED
  BY <1>4, <1>5 DEF WorksOn

\* The loop over a plan stops at a segment of the plan, or ends.
LEMMA GoesOnFits ==
  ASSUME LegacyInv, updates # <<>>, NEW cache, NEW update \in Update,
         update.kind = Current.kind, ~update.aborted, NEW k, NEW accepted,
         accepted \subseteq Spans, k \in Nat \ {0}, GoesOn(cache, update, k, accepted)
  PROVE  WorksOn
<1> DEFINE todo == {n \in DOMAIN update.plan : n >= k /\ Wanted(update, n) /\ ~Known(cache, update, n)}
           stop == Min(todo \cup {Len(update.plan) + 1})
           done == accepted \cup {n \in DOMAIN update.plan : n \in k..stop - 1 /\ Wanted(update, n)}
<1>1. CASE todo = {}
  <2>1. Ends(update.kind # "foreground", done, FALSE)
    BY <1>1 DEF GoesOn
  <2>2. QED
    BY <2>1, EndsFits
<1>2. CASE todo # {}
  <2> DEFINE u == [update EXCEPT !.at = "post", !.next = stop, !.accepted = done]
  <2>1. Step(u) /\ UNCHANGED <<pass, sweep, checked>>
    BY <1>2 DEF GoesOn
  <2>2. PICK l \in Nat :
          /\ l = Len(update.plan) /\ DOMAIN update.plan = 1..l
          /\ 1..l \subseteq Spans /\ l <= LastSpan /\ LastSpan \in Nat
    <3>1. update.plan \in Histories \cup {<<>>}
      BY DEF Update
    <3>2. CASE update.plan \in Histories
      <4>1. /\ Len(update.plan) \in 1..LastSpan /\ LastSpan \in Nat
            /\ DOMAIN update.plan = 1..Len(update.plan)
        BY <3>2, Spanned
      <4>2. QED
        BY <4>1 DEF Spans
    <3>3. CASE update.plan = <<>>
      <4>1. DOMAIN update.plan = 1..0 /\ Len(update.plan) = 0
        BY <3>3
      <4>2. QED
        BY <4>1, Spanned DEF Spans
    <3>4. QED
      BY <3>1, <3>2, <3>3
  <2>3. todo \subseteq 1..l /\ \A m \in todo : m <= l
    BY <2>2
  <2> HIDE DEF todo
  <2>4. PICK m \in todo : \A j \in todo : m <= j
    <3>1. todo \subseteq Nat
      BY <2>3
    <3>2. QED
      BY <1>2, <3>1, Least
  <2>5. m \in 1..l /\ \A j \in todo \cup {Len(update.plan) + 1} : m <= j
    BY <2>2, <2>3, <2>4
  <2>6. stop \in todo \cup {Len(update.plan) + 1} /\ stop <= m
    <3>1. \E x \in todo \cup {Len(update.plan) + 1} :
            \A y \in todo \cup {Len(update.plan) + 1} : x <= y
      BY <2>5
    <3>2. QED
      BY <3>1 DEF Min
  <2> HIDE DEF stop
  <2>7. stop \in 1..l
    BY <2>2, <2>3, <2>5, <2>6
  <2>8. stop \in 1..LastSpan + 1 /\ done \subseteq Spans
    BY <2>2, <2>7
  <2> HIDE DEF done
  <2>9. /\ u \in Update /\ u.kind = update.kind /\ u.at = "post" /\ u.next = stop
        /\ u.plan = update.plan /\ u.aborted = update.aborted
    BY <2>8 DEF Update
  <2>10. Fits(u)
    BY <2>2, <2>7, <2>9 DEF Fits
  <2> HIDE DEF u
  <2>11. QED
    BY <2>1, <2>9, <2>10, StepFits
<1>3. QED
  BY <1>1, <1>2

\* What a step of the operation at work leaves is the invariant again.
LEMMA Closing ==
  ASSUME LegacyInv, WorksOn, ServerTypes', CacheTypes', ViewTypes', deleted' = deleted,
         owed' => owed /\ ~Looks(Current)
  PROVE  LegacyInv'
BY DEF LegacyInv, WorksOn, Watched

-----------------------------------------------------------------------------
(* What the operations do to the server, the caches and the bounds.        *)

LEMMA SpendTypes ==
  ASSUME used \in Used, NEW what \in {"runs", "projections", "troubles"}, Spend(what)
  PROVE  used' \in Used
<1>1. MaxRuns \in Nat /\ MaxProjections \in Nat /\ MaxTroubles \in Nat
  BY LegacyAssumption
<1>2. used' = [used EXCEPT ![what] = used[what] + 1]
  BY DEF Spend
<1>3. CASE what = "runs"
  <2>1. used.runs < MaxRuns
    BY <1>3 DEF Spend
  <2>2. QED
    BY <1>1, <1>2, <1>3, <2>1 DEF Used
<1>4. CASE what = "projections"
  <2>1. used.projections < MaxProjections
    BY <1>4 DEF Spend
  <2>2. QED
    BY <1>1, <1>2, <1>4, <2>1 DEF Used
<1>5. CASE what = "troubles"
  <2>1. used.troubles < MaxTroubles
    BY <1>5 DEF Spend
  <2>2. QED
    BY <1>1, <1>2, <1>5, <2>1 DEF Used
<1>6. QED
  BY <1>3, <1>4, <1>5

LEMMA TroubleTypes ==
  ASSUME ViewTypes, Trouble
  PROVE  used' \in Used
  BY SpendTypes DEF ViewTypes, Trouble

LEMMA PostedTypes ==
  ASSUME ServerTypes, NEW n \in Spans, NEW t \in Texts, Posted(n, t)
  PROVE  ServerTypes'
<1>1. t # None
  BY LegacyAssumption
<1>2. CASE IsStored(n, t)
  BY <1>2 DEF ServerTypes, Posted
<1>3. CASE ~IsStored(n, t)
  <2>1. /\ target' = [target EXCEPT ![n] = t] /\ failed' = failed \ {n} /\ memory' = memory
    BY <1>3 DEF Posted
  <2>2. QED
    BY <1>1, <2>1 DEF ServerTypes
<1>4. QED
  BY <1>2, <1>3

LEMMA RetriedTypes ==
  ASSUME ServerTypes, NEW n, NEW t, Retried(n, t)
  PROVE  ServerTypes'
  BY DEF ServerTypes, Retried

LEMMA SynchronizedTypes ==
  ASSUME CacheTypes
  PROVE  Synchronized \in [Spans -> Submission \cup {None}]
  BY DEF CacheTypes, Synchronized

\* The tasks rest, but for the check of an earlier sweep.
LEMMA Resting ==
  ASSUME LegacyInv, UNCHANGED <<updates, pass, sweep>>, checked' \in Revisions,
         ServerTypes', CacheTypes', ViewTypes', deleted => deleted', owed' => owed
  PROVE  LegacyInv'
<1>1. TaskTypes'
  BY DEF LegacyInv, TaskTypes
<1>2. Watched => Watched'
  BY DEF Watched
<1>3. QED
  BY <1>1, <1>2 DEF LegacyInv

-----------------------------------------------------------------------------
(* The host, the server and a projection that ends.                        *)

LEMMA PromptFits ==
  ASSUME LegacyInv, Prompt
  PROVE  LegacyInv'
<1>1. used' \in Used
  BY SpendTypes DEF LegacyInv, ViewTypes, Prompt
<1>2. host' \in Host
  <2>1. PICK texts \in Histories, tail \in Tails :
          host' = [host EXCEPT !.texts = texts, !.busy = TRUE, !.inactive = FALSE, !.tail = tail]
    <3>1. PICK texts \in Histories :
            host' = [host EXCEPT !.texts = texts, !.busy = TRUE, !.inactive = FALSE,
                       !.tail = IF texts = host.texts /\ @ = "closed" THEN "closed" ELSE "unfinished"]
      BY DEF Prompt
    <3>2. (IF texts = host.texts /\ host.tail = "closed" THEN "closed" ELSE "unfinished") \in Tails
      BY DEF Tails
    <3>3. QED
      BY <3>1, <3>2
  <2>2. QED
    BY <2>1 DEF LegacyInv, ViewTypes, Host
<1>3. ServerTypes' /\ CacheTypes' /\ ViewTypes'
  BY <1>1, <1>2 DEF LegacyInv, ServerTypes, CacheTypes, ViewTypes, Prompt, server, caches, views
<1>4. checked' \in Revisions
  BY DEF LegacyInv, TaskTypes, Prompt, caches
<1>5. QED
  BY <1>3, <1>4, Resting DEF Prompt, tasks

LEMMA RestFits ==
  ASSUME LegacyInv, Rest
  PROVE  LegacyInv'
<1>1. PICK texts \in Histories, tail \in Tails, busy \in BOOLEAN, events \in 0..2 :
        host' = [host EXCEPT !.texts = texts, !.tail = tail, !.busy = busy, !.events = events]
  <2>1. PICK texts \in Histories, tail \in Tails :
          host' = [host EXCEPT !.texts = texts, !.tail = tail, !.busy = FALSE, !.events = 2]
    BY DEF Rest
  <2>2. 2 \in 0..2 /\ FALSE \in BOOLEAN
    OBVIOUS
  <2>3. QED
    BY <2>1, <2>2
<1>2. host' \in Host
  BY <1>1 DEF LegacyInv, ViewTypes, Host
<1>3. ServerTypes' /\ CacheTypes' /\ ViewTypes'
  BY <1>2 DEF LegacyInv, ServerTypes, CacheTypes, ViewTypes, Rest, server, caches, views
<1>4. checked' \in Revisions
  BY DEF LegacyInv, TaskTypes, Rest, caches
<1>5. QED
  BY <1>3, <1>4, Resting DEF Rest, tasks

LEMMA BecomeInactiveFits ==
  ASSUME LegacyInv, BecomeInactive
  PROVE  LegacyInv'
<1>1. PICK inactive \in BOOLEAN, events \in 0..2 :
        host' = [host EXCEPT !.inactive = inactive, !.events = events]
  <2>1. host' = [host EXCEPT !.inactive = TRUE, !.events = 0]
    BY DEF BecomeInactive
  <2>2. 0 \in 0..2 /\ TRUE \in BOOLEAN
    OBVIOUS
  <2>3. QED
    BY <2>1, <2>2
<1>2. host' \in Host
  BY <1>1 DEF LegacyInv, ViewTypes, Host
<1>3. ServerTypes' /\ CacheTypes' /\ ViewTypes'
  BY <1>2 DEF LegacyInv, ServerTypes, CacheTypes, ViewTypes, BecomeInactive, server, caches, views
<1>4. checked' \in Revisions
  BY DEF LegacyInv, TaskTypes, BecomeInactive, caches
<1>5. QED
  BY <1>3, <1>4, Resting DEF BecomeInactive, tasks

LEMMA ServerFits ==
  ASSUME LegacyInv, Server
  PROVE  LegacyInv'
<1>1. CASE \E n \in Spans : CommitJob(n) \/ FailJob(n)
  <2>1. PICK n \in Spans : CommitJob(n) \/ FailJob(n)
    BY <1>1
  <2>2. ServerTypes'
    BY <2>1 DEF LegacyInv, ServerTypes, CommitJob, FailJob
  <2>3. /\ CacheTypes' /\ ViewTypes' /\ checked' \in Revisions
        /\ UNCHANGED <<updates, pass, sweep, deleted, owed>>
    BY <2>1 DEF LegacyInv, CacheTypes, ViewTypes, TaskTypes, CommitJob, FailJob, caches, tasks, views
  <2>4. QED
    BY <2>2, <2>3, Resting
<1>2. CASE \E n \in Spans, t \in Texts : OtherWriter(n, t)
  <2>1. PICK n \in Spans, t \in Texts : OtherWriter(n, t)
    BY <1>2
  <2>2. ServerTypes'
    BY <2>1, PostedTypes DEF LegacyInv, OtherWriter
  <2>3. used' \in Used
    BY <2>1, TroubleTypes DEF LegacyInv, OtherWriter
  <2>4. /\ CacheTypes' /\ ViewTypes' /\ checked' \in Revisions
        /\ UNCHANGED <<updates, pass, sweep, deleted, owed>>
    BY <2>1, <2>3 DEF LegacyInv, CacheTypes, ViewTypes, TaskTypes, OtherWriter, caches, tasks, views
  <2>5. QED
    BY <2>2, <2>4, Resting
<1>3. CASE \E message \in late : Arrive(message)
  <2>1. PICK message \in late : Arrive(message)
    BY <1>3
  <2>2. message[2] \in Spans /\ message[3] \in Texts
    BY DEF LegacyInv, ViewTypes
  <2>3. ServerTypes'
    BY <2>1, <2>2, PostedTypes, RetriedTypes DEF LegacyInv, Arrive
  <2>4. /\ CacheTypes' /\ ViewTypes' /\ checked' \in Revisions
        /\ UNCHANGED <<updates, pass, sweep, deleted, owed>>
    BY <2>1 DEF LegacyInv, CacheTypes, ViewTypes, TaskTypes, Arrive, caches, tasks, views
  <2>5. QED
    BY <2>3, <2>4, Resting
<1>4. QED
  BY <1>1, <1>2, <1>3 DEF Server

LEMMA CheckExpiresFits ==
  ASSUME LegacyInv, CheckExpires
  PROVE  LegacyInv'
<1>1. ServerTypes' /\ CacheTypes' /\ ViewTypes' /\ checked' \in Revisions
  BY DEF LegacyInv, ServerTypes, CacheTypes, ViewTypes, CheckExpires, server, views, Revisions
<1>2. QED
  BY <1>1, Resting DEF CheckExpires, tasks

LEMMA FinishProjectionFits ==
  ASSUME LegacyInv, FinishProjection
  PROVE  LegacyInv'
<1>1. cached' \in [Spans -> Submission \cup {None}]
  BY SynchronizedTypes DEF LegacyInv, CacheTypes, FinishProjection
<1>2. ServerTypes' /\ CacheTypes'
  BY <1>1 DEF LegacyInv, ServerTypes, CacheTypes, FinishProjection, server
<1>3. projected' \in BOOLEAN
  BY DEF FinishProjection
<1>4. ViewTypes' /\ checked' \in Revisions
  BY <1>3 DEF LegacyInv, ViewTypes, TaskTypes, FinishProjection
<1>5. QED
  BY <1>2, <1>4, Resting DEF FinishProjection, tasks

LEMMA DeleteSessionFits ==
  ASSUME LegacyInv, DeleteSession
  PROVE  LegacyInv'
<1>1. Session \in Host
  BY LegacyAssumption DEF Session, Host, Tails
<1>2. ServerTypes' /\ CacheTypes' /\ checked' \in Revisions
  BY DEF LegacyInv, ServerTypes, CacheTypes, DeleteSession, server, Revisions
<1>3. ViewTypes'
  BY <1>1 DEF LegacyInv, ViewTypes, DeleteSession
<1>4. QED
  BY <1>2, <1>3, Resting DEF DeleteSession, tasks

-----------------------------------------------------------------------------
(* What joins the chain.                                                   *)

LEMMA Joining ==
  ASSUME LegacyInv, NEW u \in Update, Fits(u), updates' = Append(updates, u),
         pass' = pass, sweep' \in Revisions, checked' \in Revisions,
         ServerTypes', CacheTypes', ViewTypes', deleted' = deleted, owed' => owed
  PROVE  LegacyInv'
<1>1. TaskTypes /\ Chain(updates)
  BY DEF LegacyInv, TaskTypes
<1>2. /\ Chain(updates')
      /\ HasPass(updates) => HasPass(updates')
      /\ HasFresh(updates) => HasFresh(updates')
  BY <1>1, Joined
<1>3. TaskTypes'
  BY <1>1, <1>2 DEF TaskTypes
<1>4. Watched => Watched'
  BY <1>2 DEF Watched
<1>5. QED
  BY <1>3, <1>4 DEF LegacyInv

LEMMA IdleEventFits ==
  ASSUME LegacyInv, IdleEvent
  PROVE  LegacyInv'
<1>1. host' \in Host
  <2>1. host \in Host /\ host.events > 0
    BY DEF LegacyInv, ViewTypes, IdleEvent
  <2>2. PICK events \in 0..2 : events = host.events - 1
    BY <2>1 DEF Host
  <2>3. host' = [host EXCEPT !.events = events]
    BY <2>2 DEF IdleEvent
  <2>4. QED
    BY <2>1, <2>3 DEF Host
<1>2. owed' \in BOOLEAN
  BY DEF LegacyInv, ViewTypes, IdleEvent
<1>3. ServerTypes' /\ CacheTypes' /\ ViewTypes' /\ checked' \in Revisions
  BY <1>1, <1>2 DEF LegacyInv, ServerTypes, CacheTypes, ViewTypes, TaskTypes, IdleEvent,
     server, caches, views
<1>4. CASE deleted
  BY <1>3, <1>4, Resting DEF IdleEvent
<1>5. CASE ~deleted /\ pass # "none"
  <2>1. pass' = "dirty" /\ UNCHANGED <<updates, sweep, checked>>
    BY <1>5 DEF IdleEvent, RunIdle, caches
  <2>2. TaskTypes'
    BY <1>5, <2>1 DEF LegacyInv, TaskTypes
  <2>3. QED
    BY <1>3, <2>1, <2>2 DEF LegacyInv, Watched
<1>6. CASE ~deleted /\ pass = "none"
  <2>1. /\ pass' = "clean" /\ updates' = Append(updates, NewUpdate("idle"))
        /\ UNCHANGED <<sweep, checked>>
    BY <1>6 DEF IdleEvent, RunIdle, caches
  <2>2. "idle" \in Kinds
    BY KindsAre
  <2>3. /\ NewUpdate("idle") \in Update /\ Fits(NewUpdate("idle"))
        /\ NewUpdate("idle").kind = "idle" /\ Looks(NewUpdate("idle"))
    BY <2>2, NewUpdates DEF Looks
  <2>4. Chain(updates)
    BY DEF LegacyInv, TaskTypes
  <2>5. Chain(updates') /\ HasPass(updates') /\ HasFresh(updates')
    BY <2>1, <2>3, <2>4, Joined
  <2>6. TaskTypes'
    BY <2>1, <2>5 DEF LegacyInv, TaskTypes
  <2>7. QED
    BY <1>3, <2>5, <2>6 DEF LegacyInv, Watched
<1>7. QED
  BY <1>4, <1>5, <1>6

LEMMA SweepSessionFits ==
  ASSUME LegacyInv, SweepSession
  PROVE  LegacyInv'
<1>1. "sweep" \in Kinds
  BY KindsAre
<1>2. NewUpdate("sweep") \in Update /\ Fits(NewUpdate("sweep"))
  BY <1>1, NewUpdates
<1>3. sweep' \in Revisions /\ checked' \in Revisions
  BY DEF LegacyInv, ViewTypes, TaskTypes, SweepSession, Used, Revisions, caches
<1>4. ServerTypes' /\ CacheTypes' /\ ViewTypes'
  BY DEF LegacyInv, ServerTypes, CacheTypes, ViewTypes, SweepSession, server, caches, views
<1>5. QED
  BY <1>2, <1>3, <1>4, Joining DEF SweepSession

LEMMA BeginProjectionFits ==
  ASSUME LegacyInv, BeginProjection
  PROVE  LegacyInv'
<1>1. ServerTypes' /\ UNCHANGED <<checked, pass, sweep, deleted, owed, host, late, retried>>
  BY DEF LegacyInv, ServerTypes, BeginProjection, server
<1>2. CASE /\ Trouble /\ projected' = TRUE /\ UNCHANGED <<cached, updates, projection>>
  <2>1. used' \in Used
    BY <1>2, TroubleTypes DEF LegacyInv
  <2>2. CacheTypes' /\ ViewTypes' /\ checked' \in Revisions
    BY <1>1, <1>2, <2>1 DEF LegacyInv, CacheTypes, ViewTypes, TaskTypes
  <2>3. QED
    BY <1>1, <1>2, <2>2, Resting
<1>3. CASE /\ Spend("projections") /\ projection' = TRUE /\ UNCHANGED projected
           /\ cached' = Synchronized
           /\ updates' = Append(updates, [NewUpdate("foreground") EXCEPT
                                            !.at = "begin", !.plan = host.texts, !.tail = host.tail])
  <2> DEFINE u == [NewUpdate("foreground") EXCEPT
                     !.at = "begin", !.plan = host.texts, !.tail = host.tail]
  <2>1. used' \in Used
    BY <1>3, SpendTypes DEF LegacyInv, ViewTypes
  <2>2. cached' \in [Spans -> Submission \cup {None}]
    BY <1>3, SynchronizedTypes DEF LegacyInv
  <2>3. CacheTypes' /\ ViewTypes' /\ checked' \in Revisions
    BY <1>1, <1>3, <2>1, <2>2 DEF LegacyInv, CacheTypes, ViewTypes, TaskTypes
  <2>4. "foreground" \in Kinds
    BY KindsAre
  <2>5. PICK old \in Update : old = NewUpdate("foreground")
    BY <2>4, NewUpdates
  <2>6. host.texts \in Histories /\ host.tail \in Tails
    BY DEF LegacyInv, ViewTypes, Host
  <2>7. u \in Update /\ u.at = "begin" /\ u.aborted = old.aborted /\ u.kind = old.kind
    BY <2>5, <2>6 DEF Update
  <2>8. Fits(u)
    BY <2>4, <2>5, <2>7, NewUpdates DEF Fits
  <2>9. updates' = Append(updates, u)
    BY <1>3
  <2> HIDE DEF u
  <2>10. QED
    BY <1>1, <2>3, <2>7, <2>8, <2>9, Joining DEF LegacyInv, TaskTypes
<1>4. QED
  BY <1>2, <1>3 DEF BeginProjection

\* A sweep that timed out is aborted, where it is.
LEMMA SweepTimesOutFits ==
  ASSUME LegacyInv, SweepTimesOut
  PROVE  LegacyInv'
<1>1. TaskTypes /\ Chain(updates) /\ updates \in Seq(Update)
  BY DEF LegacyInv, TaskTypes, Chain
<1>2. PICK l \in Nat : l = Len(updates) /\ DOMAIN updates = 1..l
  BY <1>1, LenProperties
<1> DEFINE aborted(k) == [updates[k] EXCEPT !.aborted = TRUE]
           n == [k \in 1..l |-> IF updates[k].kind = "sweep" THEN aborted(k) ELSE updates[k]]
<1>3. updates' = n
  BY <1>2 DEF SweepTimesOut
<1>4. ASSUME NEW k \in 1..l PROVE updates[k] \in Update /\ Fits(updates[k])
  BY <1>1, <1>2, ElementOfSeq DEF Chain
<1>5. ASSUME NEW k \in 1..l
      PROVE  /\ aborted(k) \in Update /\ aborted(k).kind = updates[k].kind
             /\ aborted(k).at = updates[k].at /\ aborted(k).next = updates[k].next
             /\ aborted(k).plan = updates[k].plan
  BY <1>4 DEF Update
<1> HIDE DEF aborted
<1>6. \A k \in 1..l : n[k] = IF updates[k].kind = "sweep" THEN aborted(k) ELSE updates[k]
  OBVIOUS
<1>7. n \in [1..l -> Update]
  BY <1>4, <1>5
<1> HIDE DEF n
<1>8. n \in Seq(Update) /\ Len(n) = Len(updates)
  <2>1. n \in Seq(Update)
    BY <1>7, IsASeq
  <2>2. DOMAIN n = 1..l /\ DOMAIN n = 1..Len(n) /\ Len(n) \in Nat
    BY <1>7, <2>1, LenProperties
  <2>3. QED
    BY <1>2, <2>1, <2>2
<1>9. ASSUME NEW k \in 1..l
      PROVE  /\ Fits(n[k]) /\ n[k].kind = updates[k].kind
             /\ Looks(updates[k]) => Looks(n[k])
  <2>1. CASE updates[k].kind = "sweep"
    BY <1>4, <1>5, <1>6, <2>1 DEF Fits, Looks
  <2>2. CASE updates[k].kind # "sweep"
    BY <1>4, <1>6, <2>2
  <2>3. QED
    BY <2>1, <2>2
<1>10. Chain(n) /\ (HasPass(updates) => HasPass(n)) /\ (HasFresh(updates) => HasFresh(n))
  <2>1. Chain(n)
    BY <1>2, <1>8, <1>9 DEF Chain
  <2>2. HasPass(updates) => HasPass(n)
    BY <1>2, <1>8, <1>9 DEF HasPass
  <2>3. HasFresh(updates) => HasFresh(n)
    BY <1>2, <1>8, <1>9 DEF HasFresh, Looks
  <2>4. QED
    BY <2>1, <2>2, <2>3
<1>11. used' \in Used
  BY TroubleTypes DEF LegacyInv, SweepTimesOut
<1>12. ServerTypes' /\ CacheTypes' /\ ViewTypes'
  BY <1>11 DEF LegacyInv, ServerTypes, CacheTypes, ViewTypes, SweepTimesOut, server, caches, views
<1>13. TaskTypes'
  BY <1>1, <1>3, <1>10 DEF TaskTypes, SweepTimesOut, caches
<1>14. Watched => Watched'
  BY <1>3, <1>10 DEF Watched, SweepTimesOut
<1>15. QED
  BY <1>12, <1>13, <1>14 DEF LegacyInv, SweepTimesOut

-----------------------------------------------------------------------------
(* The operation at work.                                                  *)

LEMMA AtWork ==
  ASSUME LegacyInv, NEW step, At(step)
  PROVE  /\ updates # <<>> /\ Current \in Update /\ Fits(Current) /\ Current.at = step
         /\ ~deleted /\ ~Current.aborted
         /\ step # "status" => ~Looks(Current)
  BY Working DEF At, Looks

\* A request's answer moves the operation on to its next await.
LEMMA Reaches ==
  ASSUME LegacyInv, NEW step, At(step), NEW to \in {"messages", "confirm", "listing", "inactive"},
         NEW plan \in Histories \cup {<<>>}, NEW tail \in Tails,
         Step([Current EXCEPT !.at = to, !.plan = plan, !.tail = tail]),
         UNCHANGED <<pass, sweep, checked>>
  PROVE  WorksOn
<1> DEFINE u == [Current EXCEPT !.at = to, !.plan = plan, !.tail = tail]
<1>1. Current \in Update /\ updates # <<>> /\ ~Current.aborted
  BY AtWork
<1>2. u \in Update /\ u.at = to /\ u.kind = Current.kind /\ u.aborted = Current.aborted
  BY <1>1 DEF Update
<1>3. Fits(u)
  BY <1>1, <1>2 DEF Fits
<1> HIDE DEF u
<1>4. Step(u)
  BY DEF u
<1>5. QED
  BY <1>1, <1>2, <1>3, <1>4, StepFits

\* The same, with the plan that there is.
LEMMA ReachesNext ==
  ASSUME LegacyInv, NEW step, At(step), NEW to \in {"messages", "confirm", "listing", "inactive"},
         Step([Current EXCEPT !.at = to]), UNCHANGED <<pass, sweep, checked>>
  PROVE  WorksOn
<1>1. PICK c \in Update : c = Current
  BY AtWork
<1>2. c.plan \in Histories \cup {<<>>} /\ c.tail \in Tails
  BY DEF Update
<1>3. [c EXCEPT !.at = to] = [c EXCEPT !.at = to, !.plan = c.plan, !.tail = c.tail]
  BY DEF Update
<1>4. Step([Current EXCEPT !.at = to, !.plan = c.plan, !.tail = c.tail])
  BY <1>1, <1>3
<1>5. QED
  BY <1>2, <1>4, Reaches

LEMMA LookWhetherIdleFits ==
  ASSUME LegacyInv, LookWhetherIdle
  PROVE  LegacyInv'
<1>1. At("status")
  BY DEF LookWhetherIdle
<1>2. updates # <<>> /\ Current \in Update
  BY <1>1, AtWork
<1>3. WorksOn
  <2>1. CASE host.busy
    BY <1>2, <2>1, EndsFits DEF LookWhetherIdle, EndsEmpty
  <2>2. CASE ~host.busy
    BY <1>1, <2>2, ReachesNext DEF LookWhetherIdle
  <2>3. QED
    BY <2>1, <2>2
<1>4. owed' \in BOOLEAN /\ (owed' => owed /\ ~Looks(Current))
  BY DEF LegacyInv, ViewTypes, LookWhetherIdle, Looks
<1>5. ServerTypes' /\ CacheTypes' /\ ViewTypes' /\ deleted' = deleted
  BY <1>4 DEF LegacyInv, ServerTypes, CacheTypes, ViewTypes, LookWhetherIdle, server, views
<1>6. QED
  BY <1>3, <1>4, <1>5, Closing

LEMMA ReadMessagesFits ==
  ASSUME LegacyInv, ReadMessages
  PROVE  LegacyInv'
<1>1. At("messages") /\ ~Looks(Current)
  BY AtWork DEF ReadMessages
<1>2. host.texts \in Histories \cup {<<>>} /\ host.tail \in Tails
  BY DEF LegacyInv, ViewTypes, Host
<1>3. WorksOn
  BY <1>1, <1>2, Reaches DEF ReadMessages, caches
<1>4. ServerTypes' /\ CacheTypes' /\ ViewTypes' /\ deleted' = deleted /\ owed' = owed
  BY DEF LegacyInv, ServerTypes, CacheTypes, ViewTypes, ReadMessages, server, caches, views
<1>5. QED
  BY <1>1, <1>3, <1>4, Closing

LEMMA ConfirmIdleFits ==
  ASSUME LegacyInv, ConfirmIdle
  PROVE  LegacyInv'
<1>1. At("confirm") /\ ~Looks(Current) /\ updates # <<>>
  BY AtWork DEF ConfirmIdle
<1>2. WorksOn
  <2>1. CASE host.busy
    BY <1>1, <2>1, EndsFits DEF ConfirmIdle, EndsEmpty
  <2>2. CASE ~host.busy
    BY <1>1, <2>2, ReachesNext DEF ConfirmIdle
  <2>3. QED
    BY <2>1, <2>2
<1>3. ServerTypes' /\ CacheTypes' /\ ViewTypes' /\ deleted' = deleted /\ owed' = owed
  BY DEF LegacyInv, ServerTypes, CacheTypes, ViewTypes, ConfirmIdle, server, views
<1>4. QED
  BY <1>1, <1>2, <1>3, Closing

LEMMA RequestFailsFits ==
  ASSUME LegacyInv, RequestFails
  PROVE  LegacyInv'
<1>1. PICK step \in {"status", "messages", "confirm", "listing"} : At(step)
  BY DEF RequestFails
<1>2. updates # <<>> /\ Current.at = step /\ (step # "status" => ~Looks(Current))
  BY <1>1, AtWork
<1>3. WorksOn
  BY <1>2, EndsFits DEF RequestFails, Fails
<1>4. owed' \in BOOLEAN /\ (owed' => owed /\ ~Looks(Current))
  BY <1>2 DEF LegacyInv, ViewTypes, RequestFails, Looks
<1>5. used' \in Used
  BY TroubleTypes DEF LegacyInv, RequestFails
<1>6. ServerTypes' /\ CacheTypes' /\ ViewTypes' /\ deleted' = deleted
  BY <1>4, <1>5 DEF LegacyInv, ServerTypes, CacheTypes, ViewTypes, RequestFails, server, views
<1>7. QED
  BY <1>3, <1>4, <1>6, Closing

LEMMA ReadListingFits ==
  ASSUME LegacyInv, ReadListing
  PROVE  LegacyInv'
<1>1. At("listing")
  BY DEF ReadListing
<1>2. /\ updates # <<>> /\ Current \in Update /\ ~Current.aborted
      /\ ~Looks(Current)
  BY <1>1, AtWork
<1>3. WorksOn
  <2>1. CASE Current.kind = "sweep"
    BY <1>1, <2>1, ReachesNext DEF ReadListing
  <2>2. CASE Current.kind # "sweep"
    <3>1. PICK cache : cache = cached'
      OBVIOUS
    <3>2. PICK k \in Nat \ {0} : k = 1
      OBVIOUS
    <3>3. PICK accepted \in SUBSET Spans : accepted = {}
      OBVIOUS
    <3>4. GoesOn(cache, Current, k, accepted)
      BY <2>2, <3>1, <3>2, <3>3 DEF ReadListing
    <3>5. QED
      BY <1>2, <3>4, GoesOnFits
  <2>3. QED
    BY <2>1, <2>2
<1>4. cached' \in [Spans -> Submission \cup {None}]
  BY SynchronizedTypes DEF LegacyInv, ReadListing
<1>5. ServerTypes' /\ CacheTypes' /\ ViewTypes' /\ deleted' = deleted /\ owed' = owed
  BY <1>4 DEF LegacyInv, ServerTypes, CacheTypes, ViewTypes, ReadListing, server, views
<1>6. QED
  BY <1>2, <1>3, <1>5, Closing

LEMMA LookWhetherInactiveFits ==
  ASSUME LegacyInv, LookWhetherInactive
  PROVE  LegacyInv'
<1>1. At("inactive")
  BY DEF LookWhetherInactive
<1>2. /\ updates # <<>> /\ Current \in Update /\ ~Current.aborted
      /\ ~Looks(Current)
  BY <1>1, AtWork
<1>3. PICK open \in BOOLEAN : open = host.inactive
  BY DEF LegacyInv, ViewTypes, Host
<1>4. PICK u : u = [Current EXCEPT !.open = open]
  OBVIOUS
<1>5. u \in Update /\ u.kind = Current.kind /\ u.aborted = Current.aborted
  BY <1>2, <1>4 DEF Update
<1>6. PICK k \in Nat \ {0} : k = 1
  OBVIOUS
<1>7. PICK accepted \in SUBSET Spans : accepted = {}
  OBVIOUS
<1>8. GoesOn(cached, u, k, accepted)
  BY <1>3, <1>4, <1>6, <1>7 DEF LookWhetherInactive
<1>9. WorksOn
  BY <1>2, <1>5, <1>8, GoesOnFits
<1>10. ServerTypes' /\ CacheTypes' /\ ViewTypes' /\ deleted' = deleted /\ owed' = owed
  BY DEF LegacyInv, ServerTypes, CacheTypes, ViewTypes, LookWhetherInactive, server, views
<1>11. QED
  BY <1>2, <1>9, <1>10, Closing

LEMMA BeginForegroundFits ==
  ASSUME LegacyInv, BeginForeground
  PROVE  LegacyInv'
<1>1. At("begin")
  BY DEF BeginForeground
<1>2. /\ updates # <<>> /\ Current \in Update /\ ~Current.aborted
      /\ ~Looks(Current)
  BY <1>1, AtWork
<1>3. PICK k \in Nat \ {0} : k = 1
  OBVIOUS
<1>4. PICK accepted \in SUBSET Spans : accepted = {}
  OBVIOUS
<1>5. GoesOn(cached, Current, k, accepted)
  BY <1>3, <1>4 DEF BeginForeground
<1>6. WorksOn
  BY <1>2, <1>5, GoesOnFits
<1>7. ServerTypes' /\ CacheTypes' /\ ViewTypes' /\ deleted' = deleted /\ owed' = owed
  BY DEF LegacyInv, ServerTypes, CacheTypes, ViewTypes, BeginForeground, server, views
<1>8. QED
  BY <1>2, <1>6, <1>7, Closing

\* What the operation at work posts is a segment of the session.
LEMMA Posting ==
  ASSUME LegacyInv, updates # <<>>, Current.at \in {"post", "retry"}
  PROVE  Current.next \in Spans /\ Current.plan[Current.next] \in Texts
<1>1. Current \in Update /\ Current.next \in 1..Len(Current.plan)
  BY Working DEF Fits
<1>2. Current.plan \in Histories
  <2>1. CASE Current.plan = <<>>
    BY <1>1, <2>1
  <2>2. CASE Current.plan # <<>>
    BY <1>1, <2>2 DEF Update
  <2>3. QED
    BY <2>1, <2>2
<1>3. PICK texts \in Histories : texts = Current.plan
  BY <1>1, <1>2
<1>4. PICK n \in 1..Len(texts) : n = Current.next
  BY <1>1, <1>3
<1>5. texts \in Seq(Texts) /\ Len(texts) \in 1..LastSpan /\ LastSpan \in Nat
  BY Spanned
<1>6. n \in Spans
  BY <1>5 DEF Spans
<1>7. texts[n] \in Texts
  BY <1>5, ElementOfSeq
<1>8. QED
  BY <1>3, <1>4, <1>6, <1>7

LEMMA AbortUpdateFits ==
  ASSUME LegacyInv, AbortUpdate
  PROVE  LegacyInv'
<1>1. updates # <<>> /\ (deleted \/ Current.aborted)
  BY DEF AbortUpdate
<1>2. WorksOn
  BY <1>1, EndsFits DEF AbortUpdate, EndsEmpty, Fails
<1>3. late' \subseteq {"post", "retry"} \X Spans \X Texts
  <2>1. CASE UNCHANGED late
    BY <2>1 DEF LegacyInv, ViewTypes
  <2>2. CASE /\ Current.at \in {"post", "retry"} /\ ~deleted
             /\ late' = late \cup {<<Current.at, Current.next, Current.plan[Current.next]>>}
    <3>1. Current.next \in Spans /\ Current.plan[Current.next] \in Texts
      BY <1>1, <2>2, Posting
    <3>2. QED
      BY <2>2, <3>1 DEF LegacyInv, ViewTypes
  <2>3. QED
    BY <2>1, <2>2 DEF AbortUpdate
<1>4. ServerTypes' /\ CacheTypes' /\ ViewTypes' /\ deleted' = deleted /\ owed' = owed
  BY <1>3 DEF LegacyInv, ServerTypes, CacheTypes, ViewTypes, AbortUpdate, server, views
<1>5. CASE deleted
  BY <1>2, <1>4, <1>5 DEF LegacyInv, WorksOn, Watched
<1>6. CASE ~deleted
  <2>1. ~Looks(Current)
    BY <1>1, <1>6, Working DEF Fits, Looks
  <2>2. QED
    BY <1>2, <1>4, <2>1, Closing
<1>7. QED
  BY <1>5, <1>6

-----------------------------------------------------------------------------
(* The posts of an operation.                                              *)

LEMMA AcceptsFits ==
  ASSUME LegacyInv, NEW step \in {"post", "retry"}, At(step),
         NEW n \in Spans, NEW t \in Texts, Accepts(n, t)
  PROVE  WorksOn /\ cached' \in [Spans -> Submission \cup {None}]
<1>1. /\ updates # <<>> /\ Current \in Update /\ ~Current.aborted
  BY AtWork
<1>2. PICK priority \in {0, 50, 100} : priority = Priority[Current.kind]
  <2>1. Current.kind \in {"sweep", "idle", "foreground"}
    BY <1>1, KindsAre DEF Update
  <2>2. /\ Priority["sweep"] \in {0, 50, 100} /\ Priority["idle"] \in {0, 50, 100}
        /\ Priority["foreground"] \in {0, 50, 100}
    <3>1. Priority.sweep = 0 /\ Priority.idle = 50 /\ Priority.foreground = 100
      BY DEF Priority
    <3>2. QED
      BY <3>1
  <2>3. Priority[Current.kind] \in {0, 50, 100}
    BY <2>1, <2>2
  <2>4. QED
    BY <2>3
<1>3. cached' \in [Spans -> Submission \cup {None}]
  <2>1. PICK entry \in Submission : entry = [text |-> t, priority |-> priority]
    BY DEF Submission
  <2>2. cached' = [cached EXCEPT ![n] = entry]
    BY <1>2, <2>1 DEF Accepts
  <2>3. QED
    BY <2>2 DEF LegacyInv, CacheTypes
<1>4. PICK cache : cache = cached'
  OBVIOUS
<1>5. PICK k \in Nat \ {0} : k = n + 1
  <2>1. n \in Nat
    BY DEF Spans
  <2>2. QED
    BY <2>1
<1>6. PICK accepted \in SUBSET Spans : accepted = Current.accepted \cup {n}
  <2>1. PICK before \in SUBSET Spans : before = Current.accepted
    BY <1>1 DEF Update
  <2>2. before \cup {n} \in SUBSET Spans
    OBVIOUS
  <2>3. QED
    BY <2>1, <2>2
<1>7. GoesOn(cached', Current, n + 1, Current.accepted \cup {n})
  BY DEF Accepts
<1>8. GoesOn(cache, Current, k, accepted)
  <2>1. GoesOn(cache, Current, n + 1, Current.accepted \cup {n})
    BY <1>4, <1>7
  <2>2. GoesOn(cache, Current, k, Current.accepted \cup {n})
    BY <1>5, <2>1
  <2>3. QED
    BY <1>6, <2>2
<1>9. WorksOn
  BY <1>1, <1>8, GoesOnFits
<1>10. QED
  BY <1>3, <1>9

LEMMA RefusesFits ==
  ASSUME LegacyInv, NEW step \in {"post", "retry"}, At(step), NEW n \in Spans, Refuses(n)
  PROVE  WorksOn
<1>1. /\ updates # <<>> /\ Current \in Update /\ ~Current.aborted
  BY AtWork
<1>2. CASE Closed(Current, n)
  BY <1>1, <1>2, EndsFits DEF Refuses, Fails
<1>3. CASE ~Closed(Current, n)
  <2>1. PICK k \in Nat \ {0} : k = n + 1
    <3>1. n \in Nat
      BY DEF Spans
    <3>2. QED
      BY <3>1
  <2>2. PICK accepted \in SUBSET Spans : accepted = Current.accepted
    BY <1>1 DEF Update
  <2>3. GoesOn(cached, Current, k, accepted)
    BY <1>3, <2>1, <2>2 DEF Refuses
  <2>4. QED
    BY <1>1, <2>3, GoesOnFits
<1>4. QED
  BY <1>2, <1>3

LEMMA SendsRetryFits ==
  ASSUME LegacyInv, At("post"), NEW n \in Spans, NEW t \in Texts, SendsRetry(n, t)
  PROVE  WorksOn /\ CacheTypes'
<1>1. updates # <<>> /\ Fits(Current) /\ Current.at = "post"
  BY AtWork
<1>2. PICK c \in Update : c = Current
  BY AtWork
<1>3. PICK u : u = [c EXCEPT !.at = "retry"]
  OBVIOUS
<1>4. /\ u \in Update /\ u.kind = c.kind /\ u.next = c.next /\ u.plan = c.plan
      /\ u.aborted = c.aborted
  BY <1>3 DEF Update
<1>5. Fits(u)
  BY <1>1, <1>2, <1>4 DEF Fits
<1>6. Step(u) /\ UNCHANGED <<pass, sweep, checked>>
  BY <1>2, <1>3 DEF SendsRetry
<1>7. WorksOn
  BY <1>1, <1>2, <1>4, <1>5, <1>6, StepFits
<1>8. CacheTypes'
  BY DEF LegacyInv, CacheTypes, SendsRetry
<1>9. QED
  BY <1>7, <1>8

\* A post or a retry that is answered, or is not.
LEMMA SubmitFits ==
  ASSUME LegacyInv, Submit
  PROVE  LegacyInv'
<1>1. PICK n \in Spans, t \in Texts :
        /\ At("post") \/ At("retry")
        /\ n = Current.next /\ t = Current.plan[n]
        /\ \/ At("post") /\ PostAnswered(n, t)
           \/ At("retry") /\ RetryAnswered(n, t)
           \/ PostFails(n, t)
  BY DEF Submit
<1>2. UNCHANGED <<host, views, deleted, owed>>
  BY DEF Submit
<1>3. PICK step \in {"post", "retry"} : At(step)
  BY <1>1
<1>4. ~Looks(Current) /\ updates # <<>> /\ Current.at = step
  BY <1>3, AtWork
<1>5. CASE At("post") /\ PostAnswered(n, t)
  <2>1. ServerTypes'
    BY <1>5, PostedTypes DEF LegacyInv, PostAnswered
  <2>2. ViewTypes'
    BY <1>2, <1>5 DEF LegacyInv, ViewTypes, PostAnswered, views
  <2>3. WorksOn /\ CacheTypes'
    <3>1. CASE Accepts(n, t) /\ UNCHANGED retried
      BY <1>3, <3>1, AcceptsFits DEF LegacyInv, CacheTypes
    <3>2. CASE Refuses(n) /\ UNCHANGED retried
      BY <1>3, <3>2, RefusesFits DEF LegacyInv, CacheTypes, Refuses
    <3>3. CASE SendsRetry(n, t)
      BY <1>5, <3>3, SendsRetryFits
    <3>4. QED
      BY <1>5, <3>1, <3>2, <3>3 DEF PostAnswered
  <2>4. QED
    BY <1>2, <1>4, <2>1, <2>2, <2>3, Closing
<1>6. CASE At("retry") /\ RetryAnswered(n, t)
  <2>1. ServerTypes'
    BY <1>6, RetriedTypes DEF LegacyInv, RetryAnswered
  <2>2. ViewTypes'
    BY <1>2, <1>6 DEF LegacyInv, ViewTypes, RetryAnswered, views
  <2>3. WorksOn /\ CacheTypes'
    <3>1. CASE Accepts(n, t)
      BY <1>3, <1>6, <3>1, AcceptsFits DEF LegacyInv, CacheTypes, RetryAnswered
    <3>2. CASE Refuses(n)
      BY <1>3, <1>6, <3>2, RefusesFits DEF LegacyInv, CacheTypes, Refuses, RetryAnswered
    <3>3. QED
      BY <1>6, <3>1, <3>2 DEF RetryAnswered
  <2>4. QED
    BY <1>2, <1>4, <2>1, <2>2, <2>3, Closing
<1>7. CASE PostFails(n, t)
  <2>1. WorksOn /\ CacheTypes'
    BY <1>3, <1>7, RefusesFits DEF LegacyInv, CacheTypes, Refuses, PostFails
  <2>2. used' \in Used
    BY <1>7, TroubleTypes DEF LegacyInv, PostFails
  <2>3. ServerTypes'
    <3>1. CASE UNCHANGED server
      BY <3>1 DEF LegacyInv, ServerTypes, server
    <3>2. CASE Posted(n, t)
      BY <3>2, PostedTypes DEF LegacyInv
    <3>3. CASE Retried(n, t)
      BY <3>3, RetriedTypes DEF LegacyInv
    <3>4. QED
      BY <1>7, <3>1, <3>2, <3>3 DEF PostFails
  <2>4. late' \subseteq {"post", "retry"} \X Spans \X Texts
    <3>1. CASE UNCHANGED late
      BY <3>1 DEF LegacyInv, ViewTypes
    <3>2. CASE late' = late \cup {<<Current.at, n, t>>}
      BY <1>4, <3>2 DEF LegacyInv, ViewTypes
    <3>3. QED
      BY <1>7, <3>1, <3>2 DEF PostFails
  <2>5. ViewTypes'
    BY <1>2, <2>2, <2>4 DEF LegacyInv, ViewTypes, views
  <2>6. QED
    BY <1>2, <1>4, <2>1, <2>3, <2>5, Closing
<1>8. QED
  BY <1>1, <1>5, <1>6, <1>7

-----------------------------------------------------------------------------
(* The theorems.                                                           *)

LEMMA LegacyInitFits == Init => LegacyInv
<1> SUFFICES ASSUME Init PROVE LegacyInv
  OBVIOUS
<1>1. ServerTypes /\ CacheTypes
  BY DEF Init, ServerTypes, CacheTypes
<1>2. used \in Used
  <2>1. 0 \in 0..MaxRuns /\ 0 \in 0..MaxProjections /\ 0 \in 0..MaxTroubles
    BY LegacyAssumption
  <2>2. PICK runs \in 0..MaxRuns, projections \in 0..MaxProjections, troubles \in 0..MaxTroubles :
          used = [runs |-> runs, projections |-> projections, troubles |-> troubles]
    BY <2>1 DEF Init
  <2>3. QED
    BY <2>2 DEF Used
<1>3. host \in Host
  <2>1. PICK texts \in Histories : texts = CHOOSE history \in Histories : Len(history) = 1
    BY LegacyAssumption
  <2>2. PICK events \in 0..2 : events = 0
    OBVIOUS
  <2>3. PICK tail \in Tails : tail = "closed"
    BY DEF Tails
  <2>4. host = [texts |-> texts, tail |-> tail, busy |-> FALSE, inactive |-> FALSE, events |-> events]
    BY <2>1, <2>2, <2>3 DEF Init, Session
  <2>5. QED
    BY <2>4 DEF Host
<1>4. ViewTypes
  BY <1>2, <1>3 DEF Init, ViewTypes
<1>5. Chain(updates)
  <2>1. updates \in Seq(Update) /\ Len(updates) = 0
    BY EmptySeq DEF Init
  <2>2. QED
    BY <2>1 DEF Chain
<1>6. TaskTypes
  BY <1>5 DEF Init, TaskTypes, Revisions
<1>7. QED
  BY <1>1, <1>4, <1>6 DEF Init, LegacyInv

LEMMA LegacyStepFits == LegacyInv /\ [Next]_vars => LegacyInv'
<1> SUFFICES ASSUME LegacyInv, [Next]_vars PROVE LegacyInv'
  OBVIOUS
<1>1. CASE Next
  <2>1. CASE Prompt
    BY <2>1, PromptFits
  <2>2. CASE Rest
    BY <2>2, RestFits
  <2>3. CASE BecomeInactive
    BY <2>3, BecomeInactiveFits
  <2>4. CASE IdleEvent
    BY <2>4, IdleEventFits
  <2>5. CASE DeleteSession
    BY <2>5, DeleteSessionFits
  <2>6. CASE Server
    BY <2>6, ServerFits
  <2>7. CASE CheckExpires
    BY <2>7, CheckExpiresFits
  <2>8. CASE SweepTimesOut
    BY <2>8, SweepTimesOutFits
  <2>9. CASE RequestFails
    BY <2>9, RequestFailsFits
  <2>10. CASE Ingest
    <3>1. CASE SweepSession
      BY <3>1, SweepSessionFits
    <3>2. CASE AbortUpdate
      BY <3>2, AbortUpdateFits
    <3>3. CASE LookWhetherIdle
      BY <3>3, LookWhetherIdleFits
    <3>4. CASE ReadMessages
      BY <3>4, ReadMessagesFits
    <3>5. CASE ConfirmIdle
      BY <3>5, ConfirmIdleFits
    <3>6. CASE ReadListing
      BY <3>6, ReadListingFits
    <3>7. CASE LookWhetherInactive
      BY <3>7, LookWhetherInactiveFits
    <3>8. CASE BeginForeground
      BY <3>8, BeginForegroundFits
    <3>9. CASE Submit
      BY <3>9, SubmitFits
    <3>10. QED
      BY <2>10, <3>1, <3>2, <3>3, <3>4, <3>5, <3>6, <3>7, <3>8, <3>9 DEF Ingest
  <2>11. CASE BeginProjection
    BY <2>11, BeginProjectionFits
  <2>12. CASE FinishProjection
    BY <2>12, FinishProjectionFits
  <2>13. QED
    BY <1>1, <2>1, <2>2, <2>3, <2>4, <2>5, <2>6, <2>7, <2>8, <2>9, <2>10, <2>11, <2>12 DEF Next
<1>2. CASE UNCHANGED vars
  <2>1. /\ UNCHANGED <<host, target, failed, memory, late, cached, retried, checked>>
        /\ UNCHANGED <<updates, pass, sweep, projection, projected, deleted, owed, used>>
    BY <1>2 DEF vars, server, caches, tasks, views
  <2>2. ServerTypes' /\ CacheTypes' /\ ViewTypes' /\ checked' \in Revisions
    BY <2>1 DEF LegacyInv, ServerTypes, CacheTypes, ViewTypes, TaskTypes
  <2>3. QED
    BY <2>1, <2>2, Resting
<1>3. QED
  BY <1>1, <1>2

\* What every reachable state of the plugin fulfils: the operations of the
\* chain fit their plans, and an event is held until somebody looks
\* (serializeTargetUpdate, runIdle, submitSegments of plugin/src/index.ts).
THEOREM LegacyInvariant == Spec => []LegacyInv
<1>1. Init => LegacyInv
  BY LegacyInitFits
<1>2. LegacyInv /\ [Next]_vars => LegacyInv'
  BY LegacyStepFits
<1>3. QED
  BY <1>1, <1>2, PTL DEF Spec

LEMMA LegacyInvIsTyped == LegacyInv => TypeOK
<1> SUFFICES ASSUME LegacyInv PROVE TypeOK
  OBVIOUS
<1>1. host \in [texts : Histories, tail : Tails, busy : BOOLEAN, inactive : BOOLEAN, events : 0..2]
  BY DEF LegacyInv, ViewTypes, Host
<1>2. /\ failed \subseteq {n \in Spans : target[n] # None}
      /\ target \in [Spans -> Texts \cup {None}] /\ memory \in [Spans -> Texts \cup {None}]
  BY DEF LegacyInv, ServerTypes
<1>3. \A n \in Spans : \/ cached[n] = None
                       \/ cached[n] \in [text : Texts, priority : {0, 50, 100}]
  BY DEF LegacyInv, CacheTypes, Submission
<1>4. used \in [runs : 0..MaxRuns, projections : 0..MaxProjections, troubles : 0..MaxTroubles]
  BY DEF LegacyInv, ViewTypes, Used
<1>5. QED
  BY <1>1, <1>2, <1>3, <1>4 DEF TypeOK, LegacyInv, CacheTypes, ViewTypes, TaskTypes, Chain, Revisions

\* The session, its tasks, the caches and the server keep their types: among
\* them, that what an operation posts is a text of the session.
THEOREM LegacyTypeCorrect == Spec => []TypeOK
<1>1. LegacyInv => TypeOK
  BY LegacyInvIsTyped
<1>2. QED
  BY <1>1, LegacyInvariant, PTL

LEMMA LegacyInvHolds == LegacyInv => EventsAreHeld
<1> SUFFICES ASSUME LegacyInv, owed, ~deleted
             PROVE  \E k \in DOMAIN updates :
                      updates[k].kind = "idle" /\ (updates[k].at = "status" \/ pass = "dirty")
  BY DEF EventsAreHeld
<1>1. updates \in Seq(Update) /\ DOMAIN updates = 1..Len(updates)
  BY LenProperties DEF LegacyInv, TaskTypes, Chain
<1>2. CASE pass = "dirty"
  <2>1. HasPass(updates)
    BY <1>2 DEF LegacyInv, TaskTypes
  <2>2. QED
    BY <1>1, <1>2, <2>1 DEF HasPass
<1>3. CASE HasFresh(updates)
  BY <1>1, <1>3 DEF HasFresh
<1>4. QED
  BY <1>2, <1>3 DEF LegacyInv, Watched

\* However idle events, passes, sweeps and projections overlap, an event that
\* nobody looked after is held by a pass that is still to look or is to run
\* again (runIdle, plugin/src/index.ts:1281-1324).
THEOREM EventsStayHeld == Spec => []EventsAreHeld
<1>1. LegacyInv => EventsAreHeld
  BY LegacyInvHolds
<1>2. QED
  BY <1>1, LegacyInvariant, PTL

\* What is left of a deleted session stays as the deletion left it.
LEMMA DeletedStays ==
  ASSUME DeletedLeavesNothing, [Next]_vars
  PROVE  DeletedLeavesNothing'
<1>1. CASE UNCHANGED <<cached, retried, projected, deleted>>
  BY <1>1 DEF DeletedLeavesNothing
<1>2. CASE DeleteSession
  BY <1>2 DEF DeletedLeavesNothing, DeleteSession
<1>3. CASE ~deleted /\ deleted' = deleted
  BY <1>3 DEF DeletedLeavesNothing
<1>4. CASE FinishProjection
  <2>1. CASE deleted
    <3>1. cached' = cached /\ retried' = retried /\ deleted' = deleted
      BY <1>4, <2>1 DEF FinishProjection
    <3>2. projected' = (projected \/ FALSE)
      BY <1>4, <2>1 DEF FinishProjection, Valid
    <3>3. QED
      BY <2>1, <3>1, <3>2 DEF DeletedLeavesNothing
  <2>2. CASE ~deleted
    BY <1>4, <2>2 DEF DeletedLeavesNothing, FinishProjection
  <2>3. QED
    BY <2>1, <2>2
<1>5. CASE Prompt \/ Rest \/ BecomeInactive \/ IdleEvent
  BY <1>1, <1>5 DEF Prompt, Rest, BecomeInactive, IdleEvent, caches, views
<1>6. CASE Server
  <2>1. ~deleted /\ deleted' = deleted
    BY <1>6 DEF Server, CommitJob, FailJob, OtherWriter, Arrive
  <2>2. QED
    BY <1>3, <2>1
<1>7. CASE CheckExpires \/ SweepTimesOut \/ RequestFails
  BY <1>1, <1>7 DEF CheckExpires, SweepTimesOut, RequestFails, caches, views
<1>8. CASE SweepSession \/ AbortUpdate \/ LookWhetherIdle \/ ReadMessages \/ ConfirmIdle
  BY <1>1, <1>8 DEF SweepSession, AbortUpdate, LookWhetherIdle, ReadMessages, ConfirmIdle, caches, views
<1>9. CASE ReadListing \/ LookWhetherInactive \/ BeginForeground \/ Submit
  <2>1. ~deleted /\ deleted' = deleted
    BY <1>9 DEF ReadListing, LookWhetherInactive, BeginForeground, Submit, At
  <2>2. QED
    BY <1>3, <2>1
<1>10. CASE BeginProjection
  <2>1. ~deleted /\ deleted' = deleted
    BY <1>10 DEF BeginProjection
  <2>2. QED
    BY <1>3, <2>1
<1>11. CASE UNCHANGED vars
  BY <1>1, <1>11 DEF vars, caches, views
<1>12. QED
  BY <1>2, <1>4, <1>5, <1>6, <1>7, <1>8, <1>9, <1>10, <1>11 DEF Next, Ingest

\* Nothing that was at work for a session when it was deleted leaves a
\* submission, a retry or a projection state of it behind
\* (plugin/src/index.ts:1352-1382).
THEOREM LegacyDeletionLeavesNothing == Spec => []DeletedLeavesNothing
<1>1. Init => DeletedLeavesNothing
  BY DEF Init, DeletedLeavesNothing
<1>2. DeletedLeavesNothing /\ [Next]_vars => DeletedLeavesNothing'
  BY DeletedStays
<1>3. QED
  BY <1>1, <1>2, PTL DEF Spec
=============================================================================
