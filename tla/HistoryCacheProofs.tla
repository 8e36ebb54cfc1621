------------------------- MODULE HistoryCacheProofs -------------------------
(***************************************************************************)
(* What a cached prefix promises, proved for histories, pages and readers  *)
(* of any number: TypeOK, CacheIsSettled and StableReadsAreCurrent.        *)
(*                                                                         *)
(* A cached record is complete and is not the assistant a step retry may   *)
(* revive, so the host never changes it while it exists; and where one     *)
(* cached record still exists, those before it do, because only suffixes   *)
(* are deleted (Frozen).  What a reader has read so far is a run of the    *)
(* history as long as the session info is what it was (Tracks).            *)
(***************************************************************************)
EXTENDS HistoryCache, SequenceTheorems, TLAPS

\* Either every caller wants an inactive session, or no assistant is revived.
Regime == Strict = Readers \/ MaxRevivals = 0

\* The first n records p of a reader or of the cache, in history h.
Frozen(p, n, h, next, t) ==
  \A k \in 1..n :
    /\ p[k].complete /\ p[k].id < next
    /\ MaxRevivals = 0 \/ p[k].id # t
    /\ \A i \in 1..Len(h) :
         h[i].id = p[k].id => i = k /\ \A j \in 1..k : h[j] = p[j]

\* Records p were read from history h, after its first off messages.
Tracks(p, off, h) ==
  \A i \in 1..Len(p) :
    /\ off + i <= Len(h)
    /\ p[i].id = h[off + i].id /\ p[i].kind = h[off + i].kind
    /\ p[i].complete => p[i] = h[off + i]

HostInv ==
  /\ turn < nextId
  /\ \A i \in 1..Len(history) :
       /\ history[i].id < nextId
       /\ history[i].id = turn => IsLatestAssistant(history, i)
       /\ \A j \in 1..Len(history) : i < j => history[i].id < history[j].id

RestingWhileUnchanged(r, R) ==
  r \in Strict /\ R.at \in {"lookup", "page", "join", "recheck"} => ~active

ReadingTracks(r, R) ==
  R.at \in {"page", "join"} =>
    \E off \in Nat :
      /\ Tracks(R.tail, off, history)
      /\ R.prefix = <<>> => off = 0
      /\ R.at = "page" /\ R.tail # <<>> => R.cursor = R.tail[Len(R.tail)].id
      /\ R.at = "page" /\ R.tail = <<>> /\ R.prefix = <<>> => R.cursor = Nobody
      /\ R.at = "join" /\ r \in Strict /\ (R.tail # <<>> \/ R.prefix = <<>>) =>
           off + Len(R.tail) = Len(history)

JoinedTracks(r, R) ==
  R.at = "recheck" =>
    /\ Tracks(R.tail, 0, history)
    /\ r \in Strict => Len(R.tail) = Len(history)

SettledIsFrozen(R) ==
  R.at = "confirm" /\ R.stable =>
    \A n \in 0..Len(R.tail) :
      SettledLength(R.tail, n) => Frozen(R.tail, n, history, nextId, turn)

\* What reader r may rely on when it knows R.
ReadingInv(r, R) ==
  /\ R.before <= revision
  /\ Len(R.prefix) # 1
  /\ Frozen(R.prefix, Len(R.prefix), history, nextId, turn)
  /\ R.before = revision =>
       RestingWhileUnchanged(r, R) /\ ReadingTracks(r, R) /\ JoinedTracks(r, R)
  /\ SettledIsFrozen(R)

CacheInv ==
  /\ TypeOK /\ HostInv
  /\ Frozen(cache, Len(cache), history, nextId, turn)
  /\ \A r \in Readers : ReadingInv(r, read[r])

-----------------------------------------------------------------------------
(* Lemmas about the host. *)

\* How a step of the host changes what was frozen before it.
Follows ==
  /\ history' \in Seq(Record) /\ nextId' \in Nat /\ nextId <= nextId'
  /\ turn' \in {turn, Nobody, nextId}
  /\ \A i \in 1..Len(history') :
       \/ /\ i <= Len(history) /\ history'[i].id = history[i].id
          /\ history[i].complete /\ (MaxRevivals = 0 \/ history[i].id # turn) =>
               history'[i] = history[i]
       \/ i = Len(history) + 1 /\ history'[i].id = nextId

\* A step that removes nothing and revives nothing.
Keeps ==
  /\ history' \in Seq(Record)
  /\ Len(history) <= Len(history')
  /\ \A i \in 1..Len(history) :
       /\ history'[i].id = history[i].id /\ history'[i].kind = history[i].kind
       /\ history[i].complete => history'[i] = history[i]

\* The elements of a sequence of records.
LEMMA RecordsOf ==
  ASSUME NEW p \in Seq(Record)
  PROVE  /\ Len(p) \in Nat
         /\ \A i \in 1..Len(p) : p[i] \in Record /\ p[i].id \in Nat \ {0}
<1>1. Len(p) \in Nat /\ \A i \in 1..Len(p) : p[i] \in Record
  OBVIOUS
<1> QED BY <1>1 DEF Record

\* A frozen prefix stays frozen whatever the host does.
LEMMA FrozenStays ==
  ASSUME TypeOK, Follows, NEW p \in Seq(Record), NEW n \in 0..Len(p),
         Frozen(p, n, history, nextId, turn)
  PROVE  Frozen(p, n, history', nextId', turn')
<1> SUFFICES ASSUME NEW k \in 1..n
    PROVE /\ p[k].complete /\ p[k].id < nextId'
          /\ MaxRevivals = 0 \/ p[k].id # turn'
          /\ \A i \in 1..Len(history') :
               history'[i].id = p[k].id =>
                 i = k /\ \A j \in 1..k : history'[j] = p[j]
  BY DEF Frozen
<1>0. Len(p) \in Nat /\ Len(history) \in Nat /\ Len(history') \in Nat
  BY DEF TypeOK, Follows
<1>1. \A j \in 1..n :
        /\ p[j] \in Record /\ p[j].id \in Nat \ {0}
        /\ p[j].complete /\ p[j].id < nextId
        /\ MaxRevivals = 0 \/ p[j].id # turn
        /\ \A i \in 1..Len(history) :
             history[i].id = p[j].id => i = j /\ \A l \in 1..j : history[l] = p[l]
  BY <1>0, RecordsOf DEF Frozen
<1>2. p[k].complete /\ p[k].id < nextId'
  BY <1>1 DEF Follows, TypeOK
<1>3. MaxRevivals = 0 \/ p[k].id # turn'
  BY <1>1 DEF Follows, TypeOK, Nobody
<1>4. ASSUME NEW i \in 1..Len(history'), history'[i].id = p[k].id
      PROVE  i = k /\ \A j \in 1..k : history'[j] = p[j]
  <2>1. i <= Len(history) /\ history[i].id = p[k].id
    BY <1>1, <1>4 DEF Follows, TypeOK
  <2>2. i = k /\ \A j \in 1..k : history[j] = p[j]
    BY <1>0, <1>1, <2>1
  <2>3. ASSUME NEW j \in 1..k PROVE history'[j] = p[j]
    <3>1. j \in 1..n /\ j \in 1..Len(history') /\ j <= Len(history)
      BY <1>0, <2>1, <2>2
    <3>2. history[j] = p[j] /\ history[j].complete
            /\ (MaxRevivals = 0 \/ history[j].id # turn)
      BY <1>1, <2>2, <3>1
    <3> QED BY <1>0, <3>1, <3>2 DEF Follows
  <2> QED BY <2>2, <2>3
<1> QED BY <1>2, <1>3, <1>4

\* What was read of the history is still what the history holds.
LEMMA TracksStay ==
  ASSUME TypeOK, Keeps, NEW p \in Seq(Record), NEW off \in Nat,
         Tracks(p, off, history)
  PROVE  Tracks(p, off, history')
<1>0. Len(p) \in Nat /\ Len(history) \in Nat /\ Len(history') \in Nat
  BY DEF TypeOK, Keeps
<1> SUFFICES ASSUME NEW i \in 1..Len(p)
    PROVE /\ off + i <= Len(history')
          /\ p[i].id = history'[off + i].id /\ p[i].kind = history'[off + i].kind
          /\ p[i].complete => p[i] = history'[off + i]
  BY DEF Tracks
<1>1. /\ off + i \in 1..Len(history)
      /\ p[i].id = history[off + i].id /\ p[i].kind = history[off + i].kind
      /\ p[i].complete => p[i] = history[off + i]
  BY <1>0 DEF Tracks
<1> QED BY <1>0, <1>1 DEF Keeps

\* A message is appended.
LEMMA Grown ==
  ASSUME TypeOK, HostInv, NEW kind \in Kinds, NEW complete \in BOOLEAN,
         AppendRecord(kind, complete), turn' \in {turn, nextId},
         turn' = nextId <=> kind = "assistant",
         revision' \in Nat, active' \in BOOLEAN, revivals' = revivals,
         UNCHANGED <<cache, read>>
  PROVE  TypeOK' /\ HostInv' /\ Follows /\ Keeps
<1> DEFINE new == NewRecord(kind, complete)
<1>0. new \in Record /\ new.id = nextId /\ new.kind = kind
  BY DEF TypeOK, NewRecord, Record
<1> HIDE DEF new
<1>1. /\ history' \in Seq(Record) /\ Len(history') = Len(history) + 1
      /\ \A i \in 1..Len(history) : history'[i] = history[i]
      /\ history'[Len(history) + 1] = new
      /\ Len(history) \in Nat /\ nextId' = nextId + 1 /\ nextId \in Nat \ {0}
  BY <1>0, AppendProperties DEF TypeOK, AppendRecord, new
<1>2. Follows /\ Keeps
  BY <1>0, <1>1 DEF Follows, Keeps
<1>3. TypeOK'
  BY <1>1 DEF TypeOK
<1>4. HostInv'
  <2>1. turn' < nextId'
    BY <1>1 DEF HostInv, TypeOK
  <2>2. ASSUME NEW i \in 1..Len(history')
        PROVE  /\ history'[i].id < nextId'
               /\ \A j \in 1..Len(history') : i < j => history'[i].id < history'[j].id
    <3>1. \A k \in 1..Len(history) : history[k].id \in Nat
      BY RecordsOf DEF TypeOK
    <3> QED BY <1>0, <1>1, <3>1 DEF HostInv
  <2>3. ASSUME NEW i \in 1..Len(history'), history'[i].id = turn'
        PROVE  IsLatestAssistant(history', i)
    <3>0. \A k \in 1..Len(history) : history[k].id \in Nat
      BY RecordsOf DEF TypeOK
    <3>1. CASE kind = "assistant"
      <4>1. i = Len(history) + 1
        BY <1>0, <1>1, <2>3, <3>0, <3>1 DEF HostInv
      <4> QED BY <1>0, <1>1, <3>1, <4>1 DEF IsLatestAssistant
    <3>2. CASE kind # "assistant"
      <4>1. turn' = turn /\ turn < nextId
        BY <3>2 DEF HostInv
      <4>2. i \in 1..Len(history) /\ history[i].id = turn
        BY <1>0, <1>1, <2>3, <4>1
      <4>3. IsLatestAssistant(history, i)
        BY <4>2 DEF HostInv
      <4> QED BY <1>0, <1>1, <3>2, <4>2, <4>3 DEF IsLatestAssistant
    <3> QED BY <3>1, <3>2
  <2> QED BY <2>1, <2>2, <2>3 DEF HostInv
<1> QED BY <1>2, <1>3, <1>4

\* A changed record keeps its id and its kind.
LEMMA AlteredRecord ==
  ASSUME NEW rec \in Record, NEW complete \in BOOLEAN
  PROVE  LET new == [rec EXCEPT !.complete = complete, !.version = @ + 1]
         IN new \in Record /\ new.id = rec.id /\ new.kind = rec.kind
<1>1. /\ rec.id \in Nat \ {0} /\ rec.kind \in Kinds /\ rec.version \in Nat
  BY DEF Record
<1>2. rec.version + 1 \in Nat
  BY <1>1
<1>3. [rec EXCEPT !.complete = complete] \in Record
  BY DEF Record
<1> QED BY <1>1, <1>2, <1>3 DEF Record

\* A record is completed, or the latest assistant is revived.
LEMMA Altered ==
  ASSUME TypeOK, HostInv, NEW i \in 1..Len(history), NEW complete \in BOOLEAN,
         Changed(i, complete),
         ~history[i].complete \/ (MaxRevivals # 0 /\ history[i].id = turn),
         revivals' \in 0..MaxRevivals,
         UNCHANGED <<nextId, revision, active, turn, cache, read>>
  PROVE  TypeOK' /\ HostInv' /\ Follows /\ (~history[i].complete => Keeps)
            /\ Len(history') = Len(history)
<1> DEFINE new == [history[i] EXCEPT !.complete = complete, !.version = @ + 1]
<1>0. history[i] \in Record
  BY RecordsOf DEF TypeOK
<1>1. /\ new \in Record /\ new.id = history[i].id /\ new.kind = history[i].kind
  BY <1>0, AlteredRecord
<1>2. history' = [history EXCEPT ![i] = new]
  BY DEF Changed
<1> HIDE DEF new
<1>3. /\ history' \in Seq(Record) /\ Len(history') = Len(history)
      /\ history'[i] = new
      /\ \A j \in 1..Len(history) : j # i => history'[j] = history[j]
      /\ Len(history) \in Nat
  BY <1>1, <1>2 DEF TypeOK
<1>4. \A j \in 1..Len(history) :
        history'[j].id = history[j].id /\ history'[j].kind = history[j].kind
  BY <1>1, <1>3
<1>5. Follows /\ (~history[i].complete => Keeps)
  BY <1>3, <1>4 DEF Follows, Keeps, TypeOK
<1>6. TypeOK'
  BY <1>3 DEF TypeOK
<1>7. HostInv'
  BY <1>3, <1>4 DEF HostInv, IsLatestAssistant
<1> QED BY <1>3, <1>5, <1>6, <1>7

\* A suffix is removed.
LEMMA Reverted ==
  ASSUME TypeOK, HostInv, Revert
  PROVE  TypeOK' /\ HostInv' /\ Follows
<1>1. PICK i \in 1..Len(history) : history' = SubSeq(history, 1, i - 1)
  BY DEF Revert
<1>2. /\ history' \in Seq(Record) /\ Len(history') = i - 1
      /\ \A j \in 1..(i - 1) : history'[j] = history[j]
      /\ Len(history) \in Nat /\ i \in Nat
  BY <1>1 DEF TypeOK
<1>3. /\ nextId' = nextId /\ turn' = Nobody
  BY DEF Revert
<1>4. Follows
  BY <1>2, <1>3 DEF Follows, TypeOK
<1>5. TypeOK'
  BY <1>2, <1>3 DEF TypeOK, Revert, Revise, Nobody
<1>6. HostInv'
  <2>1. turn' < nextId'
    BY <1>3 DEF TypeOK, Nobody
  <2>2. ASSUME NEW j \in 1..Len(history')
        PROVE  /\ history'[j].id < nextId'
               /\ history'[j].id # turn'
               /\ \A k \in 1..Len(history') : j < k => history'[j].id < history'[k].id
    <3>1. history[j].id \in Nat \ {0}
      BY <1>2, RecordsOf DEF TypeOK
    <3> QED BY <1>2, <1>3, <3>1 DEF HostInv, Nobody
  <2> QED BY <2>1, <2>2 DEF HostInv
<1> QED BY <1>4, <1>5, <1>6

\* What any step of the host leaves of what a reader knows: while the session
\* info is the same, the activity is; a resting session loses nothing.
LEMMA HostStep ==
  ASSUME TypeOK, HostInv, Host
  PROVE  /\ TypeOK' /\ HostInv' /\ Follows
         /\ UNCHANGED <<cache, read>>
         /\ revision <= revision'
         /\ revision' = revision => active' = active
         /\ revision' = revision /\ (~active \/ MaxRevivals = 0) => Keeps
         /\ revision' = revision /\ ~active => Len(history') = Len(history)
<1>0. revision \in Nat /\ active \in BOOLEAN /\ MaxRevivals \in Nat
        /\ revivals \in 0..MaxRevivals
  BY HistoryAssumption DEF TypeOK
<1>1. CASE Admit
  <2>1. /\ turn' = turn /\ revivals' = revivals /\ UNCHANGED <<cache, read>>
        /\ revision' = revision + 1 /\ active' \in BOOLEAN
    BY <1>1 DEF Admit, Revise
  <2>2. turn' # nextId
    BY <2>1 DEF HostInv, TypeOK
  <2>3. AppendRecord("user", TRUE) /\ "user" \in Kinds
    BY <1>1 DEF Admit, Kinds
  <2>4. revision' \in Nat /\ revision <= revision' /\ revision' # revision
    BY <1>0, <2>1
  <2>5. TypeOK' /\ HostInv' /\ Follows
    BY <2>1, <2>2, <2>3, <2>4, Grown
  <2> QED BY <2>1, <2>4, <2>5
<1>2. CASE StartStep
  <2>1. turn' = nextId /\ UNCHANGED <<revision, active, revivals, cache, read>> /\ active
    BY <1>2 DEF StartStep
  <2>2. AppendRecord("assistant", FALSE)
    BY <1>2 DEF StartStep
  <2>3. TypeOK' /\ HostInv' /\ Follows /\ Keeps
    BY <1>0, <2>1, <2>2, Grown DEF Kinds
  <2> QED BY <1>0, <2>1, <2>3
<1>3. CASE StartShell
  <2>1. UNCHANGED <<turn, revision, active, revivals, cache, read>> /\ active
    BY <1>3 DEF StartShell
  <2>2. AppendRecord("shell", FALSE)
    BY <1>3 DEF StartShell
  <2>a. turn' # nextId
    BY <2>1 DEF HostInv, TypeOK
  <2>3. TypeOK' /\ HostInv' /\ Follows /\ Keeps
    BY <1>0, <2>1, <2>2, <2>a, Grown DEF Kinds
  <2> QED BY <1>0, <2>1, <2>3
<1>4. CASE Complete
  <2>1. PICK i \in 1..Len(history) : ~history[i].complete /\ Changed(i, TRUE)
    BY <1>4 DEF Complete
  <2>2. UNCHANGED <<nextId, revision, active, turn, revivals, cache, read>>
    BY <1>4 DEF Complete
  <2>3. TypeOK' /\ HostInv' /\ Follows /\ Keeps /\ Len(history') = Len(history)
    BY <1>0, <2>1, <2>2, Altered
  <2> QED BY <1>0, <2>2, <2>3
<1>5. CASE Revive
  <2>1. PICK i \in 1..Len(history) : history[i].id = turn /\ Changed(i, FALSE)
    BY <1>5 DEF Revive
  <2>2. /\ UNCHANGED <<nextId, revision, active, turn, cache, read>>
        /\ revivals' \in 0..MaxRevivals /\ MaxRevivals # 0 /\ active
    BY <1>0, <1>5 DEF Revive
  <2>3. TypeOK' /\ HostInv' /\ Follows
    BY <2>1, <2>2, Altered
  <2> QED BY <1>0, <2>2, <2>3
<1>6. CASE GoIdle
  <2>1. /\ UNCHANGED <<history, nextId, turn, revivals, cache, read>>
        /\ revision' = revision + 1 /\ active' \in BOOLEAN
    BY <1>6 DEF GoIdle, Revise
  <2>a. revision' \in Nat
    BY <1>0, <2>1
  <2>2. TypeOK'
    BY <2>1, <2>a DEF TypeOK
  <2>3. HostInv'
    BY <2>1 DEF HostInv, IsLatestAssistant
  <2>4. Follows
    BY <2>1 DEF TypeOK, Follows
  <2> QED BY <1>0, <2>1, <2>2, <2>3, <2>4
<1>7. CASE Revert
  <2>1. revision' = revision + 1 /\ UNCHANGED <<cache, read>>
    BY <1>7 DEF Revert, Revise
  <2> QED BY <1>0, <1>7, <2>1, Reverted
<1> QED BY <1>1, <1>2, <1>3, <1>4, <1>5, <1>6, <1>7 DEF Host

\* A step of the host keeps what a reader may rely on.
LEMMA HostKeepsReaders ==
  ASSUME Regime, TypeOK, HostInv, Host, NEW r \in Readers, NEW R \in Reading,
         ReadingInv(r, R)
  PROVE  ReadingInv(r, R)'
<1>0. /\ Len(R.prefix) \in Nat /\ Len(R.tail) \in Nat
      /\ R.prefix \in Seq(Record) /\ R.tail \in Seq(Record)
      /\ R.before \in Nat /\ revision \in Nat
  BY DEF TypeOK, Reading
<1>1. /\ Follows /\ revision <= revision' /\ revision' \in Nat
      /\ revision' = revision => active' = active
      /\ revision' = revision /\ (~active \/ MaxRevivals = 0) => Keeps
      /\ revision' = revision /\ ~active => Len(history') = Len(history)
  BY <1>0, HostStep DEF TypeOK
<1>2. R.before <= revision'
  BY <1>0, <1>1 DEF ReadingInv
<1>3. Frozen(R.prefix, Len(R.prefix), history', nextId', turn')
  BY <1>0, <1>1, FrozenStays DEF ReadingInv
<1>4. SettledIsFrozen(R)'
  <2> SUFFICES ASSUME R.at = "confirm", R.stable,
                      NEW n \in 0..Len(R.tail), SettledLength(R.tail, n)
               PROVE  Frozen(R.tail, n, history', nextId', turn')
    BY DEF SettledIsFrozen
  <2>1. Frozen(R.tail, n, history, nextId, turn)
    BY DEF ReadingInv, SettledIsFrozen
  <2> QED BY <1>0, <1>1, <2>1, FrozenStays
<1>5. ASSUME R.before = revision'
      PROVE  RestingWhileUnchanged(r, R)' /\ ReadingTracks(r, R)' /\ JoinedTracks(r, R)'
  <2>0. revision' = revision /\ active' = active /\ R.before = revision
    BY <1>0, <1>1, <1>5 DEF ReadingInv
  <2>1. RestingWhileUnchanged(r, R) /\ ReadingTracks(r, R) /\ JoinedTracks(r, R)
    BY <2>0 DEF ReadingInv
  <2>2. RestingWhileUnchanged(r, R)'
    BY <2>0, <2>1 DEF RestingWhileUnchanged
  <2>3. R.at \in {"page", "join", "recheck"} =>
          /\ Keeps
          /\ r \in Strict => Len(history') = Len(history)
    BY <1>1, <2>0, <2>1 DEF RestingWhileUnchanged, Regime
  <2>4. ReadingTracks(r, R)'
    <3> SUFFICES ASSUME R.at \in {"page", "join"} PROVE ReadingTracks(r, R)'
      BY DEF ReadingTracks
    <3>1. PICK off \in Nat :
            /\ Tracks(R.tail, off, history)
            /\ R.prefix = <<>> => off = 0
            /\ R.at = "page" /\ R.tail # <<>> => R.cursor = R.tail[Len(R.tail)].id
            /\ R.at = "page" /\ R.tail = <<>> /\ R.prefix = <<>> => R.cursor = Nobody
            /\ R.at = "join" /\ r \in Strict /\ (R.tail # <<>> \/ R.prefix = <<>>) =>
                 off + Len(R.tail) = Len(history)
      BY <2>1 DEF ReadingTracks
    <3>2. Tracks(R.tail, off, history')
      BY <1>0, <2>3, <3>1, TracksStay
    <3> QED BY <2>3, <3>1, <3>2 DEF ReadingTracks
  <2>5. JoinedTracks(r, R)'
    <3> SUFFICES ASSUME R.at = "recheck" PROVE JoinedTracks(r, R)'
      BY DEF JoinedTracks
    <3>1. Tracks(R.tail, 0, history)
      BY <2>1 DEF JoinedTracks
    <3>2. Tracks(R.tail, 0, history')
      BY <1>0, <2>3, <3>1, TracksStay
    <3> QED BY <2>1, <2>3, <3>2 DEF JoinedTracks
  <2> QED BY <2>2, <2>4, <2>5
<1> QED BY <1>2, <1>3, <1>4, <1>5 DEF ReadingInv

-----------------------------------------------------------------------------
(* Lemmas about one snapshot. *)

\* What the host answers to a read after a cursor.
LEMMA PageFacts ==
  ASSUME TypeOK, HostInv, NEW cursor \in Nat
  PROVE  /\ FirstAfter(cursor) \in 1..(Len(history) + 1)
         /\ cursor = Nobody => FirstAfter(cursor) = 1
         /\ \A i \in 1..Len(history) :
              history[i].id = cursor => FirstAfter(cursor) = i + 1
         /\ FirstAfter(cursor) <= Len(history) =>
              /\ PageAfter(cursor) \in Seq(Record)
              /\ PageAfter(cursor) # <<>>
              /\ FirstAfter(cursor) - 1 + Len(PageAfter(cursor)) <= Len(history)
              /\ \A k \in 1..Len(PageAfter(cursor)) :
                   PageAfter(cursor)[k] = history[FirstAfter(cursor) - 1 + k]
<1> DEFINE first == FirstAfter(cursor)
<1>0. /\ Len(history) \in Nat
      /\ \A i \in 1..Len(history) : history[i] \in Record /\ history[i].id \in Nat \ {0}
  BY RecordsOf DEF TypeOK
<1>1. ASSUME NEW i \in 1..Len(history), history[i].id = cursor
      PROVE  first = i + 1
  <2>1. \A j \in 1..Len(history) : history[j].id = cursor => j = i
    BY <1>0, <1>1 DEF HostInv
  <2>2. cursor # Nobody
    BY <1>0, <1>1 DEF Nobody
  <2>3. (CHOOSE j \in 1..Len(history) : history[j].id = cursor) = i
    BY <1>1, <2>1
  <2>4. first = 1 + CHOOSE j \in 1..Len(history) : history[j].id = cursor
    BY <1>1, <2>2 DEF FirstAfter
  <2> HIDE DEF first
  <2>5. first = 1 + i
    BY <2>3, <2>4
  <2> QED BY <1>0, <2>5
<1>2. cursor = Nobody => first = 1
  BY DEF FirstAfter
<1>3. first \in 1..(Len(history) + 1)
  <2>1. CASE \E i \in 1..Len(history) : history[i].id = cursor
    BY <1>0, <1>1, <2>1
  <2>2. CASE ~\E i \in 1..Len(history) : history[i].id = cursor
    BY <1>0, <2>2 DEF FirstAfter
  <2> QED BY <2>1, <2>2
<1>4. ASSUME first <= Len(history)
      PROVE  /\ PageAfter(cursor) \in Seq(Record)
             /\ PageAfter(cursor) # <<>>
             /\ first - 1 + Len(PageAfter(cursor)) <= Len(history)
             /\ \A k \in 1..Len(PageAfter(cursor)) :
                  PageAfter(cursor)[k] = history[first - 1 + k]
  <2>1. PICK last : last = Smaller(Len(history), first + PageSize - 1)
    OBVIOUS
  <2>2. last \in first..Len(history)
    BY <1>0, <1>3, <1>4, <2>1, HistoryAssumption DEF Smaller
  <2>3. PageAfter(cursor) = SubSeq(history, first, last)
    BY <2>1 DEF PageAfter
  <2> HIDE DEF first
  <2>4. /\ SubSeq(history, first, last) \in Seq(Record)
        /\ Len(SubSeq(history, first, last)) = last - first + 1
        /\ \A k \in 1..(last - first + 1) :
             SubSeq(history, first, last)[k] = history[first - 1 + k]
    BY <1>0, <1>3, <2>2 DEF TypeOK
  <2>5. Len(PageAfter(cursor)) = last - first + 1 /\ PageAfter(cursor) \in Seq(Record)
    BY <2>3, <2>4
  <2>6. PageAfter(cursor) # <<>>
    BY <1>3, <2>2, <2>5
  <2>7. \A k \in 1..Len(PageAfter(cursor)) : PageAfter(cursor)[k] = history[first - 1 + k]
    BY <2>3, <2>4, <2>5
  <2> QED BY <1>0, <1>3, <2>2, <2>5, <2>6, <2>7
<1> QED BY <1>1, <1>2, <1>3, <1>4

\* A step of one reader, told by what the reader knows after it.
LEMMA ReaderMoves ==
  ASSUME CacheInv, UNCHANGED host, NEW r \in Readers, NEW R \in Reading,
         read' = [read EXCEPT ![r] = R], ReadingInv(r, R),
         cache' \in Seq(Record), Len(cache') # 1,
         Frozen(cache', Len(cache'), history, nextId, turn)
  PROVE  CacheInv'
<1>1. UNCHANGED <<history, nextId, revision, active, turn, revivals>>
  BY DEF host
<1>2. TypeOK'
  BY <1>1 DEF CacheInv, TypeOK
<1>3. HostInv'
  BY <1>1 DEF CacheInv, HostInv, IsLatestAssistant
<1>4. Frozen(cache, Len(cache), history, nextId, turn)'
  BY <1>1
<1>5. ASSUME NEW q \in Readers PROVE ReadingInv(q, read[q])'
  <2>1. PICK Q : Q = read'[q]
    OBVIOUS
  <2>2. ReadingInv(q, Q)
    BY <2>1 DEF CacheInv, TypeOK
  <2>3. ReadingInv(q, Q)'
    BY <1>1, <2>2 DEF ReadingInv, RestingWhileUnchanged, ReadingTracks, JoinedTracks,
       SettledIsFrozen
  <2> QED BY <2>1, <2>3
<1> QED BY <1>2, <1>3, <1>4, <1>5 DEF CacheInv

\* The readings a snapshot starts with.
LEMMA RestingType ==
  /\ Resting \in Reading /\ Resting.at = "idle" /\ Resting.before = 0
  /\ Resting.prefix = <<>>
  /\ \A n \in Nat :
       LET R == [Resting EXCEPT !.at = "begin", !.attempt = n]
       IN R \in Reading /\ R.at = "begin" /\ R.before = 0 /\ R.prefix = <<>>
<1>1. /\ Resting.at = "idle" /\ Resting.before = 0 /\ Resting.prefix = <<>>
  BY DEF Resting
<1>2. Resting \in Reading
  BY DEF Reading, Resting, Places, Nobody
<1>3. "begin" \in Places
  BY DEF Places
<1> QED BY <1>1, <1>2, <1>3 DEF Reading

\* A reader that knows nothing yet.
LEMMA StartingOver ==
  ASSUME TypeOK, NEW r \in Readers, NEW R \in Reading,
         R.at \in {"idle", "begin"}, R.before = 0, R.prefix = <<>>
  PROVE  ReadingInv(r, R)
<1>1. /\ R.before <= revision /\ Len(R.prefix) = 0
  BY DEF TypeOK
<1>2. Frozen(R.prefix, Len(R.prefix), history, nextId, turn)
  BY <1>1 DEF Frozen
<1> QED BY <1>1, <1>2 DEF ReadingInv, RestingWhileUnchanged, ReadingTracks, JoinedTracks,
        SettledIsFrozen

\* What a reader carries on when neither its prefix nor what it read changes.
LEMMA CarriesOn ==
  ASSUME NEW r \in Readers, NEW O \in Reading, ReadingInv(r, O), NEW R \in Reading,
         R.before \in {O.before, revision}, revision \in Nat, R.prefix = O.prefix,
         R.at \in {"status", "lookup"},
         R.at = "lookup" /\ r \in Strict => ~active
  PROVE  ReadingInv(r, R)
  BY DEF ReadingInv, RestingWhileUnchanged, ReadingTracks, JoinedTracks, SettledIsFrozen

\* Beginning, asking for the session and for its activity.
LEMMA FirstRequests ==
  ASSUME CacheInv, NEW r \in Readers, Begin(r) \/ ReadInfo(r) \/ ReadStatus(r)
  PROVE  CacheInv'
<1>0. /\ TypeOK /\ read[r] \in Reading /\ ReadingInv(r, read[r]) /\ UNCHANGED <<host, cache>>
      /\ cache \in Seq(Record) /\ Len(cache) # 1
      /\ Frozen(cache, Len(cache), history, nextId, turn)
      /\ revision \in Nat /\ active \in BOOLEAN
  BY DEF CacheInv, TypeOK, Begin, ReadInfo, ReadStatus
<1>1. CASE Begin(r)
  <2>1. PICK R : R = [Resting EXCEPT !.at = "begin", !.attempt = 1]
    OBVIOUS
  <2>2. R \in Reading /\ R.at = "begin" /\ R.before = 0 /\ R.prefix = <<>>
    BY <2>1, RestingType
  <2>3. read' = [read EXCEPT ![r] = R]
    BY <1>1, <2>1 DEF Begin
  <2> QED BY <1>0, <2>2, <2>3, StartingOver, ReaderMoves
<1>2. CASE ReadInfo(r)
  <2>1. PICK R : R = [read[r] EXCEPT !.at = "status", !.before = revision]
    OBVIOUS
  <2>2. /\ R \in Reading /\ R.at = "status" /\ R.before = revision
        /\ R.prefix = read[r].prefix
    BY <1>0, <2>1 DEF Reading, Places
  <2>3. read' = [read EXCEPT ![r] = R]
    BY <1>0, <1>2, <2>1 DEF ReadInfo, TypeOK
  <2> QED BY <1>0, <2>2, <2>3, CarriesOn, ReaderMoves
<1>3. CASE ReadStatus(r)
  <2>1. CASE r \in Strict /\ active
    <3>1. PICK R : R = Resting
      OBVIOUS
    <3>2. R \in Reading /\ R.at = "idle" /\ R.before = 0 /\ R.prefix = <<>>
      BY <3>1, RestingType
    <3>3. read' = [read EXCEPT ![r] = R]
      BY <1>3, <2>1, <3>1 DEF ReadStatus
    <3> QED BY <1>0, <3>2, <3>3, StartingOver, ReaderMoves
  <2>2. CASE ~(r \in Strict /\ active)
    <3>1. PICK R : R = [read[r] EXCEPT !.at = "lookup", !.status = active]
      OBVIOUS
    <3>2. /\ R \in Reading /\ R.at = "lookup" /\ R.before = read[r].before
          /\ R.prefix = read[r].prefix
      BY <1>0, <3>1 DEF Reading, Places
    <3>3. read' = [read EXCEPT ![r] = R]
      BY <1>3, <2>2, <3>1 DEF ReadStatus
    <3> QED BY <1>0, <2>2, <3>2, <3>3, CarriesOn, ReaderMoves
  <2> QED BY <2>1, <2>2
<1> QED BY <1>1, <1>2, <1>3

\* The facts every step of a reader starts from.
LEMMA ReaderFacts ==
  ASSUME CacheInv, NEW r \in Readers
  PROVE  /\ TypeOK /\ HostInv /\ read[r] \in Reading /\ ReadingInv(r, read[r])
         /\ cache \in Seq(Record) /\ Len(cache) # 1
         /\ Frozen(cache, Len(cache), history, nextId, turn)
         /\ revision \in Nat /\ active \in BOOLEAN /\ history \in Seq(Record)
         /\ Len(history) \in Nat
         /\ read[r].prefix \in Seq(Record) /\ read[r].tail \in Seq(Record)
         /\ Len(read[r].prefix) \in Nat /\ Len(read[r].tail) \in Nat
         /\ read[r].cursor \in Nat /\ read[r].before \in Nat
         /\ read[r].attempt \in Nat
<1>1. TypeOK /\ HostInv /\ read[r] \in Reading /\ ReadingInv(r, read[r])
  BY DEF CacheInv, TypeOK
<1> QED BY <1>1 DEF CacheInv, TypeOK, Reading

LEMMA EmptyTail == <<>> \in Seq(Record)
OBVIOUS

\* Reading starts with an empty tail, after the cached prefix or in full.
LEMMA StartsPaging ==
  ASSUME CacheInv, NEW r \in Readers, NEW R \in Reading,
         read[r].at \in {"lookup", "page", "join"},
         R.at = "page", R.before = read[r].before, R.tail = <<>>,
         R.prefix = <<>> => R.cursor = Nobody, Len(R.prefix) # 1,
         Frozen(R.prefix, Len(R.prefix), history, nextId, turn)
  PROVE  ReadingInv(r, R)
<1>1. ReadingInv(r, read[r])
  BY ReaderFacts
<1>2. Len(R.tail) = 0
  OBVIOUS
<1>3. Tracks(R.tail, 0, history)
  BY <1>2 DEF Tracks
<1>4. ReadingTracks(r, R)
  BY <1>2, <1>3 DEF ReadingTracks
<1> QED BY <1>1, <1>4 DEF ReadingInv, RestingWhileUnchanged, JoinedTracks, SettledIsFrozen

\* The cache is looked up.
LEMMA LookupStep ==
  ASSUME CacheInv, NEW r \in Readers, Lookup(r)
  PROVE  CacheInv'
<1>b. PICK cursor : cursor = IF cache = <<>> THEN Nobody ELSE cache[Len(cache) - 1].id
  OBVIOUS
<1>c. PICK none \in Seq(Record) : none = <<>>
  BY EmptyTail
<1>1. PICK R : R = [read[r] EXCEPT !.at = "page", !.prefix = cache, !.tail = none,
                                   !.cursor = cursor]
  OBVIOUS
<1>2. cursor \in Nat
  <2>1. CASE cache # <<>>
    <3>1. cache \in Seq(Record) /\ Len(cache) # 1
      BY ReaderFacts
    <3>2. PICK n : n = Len(cache)
      OBVIOUS
    <3>3. n \in Nat /\ n # 0 /\ n # 1
      BY <2>1, <3>1, <3>2
    <3>4. n - 1 \in 1..n
      BY <3>3
    <3>5. cache[n - 1].id \in Nat
      BY <3>1, <3>2, <3>4, RecordsOf
    <3> QED BY <1>b, <2>1, <3>2, <3>5
  <2> QED BY <1>b, <2>1 DEF Nobody
<1>a. read[r] \in Reading /\ cache \in Seq(Record)
  BY ReaderFacts
<1>3. /\ R \in Reading /\ R.at = "page" /\ R.before = read[r].before /\ R.tail = none
      /\ R.prefix = cache /\ R.cursor = cursor
  BY <1>1, <1>2, <1>a DEF Reading, Places
<1>4. R.prefix = <<>> => R.cursor = Nobody
  BY <1>3, <1>b
<1>d. /\ Len(R.prefix) # 1 /\ Frozen(R.prefix, Len(R.prefix), history, nextId, turn)
      /\ read[r].at = "lookup"
  BY <1>3, ReaderFacts DEF Lookup
<1>5. ReadingInv(r, R)
  BY <1>3, <1>4, <1>c, <1>d, StartsPaging
<1>6. read' = [read EXCEPT ![r] = R] /\ UNCHANGED <<host, cache>>
  BY <1>1, <1>b, <1>c DEF Lookup
<1> QED BY <1>3, <1>5, <1>6, ReaderFacts, ReaderMoves

\* The cache is dropped and the history read in full.
LEMMA FullReadStep ==
  ASSUME CacheInv, NEW r \in Readers, RejectCursor(r) \/ Miss(r)
  PROVE  CacheInv'
<1>c. PICK none \in Seq(Record) : none = <<>>
  BY EmptyTail
<1>1. PICK R : R = [read[r] EXCEPT !.at = "page", !.prefix = none, !.tail = none,
                                   !.cursor = Nobody]
  OBVIOUS
<1>a. read[r] \in Reading /\ Nobody \in Nat
  BY ReaderFacts DEF Nobody
<1>3. /\ R \in Reading /\ R.at = "page" /\ R.before = read[r].before
      /\ R.tail = none /\ R.prefix = none /\ R.cursor = Nobody
  BY <1>1, <1>a, <1>c DEF Reading, Places
<1>4. Len(none) = 0 /\ Frozen(none, Len(none), history, nextId, turn)
  BY <1>c DEF Frozen
<1>5. ReadingInv(r, R)
  <2>1. read[r].at \in {"lookup", "page", "join"}
    BY DEF RejectCursor, Miss
  <2>2. Len(R.prefix) # 1 /\ Frozen(R.prefix, Len(R.prefix), history, nextId, turn)
    BY <1>3, <1>4
  <2> QED BY <1>3, <1>c, <2>1, <2>2, StartsPaging
<1>6. read' = [read EXCEPT ![r] = R] /\ cache' = none /\ UNCHANGED host
  BY <1>1, <1>c DEF RejectCursor, Miss, ReadInFull
<1>7. cache' \in Seq(Record) /\ Len(cache') # 1
        /\ Frozen(cache', Len(cache'), history, nextId, turn)
  BY <1>4, <1>6, <1>c
<1> QED BY <1>3, <1>5, <1>6, <1>7, ReaderMoves

\* A page is read: the tail goes on where it ended.
LEMMA PageStep ==
  ASSUME CacheInv, NEW r \in Readers, ReadPage(r)
  PROVE  CacheInv'
<1>o. PICK O : O = read[r]
  OBVIOUS
<1>0. /\ TypeOK /\ HostInv /\ O \in Reading /\ ReadingInv(r, O)
      /\ O.tail \in Seq(Record) /\ Len(O.tail) \in Nat /\ O.cursor \in Nat
      /\ Len(history) \in Nat
  BY <1>o, ReaderFacts
<1>1. PICK page : page = PageAfter(O.cursor)
  OBVIOUS
<1>2. PICK first : first = FirstAfter(O.cursor)
  OBVIOUS
<1>b. first \in Nat /\ first <= Len(history)
  BY <1>0, <1>2, <1>o, PageFacts DEF ReadPage
<1>3. /\ page \in Seq(Record) /\ page # <<>> /\ Len(page) \in Nat \ {0}
      /\ first >= 1 /\ first - 1 + Len(page) <= Len(history)
      /\ \A k \in 1..Len(page) : page[k] = history[first - 1 + k]
      /\ O.cursor = Nobody => first = 1
      /\ \A i \in 1..Len(history) : history[i].id = O.cursor => first = i + 1
  <2>1. /\ page \in Seq(Record) /\ page # <<>>
        /\ first - 1 + Len(page) <= Len(history)
        /\ \A k \in 1..Len(page) : page[k] = history[first - 1 + k]
        /\ first \in 1..(Len(history) + 1)
    BY <1>0, <1>1, <1>2, <1>b, PageFacts
  <2>2. /\ O.cursor = Nobody => first = 1
        /\ \A i \in 1..Len(history) : history[i].id = O.cursor => first = i + 1
    BY <1>0, <1>2, PageFacts
  <2>3. Len(page) \in Nat \ {0} /\ first >= 1
    BY <1>0, <2>1
  <2> QED BY <2>1, <2>2, <2>3
<1>4. PICK R : R = [O EXCEPT !.tail = O.tail \o page, !.cursor = page[Len(page)].id]
  OBVIOUS
<1>5. /\ O.tail \o page \in Seq(Record)
      /\ Len(O.tail \o page) = Len(O.tail) + Len(page)
      /\ \A i \in 1..Len(O.tail) : (O.tail \o page)[i] = O.tail[i]
      /\ \A i \in 1..Len(page) : (O.tail \o page)[Len(O.tail) + i] = page[i]
  BY <1>3, <1>0, <1>b
<1>6. page[Len(page)].id \in Nat
  BY <1>3, RecordsOf
<1>7. R \in Reading
  BY <1>4, <1>5, <1>6, <1>0 DEF Reading
<1>8. /\ R.at = "page" /\ R.before = O.before /\ R.prefix = O.prefix
      /\ R.tail = O.tail \o page /\ R.cursor = page[Len(page)].id
      /\ O.at = "page"
  BY <1>0, <1>4, <1>o DEF Reading, ReadPage
<1>9. ASSUME R.before = revision
      PROVE  ReadingTracks(r, R)
  <2>1. ReadingTracks(r, O)
    BY <1>8, <1>9, <1>0 DEF ReadingInv
  <2>2. PICK off \in Nat :
          /\ Tracks(O.tail, off, history)
          /\ O.prefix = <<>> => off = 0
          /\ O.tail # <<>> => O.cursor = O.tail[Len(O.tail)].id
          /\ O.tail = <<>> /\ O.prefix = <<>> => O.cursor = Nobody
    BY <1>8, <2>1 DEF ReadingTracks
  <2>3. PICK at \in Nat :
          /\ first = at + Len(O.tail) + 1
          /\ Tracks(O.tail, at, history)
          /\ R.prefix = <<>> => at = 0
    <3>1. CASE O.tail = <<>>
      <4>1. PICK at \in Nat : first = at + 1
        BY <1>3, <1>b
      <4>2. Len(O.tail) = 0
        BY <3>1
      <4>3. Tracks(O.tail, at, history)
        BY <4>2 DEF Tracks
      <4>4. R.prefix = <<>> => at = 0
        BY <1>3, <1>8, <2>2, <3>1, <4>1
      <4> QED BY <4>1, <4>2, <4>3, <4>4
    <3>2. CASE O.tail # <<>>
      <4>1. Len(O.tail) \in 1..Len(O.tail)
        BY <3>2, <1>0, <1>b
      <4>2. off + Len(O.tail) \in 1..Len(history)
              /\ history[off + Len(O.tail)].id = O.cursor
        BY <2>2, <3>2, <4>1, <1>0 DEF Tracks
      <4>3. first = off + Len(O.tail) + 1
        BY <1>3, <4>2
      <4> QED BY <1>8, <2>2, <4>3
    <3> QED BY <3>1, <3>2
  <2>4. Tracks(R.tail, at, history)
    <3> SUFFICES ASSUME NEW i \in 1..Len(R.tail)
                 PROVE  /\ at + i <= Len(history)
                        /\ R.tail[i].id = history[at + i].id
                        /\ R.tail[i].kind = history[at + i].kind
                        /\ R.tail[i].complete => R.tail[i] = history[at + i]
      BY DEF Tracks
    <3>1. CASE i \in 1..Len(O.tail)
      BY <1>5, <1>8, <2>3, <3>1 DEF Tracks
    <3>2. CASE i \notin 1..Len(O.tail)
      <4>0. PICK k : k = i - Len(O.tail)
        OBVIOUS
      <4>1. k \in 1..Len(page) /\ i = Len(O.tail) + k
        BY <1>0, <1>3, <1>5, <1>8, <3>2, <4>0
      <4>2. R.tail[i] = history[at + i] /\ at + i <= Len(history)
        BY <1>3, <1>5, <1>8, <2>3, <4>1, <1>0, <1>b
      <4> QED BY <4>2
    <3> QED BY <3>1, <3>2
  <2>5. R.tail # <<>> /\ R.cursor = R.tail[Len(R.tail)].id
    BY <1>3, <1>5, <1>8, <1>0, <1>b
  <2> QED BY <1>8, <2>3, <2>4, <2>5 DEF ReadingTracks
<1>10. ReadingInv(r, R)
  BY <1>0, <1>8, <1>9 DEF ReadingInv, RestingWhileUnchanged, JoinedTracks,
     SettledIsFrozen
<1>11. read' = [read EXCEPT ![r] = R] /\ UNCHANGED <<host, cache>>
  <2>1. read' = [read EXCEPT ![r].tail = @ \o page, ![r].cursor = page[Len(page)].id]
    BY <1>1, <1>o DEF ReadPage
  <2>2. read[r] \in Reading /\ read \in [Readers -> Reading]
    BY ReaderFacts DEF TypeOK
  <2> QED BY <1>4, <1>o, <2>1, <2>2 DEF ReadPage
<1> QED BY <1>7, <1>10, <1>11, ReaderFacts, ReaderMoves

\* A page came back empty: what was read reaches the end of the history.
LEMMA LastPageStep ==
  ASSUME CacheInv, NEW r \in Readers, LastPage(r)
  PROVE  CacheInv'
<1>o. PICK O : O = read[r]
  OBVIOUS
<1>0. /\ TypeOK /\ HostInv /\ O \in Reading /\ ReadingInv(r, O)
      /\ O.tail \in Seq(Record) /\ Len(O.tail) \in Nat /\ O.cursor \in Nat
      /\ Len(history) \in Nat
  BY <1>o, ReaderFacts
<1>1. PICK first : first = FirstAfter(O.cursor)
  OBVIOUS
<1>2. /\ first > Len(history)
      /\ O.cursor = Nobody => first = 1
      /\ \A i \in 1..Len(history) : history[i].id = O.cursor => first = i + 1
  BY <1>0, <1>1, <1>o, PageFacts DEF LastPage
<1>3. PICK R : R = [O EXCEPT !.at = "join"]
  OBVIOUS
<1>4. /\ R \in Reading /\ R.at = "join" /\ R.before = O.before /\ R.prefix = O.prefix
      /\ R.tail = O.tail /\ O.at = "page"
  BY <1>0, <1>3, <1>o DEF Reading, Places, LastPage
<1>5. ASSUME R.before = revision
      PROVE  ReadingTracks(r, R)
  <2>1. ReadingTracks(r, O)
    BY <1>0, <1>4, <1>5 DEF ReadingInv
  <2>2. PICK off \in Nat :
          /\ Tracks(O.tail, off, history)
          /\ O.prefix = <<>> => off = 0
          /\ O.tail # <<>> => O.cursor = O.tail[Len(O.tail)].id
          /\ O.tail = <<>> /\ O.prefix = <<>> => O.cursor = Nobody
    BY <1>4, <2>1 DEF ReadingTracks
  <2>3. ASSUME O.tail # <<>> \/ O.prefix = <<>>
        PROVE  off + Len(O.tail) = Len(history)
    <3>1. CASE O.tail = <<>>
      <4>1. Len(O.tail) = 0
        BY <3>1
      <4> QED BY <1>0, <1>2, <2>2, <2>3, <3>1, <4>1
    <3>2. CASE O.tail # <<>>
      <4>1. Len(O.tail) \in 1..Len(O.tail)
        BY <1>0, <3>2
      <4>2. off + Len(O.tail) \in 1..Len(history)
              /\ history[off + Len(O.tail)].id = O.cursor
        BY <1>0, <2>2, <3>2, <4>1 DEF Tracks
      <4> QED BY <1>0, <1>2, <4>2
    <3> QED BY <3>1, <3>2
  <2> QED BY <1>4, <2>2, <2>3 DEF ReadingTracks
<1>6. ReadingInv(r, R)
  BY <1>0, <1>4, <1>5 DEF ReadingInv, RestingWhileUnchanged, JoinedTracks, SettledIsFrozen
<1>7. read' = [read EXCEPT ![r] = R] /\ UNCHANGED <<host, cache>>
  <2>1. read[r] \in Reading /\ read \in [Readers -> Reading]
    BY <1>0, <1>o DEF TypeOK
  <2> QED BY <1>3, <1>o, <2>1 DEF LastPage, Moves
<1> QED BY <1>4, <1>6, <1>7, ReaderFacts, ReaderMoves

\* The overlap places a tail right after the prefix it was read for.
LEMMA OverlapJoins ==
  ASSUME NEW p \in Seq(Record), NEW t \in Seq(Record), NEW h \in Seq(Record),
         NEW off \in Nat, NEW next, NEW u,
         p # <<>>, Frozen(p, Len(p), h, next, u), Tracks(t, off, h), Overlaps(p, t)
  PROVE  /\ p \o Tail(t) \in Seq(Record)
         /\ Tracks(p \o Tail(t), 0, h)
         /\ Len(p \o Tail(t)) = off + Len(t)
<1>0. PICK n, m, l : n = Len(p) /\ m = Len(t) /\ l = Len(h)
  OBVIOUS
<1>1. n \in Nat \ {0} /\ m \in Nat \ {0} /\ l \in Nat
  BY <1>0 DEF Overlaps
<1>2. PICK q : q = Tail(t)
  OBVIOUS
<1>3. /\ q \in Seq(Record) /\ Len(q) = m - 1
      /\ \A i \in 1..(m - 1) : q[i] = t[i + 1]
  BY <1>0, <1>1, <1>2
<1>4. PICK s : s = p \o q
  OBVIOUS
<1>5. /\ s \in Seq(Record) /\ Len(s) = n + m - 1
      /\ \A i \in 1..n : s[i] = p[i]
      /\ \A i \in 1..(m - 1) : s[n + i] = q[i]
  <2>1. /\ s \in Seq(Record) /\ Len(s) = n + (m - 1)
        /\ \A i \in 1..(n + (m - 1)) : s[i] = IF i <= n THEN p[i] ELSE q[i - n]
    <3>1. /\ p \o q \in Seq(Record) /\ Len(p \o q) = Len(p) + Len(q)
          /\ \A i \in 1..(Len(p) + Len(q)) :
               (p \o q)[i] = IF i <= Len(p) THEN p[i] ELSE q[i - Len(p)]
      BY <1>3, ConcatProperties, ZenonT(20)
    <3>2. Len(p) = n /\ Len(q) = m - 1
      BY <1>0, <1>3
    <3> QED BY <1>4, <3>1, <3>2, ZenonT(20)
  <2>2. ASSUME NEW i \in 1..n PROVE s[i] = p[i]
    <3>1. i \in 1..(n + (m - 1)) /\ i <= n
      BY <1>1
    <3> QED BY <2>1, <3>1
  <2>3. ASSUME NEW i \in 1..(m - 1) PROVE s[n + i] = q[i]
    <3>1. n + i \in 1..(n + (m - 1)) /\ ~(n + i <= n) /\ (n + i) - n = i
      BY <1>1
    <3> QED BY <2>1, <3>1
  <2>4. n + (m - 1) = n + m - 1
    BY <1>1
  <2> QED BY <2>1, <2>2, <2>3, <2>4
<1>6. /\ off + 1 <= l /\ t[1] = p[n] /\ p[n].complete /\ t[1] = h[off + 1]
  BY <1>0, <1>1 DEF Overlaps, Frozen, Tracks
<1>7. off + 1 = n /\ n <= l /\ \A j \in 1..n : h[j] = p[j]
  <2>1. off + 1 \in 1..Len(h) /\ n \in 1..Len(p) /\ h[off + 1].id = p[n].id
    BY <1>0, <1>1, <1>6
  <2> QED BY <1>0, <1>1, <1>6, <2>1 DEF Frozen
<1>8. ASSUME NEW i \in 1..Len(s)
      PROVE  /\ i <= l
             /\ s[i].id = h[i].id /\ s[i].kind = h[i].kind
             /\ s[i].complete => s[i] = h[i]
  <2>1. CASE i <= n
    BY <1>1, <1>5, <1>7, <2>1
  <2>2. CASE i > n
    <3>0. PICK k : k = i - n
      OBVIOUS
    <3>1. k \in 1..(m - 1) /\ i = n + k /\ k + 1 \in 1..m /\ off + (k + 1) = i
      BY <1>1, <1>5, <1>7, <2>2, <3>0
    <3>2. s[i] = t[k + 1]
      BY <1>3, <1>5, <3>1
    <3>3. /\ off + (k + 1) <= l
          /\ t[k + 1].id = h[off + (k + 1)].id /\ t[k + 1].kind = h[off + (k + 1)].kind
          /\ t[k + 1].complete => t[k + 1] = h[off + (k + 1)]
      BY <1>0, <3>1 DEF Tracks
    <3> QED BY <3>1, <3>2, <3>3
  <2> QED BY <1>1, <1>5, <2>1, <2>2
<1>9. Tracks(s, 0, h)
  <2>1. \A i \in 1..Len(s) : 0 + i = i
    BY <1>1, <1>5
  <2> QED BY <1>0, <1>8, <2>1 DEF Tracks
<1>10. Len(s) = off + m
  BY <1>1, <1>5, <1>7
<1> QED BY <1>0, <1>2, <1>4, <1>5, <1>9, <1>10

\* The tail is joined to the cached prefix.
LEMMA JoinStep ==
  ASSUME CacheInv, NEW r \in Readers, Join(r)
  PROVE  CacheInv'
<1>o. PICK O : O = read[r]
  OBVIOUS
<1>0. /\ TypeOK /\ O \in Reading /\ ReadingInv(r, O)
      /\ O.tail \in Seq(Record) /\ O.prefix \in Seq(Record)
      /\ history \in Seq(Record)
  BY <1>o, ReaderFacts
<1>1. PICK none \in Seq(Record) : none = <<>>
  BY EmptyTail
<1>2. PICK t : t = Joined(O.prefix, O.tail)
  OBVIOUS
<1>3. O.at = "join" /\ (O.prefix # <<>> => Overlaps(O.prefix, O.tail))
  BY <1>o DEF Join
<1>4. t \in Seq(Record)
  <2>1. CASE O.prefix = <<>>
    BY <1>0, <1>2, <2>1 DEF Joined
  <2>2. CASE O.prefix # <<>>
    <3>1. O.tail # <<>>
      BY <1>3, <2>2 DEF Overlaps
    <3>2. Tail(O.tail) \in Seq(Record)
      BY <1>0, <3>1
    <3> QED BY <1>0, <1>2, <2>2, <3>2 DEF Joined
  <2> QED BY <2>1, <2>2
<1>5. PICK R : R = [O EXCEPT !.at = "recheck", !.prefix = none, !.tail = t]
  OBVIOUS
<1>6. /\ R \in Reading /\ R.at = "recheck" /\ R.before = O.before /\ R.prefix = none
      /\ R.tail = t
  BY <1>0, <1>4, <1>5 DEF Reading, Places
<1>7. ASSUME R.before = revision
      PROVE  Tracks(t, 0, history) /\ (r \in Strict => Len(t) = Len(history))
  <2>1. ReadingTracks(r, O)
    BY <1>0, <1>6, <1>7 DEF ReadingInv
  <2>2. PICK off \in Nat :
          /\ Tracks(O.tail, off, history)
          /\ O.prefix = <<>> => off = 0
          /\ r \in Strict /\ (O.tail # <<>> \/ O.prefix = <<>>) =>
               off + Len(O.tail) = Len(history)
    BY <1>3, <2>1 DEF ReadingTracks
  <2>3. CASE O.prefix = <<>>
    <3>1. Len(O.tail) \in Nat /\ off = 0 /\ t = O.tail
      BY <1>0, <1>2, <2>2, <2>3 DEF Joined
    <3> QED BY <2>2, <2>3, <3>1
  <2>4. CASE O.prefix # <<>>
    <3>1. /\ O.prefix \in Seq(Record) /\ O.tail \in Seq(Record) /\ history \in Seq(Record)
          /\ Frozen(O.prefix, Len(O.prefix), history, nextId, turn)
          /\ Tracks(O.tail, off, history)
      BY <1>0, <2>2 DEF ReadingInv
    <3>2. Overlaps(O.prefix, O.tail) /\ O.tail # <<>>
      BY <1>3, <2>4 DEF Overlaps
    <3>3. /\ Tracks(O.prefix \o Tail(O.tail), 0, history)
          /\ Len(O.prefix \o Tail(O.tail)) = off + Len(O.tail)
      BY <2>4, <3>1, <3>2, OverlapJoins, ZenonT(30)
    <3> QED BY <1>2, <2>2, <2>4, <3>2, <3>3 DEF Joined
  <2> QED BY <2>3, <2>4
<1>8. ReadingInv(r, R)
  <2>1. Len(R.prefix) = 0
    BY <1>1, <1>6
  <2>2. Frozen(R.prefix, Len(R.prefix), history, nextId, turn)
    BY <2>1 DEF Frozen
  <2> QED BY <1>0, <1>3, <1>6, <1>7, <2>1, <2>2 DEF ReadingInv, RestingWhileUnchanged,
       ReadingTracks, JoinedTracks, SettledIsFrozen
<1>9. read' = [read EXCEPT ![r] = R] /\ UNCHANGED <<host, cache>>
  <2>1. read[r] \in Reading /\ read \in [Readers -> Reading]
    BY <1>0, <1>o DEF TypeOK
  <2> QED BY <1>1, <1>2, <1>5, <1>o, <2>1 DEF Join
<1> QED BY <1>6, <1>8, <1>9, ReaderFacts, ReaderMoves

\* Settled records of a stable snapshot are frozen: they are complete, and the
\* assistant a retry may revive is the latest of a history read to its end.
LEMMA StableIsFrozen ==
  ASSUME Regime, TypeOK, HostInv, NEW r \in Readers, NEW t \in Seq(Record),
         NEW n \in 0..Len(t), SettledLength(t, n), Tracks(t, 0, history),
         r \in Strict => Len(t) = Len(history)
  PROVE  Frozen(t, n, history, nextId, turn)
<1>0. PICK m, l : m = Len(t) /\ l = Len(history)
  OBVIOUS
<1>1. m \in Nat /\ l \in Nat /\ n \in 0..m
  BY <1>0 DEF TypeOK
<1>2. \A k \in 1..n : t[k].complete /\ ~IsLatestAssistant(t, k)
  BY DEF SettledLength, Settles
<1>3. \A k \in 1..m : /\ k \in 1..l
                      /\ t[k].id = history[k].id /\ t[k].kind = history[k].kind
                      /\ t[k].complete => t[k] = history[k]
  <2>1. \A k \in 1..m : 0 + k = k
    BY <1>1
  <2> QED BY <1>0, <1>1, <2>1 DEF Tracks
<1>4. SUFFICES ASSUME NEW k \in 1..n
      PROVE /\ t[k].complete /\ t[k].id < nextId
            /\ MaxRevivals = 0 \/ t[k].id # turn
            /\ \A i \in 1..Len(history) :
                 history[i].id = t[k].id => i = k /\ \A j \in 1..k : history[j] = t[j]
  BY DEF Frozen
<1>5. k \in 1..m /\ k \in 1..l /\ t[k] = history[k] /\ t[k].complete
  BY <1>1, <1>2, <1>3
<1>6. t[k].id < nextId
  BY <1>0, <1>5 DEF HostInv
<1>7. ASSUME MaxRevivals # 0, t[k].id = turn
      PROVE  FALSE
  <2>1. m = l
    BY <1>0, <1>7 DEF Regime
  <2>2. IsLatestAssistant(history, k)
    BY <1>0, <1>5, <1>7 DEF HostInv
  <2>3. IsLatestAssistant(t, k)
    BY <1>0, <1>1, <1>3, <1>5, <2>1, <2>2 DEF IsLatestAssistant
  <2> QED BY <1>2, <2>3
<1>8. ASSUME NEW i \in 1..Len(history), history[i].id = t[k].id
      PROVE  i = k /\ \A j \in 1..k : history[j] = t[j]
  <2>1. \A a, b \in 1..l : a < b => history[a].id < history[b].id
    BY <1>0 DEF HostInv
  <2>2. \A a \in 1..l : history[a].id \in Nat
    BY <1>0, RecordsOf DEF TypeOK
  <2>3. i = k
    <3>1. i \in 1..l /\ history[i].id = history[k].id
      BY <1>0, <1>5, <1>8
    <3> QED BY <1>1, <1>5, <2>1, <2>2, <3>1
  <2>4. \A j \in 1..k : j \in 1..n /\ j \in 1..m
    BY <1>1
  <2> QED BY <1>2, <1>3, <2>3, <2>4
<1> QED BY <1>5, <1>6, <1>7, <1>8

\* The session info is read for the second time.
LEMMA RecheckStep ==
  ASSUME Regime, CacheInv, NEW r \in Readers, Recheck(r)
  PROVE  CacheInv'
<1>o. PICK O : O = read[r]
  OBVIOUS
<1>0. /\ TypeOK /\ HostInv /\ O \in Reading /\ ReadingInv(r, O)
      /\ O.tail \in Seq(Record) /\ revision \in Nat
  BY <1>o, ReaderFacts
<1>1. PICK b \in BOOLEAN : b = (O.before = revision)
  OBVIOUS
<1>2. PICK R : R = [O EXCEPT !.at = "confirm", !.stable = b]
  OBVIOUS
<1>3. /\ R \in Reading /\ R.at = "confirm" /\ R.before = O.before /\ R.prefix = O.prefix
      /\ R.tail = O.tail /\ R.stable = b
  BY <1>0, <1>1, <1>2 DEF Reading, Places
<1>4. O.at = "recheck"
  BY <1>o DEF Recheck
<1>5. ASSUME R.stable
      PROVE  \A n \in 0..Len(R.tail) :
               SettledLength(R.tail, n) => Frozen(R.tail, n, history, nextId, turn)
  <2>1. Tracks(O.tail, 0, history) /\ (r \in Strict => Len(O.tail) = Len(history))
    BY <1>0, <1>1, <1>3, <1>4, <1>5 DEF ReadingInv, JoinedTracks
  <2> QED BY <1>0, <1>3, <2>1, StableIsFrozen
<1>6. ReadingInv(r, R)
  BY <1>0, <1>3, <1>5 DEF ReadingInv, RestingWhileUnchanged, ReadingTracks, JoinedTracks,
     SettledIsFrozen
<1>7. read' = [read EXCEPT ![r] = R] /\ UNCHANGED <<host, cache>>
  <2>1. read[r] \in Reading /\ read \in [Readers -> Reading]
    BY <1>0, <1>o DEF TypeOK
  <2> QED BY <1>1, <1>2, <1>o, <2>1 DEF Recheck
<1> QED BY <1>3, <1>6, <1>7, ReaderFacts, ReaderMoves

\* What may be remembered of records whose settled part is frozen.
LEMMA RememberedIsFrozen ==
  ASSUME TypeOK, NEW t \in Seq(Record), NEW n \in 0..Len(t),
         Frozen(t, n, history, nextId, turn), NEW c,
         c = IF n < 2 THEN <<>> ELSE SubSeq(t, 1, n)
  PROVE  /\ c \in Seq(Record) /\ Len(c) # 1
         /\ Frozen(c, Len(c), history, nextId, turn)
<1>1. CASE n < 2
  <2>1. c \in Seq(Record) /\ Len(c) = 0
    BY <1>1, EmptyTail
  <2> QED BY <2>1 DEF Frozen
<1>2. CASE ~(n < 2)
  <2>0. PICK m : m = Len(t)
    OBVIOUS
  <2>1. m \in Nat /\ n \in 0..m /\ c = SubSeq(t, 1, n)
    BY <1>2, <2>0
  <2>2. /\ c \in Seq(Record) /\ Len(c) = n
        /\ \A i \in 1..n : c[i] = t[i]
    BY <2>0, <2>1
  <2>3. \A k \in 1..n : \A j \in 1..k : j \in 1..n
    BY <2>1
  <2> QED BY <1>2, <2>1, <2>2, <2>3 DEF Frozen
<1> QED BY <1>1, <1>2

\* A snapshot ends, for good or for another attempt.
LEMMA LastRequest ==
  ASSUME CacheInv, NEW r \in Readers, Confirm(r) \/ Unstable(r) \/ Fail(r)
  PROVE  CacheInv'
<1>o. PICK O : O = read[r]
  OBVIOUS
<1>0. /\ TypeOK /\ O \in Reading /\ ReadingInv(r, O) /\ O.tail \in Seq(Record)
      /\ O.attempt \in Nat /\ UNCHANGED host
      /\ cache \in Seq(Record) /\ Len(cache) # 1
      /\ Frozen(cache, Len(cache), history, nextId, turn)
  BY <1>o, ReaderFacts DEF Confirm, Unstable, Fail
<1>1. PICK R : R = Resting
  OBVIOUS
<1>2. R \in Reading /\ ReadingInv(r, R)
  BY <1>0, <1>1, RestingType, StartingOver
<1>3. CASE Confirm(r)
  <2>1. O.at = "confirm" /\ O.stable /\ Remember(O.tail) /\ read' = [read EXCEPT ![r] = R]
    BY <1>1, <1>3, <1>o DEF Confirm
  <2>2. PICK n \in 0..Len(O.tail) :
          /\ SettledLength(O.tail, n)
          /\ cache' = IF n < 2 THEN <<>> ELSE SubSeq(O.tail, 1, n)
    BY <2>1 DEF Remember
  <2>3. Frozen(O.tail, n, history, nextId, turn)
    BY <1>0, <2>1, <2>2 DEF ReadingInv, SettledIsFrozen
  <2>4. PICK c : c = IF n < 2 THEN <<>> ELSE SubSeq(O.tail, 1, n)
    OBVIOUS
  <2>5. /\ c \in Seq(Record) /\ Len(c) # 1
        /\ Frozen(c, Len(c), history, nextId, turn)
    BY <1>0, <2>3, <2>4, RememberedIsFrozen
  <2>6. cache' = c
    BY <2>2, <2>4
  <2>7. cache' \in Seq(Record) /\ Len(cache') # 1
          /\ Frozen(cache', Len(cache'), history, nextId, turn)
    BY <2>5, <2>6
  <2> QED BY <1>0, <1>2, <2>1, <2>7, ReaderMoves
<1>4. CASE Unstable(r)
  <2>1. CASE O.attempt < SnapshotAttempts
    <3>1. PICK n : n = O.attempt + 1
      OBVIOUS
    <3>2. PICK Q : Q = [Resting EXCEPT !.at = "begin", !.attempt = n]
      OBVIOUS
    <3>3. n \in Nat
      BY <1>0, <3>1
    <3>4. Q \in Reading /\ Q.at = "begin" /\ Q.before = 0 /\ Q.prefix = <<>>
      BY <3>2, <3>3, RestingType
    <3>5. ReadingInv(r, Q)
      BY <1>0, <3>4, StartingOver
    <3>6. read' = [read EXCEPT ![r] = Q] /\ UNCHANGED cache
      BY <1>4, <1>o, <2>1, <3>1, <3>2 DEF Unstable
    <3> QED BY <1>0, <3>4, <3>5, <3>6, ReaderMoves
  <2>2. CASE ~(O.attempt < SnapshotAttempts)
    <3>1. read' = [read EXCEPT ![r] = R] /\ UNCHANGED cache
      BY <1>1, <1>4, <1>o, <2>2 DEF Unstable
    <3> QED BY <1>0, <1>2, <3>1, ReaderMoves
  <2> QED BY <2>1, <2>2
<1>5. CASE Fail(r)
  <2>1. read' = [read EXCEPT ![r] = R] /\ UNCHANGED cache
    BY <1>1, <1>5 DEF Fail
  <2> QED BY <1>0, <1>2, <2>1, ReaderMoves
<1> QED BY <1>3, <1>4, <1>5

-----------------------------------------------------------------------------
(* Theorems. *)

LEMMA CacheInvInit == Init => CacheInv
<1> SUFFICES ASSUME Init PROVE CacheInv
  OBVIOUS
<1>1. /\ history = <<>> /\ nextId = 1 /\ revision = 0 /\ active = FALSE
      /\ turn = 0 /\ revivals = 0 /\ cache = <<>>
      /\ read = [r \in Readers |-> Resting]
  BY DEF Init, Nobody
<1>2. Len(history) = 0 /\ Len(cache) = 0 /\ history \in Seq(Record) /\ cache \in Seq(Record)
  BY <1>1, EmptyTail
<1>3. 0 \in 0..MaxRevivals
  BY HistoryAssumption
<1>4. TypeOK
  <2>1. read \in [Readers -> Reading]
    BY <1>1, RestingType
  <2>2. active \in BOOLEAN
    BY DEF Init
  <2>3. nextId \in Nat \ {0} /\ revision \in Nat /\ turn \in Nat
    BY <1>1
  <2>4. revivals \in 0..MaxRevivals
    BY <1>1, <1>3
  <2> QED BY <1>2, <2>1, <2>2, <2>3, <2>4 DEF TypeOK
<1>5. HostInv
  BY <1>1, <1>2 DEF HostInv
<1>6. Frozen(cache, Len(cache), history, nextId, turn)
  BY <1>2 DEF Frozen
<1>7. ASSUME NEW r \in Readers PROVE ReadingInv(r, read[r])
  BY <1>1, <1>4, RestingType, StartingOver
<1> QED BY <1>4, <1>5, <1>6, <1>7 DEF CacheInv

LEMMA CacheInvNext ==
  ASSUME Regime, CacheInv, [Next]_vars
  PROVE  CacheInv'
<1>1. CASE Host
  <2>1. /\ TypeOK /\ HostInv /\ cache \in Seq(Record) /\ Len(cache) \in 0..Len(cache)
        /\ Frozen(cache, Len(cache), history, nextId, turn)
    BY DEF CacheInv, TypeOK
  <2>2. TypeOK' /\ HostInv' /\ Follows /\ UNCHANGED <<cache, read>>
    BY <1>1, <2>1, HostStep
  <2>3. Frozen(cache, Len(cache), history', nextId', turn')
    BY <2>1, <2>2, FrozenStays
  <2>4. ASSUME NEW r \in Readers PROVE ReadingInv(r, read[r])'
    <3>1. PICK R : R = read[r]
      OBVIOUS
    <3>2. R \in Reading /\ ReadingInv(r, R)
      BY <3>1 DEF CacheInv, TypeOK
    <3>3. ReadingInv(r, R)'
      BY <1>1, <2>1, <3>2, HostKeepsReaders
    <3> QED BY <2>2, <3>1, <3>3
  <2> QED BY <2>2, <2>3, <2>4 DEF CacheInv
<1>2. ASSUME NEW r \in Readers, Snapshot(r) PROVE CacheInv'
  BY <1>2, FirstRequests, LookupStep, PageStep, LastPageStep, FullReadStep, JoinStep,
     RecheckStep, LastRequest DEF Snapshot
<1>3. CASE UNCHANGED vars
  <2>1. UNCHANGED <<history, nextId, revision, active, turn, revivals, cache, read>>
    BY <1>3 DEF vars, host
  <2>2. TypeOK'
    BY <2>1 DEF CacheInv, TypeOK
  <2>3. HostInv'
    BY <2>1 DEF CacheInv, HostInv, IsLatestAssistant
  <2>4. Frozen(cache, Len(cache), history, nextId, turn)'
    BY <2>1 DEF CacheInv
  <2>5. ASSUME NEW r \in Readers PROVE ReadingInv(r, read[r])'
    BY <2>1 DEF CacheInv, ReadingInv, RestingWhileUnchanged, ReadingTracks, JoinedTracks,
       SettledIsFrozen
  <2> QED BY <2>2, <2>3, <2>4, <2>5 DEF CacheInv
<1> QED BY <1>1, <1>2, <1>3 DEF Next

\* Where every caller demands an inactive session, as the projections do, or
\* where no step retry revives an assistant, the invariant holds.
THEOREM HistoryInvariant ==
  ASSUME Regime
  PROVE  Spec => []CacheInv
<1>1. Init => CacheInv
  BY CacheInvInit
<1>2. CacheInv /\ [Next]_vars => CacheInv'
  BY CacheInvNext
<1> QED BY <1>1, <1>2, PTL DEF Spec

\* The host, the cache and every reader keep their types; a cache of a single
\* record is never kept.
THEOREM HistoryTypeCorrect ==
  ASSUME Regime
  PROVE  Spec => []TypeOK
<1>1. CacheInv => TypeOK
  BY DEF CacheInv
<1> QED BY <1>1, HistoryInvariant, PTL

\* The promise of the comment on HistoryCache: while its last message exists
\* unchanged, the cached prefix is what the history begins with.
THEOREM CachedPrefixIsSettled ==
  ASSUME Regime
  PROVE  Spec => []CacheIsSettled
<1>1. CacheInv => CacheIsSettled
  <2> SUFFICES ASSUME CacheInv, NEW i \in 1..Len(history), cache # <<>>,
                      history[i] = cache[Len(cache)]
               PROVE  i = Len(cache) /\ SubSeq(history, 1, i) = cache
    BY DEF CacheIsSettled, IsSettled
  <2>1. /\ cache \in Seq(Record) /\ history \in Seq(Record)
        /\ Frozen(cache, Len(cache), history, nextId, turn)
    BY DEF CacheInv, TypeOK
  <2>2. PICK n, l : n = Len(cache) /\ l = Len(history)
    OBVIOUS
  <2>3. n \in Nat \ {0} /\ l \in Nat
    BY <2>1, <2>2
  <2>4. i = n /\ \A j \in 1..n : history[j] = cache[j]
    BY <2>1, <2>2, <2>3 DEF Frozen
  <2>5. PICK s : s = SubSeq(history, 1, n)
    OBVIOUS
  <2>6. s \in Seq(Record) /\ Len(s) = n /\ \A j \in 1..n : s[j] = history[j]
    BY <2>1, <2>2, <2>3, <2>4, <2>5
  <2>7. s = cache
    BY <2>1, <2>2, <2>4, <2>6, SeqEqual
  <2> QED BY <2>2, <2>4, <2>5, <2>7
<1> QED BY <1>1, HistoryInvariant, PTL

\* Only the second read of the session info makes a snapshot stable.
LEMMA OnlyRecheckConfirms ==
  ASSUME CacheInv, Next, NEW r \in Readers,
         read[r].at = "recheck", read'[r].at = "confirm"
  PROVE  Recheck(r)
<1>0. read \in [Readers -> Reading]
  BY DEF CacheInv, TypeOK
<1>1. CASE Host
  BY <1>1 DEF Host, Admit, StartStep, StartShell, Complete, Revive, GoIdle, Revert
<1>2. ASSUME NEW q \in Readers, Snapshot(q), q # r PROVE FALSE
  <2>1. read'[r] = read[r]
    BY <1>0, <1>2 DEF Snapshot, Begin, ReadInfo, ReadStatus, Lookup, ReadPage, LastPage,
       Moves, RejectCursor, ReadInFull, Join, Miss, Recheck, Confirm, Unstable, Fail
  <2> QED BY <2>1
<1>3. ASSUME Snapshot(r), ~Recheck(r) PROVE FALSE
  <2>1. Fail(r)
    BY <1>3 DEF Snapshot, Begin, ReadInfo, ReadStatus, Lookup, ReadPage, LastPage,
       RejectCursor, Join, Miss, Confirm, Unstable
  <2>2. read'[r].at = "idle"
    BY <1>0, <2>1, RestingType DEF Fail
  <2> QED BY <2>2
<1> QED BY <1>1, <1>2, <1>3 DEF Next

\* What an incremental read of a resting session returns is what a full read
\* at the moment of the second session info would have.
THEOREM RestingReadsAreCurrent ==
  ASSUME Regime
  PROVE  Spec => StableReadsAreCurrent
<1>1. ASSUME CacheInv, [Next]_vars, NEW r \in Strict,
             read[r].at = "recheck", read'[r].at = "confirm", read'[r].stable
      PROVE  Current(read[r].tail)
  <2>1. r \in Readers /\ Next
    BY <1>1, HistoryAssumption DEF vars
  <2>2. Recheck(r)
    BY <1>1, <2>1, OnlyRecheckConfirms
  <2>3. /\ ReadingInv(r, read[r]) /\ read[r].tail \in Seq(Record)
        /\ Len(read[r].tail) \in Nat /\ TypeOK
    BY <1>1, <2>1, ReaderFacts
  <2>4. read[r].before = revision
    BY <1>1, <2>1, <2>2, <2>3 DEF Recheck, TypeOK, Reading
  <2>5. /\ Tracks(read[r].tail, 0, history) /\ Len(read[r].tail) = Len(history)
    BY <1>1, <2>3, <2>4 DEF ReadingInv, JoinedTracks
  <2>6. \A i \in 1..Len(read[r].tail) : 0 + i = i
    BY <2>3
  <2> QED BY <2>3, <2>5, <2>6 DEF Current, Tracks
<1>2. CacheInv /\ [Next]_vars =>
        [\A r \in Strict :
           read[r].at = "recheck" /\ read'[r].at = "confirm" /\ read'[r].stable =>
             Current(read[r].tail)]_vars
  BY <1>1
<1>3. Spec => [][Next]_vars
  BY DEF Spec
<1> QED BY <1>2, <1>3, HistoryInvariant, PTL DEF StableReadsAreCurrent
=============================================================================
