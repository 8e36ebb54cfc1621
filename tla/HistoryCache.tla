---------------------------- MODULE HistoryCache ----------------------------
(***************************************************************************)
(* Reading the history of one session from the OpenCode host through the   *)
(* v2 plugin's Transport (packages/opencode-v2-plugin/src/transport.ts):   *)
(* snapshot, history, cachedRecords and remember.                          *)
(*                                                                         *)
(* A snapshot is six or more HTTP requests, and the host goes on between   *)
(* them.  The plugin keeps the settled prefix of the last stable snapshot  *)
(* and later reads only what follows it, so a record that changes after it *)
(* was cached would be served for ever.                                    *)
(*                                                                         *)
(* A record is its id, its kind, whether it is complete and a version that *)
(* tells two states of it apart.  The host is external: it is modelled     *)
(* from what the comments and tests of the plugin say of OpenCode 2.0.8.   *)
(***************************************************************************)
EXTENDS Naturals, Sequences

CONSTANTS
  Readers,           \* callers of snapshot with incremental reads
  Strict,            \* those that demand an inactive session (ingestion)
  PageSize,          \* messages per page
  SnapshotAttempts,  \* one more than SNAPSHOT_RETRY_DELAYS_MS has entries
  MaxRecords,        \* bound: messages ever created
  MaxRevision,       \* bound: admissions, idle transitions and reverts
  MaxRevivals        \* bound: step retries that revive an assistant

ASSUME HistoryAssumption ==
  /\ Strict \subseteq Readers
  /\ PageSize \in Nat \ {0}
  /\ SnapshotAttempts \in Nat \ {0}
  /\ MaxRecords \in Nat /\ MaxRevision \in Nat /\ MaxRevivals \in Nat

Kinds  == {"user", "assistant", "shell"}
Record == [id : Nat \ {0}, kind : Kinds, version : Nat, complete : BOOLEAN]

\* No message has id 0: a read from the start, or a session without a turn.
Nobody == 0

VARIABLES
  history,   \* the host's messages, in sequence
  nextId,    \* the next message id
  revision,  \* what session info shows: admissions, idle transitions, reverts
  active,    \* whether the host runs the session
  turn,      \* the latest assistant, if a step retry may revive it
  revivals,  \* how often one did
  cache,     \* Transport.histories for this session; empty when there is none
  read       \* what each caller of snapshot knows

host == <<history, nextId, revision, active, turn, revivals>>
vars == <<host, cache, read>>

Places  == {"idle", "begin", "status", "lookup", "page", "join", "recheck", "confirm"}
Reading == [at : Places, attempt : Nat, before : Nat, status : BOOLEAN,
            stable : BOOLEAN, prefix : Seq(Record), tail : Seq(Record),
            cursor : Nat]

Resting == [at |-> "idle", attempt |-> 0, before |-> 0, status |-> FALSE,
            stable |-> FALSE, prefix |-> <<>>, tail |-> <<>>, cursor |-> Nobody]

\* A cache holds no single record: the overlap needs one before the last.
TypeOK ==
  /\ history \in Seq(Record)
  /\ nextId \in Nat \ {0} /\ revision \in Nat /\ active \in BOOLEAN
  /\ turn \in Nat /\ revivals \in 0..MaxRevivals
  /\ cache \in Seq(Record) /\ Len(cache) # 1
  /\ read \in [Readers -> Reading]

Init ==
  /\ history = <<>> /\ nextId = 1 /\ revision = 0 /\ active = FALSE
  /\ turn = Nobody /\ revivals = 0
  /\ cache = <<>>
  /\ read = [r \in Readers |-> Resting]

-----------------------------------------------------------------------------
(* The host.  Rows are appended and keep their place; the only deletion is *)
(* a committed revert, which removes a suffix.                             *)

NewRecord(kind, complete) ==
  [id |-> nextId, kind |-> kind, version |-> 0, complete |-> complete]

AppendRecord(kind, complete) ==
  /\ nextId <= MaxRecords
  /\ history' = Append(history, NewRecord(kind, complete))
  /\ nextId' = nextId + 1

Revise == revision < MaxRevision /\ revision' = revision + 1

\* A user message, at rest or into a running turn, moves time.updated.
Admit ==
  /\ AppendRecord("user", TRUE)
  /\ Revise
  /\ active' = TRUE
  /\ UNCHANGED <<turn, revivals, cache, read>>

TurnIsComplete ==
  \A i \in 1..Len(history) : history[i].id = turn => history[i].complete

StartStep ==
  /\ active /\ TurnIsComplete
  /\ AppendRecord("assistant", FALSE)
  /\ turn' = nextId
  /\ UNCHANGED <<revision, active, revivals, cache, read>>

StartShell ==
  /\ active
  /\ AppendRecord("shell", FALSE)
  /\ UNCHANGED <<revision, active, turn, revivals, cache, read>>

Changed(i, complete) ==
  history' = [history EXCEPT ![i].complete = complete, ![i].version = @ + 1]

\* A step ends, or a shell in the background does, even in an idle session.
Complete ==
  /\ \E i \in 1..Len(history) : ~history[i].complete /\ Changed(i, TRUE)
  /\ UNCHANGED <<nextId, revision, active, turn, revivals, cache, read>>

\* A step retry runs the latest assistant again.
Revive ==
  /\ active /\ revivals < MaxRevivals
  /\ \E i \in 1..Len(history) :
       history[i].id = turn /\ history[i].complete /\ Changed(i, FALSE)
  /\ revivals' = revivals + 1
  /\ UNCHANGED <<nextId, revision, active, turn, cache, read>>

GoIdle ==
  /\ active /\ TurnIsComplete
  /\ Revise
  /\ active' = FALSE
  /\ UNCHANGED <<history, nextId, turn, revivals, cache, read>>

Revert ==
  /\ ~active
  /\ \E i \in 1..Len(history) : history' = SubSeq(history, 1, i - 1)
  /\ Revise
  /\ turn' = Nobody
  /\ UNCHANGED <<nextId, active, revivals, cache, read>>

Host == Admit \/ StartStep \/ StartShell \/ Complete \/ Revive \/ GoIdle \/ Revert

-----------------------------------------------------------------------------
(* One snapshot.  Every action is one response of the host together with   *)
(* what the plugin does before its next await.                             *)

Moves(r, at) == read' = [read EXCEPT ![r].at = at]

Begin(r) ==
  /\ read[r].at = "idle"
  /\ read' = [read EXCEPT ![r] = [Resting EXCEPT !.at = "begin", !.attempt = 1]]
  /\ UNCHANGED <<host, cache>>

ReadInfo(r) ==
  /\ read[r].at = "begin"
  /\ read' = [read EXCEPT ![r].at = "status", ![r].before = revision]
  /\ UNCHANGED <<host, cache>>

\* "session is active" is thrown to a caller that wants it at rest.
ReadStatus(r) ==
  /\ read[r].at = "status"
  /\ read' = [read EXCEPT ![r] =
                IF r \in Strict /\ active
                THEN Resting
                ELSE [@ EXCEPT !.at = "lookup", !.status = active]]
  /\ UNCHANGED <<host, cache>>

\* The overlap is anchored on the last but one of the cached messages.
Lookup(r) ==
  /\ read[r].at = "lookup"
  /\ read' = [read EXCEPT ![r] =
                [@ EXCEPT !.at = "page", !.prefix = cache, !.tail = <<>>,
                          !.cursor = IF cache = <<>> THEN Nobody
                                     ELSE cache[Len(cache) - 1].id]]
  /\ UNCHANGED <<host, cache>>

\* The first page after a cursor; a cursor whose message is gone has none.
FirstAfter(cursor) ==
  IF cursor = Nobody THEN 1
  ELSE IF \E i \in 1..Len(history) : history[i].id = cursor
       THEN 1 + CHOOSE i \in 1..Len(history) : history[i].id = cursor
       ELSE Len(history) + 1

Smaller(m, n) == IF m < n THEN m ELSE n

PageAfter(cursor) ==
  SubSeq(history, FirstAfter(cursor),
         Smaller(Len(history), FirstAfter(cursor) + PageSize - 1))

ReadPage(r) ==
  /\ read[r].at = "page"
  /\ FirstAfter(read[r].cursor) <= Len(history)
  /\ LET page == PageAfter(read[r].cursor)
     IN read' = [read EXCEPT ![r].tail = @ \o page,
                             ![r].cursor = page[Len(page)].id]
  /\ UNCHANGED <<host, cache>>

\* An empty page has no next cursor.
LastPage(r) ==
  /\ read[r].at = "page"
  /\ FirstAfter(read[r].cursor) > Len(history)
  /\ Moves(r, "join")
  /\ UNCHANGED <<host, cache>>

ReadInFull(r) ==
  /\ cache' = <<>>
  /\ read' = [read EXCEPT ![r] = [@ EXCEPT !.at = "page", !.prefix = <<>>,
                                           !.tail = <<>>, !.cursor = Nobody]]
  /\ UNCHANGED host

\* The host answers a read of the tail with a 4xx.
RejectCursor(r) ==
  /\ read[r].at = "page" /\ read[r].prefix # <<>>
  /\ ReadInFull(r)

Ids(records) == {records[i].id : i \in 1..Len(records)}

\* tail[0] is the last cached message, and nothing after it was cached.
Overlaps(prefix, tail) ==
  /\ tail # <<>>
  /\ tail[1] = prefix[Len(prefix)]
  /\ Ids(Tail(tail)) \cap Ids(prefix) = {}

Joined(prefix, tail) == IF prefix = <<>> THEN tail ELSE prefix \o Tail(tail)

Join(r) ==
  /\ read[r].at = "join"
  /\ read[r].prefix # <<>> => Overlaps(read[r].prefix, read[r].tail)
  /\ read' = [read EXCEPT ![r] =
                [@ EXCEPT !.at = "recheck", !.prefix = <<>>,
                          !.tail = Joined(read[r].prefix, read[r].tail)]]
  /\ UNCHANGED <<host, cache>>

Miss(r) ==
  /\ read[r].at = "join"
  /\ read[r].prefix # <<>> /\ ~Overlaps(read[r].prefix, read[r].tail)
  /\ ReadInFull(r)

\* Mutant: only the activity is looked at again.
RecheckNothing(r) ==
  /\ read[r].at = "recheck"
  /\ read' = [read EXCEPT ![r].at = "confirm", ![r].stable = TRUE]
  /\ UNCHANGED <<host, cache>>

Recheck(r) ==
  /\ read[r].at = "recheck"
  /\ read' = [read EXCEPT ![r].at = "confirm", ![r].stable = read[r].before = revision]
  /\ UNCHANGED <<host, cache>>

IsLatestAssistant(records, i) ==
  /\ records[i].kind = "assistant"
  /\ \A j \in (i+1)..Len(records) : records[j].kind # "assistant"

\* Mutant: the latest assistant settles, too.
SettlesWithLatest(records, i) == records[i].complete

Settles(records, i) == records[i].complete /\ ~IsLatestAssistant(records, i)

\* Settled messages before the first that is not.
SettledLength(records, n) ==
  /\ \A i \in 1..n : Settles(records, i)
  /\ n < Len(records) => ~Settles(records, n + 1)

Remember(records) ==
  \E n \in 0..Len(records) :
    /\ SettledLength(records, n)
    /\ cache' = IF n < 2 THEN <<>> ELSE SubSeq(records, 1, n)

\* Neither the session info nor its activity changed: cache and return.
Confirm(r) ==
  /\ read[r].at = "confirm"
  /\ read[r].stable /\ active = read[r].status
  /\ Remember(read[r].tail)
  /\ read' = [read EXCEPT ![r] = Resting]
  /\ UNCHANGED host

\* Retry after a pause, a bounded number of times.
Unstable(r) ==
  /\ read[r].at = "confirm"
  /\ ~(read[r].stable /\ active = read[r].status)
  /\ read' = [read EXCEPT ![r] =
                IF @.attempt < SnapshotAttempts
                THEN [Resting EXCEPT !.at = "begin", !.attempt = read[r].attempt + 1]
                ELSE Resting]
  /\ UNCHANGED <<host, cache>>

\* A request times out, or the caller is cancelled.
Fail(r) ==
  /\ read[r].at # "idle"
  /\ read' = [read EXCEPT ![r] = Resting]
  /\ UNCHANGED <<host, cache>>

Snapshot(r) ==
  \/ Begin(r) \/ ReadInfo(r) \/ ReadStatus(r) \/ Lookup(r) \/ ReadPage(r)
  \/ LastPage(r) \/ RejectCursor(r) \/ Join(r) \/ Miss(r) \/ Recheck(r)
  \/ Confirm(r) \/ Unstable(r) \/ Fail(r)

Next == Host \/ \E r \in Readers : Snapshot(r)

Spec == Init /\ [][Next]_vars

-----------------------------------------------------------------------------
(* Properties. *)

\* A cached prefix whose last message the host still has, unchanged, is what
\* the host's history begins with: the overlap check of cachedRecords tells
\* whether the whole prefix may be used.  (Comment of HistoryCache.)
IsSettled(records) ==
  \A i \in 1..Len(history) :
    records # <<>> /\ history[i] = records[Len(records)] =>
      i = Len(records) /\ SubSeq(history, 1, i) = records

CacheIsSettled == IsSettled(cache)

\* Records that differ from the history only where they were still being
\* written when they were read.
Current(records) ==
  /\ Len(records) = Len(history)
  /\ \A i \in 1..Len(records) :
       /\ records[i].id = history[i].id
       /\ records[i].complete => records[i] = history[i]

\* What an incremental read of a resting session returns is what a full read
\* would: snapshot accepts records only if they are current when the session
\* info is read for the second time, whatever was cached and whatever
\* happened between two pages.
StableReadsAreCurrent ==
  [][\A r \in Strict :
       read[r].at = "recheck" /\ read'[r].at = "confirm" /\ read'[r].stable =>
         Current(read[r].tail)]_vars
=============================================================================
