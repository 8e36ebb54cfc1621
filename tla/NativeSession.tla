--------------------------- MODULE NativeSession ---------------------------
(***************************************************************************)
(* The life of a session inside the native v2 plugin: what the host calls  *)
(* (the context hook) and what it announces (runs that end, deletions), in *)
(* which order the plugin works on them, what it stores and what it posts. *)
(*                                                                         *)
(*   index.ts       project, initializeRegistry, listen, the disposer      *)
(*   operations.ts  run, queue, abort, delete, dispose                     *)
(*   ingestion.ts   schedule, update, sweep, clear                         *)
(*   native.ts      storage mutations that an abort interrupts             *)
(*                                                                         *)
(* A message stands for one segment, which is closed as soon as another    *)
(* message follows; NativeDelivery has the requests that post a segment.   *)
(* What a projection keeps of the history is left out.                     *)
(***************************************************************************)
EXTENDS Integers, FiniteSets, SequencesExt

CONSTANTS
  LastSession,   \* sessions are 1..LastSession, in the order the host lists them
  PageSize,      \* sessions in one batch of a sweep (20 in the code)
  Existing,      \* messages that a session has when the plugin is installed
  MaxMessages,   \* bound: messages, over all sessions
  MaxTroubles    \* bound: reverts, deletions, faults, aliases of events, restarts

ASSUME SessionAssumption ==
  /\ LastSession \in Nat \ {0} /\ PageSize \in Nat \ {0}
  /\ Existing \in Nat /\ MaxMessages \in Nat /\ MaxMessages >= LastSession * Existing
  /\ MaxTroubles \in Nat

Sessions == 1..LastSession
Messages == 1..MaxMessages
Kinds    == {"project", "idle", "sweep"}

VARIABLES
  history,     \* the session's messages; identifiers are never used twice
  host,        \* the host: resting, waiting for the hook, answered, gone
  stream,      \* events the plugin has not received yet
  posted,      \* server: messages covered by posted segments
  summarized,  \* server: messages covered by summarized segments
  stored,      \* the plugin's storage: cursor and usage anchor of a session
  writes,      \* storage mutations that are under way
  life,        \* the plugin instance: up, disposing, disposed
  registry,    \* trying, down (may be tried again), ready, failed
  queue,       \* Operations.queues: what waits behind each other; the head runs
  op,          \* Operations.controllers: the operation of a queue's head
  deleted,     \* Operations.deleted
  deleting,    \* a deletion: none, waiting, removing, done, failed
  left,        \* entries of the queue that a deletion still waits for
  drain,       \* entries of the queue that the disposal still waits for
  idle,        \* Ingestion.idle: none, clean, dirty
  leaving,     \* the pass has settled, its entry in Ingestion.idle is still there
  sweep,       \* Ingestion.sweeping with its dirty flag and cursor
  revisions,   \* Ingestion.revisions: the session is as it was when it was submitted
  summaries,   \* lastSummaries
  used         \* what is used up of the bounds

hostVars   == <<history, host, stream>>
serverVars == <<posted, summarized>>
storeVars  == <<stored, writes>>
tasks      == <<queue, op, sweep>>
marks      == <<idle, leaving, revisions, summaries>>
ends       == <<life, registry, deleted, deleting, left, drain>>
vars       == <<hostVars, serverVars, storeVars, tasks, marks, ends, used>>

-----------------------------------------------------------------------------
(* Data. *)

Nothing == 0
Known   == Messages \cup {Nothing}

\* A queued callback: what the hook saw and the message it was called for, and
\* for a sweep whether the sweep still goes on.
Item == [kind : Kinds, seen : Seq(Messages), call : Known, live : BOOLEAN]
Job(kind) == [kind |-> kind, seen |-> <<>>, call |-> Nothing, live |-> TRUE]

Places == {"none", "begin", "registry", "manifest", "history", "usage", "posting",
           "storing", "cleaning"}

\* What an operation holds across its awaits; fresh is what is left to post.
Op   == [at : Places, kind : Kinds, aborted : BOOLEAN, seen : Seq(Messages),
         fresh : Seq(Messages), through : Known, summarized : Known, manifest : BOOLEAN]
NoOp == [at |-> "none", kind |-> "project", aborted |-> FALSE, seen |-> <<>>, fresh |-> <<>>,
         through |-> Nothing, summarized |-> Nothing, manifest |-> FALSE]

\* submittedThrough and summarizedThrough of the cursor, if there is one.
Stored    == [cursor : BOOLEAN, through : Known, summarized : Known, usage : BOOLEAN]
NotStored == [cursor |-> FALSE, through |-> Nothing, summarized |-> Nothing, usage |-> FALSE]

\* A removal, or a set of what the operation holds.
Write == [session : Sessions, key : {"cursor", "usage"}, set : BOOLEAN,
          by : {"project", "cleanup", "delete"}]
Removal(s, key, by) == [session |-> s, key |-> key, set |-> FALSE, by |-> by]
Setting(s, key)     == [session |-> s, key |-> key, set |-> TRUE, by |-> "project"]

Event   == [kind : {"idle", "deleted"}, session : Sessions]
Sweep   == [at : {"none", "list", "batch", "visit"}, aborted : BOOLEAN, dirty : BOOLEAN,
            cursor : 0..LastSession, batch : Seq(Sessions)]
NoSweep == [at |-> "none", aborted |-> FALSE, dirty |-> FALSE, cursor |-> 0, batch |-> <<>>]

Trouble == /\ used.troubles < MaxTroubles
           /\ used' = [used EXCEPT !.troubles = @ + 1]

TypeOK ==
  /\ history \in [Sessions -> Seq(Messages)]
  /\ host \in [Sessions -> {"resting", "waiting", "answered", "gone"}]
  /\ stream \in Seq(Event)
  /\ posted \in [Sessions -> SUBSET Messages] /\ summarized \in [Sessions -> SUBSET Messages]
  /\ stored \in [Sessions -> Stored] /\ writes \subseteq Write
  /\ life \in {"up", "disposing", "disposed"}
  /\ registry \in {"trying", "down", "ready", "failed"}
  /\ queue \in [Sessions -> Seq(Item)] /\ op \in [Sessions -> Op]
  /\ \A s \in Sessions :
       /\ op[s].at # "none" => queue[s] # <<>> /\ op[s].kind = Head(queue[s]).kind
       /\ left[s] \in 0..Len(queue[s]) /\ drain[s] \in 0..Len(queue[s])
       /\ Cardinality({i \in DOMAIN queue[s] : queue[s][i].kind = "idle"})
            = IF idle[s] = "none" \/ leaving[s] THEN 0 ELSE 1
  /\ deleted \subseteq Sessions
  /\ deleting \in [Sessions -> {"none", "waiting", "removing", "done", "failed"}]
  /\ idle \in [Sessions -> {"none", "clean", "dirty"}] /\ leaving \in [Sessions -> BOOLEAN]
  /\ sweep \in Sweep
  /\ revisions \in [Sessions -> BOOLEAN]
  /\ summaries \in [Sessions -> SUBSET Messages]
  /\ used \in [messages : 0..MaxMessages, troubles : 0..MaxTroubles]

Each(value) == [s \in Sessions |-> value]

Init ==
  /\ history = [s \in Sessions |-> [i \in 1..Existing |-> (s - 1) * Existing + i]]
  /\ host = Each("resting") /\ stream = <<>>
  /\ posted = Each({}) /\ summarized = Each({})
  /\ stored = Each(NotStored) /\ writes = {}
  /\ life = "up" /\ registry = "trying" /\ deleted = {}
  /\ queue = Each(<<>>) /\ op = Each(NoOp) /\ sweep = NoSweep
  /\ deleting = Each("none") /\ left = Each(0) /\ drain = Each(0)
  /\ idle = Each("none") /\ leaving = Each(FALSE)
  /\ revisions = Each(FALSE) /\ summaries = Each({})
  /\ used = [messages |-> LastSession * Existing, troubles |-> 0]

UpTo(seq, id)  == SubSeq(seq, 1, CHOOSE i \in DOMAIN seq : seq[i] = id)
\* Reading on after a message that is not there yields nothing.
After(seq, id) ==
  IF id = Nothing THEN seq
  ELSE IF id \notin ToSet(seq) THEN <<>>
  ELSE SubSeq(seq, Len(UpTo(seq, id)) + 1, Len(seq))

\* The last message is open: what follows may still belong to its segment.
Closed(seq) == SubSeq(seq, 1, Len(seq) - 1)
\* Sessions and messages are numbered in their order.
InOrder(ids) ==
  CHOOSE q \in [1..Cardinality(ids) -> ids] :
    ToSet(q) = ids /\ \A i, j \in DOMAIN q : i < j => q[i] < q[j]
Last0(ids)  == IF ids = {} THEN Nothing ELSE CHOOSE i \in ids : \A j \in ids : j <= i

-----------------------------------------------------------------------------
(* The host and the server. *)

\* Events reach a plugin that is subscribed.
Announce(events) ==
  stream' = IF registry = "ready" /\ life = "up" THEN stream \o events ELSE stream

\* The user's prompt, or the next step of a run: the context hook is called.
CallHook(s) ==
  /\ host[s] \in {"resting", "answered"} /\ life # "disposed"
  /\ used.messages < MaxMessages /\ used' = [used EXCEPT !.messages = @ + 1]
  /\ history' = [history EXCEPT ![s] = Append(@, used'.messages)]
  /\ host' = [host EXCEPT ![s] = "waiting"]
  /\ queue' = [queue EXCEPT ![s] = Append(@,
       [Job("project") EXCEPT !.seen = history'[s], !.call = used'.messages])]
  /\ revisions' = [revisions EXCEPT ![s] = FALSE]
  /\ UNCHANGED <<stream, serverVars, storeVars, op, sweep, idle, leaving, summaries, ends>>

\* A run ends by itself or because the user interrupts it; aliases of the
\* event follow it.
EndRun(s) ==
  /\ host[s] \in {"waiting", "answered"}
  /\ host' = [host EXCEPT ![s] = "resting"]
  /\ LET event == [kind |-> "idle", session |-> s] IN
     \/ Announce(<<event>>) /\ UNCHANGED used
     \/ Announce(<<event, event>>) /\ Trouble
  /\ UNCHANGED <<history, serverVars, storeVars, tasks, marks, ends>>

Revert(s) ==
  /\ host[s] = "resting" /\ Trouble
  /\ \E k \in 0..Len(history[s]) - 1 : history' = [history EXCEPT ![s] = SubSeq(@, 1, k)]
  /\ revisions' = [revisions EXCEPT ![s] = FALSE]
  /\ UNCHANGED <<host, stream, serverVars, storeVars, tasks, idle, leaving, summaries, ends>>

DeleteSession(s) ==
  /\ host[s] = "resting" /\ Trouble
  /\ host' = [host EXCEPT ![s] = "gone"] /\ history' = [history EXCEPT ![s] = <<>>]
  /\ Announce(<<[kind |-> "deleted", session |-> s]>>)
  /\ UNCHANGED <<serverVars, storeVars, tasks, marks, ends>>

-----------------------------------------------------------------------------
(* Operations: run, queue, abort. *)

\* Mutant: a disposed plugin goes on.
UnavailableIfDeleted(s) == s \in deleted

\* run and queue refuse.
Unavailable(s) == life # "up" \/ s \in deleted

\* Mutant: the host's own storage API, whose fibers an abort does not reach.
InterruptNothing(aborted) == {}

\* An abort interrupts the storage mutations of the operation: they have been
\* applied, or never are.
Interrupt(aborted) == {w \in writes : w.session \in aborted /\ w.by = "project"}
Aborted(o) == IF o.at = "none" THEN o
              ELSE [NoOp EXCEPT !.at = o.at, !.kind = o.kind, !.aborted = TRUE]
Abort(aborted) ==
  /\ op' = [s \in Sessions |-> IF s \in aborted THEN Aborted(op[s]) ELSE op[s]]
  /\ writes' = writes \ Interrupt(aborted)

\* A sweep that has ended by itself is followed by another one if it was asked
\* for meanwhile.
SweepEnded == [NoSweep EXCEPT !.cursor = sweep.cursor,
                              !.at = IF sweep.dirty /\ life = "up" THEN "list" ELSE "none"]
\* Whoever waits for a queue entry goes on when it is settled.
Visited == IF sweep.at = "visit" THEN [sweep EXCEPT !.at = "batch", !.batch = Tail(@)]
           ELSE sweep

\* The head of a queue is settled.
Settle(s) ==
  LET item == Head(queue[s]) IN
  /\ queue' = [queue EXCEPT ![s] = Tail(@)]
  /\ left' = [left EXCEPT ![s] = IF @ > 0 THEN @ - 1 ELSE 0]
  /\ drain' = [drain EXCEPT ![s] = IF @ > 0 THEN @ - 1 ELSE 0]
  /\ leaving' = [leaving EXCEPT ![s] = @ \/ item.kind = "idle"]
  /\ host' = IF item.kind = "project" /\ host[s] = "waiting" /\ item.call = Last(history[s])
             THEN [host EXCEPT ![s] = "answered"] ELSE host

\* sweep, called when an idle pass has submitted.
Trigger == IF life # "up" THEN sweep
           ELSE IF sweep.at = "none" THEN [sweep EXCEPT !.at = "list"]
           ELSE [sweep EXCEPT !.dirty = TRUE]

\* Mutant: one round for whatever was announced meanwhile.
RepeatsNever(s) == FALSE

Repeats(s) == idle[s] = "dirty" /\ ~Unavailable(s)

\* An operation ends: its queue entry is settled, but an idle pass goes on
\* when it was asked for again meanwhile.
Finish(s, submitted) ==
  /\ op' = [op EXCEPT ![s] = NoOp]
  /\ IF op[s].kind = "idle" /\ Repeats(s)
     THEN UNCHANGED <<queue, left, drain, leaving, host>> ELSE Settle(s)
  /\ sweep' = IF op[s].kind = "sweep" /\ Head(queue[s]).live THEN Visited
              ELSE IF op[s].kind = "idle" /\ submitted THEN Trigger ELSE sweep
  /\ UNCHANGED <<history, stream, idle, summaries, life, registry, deleted, deleting>>

\* The queue's next entry, or the next round of an idle pass.
Begin(s) ==
  /\ queue[s] # <<>> /\ op[s].at = "none" /\ Head(queue[s]).live /\ ~Unavailable(s)
  /\ op' = [op EXCEPT ![s] = [NoOp EXCEPT !.at = "begin", !.kind = Head(queue[s]).kind,
                                          !.seen = Head(queue[s]).seen]]
  /\ idle' = [idle EXCEPT ![s] = IF Head(queue[s]).kind = "idle" THEN "clean" ELSE @]
  /\ UNCHANGED <<hostVars, serverVars, storeVars, queue, sweep, leaving, revisions,
                 summaries, ends, used>>

Refuse(s) ==
  /\ queue[s] # <<>> /\ op[s].at = "none" /\ (Unavailable(s) \/ ~Head(queue[s]).live)
  /\ Settle(s)
  /\ sweep' = IF Head(queue[s]).kind = "sweep" /\ Head(queue[s]).live THEN Visited ELSE sweep
  /\ UNCHANGED <<history, stream, serverVars, storeVars, op, idle, revisions, summaries,
                 life, registry, deleted, deleting, used>>

Timeout(s) ==
  /\ op[s].at # "none" /\ ~op[s].aborted /\ Trouble
  /\ Abort({s})
  /\ UNCHANGED <<hostVars, serverVars, stored, queue, sweep, marks, ends>>

-----------------------------------------------------------------------------
(* project: the context hook of a run. *)

Project(s, place) == op[s].at = place /\ op[s].kind = "project" /\ ~op[s].aborted
Moves(s, to) == op' = [op EXCEPT ![s] = to]
OnlyOp == UNCHANGED <<hostVars, queue, sweep, idle, leaving, revisions, ends>>

\* requireReady waits for an attempt, which it begins if there may be another.
AwaitRegistry(s) ==
  /\ Project(s, "begin") /\ registry \in {"trying", "down"} /\ life = "up"
  /\ registry' = "trying"
  /\ Moves(s, [op[s] EXCEPT !.at = "registry"])
  /\ UNCHANGED <<hostVars, serverVars, storeVars, queue, sweep, marks, life, deleted,
                 deleting, left, drain, used>>

ReadCursor(s) ==
  /\ Project(s, "begin") \/ Project(s, "registry")
  /\ registry = "ready"
  /\ Moves(s, [op[s] EXCEPT !.at = "manifest", !.through = stored[s].through,
                            !.summarized = stored[s].summarized])
  /\ OnlyOp /\ UNCHANGED <<serverVars, storeVars, summaries, used>>

\* The server has summarized more of what was posted since the last look at it.
\* Where posting goes on: after what was submitted; when a revert removed that,
\* after the last summary that is left; a first projection after all summaries.
Resumes(through, sums, seen, last) ==
  IF through = Nothing THEN last
  ELSE IF through \in ToSet(seen) THEN through
  ELSE Last0(sums \cap ToSet(seen))

ReadManifest(s) ==
  /\ Project(s, "manifest")
  /\ \E available \in BOOLEAN, committed \in SUBSET posted[s] :
       LET sums == IF available THEN committed ELSE summaries[s]
           last == IF available /\ sums # {} THEN Last0(sums) ELSE op[s].summarized IN
       /\ IF available THEN UNCHANGED used ELSE Trouble
       /\ summarized[s] \subseteq committed
       /\ summarized' = [summarized EXCEPT ![s] = IF available THEN committed ELSE @]
       /\ summaries' = [summaries EXCEPT ![s] = sums]
       /\ Moves(s, [op[s] EXCEPT !.at = "history", !.manifest = available,
            !.summarized = last, !.through = Resumes(@, sums, op[s].seen, last)])
  /\ OnlyOp /\ UNCHANGED <<posted, storeVars>>

\* The history is read and cut; the usage anchor is stored before any post.
ReadHistory(s) ==
  /\ Project(s, "history")
  /\ \/ /\ Moves(s, [op[s] EXCEPT !.at = "usage", !.seen = <<>>, !.manifest = FALSE,
             !.fresh = IF op[s].manifest THEN Closed(After(history[s], op[s].through)) ELSE <<>>])
        /\ UNCHANGED used
     \/ Moves(s, [op[s] EXCEPT !.at = "usage", !.seen = <<>>, !.manifest = FALSE]) /\ Trouble
  /\ writes' = writes \cup {Setting(s, "usage")}
  /\ OnlyOp /\ UNCHANGED <<serverVars, stored, summaries>>

UsageStored(s) ==
  /\ Project(s, "usage") /\ Setting(s, "usage") \notin writes
  /\ Moves(s, [op[s] EXCEPT !.at = "posting"])
  /\ OnlyOp /\ UNCHANGED <<serverVars, storeVars, summaries, used>>

\* submittedThrough follows every posted segment.
Advanced(o) == [o EXCEPT !.through = Head(o.fresh), !.fresh = Tail(@)]
\* Mutant: the other segments are posted all the same.
DeferredOne(o) == [o EXCEPT !.fresh = Tail(@)]

\* A failed post ends the posting; the next projection goes on from there.
Deferred(o) == [o EXCEPT !.fresh = <<>>]

Post(s) ==
  /\ op[s].at = "posting" /\ ~op[s].aborted /\ op[s].fresh # <<>>
  /\ posted' = [posted EXCEPT ![s] = @ \cup {Head(op[s].fresh)}]
  /\ Moves(s, Advanced(op[s]))
  /\ OnlyOp /\ UNCHANGED <<summarized, storeVars, summaries, used>>

\* The server may have taken what the plugin has no answer for.
PostFails(s) ==
  /\ Project(s, "posting") /\ op[s].fresh # <<>> /\ Trouble
  /\ \/ posted' = [posted EXCEPT ![s] = @ \cup {Head(op[s].fresh)}]
     \/ UNCHANGED posted
  /\ Moves(s, Deferred(op[s]))
  /\ OnlyOp /\ UNCHANGED <<summarized, storeVars, summaries>>

StoreCursor(s) ==
  /\ Project(s, "posting") /\ op[s].fresh = <<>>
  /\ Moves(s, [op[s] EXCEPT !.at = "storing"])
  /\ writes' = writes \cup {Setting(s, "cursor")}
  /\ OnlyOp /\ UNCHANGED <<serverVars, stored, summaries, used>>

Answer(s) ==
  /\ Project(s, "storing") /\ Setting(s, "cursor") \notin writes
  /\ Finish(s, FALSE) /\ UNCHANGED <<serverVars, storeVars, revisions, used>>

\* Mutant: an await that nothing ends when the operation is aborted.
FailsUnaborted(s) ==
  \/ op[s].at \in {"begin", "registry"} /\ op[s].kind = "project" /\ registry = "failed"
  \/ op[s].at = "registry" /\ registry = "down"
  \/ op[s].at \in {"begin", "manifest"} /\ op[s].kind # "project" /\ host[s] # "resting"

\* Reads and checks that fail, and awaits that an abort ends.  What stops the
\* storing of the usage anchor makes the anchor be removed.
Fails(s) ==
  \/ op[s].aborted
  \/ op[s].at \in {"begin", "registry"} /\ op[s].kind = "project" /\ registry = "failed"
  \/ op[s].at = "registry" /\ registry = "down"
  \/ /\ op[s].at \in {"begin", "manifest"} /\ op[s].kind # "project"
     /\ host[s] = "resting" => op[s].at = "manifest" /\ history[s] # op[s].seen
Failable(s) == \/ op[s].at \in {"begin", "manifest", "history"}
               \/ op[s].at = "posting" /\ op[s].kind # "project"

OperationFails(s) ==
  /\ op[s].at \notin {"none", "cleaning"}
  /\ \/ Fails(s) /\ UNCHANGED used
     \/ Failable(s) /\ ~Fails(s) /\ Trouble
  /\ IF op[s].at = "usage"
     THEN /\ Moves(s, [op[s] EXCEPT !.at = "cleaning"])
          /\ writes' = writes \cup {Removal(s, "usage", "cleanup")}
          /\ OnlyOp /\ UNCHANGED summaries
     ELSE Finish(s, FALSE) /\ UNCHANGED <<writes, revisions>>
  /\ UNCHANGED <<serverVars, stored>>

Cleaned(s) ==
  /\ op[s].at = "cleaning" /\ Removal(s, "usage", "cleanup") \notin writes
  /\ Finish(s, FALSE) /\ UNCHANGED <<serverVars, storeVars, revisions, used>>

-----------------------------------------------------------------------------
(* update: an idle pass, or a candidate of the sweep. *)

Update(s, place) == op[s].at = place /\ op[s].kind # "project" /\ ~op[s].aborted

UpdateRead(s) ==
  /\ Update(s, "begin") /\ host[s] = "resting"
  /\ Moves(s, [op[s] EXCEPT !.at = "manifest", !.seen = history[s]])
  /\ OnlyOp /\ UNCHANGED <<serverVars, storeVars, summaries, used>>

\* A sweep leaves a session alone that was busy a moment ago.
UpdateSkips(s) ==
  /\ Update(s, "begin") /\ op[s].kind = "sweep" /\ host[s] = "resting"
  /\ Finish(s, FALSE) /\ UNCHANGED <<serverVars, storeVars, revisions, used>>

\* The plan is made with the manifest; the session is looked at once more.
\* A sweep also posts the open segment.
Plan(s, seen) ==
  InOrder(ToSet(IF op[s].kind = "sweep" THEN seen ELSE Closed(seen)) \ posted[s])
UpdateCheck(s) ==
  /\ Update(s, "manifest") /\ host[s] = "resting" /\ history[s] = op[s].seen
  /\ Moves(s, [op[s] EXCEPT !.at = "posting", !.fresh = Plan(s, op[s].seen)])
  /\ OnlyOp /\ UNCHANGED <<serverVars, storeVars, summaries, used>>

UpdateDone(s) ==
  /\ Update(s, "posting") /\ op[s].fresh = <<>>
  /\ revisions' = [revisions EXCEPT ![s] = history[s] = op[s].seen]
  /\ Finish(s, TRUE) /\ UNCHANGED <<serverVars, storeVars, used>>

\* The entry of a settled pass is deleted a few callbacks later.
IdleForgotten(s) ==
  /\ leaving[s]
  /\ leaving' = [leaving EXCEPT ![s] = FALSE] /\ idle' = [idle EXCEPT ![s] = "none"]
  /\ UNCHANGED <<hostVars, serverVars, storeVars, tasks, revisions, summaries, ends, used>>

-----------------------------------------------------------------------------
(* sweep: sessions that rest, a batch at a time. *)

OnlySweep == UNCHANGED <<hostVars, serverVars, stored, marks, ends>>

SweepList ==
  /\ sweep.at = "list" /\ ~sweep.aborted
  /\ LET from == sweep.cursor + 1
         end  == IF from + PageSize > LastSession THEN LastSession ELSE sweep.cursor + PageSize IN
     sweep' = [sweep EXCEPT !.at = "batch", !.cursor = IF end = LastSession THEN 0 ELSE end,
                 !.batch = InOrder({s \in from..end : host[s] # "gone"})]
  /\ OnlySweep /\ UNCHANGED <<writes, queue, op, used>>

SweepVisits ==
  /\ sweep.at = "batch" /\ ~sweep.aborted /\ sweep.batch # <<>>
  /\ LET s == Head(sweep.batch) IN
     \* Deleted, or as it was when it was submitted and not long ago.
     \/ /\ s \in deleted \/ revisions[s]
        /\ sweep' = [sweep EXCEPT !.batch = Tail(@)] /\ UNCHANGED queue
     \/ /\ s \notin deleted
        /\ queue' = [queue EXCEPT ![s] = Append(@, Job("sweep"))]
        /\ sweep' = [sweep EXCEPT !.at = "visit"]
  /\ OnlySweep /\ UNCHANGED <<writes, op, used>>

\* The abort of a sweep reaches the candidate it waits for.
Orphaned(q) == [i \in DOMAIN q |-> [q[i] EXCEPT !.live = @ /\ q[i].kind # "sweep"]]
SweepTimeout ==
  /\ sweep.at # "none" /\ ~sweep.aborted /\ Trouble
  /\ sweep' = [sweep EXCEPT !.aborted = TRUE]
  /\ queue' = [s \in Sessions |-> Orphaned(queue[s])]
  /\ Abort({s \in Sessions : op[s].kind = "sweep"})
  /\ OnlySweep

SweepEnds ==
  /\ \/ sweep.at # "none" /\ sweep.aborted /\ UNCHANGED used
     \/ sweep.at = "batch" /\ sweep.batch = <<>> /\ ~sweep.aborted /\ UNCHANGED used
     \/ sweep.at = "list" /\ ~sweep.aborted /\ Trouble
  /\ sweep' = SweepEnded
  /\ OnlySweep /\ UNCHANGED <<writes, queue, op>>

-----------------------------------------------------------------------------
(* The host's storage. *)

Applied(w) ==
  LET old == stored[w.session] o == op[w.session] IN
  IF w.key = "usage" THEN [old EXCEPT !.usage = w.set]
  ELSE IF w.set THEN [old EXCEPT !.cursor = TRUE, !.through = o.through,
                                 !.summarized = o.summarized]
  ELSE [NotStored EXCEPT !.usage = old.usage]

ApplyWrite(w) ==
  /\ stored' = [stored EXCEPT ![w.session] = Applied(w)] /\ writes' = writes \ {w}
  /\ UNCHANGED <<hostVars, serverVars, tasks, marks, ends, used>>

\* A removal that an earlier instance left behind has no deletion that waits.
DeletionFails(s) == IF deleting[s] = "removing" THEN [deleting EXCEPT ![s] = "failed"] ELSE deleting

\* Whoever waits for the mutation fails; after one removal of a deletion failed,
\* nobody waits for the others.
WriteFails(w) ==
  /\ Trouble
  /\ writes' = writes \ {w}
  /\ op' = IF w.by = "project" THEN [op EXCEPT ![w.session] = Aborted(@)] ELSE op
  /\ deleting' = IF w.by = "delete" THEN DeletionFails(w.session) ELSE deleting
  /\ UNCHANGED <<hostVars, serverVars, stored, queue, sweep, marks, life, registry,
                 deleted, left, drain>>

\* Removals have five seconds.
RemovalExpires(s, by) ==
  /\ \E w \in writes : w.session = s /\ w.by = by
  /\ Trouble
  /\ writes' = {w \in writes : ~(w.session = s /\ w.by = by)}
  /\ deleting' = IF by = "delete" THEN DeletionFails(s) ELSE deleting
  /\ UNCHANGED <<hostVars, serverVars, stored, tasks, marks, life, registry, deleted,
                 left, drain>>

-----------------------------------------------------------------------------
(* The registry of sources, and the events of the host. *)

OnlyRegistry == UNCHANGED <<hostVars, serverVars, storeVars, tasks, marks, life, deleted,
                            deleting, left, drain>>

RegistryAttempt ==
  /\ registry = "trying"
  /\ IF life # "up" THEN registry' = "failed" /\ UNCHANGED used
     ELSE \/ registry' = "ready" /\ UNCHANGED used
          \/ registry' \in {"down", "failed"} /\ Trouble
  /\ OnlyRegistry

StreamFails ==
  /\ registry = "ready" /\ Trouble
  /\ registry' = "failed" /\ stream' = <<>>
  /\ UNCHANGED <<history, host, serverVars, storeVars, tasks, marks, life, deleted,
                 deleting, left, drain>>

\* A first event queues a pass, a further one only marks the entry.
Schedule(s) ==
  IF idle[s] = "none"
  THEN /\ queue' = [queue EXCEPT ![s] = Append(@, Job("idle"))]
       /\ idle' = [idle EXCEPT ![s] = "clean"]
  ELSE idle' = [idle EXCEPT ![s] = "dirty"] /\ UNCHANGED queue

HandleIdle(s) ==
  /\ Abort({r \in {s} : op[r].kind = "project"})
  /\ Schedule(s)
  /\ UNCHANGED <<revisions, summaries, deleted, deleting, left>>

\* delete: what it waits for is the queue of this moment.
HandleDeleted(s) ==
  /\ revisions' = [revisions EXCEPT ![s] = FALSE] /\ summaries' = [summaries EXCEPT ![s] = {}]
  /\ deleted' = deleted \cup {s}
  /\ Abort({s})
  /\ deleting' = [deleting EXCEPT ![s] = "waiting"] /\ left' = [left EXCEPT ![s] = Len(queue[s])]
  /\ UNCHANGED <<queue, idle>>

Listen ==
  /\ registry = "ready" /\ life = "up" /\ stream # <<>>
  /\ stream' = Tail(stream)
  /\ IF Head(stream).kind = "idle" THEN HandleIdle(Head(stream).session)
                                   ELSE HandleDeleted(Head(stream).session)
  /\ UNCHANGED <<history, host, serverVars, stored, sweep, leaving, life, registry, drain, used>>

\* Mutant: the usage anchor, which is stored on its own, is forgotten.
RemoveCursor(s) ==
  /\ deleting[s] = "waiting" /\ left[s] = 0
  /\ deleting' = [deleting EXCEPT ![s] = "removing"]
  /\ writes' = writes \cup {Removal(s, "cursor", "delete")}
  /\ UNCHANGED <<hostVars, serverVars, stored, tasks, marks, life, registry, deleted,
                 left, drain, used>>

RemoveState(s) ==
  /\ deleting[s] = "waiting" /\ left[s] = 0
  /\ deleting' = [deleting EXCEPT ![s] = "removing"]
  /\ writes' = writes \cup {Removal(s, "cursor", "delete"), Removal(s, "usage", "delete")}
  /\ UNCHANGED <<hostVars, serverVars, stored, tasks, marks, life, registry, deleted,
                 left, drain, used>>

Removed(s) ==
  /\ deleting[s] = "removing" /\ ~\E w \in writes : w.session = s /\ w.by = "delete"
  /\ deleting' = [deleting EXCEPT ![s] = "done"]
  /\ UNCHANGED <<hostVars, serverVars, storeVars, tasks, marks, life, registry, deleted,
                 left, drain, used>>

-----------------------------------------------------------------------------
(* Disposal, a crash, and the next instance. *)

Dispose ==
  /\ life = "up" /\ used.troubles < MaxTroubles
  /\ life' = "disposing" /\ stream' = <<>>
  /\ registry' = IF registry = "trying" THEN "trying" ELSE "failed"
  /\ Abort(Sessions)
  /\ sweep' = [sweep EXCEPT !.aborted = @ \/ sweep.at # "none"]
  /\ queue' = [s \in Sessions |-> Orphaned(queue[s])]
  /\ drain' = [s \in Sessions |-> Len(queue[s])]
  /\ UNCHANGED <<history, host, serverVars, stored, marks, deleted, deleting, left, used>>

Disposed ==
  /\ life = "disposing" /\ registry # "trying" /\ sweep.at = "none"
  /\ \A s \in Sessions : drain[s] = 0 /\ deleting[s] \notin {"waiting", "removing"}
  /\ life' = "disposed"
  /\ UNCHANGED <<hostVars, serverVars, storeVars, tasks, marks, registry, deleted, deleting,
                 left, drain, used>>

\* setup begins with empty maps; the host, the server and the storage stay.
Setup ==
  /\ Trouble
  /\ life' = "up" /\ registry' = "trying" /\ deleted' = {}
  /\ queue' = Each(<<>>) /\ op' = Each(NoOp) /\ sweep' = NoSweep
  /\ deleting' = Each("none") /\ left' = Each(0) /\ drain' = Each(0)
  /\ idle' = Each("none") /\ leaving' = Each(FALSE)
  /\ revisions' = Each(FALSE) /\ summaries' = Each({})
  /\ stream' = <<>>
  /\ UNCHANGED <<history, serverVars, stored>>

\* What a disposal left behind goes on beside the next instance.
Reload ==
  /\ life = "disposed" /\ \A s \in Sessions : queue[s] = <<>> /\ ~leaving[s]
  /\ Setup /\ UNCHANGED <<host, writes>>

Crash ==
  /\ life = "up" /\ Setup /\ writes' = {}
  /\ host' = [s \in Sessions |-> IF host[s] = "gone" THEN "gone" ELSE "resting"]

-----------------------------------------------------------------------------
Host(s) == CallHook(s) \/ EndRun(s) \/ Revert(s) \/ DeleteSession(s)

Works(s) ==
  \/ Begin(s) \/ Refuse(s) \/ AwaitRegistry(s) \/ ReadCursor(s) \/ ReadManifest(s)
  \/ ReadHistory(s) \/ UsageStored(s) \/ Post(s) \/ PostFails(s) \/ StoreCursor(s)
  \/ Answer(s) \/ OperationFails(s) \/ Cleaned(s)
  \/ UpdateRead(s) \/ UpdateSkips(s) \/ UpdateCheck(s) \/ UpdateDone(s)
Sweeps  == SweepList \/ SweepVisits \/ SweepEnds
Deletes(s) == RemoveState(s) \/ Removed(s)
Storage == \E w \in writes : ApplyWrite(w) \/ WriteFails(w)
Expiry  == \/ \E s \in Sessions : Timeout(s) \/ \E by \in {"cleanup", "delete"} : RemovalExpires(s, by)
           \/ SweepTimeout

Next ==
  \/ \E s \in Sessions : Host(s) \/ Works(s) \/ IdleForgotten(s) \/ Deletes(s)
  \/ Sweeps \/ Storage \/ Expiry \/ RegistryAttempt \/ StreamFails \/ Listen
  \/ Dispose \/ Disposed \/ Reload \/ Crash

Spec == Init /\ [][Next]_vars

-----------------------------------------------------------------------------
(* Properties. *)

\* A storage mutation never outlives its reason: what is being set belongs to
\* a running projection that is not aborted, of a session that is not deleted
\* (native.ts:12 "a queued old mutation cannot overwrite newer state").
SetsAreOwned ==
  \A w \in writes : w.set =>
    LET o == op[w.session] IN
    /\ o.kind = "project" /\ ~o.aborted /\ o.at = IF w.key = "usage" THEN "usage" ELSE "storing"
    /\ ~Unavailable(w.session)

\* Once its deletion is done, nothing of a session is stored, although its
\* projections and passes were at any of their steps when it was deleted.
DeletedLeavesNothing ==
  \A s \in Sessions : deleting[s] = "done" =>
    ~stored[s].cursor /\ ~stored[s].usage /\ op[s].at = "none"

\* After the disposal nothing runs, nothing is posted and nothing is stored;
\* removals for deleted sessions may remain after one of them failed, in this
\* instance or in one before it.
NothingAfterDisposal ==
  life = "disposed" =>
    /\ \A s \in Sessions : op[s].at = "none"
    /\ sweep.at = "none" /\ registry # "trying"
    /\ \A w \in writes : w.by = "delete" /\ deleting[w.session] \in {"failed", "none"}

\* A message up to which the cursor says all is submitted, and all before it,
\* has been posted: across failed posts, aborts, reverts, summaries of removed
\* messages and crashes before the cursor is stored.
CursorIsPosted ==
  \A s \in Sessions : LET t == stored[s].through IN
    t \in ToSet(history[s]) => ToSet(UpTo(history[s], t)) \subseteq posted[s]

\* An idle event that comes before its pass has settled is followed by a round
\* that begins after it, however many events come during a round: a pass
\* settles with a mark on it only if the session is deleted or the plugin goes
\* away.  (A mark that is made while the pass leaves is lost.)
EventsAreIngested ==
  [][\A s \in Sessions : ~leaving[s] /\ leaving'[s] =>
       \/ idle[s] = "clean" /\ op[s].kind = "idle" /\ op[s].at # "none"
       \/ Unavailable(s)]_vars

\* When nothing in the plugin can go on, nobody waits: every call of the hook is
\* answered, every event handled, every pass, sweep and deletion settled, and
\* the disposal over.  With steps that all come to an end, as every await has
\* its time limit, this is what everyone waiting on everyone would violate.
PluginSteps ==
  \/ \E s \in Sessions : Works(s) \/ IdleForgotten(s) \/ Deletes(s)
  \/ Sweeps \/ Storage \/ RegistryAttempt \/ Listen \/ Disposed
NobodyIsLeftWaiting ==
  ENABLED PluginSteps \/
    /\ \A s \in Sessions : /\ queue[s] = <<>> /\ host[s] # "waiting" /\ idle[s] = "none"
                           /\ deleting[s] \notin {"waiting", "removing"}
    /\ sweep.at = "none" /\ stream = <<>> /\ writes = {} /\ life # "disposing"
=============================================================================
