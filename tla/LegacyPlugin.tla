--------------------------- MODULE LegacyPlugin ---------------------------
(***************************************************************************)
(* The OpenCode v1 plugin (plugin/src/index.ts) and one of its sessions:   *)
(* idle passes, the sweep over inactive sessions, the synchronisation that *)
(* a projection waits for, the chain that serialises these, automatic      *)
(* retries, and what the deletion of the session leaves.                   *)
(*                                                                         *)
(* A session is a sequence of segments of which the last one may be open.  *)
(* A read is one step, taken when the server answers it: what happens      *)
(* between the answer and its handler is an abort, and fails the request.  *)
(* A post may be lost, lose its answer, or arrive after it was given up.   *)
(***************************************************************************)
EXTENDS Integers, Sequences, FiniteSetsExt

CONSTANTS
  None,
  Texts,        \* what a segment may say
  Histories,    \* bound: the session is one of these sequences of texts
  MaxRuns,      \* bound: prompts of the user
  MaxProjections, \* bound: projections that reach their reset
  MaxTroubles   \* bound: failed requests, posts of others, timeouts

LastSpan == Max({Len(texts) : texts \in Histories})
Spans    == 1..LastSpan

\* *_PROCESSING_PRIORITY, in their order.
Priority == [sweep |-> 0, idle |-> 50, foreground |-> 100]
Kinds    == DOMAIN Priority

\* Whether the last segment is closed, ends with a finished assistant, or not.
Tails == {"closed", "open", "unfinished"}

ASSUME LegacyAssumption ==
  /\ None \notin Texts
  /\ Histories \subseteq Seq(Texts) \ {<<>>} /\ IsFiniteSet(Histories)
  /\ \E texts \in Histories : Len(texts) = 1
  /\ {MaxRuns, MaxProjections, MaxTroubles} \subseteq Nat

VARIABLES
  host,        \* the session in OpenCode
  target,      \* server: what a segment is to say
  failed,      \* server: the segments whose target's job failed
  memory,      \* server: what was committed
  late,        \* posts and retries that were given up and may still arrive
  cached,      \* successfulSegmentFingerprints, with the priority
  retried,     \* automaticRetries
  updates,     \* targetUpdates: the chain, its first operation at work
  pass,        \* the idle pass of the session
  sweep,       \* the revision at which the sweep came to the session
  checked,     \* inactiveSessionChecks: the revision that was ingested
  projection,  \* the running transform
  projected,   \* the stored projection state and the validation of the turn
  deleted,     \* deletedSessions, and with it the session's generation
  owed,        \* an idle event came that no capture followed
  used         \* what is used up of the bounds

server  == <<target, failed, memory>>
caches  == <<cached, retried, checked>>
tasks   == <<updates, pass, sweep>>
views   == <<projection, projected>>
vars == <<host, server, late, caches, tasks, views, deleted, owed, used>>

\* One serialised target update: ingestIdleSession, or the closed segments of
\* a projection.
Update == [kind : Kinds, at : {"begin", "status", "messages", "confirm", "listing", "inactive", "post", "retry"},
           plan : Histories \cup {<<>>}, tail : Tails,
           open : BOOLEAN, next : 1..LastSpan + 1, accepted : SUBSET Spans,
           aborted : BOOLEAN]

NewUpdate(kind) ==
  [kind |-> kind, at |-> "status", plan |-> <<>>, tail |-> "closed", open |-> FALSE,
   next |-> 1, accepted |-> {}, aborted |-> FALSE]

TypeOK ==
  /\ host \in [texts : Histories, tail : Tails, busy : BOOLEAN,
               inactive : BOOLEAN, events : 0..2]
  /\ failed \subseteq {n \in Spans : target[n] # None}
  /\ target \in [Spans -> Texts \cup {None}] /\ memory \in [Spans -> Texts \cup {None}]
  /\ late \subseteq {"post", "retry"} \X Spans \X Texts
  /\ \A n \in Spans : \/ cached[n] = None
                      \/ cached[n] \in [text : Texts, priority : {0, 50, 100}]
  /\ retried \in [Spans -> Texts \cup {None}]
  /\ updates \in Seq(Update)
  /\ pass \in {"none", "clean", "dirty"}
  /\ sweep \in 0..MaxRuns \cup {None}
  /\ checked \in 0..MaxRuns \cup {None}
  /\ projection \in BOOLEAN /\ projected \in BOOLEAN /\ deleted \in BOOLEAN /\ owed \in BOOLEAN
  /\ used \in [runs : 0..MaxRuns, projections : 0..MaxProjections, troubles : 0..MaxTroubles]

Session == [texts |-> CHOOSE texts \in Histories : Len(texts) = 1, tail |-> "closed", busy |-> FALSE,
            inactive |-> FALSE, events |-> 0]

Init ==
  /\ host = Session
  /\ failed = {} /\ target = [n \in Spans |-> None] /\ memory = [n \in Spans |-> None]
  /\ late = {}
  /\ cached = [n \in Spans |-> None] /\ retried = [n \in Spans |-> None] /\ checked = None
  /\ updates = <<>> /\ pass = "none" /\ sweep = None
  /\ projection = FALSE /\ projected = FALSE
  /\ deleted = FALSE
  /\ owed = FALSE
  /\ used = [runs |-> 0, projections |-> 0, troubles |-> 0]

Spend(what) == used[what] < (CASE what = "runs" -> MaxRuns [] what = "projections" -> MaxProjections
                               [] OTHER -> MaxTroubles)
               /\ used' = [used EXCEPT ![what] = @ + 1]
Trouble == Spend("troubles")

-----------------------------------------------------------------------------
(* The host. A run is a prompt, what the model does, and two idle events.  *)

Reverted(texts)  == {SubSeq(texts, 1, k) : k \in 1..Len(texts) - 1}
Rewritten(texts) == {[texts EXCEPT ![Len(texts)] = t] : t \in Texts}
Continued(texts) == {Append(texts, t) : t \in Texts}

Prompt ==
  /\ ~host.busy /\ ~deleted /\ Spend("runs")
  /\ \E texts \in Histories \cap (Reverted(host.texts) \cup Rewritten(host.texts)) :
       host' = [host EXCEPT !.texts = texts, !.busy = TRUE, !.inactive = FALSE,
                  !.tail = IF texts = host.texts /\ @ = "closed" THEN "closed" ELSE "unfinished"]
  /\ UNCHANGED <<server, late, caches, tasks, views, deleted, owed>>

\* The run ends, and no transform with it; session.status and session.idle both report it.
Rest ==
  /\ host.busy /\ ~projection
  /\ \E texts \in Histories \cap ({host.texts} \cup Continued(host.texts)), tail \in Tails :
       /\ texts = host.texts /\ host.tail = "closed" => tail = "closed"
       /\ host' = [host EXCEPT !.texts = texts, !.tail = tail, !.busy = FALSE, !.events = 2]
  /\ UNCHANGED <<server, late, caches, tasks, views, deleted, owed, used>>

\* INACTIVE_MS pass without a change: the operations of the last run are over
\* by then, and an event that did not come is lost.
BecomeInactive ==
  /\ ~host.busy /\ ~host.inactive /\ ~deleted /\ updates = <<>>
  /\ host' = [host EXCEPT !.inactive = TRUE, !.events = 0]
  /\ UNCHANGED <<server, late, caches, tasks, views, deleted, owed, used>>

-----------------------------------------------------------------------------
(* The server, as JobStore has it, one generation at a time. Nothing looks *)
(* at it again once the session is deleted (Server, below).                *)

IsStored(n, t) == target[n] = t \/ (target[n] = None /\ memory[n] = t)

\* A post of a text that is not the target or the memory makes it the target,
\* queues its job and supersedes the job before.
Posted(n, t) ==
  /\ IF IsStored(n, t) THEN UNCHANGED <<target, failed>>
     ELSE target' = [target EXCEPT ![n] = t] /\ failed' = failed \ {n}
  /\ memory' = memory

Retriable(n, t) == target[n] = t /\ n \in failed

Retried(n, t) ==
  /\ failed' = IF Retriable(n, t) THEN failed \ {n} ELSE failed
  /\ UNCHANGED <<target, memory>>

CommitJob(n) ==
  /\ target[n] # None /\ n \notin failed
  /\ memory' = [memory EXCEPT ![n] = target[n]] /\ target' = [target EXCEPT ![n] = None]
  /\ UNCHANGED <<host, failed, late, caches, tasks, views, deleted, owed, used>>

FailJob(n) ==
  /\ target[n] # None /\ n \notin failed
  /\ failed' = failed \cup {n}
  /\ UNCHANGED <<host, target, memory, late, caches, tasks, views, deleted, owed, used>>

\* Another writer of the source posts what the session says, or once said.
OtherWriter(n, t) ==
  /\ Trouble /\ n <= Len(host.texts) /\ Posted(n, t)
  /\ UNCHANGED <<host, late, caches, tasks, views, deleted, owed>>

Arrive(message) ==
  /\ late' = late \ {message}
  /\ IF message[1] = "post" THEN Posted(message[2], message[3]) ELSE Retried(message[2], message[3])
  /\ UNCHANGED <<host, caches, tasks, views, deleted, owed, used>>

-----------------------------------------------------------------------------
(* Idle events, idle passes and sweeps.                                    *)

\* Mutant: an event during a pass is dropped.
RunIdleOnce ==
  /\ pass' = "clean"
  /\ updates' = IF pass # "none" THEN updates ELSE Append(updates, NewUpdate("idle"))

RunIdle ==
  /\ pass' = IF pass # "none" THEN "dirty" ELSE "clean"
  /\ updates' = IF pass # "none" THEN updates ELSE Append(updates, NewUpdate("idle"))

IdleEvent ==
  /\ host.events > 0
  /\ host' = [host EXCEPT !.events = @ - 1]
  /\ IF deleted THEN UNCHANGED <<pass, updates, owed>> ELSE RunIdle /\ owed' = TRUE
  /\ UNCHANGED <<server, late, caches, sweep, views, deleted, used>>

\* sweepInactiveSessions comes to this session, after the idle pass of another.
SweepSession ==
  /\ sweep = None /\ ~deleted /\ host.inactive /\ checked # used.runs
  /\ sweep' = used.runs
  /\ updates' = Append(updates, NewUpdate("sweep"))
  /\ UNCHANGED <<host, server, late, caches, pass, views, deleted, owed, used>>

\* INACTIVE_SESSION_RECHECK_MS pass, longer than any operation takes.
CheckExpires ==
  /\ checked # None /\ updates = <<>> /\ checked' = None
  /\ UNCHANGED <<host, server, late, cached, retried, tasks, views, deleted, owed, used>>

\* INACTIVE_SWEEP_TIMEOUT_MS: the operation is aborted when its turn comes.
SweepTimesOut ==
  /\ sweep # None /\ Trouble
  /\ updates' = [k \in DOMAIN updates |->
       IF updates[k].kind = "sweep" THEN [updates[k] EXCEPT !.aborted = TRUE] ELSE updates[k]]
  /\ UNCHANGED <<host, server, late, caches, pass, sweep, views, deleted, owed>>

-----------------------------------------------------------------------------
(* The chain of target updates: serializeTargetUpdate.                     *)

Current == updates[1]
At(step) == updates # <<>> /\ Current.at = step /\ ~deleted /\ ~Current.aborted
Step(update) == updates' = [updates EXCEPT ![1] = update]

\* Mutant: a pass is over with its operation.
PassIsOver == pass' = "none" /\ updates' = Tail(updates)

\* The idle pass after its operation: again if an event came meanwhile.
PassGoesOn ==
  IF pass = "dirty" /\ ~deleted
  THEN pass' = "clean" /\ updates' = Append(Tail(updates), NewUpdate("idle"))
  ELSE pass' = "none" /\ updates' = Tail(updates)

\* The sweep checks off what is not to be ingested again at this revision.
ChecksOff(ingested, accepted) == ~ingested \/ accepted = DOMAIN Current.plan

\* An operation ends: with messages, with null messages, or with an error.
Ends(ingested, accepted, erred) ==
  CASE Current.kind = "idle" -> PassGoesOn /\ UNCHANGED <<sweep, checked>>
    [] Current.kind = "sweep" ->
         /\ updates' = Tail(updates) /\ sweep' = None
         /\ checked' = IF ~erred /\ ChecksOff(ingested, accepted) THEN sweep ELSE checked
         /\ UNCHANGED pass
    [] OTHER -> updates' = Tail(updates) /\ UNCHANGED <<pass, sweep, checked>>

EndsEmpty == Ends(FALSE, {}, FALSE)
Fails     == Ends(FALSE, {}, TRUE)

\* The signal of the operation is aborted; a post may be on its way.
AbortUpdate ==
  /\ updates # <<>> /\ (deleted \/ Current.aborted)
  /\ IF Current.at \in {"begin", "status"} /\ deleted THEN EndsEmpty ELSE Fails
  /\ \/ UNCHANGED late
     \/ /\ Current.at \in {"post", "retry"} /\ ~deleted
        /\ late' = late \cup {<<Current.at, Current.next, Current.plan[Current.next]>>}
  /\ UNCHANGED <<host, server, cached, retried, views, deleted, owed, used>>

\* A request of the operation fails.
RequestFails ==
  /\ \E step \in {"status", "messages", "confirm", "listing"} : At(step)
  /\ Trouble /\ Fails
  /\ owed' = IF Current.at = "status" /\ Current.kind = "idle" THEN FALSE ELSE owed
  /\ UNCHANGED <<host, server, late, cached, retried, views, deleted>>

\* captureIdleMessages
LookWhetherIdle ==
  /\ At("status")
  /\ owed' = IF Current.kind = "idle" THEN FALSE ELSE owed
  /\ IF host.busy THEN EndsEmpty
     ELSE Step([Current EXCEPT !.at = "messages"]) /\ UNCHANGED <<pass, sweep, checked>>
  /\ UNCHANGED <<host, server, late, cached, retried, views, deleted, used>>

ReadMessages ==
  /\ At("messages")
  /\ Step([Current EXCEPT !.at = "confirm", !.plan = host.texts, !.tail = host.tail])
  /\ UNCHANGED <<host, server, late, caches, pass, sweep, views, deleted, owed, used>>

ConfirmIdle ==
  /\ At("confirm")
  /\ IF host.busy THEN EndsEmpty
     ELSE Step([Current EXCEPT !.at = "listing"]) /\ UNCHANGED <<pass, sweep, checked>>
  /\ UNCHANGED <<host, server, late, cached, retried, views, deleted, owed, used>>

-----------------------------------------------------------------------------
(* submitSegments                                                          *)

\* What the server says of a segment: its target or else its memory.
Manifest(n) == IF target[n] # None THEN target[n] ELSE memory[n]

\* Mutant: what the manifest says does not matter.
AgreesAlways(n) == TRUE

\* A cached submission that the server's manifest does not contradict.
Agrees(n) ==
  \/ Manifest(n) = None
  \/ Manifest(n) = cached[n].text /\ n \notin failed

\* synchronizeSuccessfulFingerprints
Synchronized == [n \in Spans |-> IF cached[n] # None /\ ~Agrees(n) THEN None ELSE cached[n]]

Closed(update, n) == n < Len(update.plan) \/ update.tail = "closed"

\* An open segment is posted if it is safe and its session still inactive.
Wanted(update, n) == Closed(update, n) \/ (update.open /\ update.tail = "open")

Known(cache, update, n) ==
  /\ cache[n] # None /\ cache[n].text = update.plan[n]
  /\ cache[n].priority >= Priority[update.kind]

\* The loop goes on at segment k, to the next one that must be posted.
GoesOn(cache, update, k, accepted) ==
  LET todo == {n \in DOMAIN update.plan : n >= k /\ Wanted(update, n) /\ ~Known(cache, update, n)}
      stop == Min(todo \cup {Len(update.plan) + 1})
      done == accepted \cup {n \in DOMAIN update.plan : n \in k..stop - 1 /\ Wanted(update, n)}
  IN  IF todo = {} THEN Ends(update.kind # "foreground", done, FALSE)
      ELSE /\ Step([update EXCEPT !.at = "post", !.next = stop, !.accepted = done])
           /\ UNCHANGED <<pass, sweep, checked>>

ReadListing ==
  /\ At("listing")
  /\ cached' = Synchronized
  /\ IF Current.kind = "sweep"
     THEN Step([Current EXCEPT !.at = "inactive"]) /\ UNCHANGED <<pass, sweep, checked>>
     ELSE GoesOn(cached', Current, 1, {})
  /\ UNCHANGED <<host, server, late, retried, views, deleted, owed, used>>

\* isStillInactive; a request that fails counts as no.
LookWhetherInactive ==
  /\ At("inactive")
  /\ GoesOn(cached, [Current EXCEPT !.open = host.inactive], 1, {})
  /\ UNCHANGED <<host, server, late, cached, retried, views, deleted, owed, used>>

\* The synchronisation of a projection begins when its turn comes.
BeginForeground ==
  /\ At("begin")
  /\ GoesOn(cached, Current, 1, {})
  /\ UNCHANGED <<host, server, late, cached, retried, views, deleted, owed, used>>

Accepts(n, t) ==
  /\ cached' = [cached EXCEPT ![n] = [text |-> t, priority |-> Priority[Current.kind]]]
  /\ GoesOn(cached', Current, n + 1, Current.accepted \cup {n})

\* A closed segment that fails ends the operation, an open one is logged.
Refuses(n) ==
  /\ IF Closed(Current, n) THEN Fails ELSE GoesOn(cached, Current, n + 1, Current.accepted)
  /\ UNCHANGED cached

\* A retry is remembered before it is sent.
SendsRetry(n, t) ==
  /\ Step([Current EXCEPT !.at = "retry"])
  /\ retried' = [retried EXCEPT ![n] = t]
  /\ UNCHANGED <<cached, pass, sweep, checked>>

PostAnswered(n, t) ==
  /\ Posted(n, t)
  /\ \/ n \notin failed' /\ Accepts(n, t) /\ UNCHANGED retried
     \/ n \in failed' /\ retried[n] = t /\ Refuses(n) /\ UNCHANGED retried
     \/ n \in failed' /\ retried[n] # t /\ SendsRetry(n, t)
  /\ UNCHANGED <<late, used>>

RetryAnswered(n, t) ==
  /\ Retried(n, t)
  /\ IF Retriable(n, t) THEN Accepts(n, t) ELSE Refuses(n)
  /\ UNCHANGED <<late, retried, used>>

\* TARGET_POST_TIMEOUT_MS, or an error: the request was lost, or its answer,
\* or it is still on its way.
PostFails(n, t) ==
  /\ Trouble /\ Refuses(n)
  /\ \/ UNCHANGED <<server, late>>
     \/ /\ IF Current.at = "post" THEN Posted(n, t) ELSE Retried(n, t)
        /\ UNCHANGED late
     \/ late' = late \cup {<<Current.at, n, t>>} /\ UNCHANGED server
  /\ UNCHANGED retried

Submit ==
  /\ \E n \in Spans : \E t \in Texts :
       /\ At("post") \/ At("retry")
       /\ n = Current.next /\ t = Current.plan[n]
       /\ \/ At("post") /\ PostAnswered(n, t)
          \/ At("retry") /\ RetryAnswered(n, t)
          \/ PostFails(n, t)
  /\ UNCHANGED <<host, views, deleted, owed>>

-----------------------------------------------------------------------------
(* A projection that reaches its reset, and the deletion of the session.   *)

\* Mutant: a projection does not look whether its session was deleted.
StaysValid == TRUE

\* operation.signal.aborted, deletedSessions and the generation
Valid == ~deleted

\* The transform has read the manifest and the history, and queues the closed
\* segments for submission. Without the manifest it goes on without summaries.
BeginProjection ==
  /\ host.busy /\ ~deleted /\ ~projection
  /\ \/ /\ Spend("projections") /\ projection' = TRUE /\ UNCHANGED projected
        /\ cached' = Synchronized
        /\ updates' = Append(updates, [NewUpdate("foreground") EXCEPT
                                         !.at = "begin", !.plan = host.texts, !.tail = host.tail])
     \/ /\ Trouble /\ projected' = TRUE /\ UNCHANGED <<cached, updates, projection>>
  /\ UNCHANGED <<host, server, late, retried, checked, pass, sweep, deleted, owed>>

\* The submission ended or TARGET_WAIT_TIMEOUT_MS passed, and the second
\* listing came or failed: the transform stores its state, or throws.
FinishProjection ==
  /\ projection /\ projection' = FALSE
  /\ cached' \in IF deleted THEN {cached} ELSE {cached, Synchronized}
  /\ projected' = (projected \/ Valid)
  /\ UNCHANGED <<host, server, late, retried, checked, tasks, deleted, owed, used>>

\* session.deleted. What the host had of the session, and what is on its way,
\* is no longer looked at.
DeleteSession ==
  /\ ~deleted /\ deleted' = TRUE
  /\ cached' = [n \in Spans |-> None] /\ retried' = [n \in Spans |-> None] /\ checked' = None
  /\ projected' = FALSE
  /\ host' = Session /\ late' = {}
  /\ UNCHANGED <<server, tasks, projection, owed, used>>

-----------------------------------------------------------------------------
Server ==
  /\ ~deleted
  /\ \/ \E n \in Spans : CommitJob(n) \/ FailJob(n)
     \/ \E n \in Spans, t \in Texts : OtherWriter(n, t)
     \/ \E message \in late : Arrive(message)

\* The sweep and the operation at work.
Ingest ==
  \/ SweepSession \/ AbortUpdate
  \/ LookWhetherIdle \/ ReadMessages \/ ConfirmIdle
  \/ ReadListing \/ LookWhetherInactive \/ BeginForeground \/ Submit

Next ==
  \/ Prompt \/ Rest \/ BecomeInactive \/ IdleEvent \/ DeleteSession
  \/ Server
  \/ CheckExpires \/ SweepTimesOut \/ RequestFails
  \/ Ingest \/ BeginProjection \/ FinishProjection

Spec == Init /\ [][Next]_vars

\* A run ends and time passes; other sessions of the directory become idle
\* again and again; requests are answered or given up. Nothing is assumed of
\* idle events, other writers, projections and the server.
Fairness ==
  /\ WF_vars(Rest) /\ WF_vars(BecomeInactive) /\ WF_vars(CheckExpires)
  /\ WF_vars(Ingest) /\ WF_vars(FinishProjection)

FairSpec == Spec /\ Fairness

-----------------------------------------------------------------------------
(* Properties *)

\* Deleting a session, whatever was at work for it, leaves no submission, no
\* retry and no projection state of it (index.ts:1352-1382). The sweep may
\* still check it off afterwards, an entry that nobody reads.
DeletedLeavesNothing ==
  deleted => ~projected /\ \A n \in Spans : cached[n] = None /\ retried[n] = None

\* As long as nobody has looked after an idle event, a pass is there that is
\* still to look, or that was marked to run again (runIdle, index.ts:1281-1324).
EventsAreHeld == owed /\ ~deleted =>
  \E k \in DOMAIN updates :
    updates[k].kind = "idle" /\ (updates[k].at = "status" \/ pass = "dirty")

\* After every idle event the session is looked at again, however the events
\* and the passes overlap (runIdle, index.ts:1281-1324).
EventsAreIngested == owed ~> ~owed \/ deleted

Wants(n) == n < Len(host.texts) \/ host.tail = "closed" \/ host.tail = "open"

\* A segment is as the session says on the server, or will be.
Ingested(n) == Manifest(n) = host.texts[n]

\* A closed segment whose job remains failed stops those after it.
Blocked(n) == \E m \in failed : m < n /\ target[m] = host.texts[m]

\* Whatever arrives late, is posted by others, or is remembered wrongly, the
\* sweeps bring the server to what the session says.
TargetConverges ==
  <>[](deleted \/ \A n \in DOMAIN host.texts : Wants(n) => Ingested(n) \/ Blocked(n))
=============================================================================
