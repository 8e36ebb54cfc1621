--------------------------- MODULE NativeDelivery ---------------------------
(***************************************************************************)
(* Posting the snapshots of one segment to the Reflection server and       *)
(* retrying the one that failed: submit, retryJob and update of            *)
(* packages/opencode-v2-plugin/src/ingestion.ts.                           *)
(*                                                                         *)
(* Each request is sent, served and answered in steps of their own; it may *)
(* be lost, may reach the server after the plugin gave it up, and a        *)
(* gateway may answer for the server.  The plugin cannot tell these apart  *)
(* and must not let a failed snapshot be extracted again more than once.   *)
(*                                                                         *)
(* Contents of a segment end at different messages, so each has a job of   *)
(* its own.  The server is JobStore reduced to what the plugin sees.       *)
(***************************************************************************)
EXTENDS Naturals, FiniteSets

CONSTANTS
  Callers,       \* concurrent calls of submit (the session queue admits one)
  Contents,      \* what the segment may contain
  None,
  MaxEdits,      \* bound: changes of the session
  MaxFailures,   \* bound: jobs that end in a terminal failure
  MaxLosses,     \* bound: requests without an answer, and cancelled calls
  MaxErrors,     \* bound: answers of a gateway that dropped the request
  MaxLies,       \* bound: answers of a gateway that delivers it later
  MaxRestarts,   \* bound: restarts of the plugin
  MaxRepairs     \* bound: an operator's retries and supersedes

ASSUME DeliveryAssumption ==
  /\ None \notin Contents
  /\ MaxEdits \in Nat /\ MaxFailures \in Nat /\ MaxLosses \in Nat
  /\ MaxErrors \in Nat /\ MaxLies \in Nat /\ MaxRestarts \in Nat
  /\ MaxRepairs \in Nat

VARIABLES
  content,    \* what the segment contains in the session at rest
  rows,       \* extraction_jobs: status, and which failure a failed one is
  wanted,     \* the segment's target, or None
  committed,  \* the committed content, or None
  tasks,      \* the calls of submit
  late,       \* posts given up by the plugin that may still reach the server
  submitted,  \* Ingestion.submitted for the segment
  retried,    \* Ingestion.retried
  pending,    \* Ingestion.pendingRetries
  took,       \* how often the plugin's retries of a content took effect
  used        \* what is used up of the bounds

server == <<rows, wanted, committed>>
plugin == <<tasks, submitted, retried, pending>>
vars   == <<content, server, plugin, late, took, used>>

Row == [status : {"none", "pending", "running", "failed", "succeeded", "superseded"},
        failure : Nat]

\* A manifest says whether the content is confirmed; a 4xx that it is refused.
Answer == [status : {"none", "pending", "running", "failed", "succeeded", "superseded",
                     "confirmed", "unconfirmed", "rejected"},
           failure : Nat]

Says(status) == [status |-> status, failure |-> 0]
NoAnswer == Says("none")

Requests == {"manifest", "segments", "reconcile", "retry", "check"}
\* Every edit makes the session another revision.
Task     == [at : Requests \cup {"idle"}, content : Contents \cup {None},
             revision : 0..MaxEdits, answer : Answer]
Idle     == [at |-> "idle", content |-> None, revision |-> 0, answer |-> NoAnswer]

\* The failure that is to be retried, and whether the request is known to
\* have been answered by an HTTP error.
NoRetry == [failure |-> 0, httpFailure |-> FALSE]
Pending == [failure : Nat \ {0}, httpFailure : BOOLEAN] \cup {NoRetry}

Message == [kind : {"segments", "retry"}, content : Contents, number : Nat]
Bounds  == [edits : 0..MaxEdits, failures : 0..MaxFailures, losses : 0..MaxLosses,
            errors : 0..MaxErrors, lies : 0..MaxLies, restarts : 0..MaxRestarts,
            repairs : 0..MaxRepairs]

TypeOK ==
  /\ content \in Contents
  /\ rows \in [Contents -> Row]
  /\ wanted \in Contents \cup {None} /\ committed \in Contents \cup {None}
  /\ tasks \in [Callers -> Task]
  /\ late \subseteq Message
  /\ submitted \in Contents \cup {None}
  /\ retried \subseteq Contents
  /\ pending \in [Contents -> Pending]
  /\ took \in [Contents -> Nat]
  /\ used \in Bounds

Init ==
  /\ content \in Contents
  /\ rows = [c \in Contents |-> Says("none")] /\ wanted = None /\ committed = None
  /\ tasks = [k \in Callers |-> Idle] /\ late = {}
  /\ submitted = None /\ retried = {} /\ pending = [c \in Contents |-> NoRetry]
  /\ took = [c \in Contents |-> 0]
  /\ used = [edits |-> 0, failures |-> 0, losses |-> 0, errors |-> 0, lies |-> 0,
             restarts |-> 0, repairs |-> 0]

-----------------------------------------------------------------------------
(* The session, the extraction worker and the operator. *)

Edit ==
  /\ used.edits < MaxEdits
  /\ content' \in Contents \ {content}
  /\ used' = [used EXCEPT !.edits = @ + 1]
  /\ UNCHANGED <<server, plugin, late, took>>

StartJob(c) ==
  /\ rows[c].status = "pending" /\ wanted = c
  /\ rows' = [rows EXCEPT ![c] = Says("running")]
  /\ UNCHANGED <<content, wanted, committed, plugin, late, took, used>>

\* An attempt that may be repeated, or that a crash ended.
RequeueJob(c) ==
  /\ rows[c].status = "running" /\ wanted = c
  /\ rows' = [rows EXCEPT ![c] = Says("pending")]
  /\ UNCHANGED <<content, wanted, committed, plugin, late, took, used>>

\* Work on a content that is not wanted any more is discarded.
DiscardJob(c) ==
  /\ rows[c].status = "running" /\ wanted # c
  /\ rows' = [rows EXCEPT ![c] = Says("superseded")]
  /\ UNCHANGED <<content, wanted, committed, plugin, late, took, used>>

CommitJob(c) ==
  /\ rows[c].status = "running" /\ wanted = c
  /\ rows' = [rows EXCEPT ![c] = Says("succeeded")]
  /\ wanted' = None /\ committed' = c
  /\ UNCHANGED <<content, plugin, late, took, used>>

\* Every failure has times of its own.
FailJob(c) ==
  /\ rows[c].status = "running" /\ wanted = c
  /\ used.failures < MaxFailures
  /\ rows' = [rows EXCEPT ![c] = [status |-> "failed", failure |-> used.failures + 1]]
  /\ used' = [used EXCEPT !.failures = @ + 1]
  /\ UNCHANGED <<content, wanted, committed, plugin, late, took>>

Retryable(c) == rows[c].status = "failed" /\ wanted = c

OperatorRetry(c) ==
  /\ Retryable(c) /\ used.repairs < MaxRepairs
  /\ rows' = [rows EXCEPT ![c] = Says("pending")]
  /\ used' = [used EXCEPT !.repairs = @ + 1]
  /\ UNCHANGED <<content, wanted, committed, plugin, late, took>>

OperatorSupersede(c) ==
  /\ Retryable(c) /\ used.repairs < MaxRepairs
  /\ rows' = [rows EXCEPT ![c] = Says("superseded")]
  /\ wanted' = None
  /\ used' = [used EXCEPT !.repairs = @ + 1]
  /\ UNCHANGED <<content, committed, plugin, late, took>>

Server(c) ==
  \/ StartJob(c) \/ RequeueJob(c) \/ DiscardJob(c) \/ CommitJob(c) \/ FailJob(c)
  \/ OperatorRetry(c) \/ OperatorSupersede(c)

-----------------------------------------------------------------------------
(* The server takes a request. *)

\* An exact target that did not fail or, without one, an exact boundary.
Confirmed(c) ==
  \/ wanted = c /\ rows[c].status \in {"pending", "running", "succeeded"}
  \/ wanted = None /\ committed = c

Enqueue(c) ==
  IF wanted = c THEN UNCHANGED <<rows, wanted>>
  ELSE IF wanted = None /\ committed = c
  THEN /\ rows' = [rows EXCEPT ![c] = IF @.status = "running" THEN @ ELSE Says("succeeded")]
       /\ UNCHANGED wanted
  ELSE /\ wanted' = c
       /\ rows' = [d \in Contents |->
            IF d = c THEN IF rows[d].status = "running" THEN rows[d] ELSE Says("pending")
            ELSE IF rows[d].status \in {"pending", "failed"} THEN Says("superseded")
            ELSE rows[d]]

RetryFailedJob(c) ==
  IF Retryable(c)
  THEN /\ rows' = [rows EXCEPT ![c] = Says("pending")]
       /\ took' = [took EXCEPT ![c] = @ + 1]
  ELSE UNCHANGED <<rows, took>>

Waits(k, at) == tasks[k].at = at /\ tasks[k].answer = NoAnswer

Answers(k, answer) == tasks' = [tasks EXCEPT ![k].answer = answer]

ServeManifest(k) ==
  /\ Waits(k, "manifest")
  /\ Answers(k, Says(IF Confirmed(tasks[k].content) THEN "confirmed" ELSE "unconfirmed"))
  /\ UNCHANGED <<content, server, submitted, retried, pending, late, took, used>>

ServeSegments(k) ==
  /\ Waits(k, "segments")
  /\ Enqueue(tasks[k].content)
  /\ Answers(k, rows'[tasks[k].content])
  /\ UNCHANGED <<content, committed, submitted, retried, pending, late, took, used>>

ServeRetry(k) ==
  /\ Waits(k, "retry")
  /\ RetryFailedJob(tasks[k].content)
  /\ Answers(k, Says(IF Retryable(tasks[k].content) THEN "pending" ELSE "rejected"))
  /\ UNCHANGED <<content, wanted, committed, submitted, retried, pending, late, used>>

ServeJob(k) ==
  /\ Waits(k, "reconcile") \/ Waits(k, "check")
  /\ Answers(k, rows[tasks[k].content])
  /\ UNCHANGED <<content, server, submitted, retried, pending, late, took, used>>

Serve(k) == ServeManifest(k) \/ ServeSegments(k) \/ ServeRetry(k) \/ ServeJob(k)

\* A post arrives that the plugin does not wait for any more.
Arrive(message) ==
  /\ late' = late \ {message}
  /\ \/ message.kind = "segments" /\ Enqueue(message.content) /\ UNCHANGED took
     \/ message.kind = "retry" /\ RetryFailedJob(message.content) /\ UNCHANGED wanted
  /\ UNCHANGED <<content, committed, plugin, used>>

-----------------------------------------------------------------------------
(* The plugin. *)

Sends(k, at) ==
  tasks' = [tasks EXCEPT ![k] = [at |-> at, content |-> @.content,
                                 revision |-> 0, answer |-> NoAnswer]]
Ends(k)      == tasks' = [tasks EXCEPT ![k] = Idle]

\* An idle event or the sweep plans the segment.
Trigger(k) ==
  /\ tasks[k].at = "idle"
  /\ tasks' = [tasks EXCEPT ![k] = [at |-> "manifest", content |-> content,
                                    revision |-> used.edits, answer |-> NoAnswer]]
  /\ UNCHANGED <<content, server, submitted, retried, pending, late, took, used>>

Has(k, at) == tasks[k].at = at /\ tasks[k].answer # NoAnswer

\* Mutant: a content that was submitted once is not posted again.
SkipsSubmitted(k, promotes) == submitted = tasks[k].content /\ ~promotes

\* A confirmed target is not posted twice, but to promote a range that was
\* open to the priority of a closed one.
Skips(k, promotes) ==
  /\ submitted = tasks[k].content /\ ~promotes
  /\ tasks[k].answer = Says("confirmed")
  /\ pending[tasks[k].content] = NoRetry

\* Nothing is posted for a session that went on.
ReceiveManifest(k) ==
  /\ Has(k, "manifest")
  /\ \E promotes \in BOOLEAN :
       \/ /\ used.edits # tasks[k].revision \/ Skips(k, promotes)
          /\ Ends(k) /\ UNCHANGED submitted
       \/ /\ used.edits = tasks[k].revision /\ ~Skips(k, promotes)
          /\ submitted' = IF tasks[k].answer = Says("confirmed") THEN submitted ELSE None
          /\ Sends(k, "segments")
  /\ UNCHANGED <<content, server, retried, pending, late, took, used>>

Records(k) == submitted' = tasks[k].content /\ Ends(k)

\* Ends with "exact target remained failed after one retry", or sends it.
RetriesOnce(k, job) ==
  LET c == tasks[k].content
  IN  \/ /\ c \in retried /\ Ends(k)
         /\ pending' = [pending EXCEPT ![c] = NoRetry]
      \/ /\ c \notin retried /\ Sends(k, "retry")
         /\ pending' = [pending EXCEPT ![c] = [failure |-> job.failure,
                                               httpFailure |-> FALSE]]

\* Mutant: two calls may retry one content at the same time.
RetryingNothing == {}

\* The contents whose retry some call is busy with.
Retrying == {tasks[k].content : k \in {k \in Callers : tasks[k].at \in {"reconcile", "retry", "check"}}}

ReceiveSegments(k) ==
  /\ Has(k, "segments")
  /\ LET c == tasks[k].content  job == tasks[k].answer
     IN  \/ /\ job.status # "failed" /\ pending[c] = NoRetry
            /\ Records(k) /\ UNCHANGED pending
         \/ /\ job.status = "failed" \/ pending[c] # NoRetry
            /\ c \in Retrying
            /\ Ends(k) /\ UNCHANGED <<submitted, pending>>
         \/ /\ pending[c] # NoRetry /\ c \notin Retrying
            /\ Sends(k, "reconcile") /\ UNCHANGED <<submitted, pending>>
         \/ /\ job.status = "failed" /\ pending[c] = NoRetry /\ c \notin Retrying
            /\ RetriesOnce(k, job) /\ UNCHANGED submitted
  /\ UNCHANGED <<content, server, retried, late, took, used>>

\* The job left the failure that was to be retried.
Moved(c, job) ==
  \/ job.status \in {"pending", "running", "succeeded"}
  \/ job.status = "failed" /\ job.failure # pending[c].failure

\* Mutant: nothing proves it.
NeverUndelivered(c, job) == FALSE

Undelivered(c, job) ==
  job.status = "failed" /\ ~Moved(c, job) /\ pending[c].httpFailure

ConfirmsRetry(k) ==
  LET c == tasks[k].content
  IN  /\ Moved(c, tasks[k].answer)
      /\ retried' = retried \cup {c}
      /\ pending' = [pending EXCEPT ![c] = NoRetry]
      /\ IF tasks[k].answer.status = "failed"
         THEN Ends(k) /\ UNCHANGED submitted ELSE Records(k)

\* An unchanged job does not prove that the request is no longer under way.
StaysAmbiguous(k) ==
  /\ ~Moved(tasks[k].content, tasks[k].answer)
  /\ ~Undelivered(tasks[k].content, tasks[k].answer)
  /\ Ends(k) /\ UNCHANGED <<submitted, retried, pending>>

ReceiveReconciled(k) ==
  /\ Has(k, "reconcile")
  /\ \/ ConfirmsRetry(k)
     \/ StaysAmbiguous(k)
     \/ /\ Undelivered(tasks[k].content, tasks[k].answer)
        /\ RetriesOnce(k, tasks[k].answer) /\ UNCHANGED <<submitted, retried>>
  /\ UNCHANGED <<content, server, late, took, used>>

\* A refusal is looked into; the job that was set back is evidence enough.
ReceiveRetried(k) ==
  /\ Has(k, "retry")
  /\ \/ /\ tasks[k].answer = Says("rejected")
        /\ pending' = [pending EXCEPT ![tasks[k].content].httpFailure = TRUE]
        /\ Sends(k, "check") /\ UNCHANGED <<submitted, retried>>
     \/ tasks[k].answer # Says("rejected") /\ ConfirmsRetry(k)
  /\ UNCHANGED <<content, server, late, took, used>>

ReceiveChecked(k) ==
  /\ Has(k, "check")
  /\ \/ ConfirmsRetry(k)
     \/ StaysAmbiguous(k)
     \/ /\ Undelivered(tasks[k].content, tasks[k].answer)
        /\ pending' = [pending EXCEPT ![tasks[k].content] = NoRetry]
        /\ Ends(k) /\ UNCHANGED <<submitted, retried>>
  /\ UNCHANGED <<content, server, late, took, used>>

Receive(k) ==
  \/ ReceiveManifest(k) \/ ReceiveSegments(k) \/ ReceiveReconciled(k)
  \/ ReceiveRetried(k) \/ ReceiveChecked(k)

-----------------------------------------------------------------------------
(* Faults. *)

\* What of the caller's request may still be on its way.
Unserved(k) ==
  IF Waits(k, "segments") \/ Waits(k, "retry")
  THEN {[kind |-> tasks[k].at, content |-> tasks[k].content,
         number |-> used.losses + used.lies + used.restarts]}
  ELSE {}

\* A retry that failed is looked into; any other failure ends the call.
GivesUp(k, httpFailure) ==
  IF tasks[k].at = "retry"
  THEN /\ Sends(k, "check")
       /\ pending' = [pending EXCEPT ![tasks[k].content].httpFailure = httpFailure]
  ELSE Ends(k) /\ UNCHANGED pending

\* No answer came: the request is lost, the answer is, or one of them is slow.
Timeout(k) ==
  /\ tasks[k].at # "idle" /\ used.losses < MaxLosses
  /\ late' \in {late, late \cup Unserved(k)}
  /\ GivesUp(k, FALSE)
  /\ used' = [used EXCEPT !.losses = @ + 1]
  /\ UNCHANGED <<content, server, submitted, retried, took>>

\* The operation is aborted at its deadline.
Cancel(k) ==
  /\ tasks[k].at # "idle" /\ used.losses < MaxLosses
  /\ late' \in {late, late \cup Unserved(k)}
  /\ Ends(k)
  /\ used' = [used EXCEPT !.losses = @ + 1]
  /\ UNCHANGED <<content, server, submitted, retried, pending, took>>

\* A gateway answers that did not pass the request on, or lost the answer.
GatewayError(k) ==
  /\ tasks[k].at # "idle" /\ used.errors < MaxErrors
  /\ GivesUp(k, TRUE)
  /\ used' = [used EXCEPT !.errors = @ + 1]
  /\ UNCHANGED <<content, server, late, submitted, retried, took>>

\* A gateway answers that still passes the request on.
GatewayLie(k) ==
  /\ Unserved(k) # {} /\ used.lies < MaxLies
  /\ late' = late \cup Unserved(k)
  /\ GivesUp(k, TRUE)
  /\ used' = [used EXCEPT !.lies = @ + 1]
  /\ UNCHANGED <<content, server, submitted, retried, took>>

Restart ==
  /\ used.restarts < MaxRestarts
  /\ tasks' = [k \in Callers |-> Idle]
  /\ late' = late \cup UNION {Unserved(k) : k \in Callers}
  /\ submitted' = None /\ retried' = {} /\ pending' = [c \in Contents |-> NoRetry]
  /\ used' = [used EXCEPT !.restarts = @ + 1]
  /\ UNCHANGED <<content, server, took>>

Fault(k) == Timeout(k) \/ Cancel(k) \/ GatewayError(k) \/ GatewayLie(k)

Next ==
  \/ Edit \/ Restart
  \/ \E c \in Contents : Server(c)
  \/ \E k \in Callers : Trigger(k) \/ Serve(k) \/ Receive(k) \/ Fault(k)
  \/ \E message \in late : Arrive(message)

Spec == Init /\ [][Next]_vars

\* Requests are served and answered, and the session becomes idle again.
Fairness == \A k \in Callers : WF_vars(Trigger(k)) /\ WF_vars(Serve(k)) /\ WF_vars(Receive(k))

FairSpec == Spec /\ Fairness

-----------------------------------------------------------------------------
(* Properties. *)

\* Retries of a content that may still take effect.
UnderWay(c) ==
  Cardinality({k \in Callers : Waits(k, "retry") /\ tasks[k].content = c})
    + Cardinality({message \in late : message.kind = "retry" /\ message.content = c})

\* "best-effort at-most-one confirmed retry" (README): the retries of a
\* content that took effect or still may are at most one, but for one more
\* with each restart and each gateway that answered for a request it kept.
OneRetryPerTarget ==
  \A c \in Contents : took[c] + UnderWay(c) <= 1 + used.lies + used.restarts

\* However requests were lost, delayed and overtaken by others, the server
\* ends up with what the segment contains.
TargetConverges == <>[](wanted = content \/ (wanted = None /\ committed = content))

\* A failed target gets its retry, unless some request ends without any
\* answer: an error that an HTTP answer reports never leaves it ambiguous.
FailedTargetIsRetried ==
  \A c \in Contents :
    rows[c].status = "failed" /\ content = c /\ c \notin retried ~>
      c \in retried \/ rows[c].status # "failed" \/ content # c \/ used.losses > 0
=============================================================================
