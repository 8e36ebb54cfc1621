------------------------ MODULE NativeDeliveryProofs ------------------------
(***************************************************************************)
(* One retry per failed target, proved for calls, contents and faults of   *)
(* any number: TypeOK and OneRetryPerTarget.                               *)
(*                                                                         *)
(* A call that posted a retry is the only one busy with its content, and   *)
(* the retry stays noted down until an answer shows what became of it      *)
(* (CallsInv).  The plugin sends another one only while nothing is noted   *)
(* down, or when an HTTP error answered the last one and the job is still  *)
(* at the failure that one was for; then every retry that took effect or   *)
(* still may is accounted for by a restart or by a gateway that answered   *)
(* for a request it kept (RetriesAreCounted).                              *)
(***************************************************************************)
EXTENDS NativeDelivery, FiniteSetTheorems, TLAPS

\* Where a call is busy with the retry of its content.
Busy == {"reconcile", "retry", "check"}

\* A failure is one of those that happened.
Numbered(job, failures) ==
  job.failure <= failures /\ (job.status = "failed" => job.failure # 0)

FailuresAreNumbered ==
  /\ \A c \in Contents : Numbered(rows[c], used.failures) /\ pending[c].failure <= used.failures
  /\ \A k \in Callers : Numbered(tasks[k].answer, used.failures)

\* A call that is busy noted its retry down, and learns what was served.
CallFits(task, noted) ==
  /\ task.at # "idle" => task.content \in Contents
  /\ task.at \in Busy => noted[task.content] # NoRetry
  /\ task.at = "retry" =>
       /\ ~noted[task.content].httpFailure
       /\ task.answer \in {NoAnswer, Says("pending"), Says("rejected")}

OneIsBusy ==
  \A j, k \in Callers :
    tasks[j].at \in Busy /\ tasks[k].at \in Busy /\ tasks[j].content = tasks[k].content
      => j = k

CallsInv ==
  /\ TypeOK /\ FailuresAreNumbered /\ OneIsBusy
  /\ \A k \in Callers : CallFits(tasks[k], pending)

SentRetries(c) == {k \in Callers : Waits(k, "retry") /\ tasks[k].content = c}
LateRetries(c) == {message \in late : message.kind = "retry" /\ message.content = c}

Spent(c) == took[c] + UnderWay(c)

\* The job is at the failure that is to be retried.
Unmoved(c, job) == job.status = "failed" /\ job.failure = pending[c].failure

\* What call k knows, or is to learn, lets it send another retry.
MayLearn(k, c) ==
  /\ tasks[k].content = c
  /\ \/ Has(k, "retry") /\ Unmoved(c, rows[c])
     \/ /\ Has(k, "reconcile") \/ Has(k, "check")
        /\ pending[c].httpFailure /\ Unmoved(c, tasks[k].answer)

MaySendAgain(c) ==
  \/ pending[c] = NoRetry
  \/ pending[c].httpFailure /\ Unmoved(c, rows[c])
  \/ \E k \in Callers : MayLearn(k, c)

Counted(c) ==
  /\ IsFiniteSet(LateRetries(c))
  /\ Spent(c) <= 1 + used.lies + used.restarts
  /\ c \notin retried /\ MaySendAgain(c) => Spent(c) <= used.lies + used.restarts

RetriesAreCounted == \A c \in Contents : Counted(c)

RetryInv == CallsInv /\ RetriesAreCounted

-----------------------------------------------------------------------------
(* What a step does to the calls and to the counters. *)

\* Only k moves, and it becomes a task that is well-typed.
Moves(k) ==
  /\ tasks' \in [Callers -> Task]
  /\ \A j \in Callers \ {k} : tasks'[j] = tasks[j]

LEMMA AnswerTerms ==
  /\ NoAnswer \in Answer /\ NoAnswer.failure = 0 /\ NoAnswer.status = "none"
  /\ \A s \in {"none", "pending", "running", "failed", "succeeded", "superseded",
               "confirmed", "unconfirmed", "rejected"} :
       Says(s) \in Answer /\ Says(s).status = s /\ Says(s).failure = 0
  /\ Row \subseteq Answer
  /\ Idle \in Task /\ Idle.at = "idle" /\ Idle.answer = NoAnswer /\ Idle.content = None
<1>1. \A s \in {"none", "pending", "running", "failed", "succeeded", "superseded",
                 "confirmed", "unconfirmed", "rejected"} :
        Says(s) \in Answer /\ Says(s).status = s /\ Says(s).failure = 0
  BY DEF Says, Answer
<1>2. Row \subseteq Answer
  BY DEF Row, Answer
<1>3. NoAnswer \in Answer /\ NoAnswer.failure = 0 /\ NoAnswer.status = "none"
  BY <1>1 DEF NoAnswer
<1>4. Idle \in Task /\ Idle.at = "idle" /\ Idle.answer = NoAnswer /\ Idle.content = None
  BY <1>3, DeliveryAssumption DEF Idle, Task
<1>5. QED
  BY <1>1, <1>2, <1>3, <1>4

LEMMA SendsTerms ==
  ASSUME TypeOK, NEW k \in Callers, NEW at \in Requests, Sends(k, at)
  PROVE  /\ Moves(k)
         /\ tasks'[k].at = at /\ tasks'[k].content = tasks[k].content
         /\ tasks'[k].answer = NoAnswer
<1>1. tasks \in [Callers -> Task] /\ tasks[k] \in Task
  BY DEF TypeOK
<1>2. PICK t : t = [at |-> at, content |-> tasks[k].content, revision |-> 0, answer |-> NoAnswer]
  OBVIOUS
<1>3. tasks' = [tasks EXCEPT ![k] = t]
  BY <1>1, <1>2 DEF Sends, Task
<1>4. t \in Task /\ t.at = at /\ t.content = tasks[k].content /\ t.answer = NoAnswer
  BY <1>1, <1>2, AnswerTerms, DeliveryAssumption DEF Task
<1>5. tasks'[k] = t /\ Moves(k)
  BY <1>1, <1>3, <1>4 DEF Moves
<1>6. QED
  BY <1>4, <1>5

LEMMA EndsTerms ==
  ASSUME TypeOK, NEW k \in Callers, Ends(k)
  PROVE  Moves(k) /\ tasks'[k] = Idle
  BY AnswerTerms DEF TypeOK, Ends, Moves

LEMMA AnswersTerms ==
  ASSUME TypeOK, NEW k \in Callers, NEW answer \in Answer, Answers(k, answer)
  PROVE  /\ Moves(k)
         /\ tasks'[k].at = tasks[k].at /\ tasks'[k].content = tasks[k].content
         /\ tasks'[k].answer = answer
<1>1. tasks \in [Callers -> Task] /\ tasks[k] \in Task
  BY DEF TypeOK
<1>2. PICK t : t = [tasks[k] EXCEPT !.answer = answer]
  OBVIOUS
<1>3. tasks' = [tasks EXCEPT ![k] = t]
  BY <1>1, <1>2 DEF Answers
<1>4. t \in Task /\ t.at = tasks[k].at /\ t.content = tasks[k].content /\ t.answer = answer
  BY <1>1, <1>2 DEF Task
<1>5. tasks'[k] = t /\ Moves(k)
  BY <1>1, <1>3, <1>4 DEF Moves
<1>6. QED
  BY <1>4, <1>5

\* Nothing that is used up is given back.
Grows ==
  /\ used' \in Bounds
  /\ used'.failures >= used.failures
  /\ used'.lies >= used.lies /\ used'.restarts >= used.restarts

LEMMA UsedGrows ==
  ASSUME used \in Bounds,
         \/ used' = used
         \/ used.edits < MaxEdits /\ used' = [used EXCEPT !.edits = @ + 1]
         \/ used.failures < MaxFailures /\ used' = [used EXCEPT !.failures = @ + 1]
         \/ used.losses < MaxLosses /\ used' = [used EXCEPT !.losses = @ + 1]
         \/ used.errors < MaxErrors /\ used' = [used EXCEPT !.errors = @ + 1]
         \/ used.lies < MaxLies /\ used' = [used EXCEPT !.lies = @ + 1]
         \/ used.restarts < MaxRestarts /\ used' = [used EXCEPT !.restarts = @ + 1]
         \/ used.repairs < MaxRepairs /\ used' = [used EXCEPT !.repairs = @ + 1]
  PROVE  Grows
<1>1. CASE used' = used
  BY <1>1 DEF Grows, Bounds
<1>2. CASE used.edits < MaxEdits /\ used' = [used EXCEPT !.edits = @ + 1]
  BY <1>2, DeliveryAssumption DEF Grows, Bounds
<1>3. CASE used.failures < MaxFailures /\ used' = [used EXCEPT !.failures = @ + 1]
  BY <1>3, DeliveryAssumption DEF Grows, Bounds
<1>4. CASE used.losses < MaxLosses /\ used' = [used EXCEPT !.losses = @ + 1]
  BY <1>4, DeliveryAssumption DEF Grows, Bounds
<1>5. CASE used.errors < MaxErrors /\ used' = [used EXCEPT !.errors = @ + 1]
  BY <1>5, DeliveryAssumption DEF Grows, Bounds
<1>6. CASE used.lies < MaxLies /\ used' = [used EXCEPT !.lies = @ + 1]
  BY <1>6, DeliveryAssumption DEF Grows, Bounds
<1>7. CASE used.restarts < MaxRestarts /\ used' = [used EXCEPT !.restarts = @ + 1]
  BY <1>7, DeliveryAssumption DEF Grows, Bounds
<1>8. CASE used.repairs < MaxRepairs /\ used' = [used EXCEPT !.repairs = @ + 1]
  BY <1>8, DeliveryAssumption DEF Grows, Bounds
<1>9. QED
  BY <1>1, <1>2, <1>3, <1>4, <1>5, <1>6, <1>7, <1>8

-----------------------------------------------------------------------------
(* What a step does to the server. *)

\* A row stays, is set back, or fails anew.
RowFollows(row, next) ==
  \/ next = row
  \/ next.status # "failed" /\ next.failure = 0
  \/ /\ next.failure = used.failures + 1 /\ used'.failures = used.failures + 1

ServerFollows ==
  /\ rows' \in [Contents -> Row]
  /\ wanted' \in Contents \cup {None} /\ committed' \in Contents \cup {None}
  /\ \A c \in Contents : RowFollows(rows[c], rows'[c])

LEMMA SaysRow ==
  \A s \in {"none", "pending", "running", "failed", "succeeded", "superseded"} : Says(s) \in Row
  BY DEF Says, Row

LEMMA RowSet ==
  ASSUME TypeOK, NEW c \in Contents, NEW row \in Row, RowFollows(rows[c], row),
         rows' = [rows EXCEPT ![c] = row],
         wanted' \in Contents \cup {None}, committed' \in Contents \cup {None}
  PROVE  ServerFollows
<1>1. \A d \in Contents : rows'[d] = IF d = c THEN row ELSE rows[d]
  BY DEF TypeOK
<1>2. rows' \in [Contents -> Row]
  BY DEF TypeOK
<1>3. QED
  BY <1>1, <1>2 DEF ServerFollows, RowFollows

LEMMA ServerStays ==
  ASSUME TypeOK, rows' = rows, wanted' = wanted, committed' = committed
  PROVE  ServerFollows
  BY DEF TypeOK, ServerFollows, RowFollows

LEMMA ServerSteps ==
  ASSUME TypeOK, NEW c \in Contents, Server(c)
  PROVE  /\ ServerFollows /\ Grows
         /\ UNCHANGED <<content, tasks, submitted, retried, pending, late, took>>
<1>1. ASSUME NEW s \in {"pending", "running", "superseded", "succeeded"},
             rows' = [rows EXCEPT ![c] = Says(s)],
             wanted' \in {wanted, None}, committed' \in {committed, c}
      PROVE  ServerFollows
  <2>1. Says(s) \in Row /\ RowFollows(rows[c], Says(s))
    BY SaysRow, AnswerTerms DEF RowFollows
  <2>2. wanted' \in Contents \cup {None} /\ committed' \in Contents \cup {None}
    BY <1>1 DEF TypeOK
  <2>3. QED
    BY <1>1, <2>1, <2>2, RowSet
<1>2. CASE StartJob(c) \/ RequeueJob(c) \/ DiscardJob(c) \/ CommitJob(c)
  <2>1. ServerFollows
    BY <1>1, <1>2 DEF StartJob, RequeueJob, DiscardJob, CommitJob
  <2>2. /\ used' = used
        /\ UNCHANGED <<content, tasks, submitted, retried, pending, late, took>>
    BY <1>2 DEF StartJob, RequeueJob, DiscardJob, CommitJob, plugin
  <2>3. QED
    BY <2>1, <2>2, UsedGrows DEF TypeOK
<1>3. CASE FailJob(c)
  <2>1. PICK row : row = [status |-> "failed", failure |-> used.failures + 1]
    OBVIOUS
  <2>2. /\ rows' = [rows EXCEPT ![c] = row]
        /\ wanted' = wanted /\ committed' = committed
        /\ used.failures < MaxFailures /\ used' = [used EXCEPT !.failures = @ + 1]
        /\ UNCHANGED <<content, tasks, submitted, retried, pending, late, took>>
    BY <1>3, <2>1 DEF FailJob, plugin
  <2>3. used.failures \in Nat /\ used'.failures = used.failures + 1
    BY <2>2, DeliveryAssumption DEF TypeOK, Bounds
  <2>4. row \in Row /\ RowFollows(rows[c], row)
    BY <2>1, <2>3 DEF Row, RowFollows
  <2>5. ServerFollows
    BY <2>2, <2>4, RowSet DEF TypeOK
  <2>6. QED
    BY <2>2, <2>5, UsedGrows DEF TypeOK
<1>4. CASE OperatorRetry(c) \/ OperatorSupersede(c)
  <2>1. ServerFollows
    BY <1>1, <1>4 DEF OperatorRetry, OperatorSupersede
  <2>2. /\ used.repairs < MaxRepairs /\ used' = [used EXCEPT !.repairs = @ + 1]
        /\ UNCHANGED <<content, tasks, submitted, retried, pending, late, took>>
    BY <1>4 DEF OperatorRetry, OperatorSupersede, plugin
  <2>3. QED
    BY <2>1, <2>2, UsedGrows DEF TypeOK
<1>5. QED
  BY <1>2, <1>3, <1>4 DEF Server

LEMMA EnqueueTerms ==
  ASSUME TypeOK, NEW c \in Contents, Enqueue(c), committed' = committed
  PROVE  ServerFollows
<1>1. CASE wanted = c
  BY <1>1, ServerStays DEF Enqueue
<1>2. CASE wanted # c /\ wanted = None /\ committed = c
  <2>1. PICK row : row = IF rows[c].status = "running" THEN rows[c] ELSE Says("succeeded")
    OBVIOUS
  <2>2. rows' = [rows EXCEPT ![c] = row] /\ wanted' = wanted
    BY <1>2, <2>1 DEF Enqueue, TypeOK
  <2>3. row \in Row /\ RowFollows(rows[c], row)
    BY <2>1, SaysRow, AnswerTerms DEF RowFollows, TypeOK
  <2>4. QED
    BY <2>2, <2>3, RowSet DEF TypeOK
<1>3. CASE wanted # c /\ ~(wanted = None /\ committed = c)
  <2>1. /\ wanted' = c
        /\ rows' = [d \in Contents |->
             IF d = c THEN IF rows[d].status = "running" THEN rows[d] ELSE Says("pending")
             ELSE IF rows[d].status \in {"pending", "failed"} THEN Says("superseded")
             ELSE rows[d]]
    BY <1>3 DEF Enqueue
  <2>2. \A d \in Contents : rows'[d] \in {rows[d], Says("pending"), Says("superseded")}
    BY <2>1
  <2>3. Says("pending") \in Row /\ Says("superseded") \in Row
    BY SaysRow
  <2>4. rows' \in [Contents -> Row]
    BY <2>1, <2>3 DEF TypeOK
  <2>5. \A d \in Contents : RowFollows(rows[d], rows'[d])
    BY <2>2, AnswerTerms DEF RowFollows
  <2>6. QED
    BY <2>1, <2>4, <2>5 DEF ServerFollows, TypeOK
<1>4. QED
  BY <1>1, <1>2, <1>3

LEMMA RetryTerms ==
  ASSUME TypeOK, NEW c \in Contents, RetryFailedJob(c), wanted' = wanted, committed' = committed
  PROVE  ServerFollows /\ took' \in [Contents -> Nat]
<1>1. CASE Retryable(c)
  <2>1. rows' = [rows EXCEPT ![c] = Says("pending")] /\ took' = [took EXCEPT ![c] = @ + 1]
    BY <1>1 DEF RetryFailedJob
  <2>2. Says("pending") \in Row /\ RowFollows(rows[c], Says("pending"))
    BY SaysRow, AnswerTerms DEF RowFollows
  <2>3. took' \in [Contents -> Nat]
    BY <2>1 DEF TypeOK
  <2>4. ServerFollows
    BY <2>1, <2>2, SaysRow, RowSet DEF TypeOK
  <2>5. QED
    BY <2>3, <2>4
<1>2. CASE ~Retryable(c)
  BY <1>2, ServerStays DEF RetryFailedJob, TypeOK
<1>3. QED
  BY <1>1, <1>2

-----------------------------------------------------------------------------
(* The calls. *)

\* What a step of call k may do: it stays busy with its content, or becomes so
\* while no other is, and only then is its retry noted down or settled.
CallMoves(k) ==
  /\ Moves(k)
  /\ pending' \in [Contents -> Pending]
  /\ \A c \in Contents : pending'[c] # pending[c] => c = tasks[k].content
  /\ \/ tasks[k].at \in Busy \/ tasks[k].content \notin Retrying
     \/ pending' = pending /\ tasks'[k].at \notin Busy
  /\ tasks'[k].at \in Busy => tasks'[k].content = tasks[k].content
  /\ CallFits(tasks'[k], pending') /\ Numbered(tasks'[k].answer, used'.failures)
  /\ \A c \in Contents : pending'[c].failure <= used'.failures

Others ==
  /\ content' \in Contents /\ late' \subseteq Message
  /\ submitted' \in Contents \cup {None} /\ retried' \subseteq Contents
  /\ took' \in [Contents -> Nat]

LEMMA NumberedMore ==
  ASSUME NEW job \in Answer, NEW n \in Nat, NEW m \in Nat, n <= m, Numbered(job, n)
  PROVE  Numbered(job, m)
  BY DEF Numbered, Answer

\* Who keeps to that leaves the others what they rely on.
LEMMA CallsKept ==
  ASSUME CallsInv, ServerFollows, Grows, Others, NEW k \in Callers, CallMoves(k)
  PROVE  CallsInv'
<1>0. /\ used \in Bounds /\ used' \in Bounds /\ used.failures \in Nat /\ used'.failures \in Nat
      /\ used.failures <= used'.failures
      /\ rows \in [Contents -> Row] /\ rows' \in [Contents -> Row]
      /\ tasks \in [Callers -> Task] /\ tasks' \in [Callers -> Task]
      /\ pending \in [Contents -> Pending] /\ pending' \in [Contents -> Pending]
  BY DEF CallsInv, TypeOK, Grows, ServerFollows, CallMoves, Moves, Bounds
<1>1. TypeOK'
  BY <1>0 DEF TypeOK, ServerFollows, Others
<1>2. FailuresAreNumbered'
  <2>1. ASSUME NEW c \in Contents PROVE Numbered(rows'[c], used'.failures)
    <3>1. rows[c] \in Row /\ rows'[c] \in Row /\ Numbered(rows[c], used.failures)
      BY <1>0, <2>1 DEF CallsInv, FailuresAreNumbered
    <3>2. RowFollows(rows[c], rows'[c])
      BY <2>1 DEF ServerFollows
    <3>3. QED
      BY <1>0, <3>1, <3>2 DEF RowFollows, Numbered, Row
  <2>2. \A c \in Contents : pending'[c].failure <= used'.failures
    BY DEF CallMoves
  <2>3. ASSUME NEW j \in Callers PROVE Numbered(tasks'[j].answer, used'.failures)
    <3>1. CASE j = k
      BY <3>1 DEF CallMoves
    <3>2. CASE j # k
      <4>1. tasks'[j] = tasks[j] /\ tasks[j].answer \in Answer
        BY <1>0, <2>3, <3>2 DEF CallMoves, Moves, Task
      <4>2. Numbered(tasks[j].answer, used.failures)
        BY <2>3 DEF CallsInv, FailuresAreNumbered
      <4>3. QED
        BY <1>0, <4>1, <4>2, NumberedMore
    <3>3. QED
      BY <3>1, <3>2
  <2>4. QED
    BY <2>1, <2>2, <2>3 DEF FailuresAreNumbered
<1>3. ASSUME NEW j \in Callers, j # k, tasks[j].at \in Busy
      PROVE  /\ tasks[j].content \in Contents
             /\ tasks[k].at \in Busy => tasks[k].content # tasks[j].content
             /\ tasks[k].content \notin Retrying => tasks[k].content # tasks[j].content
  <2>1. tasks[j].content \in Contents
    BY <1>3 DEF CallsInv, CallFits, Busy
  <2>2. tasks[j].content \in Retrying
    BY <1>3 DEF Retrying, Busy
  <2>3. tasks[k].at \in Busy => tasks[k].content # tasks[j].content
    BY <1>3 DEF CallsInv, OneIsBusy
  <2>4. QED
    BY <2>1, <2>2, <2>3
<1>4. OneIsBusy'
  <2>1. ASSUME NEW j \in Callers, j # k, tasks'[j].at \in Busy, tasks'[k].at \in Busy,
               tasks'[j].content = tasks'[k].content
        PROVE  FALSE
    <3>1. tasks'[j] = tasks[j]
      BY <2>1 DEF CallMoves, Moves
    <3>2. tasks[k].content = tasks[j].content
      BY <2>1, <3>1 DEF CallMoves
    <3>3. tasks[k].at \in Busy \/ tasks[k].content \notin Retrying
      BY <2>1 DEF CallMoves
    <3>4. QED
      BY <1>3, <2>1, <3>1, <3>2, <3>3
  <2>2. ASSUME NEW i \in Callers, NEW j \in Callers, i # k, j # k,
               tasks'[i].at \in Busy, tasks'[j].at \in Busy, tasks'[i].content = tasks'[j].content
        PROVE  i = j
    <3>1. tasks'[i] = tasks[i] /\ tasks'[j] = tasks[j]
      BY <2>2 DEF CallMoves, Moves
    <3>2. QED
      BY <2>2, <3>1 DEF CallsInv, OneIsBusy
  <2>3. QED
    BY <2>1, <2>2 DEF OneIsBusy
<1>5. ASSUME NEW j \in Callers PROVE CallFits(tasks'[j], pending')
  <2>1. CASE j = k
    BY <2>1 DEF CallMoves
  <2>2. CASE j # k
    <3>1. tasks'[j] = tasks[j] /\ CallFits(tasks[j], pending)
      BY <1>5, <2>2 DEF CallMoves, Moves, CallsInv
    <3>2. ASSUME tasks[j].at \in Busy PROVE pending'[tasks[j].content] = pending[tasks[j].content]
      <4>1. CASE pending' = pending
        BY <4>1
      <4>2. CASE tasks[k].at \in Busy \/ tasks[k].content \notin Retrying
        BY <1>3, <1>5, <2>2, <3>2, <4>2 DEF CallMoves
      <4>3. QED
        BY <4>1, <4>2 DEF CallMoves
    <3>3. tasks[j].at = "retry" => tasks[j].at \in Busy
      BY DEF Busy
    <3>4. QED
      BY <3>1, <3>2, <3>3 DEF CallFits
  <2>3. QED
    BY <2>1, <2>2
<1>6. QED
  BY <1>1, <1>2, <1>4, <1>5 DEF CallsInv

\* Nor does a step without a call.
LEMMA CallsRest ==
  ASSUME CallsInv, ServerFollows, Grows, Others, tasks' = tasks, pending' = pending
  PROVE  CallsInv'
<1>0. /\ used.failures \in Nat /\ used'.failures \in Nat
      /\ used.failures <= used'.failures
      /\ rows \in [Contents -> Row] /\ rows' \in [Contents -> Row]
      /\ tasks \in [Callers -> Task] /\ pending \in [Contents -> Pending]
  BY DEF CallsInv, TypeOK, Grows, ServerFollows, Bounds
<1>1. TypeOK'
  BY DEF CallsInv, TypeOK, ServerFollows, Others, Grows
<1>2. FailuresAreNumbered'
  <2>1. ASSUME NEW c \in Contents
        PROVE  Numbered(rows'[c], used'.failures) /\ pending'[c].failure <= used'.failures
    <3>1. /\ rows[c] \in Row /\ rows'[c] \in Row /\ Numbered(rows[c], used.failures)
          /\ pending[c].failure <= used.failures
      BY <1>0, <2>1 DEF CallsInv, FailuresAreNumbered
    <3>2. RowFollows(rows[c], rows'[c])
      BY <2>1 DEF ServerFollows
    <3>3. Numbered(rows'[c], used'.failures)
      BY <1>0, <3>1, <3>2 DEF RowFollows, Numbered, Row
    <3>4. pending[c].failure \in Nat
      BY <1>0, <2>1 DEF Pending, NoRetry
    <3>5. QED
      BY <1>0, <3>1, <3>3, <3>4
  <2>2. ASSUME NEW j \in Callers PROVE Numbered(tasks'[j].answer, used'.failures)
    <3>1. tasks[j].answer \in Answer /\ Numbered(tasks[j].answer, used.failures)
      BY <1>0, <2>2 DEF CallsInv, FailuresAreNumbered, Task
    <3>2. QED
      BY <1>0, <3>1, NumberedMore
  <2>3. QED
    BY <2>1, <2>2 DEF FailuresAreNumbered
<1>3. OneIsBusy' /\ \A k \in Callers : CallFits(tasks'[k], pending')
  BY DEF CallsInv, OneIsBusy
<1>4. QED
  BY <1>1, <1>2, <1>3 DEF CallsInv

\* A call that goes on, while its retry stays as it was noted down.
LEMMA CallGoesOn ==
  ASSUME CallsInv, Grows, NEW k \in Callers, Moves(k), pending' = pending,
         CallFits(tasks'[k], pending), tasks'[k].answer \in Answer,
         Numbered(tasks'[k].answer, used.failures),
         tasks'[k].at \in Busy =>
           /\ tasks'[k].content = tasks[k].content
           /\ tasks[k].at \in Busy \/ tasks[k].content \notin Retrying
  PROVE  CallMoves(k)
<1>1. used.failures \in Nat /\ used'.failures \in Nat /\ used.failures <= used'.failures
  BY DEF CallsInv, TypeOK, Grows, Bounds
<1>2. Numbered(tasks'[k].answer, used'.failures)
  BY <1>1, NumberedMore
<1>3. ASSUME NEW c \in Contents PROVE pending'[c].failure <= used'.failures
  <2>1. pending[c].failure \in Nat /\ pending[c].failure <= used.failures
    BY <1>3 DEF CallsInv, TypeOK, FailuresAreNumbered, Pending, NoRetry
  <2>2. QED
    BY <1>1, <2>1
<1>4. pending' \in [Contents -> Pending]
  BY DEF CallsInv, TypeOK
<1>5. QED
  BY <1>2, <1>3, <1>4 DEF CallMoves

LEMMA CallEnds ==
  ASSUME CallsInv, Grows, NEW k \in Callers, Ends(k), pending' = pending
  PROVE  CallMoves(k) /\ tasks'[k] = Idle
<1>1. Moves(k) /\ tasks'[k] = Idle
  BY EndsTerms DEF CallsInv
<1>2. CallFits(Idle, pending) /\ Idle.answer \in Answer /\ Numbered(Idle.answer, used.failures)
  BY AnswerTerms DEF CallFits, Numbered, Busy, CallsInv, TypeOK, Bounds
<1>3. Idle.at \notin Busy
  BY AnswerTerms DEF Busy
<1>4. QED
  BY <1>1, <1>2, <1>3, CallGoesOn

\* Another request of a call that may be busy with its content.
LEMMA CallSends ==
  ASSUME CallsInv, Grows, NEW k \in Callers, NEW at \in Requests \ {"retry"}, Sends(k, at),
         pending' = pending, tasks[k].at # "idle",
         at \in Busy =>
           /\ pending[tasks[k].content] # NoRetry
           /\ tasks[k].at \in Busy \/ tasks[k].content \notin Retrying
  PROVE  /\ CallMoves(k) /\ tasks'[k].at = at
         /\ tasks'[k].content = tasks[k].content /\ tasks'[k].answer = NoAnswer
<1>1. /\ Moves(k) /\ tasks'[k].at = at
      /\ tasks'[k].content = tasks[k].content /\ tasks'[k].answer = NoAnswer
  BY SendsTerms DEF CallsInv
<1>2. CallFits(tasks'[k], pending)
  BY <1>1 DEF CallFits, CallsInv
<1>3. tasks'[k].answer \in Answer /\ Numbered(tasks'[k].answer, used.failures)
  BY <1>1, AnswerTerms DEF Numbered, CallsInv, TypeOK, Bounds
<1>4. QED
  BY <1>1, <1>2, <1>3, CallGoesOn

\* The retry of the call is noted down anew, or settled.
LEMMA CallNotes ==
  ASSUME CallsInv, Grows, NEW k \in Callers, NEW note \in Pending, Moves(k),
         tasks[k].content \in Contents, pending' = [pending EXCEPT ![tasks[k].content] = note],
         note.failure <= used.failures,
         tasks[k].at \in Busy \/ tasks[k].content \notin Retrying,
         tasks'[k].at \in Busy => tasks'[k].content = tasks[k].content,
         CallFits(tasks'[k], pending'), tasks'[k].answer \in {NoAnswer, Idle.answer}
  PROVE  CallMoves(k)
<1>1. used.failures \in Nat /\ used'.failures \in Nat /\ used.failures <= used'.failures
  BY DEF CallsInv, TypeOK, Grows, Bounds
<1>2. Numbered(tasks'[k].answer, used'.failures)
  BY <1>1, AnswerTerms DEF Numbered
<1>3. /\ pending' \in [Contents -> Pending]
      /\ \A c \in Contents : pending'[c] = IF c = tasks[k].content THEN note ELSE pending[c]
  BY DEF CallsInv, TypeOK
<1>4. ASSUME NEW c \in Contents PROVE pending'[c].failure <= used'.failures
  <2>1. pending[c].failure \in Nat /\ pending[c].failure <= used.failures
    BY <1>4 DEF CallsInv, TypeOK, FailuresAreNumbered, Pending, NoRetry
  <2>2. note.failure \in Nat
    BY DEF Pending, NoRetry
  <2>3. CASE c = tasks[k].content
    BY <1>1, <1>3, <2>2, <2>3
  <2>4. CASE c # tasks[k].content
    <3>1. pending'[c] = pending[c]
      BY <1>3, <2>4
    <3>2. QED
      BY <1>1, <2>1, <3>1
  <2>5. QED
    BY <2>3, <2>4
<1>5. QED
  BY <1>2, <1>3, <1>4 DEF CallMoves

LEMMA CallSettles ==
  ASSUME CallsInv, Grows, NEW k \in Callers, Ends(k), tasks[k].content \in Contents,
         tasks[k].at \in Busy \/ tasks[k].content \notin Retrying,
         pending' = [pending EXCEPT ![tasks[k].content] = NoRetry]
  PROVE  CallMoves(k) /\ tasks'[k] = Idle /\ pending'[tasks[k].content] = NoRetry
<1>1. Moves(k) /\ tasks'[k] = Idle
  BY EndsTerms DEF CallsInv
<1>2. NoRetry \in Pending /\ NoRetry.failure = 0
  BY DEF Pending, NoRetry
<1>3. Idle.at \notin Busy /\ CallFits(Idle, pending')
  BY AnswerTerms DEF Busy, CallFits
<1>4. NoRetry.failure <= used.failures
  BY <1>2 DEF CallsInv, TypeOK, Bounds
<1>5. CallMoves(k)
  BY <1>1, <1>2, <1>3, <1>4, CallNotes
<1>6. QED
  BY <1>1, <1>5 DEF CallsInv, TypeOK

LEMMA CallRetries ==
  ASSUME CallsInv, Grows, NEW k \in Callers, Sends(k, "retry"), tasks[k].content \in Contents,
         tasks[k].at \in Busy \/ tasks[k].content \notin Retrying,
         NEW job \in Answer, job.status = "failed", Numbered(job, used.failures),
         pending' = [pending EXCEPT ![tasks[k].content] =
                       [failure |-> job.failure, httpFailure |-> FALSE]]
  PROVE  /\ CallMoves(k) /\ tasks'[k].at = "retry"
         /\ tasks'[k].content = tasks[k].content /\ tasks'[k].answer = NoAnswer
         /\ pending'[tasks[k].content] # NoRetry /\ ~pending'[tasks[k].content].httpFailure
<1>1. /\ Moves(k) /\ tasks'[k].at = "retry"
      /\ tasks'[k].content = tasks[k].content /\ tasks'[k].answer = NoAnswer
  BY SendsTerms DEF CallsInv, Requests
<1>2. PICK note : note = [failure |-> job.failure, httpFailure |-> FALSE]
  OBVIOUS
<1>3. /\ note \in Pending /\ note # NoRetry /\ ~note.httpFailure
      /\ note.failure <= used.failures
  BY <1>2 DEF Answer, Numbered, Pending, NoRetry
<1>4. pending' = [pending EXCEPT ![tasks[k].content] = note]
  BY <1>2
<1>5. pending'[tasks[k].content] = note
  BY <1>4 DEF CallsInv, TypeOK
<1>6. CallFits(tasks'[k], pending')
  BY <1>1, <1>3, <1>5 DEF CallFits
<1>7. QED
  BY <1>1, <1>3, <1>4, <1>5, <1>6, CallNotes

\* A retry that no answer tells of is looked into.
LEMMA CallChecks ==
  ASSUME CallsInv, Grows, NEW k \in Callers, Sends(k, "check"), tasks[k].at = "retry",
         NEW http \in BOOLEAN,
         pending' = [pending EXCEPT ![tasks[k].content].httpFailure = http]
  PROVE  /\ CallMoves(k) /\ tasks'[k].at = "check"
         /\ tasks'[k].content = tasks[k].content /\ tasks'[k].answer = NoAnswer
         /\ tasks[k].content \in Contents
         /\ pending'[tasks[k].content].failure = pending[tasks[k].content].failure
         /\ pending'[tasks[k].content] # NoRetry
         /\ pending'[tasks[k].content].httpFailure = http
<1>0. tasks[k].content \in Contents /\ pending[tasks[k].content] # NoRetry /\ tasks[k].at \in Busy
  BY DEF CallsInv, CallFits, Busy
<1>1. /\ Moves(k) /\ tasks'[k].at = "check"
      /\ tasks'[k].content = tasks[k].content /\ tasks'[k].answer = NoAnswer
  BY SendsTerms DEF CallsInv, Requests
<1>2. PICK note : note = [pending[tasks[k].content] EXCEPT !.httpFailure = http]
  OBVIOUS
<1>3. pending[tasks[k].content] \in [failure : Nat \ {0}, httpFailure : BOOLEAN]
  BY <1>0 DEF CallsInv, TypeOK, Pending
<1>4. /\ note \in [failure : Nat \ {0}, httpFailure : BOOLEAN]
      /\ note.failure = pending[tasks[k].content].failure /\ note.httpFailure = http
  BY <1>2, <1>3
<1>5. note \in Pending /\ note # NoRetry
  BY <1>4 DEF Pending, NoRetry
<1>6. note.failure <= used.failures
  BY <1>0, <1>4 DEF CallsInv, FailuresAreNumbered
<1>7. pending' = [pending EXCEPT ![tasks[k].content] = note]
  BY <1>2
<1>8. pending'[tasks[k].content] = note
  BY <1>0, <1>7 DEF CallsInv, TypeOK
<1>9. CallFits(tasks'[k], pending')
  BY <1>0, <1>1, <1>5, <1>8 DEF CallFits
<1>10. CallMoves(k)
  BY <1>0, <1>1, <1>5, <1>6, <1>7, <1>9, CallNotes
<1>11. QED
  BY <1>0, <1>1, <1>4, <1>5, <1>8, <1>10

-----------------------------------------------------------------------------
(* Every step. *)

LEMMA CallAnswered ==
  ASSUME CallsInv, Grows, NEW k \in Callers, NEW answer \in Answer, Answers(k, answer),
         pending' = pending, Numbered(answer, used.failures),
         tasks[k].at = "retry" => answer \in {Says("pending"), Says("rejected")}
  PROVE  /\ CallMoves(k)
         /\ tasks'[k].at = tasks[k].at /\ tasks'[k].content = tasks[k].content
         /\ tasks'[k].answer = answer
<1>1. /\ Moves(k)
      /\ tasks'[k].at = tasks[k].at /\ tasks'[k].content = tasks[k].content
      /\ tasks'[k].answer = answer
  BY AnswersTerms DEF CallsInv
<1>2. CallFits(tasks'[k], pending)
  BY <1>1 DEF CallsInv, CallFits
<1>3. QED
  BY <1>1, <1>2, CallGoesOn

LEMMA WaitsForContent ==
  ASSUME CallsInv, NEW k \in Callers, tasks[k].at # "idle"
  PROVE  tasks[k].content \in Contents
  BY DEF CallsInv, CallFits

LEMMA ServeStep ==
  ASSUME CallsInv, NEW k \in Callers, Serve(k)
  PROVE  /\ CallMoves(k) /\ ServerFollows /\ Others /\ Grows
         /\ used' = used /\ late' = late /\ retried' = retried /\ pending' = pending
         /\ tasks'[k].at = tasks[k].at /\ tasks'[k].content = tasks[k].content
         /\ tasks[k].content \in Contents /\ tasks[k].answer = NoAnswer
<1>0. /\ used' = used /\ late' = late /\ retried' = retried /\ pending' = pending
      /\ content' = content /\ submitted' = submitted
      /\ tasks[k].at # "idle" /\ tasks[k].answer = NoAnswer
  BY DEF Serve, ServeManifest, ServeSegments, ServeRetry, ServeJob, Waits
<1>1. Grows
  BY <1>0, UsedGrows DEF CallsInv, TypeOK
<1>2. tasks[k].content \in Contents
  BY <1>0, WaitsForContent
<1>3. CASE ServeManifest(k)
  <2>1. PICK s \in {"confirmed", "unconfirmed"} : Answers(k, Says(s))
    BY <1>3 DEF ServeManifest
  <2>2. Says(s) \in Answer /\ Numbered(Says(s), used.failures)
    BY AnswerTerms DEF Numbered, CallsInv, TypeOK, Bounds
  <2>3. tasks[k].at # "retry"
    BY <1>3 DEF ServeManifest, Waits
  <2>4. CallMoves(k) /\ tasks'[k].at = tasks[k].at /\ tasks'[k].content = tasks[k].content
    BY <1>0, <1>1, <2>1, <2>2, <2>3, CallAnswered
  <2>5. ServerFollows /\ Others
    BY <1>0, <1>3, ServerStays DEF ServeManifest, server, Others, CallsInv, TypeOK
  <2>6. QED
    BY <1>0, <1>1, <1>2, <2>4, <2>5
<1>4. CASE ServeSegments(k)
  <2>1. ServerFollows
    BY <1>2, <1>4, EnqueueTerms DEF ServeSegments, CallsInv
  <2>2. PICK answer : answer = rows'[tasks[k].content]
    OBVIOUS
  <2>3. rows[tasks[k].content] \in Row /\ Numbered(rows[tasks[k].content], used.failures)
    BY <1>2 DEF CallsInv, TypeOK, FailuresAreNumbered
  <2>4. answer \in Row /\ RowFollows(rows[tasks[k].content], answer)
    BY <1>2, <2>1, <2>2 DEF ServerFollows
  <2>5. used.failures \in Nat
    BY DEF CallsInv, TypeOK, Bounds
  <2>6. answer \in Answer /\ Numbered(answer, used.failures)
    BY <1>0, <2>3, <2>4, <2>5, AnswerTerms DEF RowFollows, Numbered, Row
  <2>7. Answers(k, answer) /\ tasks[k].at # "retry"
    BY <1>4, <2>2 DEF ServeSegments, Waits
  <2>8. CallMoves(k) /\ tasks'[k].at = tasks[k].at /\ tasks'[k].content = tasks[k].content
    BY <1>0, <1>1, <2>6, <2>7, CallAnswered
  <2>9. Others
    BY <1>0, <1>4 DEF ServeSegments, Others, CallsInv, TypeOK
  <2>10. QED
    BY <1>0, <1>1, <1>2, <2>1, <2>8, <2>9
<1>5. CASE ServeRetry(k)
  <2>1. PICK s \in {"pending", "rejected"} : Answers(k, Says(s))
    BY <1>5 DEF ServeRetry
  <2>2. Says(s) \in Answer /\ Numbered(Says(s), used.failures)
    BY AnswerTerms DEF Numbered, CallsInv, TypeOK, Bounds
  <2>3. CallMoves(k) /\ tasks'[k].at = tasks[k].at /\ tasks'[k].content = tasks[k].content
    BY <1>0, <1>1, <2>1, <2>2, CallAnswered
  <2>4. ServerFollows /\ took' \in [Contents -> Nat]
    BY <1>2, <1>5, RetryTerms DEF ServeRetry, CallsInv
  <2>5. Others
    BY <1>0, <2>4 DEF Others, CallsInv, TypeOK
  <2>6. QED
    BY <1>0, <1>1, <1>2, <2>3, <2>4, <2>5
<1>6. CASE ServeJob(k)
  <2>1. PICK answer : answer = rows[tasks[k].content]
    OBVIOUS
  <2>2. answer \in Answer /\ Numbered(answer, used.failures)
    BY <1>2, <2>1, AnswerTerms DEF CallsInv, TypeOK, FailuresAreNumbered
  <2>3. Answers(k, answer) /\ tasks[k].at # "retry"
    BY <1>6, <2>1 DEF ServeJob, Waits
  <2>4. CallMoves(k) /\ tasks'[k].at = tasks[k].at /\ tasks'[k].content = tasks[k].content
    BY <1>0, <1>1, <2>2, <2>3, CallAnswered
  <2>5. ServerFollows /\ Others
    BY <1>0, <1>6, ServerStays DEF ServeJob, server, Others, CallsInv, TypeOK
  <2>6. QED
    BY <1>0, <1>1, <1>2, <2>4, <2>5
<1>7. QED
  BY <1>3, <1>4, <1>5, <1>6 DEF Serve

LEMMA TriggerStep ==
  ASSUME CallsInv, NEW k \in Callers, Trigger(k)
  PROVE  CallMoves(k) /\ tasks'[k].at = "manifest" /\ tasks[k].at = "idle"
<1>1. used.edits \in 0..MaxEdits /\ Grows
  BY UsedGrows DEF Trigger, CallsInv, TypeOK, Bounds
<1>2. PICK t : t = [at |-> "manifest", content |-> content, revision |-> used.edits,
                    answer |-> NoAnswer]
  OBVIOUS
<1>3. t \in Task /\ t.at = "manifest" /\ t.content \in Contents /\ t.answer = NoAnswer
  BY <1>1, <1>2, AnswerTerms DEF Task, Requests, CallsInv, TypeOK
<1>4. tasks' = [tasks EXCEPT ![k] = t] /\ tasks[k].at = "idle" /\ pending' = pending
  BY <1>2 DEF Trigger
<1>5. Moves(k) /\ tasks'[k] = t
  BY <1>3, <1>4 DEF Moves, CallsInv, TypeOK
<1>6. CallFits(t, pending) /\ t.at \notin Busy
  BY <1>3 DEF CallFits, Busy
<1>7. t.answer \in Answer /\ Numbered(t.answer, used.failures)
  BY <1>3, AnswerTerms DEF Numbered, CallsInv, TypeOK, Bounds
<1>8. QED
  BY <1>1, <1>3, <1>4, <1>5, <1>6, <1>7, CallGoesOn

\* What the plugin makes of an answer: another retry is sent for a content that
\* may have one, and else it may have one afterwards only if it might before.
Receives(k) ==
  LET c == tasks[k].content
  IN  /\ CallMoves(k) /\ tasks'[k].answer = NoAnswer
      /\ retried \subseteq retried' /\ retried' \subseteq Contents
      /\ \/ /\ tasks'[k].at = "retry" /\ tasks[k].at # "retry"
            /\ c \in Contents \ retried /\ retried' = retried /\ MaySendAgain(c)
            /\ pending'[c] # NoRetry /\ ~pending'[c].httpFailure
         \/ /\ tasks'[k].at # "retry"
            /\ \A d \in Contents : pending'[d] # pending[d] =>
                 d \in retried' \/ MaySendAgain(d)
                 \/ (pending'[d] # NoRetry /\ ~Unmoved(d, rows[d])')

LEMMA RetriesOnceStep ==
  ASSUME CallsInv, Grows, NEW k \in Callers, NEW job \in Answer, job.status = "failed",
         Numbered(job, used.failures), RetriesOnce(k, job), tasks[k].at \in {"segments", "reconcile"},
         tasks[k].at \in Busy \/ tasks[k].content \notin Retrying,
         retried' = retried, MaySendAgain(tasks[k].content)
  PROVE  Receives(k)
<1>0. tasks[k].content \in Contents /\ retried \subseteq Contents
  BY WaitsForContent DEF CallsInv, TypeOK
<1>1. PICK c : c = tasks[k].content
  OBVIOUS
<1>2. CASE c \in retried /\ Ends(k) /\ pending' = [pending EXCEPT ![c] = NoRetry]
  <2>1. CallMoves(k) /\ tasks'[k] = Idle
    BY <1>0, <1>1, <1>2, CallSettles
  <2>2. tasks'[k].answer = NoAnswer /\ tasks'[k].at # "retry"
    BY <2>1, AnswerTerms
  <2>3. \A d \in Contents : pending'[d] # pending[d] => d \in retried'
    BY <1>1, <1>2, <2>1 DEF CallMoves
  <2>4. QED
    BY <1>0, <2>1, <2>2, <2>3 DEF Receives
<1>3. CASE /\ c \notin retried /\ Sends(k, "retry")
           /\ pending' = [pending EXCEPT ![c] = [failure |-> job.failure, httpFailure |-> FALSE]]
  <2>1. /\ CallMoves(k) /\ tasks'[k].at = "retry" /\ tasks'[k].answer = NoAnswer
        /\ pending'[c] # NoRetry /\ ~pending'[c].httpFailure
    BY <1>0, <1>1, <1>3, CallRetries
  <2>2. QED
    BY <1>0, <1>1, <1>3, <2>1 DEF Receives
<1>4. QED
  BY <1>1, <1>2, <1>3 DEF RetriesOnce

LEMMA ReceivesQuietly ==
  ASSUME CallsInv, NEW k \in Callers, CallMoves(k), tasks'[k].answer = NoAnswer,
         tasks'[k].at # "retry", pending' = pending, retried' = retried
  PROVE  Receives(k)
  BY DEF Receives, CallsInv, TypeOK

LEMMA EndsQuietly ==
  ASSUME CallsInv, Grows, NEW k \in Callers, Ends(k), pending' = pending, retried' = retried
  PROVE  Receives(k)
<1>1. CallMoves(k) /\ tasks'[k] = Idle
  BY CallEnds
<1>2. QED
  BY <1>1, AnswerTerms, ReceivesQuietly

\* The answer of a call is numbered, and only a failed job's is a failure.
LEMMA AnswerIsNumbered ==
  ASSUME CallsInv, NEW k \in Callers
  PROVE  tasks[k].answer \in Answer /\ Numbered(tasks[k].answer, used.failures)
  BY DEF CallsInv, TypeOK, FailuresAreNumbered, Task

LEMMA ReceiveManifestStep ==
  ASSUME CallsInv, NEW k \in Callers, Grows, ReceiveManifest(k)
  PROVE  Receives(k)
<1>1. /\ Ends(k) \/ Sends(k, "segments")
      /\ tasks[k].at # "idle" /\ pending' = pending /\ retried' = retried
  BY DEF ReceiveManifest, Has
<1>2. CASE Ends(k)
  BY <1>1, <1>2, EndsQuietly
<1>3. CASE Sends(k, "segments")
  <2>1. "segments" \in Requests \ {"retry"} /\ "segments" \notin Busy
    BY DEF Requests, Busy
  <2>2. CallMoves(k) /\ tasks'[k].at = "segments" /\ tasks'[k].answer = NoAnswer
    BY <1>1, <1>3, <2>1, CallSends
  <2>3. QED
    BY <1>1, <2>2, ReceivesQuietly
<1>4. QED
  BY <1>1, <1>2, <1>3

LEMMA ReceiveSegmentsStep ==
  ASSUME CallsInv, NEW k \in Callers, Grows, ReceiveSegments(k)
  PROVE  Receives(k)
<1>0. tasks[k].at = "segments" /\ retried' = retried
  BY DEF ReceiveSegments, Has
<1>1. PICK c, job : c = tasks[k].content /\ job = tasks[k].answer
  OBVIOUS
<1>2. CASE Ends(k) /\ pending' = pending
  BY <1>0, <1>2, EndsQuietly
<1>3. CASE pending[c] # NoRetry /\ c \notin Retrying /\ Sends(k, "reconcile") /\ pending' = pending
  <2>1. "reconcile" \in Requests \ {"retry"} /\ tasks[k].at # "idle"
    BY <1>0 DEF Requests
  <2>2. CallMoves(k) /\ tasks'[k].at = "reconcile" /\ tasks'[k].answer = NoAnswer
    BY <1>1, <1>3, <2>1, CallSends
  <2>3. QED
    BY <1>0, <1>3, <2>2, ReceivesQuietly
<1>4. CASE /\ job.status = "failed" /\ pending[c] = NoRetry /\ c \notin Retrying
           /\ RetriesOnce(k, job)
  <2>1. job \in Answer /\ Numbered(job, used.failures)
    BY <1>1, AnswerIsNumbered
  <2>2. MaySendAgain(c)
    BY <1>4 DEF MaySendAgain
  <2>3. QED
    BY <1>0, <1>1, <1>4, <2>1, <2>2, RetriesOnceStep
<1>5. QED
  BY <1>1, <1>2, <1>3, <1>4 DEF ReceiveSegments, Records

LEMMA ConfirmsRetryStep ==
  ASSUME CallsInv, NEW k \in Callers, Grows, ConfirmsRetry(k), tasks[k].at \in Busy
  PROVE  Receives(k)
<1>0. tasks[k].content \in Contents /\ retried \subseteq Contents
  BY WaitsForContent DEF CallsInv, TypeOK, Busy
<1>1. /\ Ends(k) /\ retried' = retried \cup {tasks[k].content}
      /\ pending' = [pending EXCEPT ![tasks[k].content] = NoRetry]
  BY DEF ConfirmsRetry, Records
<1>2. CallMoves(k) /\ tasks'[k] = Idle
  BY <1>0, <1>1, CallSettles
<1>3. tasks'[k].answer = NoAnswer /\ tasks'[k].at # "retry"
  BY <1>2, AnswerTerms
<1>4. \A d \in Contents : pending'[d] # pending[d] => d \in retried'
  BY <1>1, <1>2 DEF CallMoves
<1>5. QED
  BY <1>0, <1>1, <1>2, <1>3, <1>4 DEF Receives

\* An HTTP error answered the retry, and the job did not leave its failure.
LEMMA UndeliveredMaySend ==
  ASSUME CallsInv, NEW k \in Callers, Has(k, "reconcile") \/ Has(k, "check"),
         Undelivered(tasks[k].content, tasks[k].answer)
  PROVE  MaySendAgain(tasks[k].content) /\ tasks[k].answer.status = "failed"
<1>1. MayLearn(k, tasks[k].content)
  BY DEF MayLearn, Undelivered, Moved, Unmoved
<1>2. QED
  BY <1>1 DEF MaySendAgain, Undelivered

LEMMA ReceiveReconciledStep ==
  ASSUME CallsInv, NEW k \in Callers, Grows, ReceiveReconciled(k)
  PROVE  Receives(k)
<1>0. tasks[k].at = "reconcile" /\ tasks[k].at \in Busy
  BY DEF ReceiveReconciled, Has, Busy
<1>1. CASE ConfirmsRetry(k)
  BY <1>0, <1>1, ConfirmsRetryStep
<1>2. CASE StaysAmbiguous(k)
  BY <1>2, EndsQuietly DEF StaysAmbiguous
<1>3. CASE /\ Undelivered(tasks[k].content, tasks[k].answer)
           /\ RetriesOnce(k, tasks[k].answer) /\ UNCHANGED <<submitted, retried>>
  <2>1. MaySendAgain(tasks[k].content) /\ tasks[k].answer.status = "failed"
    BY <1>3, UndeliveredMaySend DEF ReceiveReconciled
  <2>2. QED
    BY <1>0, <1>3, <2>1, AnswerIsNumbered, RetriesOnceStep
<1>4. QED
  BY <1>1, <1>2, <1>3 DEF ReceiveReconciled

LEMMA ReceiveRetriedStep ==
  ASSUME CallsInv, NEW k \in Callers, Grows, ReceiveRetried(k)
  PROVE  Receives(k)
<1>0. tasks[k].at = "retry" /\ tasks[k].at \in Busy /\ Has(k, "retry")
  BY DEF ReceiveRetried, Has, Busy
<1>1. CASE ConfirmsRetry(k)
  BY <1>0, <1>1, ConfirmsRetryStep
<1>2. CASE /\ pending' = [pending EXCEPT ![tasks[k].content].httpFailure = TRUE]
           /\ Sends(k, "check") /\ retried' = retried /\ rows' = rows
  <2>1. PICK c : c = tasks[k].content
    OBVIOUS
  <2>2. /\ CallMoves(k) /\ tasks'[k].at = "check" /\ tasks'[k].answer = NoAnswer
        /\ c \in Contents
        /\ pending'[c].failure = pending[c].failure /\ pending'[c] # NoRetry
    BY <1>0, <1>2, <2>1, CallChecks
  <2>3. ASSUME NEW d \in Contents, pending'[d] # pending[d]
        PROVE  MaySendAgain(d) \/ (pending'[d] # NoRetry /\ ~Unmoved(d, rows[d])')
    <3>1. d = c
      BY <2>1, <2>2, <2>3 DEF CallMoves
    <3>2. Unmoved(c, rows[c])' => Unmoved(c, rows[c])
      BY <1>2, <2>2 DEF Unmoved
    <3>3. Unmoved(c, rows[c]) => MaySendAgain(c)
      BY <1>0, <2>1 DEF MaySendAgain, MayLearn
    <3>4. QED
      BY <2>2, <3>1, <3>2, <3>3
  <2>4. retried \subseteq retried' /\ retried' \subseteq Contents
    BY <1>2 DEF CallsInv, TypeOK
  <2>5. QED
    BY <2>2, <2>3, <2>4 DEF Receives
<1>3. QED
  BY <1>1, <1>2 DEF ReceiveRetried, server

LEMMA ReceiveCheckedStep ==
  ASSUME CallsInv, NEW k \in Callers, Grows, ReceiveChecked(k)
  PROVE  Receives(k)
<1>0. tasks[k].at = "check" /\ tasks[k].at \in Busy
  BY DEF ReceiveChecked, Has, Busy
<1>1. CASE ConfirmsRetry(k)
  BY <1>0, <1>1, ConfirmsRetryStep
<1>2. CASE StaysAmbiguous(k)
  BY <1>2, EndsQuietly DEF StaysAmbiguous
<1>3. CASE /\ Undelivered(tasks[k].content, tasks[k].answer)
           /\ pending' = [pending EXCEPT ![tasks[k].content] = NoRetry]
           /\ Ends(k) /\ retried' = retried
  <2>0. tasks[k].content \in Contents
    BY <1>0, WaitsForContent
  <2>1. MaySendAgain(tasks[k].content)
    BY <1>3, UndeliveredMaySend DEF ReceiveChecked
  <2>2. CallMoves(k) /\ tasks'[k] = Idle
    BY <1>0, <1>3, <2>0, CallSettles
  <2>3. tasks'[k].answer = NoAnswer /\ tasks'[k].at # "retry"
    BY <2>2, AnswerTerms
  <2>4. \A d \in Contents : pending'[d] # pending[d] => MaySendAgain(d)
    BY <2>1, <2>2 DEF CallMoves
  <2>5. retried \subseteq retried' /\ retried' \subseteq Contents
    BY <1>3 DEF CallsInv, TypeOK
  <2>6. QED
    BY <2>2, <2>3, <2>4, <2>5 DEF Receives
<1>4. QED
  BY <1>1, <1>2, <1>3 DEF ReceiveChecked

LEMMA ReceiveStep ==
  ASSUME CallsInv, NEW k \in Callers, Receive(k)
  PROVE  /\ Receives(k) /\ ServerFollows /\ Others /\ Grows
         /\ rows' = rows /\ late' = late /\ took' = took /\ used' = used
<1>0. /\ content' = content /\ rows' = rows /\ wanted' = wanted /\ committed' = committed
      /\ late' = late /\ took' = took /\ used' = used
  BY DEF Receive, ReceiveManifest, ReceiveSegments, ReceiveReconciled, ReceiveRetried,
         ReceiveChecked, server
<1>1. Grows /\ ServerFollows
  BY <1>0, UsedGrows, ServerStays DEF CallsInv, TypeOK
<1>2. Receives(k)
  BY <1>1, ReceiveManifestStep, ReceiveSegmentsStep, ReceiveReconciledStep,
     ReceiveRetriedStep, ReceiveCheckedStep DEF Receive
<1>3. submitted' \in {submitted, None, tasks[k].content} /\ tasks[k].content \in Contents \cup {None}
  BY DEF Receive, ReceiveManifest, ReceiveSegments, ReceiveReconciled, ReceiveRetried,
         ReceiveChecked, ConfirmsRetry, StaysAmbiguous, Records, CallsInv, TypeOK, Task
<1>4. Others
  BY <1>0, <1>2, <1>3 DEF Others, Receives, CallsInv, TypeOK
<1>5. QED
  BY <1>0, <1>1, <1>2, <1>4

\* What may still be on its way is that caller's request.
LEMMA UnservedTerms ==
  ASSUME CallsInv, NEW k \in Callers
  PROVE  /\ Unserved(k) \subseteq Message
         /\ \A message \in Unserved(k) :
              /\ message.kind = "retry" => Waits(k, "retry")
              /\ message.content = tasks[k].content
              /\ message.number = used.losses + used.lies + used.restarts
<1>0. used.losses + used.lies + used.restarts \in Nat
  BY DEF CallsInv, TypeOK, Bounds
<1>1. CASE Waits(k, "segments") \/ Waits(k, "retry")
  <2>1. tasks[k].content \in Contents /\ tasks[k].at \in {"segments", "retry"}
    BY <1>1, WaitsForContent DEF Waits
  <2>2. Unserved(k) = {[kind |-> tasks[k].at, content |-> tasks[k].content,
                        number |-> used.losses + used.lies + used.restarts]}
    BY <1>1 DEF Unserved
  <2>3. tasks[k].at = "retry" => Waits(k, "retry")
    BY <1>1 DEF Waits
  <2>4. QED
    BY <1>0, <2>1, <2>2, <2>3 DEF Message
<1>2. CASE ~(Waits(k, "segments") \/ Waits(k, "retry"))
  BY <1>2 DEF Unserved
<1>3. QED
  BY <1>1, <1>2

\* What becomes of a retry that is given up.
GivenUp(k) ==
  LET c == tasks[k].content
  IN  /\ tasks[k].at = "retry" /\ c \in Contents
      /\ tasks'[k].at = "check" /\ tasks'[k].content = c
      /\ pending'[c] # NoRetry /\ pending'[c].failure = pending[c].failure
      /\ \/ ~pending'[c].httpFailure
         \/ late' = late
         \/ used'.lies > used.lies

Fails(k) ==
  /\ CallMoves(k) /\ tasks'[k].answer = NoAnswer /\ tasks'[k].at # "retry"
  /\ pending' = pending \/ GivenUp(k)
  /\ late' \subseteq late \cup Unserved(k)

LEMMA GivesUpTerms ==
  ASSUME CallsInv, Grows, NEW k \in Callers, NEW http \in BOOLEAN, GivesUp(k, http),
         late' \subseteq late \cup Unserved(k),
         ~http \/ late' = late \/ used'.lies > used.lies
  PROVE  Fails(k)
<1>1. CASE tasks[k].at = "retry"
  <2>1. Sends(k, "check") /\ pending' = [pending EXCEPT ![tasks[k].content].httpFailure = http]
    BY <1>1 DEF GivesUp
  <2>2. PICK c : c = tasks[k].content
    OBVIOUS
  <2>3. /\ CallMoves(k) /\ tasks'[k].at = "check" /\ tasks'[k].content = c
        /\ tasks'[k].answer = NoAnswer /\ c \in Contents
        /\ pending'[c].failure = pending[c].failure /\ pending'[c] # NoRetry
        /\ pending'[c].httpFailure = http
    BY <1>1, <2>1, <2>2, CallChecks
  <2>4. QED
    BY <1>1, <2>2, <2>3 DEF Fails, GivenUp
<1>2. CASE tasks[k].at # "retry"
  <2>1. Ends(k) /\ pending' = pending
    BY <1>2 DEF GivesUp
  <2>2. CallMoves(k) /\ tasks'[k] = Idle
    BY <2>1, CallEnds
  <2>3. QED
    BY <2>1, <2>2, AnswerTerms DEF Fails
<1>3. QED
  BY <1>1, <1>2

LEMMA FaultStep ==
  ASSUME CallsInv, NEW k \in Callers, Fault(k)
  PROVE  /\ Fails(k) /\ ServerFollows /\ Others /\ Grows
         /\ rows' = rows /\ took' = took /\ retried' = retried
<1>0. /\ content' = content /\ rows' = rows /\ wanted' = wanted /\ committed' = committed
      /\ took' = took /\ retried' = retried /\ submitted' = submitted
      /\ late' \subseteq late \cup Unserved(k)
  BY DEF Fault, Timeout, Cancel, GatewayError, GatewayLie, server
<1>1. Grows
  BY UsedGrows DEF Fault, Timeout, Cancel, GatewayError, GatewayLie, CallsInv, TypeOK
<1>2. ServerFollows
  BY <1>0, ServerStays DEF CallsInv
<1>3. Others
  BY <1>0, UnservedTerms DEF Others, CallsInv, TypeOK
<1>4. ASSUME Timeout(k) PROVE Fails(k)
  BY <1>0, <1>1, <1>4, GivesUpTerms DEF Timeout
<1>5. ASSUME Cancel(k) PROVE Fails(k)
  <2>1. CallMoves(k) /\ tasks'[k] = Idle /\ pending' = pending
    BY <1>1, <1>5, CallEnds DEF Cancel
  <2>2. QED
    BY <1>0, <2>1, AnswerTerms DEF Fails
<1>6. ASSUME GatewayError(k) PROVE Fails(k)
  BY <1>0, <1>1, <1>6, GivesUpTerms DEF GatewayError
<1>7. ASSUME GatewayLie(k) PROVE Fails(k)
  <2>1. used'.lies > used.lies
    BY <1>7 DEF GatewayLie, CallsInv, TypeOK, Bounds
  <2>2. QED
    BY <1>0, <1>1, <1>7, <2>1, GivesUpTerms DEF GatewayLie
<1>8. Fails(k)
  BY <1>4, <1>5, <1>6, <1>7 DEF Fault
<1>9. QED
  BY <1>0, <1>1, <1>2, <1>3, <1>8

LEMMA ArriveStep ==
  ASSUME CallsInv, NEW message \in late, Arrive(message)
  PROVE  /\ ServerFollows /\ Others /\ Grows
         /\ UNCHANGED <<tasks, pending, retried, used>>
         /\ message.content \in Contents
<1>0. /\ content' = content /\ committed' = committed /\ used' = used /\ submitted' = submitted
      /\ UNCHANGED <<tasks, pending, retried, used>> /\ late' \subseteq late
  BY DEF Arrive, plugin
<1>1. message.content \in Contents
  BY DEF CallsInv, TypeOK, Message
<1>2. Grows
  BY <1>0, UsedGrows DEF CallsInv, TypeOK
<1>3. ServerFollows /\ took' \in [Contents -> Nat]
  BY <1>0, <1>1, EnqueueTerms, RetryTerms DEF Arrive, CallsInv, TypeOK
<1>4. Others
  BY <1>0, <1>3 DEF Others, CallsInv, TypeOK
<1>5. QED
  BY <1>0, <1>1, <1>2, <1>3, <1>4

LEMMA EditStep ==
  ASSUME CallsInv, Edit
  PROVE  /\ ServerFollows /\ Others /\ Grows
         /\ UNCHANGED <<rows, tasks, pending, retried, late, took>>
<1>0. /\ rows' = rows /\ wanted' = wanted /\ committed' = committed
      /\ UNCHANGED <<tasks, pending, retried, late, took, submitted>>
  BY DEF Edit, server, plugin
<1>1. ServerFollows
  BY <1>0, ServerStays DEF CallsInv
<1>2. Grows
  BY UsedGrows DEF Edit, CallsInv, TypeOK
<1>3. Others
  BY <1>0 DEF Edit, Others, CallsInv, TypeOK
<1>4. QED
  BY <1>0, <1>1, <1>2, <1>3

LEMMA RestartStep ==
  ASSUME CallsInv, Restart
  PROVE  CallsInv' /\ Grows
<1>0. /\ content' = content /\ rows' = rows /\ wanted' = wanted /\ committed' = committed
      /\ took' = took
      /\ tasks' = [k \in Callers |-> Idle] /\ late' = late \cup UNION {Unserved(k) : k \in Callers}
      /\ submitted' = None /\ retried' = {} /\ pending' = [c \in Contents |-> NoRetry]
  BY DEF Restart, server
<1>1. Grows /\ used'.failures = used.failures
  BY UsedGrows DEF Restart, CallsInv, TypeOK, Bounds
<1>2. NoRetry \in Pending /\ NoRetry.failure = 0
  BY DEF Pending, NoRetry
<1>3. TypeOK'
  <2>1. late' \subseteq Message
    BY <1>0, UnservedTerms DEF CallsInv, TypeOK
  <2>2. tasks' \in [Callers -> Task]
    BY <1>0, AnswerTerms
  <2>3. pending' \in [Contents -> Pending]
    BY <1>0, <1>2
  <2>4. QED
    BY <1>0, <1>1, <2>1, <2>2, <2>3 DEF CallsInv, TypeOK, Grows
<1>4. FailuresAreNumbered'
  <2>1. \A c \in Contents : Numbered(rows'[c], used'.failures) /\ pending'[c].failure <= used'.failures
    BY <1>0, <1>1, <1>2 DEF CallsInv, TypeOK, FailuresAreNumbered, Bounds
  <2>2. \A k \in Callers : Numbered(tasks'[k].answer, used'.failures)
    BY <1>0, <1>1, AnswerTerms DEF CallsInv, TypeOK, Numbered, Bounds
  <2>3. QED
    BY <2>1, <2>2 DEF FailuresAreNumbered
<1>5. \A k \in Callers : tasks'[k].at = "idle"
  BY <1>0, AnswerTerms
<1>6. OneIsBusy' /\ \A k \in Callers : CallFits(tasks'[k], pending')
  BY <1>5 DEF OneIsBusy, CallFits, Busy
<1>7. QED
  BY <1>1, <1>3, <1>4, <1>6 DEF CallsInv

LEMMA CallsStep ==
  ASSUME CallsInv, Next
  PROVE  CallsInv'
<1>1. CASE Edit
  BY <1>1, EditStep, CallsRest
<1>2. CASE Restart
  BY <1>2, RestartStep
<1>3. ASSUME NEW c \in Contents, Server(c) PROVE CallsInv'
  <2>1. /\ ServerFollows /\ Grows
        /\ UNCHANGED <<content, tasks, submitted, retried, pending, late, took>>
    BY <1>3, ServerSteps DEF CallsInv
  <2>2. Others
    BY <2>1 DEF Others, CallsInv, TypeOK
  <2>3. QED
    BY <2>1, <2>2, CallsRest
<1>4. ASSUME NEW k \in Callers, Trigger(k) PROVE CallsInv'
  <2>1. CallMoves(k)
    BY <1>4, TriggerStep
  <2>2. ServerFollows /\ Others /\ Grows
    BY <1>4, ServerStays, UsedGrows DEF Trigger, server, Others, CallsInv, TypeOK
  <2>3. QED
    BY <2>1, <2>2, CallsKept
<1>5. ASSUME NEW k \in Callers, Serve(k) PROVE CallsInv'
  BY <1>5, ServeStep, CallsKept
<1>6. ASSUME NEW k \in Callers, Receive(k) PROVE CallsInv'
  BY <1>6, ReceiveStep, CallsKept DEF Receives
<1>7. ASSUME NEW k \in Callers, Fault(k) PROVE CallsInv'
  BY <1>7, FaultStep, CallsKept DEF Fails
<1>8. ASSUME NEW message \in late, Arrive(message) PROVE CallsInv'
  BY <1>8, ArriveStep, CallsRest
<1>9. QED
  BY <1>1, <1>2, <1>3, <1>4, <1>5, <1>6, <1>7, <1>8 DEF Next

LEMMA CallsInit == Init => CallsInv
<1>1. SUFFICES ASSUME Init PROVE CallsInv
  OBVIOUS
<1>2. Says("none") \in Row /\ NoRetry \in Pending /\ NoRetry.failure = 0 /\ Says("none").failure = 0
  BY SaysRow, AnswerTerms DEF Pending, NoRetry
<1>3. used \in Bounds /\ used.failures = 0
  BY <1>1, DeliveryAssumption DEF Init, Bounds
<1>4. TypeOK
  BY <1>1, <1>2, <1>3, AnswerTerms DEF Init, TypeOK
<1>5. FailuresAreNumbered
  <2>1. \A c \in Contents : Numbered(rows[c], used.failures) /\ pending[c].failure <= used.failures
    BY <1>1, <1>2, <1>3, AnswerTerms DEF Init, Numbered
  <2>2. \A k \in Callers : Numbered(tasks[k].answer, used.failures)
    BY <1>1, <1>3, AnswerTerms DEF Init, Numbered
  <2>3. QED
    BY <2>1, <2>2 DEF FailuresAreNumbered
<1>6. \A k \in Callers : tasks[k].at = "idle"
  BY <1>1, AnswerTerms DEF Init
<1>7. OneIsBusy /\ \A k \in Callers : CallFits(tasks[k], pending)
  BY <1>6 DEF OneIsBusy, CallFits, Busy
<1>8. QED
  BY <1>4, <1>5, <1>7 DEF CallsInv

\* Every state is well-typed, every call that is busy noted its retry down, and
\* no two are busy with one content.
THEOREM CallsAreExclusive == Spec => []CallsInv
<1>1. Init => CallsInv
  BY CallsInit
<1>2. CallsInv /\ [Next]_vars => CallsInv'
  <2>1. SUFFICES ASSUME CallsInv, [Next]_vars PROVE CallsInv'
    OBVIOUS
  <2>2. CASE Next
    BY <2>1, <2>2, CallsStep
  <2>3. CASE UNCHANGED vars
    BY <2>1, <2>3
    DEF vars, server, plugin, CallsInv, TypeOK, FailuresAreNumbered, OneIsBusy
  <2>4. QED
    BY <2>1, <2>2, <2>3
<1>3. QED
  BY <1>1, <1>2, PTL DEF Spec

\* TypeOK, as the runs check it.
THEOREM DeliveryTypeCorrect == Spec => []TypeOK
<1>1. CallsInv => TypeOK
  BY DEF CallsInv
<1>2. QED
  BY <1>1, CallsAreExclusive, PTL

-----------------------------------------------------------------------------
(* Counting the retries. *)

LEMMA AtMostOne ==
  ASSUME NEW S, \A x, y \in S : x = y
  PROVE  /\ IsFiniteSet(S)
         /\ S = {} => Cardinality(S) = 0
         /\ S # {} => Cardinality(S) = 1
<1>1. CASE S = {}
  BY <1>1, FS_EmptySet
<1>2. CASE S # {}
  <2>1. PICK x : S = {x}
    BY <1>2
  <2>2. QED
    BY <2>1, FS_Singleton
<1>3. QED
  BY <1>1, <1>2

\* The retries of a content that are sent are at most one, now and after a step.
LEMMA SentTerms ==
  ASSUME OneIsBusy, NEW c
  PROVE  /\ SentRetries(c) = {} => Cardinality(SentRetries(c)) = 0
         /\ SentRetries(c) # {} => Cardinality(SentRetries(c)) = 1
<1>1. \A x, y \in SentRetries(c) : x = y
  BY DEF SentRetries, Waits, OneIsBusy, Busy
<1>2. QED
  BY <1>1, AtMostOne

LEMMA SentTermsNext ==
  ASSUME OneIsBusy', NEW c
  PROVE  /\ SentRetries(c)' = {} => Cardinality(SentRetries(c)') = 0
         /\ SentRetries(c)' # {} => Cardinality(SentRetries(c)') = 1
<1>1. \A x, y \in SentRetries(c)' : x = y
  BY DEF SentRetries, Waits, OneIsBusy, Busy
<1>2. QED
  BY <1>1, AtMostOne

\* The count, by the sets that it counts.
SentCount(c) == Cardinality(SentRetries(c))
LateCount(c) == Cardinality(LateRetries(c))

LEMMA SpentTerms ==
  ASSUME CallsInv, NEW c \in Contents, IsFiniteSet(LateRetries(c))
  PROVE  /\ Spent(c) = took[c] + (SentCount(c) + LateCount(c)) /\ took[c] \in Nat
         /\ SentCount(c) \in {0, 1} /\ LateCount(c) \in Nat /\ Spent(c) \in Nat
         /\ SentRetries(c) = {} => SentCount(c) = 0
         /\ SentRetries(c) # {} => SentCount(c) = 1
<1>1. /\ SentRetries(c) = {} => SentCount(c) = 0
      /\ SentRetries(c) # {} => SentCount(c) = 1
  BY SentTerms DEF SentCount, CallsInv
<1>2. LateCount(c) \in Nat
  BY FS_CardinalityType DEF LateCount
<1>3. Spent(c) = took[c] + (SentCount(c) + LateCount(c))
  BY DEF Spent, UnderWay, SentCount, LateCount, SentRetries, LateRetries
<1>4. took[c] \in Nat
  BY DEF CallsInv, TypeOK
<1>5. QED
  BY <1>1, <1>2, <1>3, <1>4

LEMMA SpentTermsNext ==
  ASSUME CallsInv', NEW c \in Contents, IsFiniteSet(LateRetries(c)')
  PROVE  /\ Spent(c)' = took'[c] + (SentCount(c)' + LateCount(c)') /\ took'[c] \in Nat
         /\ SentCount(c)' \in {0, 1} /\ LateCount(c)' \in Nat /\ Spent(c)' \in Nat
         /\ SentRetries(c)' = {} => SentCount(c)' = 0
         /\ SentRetries(c)' # {} => SentCount(c)' = 1
<1>1. /\ SentRetries(c)' = {} => SentCount(c)' = 0
      /\ SentRetries(c)' # {} => SentCount(c)' = 1
  BY SentTermsNext DEF SentCount, CallsInv
<1>2. LateCount(c)' \in Nat
  BY FS_CardinalityType DEF LateCount
<1>3. Spent(c)' = took'[c] + (SentCount(c)' + LateCount(c)')
  BY DEF Spent, UnderWay, SentCount, LateCount, SentRetries, LateRetries
<1>4. took'[c] \in Nat
  BY DEF CallsInv, TypeOK
<1>5. QED
  BY <1>1, <1>2, <1>3, <1>4

\* Where no retry is sent, none is counted that was not.
LEMMA SpentStays ==
  ASSUME CallsInv, CallsInv', NEW c \in Contents, IsFiniteSet(LateRetries(c)),
         LateRetries(c)' \subseteq LateRetries(c), SentRetries(c)' \subseteq SentRetries(c),
         took'[c] = took[c]
  PROVE  /\ IsFiniteSet(LateRetries(c)') /\ Spent(c)' <= Spent(c)
         /\ SentRetries(c)' # SentRetries(c) => Spent(c)' < Spent(c)
<1>1. IsFiniteSet(LateRetries(c)') /\ LateCount(c)' <= LateCount(c)
  BY FS_Subset DEF LateCount
<1>2. /\ SentRetries(c)' # {} => SentRetries(c) # {}
      /\ SentRetries(c)' # SentRetries(c) => SentRetries(c) # {} /\ SentRetries(c)' = {}
  BY DEF CallsInv, OneIsBusy, SentRetries, Waits, Busy
<1>3. QED
  BY <1>1, <1>2, SpentTerms, SpentTermsNext

\* A retry that was sent may be late from now on.
LEMMA SpentLate ==
  ASSUME CallsInv, CallsInv', NEW c \in Contents, IsFiniteSet(LateRetries(c)), NEW message,
         LateRetries(c)' \subseteq LateRetries(c) \cup {message},
         SentRetries(c) # {}, SentRetries(c)' = {}, took'[c] = took[c]
  PROVE  IsFiniteSet(LateRetries(c)') /\ Spent(c)' <= Spent(c)
<1>1. /\ IsFiniteSet(LateRetries(c) \cup {message})
      /\ Cardinality(LateRetries(c) \cup {message}) <= LateCount(c) + 1
  <2>1. LateCount(c) \in Nat
    BY SpentTerms
  <2>2. /\ IsFiniteSet(LateRetries(c) \cup {message})
        /\ Cardinality(LateRetries(c) \cup {message}) =
             IF message \in LateRetries(c) THEN Cardinality(LateRetries(c))
             ELSE Cardinality(LateRetries(c)) + 1
    BY FS_AddElement
  <2>3. QED
    BY <2>1, <2>2 DEF LateCount
<1>2. IsFiniteSet(LateRetries(c)')
  BY <1>1, FS_Subset
<1>3. LateCount(c)' <= Cardinality(LateRetries(c) \cup {message})
  BY <1>1, FS_Subset DEF LateCount
<1>4. Cardinality(LateRetries(c) \cup {message}) \in Nat
  BY <1>1, FS_CardinalityType
<1>5. LateCount(c)' <= LateCount(c) + 1
  <2>1. LateCount(c)' \in Nat /\ LateCount(c) \in Nat
    BY <1>2, SpentTerms, SpentTermsNext
  <2>2. QED
    BY <1>1, <1>3, <1>4, <2>1
<1>6. QED
  BY <1>2, <1>5, SpentTerms, SpentTermsNext

\* Who counts no more than before, and may send again only if it might before
\* or there is more to spend, keeps to the count.
LEMMA CountKept ==
  ASSUME CallsInv, CallsInv', Grows, NEW c \in Contents, Counted(c),
         IsFiniteSet(LateRetries(c)'), Spent(c)' <= Spent(c),
         c \notin retried' /\ MaySendAgain(c)' =>
           \/ c \notin retried /\ MaySendAgain(c)
           \/ Spent(c)' < Spent(c)
           \/ used'.lies + used'.restarts > used.lies + used.restarts
  PROVE  Counted(c)'
<1>1. /\ used.lies \in Nat /\ used.restarts \in Nat /\ used'.lies \in Nat /\ used'.restarts \in Nat
      /\ used'.lies >= used.lies /\ used'.restarts >= used.restarts
  BY DEF CallsInv, TypeOK, Grows, Bounds
<1>2. Spent(c) \in Nat /\ Spent(c)' \in Nat
  BY SpentTerms, SpentTermsNext DEF Counted
<1>3. Spent(c) <= 1 + used.lies + used.restarts
  BY DEF Counted
<1>4. Spent(c)' <= 1 + used'.lies + used'.restarts
  BY <1>1, <1>2, <1>3
<1>5. c \notin retried' /\ MaySendAgain(c)' => Spent(c)' <= used'.lies + used'.restarts
  <2>1. c \notin retried /\ MaySendAgain(c) => Spent(c) <= used.lies + used.restarts
    BY DEF Counted
  <2>2. QED
    BY <1>1, <1>2, <1>3, <2>1
<1>6. QED
  BY <1>4, <1>5 DEF Counted

\* A job that a step leaves at a failure noted down before was there.
LEMMA UnmovedBefore ==
  ASSUME CallsInv, NEW c \in Contents, RowFollows(rows[c], rows'[c]), pending'[c] = pending[c],
         Unmoved(c, rows[c])'
  PROVE  Unmoved(c, rows[c]) /\ rows'[c] = rows[c]
<1>1. pending[c].failure \in Nat /\ used.failures \in Nat /\ pending[c].failure <= used.failures
  BY DEF CallsInv, TypeOK, FailuresAreNumbered, Pending, NoRetry, Bounds
<1>2. rows'[c].status = "failed" /\ rows'[c].failure = pending[c].failure
  BY DEF Unmoved
<1>3. rows'[c] = rows[c]
  BY <1>1, <1>2 DEF RowFollows
<1>4. QED
  BY <1>2, <1>3 DEF Unmoved

\* Where nothing else is noted down, and no call learns anything new, another
\* retry may be sent only if it might before.
LEMMA AgainBefore ==
  ASSUME CallsInv, ServerFollows, NEW c \in Contents, MaySendAgain(c)',
         pending'[c] = pending[c],
         \A j \in Callers : tasks'[j] = tasks[j] \/ ~MayLearn(j, c)'
  PROVE  MaySendAgain(c)
<1>1. RowFollows(rows[c], rows'[c])
  BY DEF ServerFollows
<1>2. Unmoved(c, rows[c])' => Unmoved(c, rows[c])
  BY <1>1, UnmovedBefore
<1>3. CASE pending'[c] = NoRetry
  BY <1>3 DEF MaySendAgain
<1>4. CASE pending'[c].httpFailure /\ Unmoved(c, rows[c])'
  BY <1>2, <1>4 DEF MaySendAgain
<1>5. ASSUME NEW j \in Callers, MayLearn(j, c)'
      PROVE  MaySendAgain(c)
  <2>1. tasks'[j] = tasks[j]
    BY <1>5
  <2>2. MayLearn(j, c)
    BY <1>2, <1>5, <2>1 DEF MayLearn, Has, Unmoved
  <2>3. QED
    BY <2>2 DEF MaySendAgain
<1>6. QED
  BY <1>3, <1>4, <1>5 DEF MaySendAgain

\* A step that leaves the calls and the posts alone leaves the count alone.
LEMMA CountRests ==
  ASSUME CallsInv, CallsInv', ServerFollows, Grows, NEW c \in Contents, Counted(c),
         tasks' = tasks, pending' = pending, retried' = retried, late' = late, took' = took
  PROVE  Counted(c)'
<1>1. LateRetries(c)' = LateRetries(c) /\ SentRetries(c)' = SentRetries(c)
  BY DEF LateRetries, SentRetries, Waits
<1>2. IsFiniteSet(LateRetries(c)') /\ Spent(c)' <= Spent(c)
  BY <1>1, SpentStays DEF Counted
<1>3. MaySendAgain(c)' => MaySendAgain(c)
  BY AgainBefore
<1>4. QED
  BY <1>2, <1>3, CountKept

\* Where call k moves and no retry is posted, no other call's retry is gone.
LEMMA SentByOthers ==
  ASSUME NEW k \in Callers, Moves(k), NEW c,
         Waits(k, "retry")' => Waits(k, "retry") /\ tasks'[k].content = tasks[k].content
  PROVE  SentRetries(c)' \subseteq SentRetries(c)
  BY DEF Moves, SentRetries, Waits

LEMMA CountTrigger ==
  ASSUME CallsInv, CallsInv', NEW k \in Callers, Trigger(k), NEW c \in Contents, Counted(c)
  PROVE  Counted(c)'
<1>0. /\ rows' = rows /\ wanted' = wanted /\ committed' = committed
      /\ pending' = pending /\ retried' = retried /\ late' = late /\ took' = took /\ used' = used
  BY DEF Trigger, server
<1>1. Moves(k) /\ tasks'[k].at = "manifest"
  BY TriggerStep DEF CallMoves
<1>2. Grows /\ ServerFollows
  BY <1>0, UsedGrows, ServerStays DEF CallsInv, TypeOK
<1>3. SentRetries(c)' \subseteq SentRetries(c) /\ LateRetries(c)' = LateRetries(c)
  BY <1>0, <1>1, SentByOthers DEF LateRetries, Waits
<1>4. IsFiniteSet(LateRetries(c)') /\ Spent(c)' <= Spent(c)
  BY <1>0, <1>3, SpentStays DEF Counted
<1>5. \A j \in Callers : tasks'[j] = tasks[j] \/ ~MayLearn(j, c)'
  BY <1>1 DEF Moves, MayLearn, Has
<1>6. MaySendAgain(c)' => MaySendAgain(c)
  BY <1>0, <1>2, <1>5, AgainBefore
<1>7. QED
  BY <1>0, <1>2, <1>4, <1>6, CountKept

LEMMA CountServe ==
  ASSUME CallsInv, CallsInv', NEW k \in Callers, Serve(k), NEW c \in Contents, Counted(c)
  PROVE  Counted(c)'
<1>0. /\ CallMoves(k) /\ ServerFollows /\ Others /\ Grows
      /\ used' = used /\ late' = late /\ retried' = retried /\ pending' = pending
      /\ tasks'[k].at = tasks[k].at /\ tasks'[k].content = tasks[k].content
      /\ tasks[k].content \in Contents /\ tasks[k].answer = NoAnswer
  BY ServeStep
<1>1. Moves(k)
  BY <1>0 DEF CallMoves
<1>2. SentRetries(c)' \subseteq SentRetries(c) /\ LateRetries(c)' = LateRetries(c)
  BY <1>0, <1>1, SentByOthers DEF LateRetries, Waits
<1>3. ASSUME took'[c] = took[c],
             MayLearn(k, c)' => MaySendAgain(c) \/ SentRetries(c)' # SentRetries(c)
      PROVE  Counted(c)'
  <2>1. /\ IsFiniteSet(LateRetries(c)') /\ Spent(c)' <= Spent(c)
        /\ SentRetries(c)' # SentRetries(c) => Spent(c)' < Spent(c)
    BY <1>2, <1>3, SpentStays DEF Counted
  <2>2. CASE MayLearn(k, c)'
    BY <1>0, <1>3, <2>1, <2>2, CountKept
  <2>3. CASE ~MayLearn(k, c)'
    <3>1. \A j \in Callers : tasks'[j] = tasks[j] \/ ~MayLearn(j, c)'
      BY <1>1, <2>3 DEF Moves
    <3>2. MaySendAgain(c)' => MaySendAgain(c)
      BY <1>0, <3>1, AgainBefore
    <3>3. QED
      BY <1>0, <2>1, <3>2, CountKept
  <2>4. QED
    BY <2>2, <2>3
<1>4. CASE tasks[k].content # c
  <2>1. ~MayLearn(k, c)'
    BY <1>0, <1>4 DEF MayLearn
  <2>2. took'[c] = took[c]
    BY <1>0, <1>4 DEF Serve, ServeManifest, ServeSegments, ServeRetry, ServeJob, RetryFailedJob,
                      CallsInv, TypeOK
  <2>3. QED
    BY <1>3, <2>1, <2>2
<1>5. CASE tasks[k].content = c /\ (ServeManifest(k) \/ ServeSegments(k))
  <2>1. took' = took /\ tasks[k].at \in {"manifest", "segments"}
    BY <1>5 DEF ServeManifest, ServeSegments, Waits
  <2>2. ~MayLearn(k, c)'
    BY <1>0, <2>1 DEF MayLearn, Has
  <2>3. QED
    BY <1>3, <2>1, <2>2
<1>6. CASE tasks[k].content = c /\ ServeJob(k)
  <2>1. /\ took' = took /\ rows' = rows /\ tasks[k].at \in {"reconcile", "check"}
        /\ Answers(k, rows[c])
    BY <1>6 DEF ServeJob, Waits, server
  <2>2. tasks'[k].answer = rows[c]
    BY <2>1 DEF Answers, CallsInv, TypeOK, Task
  <2>3. MayLearn(k, c)' => pending[c].httpFailure /\ Unmoved(c, rows[c])
    BY <1>0, <2>1, <2>2 DEF MayLearn, Has, Unmoved
  <2>4. MayLearn(k, c)' => MaySendAgain(c)
    BY <2>3 DEF MaySendAgain
  <2>5. QED
    BY <1>3, <2>1, <2>4
<1>7. CASE tasks[k].content = c /\ ServeRetry(k)
  <2>1. /\ Waits(k, "retry") /\ RetryFailedJob(c)
        /\ Answers(k, Says(IF Retryable(c) THEN "pending" ELSE "rejected"))
    BY <1>7 DEF ServeRetry
  <2>2. tasks'[k].answer = Says(IF Retryable(c) THEN "pending" ELSE "rejected")
    BY <2>1 DEF Answers, CallsInv, TypeOK, Task
  <2>3. tasks'[k].answer # NoAnswer
    BY <2>2 DEF NoAnswer, Says
  <2>4. k \in SentRetries(c) /\ k \notin SentRetries(c)'
    BY <1>7, <2>1, <2>3 DEF SentRetries, Waits
  <2>5. CASE ~Retryable(c)
    <3>1. took' = took
      BY <2>1, <2>5 DEF RetryFailedJob
    <3>2. QED
      BY <1>3, <2>4, <3>1
  <2>6. CASE Retryable(c)
    <3>1. took'[c] = took[c] + 1 /\ rows'[c] = Says("pending")
      BY <2>1, <2>6 DEF RetryFailedJob, CallsInv, TypeOK
    <3>2. SentRetries(c)' = {}
      BY <2>4, <1>2 DEF CallsInv, OneIsBusy, SentRetries, Waits, Busy
    <3>3. IsFiniteSet(LateRetries(c)) /\ IsFiniteSet(LateRetries(c)') /\ LateCount(c)' = LateCount(c)
      BY <1>2 DEF Counted, LateCount
    <3>4. Spent(c)' = Spent(c) /\ Spent(c) \in Nat
      BY <2>4, <3>1, <3>2, <3>3, SpentTerms, SpentTermsNext
    <3>5. ~Unmoved(c, rows[c])'
      BY <3>1, AnswerTerms DEF Unmoved
    <3>6. ~MayLearn(k, c)'
      BY <1>0, <2>1, <3>5 DEF MayLearn, Has, Waits
    <3>7. \A j \in Callers : tasks'[j] = tasks[j] \/ ~MayLearn(j, c)'
      BY <1>1, <3>6 DEF Moves
    <3>8. MaySendAgain(c)' => MaySendAgain(c)
      BY <1>0, <3>7, AgainBefore
    <3>9. QED
      BY <1>0, <3>3, <3>4, <3>8, CountKept
  <2>7. QED
    BY <2>5, <2>6
<1>8. QED
  BY <1>4, <1>5, <1>6, <1>7 DEF Serve

\* Nobody else is busy with a content whose retry a call notes down or settles.
LEMMA NoOtherLearns ==
  ASSUME CallsInv, NEW k \in Callers, CallMoves(k), tasks'[k].answer = NoAnswer,
         NEW c \in Contents, pending'[c] # pending[c], NEW j \in Callers
  PROVE  ~MayLearn(j, c)'
<1>1. CASE j = k
  BY <1>1 DEF MayLearn, Has
<1>2. CASE j # k
  <2>1. c = tasks[k].content /\ (tasks[k].at \in Busy \/ c \notin Retrying)
    BY DEF CallMoves
  <2>2. tasks'[j] = tasks[j]
    BY <1>2 DEF CallMoves, Moves
  <2>3. SUFFICES ASSUME MayLearn(j, c)' PROVE FALSE
    OBVIOUS
  <2>4. tasks[j].at \in Busy /\ tasks[j].content = c
    BY <2>2, <2>3 DEF MayLearn, Has, Busy
  <2>5. c \in Retrying
    BY <2>4 DEF Retrying, Busy
  <2>6. QED
    BY <1>2, <2>1, <2>4, <2>5 DEF CallsInv, OneIsBusy
<1>3. QED
  BY <1>1, <1>2

LEMMA CountReceive ==
  ASSUME CallsInv, CallsInv', NEW k \in Callers, Receive(k), NEW c \in Contents, Counted(c)
  PROVE  Counted(c)'
<1>0. /\ Receives(k) /\ ServerFollows /\ Grows
      /\ rows' = rows /\ late' = late /\ took' = took /\ used' = used
  BY ReceiveStep
<1>1. /\ CallMoves(k) /\ Moves(k) /\ tasks'[k].answer = NoAnswer /\ retried \subseteq retried'
  BY <1>0 DEF Receives, CallMoves
<1>2. LateRetries(c)' = LateRetries(c) /\ IsFiniteSet(LateRetries(c)')
  BY <1>0 DEF LateRetries, Counted
<1>3. \A j \in Callers : tasks'[j] = tasks[j] \/ ~MayLearn(j, c)'
  BY <1>1 DEF Moves, MayLearn, Has
<1>4. ASSUME SentRetries(c)' \subseteq SentRetries(c),
             pending'[c] # pending[c] /\ MaySendAgain(c)' => c \in retried' \/ MaySendAgain(c)
      PROVE  Counted(c)'
  <2>1. Spent(c)' <= Spent(c)
    BY <1>0, <1>2, <1>4, SpentStays
  <2>2. c \notin retried' /\ MaySendAgain(c)' => c \notin retried /\ MaySendAgain(c)
    BY <1>0, <1>1, <1>3, <1>4, AgainBefore
  <2>3. QED
    BY <1>0, <1>2, <2>1, <2>2, CountKept
<1>5. CASE tasks'[k].at # "retry"
  <2>1. SentRetries(c)' \subseteq SentRetries(c)
    BY <1>1, <1>5, SentByOthers DEF Waits
  <2>2. ASSUME pending'[c] # pending[c], MaySendAgain(c)', c \notin retried', ~MaySendAgain(c)
        PROVE  FALSE
    <3>1. pending'[c] # NoRetry /\ ~Unmoved(c, rows[c])'
      BY <1>0, <1>5, <2>2 DEF Receives
    <3>2. \A j \in Callers : ~MayLearn(j, c)'
      BY <1>1, <2>2, NoOtherLearns
    <3>3. QED
      BY <2>2, <3>1, <3>2 DEF MaySendAgain
  <2>3. QED
    BY <1>4, <2>1, <2>2
<1>6. CASE tasks'[k].at = "retry"
  <2>1. PICK d : d = tasks[k].content
    OBVIOUS
  <2>2. /\ tasks[k].at # "retry" /\ d \in Contents \ retried /\ retried' = retried
        /\ MaySendAgain(d) /\ pending'[d] # NoRetry /\ ~pending'[d].httpFailure
        /\ tasks'[k].content = d
    BY <1>0, <1>1, <1>6, <2>1 DEF Receives, CallMoves, Busy
  <2>3. CASE c # d
    <3>1. SentRetries(c)' \subseteq SentRetries(c)
      BY <1>1, <2>2, <2>3 DEF SentRetries, Waits, Moves
    <3>2. pending'[c] = pending[c]
      BY <1>1, <2>1, <2>3 DEF CallMoves
    <3>3. QED
      BY <1>4, <3>1, <3>2
  <2>4. CASE c = d
    <3>1. SentCount(c)' \in {0, 1} /\ Spent(c)' = took[c] + (SentCount(c)' + LateCount(c)')
      BY <1>0, <1>2, SpentTermsNext
    <3>2. LateCount(c)' = LateCount(c)
      BY <1>2 DEF LateCount
    <3>3. /\ Spent(c) = took[c] + (SentCount(c) + LateCount(c)) /\ took[c] \in Nat
          /\ SentCount(c) \in {0, 1} /\ LateCount(c) \in Nat
      BY <1>2, SpentTerms
    <3>4. Spent(c) <= used.lies + used.restarts
      BY <2>2, <2>4 DEF Counted
    <3>5. used.lies \in Nat /\ used.restarts \in Nat
      BY DEF CallsInv, TypeOK, Bounds
    <3>6. Spent(c)' <= 1 + used.lies + used.restarts
      BY <3>1, <3>2, <3>3, <3>4, <3>5
    <3>7. \A j \in Callers : ~MayLearn(j, c)'
      <4>1. ASSUME NEW j \in Callers, MayLearn(j, c)' PROVE FALSE
        <5>1. j # k
          BY <1>1, <4>1 DEF MayLearn, Has
        <5>2. tasks'[j].at \in Busy /\ tasks'[j].content = c
          BY <4>1 DEF MayLearn, Has, Busy
        <5>3. tasks'[k].at \in Busy /\ tasks'[k].content = c
          BY <1>6, <2>2, <2>4 DEF Busy
        <5>4. QED
          BY <5>1, <5>2, <5>3 DEF CallsInv, OneIsBusy
      <4>2. QED
        BY <4>1
    <3>8. ~MaySendAgain(c)'
      BY <2>2, <2>4, <3>7 DEF MaySendAgain
    <3>9. QED
      BY <1>0, <1>2, <3>6, <3>8 DEF Counted
  <2>5. QED
    BY <2>3, <2>4
<1>7. QED
  BY <1>5, <1>6

LEMMA CountFault ==
  ASSUME CallsInv, CallsInv', NEW k \in Callers, Fault(k), NEW c \in Contents, Counted(c)
  PROVE  Counted(c)'
<1>0. /\ Fails(k) /\ ServerFollows /\ Grows
      /\ rows' = rows /\ took' = took /\ retried' = retried
  BY FaultStep
<1>1. /\ CallMoves(k) /\ Moves(k) /\ tasks'[k].answer = NoAnswer /\ tasks'[k].at # "retry"
      /\ pending' = pending \/ GivenUp(k)
      /\ late' \subseteq late \cup Unserved(k)
  BY <1>0 DEF Fails, CallMoves
<1>2. \A j \in Callers : tasks'[j] = tasks[j] \/ ~MayLearn(j, c)'
  BY <1>1 DEF Moves, MayLearn, Has
<1>3. SentRetries(c)' \subseteq SentRetries(c)
  BY <1>1, SentByOthers DEF Waits
<1>4. /\ IsFiniteSet(LateRetries(c)') /\ Spent(c)' <= Spent(c)
      /\ late' = late /\ Waits(k, "retry") /\ tasks[k].content = c => Spent(c)' < Spent(c)
  <2>1. CASE k \notin SentRetries(c) \/ late' = late
    <3>1. ASSUME NEW message \in Unserved(k), message.kind = "retry", message.content = c
          PROVE  k \in SentRetries(c)
      BY <3>1, UnservedTerms DEF SentRetries
    <3>2. LateRetries(c)' \subseteq LateRetries(c)
      BY <1>1, <2>1, <3>1 DEF LateRetries
    <3>3. /\ IsFiniteSet(LateRetries(c)') /\ Spent(c)' <= Spent(c)
          /\ SentRetries(c)' # SentRetries(c) => Spent(c)' < Spent(c)
      BY <1>0, <1>3, <3>2, SpentStays DEF Counted
    <3>4. Waits(k, "retry") /\ tasks[k].content = c =>
            k \in SentRetries(c) /\ k \notin SentRetries(c)'
      BY <1>1 DEF SentRetries, Waits
    <3>5. QED
      BY <3>3, <3>4
  <2>2. CASE k \in SentRetries(c) /\ late' # late
    <3>1. SentRetries(c)' = {}
      <4>1. SentRetries(c) \subseteq {k}
        BY <2>2 DEF SentRetries, Waits, CallsInv, OneIsBusy, Busy
      <4>2. k \notin SentRetries(c)'
        BY <1>1 DEF SentRetries, Waits
      <4>3. QED
        BY <1>3, <4>1, <4>2
    <3>2. PICK message : Unserved(k) \subseteq {message}
      BY DEF Unserved
    <3>3. LateRetries(c)' \subseteq LateRetries(c) \cup {message}
      BY <1>1, <3>2 DEF LateRetries
    <3>4. QED
      BY <1>0, <2>2, <3>1, <3>3, SpentLate DEF Counted
  <2>3. QED
    BY <2>1, <2>2
<1>5. CASE pending'[c] = pending[c]
  <2>1. MaySendAgain(c)' => MaySendAgain(c)
    BY <1>0, <1>2, <1>5, AgainBefore
  <2>2. QED
    BY <1>0, <1>4, <2>1, CountKept
<1>6. CASE pending'[c] # pending[c]
  <2>1. /\ GivenUp(k) /\ tasks[k].content = c
    BY <1>1, <1>6 DEF CallMoves
  <2>2. /\ tasks[k].at = "retry" /\ pending'[c] # NoRetry /\ pending'[c].failure = pending[c].failure
        /\ \/ ~pending'[c].httpFailure
           \/ late' = late
           \/ used'.lies > used.lies
    BY <2>1 DEF GivenUp
  <2>3. \A j \in Callers : ~MayLearn(j, c)'
    BY <1>1, <1>6, NoOtherLearns
  <2>4. MaySendAgain(c)' => pending'[c].httpFailure /\ Unmoved(c, rows[c])
    BY <1>0, <2>2, <2>3 DEF MaySendAgain, Unmoved
  <2>5. used'.lies > used.lies => used'.lies + used'.restarts > used.lies + used.restarts
    BY <1>0 DEF Grows, CallsInv, TypeOK, Bounds
  <2>6. Has(k, "retry") /\ Unmoved(c, rows[c]) => MaySendAgain(c)
    BY <2>1 DEF MaySendAgain, MayLearn
  <2>7. Has(k, "retry") \/ Waits(k, "retry")
    BY <2>2 DEF Has, Waits
  <2>8. MaySendAgain(c)' =>
          \/ MaySendAgain(c) \/ Spent(c)' < Spent(c)
          \/ used'.lies + used'.restarts > used.lies + used.restarts
    BY <1>4, <2>1, <2>2, <2>4, <2>5, <2>6, <2>7
  <2>9. QED
    BY <1>0, <1>4, <2>8, CountKept
<1>7. QED
  BY <1>5, <1>6

LEMMA CountArrive ==
  ASSUME CallsInv, CallsInv', NEW message \in late, Arrive(message), NEW c \in Contents, Counted(c)
  PROVE  Counted(c)'
<1>0. /\ ServerFollows /\ Grows /\ message.content \in Contents
      /\ tasks' = tasks /\ pending' = pending /\ retried' = retried /\ used' = used
      /\ late' = late \ {message}
  BY ArriveStep DEF Arrive
<1>1. /\ SentRetries(c)' = SentRetries(c) /\ LateRetries(c)' = LateRetries(c) \ {message}
      /\ IsFiniteSet(LateRetries(c))
  BY <1>0 DEF SentRetries, Waits, LateRetries, Counted
<1>2. MaySendAgain(c)' => MaySendAgain(c)
  BY <1>0, AgainBefore
<1>3. CASE took'[c] = took[c]
  <2>1. IsFiniteSet(LateRetries(c)') /\ Spent(c)' <= Spent(c)
    BY <1>1, <1>3, SpentStays
  <2>2. QED
    BY <1>0, <1>2, <2>1, CountKept
<1>4. CASE took'[c] # took[c]
  <2>1. message.kind = "retry" /\ RetryFailedJob(message.content)
    BY <1>4 DEF Arrive
  <2>2. message.content = c /\ took'[c] = took[c] + 1
    BY <1>0, <1>4, <2>1 DEF RetryFailedJob, CallsInv, TypeOK
  <2>3. message \in LateRetries(c)
    BY <2>1, <2>2 DEF LateRetries
  <2>4. IsFiniteSet(LateRetries(c)') /\ LateCount(c)' = LateCount(c) - 1
    BY <1>1, <2>3, FS_RemoveElement DEF LateCount
  <2>5. SentCount(c)' = SentCount(c)
    BY <1>1 DEF SentCount
  <2>6. /\ Spent(c) = took[c] + (SentCount(c) + LateCount(c)) /\ took[c] \in Nat
        /\ SentCount(c) \in Nat /\ LateCount(c) \in Nat
    BY <1>1, SpentTerms
  <2>7. Spent(c)' = took'[c] + (SentCount(c)' + LateCount(c)')
    BY <2>4, SpentTermsNext
  <2>8. Spent(c)' <= Spent(c)
    BY <2>2, <2>4, <2>5, <2>6, <2>7
  <2>9. QED
    BY <1>0, <1>2, <2>4, <2>8, CountKept
<1>5. QED
  BY <1>3, <1>4

LEMMA CountRestart ==
  ASSUME CallsInv, CallsInv', Restart, NEW c \in Contents, Counted(c)
  PROVE  Counted(c)'
<1>0. /\ Grows /\ took' = took
      /\ tasks' = [k \in Callers |-> Idle]
      /\ late' = late \cup UNION {Unserved(k) : k \in Callers}
  BY RestartStep DEF Restart
<1>1. SentRetries(c)' = {}
  BY <1>0, AnswerTerms DEF SentRetries, Waits
<1>2. ASSUME NEW message \in LateRetries(c)' \ LateRetries(c)
      PROVE  /\ SentRetries(c) # {}
             /\ message = [kind |-> "retry", content |-> c,
                           number |-> used.losses + used.lies + used.restarts]
  <2>1. message \in late' \ late /\ message.kind = "retry" /\ message.content = c
    BY <1>2 DEF LateRetries
  <2>2. PICK k \in Callers : message \in Unserved(k)
    BY <1>0, <2>1
  <2>3. /\ Waits(k, "retry") /\ tasks[k].content = c /\ message \in Message
        /\ message.number = used.losses + used.lies + used.restarts
    BY <2>1, <2>2, UnservedTerms
  <2>4. k \in SentRetries(c)
    BY <2>3 DEF SentRetries
  <2>5. QED
    BY <2>1, <2>3, <2>4 DEF Message
<1>3. IsFiniteSet(LateRetries(c)') /\ Spent(c)' <= Spent(c)
  <2>1. CASE SentRetries(c) = {}
    <3>1. LateRetries(c)' \subseteq LateRetries(c) /\ SentRetries(c)' \subseteq SentRetries(c)
      BY <1>1, <1>2, <2>1
    <3>2. QED
      BY <1>0, <3>1, SpentStays DEF Counted
  <2>2. CASE SentRetries(c) # {}
    <3>1. PICK message : message = [kind |-> "retry", content |-> c,
                                    number |-> used.losses + used.lies + used.restarts]
      OBVIOUS
    <3>2. LateRetries(c)' \subseteq LateRetries(c) \cup {message}
      BY <1>2, <3>1
    <3>3. QED
      BY <1>0, <1>1, <2>2, <3>2, SpentLate DEF Counted
  <2>3. QED
    BY <2>1, <2>2
<1>4. used'.lies + used'.restarts > used.lies + used.restarts
  BY DEF Restart, CallsInv, TypeOK, Bounds
<1>5. QED
  BY <1>0, <1>3, <1>4, CountKept

LEMMA CountStep ==
  ASSUME CallsInv, CallsInv', RetriesAreCounted, Next
  PROVE  RetriesAreCounted'
<1>1. SUFFICES ASSUME NEW c \in Contents, Counted(c) PROVE Counted(c)'
  BY DEF RetriesAreCounted
<1>2. CASE Edit
  BY <1>1, <1>2, EditStep, CountRests
<1>3. CASE Restart
  BY <1>1, <1>3, CountRestart
<1>4. ASSUME NEW d \in Contents, Server(d) PROVE Counted(c)'
  BY <1>1, <1>4, ServerSteps, CountRests DEF CallsInv
<1>5. ASSUME NEW k \in Callers, Trigger(k) \/ Serve(k) \/ Receive(k) \/ Fault(k)
      PROVE  Counted(c)'
  BY <1>1, <1>5, CountTrigger, CountServe, CountReceive, CountFault
<1>6. ASSUME NEW message \in late, Arrive(message) PROVE Counted(c)'
  BY <1>1, <1>6, CountArrive
<1>7. QED
  BY <1>2, <1>3, <1>4, <1>5, <1>6 DEF Next

LEMMA RetryInit == Init => RetryInv
<1>1. SUFFICES ASSUME Init PROVE RetryInv
  OBVIOUS
<1>2. CallsInv
  BY <1>1, CallsInit
<1>3. ASSUME NEW c \in Contents PROVE Counted(c)
  <2>1. LateRetries(c) = {} /\ SentRetries(c) = {}
    BY <1>1, AnswerTerms DEF Init, LateRetries, SentRetries, Waits
  <2>2. IsFiniteSet(LateRetries(c)) /\ LateCount(c) = 0
    BY <2>1, FS_EmptySet DEF LateCount
  <2>3. took[c] = 0 /\ used.lies = 0 /\ used.restarts = 0
    BY <1>1, <1>3 DEF Init
  <2>4. SentCount(c) = 0
    BY <2>1, FS_EmptySet DEF SentCount
  <2>5. Spent(c) = took[c] + (SentCount(c) + LateCount(c))
    BY <1>2, <1>3, <2>2, SpentTerms
  <2>6. QED
    BY <2>2, <2>3, <2>4, <2>5 DEF Counted
<1>4. QED
  BY <1>2, <1>3 DEF RetryInv, RetriesAreCounted

\* The retries that took effect or still may are paid for, and a content that
\* may be sent another has one left.
THEOREM RetriesArePaid == Spec => []RetryInv
<1>1. Init => RetryInv
  BY RetryInit
<1>2. RetryInv /\ [Next]_vars => RetryInv'
  <2>1. SUFFICES ASSUME RetryInv, [Next]_vars PROVE RetryInv'
    OBVIOUS
  <2>2. CASE Next
    <3>1. CallsInv'
      BY <2>1, <2>2, CallsStep DEF RetryInv
    <3>2. QED
      BY <2>1, <2>2, <3>1, CountStep DEF RetryInv
  <2>3. CASE UNCHANGED vars
    <3>1. CallsInv'
      BY <2>1, <2>3
      DEF vars, server, plugin, RetryInv, CallsInv, TypeOK, FailuresAreNumbered, OneIsBusy
    <3>2. ASSUME NEW c \in Contents PROVE Counted(c)'
      <4>1. CallsInv /\ Counted(c)
        BY <2>1 DEF RetryInv, RetriesAreCounted
      <4>2. ServerFollows /\ Grows
        BY <2>3, <4>1, ServerStays, UsedGrows DEF vars, server, CallsInv, TypeOK
      <4>3. QED
        BY <2>3, <3>1, <4>1, <4>2, CountRests DEF vars, server, plugin
    <3>3. QED
      BY <3>1, <3>2 DEF RetryInv, RetriesAreCounted
  <2>4. QED
    BY <2>1, <2>2, <2>3
<1>3. QED
  BY <1>1, <1>2, PTL DEF Spec

\* OneRetryPerTarget: however requests are lost, delayed or misreported, the
\* plugin's retries of a content take effect once, but for one more with each
\* restart and each gateway that answered for a request it kept.
THEOREM RetriesAreFew == Spec => []OneRetryPerTarget
<1>1. RetryInv => OneRetryPerTarget
  BY DEF RetryInv, RetriesAreCounted, Counted, Spent, OneRetryPerTarget
<1>2. QED
  BY <1>1, RetriesArePaid, PTL
=============================================================================
