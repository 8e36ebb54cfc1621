-------------------------- MODULE OwnershipRollout --------------------------
(***************************************************************************)
(* Giving every row an owner while the service goes on: the operator's     *)
(* commands (scripts/source-ownership.mjs), the server's refusal to start  *)
(* before they are done (Database.open), writers that know of no owner and *)
(* the server that adopts what they wrote.                                 *)
(*                                                                         *)
(* A command is the sequence of statements it has left, each one committed *)
(* by itself; it holds the migration lock until it ends, fails or is cut   *)
(* off.  A group is all that is stored of one segment: jobs by the end of  *)
(* their span, the target, the segment's row.  The three span versions     *)
(* have an index each of the same shape; they are one here.                *)
(***************************************************************************)
EXTENDS Naturals, Sequences, FiniteSets, SequencesExt

CONSTANTS
  Groups,     \* segments, by the identity that their session and start hash to
  SpanEnds,   \* where the span of a job may end
  Sources,    \* sources that may be registered
  Legacy,     \* the one whose identities do not contain the source
  OwnerOf,    \* the source that a group's identity was derived for
  Unowned,    \* NULL
  Missing,    \* no such row
  BatchSize   \* how many groups backfill lists at a time

ASSUME RolloutAssumption ==
  /\ Legacy \in Sources /\ Unowned \notin Sources
  /\ Missing \notin Sources \cup {Unowned}
  /\ OwnerOf \in [Groups -> Sources] /\ BatchSize \in Nat \ {0}

RowTables == {"segments", "jobs", "targets"}
Owners == Sources \cup {Unowned}

\* sourceIndexes, in the order in which they are built; the last backs a foreign key only.
NewIndexes == <<"segments_source_start", "jobs_source_boundary", "jobs_source_job_segment">>

\* What cutover drops: uniqueness of a start and of a boundary whatever the source.
OldIndexes == <<"segments_start", "jobs_boundary">>

VARIABLES
  registry,    \* reflection_sources
  expanded,    \* migrations 009 and 010 are recorded
  validated,   \* tables whose boundary check is validated
  index,       \* new indexes: "absent", "invalid" or "ready"
  oldIndexes,  \* the old ones that are still there
  notNull,     \* tables whose source_id may not be NULL
  jobRows,     \* how many jobs a group has of an end and an owner
  ownerIn,     \* the owner of a group's row in "segments" and in "targets", or Missing
  command,     \* statements that the operator's command has left
  enforcing,   \* that command is an enforce that found no row without an owner
  boot,        \* checks that the server has left to pass
  server,      \* "down", "starting" or "up"
  oldWriters   \* writers that know nothing of owners are running

schema     == <<registry, expanded, validated, index, oldIndexes, notNull>>
groupRows  == <<jobRows, ownerIn>>
operator   == <<command, enforcing>>
processes  == <<boot, server, oldWriters>>
rolloutVars == <<schema, groupRows, operator, processes>>

RolloutInit ==
  /\ registry = {} /\ expanded = FALSE
  /\ validated = RowTables          \* migration 006 added the checks validated
  /\ index = [i \in ToSet(NewIndexes) |-> "absent"]
  /\ oldIndexes = ToSet(OldIndexes) /\ notNull = {}
  /\ jobRows = [g \in Groups |-> [e \in SpanEnds |-> [o \in Owners |-> 0]]]
  /\ ownerIn = [g \in Groups |-> [t \in {"segments", "targets"} |-> Missing]]
  /\ command = <<>> /\ enforcing = FALSE
  /\ boot = <<>> /\ server = "down" /\ oldWriters = TRUE

----------------------------------------------------------------------------
\* The rows of a group.

OwnersOf(g) ==
  {o \in Owners : \/ \E e \in SpanEnds : jobRows[g][e][o] > 0
                  \/ \E t \in {"segments", "targets"} : ownerIn[g][t] = o}

\* effectiveSource: a row without an owner is the legacy source's.
Effective(o) == IF o = Unowned THEN Legacy ELSE o

\* validateSegmentOwnership for `source`: every owner in effect is that source, which is
\* registered, and the identity of what is stored is that of the group.
GroupIsOf(g, source) ==
  \A o \in OwnersOf(g) :
    Effective(o) = source /\ Effective(o) \in registry /\ OwnerOf[g] = source

\* UPDATE .. SET source_id WHERE source_id IS NULL, in each of the three tables.
AdoptedJobs(g, source) ==
  [e \in SpanEnds |-> [jobRows[g][e] EXCEPT
      ![source] = @ + jobRows[g][e][Unowned], ![Unowned] = 0]]

AdoptedRows(g, source) ==
  [t \in {"segments", "targets"} |->
    IF ownerIn[g][t] = Unowned THEN source ELSE ownerIn[g][t]]

\* Mutant: the server leaves rows without an owner as they are.
LeftAsTheyAre(g, source) == jobRows[g]

JobsToUpsert(g, source) == AdoptedJobs(g, source)

\* A ready index on source and boundary takes no two jobs of one source.
FitsIndex(jobs) ==
  index["jobs_source_boundary"] = "ready" =>
    \A e \in SpanEnds, o \in Sources : jobs[e][o] <= 1

----------------------------------------------------------------------------
\* Writers.

\* Writers from before migration 009 name no owner, and find an earlier job by its boundary alone:
\* ON CONFLICT fails once no index has that boundary.
OldEnqueue(g, e) ==
  /\ oldWriters /\ OwnerOf[g] = Legacy /\ "jobs_boundary" \in oldIndexes
  /\ notNull \cap {"jobs", "targets"} = {}
  /\ IF \E o \in Owners : jobRows[g][e][o] > 0 THEN UNCHANGED jobRows
     ELSE jobRows' = [jobRows EXCEPT ![g][e][Unowned] = 1]
  /\ ownerIn' = [ownerIn EXCEPT ![g]["targets"] = IF @ = Missing THEN Unowned ELSE @]
  /\ UNCHANGED <<schema, operator, processes>>

OldCommit(g) ==
  /\ oldWriters /\ ownerIn[g]["targets"] # Missing /\ "segments" \notin notNull
  /\ ownerIn' = [ownerIn EXCEPT ![g]["targets"] = Missing,
                                ![g]["segments"] = IF @ = Missing THEN Unowned ELSE @]
  /\ UNCHANGED <<schema, jobRows, operator, processes>>

\* Database.enqueue: validate, adopt, then upsert by source and boundary.  A snapshot that is newly
\* wanted becomes the target; one that is committed leaves none, and an older one the target there is.
NewEnqueue(g, e) ==
  LET source == OwnerOf[g]
      adopted == JobsToUpsert(g, source)
      jobs == [adopted EXCEPT ![e][source] = IF @ = 0 THEN 1 ELSE @]
      held == AdoptedRows(g, source)
  IN  /\ server = "up" /\ source \in registry /\ GroupIsOf(g, source)
      /\ FitsIndex(jobs)
      /\ jobRows' = [jobRows EXCEPT ![g] = jobs]
      /\ \E target \in {source, held["targets"], Missing} :
           /\ target = Missing => held["segments"] # Missing
           /\ ownerIn' = [ownerIn EXCEPT ![g] = [held EXCEPT !["targets"] = target]]
      /\ UNCHANGED <<schema, operator, processes>>

\* commitProjection and the claim before it: the segment's row gets the owner in effect.
NewCommit(g) ==
  /\ server = "up" /\ ownerIn[g]["targets"] # Missing
  /\ GroupIsOf(g, Effective(ownerIn[g]["targets"]))
  /\ ownerIn' = [ownerIn EXCEPT ![g] = [segments |-> Effective(ownerIn[g]["targets"]),
                                        targets |-> Missing]]
  /\ UNCHANGED <<schema, jobRows, operator, processes>>

StopOldWriters ==
  /\ oldWriters /\ oldWriters' = FALSE
  /\ UNCHANGED <<schema, groupRows, operator, boot, server>>

----------------------------------------------------------------------------
\* Commands.

ConfirmAll == <<<<"confirm">>>>
Each(statement, over) == [i \in DOMAIN over |-> <<statement, over[i]>>]
TableOrder == <<"segments", "jobs", "targets">>

Install  == Each("validate", TableOrder) \o Each("index", NewIndexes) \o ConfirmAll
Cutover  == ConfirmAll \o Each("drop", OldIndexes)
Enforce  == ConfirmAll \o <<<<"unowned">>, <<"contradictory">>, <<"keys">>>> \o Cutover
              \o Each("own", TableOrder)

\* applyMigrations: one transaction; 010 puts checks in place that are still to be validated.
Migrated == expanded' = TRUE /\ validated' = IF expanded THEN validated ELSE {}

Expand ==
  /\ command = <<>> /\ Migrated
  /\ UNCHANGED <<registry, index, oldIndexes, notNull, groupRows, operator, processes>>

Register(source) ==
  /\ command = <<>> /\ expanded /\ source \notin registry
  /\ registry' = registry \cup {source}
  /\ UNCHANGED <<expanded, validated, index, oldIndexes, notNull, groupRows, operator, processes>>

\* requireStoppedWriters: the operator says so, and it is true.
WritersStopped == ~oldWriters

Issue ==
  /\ command = <<>> /\ expanded
  /\ \/ command' = Install
     \/ WritersStopped /\ command' \in {Cutover, Enforce}
     \/ Legacy \in registry /\ command' = <<<<"list">>>>
  /\ enforcing' = FALSE
  /\ UNCHANGED <<schema, groupRows, processes>>

\* A timeout or a lost connection.
Interrupt ==
  /\ command # <<>> /\ command' = <<>> /\ enforcing' = FALSE
  /\ UNCHANGED <<schema, groupRows, processes>>

At(statement) == command # <<>> /\ Head(command)[1] = statement
Subject == Head(command)[2]
Goes  == command' = Tail(command) /\ UNCHANGED enforcing
Fails == command' = <<>> /\ enforcing' = FALSE
GoesIf(condition) == (condition /\ Goes) \/ (~condition /\ Fails)

Validate ==
  /\ At("validate") /\ Goes /\ validated' = validated \cup {Subject}
  /\ UNCHANGED <<registry, expanded, index, oldIndexes, notNull, groupRows, processes>>

\* installIndexes, for one index: what an interrupted build left is dropped before it is built.
BuildIndex ==
  /\ At("index")
  /\ \/ /\ index[Subject] = "invalid"
        /\ index' = [index EXCEPT ![Subject] = "absent"]
        /\ UNCHANGED operator
     \/ /\ index[Subject] = "absent"
        /\ index' = [index EXCEPT ![Subject] = "invalid"]
        /\ command' = <<<<"build", Subject>>>> \o Tail(command)
        /\ UNCHANGED enforcing
     \/ /\ index[Subject] = "ready"
        /\ Goes /\ UNCHANGED index
  /\ UNCHANGED <<registry, expanded, validated, oldIndexes, notNull, groupRows, processes>>

FinishIndex ==
  LET unique == Subject = "jobs_source_boundary" =>
                  \A g \in Groups, e \in SpanEnds, o \in Sources : jobRows[g][e][o] <= 1
  IN  /\ At("build") /\ GoesIf(unique)
      /\ index' = IF unique THEN [index EXCEPT ![Subject] = "ready"] ELSE index
      /\ UNCHANGED <<registry, expanded, validated, oldIndexes, notNull, groupRows, processes>>

\* checkIndexes.
ConfirmIndexes ==
  /\ At("confirm") /\ GoesIf(\A i \in DOMAIN index : index[i] = "ready")
  /\ UNCHANGED <<schema, groupRows, processes>>

DropIndex ==
  /\ At("drop") /\ Goes /\ oldIndexes' = oldIndexes \ {Subject}
  /\ UNCHANGED <<registry, expanded, validated, index, notNull, groupRows, processes>>

Pending == {g \in Groups : Unowned \in OwnersOf(g)}

\* backfill reads a batch, takes its groups one at a time, and reads again until none is left.
ListBatch ==
  /\ At("list")
  /\ \/ Pending = {} /\ Goes
     \/ \E n \in 1..BatchSize : \E batch \in [1..n -> Pending] :
          /\ IsInjective(batch)
          /\ n = BatchSize \/ ToSet(batch) = Pending
          /\ command' = Each("assign", batch) \o command
          /\ UNCHANGED enforcing
  /\ UNCHANGED <<schema, groupRows, processes>>

Assign ==
  LET adopted == AdoptedJobs(Subject, Legacy)
      valid == GroupIsOf(Subject, Legacy) /\ FitsIndex(adopted)
  IN  /\ At("assign") /\ GoesIf(valid)
      /\ jobRows' = IF valid THEN [jobRows EXCEPT ![Subject] = adopted] ELSE jobRows
      /\ ownerIn' = IF valid THEN [ownerIn EXCEPT ![Subject] = AdoptedRows(Subject, Legacy)]
                    ELSE ownerIn
      /\ UNCHANGED <<schema, processes>>

\* enforce counts the rows without an owner ..
CountUnowned ==
  /\ At("unowned")
  /\ \/ Pending = {} /\ command' = Tail(command) /\ enforcing' = TRUE
     \/ Pending # {} /\ Fails
  /\ UNCHANGED <<schema, groupRows, processes>>

\* .. refuses groups with owners that contradict each other, and validates the foreign keys ..
CheckOwners ==
  /\ \/ /\ At("contradictory")
        /\ GoesIf(\A g \in Groups : \A o, p \in OwnersOf(g) \ {Unowned} : o = p)
     \/ At("keys") /\ GoesIf(\A g \in Groups : OwnersOf(g) \ {Unowned} \subseteq registry)
  /\ UNCHANGED <<schema, groupRows, processes>>

OwnersIn(table) ==
  IF table = "jobs" THEN {o \in Owners : \E g \in Groups, e \in SpanEnds : jobRows[g][e][o] > 0}
  ELSE {ownerIn[g][table] : g \in Groups}

\* .. and demands an owner, table by table.
RequireOwner ==
  LET complete == Unowned \notin OwnersIn(Subject)
  IN  /\ At("own") /\ GoesIf(complete)
      /\ notNull' = IF complete THEN notNull \cup {Subject} ELSE notNull
      /\ UNCHANGED <<registry, expanded, validated, index, oldIndexes, groupRows, processes>>

----------------------------------------------------------------------------
\* Startup.

\* The checks of Database.open, one query after the other.
BootChecks == <<"segments_source_start", "jobs_source_boundary", "boundary_checks", "old_indexes">>

\* Mutant: startup does not ask for the old indexes.
BootChecksOfNew == <<"segments_source_start", "jobs_source_boundary", "boundary_checks">>

StartupChecks == BootChecks

Start ==
  /\ server = "down" /\ command = <<>>      \* the migration lock is free
  /\ Migrated /\ server' = "starting" /\ boot' = StartupChecks
  /\ UNCHANGED <<registry, index, oldIndexes, notNull, groupRows, operator, oldWriters>>

BootPasses(check) ==
  CASE check = "boundary_checks" -> validated = RowTables
    [] check = "old_indexes"     -> oldIndexes = {}
    [] OTHER                     -> index[check] = "ready"

BootStep ==
  /\ server = "starting" /\ boot # <<>>
  /\ \/ BootPasses(Head(boot)) /\ boot' = Tail(boot)
        /\ server' = IF Tail(boot) = <<>> THEN "up" ELSE server
     \/ ~BootPasses(Head(boot)) /\ boot' = <<>> /\ server' = "down"
  /\ UNCHANGED <<schema, groupRows, operator, oldWriters>>

Stop ==
  /\ server # "down" /\ server' = "down" /\ boot' = <<>>
  /\ UNCHANGED <<schema, groupRows, operator, oldWriters>>

RolloutNext ==
  \/ Expand \/ Issue \/ Interrupt \/ (\E s \in Sources : Register(s))
  \/ Validate \/ BuildIndex \/ FinishIndex \/ ConfirmIndexes \/ DropIndex
  \/ ListBatch \/ Assign \/ CountUnowned \/ CheckOwners \/ RequireOwner
  \/ Start \/ BootStep \/ Stop \/ StopOldWriters
  \/ \E g \in Groups :
       \/ OldCommit(g) \/ NewCommit(g)
       \/ \E e \in SpanEnds : OldEnqueue(g, e) \/ NewEnqueue(g, e)

RolloutSpec == RolloutInit /\ [][RolloutNext]_rolloutVars

----------------------------------------------------------------------------
\* Properties.

\* A group never has two jobs of one boundary, whether an owner was named when they were stored, was
\* given since, or is still to be given: an index on the source does not see rows without one.
OneJobPerBoundary ==
  \A g \in Groups, e \in SpanEnds :
    /\ \A o \in Owners : jobRows[g][e][o] <= 1
    /\ \A o, p \in Owners : jobRows[g][e][o] > 0 /\ jobRows[g][e][p] > 0 => o = p

\* A server that serves has every index its upserts name and none of those that confuse sources,
\* whatever command runs beside it or was cut off: README.md:283-289.
ServingIsIndexed ==
  server = "up" =>
    /\ \A i \in DOMAIN index : i # "jobs_source_job_segment" => index[i] = "ready"
    /\ oldIndexes = {} /\ validated = RowTables

\* Once enforce has found that every row has an owner, no row without one appears while it goes on to
\* demand it, nor ever after in a table that demands it.
EnforcedIsOwned ==
  /\ enforcing => Pending = {}
  /\ \A t \in notNull : Unowned \notin OwnersIn(t)

\* Rows without an owner can be given one, and none appears where one is demanded.
OwnershipIsSound == OneJobPerBoundary /\ EnforcedIsOwned
=============================================================================
