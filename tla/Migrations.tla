------------------------------ MODULE Migrations ------------------------------
(***************************************************************************)
(* The schema of the database and the Alembic runs that change it.         *)
(*                                                                         *)
(* `alembic upgrade head` is started by the api-migrate service, by hand   *)
(* in the api container and by POST /internal/bootstrap; nothing keeps two *)
(* runs apart.  MySQL commits every DDL statement by itself, so a revision *)
(* is a sequence of steps that can stop anywhere, and the row of           *)
(* alembic_version is updated after the last of them.                      *)
(*                                                                         *)
(* A downgrade is an operator's decision: none is started while another    *)
(* run is in progress, and no other run while it is.                       *)
(***************************************************************************)
EXTENDS Naturals, Sequences, SequencesExt

CONSTANTS
    Runs,          \* Alembic runs that can be in progress at the same time
    MaxInterrupts, \* bound: runs cut short in a behaviour
    MaxDowngrades  \* bound: downgrades in a behaviour

ASSUME BoundsAssumption == MaxInterrupts \in Nat /\ MaxDowngrades \in Nat

VARIABLES
    schema,     \* the tables, with their indexes, and the later columns
    tagType,    \* type of categories.ticket_tag: its ENUM of "values" or of
                \* "names", or "text" (VARCHAR)
    tags,       \* how its rows store a tag: as "values", as "names", or "none"
    version,    \* alembic_version: the last revision applied, 0 when none
    run,        \* run -> where it stands
    cut,        \* pairs <<mode, revision>> that a run left half done
    interrupts, \* runs cut short so far
    downgrades  \* downgrades so far

migrationVars == <<schema, tagType, tags, version, run, cut, interrupts, downgrades>>

(***************************************************************************)
(* The revisions, as sequences of steps.  "create" and "drop" are plain    *)
(* DDL and fail when the object is there, or is not; "ensure" asks the     *)
(* inspector first; "store" converts categories.ticket_tag.  A table       *)
(* stands for itself and its indexes.  20260425_0004 also ensures columns  *)
(* and indexes of orders that 20260423_0001 has created: they are part of  *)
(* the table orders.                                                       *)
(***************************************************************************)
Tables ==
    << "users", "categories", "promotions", "addresses", "coupons", "orders",
       "products", "promotion_slots", "modifier_groups", "order_items",
       "modifier_options", "order_item_modifiers" >>

Provider == "orders.payment_provider"

\* What 20260425_0004 ensures, in its order.
Audit == << Provider, "checkout_sessions", "ix_checkout_sessions",
            "payments", "ix_payments" >>

Step(do, what) == [do |-> do, what |-> what]
Steps(do, objects) == [i \in 1..Len(objects) |-> Step(do, objects[i])]

Upgrade(k) ==
    CASE k = 1 -> Steps("create", Tables)
      [] k = 2 -> Steps("store", <<"text", "values">>)
      [] k = 3 -> Steps("create", <<Provider>>)
      [] k = 4 -> Steps("ensure", Audit)

\* Mutant: 20260425_0004 is taken back like any other revision.
DowngradeAudit(k) ==
    CASE k = 1 -> Steps("drop", Reverse(Tables))
      [] k = 2 -> Steps("store", <<"text", "names">>)
      [] k = 3 -> Steps("drop", <<Provider>>)
      [] k = 4 -> Steps("drop", <<"payments", "checkout_sessions">>)

\* Mutant: the downgrade of 20260424_0003 forgets its column.
DowngradeLess(k) ==
    CASE k = 1 -> Steps("drop", Reverse(Tables))
      [] k = 2 -> Steps("store", <<"text", "names">>)
      [] OTHER -> << >>

\* The downgrade of 20260425_0004 is a no-op.
Downgrade(k) ==
    CASE k = 1 -> Steps("drop", Reverse(Tables))
      [] k = 2 -> Steps("store", <<"text", "names">>)
      [] k = 3 -> Steps("drop", <<Provider>>)
      [] k = 4 -> << >>

HeadRevision == 4
Revisions == 1..HeadRevision

\* The table an object is part of: it is needed to create the object, and it
\* takes the object with it when it is dropped.
Owner(what) ==
    CASE what = Provider -> "orders"
      [] what = "ix_checkout_sessions" -> "checkout_sessions"
      [] what = "ix_payments" -> "payments"
      [] OTHER -> what

(***************************************************************************)
(* A run: idle, working on statement i of revision at in direction mode,   *)
(* absent when the inspector has just said that the object of an "ensure"  *)
(* is missing, or ended with the answer ok or failed.  A downgrade ends at *)
(* revision goal.                                                          *)
(***************************************************************************)
Modes == {"up", "down"}

Run == [pc : {"idle", "working", "ok", "failed"}, mode : Modes, at : Revisions,
        goal : 0..HeadRevision, i : Nat \ {0}, absent : BOOLEAN]

NoRun == [pc |-> "idle", mode |-> "up", at |-> 1, goal |-> HeadRevision, i |-> 1,
          absent |-> FALSE]

Working(r) == run[r].pc = "working"
Upgrading(r) == Working(r) /\ run[r].mode = "up"
Downgrading(r) == Working(r) /\ run[r].mode = "down"

Script(r) ==
    IF run[r].mode = "up" THEN Upgrade(run[r].at) ELSE Downgrade(run[r].at)

InScript(r) == Working(r) /\ run[r].i <= Len(Script(r))
Current(r) == Script(r)[run[r].i]

SetRun(r, value) == run' = [run EXCEPT ![r] = value]
Ended(r, pc) == [NoRun EXCEPT !.pc = pc, !.mode = run[r].mode]

MigrationInit ==
    /\ schema = {}
    /\ tagType = "none"
    /\ tags = "none"
    /\ version = 0
    /\ run = [r \in Runs |-> NoRun]
    /\ cut = {}
    /\ interrupts = 0
    /\ downgrades = 0

-----------------------------------------------------------------------------

\* `alembic upgrade head`: the run reads the version once and plans from it.
StartUpgrade(r) ==
    /\ run[r].pc = "idle"
    /\ \A q \in Runs : ~Downgrading(q)
    /\ SetRun(r, IF version = HeadRevision THEN [NoRun EXCEPT !.pc = "ok"]
                 ELSE [NoRun EXCEPT !.pc = "working", !.at = version + 1])
    /\ UNCHANGED <<schema, tagType, tags, version, cut, interrupts, downgrades>>

\* `alembic downgrade` to an earlier revision, or to the base.
StartDowngrade(r) ==
    /\ \A q \in Runs : run[q].pc = "idle"
    /\ version > 0
    /\ downgrades < MaxDowngrades
    /\ downgrades' = downgrades + 1
    /\ \E goal \in 0..(version - 1) :
         SetRun(r, [NoRun EXCEPT !.pc = "working", !.mode = "down",
                                 !.at = version, !.goal = goal])
    /\ UNCHANGED <<schema, tagType, tags, version, cut, interrupts>>

Advance(r) == SetRun(r, [run[r] EXCEPT !.i = @ + 1, !.absent = FALSE])

\* Mutant: 20260425_0004 creates its objects without asking whether they are there.
PresentNever(what) == FALSE

\* _table_exists, _column_exists, _index_exists
Present(what) == what \in schema

\* The inspector is asked for the object of an "ensure".
Inspect(r) ==
    /\ InScript(r)
    /\ Current(r).do = "ensure"
    /\ ~run[r].absent
    /\ IF Present(Current(r).what) THEN Advance(r)
       ELSE SetRun(r, [run[r] EXCEPT !.absent = TRUE])
    /\ UNCHANGED <<schema, tagType, tags, version, cut, interrupts, downgrades>>

\* The DDL of the current statement is possible.
Possible(r) ==
    LET what == Current(r).what IN
    CASE Current(r).do \in {"create", "ensure"} ->
           /\ what \notin schema
           /\ Owner(what) # what => Owner(what) \in schema
      [] Current(r).do = "drop" -> what \in schema
      [] OTHER -> "categories" \in schema

Inspected(r) == Current(r).do = "ensure" => run[r].absent

\* One statement, committed at once.  The UPDATEs that convert the rows are
\* committed by the ALTER TABLE that follows them, so they are one step with it.
Execute(r) ==
    /\ InScript(r)
    /\ Inspected(r)
    /\ Possible(r)
    /\ LET what == Current(r).what IN
       CASE Current(r).do \in {"create", "ensure"} ->
              /\ schema' = schema \cup {what}
              /\ tagType' = IF what = "categories" THEN "values" ELSE tagType
              /\ tags' = tags
         [] Current(r).do = "drop" ->
              /\ schema' = {o \in schema : o # what /\ Owner(o) # what}
              /\ tagType' = IF what = "categories" THEN "none" ELSE tagType
              /\ tags' = IF what = "categories" THEN "none" ELSE tags
         [] OTHER ->
              /\ schema' = schema
              /\ tagType' = what
              /\ tags' = IF what = "text" \/ tags = "none" THEN tags ELSE what
    /\ Advance(r)
    /\ UNCHANGED <<version, cut, interrupts, downgrades>>

\* A run that ends inside a revision, after one of its statements.
LeftHalfDone(r) == IF run[r].i > 1 THEN {<<run[r].mode, run[r].at>>} ELSE {}

\* The database refuses the statement: the table, the column or the index
\* exists already (or does not), and the run ends.
Refused(r) ==
    /\ InScript(r)
    /\ Inspected(r)
    /\ ~Possible(r)
    /\ SetRun(r, Ended(r, "failed"))
    /\ cut' = cut \cup LeftHalfDone(r)
    /\ UNCHANGED <<schema, tagType, tags, version, interrupts, downgrades>>

\* The process is killed, the connection is lost, or a second bootstrap in the
\* same process takes away the module globals of alembic.context and alembic.op.
Interrupt(r) ==
    /\ Working(r)
    /\ interrupts < MaxInterrupts
    /\ interrupts' = interrupts + 1
    /\ SetRun(r, Ended(r, "failed"))
    /\ cut' = cut \cup LeftHalfDone(r)
    /\ UNCHANGED <<schema, tagType, tags, version, downgrades>>

\* The versions before and after the revision a run has just gone through.
From(r) == IF run[r].mode = "up" THEN run[r].at - 1 ELSE run[r].at

\* Mutant: the revision after the one gone through.
ToNext(r) == IF run[r].mode = "up" THEN run[r].at + 1 ELSE run[r].at - 1

To(r) == IF run[r].mode = "up" THEN run[r].at ELSE run[r].at - 1

\* The revision after this one, or the end of the run.
NextRevision(r) ==
    CASE run[r].mode = "up" /\ run[r].at < HeadRevision ->
           [run[r] EXCEPT !.at = @ + 1, !.i = 1]
      [] run[r].mode = "down" /\ run[r].at - 1 > run[r].goal ->
           [run[r] EXCEPT !.at = @ - 1, !.i = 1]
      [] OTHER -> Ended(r, "ok")

\* Mutant: the version is written before the last statement.
AllDoneEarly(r) == Working(r) /\ run[r].i >= Len(Script(r))

AllDone(r) == Working(r) /\ run[r].i > Len(Script(r))

\* HeadMaintainer: UPDATE alembic_version ... WHERE version_num = <from>, which
\* must match one row, committed with the end of the revision.
Record(r) ==
    /\ AllDone(r)
    /\ version = From(r)
    /\ version' = To(r)
    /\ SetRun(r, NextRevision(r))
    /\ UNCHANGED <<schema, tagType, tags, cut, interrupts, downgrades>>

\* Another run has recorded the revision already: CommandError.
RecordRefused(r) ==
    /\ AllDone(r)
    /\ version # From(r)
    /\ SetRun(r, Ended(r, "failed"))
    /\ UNCHANGED <<schema, tagType, tags, version, cut, interrupts, downgrades>>

\* Whoever started the run has read its answer.
Release(r) ==
    /\ run[r].pc \in {"ok", "failed"}
    /\ SetRun(r, NoRun)
    /\ UNCHANGED <<schema, tagType, tags, version, cut, interrupts, downgrades>>

\* The seed rewrites names that it finds in a VARCHAR column and inserts the
\* missing categories; the ORM writes the values of TicketTag.
StoreValues ==
    /\ version = HeadRevision
    /\ "categories" \in schema
    /\ tagType # "names"
    /\ tags' = "values"
    /\ UNCHANGED <<schema, tagType, version, run, cut, interrupts, downgrades>>

Progress(r) ==
    Inspect(r) \/ Execute(r) \/ Refused(r) \/ Record(r) \/ RecordRefused(r)

MigrationStep(r) ==
    \/ StartUpgrade(r) \/ StartDowngrade(r) \/ Progress(r)
    \/ Interrupt(r) \/ Release(r)

MigrationNext == StoreValues \/ \E r \in Runs : MigrationStep(r)

MigrationSpec == MigrationInit /\ [][MigrationNext]_migrationVars

-----------------------------------------------------------------------------
(***************************************************************************)
(* Properties.                                                             *)
(***************************************************************************)

\* What revision k leaves behind is there.  The type of ticket_tag may be VARCHAR
\* for a while, or for good, when two runs overlap in 20260424_0002.
Whole(k) ==
    CASE k = 1 -> ToSet(Tables) \subseteq schema
      [] k = 2 -> tagType # "names" /\ tags # "names"
      [] k = 3 -> Provider \in schema
      [] k = 4 -> ToSet(Audit) \subseteq schema

\* A downgrade is in the middle of revision k, or was when it was cut short.
Undone(k) ==
    \/ <<"down", k>> \in cut
    \/ \E r \in Runs : Downgrading(r) /\ run[r].at = k /\ run[r].i > 1

\* The version recorded is true of the database: every revision up to it is there
\* in full, however runs overlapped, were refused or cut short, unless the
\* downgrade of that very revision was.
VersionIsTrue == \A k \in Revisions : version >= k /\ ~Undone(k) => Whole(k)

\* An upgrade of revision k is in the middle of it, or was when it was cut short.
HalfDone(k) ==
    \/ <<"up", k>> \in cut
    \/ \E r \in Runs : Upgrading(r) /\ run[r].at = k /\ run[r].i > 1

\* The converse, for the two revisions that cannot be applied twice: nothing they
\* create is there before they are applied or after they are taken back, so that
\* the next upgrade is not refused.
NothingLeftOver ==
    /\ version < 1 /\ ~HalfDone(1) => ToSet(Tables) \cap schema = {}
    /\ version < 3 /\ ~HalfDone(3) => Provider \notin schema

\* The tables of the payments are never dropped, by no downgrade however far: "may
\* contain payment audit data and must not be dropped automatically".
AuditIsKept ==
    [][ \A o \in {"checkout_sessions", "payments"} : o \in schema => o \in schema' ]_migrationVars

\* When no more runs are cut short, a run that begins the next revision brings the
\* database to the head, alone or beside others that it refuses or that refuse
\* it, unless an interruption has left 20260423_0001 or 20260424_0003 half done:
\* every other half done revision is completed.
UpgradeReachesHead ==
    (/\ \E r \in Runs :
          Upgrading(r) /\ run[r].at = version + 1 /\ run[r].i = 1 /\ ~run[r].absent
     /\ interrupts = MaxInterrupts
     /\ cut \cap {<<"up", 1>>, <<"up", 3>>, <<"down", 1>>} = {})
      ~> version = HeadRevision

=============================================================================
