--------------------------- MODULE Migrations_proofs ---------------------------
(***************************************************************************)
(* Proofs about Migrations, for any number of overlapping Alembic runs,    *)
(* interruptions and downgrades.                                           *)
(***************************************************************************)
EXTENDS Migrations, TLAPS

-----------------------------------------------------------------------------
(***************************************************************************)
(* The scripts of the revisions.                                           *)
(***************************************************************************)

LEMMA StepsOfObjects ==
    ASSUME NEW do, NEW objects, Len(objects) \in Nat
    PROVE  /\ Len(Steps(do, objects)) = Len(objects)
           /\ \A j \in 1..Len(objects) : Steps(do, objects)[j] = Step(do, objects[j])
  BY DEF Steps

LEMMA ReversedObjects ==
    ASSUME NEW objects, Len(objects) \in Nat
    PROVE  /\ Len(Reverse(objects)) = Len(objects)
           /\ \A j \in 1..Len(objects) :
                Reverse(objects)[j] = objects[Len(objects) - j + 1]
  BY DEF Reverse

LEMMA ObjectLists ==
    /\ Len(Tables) = 12 /\ ToSet(Tables) = {Tables[j] : j \in 1..12}
    /\ Len(Audit) = 5 /\ ToSet(Audit) = {Audit[j] : j \in 1..5}
    /\ \A j \in 1..5 : Audit[j] \notin ToSet(Tables)
  <1>1. Len(Tables) = 12 /\ DOMAIN Tables = 1..12
    BY DEF Tables
  <1>2. Len(Audit) = 5 /\ DOMAIN Audit = 1..5
    BY DEF Audit
  <1>3. \A j \in 1..5 : Audit[j] \notin ToSet(Tables)
    BY DEF Audit, Tables, ToSet, Provider
  <1>. QED  BY <1>1, <1>2, <1>3 DEF ToSet

LEMMA ProviderIsNoTable ==
    Provider \notin ToSet(Tables) /\ \A o \in ToSet(Tables) : Owner(o) # Provider
  <1>1. Provider \notin ToSet(Tables)
    BY DEF Tables, ToSet, Provider
  <1>. QED  BY <1>1 DEF Owner, Provider

LEMMA UpgradeSteps ==
    /\ Len(Upgrade(1)) = 12
    /\ \A j \in 1..12 : Upgrade(1)[j] = Step("create", Tables[j])
    /\ Len(Upgrade(2)) = 2
    /\ Upgrade(2)[1] = Step("store", "text") /\ Upgrade(2)[2] = Step("store", "values")
    /\ Len(Upgrade(3)) = 1
    /\ Upgrade(3)[1] = Step("create", Provider)
    /\ Len(Upgrade(4)) = 5
    /\ \A j \in 1..5 : Upgrade(4)[j] = Step("ensure", Audit[j])
  <1>1. /\ Upgrade(1) = Steps("create", Tables)
        /\ Upgrade(2) = Steps("store", <<"text", "values">>)
        /\ Upgrade(3) = Steps("create", <<Provider>>)
        /\ Upgrade(4) = Steps("ensure", Audit)
    BY DEF Upgrade
  <1>2. Len(Tables) = 12 /\ Len(Audit) = 5
    BY ObjectLists
  <1>3. /\ Len(<<"text", "values">>) = 2 /\ Len(<<Provider>>) = 1
        /\ <<"text", "values">>[1] = "text" /\ <<"text", "values">>[2] = "values"
        /\ <<Provider>>[1] = Provider
    OBVIOUS
  <1>4. Len(Upgrade(1)) = 12 /\ \A j \in 1..12 : Upgrade(1)[j] = Step("create", Tables[j])
    <2>1. Len(Upgrade(1)) = 12
      BY <1>1, <1>2, StepsOfObjects
    <2>2. ASSUME NEW j \in 1..12 PROVE Upgrade(1)[j] = Step("create", Tables[j])
      BY <1>1, <1>2 DEF Steps
    <2>. QED  BY <2>1, <2>2
  <1>5. /\ Len(Upgrade(2)) = 2
        /\ Upgrade(2)[1] = Step("store", "text") /\ Upgrade(2)[2] = Step("store", "values")
    BY <1>1, <1>3, StepsOfObjects
  <1>6. Len(Upgrade(3)) = 1 /\ Upgrade(3)[1] = Step("create", Provider)
    BY <1>1, <1>3, StepsOfObjects
  <1>7. Len(Upgrade(4)) = 5 /\ \A j \in 1..5 : Upgrade(4)[j] = Step("ensure", Audit[j])
    BY <1>1, <1>2, StepsOfObjects
  <1>. QED  BY <1>4, <1>5, <1>6, <1>7

LEMMA DowngradeSteps ==
    /\ Len(Downgrade(1)) = 12
    /\ \A j \in 1..12 : Downgrade(1)[j] = Step("drop", Tables[13 - j])
    /\ Len(Downgrade(2)) = 2
    /\ Downgrade(2)[1] = Step("store", "text") /\ Downgrade(2)[2] = Step("store", "names")
    /\ Len(Downgrade(3)) = 1
    /\ Downgrade(3)[1] = Step("drop", Provider)
    /\ Len(Downgrade(4)) = 0
  <1>1. /\ Downgrade(1) = Steps("drop", Reverse(Tables))
        /\ Downgrade(2) = Steps("store", <<"text", "names">>)
        /\ Downgrade(3) = Steps("drop", <<Provider>>)
        /\ Downgrade(4) = << >>
    BY DEF Downgrade
  <1>2. Len(Tables) = 12
    BY ObjectLists
  <1>3. /\ Len(<<"text", "names">>) = 2 /\ Len(<<Provider>>) = 1
        /\ <<"text", "names">>[1] = "text" /\ <<"text", "names">>[2] = "names"
        /\ <<Provider>>[1] = Provider
    OBVIOUS
  <1>4. /\ Len(Reverse(Tables)) = 12
        /\ \A j \in 1..12 : Reverse(Tables)[j] = Tables[13 - j]
    <2>1. Len(Reverse(Tables)) = 12
      BY <1>2, ReversedObjects
    <2>2. ASSUME NEW j \in 1..12 PROVE Reverse(Tables)[j] = Tables[13 - j]
      BY <1>2 DEF Reverse
    <2>. QED  BY <2>1, <2>2
  <1>5. Len(Downgrade(1)) = 12 /\ \A j \in 1..12 : Downgrade(1)[j] = Step("drop", Tables[13 - j])
    <2>1. Len(Downgrade(1)) = 12
      BY <1>1, <1>4, StepsOfObjects
    <2>2. ASSUME NEW j \in 1..12 PROVE Downgrade(1)[j] = Step("drop", Tables[13 - j])
      <3>1. Downgrade(1)[j] = Step("drop", Reverse(Tables)[j])
        BY <1>1, <1>4 DEF Steps
      <3>. QED  BY <1>4, <3>1
    <2>. QED  BY <2>1, <2>2
  <1>6. /\ Len(Downgrade(2)) = 2
        /\ Downgrade(2)[1] = Step("store", "text") /\ Downgrade(2)[2] = Step("store", "names")
    BY <1>1, <1>3, StepsOfObjects
  <1>7. Len(Downgrade(3)) = 1 /\ Downgrade(3)[1] = Step("drop", Provider)
    BY <1>1, <1>3, StepsOfObjects
  <1>8. Len(Downgrade(4)) = 0
    BY <1>1
  <1>. QED  BY <1>5, <1>6, <1>7, <1>8

\* An upgrade creates, ensures or converts; what it creates or ensures is of its
\* own revision.
LEMMA UpgradeScripts ==
    ASSUME NEW k \in Revisions, NEW j \in 1..Len(Upgrade(k))
    PROVE  LET step == Upgrade(k)[j] IN
           /\ step.do \in {"create", "ensure", "store"}
           /\ step.do = "store" => step.what \in {"text", "values"}
           /\ step.do = "create" => \/ k = 1 /\ step.what \in ToSet(Tables)
                                    \/ k = 3 /\ step.what = Provider
           /\ step.do = "ensure" => k = 4 /\ step.what \notin ToSet(Tables)
  <1>1. CASE k = 1
    <2>1. Upgrade(1)[j] = Step("create", Tables[j]) /\ j \in 1..12
      BY <1>1, UpgradeSteps
    <2>2. Tables[j] \in ToSet(Tables)
      BY <2>1, ObjectLists
    <2>. QED  BY <1>1, <2>1, <2>2 DEF Step
  <1>2. CASE k = 2
    BY <1>2, UpgradeSteps DEF Step
  <1>3. CASE k = 3
    BY <1>3, UpgradeSteps DEF Step
  <1>4. CASE k = 4
    <2>1. Upgrade(4)[j] = Step("ensure", Audit[j]) /\ j \in 1..5
      BY <1>4, UpgradeSteps
    <2>. QED  BY <1>4, <2>1, ObjectLists DEF Step
  <1>. QED  BY <1>1, <1>2, <1>3, <1>4 DEF Revisions, HeadRevision

\* A downgrade drops tables in 20260423_0001, a column in 20260424_0003, and
\* nothing in 20260425_0004.
LEMMA DowngradeScripts ==
    ASSUME NEW k \in Revisions, NEW j \in 1..Len(Downgrade(k))
    PROVE  LET step == Downgrade(k)[j] IN
           \/ k = 1 /\ step.do = "drop" /\ step.what \in ToSet(Tables)
           \/ k = 2 /\ step.do = "store"
           \/ k = 3 /\ step.do = "drop" /\ step.what = Provider
  <1>1. CASE k = 1
    <2>1. j \in 1..12
      BY <1>1, DowngradeSteps
    <2>2. Downgrade(1)[j] = Step("drop", Tables[13 - j])
      BY <2>1, DowngradeSteps
    <2>3. Tables[13 - j] \in ToSet(Tables)
      <3>1. 13 - j \in 1..12
        BY <2>1
      <3>. QED  BY <3>1, ObjectLists
    <2>. QED  BY <1>1, <2>2, <2>3 DEF Step
  <1>2. CASE k = 2
    BY <1>2, DowngradeSteps DEF Step
  <1>3. CASE k = 3
    BY <1>3, DowngradeSteps DEF Step
  <1>4. CASE k = 4
    BY <1>4, DowngradeSteps
  <1>. QED  BY <1>1, <1>2, <1>3, <1>4 DEF Revisions, HeadRevision

LEMMA ScriptLengths ==
    ASSUME NEW k \in Revisions
    PROVE  Len(Upgrade(k)) \in Nat /\ Len(Downgrade(k)) \in Nat
  BY UpgradeSteps, DowngradeSteps DEF Revisions, HeadRevision

\* A step has been done once its object is there, or the column converted.
Done(step) ==
    IF step.do \in {"create", "ensure"} THEN step.what \in schema
    ELSE tagType # "names" /\ (step.what = "values" => tags # "names")

\* A revision all of whose steps have been done is whole.
LEMMA DoneIsWhole ==
    ASSUME NEW k \in Revisions, \A j \in 1..Len(Upgrade(k)) : Done(Upgrade(k)[j])
    PROVE  Whole(k)
  <1>1. CASE k = 1
    <2>1. ASSUME NEW j \in 1..12 PROVE Tables[j] \in schema
      <3>1. Upgrade(1)[j] = Step("create", Tables[j]) /\ Done(Upgrade(1)[j])
        BY <1>1, UpgradeSteps
      <3>. QED  BY <3>1 DEF Step, Done
    <2>. QED  BY <1>1, <2>1, ObjectLists DEF Whole
  <1>2. CASE k = 2
    <2>1. Done(Step("store", "text")) /\ Done(Step("store", "values"))
      BY <1>2, UpgradeSteps
    <2>. QED  BY <1>2, <2>1 DEF Whole, Done, Step
  <1>3. CASE k = 3
    <2>1. Done(Step("create", Provider))
      BY <1>3, UpgradeSteps
    <2>. QED  BY <1>3, <2>1 DEF Whole, Done, Step
  <1>4. CASE k = 4
    <2>1. ASSUME NEW j \in 1..5 PROVE Audit[j] \in schema
      <3>1. Upgrade(4)[j] = Step("ensure", Audit[j]) /\ Done(Upgrade(4)[j])
        BY <1>4, UpgradeSteps
      <3>. QED  BY <3>1 DEF Step, Done
    <2>. QED  BY <1>4, <2>1, ObjectLists DEF Whole
  <1>. QED  BY <1>1, <1>2, <1>3, <1>4 DEF Revisions, HeadRevision

\* A revision all of whose steps have been taken back has left nothing.
LEMMA TakenBack ==
    /\ (\A j \in 1..Len(Downgrade(1)) : Downgrade(1)[j].what \notin schema) =>
         ToSet(Tables) \cap schema = {}
    /\ (\A j \in 1..Len(Downgrade(3)) : Downgrade(3)[j].what \notin schema) =>
         Provider \notin schema
  <1>1. ASSUME \A j \in 1..Len(Downgrade(1)) : Downgrade(1)[j].what \notin schema
        PROVE  ToSet(Tables) \cap schema = {}
    <2>2. ASSUME NEW j \in 1..12 PROVE Tables[j] \notin schema
      <3>1. 13 - j \in 1..12 /\ 13 - (13 - j) = j
        OBVIOUS
      <3>2. Downgrade(1)[13 - j] = Step("drop", Tables[13 - (13 - j)])
        BY <3>1, DowngradeSteps
      <3>3. Downgrade(1)[13 - j].what \notin schema
        BY <1>1, <3>1, DowngradeSteps
      <3>. QED  BY <3>1, <3>2, <3>3 DEF Step
    <2>. QED  BY <2>2, ObjectLists
  <1>2. ASSUME \A j \in 1..Len(Downgrade(3)) : Downgrade(3)[j].what \notin schema
        PROVE  Provider \notin schema
    BY <1>2, DowngradeSteps DEF Step
  <1>. QED  BY <1>1, <1>2

-----------------------------------------------------------------------------
(***************************************************************************)
(* The inductive invariant.  VersionIsTrue and NothingLeftOver say nothing *)
(* of a revision in progress; what the runs have done so far does.         *)
(***************************************************************************)

MigrationTypes == version \in 0..HeadRevision /\ run \in [Runs -> Run]

\* Nothing else works while a downgrade does.
Alone == \A q, r \in Runs : q # r /\ Downgrading(q) => ~ Working(r)

\* The steps an upgrade has gone through are done, and it is ahead of the version
\* by one revision at most.
UpRight(v) ==
    v.pc = "working" /\ v.mode = "up" =>
      /\ version + 1 >= v.at
      /\ \A j \in 1..Len(Upgrade(v.at)) : j < v.i => Done(Upgrade(v.at)[j])

\* What a downgrade has dropped is gone, and the version is the one it takes back.
DownRight(v) ==
    v.pc = "working" /\ v.mode = "down" =>
      /\ version = v.at
      /\ \A j \in 1..Len(Downgrade(v.at)) :
           j < v.i /\ Downgrade(v.at)[j].do = "drop" => Downgrade(v.at)[j].what \notin schema

RunsInv == \A r \in Runs : UpRight(run[r]) /\ DownRight(run[r])

IInv == MigrationTypes /\ Alone /\ RunsInv /\ VersionIsTrue /\ NothingLeftOver

LEMMA IInvInit == MigrationInit => IInv
  <1>. SUFFICES ASSUME MigrationInit PROVE IInv
    OBVIOUS
  <1>1. MigrationTypes
    BY DEF MigrationInit, MigrationTypes, NoRun, Run, Modes, Revisions, HeadRevision
  <1>2. Alone /\ RunsInv
    BY DEF MigrationInit, Alone, RunsInv, UpRight, DownRight, Downgrading, Working, NoRun
  <1>3. VersionIsTrue
    BY DEF MigrationInit, VersionIsTrue, Revisions, HeadRevision
  <1>4. NothingLeftOver
    BY DEF MigrationInit, NothingLeftOver
  <1>. QED  BY <1>1, <1>2, <1>3, <1>4 DEF IInv

LEMMA SetRunOK ==
    ASSUME MigrationTypes, NEW r \in Runs, NEW v \in Run, SetRun(r, v)
    PROVE  /\ run' \in [Runs -> Run]
           /\ run'[r] = v
           /\ \A q \in Runs : q # r => run'[q] = run[q]
  BY DEF MigrationTypes, SetRun

LEMMA NoRunIsIdle == NoRun \in Run /\ NoRun.pc = "idle"
  BY DEF NoRun, Run, Modes, Revisions, HeadRevision

LEMMA EndedRun ==
    ASSUME MigrationTypes, NEW r \in Runs, NEW pc \in {"ok", "failed"}
    PROVE  Ended(r, pc) \in Run /\ Ended(r, pc).pc = pc
  <1>1. run[r] \in Run
    BY DEF MigrationTypes
  <1>2. run[r].mode \in Modes
    BY <1>1 DEF Run
  <1>. QED  BY <1>2, NoRunIsIdle DEF Ended, Run

\* A step that only changes where run r stands.
LEMMA RunOnlyStep ==
    ASSUME IInv, NEW r \in Runs, NEW v \in Run, SetRun(r, v),
           UNCHANGED <<schema, tagType, tags, version>>,
           UpRight(v), DownRight(v),
           v.pc = "working" => \A q \in Runs \ {r} : ~ Downgrading(q),
           v.pc = "working" /\ v.mode = "down" => \A q \in Runs \ {r} : ~ Working(q),
           \A k \in Revisions : Undone(k) => Undone(k)',
           \A k \in Revisions : HalfDone(k) => HalfDone(k)' \/ version >= k
    PROVE  IInv'
  <1>1. /\ run' \in [Runs -> Run] /\ run'[r] = v
        /\ \A q \in Runs : q # r => run'[q] = run[q]
    BY SetRunOK DEF IInv
  <1>2. MigrationTypes'
    BY <1>1 DEF IInv, MigrationTypes
  <1>3. Alone'
    BY <1>1 DEF IInv, Alone, Downgrading, Working
  <1>4. RunsInv'
    BY <1>1 DEF IInv, RunsInv, UpRight, DownRight, Done
  <1>5. \A k \in Revisions : Whole(k)' = Whole(k)
    BY DEF Whole
  <1>6. VersionIsTrue'
    BY <1>5 DEF IInv, VersionIsTrue
  <1>7. 1 \in Revisions /\ 3 \in Revisions
    BY DEF Revisions, HeadRevision
  <1>8. NothingLeftOver'
    BY <1>7 DEF IInv, NothingLeftOver, MigrationTypes
  <1>. QED  BY <1>2, <1>3, <1>4, <1>6, <1>8 DEF IInv

\* A run that ends, or idles on, leaves in cut what it leaves half done.
LEMMA EndingStep ==
    ASSUME IInv, NEW r \in Runs, NEW v \in Run, SetRun(r, v), v.pc # "working",
           UNCHANGED <<schema, tagType, tags, version>>,
           cut \subseteq cut',
           Working(r) /\ run[r].i > 1 =>
             \/ <<run[r].mode, run[r].at>> \in cut'
             \/ run[r].mode = "up" /\ version >= run[r].at
    PROVE  IInv'
  <1>1. /\ run'[r] = v
        /\ \A q \in Runs : q # r => run'[q] = run[q]
    BY SetRunOK DEF IInv
  <1>2. ASSUME NEW k \in Revisions, Undone(k) PROVE Undone(k)'
    <2>1. CASE <<"down", k>> \in cut
      BY <2>1 DEF Undone
    <2>2. CASE \E q \in Runs : Downgrading(q) /\ run[q].at = k /\ run[q].i > 1
      <3>1. PICK q \in Runs : Downgrading(q) /\ run[q].at = k /\ run[q].i > 1
        BY <2>2
      <3>2. CASE q = r
        BY <3>1, <3>2 DEF Undone, Downgrading
      <3>3. CASE q # r
        BY <1>1, <3>1, <3>3 DEF Undone, Downgrading, Working
      <3>. QED  BY <3>2, <3>3
    <2>. QED  BY <1>2, <2>1, <2>2 DEF Undone
  <1>3. ASSUME NEW k \in Revisions, HalfDone(k) PROVE HalfDone(k)' \/ version >= k
    <2>1. CASE <<"up", k>> \in cut
      BY <2>1 DEF HalfDone
    <2>2. CASE \E q \in Runs : Upgrading(q) /\ run[q].at = k /\ run[q].i > 1
      <3>1. PICK q \in Runs : Upgrading(q) /\ run[q].at = k /\ run[q].i > 1
        BY <2>2
      <3>2. CASE q = r
        BY <3>1, <3>2 DEF HalfDone, Upgrading
      <3>3. CASE q # r
        BY <1>1, <3>1, <3>3 DEF HalfDone, Upgrading, Working
      <3>. QED  BY <3>2, <3>3
    <2>. QED  BY <1>3, <2>1, <2>2 DEF HalfDone
  <1>4. UpRight(v) /\ DownRight(v)
    BY DEF UpRight, DownRight
  <1>. QED  BY <1>2, <1>3, <1>4, RunOnlyStep

-----------------------------------------------------------------------------
(***************************************************************************)
(* The steps that leave the schema and the version alone.                  *)
(***************************************************************************)

LEMMA RunFacts ==
    ASSUME IInv, NEW r \in Runs
    PROVE  /\ run[r] \in Run
           /\ run[r].at \in Revisions /\ run[r].at \in 1..4
           /\ run[r].mode \in {"up", "down"}
           /\ run[r].goal \in 0..4
           /\ run[r].i \in Nat /\ run[r].i >= 1
           /\ version \in 0..4
           /\ UpRight(run[r]) /\ DownRight(run[r])
           /\ Working(r) <=> (Upgrading(r) \/ Downgrading(r))
           /\ ~ (Upgrading(r) /\ Downgrading(r))
  <1>1. run[r] \in Run
    BY DEF IInv, MigrationTypes
  <1>. QED  BY <1>1 DEF IInv, MigrationTypes, RunsInv, Run, Modes, Revisions, HeadRevision,
                        Upgrading, Downgrading

LEMMA StartUpgradeStep ==
    ASSUME IInv, NEW r \in Runs, StartUpgrade(r)
    PROVE  IInv'
  <1>1. run[r].pc = "idle" /\ \A q \in Runs : ~ Downgrading(q)
    BY DEF StartUpgrade
  <1>2. CASE version = HeadRevision
    <2>1. SetRun(r, [NoRun EXCEPT !.pc = "ok"])
      BY <1>2 DEF StartUpgrade
    <2>2. [NoRun EXCEPT !.pc = "ok"] \in Run /\ [NoRun EXCEPT !.pc = "ok"].pc # "working"
      BY NoRunIsIdle DEF Run
    <2>. QED  BY <1>1, <2>1, <2>2, EndingStep DEF StartUpgrade, Working
  <1>3. CASE version # HeadRevision
    <2>. DEFINE v == [NoRun EXCEPT !.pc = "working", !.at = version + 1]
    <2>1. SetRun(r, v)
      BY <1>3 DEF StartUpgrade
    <2>2. version + 1 \in Revisions
      BY <1>3, RunFacts DEF Revisions, HeadRevision
    <2>3. v \in Run
      BY <2>2, NoRunIsIdle DEF Run
    <2>8. v.pc = "working" /\ v.mode = "up" /\ v.at = version + 1 /\ v.i = 1
      BY DEF NoRun
    <2>4. UpRight(v) /\ DownRight(v)
      BY <2>2, <2>8, RunFacts, ScriptLengths DEF UpRight, DownRight
    <2>5. \A k \in Revisions : Undone(k) => Undone(k)'
      BY <1>1 DEF StartUpgrade, Undone
    <2>6. \A q \in Runs : q # r => run'[q] = run[q]
      BY <2>1, <2>3, SetRunOK DEF IInv
    <2>7. \A k \in Revisions : HalfDone(k) => HalfDone(k)'
      BY <1>1, <2>6 DEF StartUpgrade, HalfDone, Upgrading, Working
    <2>. HIDE DEF v
    <2>. QED  BY <1>1, <2>1, <2>3, <2>8, <2>4, <2>5, <2>7, RunOnlyStep DEF StartUpgrade
  <1>. QED  BY <1>2, <1>3

LEMMA StartDowngradeStep ==
    ASSUME IInv, NEW r \in Runs, StartDowngrade(r)
    PROVE  IInv'
  <1>1. \A q \in Runs : run[q].pc = "idle"
    BY DEF StartDowngrade
  <1>2. version \in Revisions
    BY RunFacts DEF StartDowngrade, Revisions, HeadRevision
  <1>3. PICK goal \in 0..(version - 1) :
          SetRun(r, [NoRun EXCEPT !.pc = "working", !.mode = "down",
                                  !.at = version, !.goal = goal])
    BY DEF StartDowngrade
  <1>. DEFINE v == [NoRun EXCEPT !.pc = "working", !.mode = "down", !.at = version, !.goal = goal]
  <1>4. goal \in 0..HeadRevision
    BY <1>2 DEF Revisions, HeadRevision
  <1>5. v \in Run
    BY <1>2, <1>4, NoRunIsIdle DEF Run, Modes
  <1>9. v.pc = "working" /\ v.mode = "down" /\ v.at = version /\ v.i = 1
    BY DEF NoRun
  <1>6. UpRight(v) /\ DownRight(v)
    BY <1>2, <1>9, ScriptLengths DEF UpRight, DownRight
  <1>7. SetRun(r, v) /\ UNCHANGED <<schema, tagType, tags, version>>
    BY <1>3 DEF StartDowngrade
  <1>8. \A k \in Revisions : (Undone(k) => Undone(k)') /\ (HalfDone(k) => HalfDone(k)')
    BY <1>1 DEF StartDowngrade, Undone, HalfDone, Upgrading, Downgrading, Working
  <1>. HIDE DEF v
  <1>. QED  BY <1>1, <1>5, <1>9, <1>6, <1>7, <1>8, RunOnlyStep DEF Downgrading, Working

\* The next step of the same revision, after one that is done.
LEMMA AdvanceOK ==
    ASSUME IInv, NEW r \in Runs, Upgrading(r), InScript(r), Done(Current(r))
    PROVE  LET v == [run[r] EXCEPT !.i = @ + 1, !.absent = FALSE] IN
           v \in Run /\ UpRight(v) /\ DownRight(v)
  <1>. DEFINE v == [run[r] EXCEPT !.i = @ + 1, !.absent = FALSE]
  <1>4. run[r].i + 1 \in Nat \ {0}
    BY RunFacts
  <1>1. /\ v \in Run
        /\ v.pc = run[r].pc /\ v.mode = "up" /\ v.at = run[r].at /\ v.i = run[r].i + 1
    BY <1>4, RunFacts DEF Run, Upgrading
  <1>2. Done(Upgrade(run[r].at)[run[r].i])
    BY DEF Current, Script, Upgrading
  <1>3. UpRight(v)
    BY <1>1, <1>2, RunFacts, ScriptLengths DEF UpRight
  <1>. QED  BY <1>1, <1>3 DEF DownRight

LEMMA InspectStep ==
    ASSUME IInv, NEW r \in Runs, Inspect(r)
    PROVE  IInv'
  <1>1. /\ InScript(r) /\ Current(r).do = "ensure"
        /\ UNCHANGED <<schema, tagType, tags, version, cut>>
    BY DEF Inspect
  <1>2. Upgrading(r)
    <2>1. run[r].i \in 1..Len(Script(r)) /\ Working(r)
      BY <1>1, RunFacts, ScriptLengths DEF InScript, Script
    <2>2. CASE run[r].mode = "down"
      BY <1>1, <2>1, <2>2, RunFacts, DowngradeScripts DEF Script, Current
    <2>. QED  BY <2>1, <2>2, RunFacts DEF Upgrading
  <1>3. ASSUME NEW v \in Run, SetRun(r, v), UpRight(v), DownRight(v),
               v.pc = run[r].pc, v.mode = run[r].mode, v.at = run[r].at, v.i >= run[r].i,
               v.i \in Nat
        PROVE  IInv'
    <2>1. run'[r] = v /\ \A q \in Runs : q # r => run'[q] = run[q]
      BY <1>3, SetRunOK DEF IInv
    <2>2. \A k \in Revisions : Undone(k) => Undone(k)'
      BY <1>1, <1>2, <2>1, RunFacts DEF Undone, Upgrading, Downgrading, Working
    <2>3. \A k \in Revisions : HalfDone(k) => HalfDone(k)'
      BY <1>1, <1>3, <2>1, RunFacts DEF HalfDone, Upgrading, Downgrading, Working
    <2>4. \A q \in Runs \ {r} : ~ Downgrading(q)
      BY <1>2 DEF IInv, Alone, Upgrading
    <2>5. v.mode # "down"
      BY <1>2, <1>3 DEF Upgrading
    <2>. QED  BY <1>1, <1>3, <2>2, <2>3, <2>4, <2>5, RunOnlyStep
  <1>4. CASE Present(Current(r).what)
    <2>1. Done(Current(r))
      BY <1>1, <1>4 DEF Present, Done
    <2>. DEFINE v == [run[r] EXCEPT !.i = @ + 1, !.absent = FALSE]
    <2>2. v \in Run /\ UpRight(v) /\ DownRight(v)
      BY <1>1, <1>2, <2>1, AdvanceOK
    <2>3. /\ v.pc = run[r].pc /\ v.mode = run[r].mode /\ v.at = run[r].at
          /\ v.i >= run[r].i /\ v.i \in Nat
      BY RunFacts DEF Run
    <2>4. SetRun(r, v)
      BY <1>4 DEF Inspect, Advance
    <2>. HIDE DEF v
    <2>. QED  BY <1>3, <2>2, <2>3, <2>4
  <1>5. CASE ~ Present(Current(r).what)
    <2>. DEFINE v == [run[r] EXCEPT !.absent = TRUE]
    <2>1. /\ v \in Run
          /\ v.pc = run[r].pc /\ v.mode = run[r].mode /\ v.at = run[r].at /\ v.i = run[r].i
      BY RunFacts DEF Run
    <2>2. UpRight(v) /\ DownRight(v)
      BY <2>1, RunFacts DEF UpRight, DownRight
    <2>3. SetRun(r, v)
      BY <1>5 DEF Inspect
    <2>. HIDE DEF v
    <2>. QED  BY <1>3, <2>1, <2>2, <2>3, RunFacts
  <1>. QED  BY <1>4, <1>5

LEMMA EndingSteps ==
    ASSUME IInv, NEW r \in Runs,
           Refused(r) \/ Interrupt(r) \/ RecordRefused(r) \/ Release(r)
    PROVE  IInv'
  <1>1. UNCHANGED <<schema, tagType, tags, version>>
    BY DEF Refused, Interrupt, RecordRefused, Release
  <1>2. Ended(r, "failed") \in Run /\ Ended(r, "failed").pc # "working"
    BY EndedRun DEF IInv
  <1>3. CASE Refused(r) \/ Interrupt(r)
    <2>1. SetRun(r, Ended(r, "failed")) /\ cut' = cut \cup LeftHalfDone(r)
      BY <1>3 DEF Refused, Interrupt
    <2>2. run[r].i > 1 => <<run[r].mode, run[r].at>> \in cut'
      BY <2>1 DEF LeftHalfDone
    <2>. QED  BY <1>1, <1>2, <2>1, <2>2, EndingStep
  <1>4. CASE RecordRefused(r)
    <2>1. SetRun(r, Ended(r, "failed")) /\ cut' = cut /\ version # From(r) /\ Working(r)
      BY <1>4 DEF RecordRefused, AllDone
    <2>2. Upgrading(r) /\ version >= run[r].at
      BY <2>1, RunFacts DEF From, UpRight, DownRight, Upgrading, Downgrading, Working
    <2>. QED  BY <1>1, <1>2, <2>1, <2>2, EndingStep DEF Upgrading
  <1>5. CASE Release(r)
    BY <1>1, <1>5, NoRunIsIdle, EndingStep DEF Release, Working
  <1>. QED  BY <1>3, <1>4, <1>5

-----------------------------------------------------------------------------
(***************************************************************************)
(* The steps that change the schema.                                       *)
(***************************************************************************)

\* What upgrades do to the schema never undoes a step.
Grows ==
    /\ schema \subseteq schema'
    /\ tagType # "names" => tagType' # "names"
    /\ tags # "names" => tags' # "names"

LEMMA DoneStays ==
    ASSUME Grows
    PROVE  /\ \A step : Done(step) => Done(step)'
           /\ \A k \in Revisions : Whole(k) => Whole(k)'
  BY DEF Grows, Done, Whole, Revisions, HeadRevision

\* A run that goes on in its direction and revision keeps what it has half done.
LEMMA HalvesStay ==
    ASSUME IInv, NEW r \in Runs, NEW v \in Run, SetRun(r, v), UNCHANGED cut,
           v.pc = run[r].pc, v.mode = run[r].mode, v.at = run[r].at, v.i >= run[r].i
    PROVE  \A k \in Revisions :
             (Undone(k) => Undone(k)') /\ (HalfDone(k) => HalfDone(k)')
  <1>1. run'[r] = v /\ \A q \in Runs : q # r => run'[q] = run[q]
    BY SetRunOK DEF IInv
  <1>2. v.i \in Nat /\ run[r].i \in Nat
    BY RunFacts DEF Run
  <1>3. \A q \in Runs :
          /\ Downgrading(q) /\ run[q].i > 1 => Downgrading(q)' /\ run'[q].i > 1
          /\ Upgrading(q) /\ run[q].i > 1 => Upgrading(q)' /\ run'[q].i > 1
          /\ run'[q].at = run[q].at
    BY <1>1, <1>2 DEF Upgrading, Downgrading, Working
  <1>. QED  BY <1>3 DEF Undone, HalfDone

LEMMA ExecuteUp ==
    ASSUME IInv, NEW r \in Runs, Execute(r), Upgrading(r)
    PROVE  IInv'
  <1>0. PICK k, step, i, v :
          /\ k = run[r].at /\ step = Current(r) /\ i = run[r].i
          /\ v = [run[r] EXCEPT !.i = @ + 1, !.absent = FALSE]
    OBVIOUS
  <1>1. /\ InScript(r) /\ SetRun(r, v) /\ UNCHANGED <<version, cut>>
    BY <1>0 DEF Execute, Advance
  <1>2. /\ k \in Revisions /\ i \in 1..Len(Upgrade(k)) /\ step = Upgrade(k)[i]
        /\ i \in Nat /\ i >= 1
    BY <1>0, <1>1, RunFacts, ScriptLengths DEF InScript, Script, Current, Upgrading
  <1>3. /\ step.do \in {"create", "ensure", "store"}
        /\ step.do = "store" => step.what \in {"text", "values"}
        /\ step.do = "create" => \/ k = 1 /\ step.what \in ToSet(Tables)
                                 \/ k = 3 /\ step.what = Provider
        /\ step.do = "ensure" => k = 4 /\ step.what \notin ToSet(Tables)
    BY <1>2, UpgradeScripts
  <1>4. /\ step.do \in {"create", "ensure"} =>
             /\ schema' = schema \cup {step.what}
             /\ tagType' = (IF step.what = "categories" THEN "values" ELSE tagType)
             /\ tags' = tags
        /\ step.do = "store" =>
             /\ schema' = schema
             /\ tagType' = step.what
             /\ tags' = (IF step.what = "text" \/ tags = "none" THEN tags ELSE step.what)
    BY <1>0, <1>3 DEF Execute
  <1>5. Grows
    BY <1>3, <1>4 DEF Grows
  <1>6. v.i = i + 1 /\ v.pc = "working" /\ v.mode = "up" /\ v.at = k /\ v \in Run
    <2>1. run[r].i + 1 \in Nat \ {0}
      BY <1>0, <1>2
    <2>. QED  BY <1>0, <2>1, RunFacts DEF Run, Upgrading, Working
  <1>7. /\ run' \in [Runs -> Run] /\ run'[r] = v
        /\ \A q \in Runs : q # r => run'[q] = run[q]
    BY <1>1, <1>6, SetRunOK DEF IInv
  <1>8. /\ \A q \in Revisions : Undone(q) => Undone(q)'
        /\ \A q \in Revisions : HalfDone(q) => HalfDone(q)'
    <2>1. v.i >= run[r].i /\ v.pc = run[r].pc /\ v.mode = run[r].mode /\ v.at = run[r].at
      BY <1>0, <1>2, <1>6 DEF Upgrading, Working
    <2>. QED  BY <1>1, <1>6, <2>1, HalvesStay
  <1>9. HalfDone(k)'
    <2>1. i + 1 > 1
      BY <1>2
    <2>. QED  BY <2>1, <1>6, <1>7 DEF HalfDone, Upgrading, Working
  <1>10. MigrationTypes'
    BY <1>1, <1>7 DEF IInv, MigrationTypes
  <1>11. Alone'
    <2>1. \A q \in Runs : q # r => ~ Downgrading(q)
      BY DEF IInv, Alone, Upgrading
    <2>. QED  BY <2>1, <1>6, <1>7 DEF Alone, Downgrading, Working
  <1>12. RunsInv'
    <2>1. Done(step)'
      BY <1>3, <1>4 DEF Done
    <2>2. ASSUME NEW j \in 1..Len(Upgrade(k)), j < i + 1 PROVE Done(Upgrade(k)[j])'
      <3>1. CASE j = i
        BY <1>2, <2>1, <3>1
      <3>2. CASE j < i
        <4>1. Done(Upgrade(k)[j])
          BY <1>0, <3>2, RunFacts DEF UpRight, Upgrading, Working
        <4>. QED  BY <1>5, <4>1, DoneStays
      <3>. QED  BY <1>2, <2>2, <3>1, <3>2, ScriptLengths
    <2>3. version + 1 >= k
      BY <1>0, RunFacts DEF UpRight, Upgrading, Working
    <2>4. UpRight(v)' /\ DownRight(v)'
      BY <1>1, <1>6, <2>2, <2>3 DEF UpRight, DownRight
    <2>5. ASSUME NEW q \in Runs, q # r PROVE UpRight(run[q])' /\ DownRight(run[q])'
      <3>1. run'[q] = run[q] /\ ~ Downgrading(q) /\ UpRight(run[q])
        BY <1>7, <2>5, RunFacts DEF IInv, Alone, Upgrading
      <3>2. PICK w : w = run[q]
        OBVIOUS
      <3>3. UpRight(w)'
        BY <1>1, <1>5, <3>1, <3>2, DoneStays DEF UpRight
      <3>4. DownRight(w)'
        BY <3>1, <3>2 DEF DownRight, Downgrading, Working
      <3>. QED  BY <3>1, <3>2, <3>3, <3>4
    <2>. QED  BY <1>7, <2>4, <2>5 DEF RunsInv
  <1>13. VersionIsTrue'
    BY <1>1, <1>5, <1>8, DoneStays DEF IInv, VersionIsTrue
  <1>14. NothingLeftOver'
    <2>1. ASSUME version < 1, ~ HalfDone(1)' PROVE ToSet(Tables) \cap schema' = {}
      <3>1. ~ HalfDone(1) /\ k # 1
        BY <1>8, <1>9, <2>1 DEF Revisions, HeadRevision
      <3>2. step.what \in ToSet(Tables) => ~ step.do \in {"create", "ensure"}
        BY <1>3, <3>1, ProviderIsNoTable
      <3>. QED  BY <1>3, <1>4, <2>1, <3>1, <3>2 DEF IInv, NothingLeftOver
    <2>2. ASSUME version < 3, ~ HalfDone(3)' PROVE Provider \notin schema'
      <3>1. ~ HalfDone(3) /\ k # 3
        BY <1>8, <1>9, <2>2 DEF Revisions, HeadRevision
      <3>2. k # 4
        BY <1>0, <2>2, RunFacts DEF UpRight, Upgrading, Working
      <3>. QED  BY <1>3, <1>4, <2>2, <3>1, <3>2, ProviderIsNoTable DEF IInv, NothingLeftOver
    <2>. QED  BY <1>1, <2>1, <2>2 DEF NothingLeftOver
  <1>. QED  BY <1>10, <1>11, <1>12, <1>13, <1>14 DEF IInv
LEMMA ExecuteDown ==
    ASSUME IInv, NEW r \in Runs, Execute(r), Downgrading(r)
    PROVE  IInv'
  <1>0. PICK k, step, i, v :
          /\ k = run[r].at /\ step = Current(r) /\ i = run[r].i
          /\ v = [run[r] EXCEPT !.i = @ + 1, !.absent = FALSE]
    OBVIOUS
  <1>1. /\ InScript(r) /\ SetRun(r, v) /\ UNCHANGED <<version, cut>>
    BY <1>0 DEF Execute, Advance
  <1>2. /\ k \in Revisions /\ i \in 1..Len(Downgrade(k)) /\ step = Downgrade(k)[i]
        /\ i \in Nat /\ i >= 1 /\ version = k
    BY <1>0, <1>1, RunFacts, ScriptLengths
       DEF InScript, Script, Current, Downgrading, Working, DownRight
  <1>3. \/ k = 1 /\ step.do = "drop" /\ step.what \in ToSet(Tables)
        \/ k = 2 /\ step.do = "store"
        \/ k = 3 /\ step.do = "drop" /\ step.what = Provider
    BY <1>2, DowngradeScripts
  <1>4. /\ step.do = "drop" =>
             /\ schema' = {o \in schema : o # step.what /\ Owner(o) # step.what}
             /\ step.what # "categories" => tagType' = tagType /\ tags' = tags
        /\ step.do = "store" => schema' = schema
    BY <1>0, <1>3 DEF Execute
  <1>5. schema' \subseteq schema
    BY <1>3, <1>4
  <1>6. v.i = i + 1 /\ v.pc = "working" /\ v.mode = "down" /\ v.at = k /\ v \in Run
    <2>1. run[r].i + 1 \in Nat \ {0}
      BY <1>0, <1>2
    <2>. QED  BY <1>0, <2>1, RunFacts DEF Run, Downgrading, Working
  <1>7. /\ run' \in [Runs -> Run] /\ run'[r] = v
        /\ \A q \in Runs : q # r => run'[q] = run[q] /\ ~ Working(q)
    BY <1>1, <1>6, SetRunOK DEF IInv, Alone
  <1>8. /\ \A q \in Revisions : Undone(q) => Undone(q)'
        /\ \A q \in Revisions : HalfDone(q) => HalfDone(q)'
    <2>1. v.i >= run[r].i /\ v.pc = run[r].pc /\ v.mode = run[r].mode /\ v.at = run[r].at
      BY <1>0, <1>2, <1>6 DEF Downgrading, Working
    <2>. QED  BY <1>1, <1>6, <2>1, HalvesStay
  <1>9. Undone(k)'
    <2>1. i + 1 > 1
      BY <1>2
    <2>. QED  BY <2>1, <1>6, <1>7 DEF Undone, Downgrading, Working
  <1>10. MigrationTypes'
    BY <1>1, <1>7 DEF IInv, MigrationTypes
  <1>11. Alone'
    BY <1>6, <1>7 DEF Alone, Downgrading, Working
  <1>12. RunsInv'
    <2>1. ASSUME NEW j \in 1..Len(Downgrade(k)), j < i + 1, Downgrade(k)[j].do = "drop"
          PROVE  Downgrade(k)[j].what \notin schema'
      <3>1. CASE j = i
        BY <1>2, <1>4, <2>1, <3>1
      <3>2. CASE j < i
        <4>1. Downgrade(k)[j].what \notin schema
          BY <1>0, <2>1, <3>2, RunFacts DEF DownRight, Downgrading, Working
        <4>. QED  BY <1>5, <4>1
      <3>. QED  BY <1>2, <2>1, <3>1, <3>2, ScriptLengths
    <2>2. UpRight(v)' /\ DownRight(v)'
      BY <1>1, <1>2, <1>6, <2>1 DEF UpRight, DownRight
    <2>3. ASSUME NEW q \in Runs, q # r PROVE UpRight(run[q])' /\ DownRight(run[q])'
      BY <1>7, <2>3 DEF UpRight, DownRight, Working
    <2>. QED  BY <1>7, <2>2, <2>3 DEF RunsInv
  <1>13. VersionIsTrue'
    <2>1. ASSUME NEW j \in Revisions, version >= j, ~ Undone(j)' PROVE Whole(j)'
      <3>1. Whole(j) /\ j < k
        <4>1. ~ Undone(j) /\ j # k
          BY <1>8, <1>9, <2>1
        <4>. QED  BY <1>2, <2>1, <4>1 DEF IInv, VersionIsTrue, Revisions, HeadRevision
      <3>2. CASE k = 1
        BY <3>1, <3>2 DEF Revisions, HeadRevision
      <3>3. CASE k = 2
        <4>1. j = 1
          BY <3>1, <3>3 DEF Revisions, HeadRevision
        <4>. QED  BY <1>3, <1>4, <3>1, <3>3, <4>1 DEF Whole
      <3>4. CASE k = 3
        <4>1. j = 1 \/ j = 2
          BY <3>1, <3>4 DEF Revisions, HeadRevision
        <4>2. Provider # "categories"
          BY DEF Provider
        <4>3. tagType' = tagType /\ tags' = tags
          BY <1>3, <1>4, <3>4, <4>2
        <4>4. ToSet(Tables) \subseteq schema => ToSet(Tables) \subseteq schema'
          BY <1>3, <1>4, <3>4, ProviderIsNoTable
        <4>5. CASE j = 1
          BY <3>1, <4>4, <4>5 DEF Whole
        <4>6. CASE j = 2
          BY <3>1, <4>3, <4>6 DEF Whole
        <4>. QED  BY <4>1, <4>5, <4>6
      <3>. QED  BY <1>3, <3>2, <3>3, <3>4
    <2>. QED  BY <1>1, <2>1 DEF VersionIsTrue
  <1>14. NothingLeftOver'
    <2>1. 1 \in Revisions /\ 3 \in Revisions
      BY DEF Revisions, HeadRevision
    <2>. QED  BY <1>1, <1>5, <1>8, <2>1 DEF IInv, NothingLeftOver
  <1>. QED  BY <1>10, <1>11, <1>12, <1>13, <1>14 DEF IInv

LEMMA StoreValuesStep ==
    ASSUME IInv, StoreValues
    PROVE  IInv'
  <1>1. /\ UNCHANGED <<schema, tagType, version, run, cut>>
        /\ tags' = "values"
    BY DEF StoreValues
  <1>2. Grows
    BY <1>1 DEF Grows
  <1>3. MigrationTypes' /\ Alone'
    BY <1>1 DEF IInv, MigrationTypes, Alone, Downgrading, Working
  <1>4. \A k \in Revisions : Undone(k)' = Undone(k) /\ HalfDone(k)' = HalfDone(k)
    BY <1>1 DEF Undone, HalfDone, Upgrading, Downgrading, Working
  <1>5. RunsInv'
    <2>1. ASSUME NEW q \in Runs PROVE UpRight(run[q])' /\ DownRight(run[q])'
      <3>1. PICK w : w = run[q]
        OBVIOUS
      <3>2. UpRight(w) /\ DownRight(w)
        BY <3>1, RunFacts
      <3>3. UpRight(w)' /\ DownRight(w)'
        BY <1>1, <1>2, <3>2, DoneStays DEF UpRight, DownRight
      <3>. QED  BY <1>1, <3>1, <3>3
    <2>. QED  BY <2>1 DEF RunsInv
  <1>6. VersionIsTrue'
    BY <1>1, <1>2, <1>4, DoneStays DEF IInv, VersionIsTrue
  <1>7. NothingLeftOver'
    <2>1. 1 \in Revisions /\ 3 \in Revisions
      BY DEF Revisions, HeadRevision
    <2>. QED  BY <1>1, <1>4, <2>1 DEF IInv, NothingLeftOver
  <1>. QED  BY <1>3, <1>5, <1>6, <1>7 DEF IInv
-----------------------------------------------------------------------------
(***************************************************************************)
(* The steps that write the version.                                       *)
(***************************************************************************)

LEMMA RecordUp ==
    ASSUME IInv, NEW r \in Runs, Record(r), Upgrading(r)
    PROVE  IInv'
  <1>0. PICK k, v : k = run[r].at /\ v = NextRevision(r)
    OBVIOUS
  <1>1. /\ k \in 1..4 /\ version = k - 1 /\ version' = k
        /\ SetRun(r, v) /\ UNCHANGED <<schema, tagType, tags, cut>>
        /\ run[r].i > Len(Upgrade(k))
    BY <1>0, RunFacts DEF Record, AllDone, From, To, Script, Upgrading
  <1>2. /\ v \in Run
        /\ v.pc = "working" => v.mode = "up" /\ v.at = k + 1 /\ v.i = 1
        /\ v.pc \in {"working", "ok"}
    <2>1. CASE k < 4
      <3>1. k + 1 \in Revisions /\ 1 \in Nat \ {0}
        BY <1>1, <2>1 DEF Revisions, HeadRevision
      <3>2. v = [run[r] EXCEPT !.at = @ + 1, !.i = 1]
        BY <1>0, <2>1 DEF NextRevision, Upgrading, HeadRevision
      <3>. QED  BY <1>0, <3>1, <3>2, RunFacts DEF Run, Upgrading, Working
    <2>2. CASE ~ k < 4
      <3>1. v = Ended(r, "ok")
        BY <1>0, <2>2 DEF NextRevision, Upgrading, HeadRevision
      <3>. QED  BY <3>1, EndedRun DEF IInv
    <2>. QED  BY <2>1, <2>2
  <1>3. /\ run' \in [Runs -> Run] /\ run'[r] = v
        /\ \A q \in Runs : q # r => run'[q] = run[q]
    BY <1>1, <1>2, SetRunOK DEF IInv
  <1>4. \A q \in Runs : ~ Downgrading(q)
    BY DEF IInv, Alone, Upgrading, Downgrading
  <1>5. MigrationTypes'
    BY <1>1, <1>3 DEF MigrationTypes, HeadRevision
  <1>6. Alone'
    BY <1>2, <1>3, <1>4 DEF Alone, Downgrading, Working
  <1>7. RunsInv'
    <2>1. UpRight(v)' /\ DownRight(v)'
      BY <1>1, <1>2, ScriptLengths DEF UpRight, DownRight, Revisions, HeadRevision
    <2>2. ASSUME NEW q \in Runs, q # r PROVE UpRight(run[q])' /\ DownRight(run[q])'
      <3>1. PICK w : w = run[q]
        OBVIOUS
      <3>2. UpRight(w) /\ w.at \in 1..4 /\ ~ (w.pc = "working" /\ w.mode = "down")
        BY <1>4, <3>1, RunFacts DEF Downgrading, Working
      <3>3. UpRight(w)' /\ DownRight(w)'
        BY <1>1, <3>2 DEF UpRight, DownRight, Done
      <3>. QED  BY <1>3, <2>2, <3>1, <3>3
    <2>. QED  BY <1>3, <2>1, <2>2 DEF RunsInv
  <1>8. \A q \in Revisions : Undone(q) => Undone(q)'
    BY <1>1, <1>4 DEF Undone
  <1>9. \A q \in Revisions : HalfDone(q) => HalfDone(q)' \/ q = k
    BY <1>0, <1>1, <1>3 DEF HalfDone, Upgrading, Working
  <1>10. VersionIsTrue'
    <2>1. Whole(k)
      <3>1. \A j \in 1..Len(Upgrade(k)) : Done(Upgrade(k)[j])
        BY <1>0, <1>1, RunFacts, ScriptLengths
           DEF UpRight, Upgrading, Working, Revisions, HeadRevision
      <3>. QED  BY <1>1, <3>1, DoneIsWhole DEF Revisions, HeadRevision
    <2>2. \A j \in Revisions : Whole(j)' = Whole(j)
      BY <1>1 DEF Whole
    <2>3. ASSUME NEW j \in Revisions, k >= j, ~ Undone(j)' PROVE Whole(j)
      BY <1>1, <1>8, <2>1, <2>3 DEF IInv, VersionIsTrue, Revisions, HeadRevision
    <2>. QED  BY <1>1, <2>2, <2>3 DEF VersionIsTrue
  <1>11. NothingLeftOver'
    BY <1>1, <1>9 DEF IInv, NothingLeftOver, Revisions, HeadRevision
  <1>. QED  BY <1>5, <1>6, <1>7, <1>10, <1>11 DEF IInv

LEMMA RecordDown ==
    ASSUME IInv, NEW r \in Runs, Record(r), Downgrading(r)
    PROVE  IInv'
  <1>0. PICK k, v : k = run[r].at /\ v = NextRevision(r)
    OBVIOUS
  <1>1. /\ k \in 1..4 /\ version = k /\ version' = k - 1
        /\ SetRun(r, v) /\ UNCHANGED <<schema, tagType, tags, cut>>
        /\ run[r].i > Len(Downgrade(k))
    BY <1>0, RunFacts DEF Record, AllDone, From, To, Script, Downgrading
  <1>2. /\ v \in Run
        /\ v.pc = "working" => v.mode = "down" /\ v.at = k - 1 /\ v.i = 1
        /\ v.pc \in {"working", "ok"}
    <2>1. CASE k - 1 > run[r].goal
      <3>1. k - 1 \in Revisions /\ 1 \in Nat \ {0}
        BY <1>1, <2>1, RunFacts DEF Revisions, HeadRevision
      <3>2. v = [run[r] EXCEPT !.at = @ - 1, !.i = 1]
        BY <1>0, <2>1 DEF NextRevision, Downgrading
      <3>. QED  BY <1>0, <3>1, <3>2, RunFacts DEF Run, Downgrading, Working
    <2>2. CASE ~ k - 1 > run[r].goal
      <3>1. v = Ended(r, "ok")
        BY <1>0, <2>2 DEF NextRevision, Downgrading
      <3>. QED  BY <3>1, EndedRun DEF IInv
    <2>. QED  BY <2>1, <2>2
  <1>3. /\ run' \in [Runs -> Run] /\ run'[r] = v
        /\ \A q \in Runs : q # r => run'[q] = run[q] /\ ~ Working(q)
    BY <1>1, <1>2, SetRunOK DEF IInv, Alone
  <1>5. MigrationTypes'
    BY <1>1, <1>3 DEF MigrationTypes, HeadRevision
  <1>6. Alone'
    BY <1>2, <1>3 DEF Alone, Downgrading, Working
  <1>7. RunsInv'
    <2>1. UpRight(v)' /\ DownRight(v)'
      <3>1. CASE v.pc = "working"
        <4>1. k - 1 \in Revisions
          BY <1>2, <3>1 DEF Run
        <4>. QED  BY <1>1, <1>2, <4>1, ScriptLengths DEF UpRight, DownRight
      <3>2. CASE v.pc # "working"
        BY <3>2 DEF UpRight, DownRight
      <3>. QED  BY <3>1, <3>2
    <2>2. ASSUME NEW q \in Runs, q # r PROVE UpRight(run[q])' /\ DownRight(run[q])'
      BY <1>3, <2>2 DEF UpRight, DownRight, Working
    <2>. QED  BY <1>3, <2>1, <2>2 DEF RunsInv
  <1>8. \A q \in Revisions : Undone(q) => Undone(q)' \/ q = k
    BY <1>0, <1>1, <1>3 DEF Undone, Downgrading, Working
  <1>9. \A q \in Revisions : HalfDone(q) => HalfDone(q)'
    BY <1>1, <1>3 DEF HalfDone, Upgrading, Downgrading, Working
  <1>10. VersionIsTrue'
    <2>2. \A j \in Revisions : Whole(j)' = Whole(j)
      BY <1>1 DEF Whole
    <2>3. ASSUME NEW j \in Revisions, k - 1 >= j, ~ Undone(j)' PROVE Whole(j)
      BY <1>1, <1>8, <2>3 DEF IInv, VersionIsTrue, Revisions, HeadRevision
    <2>. QED  BY <1>1, <2>2, <2>3 DEF VersionIsTrue
  <1>11. NothingLeftOver'
    <2>1. ASSUME k = 1 \/ k = 3, NEW j \in 1..Len(Downgrade(k))
          PROVE  Downgrade(k)[j].what \notin schema
      <3>1. Downgrade(k)[j].do = "drop"
        BY <1>1, <2>1, DowngradeScripts DEF Revisions, HeadRevision
      <3>. QED  BY <1>0, <1>1, <3>1, RunFacts, ScriptLengths
                DEF DownRight, Downgrading, Working, Revisions, HeadRevision
    <2>2. k = 1 => ToSet(Tables) \cap schema = {}
      BY <2>1, TakenBack
    <2>3. k = 3 => Provider \notin schema
      BY <2>1, TakenBack
    <2>. QED  BY <1>1, <1>9, <2>2, <2>3 DEF IInv, NothingLeftOver, Revisions, HeadRevision
  <1>. QED  BY <1>5, <1>6, <1>7, <1>10, <1>11 DEF IInv

-----------------------------------------------------------------------------
(***************************************************************************)
(* The theorems.                                                           *)
(***************************************************************************)

LEMMA IInvStep == IInv /\ [MigrationNext]_migrationVars => IInv'
  <1>. SUFFICES ASSUME IInv, [MigrationNext]_migrationVars PROVE IInv'
    OBVIOUS
  <1>1. CASE StoreValues
    BY <1>1, StoreValuesStep
  <1>2. ASSUME NEW r \in Runs, MigrationStep(r) PROVE IInv'
    <2>1. CASE StartUpgrade(r)
      BY <2>1, StartUpgradeStep
    <2>2. CASE StartDowngrade(r)
      BY <2>2, StartDowngradeStep
    <2>3. CASE Inspect(r)
      BY <2>3, InspectStep
    <2>4. CASE Execute(r)
      <3>1. Upgrading(r) \/ Downgrading(r)
        BY <2>4, RunFacts DEF Execute, InScript
      <3>. QED  BY <2>4, <3>1, ExecuteUp, ExecuteDown
    <2>5. CASE Record(r)
      <3>1. Upgrading(r) \/ Downgrading(r)
        BY <2>5, RunFacts DEF Record, AllDone
      <3>. QED  BY <2>5, <3>1, RecordUp, RecordDown
    <2>6. CASE Refused(r) \/ Interrupt(r) \/ RecordRefused(r) \/ Release(r)
      BY <2>6, EndingSteps
    <2>. QED  BY <1>2, <2>1, <2>2, <2>3, <2>4, <2>5, <2>6 DEF MigrationStep, Progress
  <1>3. CASE UNCHANGED migrationVars
    <2>1. UNCHANGED <<schema, tagType, tags, version, run, cut>>
      BY <1>3 DEF migrationVars
    <2>. QED  BY <2>1 DEF IInv, MigrationTypes, Alone, RunsInv, UpRight, DownRight, Done,
                  VersionIsTrue, NothingLeftOver, Undone, HalfDone, Whole, Upgrading,
                  Downgrading, Working
  <1>. QED  BY <1>1, <1>2, <1>3 DEF MigrationNext

LEMMA Invariance == MigrationSpec => []IInv
  BY IInvInit, IInvStep, PTL DEF MigrationSpec

\* However Alembic runs overlap, are refused or are cut short, the version recorded
\* by HeadMaintainer is never ahead of what the database holds.
THEOREM TheVersionIsTrue == MigrationSpec => []VersionIsTrue
  <1>1. IInv => VersionIsTrue
    BY DEF IInv
  <1>. QED  BY <1>1, Invariance, PTL

\* What 20260423_0001 and 20260424_0003 create is never there before them, nor after
\* they have been taken back: their next upgrade finds its way free.
THEOREM TheWayIsFree == MigrationSpec => []NothingLeftOver
  <1>1. IInv => NothingLeftOver
    BY DEF IInv
  <1>. QED  BY <1>1, Invariance, PTL

LEMMA AuditStep ==
    ASSUME IInv, MigrationNext, NEW o \in {"checkout_sessions", "payments"}, o \in schema
    PROVE  o \in schema'
  <1>1. CASE StoreValues
    BY <1>1 DEF StoreValues
  <1>2. ASSUME NEW r \in Runs, MigrationStep(r) PROVE o \in schema'
    <2>1. CASE Execute(r) /\ Current(r).do = "drop"
      <3>0. PICK k, step, i : k = run[r].at /\ step = Current(r) /\ i = run[r].i
        OBVIOUS
      <3>1. /\ k \in Revisions
            /\ \/ i \in 1..Len(Downgrade(k)) /\ step = Downgrade(k)[i]
               \/ i \in 1..Len(Upgrade(k)) /\ step = Upgrade(k)[i]
        BY <2>1, <3>0, RunFacts, ScriptLengths DEF Execute, InScript, Script, Current
      <3>2. step.what \in ToSet(Tables) \/ step.what = Provider
        BY <2>1, <3>0, <3>1, DowngradeScripts, UpgradeScripts
      <3>3. o \notin ToSet(Tables) /\ o # Provider /\ Owner(o) = o
        BY DEF Tables, ToSet, Provider, Owner
      <3>. QED  BY <2>1, <3>0, <3>2, <3>3 DEF Execute
    <2>2. CASE Execute(r) /\ Current(r).do # "drop"
      BY <2>2 DEF Execute
    <2>3. CASE ~ Execute(r)
      BY <1>2, <2>3 DEF MigrationStep, Progress, StartUpgrade, StartDowngrade, Inspect,
                        Refused, Record, RecordRefused, Interrupt, Release
    <2>. QED  BY <2>1, <2>2, <2>3
  <1>. QED  BY <1>1, <1>2 DEF MigrationNext

\* No run, upgrade or downgrade, ever drops the tables of the payments.
THEOREM TheAuditIsKept == MigrationSpec => AuditIsKept
  <1>1. IInv /\ [MigrationNext]_migrationVars =>
          [\A o \in {"checkout_sessions", "payments"} : o \in schema => o \in schema']_migrationVars
    BY AuditStep
  <1>. QED  BY <1>1, Invariance, PTL DEF MigrationSpec, AuditIsKept

-----------------------------------------------------------------------------
(***************************************************************************)
(* The first revision.  Runs may overlap in it, but one of them only gets  *)
(* beyond its first table: the second CREATE TABLE users is refused.       *)
(***************************************************************************)

InFirst(r) == Upgrading(r) /\ run[r].at = 1
Beyond(r) == InFirst(r) /\ run[r].i > 1

FirstRevision ==
    \A r \in Runs :
      /\ InFirst(r) /\ version >= 1 => "users" \in schema
      /\ Beyond(r) => version = 0 /\ \A q \in Runs : q # r => ~ Beyond(q)

\* No table, no rows; and none before the first revision is recorded.
TagsInv ==
    /\ "categories" \notin schema => tags = "none"
    /\ version = 0 => tags = "none"

LEMMA FirstTables ==
    /\ Tables[1] = "users" /\ Tables[2] = "categories" /\ Tables[4] = "addresses"
    /\ \A j \in 1..12 : Tables[j] = "addresses" => j = 4
    /\ \A j \in 1..12 : Tables[j] = "categories" => j = 2
    /\ \A o \in ToSet(Tables) : Owner(o) = o
    /\ Owner("categories") = "categories" /\ Owner("addresses") = "addresses"
    /\ Provider \notin {"categories", "addresses"}
    /\ \A j \in 1..5 : Audit[j] \notin {"categories", "addresses"}
  <1>1. \A o \in ToSet(Tables) : Owner(o) = o
    BY DEF Tables, ToSet, Provider, Owner
  <1>2. \A j \in 1..5 : Audit[j] \notin {"categories", "addresses"}
    BY DEF Audit, Provider
  <1>. QED  BY <1>1, <1>2 DEF Tables, Provider, Owner

\* A run beyond the first statement has created the first table.
LEMMA FirstDone ==
    ASSUME IInv, NEW r \in Runs, Upgrading(r), run[r].at = 1, run[r].i > 1
    PROVE  "users" \in schema
  <1>1. Len(Upgrade(1)) = 12 /\ Upgrade(1)[1] = Step("create", "users")
    BY UpgradeSteps, FirstTables
  <1>2. UpRight(run[r]) /\ run[r].i \in Nat
    BY RunFacts
  <1>3. \A j \in 1..Len(Upgrade(1)) : j < run[r].i => Done(Upgrade(1)[j])
    BY <1>2 DEF UpRight, Upgrading, Working
  <1>4. Done(Step("create", "users"))
    BY <1>1, <1>2, <1>3
  <1>. QED  BY <1>4 DEF Done, Step

\* A run that stays where it was in the first revision, or has just begun it.
LEMMA FirstStays ==
    ASSUME IInv, FirstRevision, NEW r \in Runs, NEW v \in Run, SetRun(r, v),
           UNCHANGED version, "users" \in schema => "users" \in schema',
           v.pc = "working" /\ v.mode = "up" /\ v.at = 1 =>
             \/ InFirst(r) /\ v.i = run[r].i
             \/ v.i = 1 /\ version = 0
    PROVE  FirstRevision'
  <1>1. run'[r] = v /\ \A q \in Runs : q # r => run'[q] = run[q]
    BY SetRunOK DEF IInv
  <1>2. ASSUME NEW q \in Runs
        PROVE  /\ InFirst(q)' => InFirst(q) \/ version = 0
               /\ Beyond(q)' => Beyond(q)
    BY <1>1 DEF InFirst, Beyond, Upgrading, Working
  <1>. QED  BY <1>2 DEF FirstRevision

LEMMA FirstAlone ==
    ASSUME IInv, NEW r \in Runs, NEW v \in Run, SetRun(r, v), Downgrading(r), v.mode = "down"
    PROVE  FirstRevision'
  <1>1. run'[r] = v /\ \A q \in Runs : q # r => run'[q] = run[q] /\ ~ Working(q)
    BY SetRunOK DEF IInv, Alone
  <1>2. \A q \in Runs : ~ InFirst(q)'
    BY <1>1 DEF InFirst, Upgrading, Working
  <1>. QED  BY <1>2 DEF FirstRevision, Beyond

\* What a statement does to the tables "categories" and "addresses" and to the tags.
LEMMA ExecuteEffects ==
    ASSUME IInv, FirstRevision, TagsInv, NEW r \in Runs, Execute(r)
    PROVE  /\ FirstRevision' /\ TagsInv'
           /\ "addresses" \notin schema /\ "addresses" \in schema' =>
                tags = "none" /\ tags' = "none"
           /\ \/ (tags' = "none") <=> (tags = "none")
              \/ /\ "categories" \in schema /\ "categories" \notin schema'
                 /\ "addresses" \notin schema' /\ tags' = "none"
  <1>0. PICK k, step, i, v :
          /\ k = run[r].at /\ step = Current(r) /\ i = run[r].i
          /\ v = [run[r] EXCEPT !.i = @ + 1, !.absent = FALSE]
    OBVIOUS
  <1>1. /\ InScript(r) /\ Possible(r) /\ SetRun(r, v) /\ UNCHANGED version
        /\ Upgrading(r) \/ Downgrading(r)
    BY <1>0, RunFacts DEF Execute, Advance, InScript
  <1>2. k \in Revisions /\ i \in Nat /\ i >= 1 /\ k \in 1..4 /\ version \in 0..4
    BY <1>0, RunFacts
  <1>3. v \in Run /\ v.i = i + 1 /\ v.pc = run[r].pc /\ v.mode = run[r].mode /\ v.at = k
    <2>1. run[r].i + 1 \in Nat \ {0}
      BY <1>0, <1>2
    <2>. QED  BY <1>0, <2>1, RunFacts DEF Run
  <1>4. run'[r] = v /\ \A q \in Runs : q # r => run'[q] = run[q]
    BY <1>1, <1>3, SetRunOK DEF IInv
  <1>5. CASE Upgrading(r)
    <2>1. /\ i \in 1..Len(Upgrade(k)) /\ step = Upgrade(k)[i]
      BY <1>0, <1>1, <1>2, <1>5, ScriptLengths DEF InScript, Script, Current, Upgrading
    <2>2. /\ step.do \in {"create", "ensure", "store"}
          /\ step.do = "create" => \/ k = 1 /\ step.what \in ToSet(Tables)
                                   \/ k = 3 /\ step.what = Provider
          /\ step.do = "ensure" => k = 4 /\ step.what \notin ToSet(Tables)
      BY <1>2, <2>1, UpgradeScripts
    <2>3. /\ step.do \in {"create", "ensure"} =>
               schema' = schema \cup {step.what} /\ step.what \notin schema /\ tags' = tags
          /\ step.do = "store" =>
               /\ schema' = schema /\ "categories" \in schema
               /\ (tags' = "none") <=> (tags = "none")
      <3>1. step.do = "store" => step.what \in {"text", "values"}
        BY <1>2, <2>1, UpgradeScripts
      <3>2. step.do \in {"create", "ensure"} => step.what \notin schema
        BY <1>0, <1>1 DEF Possible
      <3>3. step.do = "store" => "categories" \in schema
        BY <1>0, <1>1, <2>2 DEF Possible
      <3>. QED  BY <1>0, <2>2, <3>1, <3>2, <3>3 DEF Execute
    <2>4. k = 1 => step = Step("create", Tables[i]) /\ i \in 1..12
      BY <2>1, UpgradeSteps
    <2>5. \A q \in Runs : Beyond(q) => "users" \in schema
      <3>1. ASSUME NEW q \in Runs, Beyond(q) PROVE "users" \in schema
        <4>. QED  BY <3>1, FirstDone DEF Beyond, InFirst
      <3>. QED  BY <3>1
    <2>6. CASE k # 1
      <3>1. FirstRevision'
        BY <1>1, <1>3, <2>2, <2>3, <2>6, FirstStays
      <3>2. "addresses" \in schema' => "addresses" \in schema
        BY <2>2, <2>3, <2>6, FirstTables, ObjectLists
      <3>. QED  BY <1>1, <2>2, <2>3, <3>1, <3>2 DEF TagsInv
    <2>7. CASE k = 1
      <3>0. InFirst(r) /\ run[r].i = i
        BY <1>0, <1>5, <2>7 DEF InFirst
      <3>1. version = 0 /\ \A q \in Runs : q # r => ~ Beyond(q)
        <4>1. CASE i = 1
          <5>1. "users" \notin schema
            BY <2>3, <2>4, <2>7, <4>1, FirstTables DEF Step
          <5>2. ~ version >= 1
            BY <3>0, <5>1 DEF FirstRevision
          <5>. QED  BY <1>2, <2>5, <5>1, <5>2
        <4>2. CASE i # 1
          <5>1. Beyond(r)
            BY <1>2, <3>0, <4>2 DEF Beyond
          <5>. QED  BY <5>1 DEF FirstRevision
        <4>. QED  BY <4>1, <4>2
      <3>2. FirstRevision'
        <4>1. \A q \in Runs : q # r => ~ Beyond(q)'
          BY <1>4, <3>1 DEF Beyond, InFirst, Upgrading, Working
        <4>. QED  BY <1>1, <3>1, <4>1 DEF FirstRevision, Beyond
      <3>. QED  BY <1>1, <2>3, <2>4, <2>7, <3>1, <3>2 DEF TagsInv, Step
    <2>. QED  BY <2>6, <2>7
  <1>6. CASE Downgrading(r)
    <2>1. /\ i \in 1..Len(Downgrade(k)) /\ step = Downgrade(k)[i]
          /\ version = k
      BY <1>0, <1>1, <1>2, <1>6, RunFacts, ScriptLengths
         DEF InScript, Script, Current, Downgrading, Working, DownRight
    <2>2. \/ k = 1 /\ step.do = "drop" /\ step.what \in ToSet(Tables)
          \/ k = 2 /\ step.do = "store"
          \/ k = 3 /\ step.do = "drop" /\ step.what = Provider
      BY <1>2, <2>1, DowngradeScripts
    <2>3. /\ step.do = "drop" =>
               /\ schema' = {o \in schema : o # step.what /\ Owner(o) # step.what}
               /\ step.what \in schema
               /\ step.what # "categories" => tags' = tags
               /\ step.what = "categories" => tags' = "none"
      BY <1>0, <1>1 DEF Execute, Possible
    <2>4. step.do = "store" =>
               /\ schema' = schema /\ "categories" \in schema
               /\ (tags' = "none") <=> (tags = "none")
      <3>1. k = 2 => step.what # "none"
        <4>1. ASSUME k = 2 PROVE step.what # "none"
          <5>1. step = Step("store", "text") \/ step = Step("store", "names")
            <6>1. Len(Downgrade(2)) = 2 /\ i \in 1..Len(Downgrade(2)) /\ step = Downgrade(2)[i]
              BY <2>1, <4>1, DowngradeSteps
            <6>2. i = 1 \/ i = 2
              BY <6>1
            <6>. QED  BY <6>1, <6>2, DowngradeSteps
          <5>. QED  BY <5>1 DEF Step
        <4>. QED  BY <4>1
      <3>. QED  BY <1>0, <1>1, <2>2, <3>1 DEF Execute, Possible
    <2>5. FirstRevision'
      BY <1>1, <1>3, <1>6, FirstAlone DEF Downgrading
    <2>6. step.do = "drop" /\ step.what = "categories" => "addresses" \notin schema
      <3>1. SUFFICES ASSUME step.do = "drop", step.what = "categories"
                     PROVE  "addresses" \notin schema
        OBVIOUS
      <3>2. k = 1
        BY <2>2, <3>1, FirstTables
      <3>3. i = 11
        <4>1. i \in 1..12 /\ step = Step("drop", Tables[13 - i])
          BY <2>1, <3>2, DowngradeSteps
        <4>2. Tables[13 - i] = "categories" /\ 13 - i \in 1..12
          BY <3>1, <4>1 DEF Step
        <4>. QED  BY <4>1, <4>2, FirstTables
      <3>4. Len(Downgrade(1)) = 12 /\ Downgrade(1)[9] = Step("drop", "addresses")
        BY DowngradeSteps, FirstTables
      <3>5. DownRight(run[r])
        BY RunFacts
      <3>6. \A j \in 1..Len(Downgrade(1)) :
              j < 11 /\ Downgrade(1)[j].do = "drop" => Downgrade(1)[j].what \notin schema
        BY <1>0, <1>6, <3>2, <3>3, <3>5 DEF DownRight, Downgrading, Working
      <3>. QED  BY <3>4, <3>6 DEF Step
    <2>7. step.do = "drop" /\ step.what # "categories" =>
            ("categories" \in schema => "categories" \in schema')
      BY <2>3, FirstTables
    <2>8. schema' \subseteq schema
      BY <2>2, <2>3, <2>4
    <2>. QED  BY <1>1, <1>2, <2>1, <2>2, <2>3, <2>4, <2>5, <2>6, <2>7, <2>8 DEF TagsInv
  <1>. QED  BY <1>1, <1>5, <1>6

LEMMA RecordFirst ==
    ASSUME IInv, FirstRevision, TagsInv, NEW r \in Runs, Record(r)
    PROVE  FirstRevision' /\ TagsInv'
  <1>0. PICK k, v : k = run[r].at /\ v = NextRevision(r)
    OBVIOUS
  <1>1. /\ k \in 1..4 /\ SetRun(r, v) /\ UNCHANGED <<schema, tags>>
        /\ version = From(r) /\ version' = To(r) /\ run[r].i > Len(Script(r))
        /\ Upgrading(r) \/ Downgrading(r)
    BY <1>0, RunFacts DEF Record, AllDone
  <1>2. CASE Upgrading(r)
    <2>1. version = k - 1 /\ version' = k /\ run[r].i > Len(Upgrade(k))
      BY <1>0, <1>1, <1>2 DEF From, To, Upgrading, Script
    <2>2. run' = [run EXCEPT ![r] = v] /\ (v.pc = "working" => v.at # 1)
      <3>1. CASE k < 4
        <4>1. v = [run[r] EXCEPT !.at = @ + 1, !.i = 1]
          BY <1>0, <1>2, <3>1 DEF NextRevision, Upgrading, HeadRevision
        <4>. QED  BY <1>0, <1>1, <4>1, RunFacts DEF SetRun, Run
      <3>2. CASE ~ k < 4
        <4>1. v = Ended(r, "ok")
          BY <1>0, <1>2, <3>2 DEF NextRevision, Upgrading, HeadRevision
        <4>. QED  BY <1>1, <4>1, EndedRun DEF SetRun, IInv
      <3>. QED  BY <3>1, <3>2
    <2>3. \A q \in Runs : InFirst(q)' => InFirst(q) /\ q # r /\ run'[q] = run[q]
      BY <2>2 DEF InFirst, Upgrading, Working, IInv, MigrationTypes
    <2>4. k = 1 => Beyond(r) /\ "users" \in schema
      <3>1. SUFFICES ASSUME k = 1 PROVE Beyond(r) /\ "users" \in schema
        OBVIOUS
      <3>2. run[r].at = 1 /\ run[r].i > 1
        BY <1>0, <2>1, <3>1, RunFacts, UpgradeSteps
      <3>. QED  BY <1>2, <3>2, FirstDone DEF Beyond, InFirst
    <2>5. ASSUME NEW q \in Runs, InFirst(q)' PROVE ~ Beyond(q) /\ "users" \in schema
      <3>1. InFirst(q) /\ q # r
        BY <2>3, <2>5
      <3>2. CASE k = 1
        BY <2>4, <3>1, <3>2 DEF FirstRevision
      <3>3. CASE k # 1
        BY <1>1, <2>1, <3>1, <3>3 DEF FirstRevision
      <3>. QED  BY <3>2, <3>3
    <2>6. \A q \in Runs : Beyond(q)' => Beyond(q)
      BY <2>3 DEF Beyond
    <2>7. FirstRevision'
      BY <1>1, <2>5, <2>6 DEF FirstRevision, Beyond
    <2>8. TagsInv'
      BY <1>1, <2>1 DEF TagsInv
    <2>. QED  BY <2>7, <2>8
  <1>3. CASE Downgrading(r)
    <2>1. version = k /\ version' = k - 1 /\ run[r].i > Len(Downgrade(k))
      BY <1>0, <1>1, <1>3 DEF From, To, Downgrading, Script
    <2>2. v \in Run /\ v.mode = "down"
      <3>1. CASE k - 1 > run[r].goal
        <4>1. k - 1 \in Revisions /\ 1 \in Nat \ {0}
          BY <1>1, <3>1, RunFacts DEF Revisions, HeadRevision
        <4>2. v = [run[r] EXCEPT !.at = @ - 1, !.i = 1]
          BY <1>0, <1>3, <3>1 DEF NextRevision, Downgrading
        <4>. QED  BY <1>0, <1>3, <4>1, <4>2, RunFacts DEF Run, Downgrading
      <3>2. CASE ~ k - 1 > run[r].goal
        <4>1. v = Ended(r, "ok")
          BY <1>0, <1>3, <3>2 DEF NextRevision, Downgrading
        <4>2. Ended(r, "ok").mode = "down"
          BY <1>3, NoRunIsIdle DEF Ended, Downgrading, Run
        <4>. QED  BY <4>1, <4>2, EndedRun DEF IInv
      <3>. QED  BY <3>1, <3>2
    <2>3. FirstRevision'
      BY <1>1, <1>3, <2>2, FirstAlone
    <2>4. k = 1 => "categories" \notin schema
      <3>1. SUFFICES ASSUME k = 1 PROVE "categories" \notin schema
        OBVIOUS
      <3>2. Len(Downgrade(1)) = 12 /\ Downgrade(1)[11] = Step("drop", "categories")
        BY DowngradeSteps, FirstTables
      <3>3. DownRight(run[r]) /\ run[r].i \in Nat
        BY RunFacts
      <3>4. \A j \in 1..Len(Downgrade(1)) : j < run[r].i /\ Downgrade(1)[j].do = "drop" =>
              Downgrade(1)[j].what \notin schema
        BY <1>0, <1>3, <3>1, <3>3 DEF DownRight, Downgrading, Working
      <3>5. 11 \in 1..Len(Downgrade(1)) /\ 11 < run[r].i
        BY <2>1, <3>1, <3>2, <3>3
      <3>. QED  BY <3>2, <3>4, <3>5 DEF Step
    <2>5. TagsInv'
      BY <1>1, <2>1, <2>4 DEF TagsInv
    <2>. QED  BY <2>3, <2>5
  <1>. QED  BY <1>1, <1>2, <1>3

\* What a step of a run does to them.
LEMMA MigrationEffects ==
    ASSUME IInv, FirstRevision, TagsInv, NEW r \in Runs, MigrationStep(r)
    PROVE  /\ FirstRevision' /\ TagsInv'
           /\ "addresses" \notin schema /\ "addresses" \in schema' =>
                tags = "none" /\ tags' = "none"
           /\ \/ (tags' = "none") <=> (tags = "none")
              \/ /\ "categories" \in schema /\ "categories" \notin schema'
                 /\ "addresses" \notin schema' /\ tags' = "none"
  <1>1. CASE Execute(r)
    BY <1>1, ExecuteEffects
  <1>2. CASE Record(r)
    BY <1>2, RecordFirst DEF Record
  <1>3. CASE \/ StartUpgrade(r) \/ StartDowngrade(r) \/ Inspect(r) \/ Refused(r)
             \/ RecordRefused(r) \/ Interrupt(r) \/ Release(r)
    <2>1. UNCHANGED <<schema, tags, version>>
      BY <1>3 DEF StartUpgrade, StartDowngrade, Inspect, Refused, RecordRefused,
                  Interrupt, Release
    <2>2. PICK v \in Run :
            /\ SetRun(r, v)
            /\ v.pc = "working" /\ v.mode = "up" /\ v.at = 1 =>
                 \/ InFirst(r) /\ v.i = run[r].i
                 \/ v.i = 1 /\ version = 0
      <3>1. CASE StartUpgrade(r)
        <4>1. CASE version = HeadRevision
          <5>. DEFINE v == [NoRun EXCEPT !.pc = "ok"]
          <5>1. v \in Run /\ v.pc = "ok" /\ SetRun(r, v)
            BY <3>1, <4>1, NoRunIsIdle DEF StartUpgrade, Run
          <5>. HIDE DEF v
          <5>. QED  BY <5>1
        <4>2. CASE version # HeadRevision
          <5>. DEFINE v == [NoRun EXCEPT !.pc = "working", !.at = version + 1]
          <5>1. version + 1 \in Revisions /\ version \in Nat
            BY <4>2, RunFacts DEF Revisions, HeadRevision
          <5>2. v \in Run /\ v.at = version + 1 /\ v.i = 1 /\ SetRun(r, v)
            BY <3>1, <4>2, <5>1, NoRunIsIdle DEF StartUpgrade, Run, NoRun
          <5>. HIDE DEF v
          <5>. QED  BY <5>1, <5>2
        <4>. QED  BY <4>1, <4>2
      <3>2. CASE StartDowngrade(r)
        <4>1. PICK goal \in 0..(version - 1) :
                SetRun(r, [NoRun EXCEPT !.pc = "working", !.mode = "down",
                                        !.at = version, !.goal = goal])
          BY <3>2 DEF StartDowngrade
        <4>. DEFINE v == [NoRun EXCEPT !.pc = "working", !.mode = "down",
                                       !.at = version, !.goal = goal]
        <4>2. version \in Revisions /\ goal \in 0..HeadRevision
          BY <3>2, RunFacts DEF StartDowngrade, Revisions, HeadRevision
        <4>3. v \in Run /\ v.mode = "down"
          BY <4>2, NoRunIsIdle DEF Run, NoRun, Modes
        <4>4. SetRun(r, v)
          BY <4>1
        <4>. HIDE DEF v
        <4>. QED  BY <4>3, <4>4
      <3>3. CASE Inspect(r)
        <4>0. run[r] \in Run /\ run[r].i + 1 \in Nat \ {0} /\ Working(r)
          BY <3>3, RunFacts DEF Inspect, InScript
        <4>1. CASE Present(Current(r).what)
          <5>. DEFINE v == [run[r] EXCEPT !.i = @ + 1, !.absent = FALSE]
          <5>1. v \in Run /\ v.at = run[r].at /\ v.mode = run[r].mode
            BY <4>0 DEF Run
          <5>2. SetRun(r, v)
            BY <3>3, <4>1 DEF Inspect, Advance
          <5>3. run[r].mode = "up" => run[r].at # 1
            <6>1. SUFFICES ASSUME run[r].mode = "up", run[r].at = 1 PROVE FALSE
              OBVIOUS
            <6>2. /\ run[r].i \in 1..Len(Upgrade(1)) /\ Current(r) = Upgrade(1)[run[r].i]
                  /\ Current(r).do = "ensure"
              BY <3>3, <6>1, RunFacts, UpgradeSteps DEF Inspect, InScript, Script, Current
            <6>3. Current(r) = Step("create", Tables[run[r].i])
              BY <6>2, UpgradeSteps
            <6>4. Current(r).do = "create"
              BY <6>3 DEF Step
            <6>. QED  BY <6>2, <6>4
          <5>. HIDE DEF v
          <5>. QED  BY <5>1, <5>2, <5>3
        <4>2. CASE ~ Present(Current(r).what)
          <5>. DEFINE v == [run[r] EXCEPT !.absent = TRUE]
          <5>1. v \in Run /\ v.at = run[r].at /\ v.mode = run[r].mode /\ v.i = run[r].i
            BY <4>0 DEF Run
          <5>2. SetRun(r, v)
            BY <3>3, <4>2 DEF Inspect
          <5>. HIDE DEF v
          <5>. QED  BY <4>0, <5>1, <5>2 DEF InFirst, Upgrading
        <4>. QED  BY <4>1, <4>2
      <3>4. CASE Refused(r) \/ RecordRefused(r) \/ Interrupt(r)
        <4>1. SetRun(r, Ended(r, "failed"))
          BY <3>4 DEF Refused, RecordRefused, Interrupt
        <4>. QED  BY <4>1, EndedRun DEF IInv
      <3>5. CASE Release(r)
        BY <3>5, NoRunIsIdle DEF Release
      <3>. QED  BY <1>3, <3>1, <3>2, <3>3, <3>4, <3>5
    <2>3. FirstRevision'
      BY <2>1, <2>2, FirstStays
    <2>. QED  BY <2>1, <2>3 DEF TagsInv
  <1>. QED  BY <1>1, <1>2, <1>3 DEF MigrationStep, Progress

LEMMA FirstInvariance == MigrationSpec => [](FirstRevision /\ TagsInv)
  <1>1. MigrationInit => FirstRevision /\ TagsInv
    BY DEF MigrationInit, FirstRevision, InFirst, Beyond, Upgrading, Working, NoRun, TagsInv
  <1>2. IInv /\ FirstRevision /\ TagsInv /\ [MigrationNext]_migrationVars =>
          FirstRevision' /\ TagsInv'
    <2>. SUFFICES ASSUME IInv, FirstRevision, TagsInv, [MigrationNext]_migrationVars
                  PROVE  FirstRevision' /\ TagsInv'
      OBVIOUS
    <2>1. CASE StoreValues
      BY <2>1 DEF StoreValues, FirstRevision, TagsInv, InFirst, Beyond, Upgrading, Working,
                  HeadRevision
    <2>2. ASSUME NEW r \in Runs, MigrationStep(r) PROVE FirstRevision' /\ TagsInv'
      BY <2>2, MigrationEffects
    <2>3. CASE UNCHANGED migrationVars
      BY <2>3 DEF migrationVars, FirstRevision, TagsInv, InFirst, Beyond, Upgrading, Working
    <2>. QED  BY <2>1, <2>2, <2>3 DEF MigrationNext
  <1>. QED  BY <1>1, <1>2, Invariance, PTL DEF MigrationSpec

-----------------------------------------------------------------------------
(***************************************************************************)
(* The types of the other variables.                                       *)
(***************************************************************************)

SchemaTypes ==
    /\ schema \subseteq ToSet(Tables) \cup ToSet(Audit)
    /\ tagType \in {"none", "values", "names", "text"}
    /\ tags \in {"none", "values", "names"}
CountTypes ==
    /\ cut \subseteq Modes \X Revisions
    /\ interrupts \in 0..MaxInterrupts
    /\ downgrades \in 0..MaxDowngrades

LEMMA ExecuteTypes ==
    ASSUME IInv, SchemaTypes, NEW r \in Runs, Execute(r)
    PROVE  SchemaTypes'
  <1>0. PICK k, step, i : k = run[r].at /\ step = Current(r) /\ i = run[r].i
    OBVIOUS
  <1>1. k \in 1..4 /\ k \in Revisions /\ i \in Nat /\ i >= 1
    BY <1>0, RunFacts
  <1>2. \/ step.do \in {"create", "ensure"} /\ step.what \in ToSet(Tables) \cup ToSet(Audit)
        \/ step.do = "drop"
        \/ step.do = "store" /\ step.what \in {"text", "values", "names"}
    <2>1. CASE run[r].mode = "up"
      <3>1. i \in 1..Len(Upgrade(k)) /\ step = Upgrade(k)[i]
        BY <1>0, <1>1, <2>1, ScriptLengths DEF Execute, InScript, Script, Current
      <3>2. CASE k = 1
        <4>1. i \in 1..12 /\ step = Step("create", Tables[i])
          BY <3>1, <3>2, UpgradeSteps
        <4>. QED  BY <4>1, ObjectLists DEF Step
      <3>3. CASE k = 2
        <4>1. (i = 1 \/ i = 2) /\ step = Upgrade(2)[i]
          BY <1>1, <3>1, <3>3, UpgradeSteps
        <4>. QED  BY <4>1, UpgradeSteps DEF Step
      <3>4. CASE k = 3
        <4>1. step = Step("create", Provider)
          <5>1. i = 1 /\ step = Upgrade(3)[i]
            BY <1>1, <3>1, <3>4, UpgradeSteps
          <5>. QED  BY <5>1, UpgradeSteps
        <4>2. Provider \in ToSet(Audit)
          BY DEF Audit, ToSet
        <4>. QED  BY <4>1, <4>2 DEF Step
      <3>5. CASE k = 4
        <4>1. i \in 1..5 /\ step = Step("ensure", Audit[i])
          BY <3>1, <3>5, UpgradeSteps
        <4>. QED  BY <4>1, ObjectLists DEF Step
      <3>. QED  BY <1>1, <3>2, <3>3, <3>4, <3>5
    <2>2. CASE run[r].mode = "down"
      <3>1. i \in 1..Len(Downgrade(k)) /\ step = Downgrade(k)[i]
        BY <1>0, <1>1, <2>2, ScriptLengths DEF Execute, InScript, Script, Current
      <3>2. CASE k = 2
        <4>1. (i = 1 \/ i = 2) /\ step = Downgrade(2)[i]
          BY <1>1, <3>1, <3>2, DowngradeSteps
        <4>. QED  BY <4>1, DowngradeSteps DEF Step
      <3>. QED  BY <1>1, <3>1, <3>2, DowngradeScripts
    <2>. QED  BY <2>1, <2>2, RunFacts
  <1>3. CASE step.do \in {"create", "ensure"}
    BY <1>0, <1>2, <1>3 DEF Execute, SchemaTypes
  <1>4. CASE step.do = "drop"
    BY <1>0, <1>4 DEF Execute, SchemaTypes
  <1>5. CASE step.do = "store"
    BY <1>0, <1>2, <1>5 DEF Execute, SchemaTypes
  <1>. QED  BY <1>2, <1>3, <1>4, <1>5

LEMMA TypesStep == IInv /\ SchemaTypes /\ CountTypes /\ [MigrationNext]_migrationVars =>
                     SchemaTypes' /\ CountTypes'
  <1>. SUFFICES ASSUME IInv, SchemaTypes, CountTypes, [MigrationNext]_migrationVars
                PROVE  SchemaTypes' /\ CountTypes'
    OBVIOUS
  <1>1. ASSUME NEW r \in Runs, MigrationStep(r) PROVE SchemaTypes' /\ CountTypes'
    <2>0. LeftHalfDone(r) \subseteq Modes \X Revisions
      BY RunFacts DEF LeftHalfDone, Modes
    <2>1. CASE Execute(r)
      BY <2>1, ExecuteTypes DEF Execute, CountTypes
    <2>2. CASE Refused(r) \/ Interrupt(r)
      BY <2>0, <2>2, BoundsAssumption DEF Refused, Interrupt, SchemaTypes, CountTypes
    <2>3. CASE StartDowngrade(r)
      <3>1. /\ UNCHANGED <<schema, tagType, tags, cut, interrupts>>
            /\ downgrades < MaxDowngrades /\ downgrades' = downgrades + 1
        BY <2>3 DEF StartDowngrade
      <3>. QED  BY <3>1, BoundsAssumption DEF SchemaTypes, CountTypes
    <2>4. CASE \/ StartUpgrade(r) \/ Inspect(r) \/ Record(r)
               \/ RecordRefused(r) \/ Release(r)
      <3>1. UNCHANGED <<schema, tagType, tags, cut, interrupts, downgrades>>
        BY <2>4 DEF StartUpgrade, Inspect, Record, RecordRefused, Release
      <3>. QED  BY <3>1 DEF SchemaTypes, CountTypes
    <2>. QED  BY <1>1, <2>1, <2>2, <2>3, <2>4 DEF MigrationStep, Progress
  <1>2. CASE StoreValues
    BY <1>2 DEF StoreValues, SchemaTypes, CountTypes
  <1>3. CASE UNCHANGED migrationVars
    BY <1>3 DEF migrationVars, SchemaTypes, CountTypes
  <1>. QED  BY <1>1, <1>2, <1>3 DEF MigrationNext

LEMMA TypesInvariance == MigrationSpec => [](SchemaTypes /\ CountTypes)
  <1>1. MigrationInit => SchemaTypes /\ CountTypes
    BY BoundsAssumption DEF MigrationInit, SchemaTypes, CountTypes
  <1>. QED  BY <1>1, TypesStep, Invariance, PTL DEF MigrationSpec

=============================================================================
