------------------------------ MODULE Bootstrap ------------------------------
(***************************************************************************)
(* What is stored about people: registrations, profiles, addresses, the    *)
(* points of an account, and the demo data that POST /internal/bootstrap   *)
(* and scripts/seed_dev.py put there after the migrations.                 *)
(*                                                                         *)
(* The database is MySQL/InnoDB at REPEATABLE READ.  A transaction reads   *)
(* the snapshot of its first SELECT and writes to the rows last committed. *)
(* The seed begins with UPDATEs of users without an index, which lock all  *)
(* of its rows and gaps: a registration and a second seed wait for it, and *)
(* so does the INSERT of an address, which needs the row of its user.  But *)
(* the bootstrap has counted the demo rows before: its snapshot is older   *)
(* than its locks.                                                         *)
(***************************************************************************)
EXTENDS Migrations, FiniteSets

CONSTANTS
    Clients,      \* people, or operators who run the seed script
    Emails,       \* e-mails, equal when they differ only in upper and lower case
    Demo,         \* DEMO_USER_EMAIL
    MaxAddresses, \* bound: addresses.id
    MaxPoints,    \* bound: points that orders credit to an account
    NoOne         \* no account

ASSUME DemoAssumption == Demo \in Emails /\ NoOne \notin Emails \cup Clients \cup {"demo"}
ASSUME PartiesAssumption == Runs \cap Clients = {} /\ "demo" \notin Clients
ASSUME MaximaAssumption == MaxAddresses \in Nat /\ MaxPoints \in Nat

VARIABLES
    users,   \* table users: e-mail -> row
    addrs,   \* table addresses: id -> row
    tx,      \* run or client -> its transaction
    earned,  \* e-mail -> points credited by orders so far
    creator, \* e-mail -> those who were told that they created the account
    touched  \* whether the demo user has changed its demo addresses

people == <<users, addrs, earned, creator, touched>>
vars == <<migrationVars, people, tx>>

Parties == Runs \cup Clients
Ids == 1..MaxAddresses

(***************************************************************************)
(* Rows.  secret is whose password the account has, NoOne when there is no *)
(* such row; names, phone and role are left out.  An address has an owner, *)
(* NoOne before it is inserted; home tells the label "Casa Demo", which    *)
(* matters for the demo user only.                                         *)
(***************************************************************************)
Account == [secret : Clients \cup {"demo", NoOne}, points : Nat]
Address == [owner : Emails \cup {NoOne, "deleted"}, home : BOOLEAN, default : BOOLEAN]

NoAccount == [secret |-> NoOne, points |-> 0]
NoAddress == [owner |-> NoOne, home |-> FALSE, default |-> FALSE]
Deleted == [NoAddress EXCEPT !.owner = "deleted"]

Nobody == [e \in Emails |-> NoAccount]
Nowhere == [a \in Ids |-> NoAddress]

Exists(e) == users[e].secret # NoOne

\* The addresses "Casa Demo" of the demo user.
Homes == {a \in Ids : addrs[a].owner = Demo /\ addrs[a].home}

(***************************************************************************)
(* What a transaction that starts now sees of account e and of the demo    *)
(* data: whether the catalog and the account are there, its points, the    *)
(* demo addresses, and which of them are the default.                      *)
(***************************************************************************)
View(e) == [seeded |-> tags # "none", known |-> Exists(e), points |-> users[e].points,
            homes |-> Homes, defaults |-> {a \in Homes : addrs[a].default}]
NoView == [seeded |-> FALSE, known |-> FALSE, points |-> 0, homes |-> {}, defaults |-> {}]

(***************************************************************************)
(* A transaction: what it is for (job), where it stands (pc), the account  *)
(* it is about, the address it inserts, and what it has seen.              *)
(***************************************************************************)
Jobs == {"none", "bootstrap", "script", "register", "address", "profile"}

Transaction ==
    [job : Jobs, pc : {"idle", "lock", "write", "insert", "clear", "commit", "update"},
     who : Emails \cup {NoOne}, a : Ids \cup {0}, home : BOOLEAN,
     snap : [seeded : BOOLEAN, known : BOOLEAN, points : Nat,
             homes : SUBSET Ids, defaults : SUBSET Ids]]

Idle == [job |-> "none", pc |-> "idle", who |-> NoOne, a |-> 0, home |-> FALSE,
         snap |-> NoView]

SetTx(w, t) == tx' = [tx EXCEPT ![w] = t]
Goes(w, pc) == SetTx(w, [tx[w] EXCEPT !.pc = pc])

\* Locks that the other transactions hold on rows of users.
AllUsersFree(w) == \A v \in Parties \ {w} : tx[v].pc # "write"
UserFree(w, e) == \A v \in Parties \ {w} : tx[v].who = e => tx[v].pc \notin {"clear", "commit"}

\* Requests are answered when all tables are there.
Serving == version = HeadRevision /\ ToSet(Tables) \subseteq schema

\* AUTO_INCREMENT: the next id of addresses.
Fresh(a) ==
    /\ addrs[a].owner = NoOne /\ \A w \in Parties : tx[w].a # a
    /\ \A b \in 1..(a - 1) : addrs[b].owner # NoOne \/ \E w \in Parties : tx[w].a = b

\* Bound: every transaction in progress finds an id.
Room == Cardinality({w \in Parties : tx[w].job \in {"bootstrap", "script", "address"}})
          < Cardinality({a \in Ids : addrs[a].owner = NoOne})

Init ==
    /\ MigrationInit
    /\ users = Nobody
    /\ addrs = Nowhere
    /\ tx = [w \in Parties |-> Idle]
    /\ earned = [e \in Emails |-> 0]
    /\ creator = [e \in Emails |-> {}]
    /\ touched = FALSE

-----------------------------------------------------------------------------
(***************************************************************************)
(* Migrations.  A table that is dropped takes its rows with it.            *)
(***************************************************************************)

\* No downgrade is started while requests are being answered.
Quiet == \A w \in Parties : tx[w].pc = "idle"

\* The tables, of those with rows here, that wait for a transaction to end because
\* it has used them.  A seed has used orders and products too, which a downgrade
\* drops before addresses.
Used(w) ==
    CASE tx[w].pc = "idle" -> {}
      [] tx[w].pc = "write" \/ tx[w].job = "bootstrap" -> {"users", "categories", "addresses"}
      [] tx[w].job = "address" -> {"users", "addresses"}
      [] OTHER -> {"users"}

\* DROP TABLE and ALTER TABLE wait for the transactions that have used the table
\* (metadata locks).
Migrate(r) ==
    /\ MigrationStep(r)
    /\ downgrades' > downgrades => Quiet
    /\ \A w \in Parties :
         /\ Used(w) \cap (schema \ schema') = {}
         /\ "categories" \in Used(w) => tagType' = tagType
    /\ LET kept(table, rows, none) == IF table \in schema' THEN rows ELSE none IN
       /\ users' = kept("users", users, Nobody)
       /\ addrs' = kept("addresses", addrs, Nowhere)
       /\ earned' = kept("users", earned, [e \in Emails |-> 0])
       /\ creator' = kept("users", creator, [e \in Emails |-> {}])
       /\ touched' = kept("addresses", touched, FALSE)
    /\ UNCHANGED tx

-----------------------------------------------------------------------------
(***************************************************************************)
(* The seed.                                                               *)
(***************************************************************************)

\* Mutant: the seed does not wait for the upgrade.
UpgradedSoon(r) == run[r].pc \in {"ok", "working"} /\ run[r].mode = "up"

Upgraded(r) == run[r].pc = "ok" /\ run[r].mode = "up"

\* POST /internal/bootstrap after its upgrade: _seed_snapshot takes the snapshot.
BeginBootstrap(r) ==
    /\ Upgraded(r)
    /\ tx[r].pc = "idle"
    /\ Room
    /\ SetTx(r, [Idle EXCEPT !.job = "bootstrap", !.pc = "lock", !.snap = View(Demo)])
    /\ SetRun(r, NoRun)
    /\ UNCHANGED <<schema, tagType, tags, version, cut, interrupts, downgrades, people>>

\* scripts/seed_dev.py: no SELECT before the first UPDATE.
BeginScript(c) ==
    /\ tx[c].pc = "idle"
    /\ Serving
    /\ Room
    /\ SetTx(c, [Idle EXCEPT !.job = "script", !.pc = "lock"])
    /\ UNCHANGED <<migrationVars, people>>

LockFree(w) ==
    AllUsersFree(w) /\ \A v \in Parties \ {w} : tx[v].pc \notin {"clear", "commit"}

\* _normalize_enum_storage, and for the script the first SELECT after it.
LockUsers(w) ==
    /\ tx[w].pc = "lock"
    /\ LockFree(w)
    /\ SetTx(w, [tx[w] EXCEPT !.pc = "write",
                              !.snap = IF tx[w].job = "script" THEN View(Demo) ELSE @])
    /\ UNCHANGED <<migrationVars, people>>

\* Mutant: the slug of a category is not unique.
CatalogInsertsAlways(snap) == TRUE

\* The categories, products and coupon that the snapshot lacks can be inserted:
\* slug, sku and code are unique.
CatalogInserts(snap) == snap.seeded \/ tags = "none"

\* The same for users.email.
DemoUserInserts(snap) == snap.known \/ ~Exists(Demo)

\* scalar_one_or_none finds at most one demo address, and if it is to be updated
\* it is still there.
DemoAddressUpdates(snap) ==
    /\ Cardinality(snap.homes) <= 1
    /\ \A a \in snap.homes \ snap.defaults : addrs[a].owner = Demo

SeedPossible(w) ==
    LET snap == tx[w].snap IN
    /\ Serving /\ tagType # "names"
    /\ CatalogInserts(snap) /\ DemoUserInserts(snap) /\ DemoAddressUpdates(snap)

\* _ensure_demo_user: a new row, or the columns that differ from the object loaded.
DemoUser(snap) == [users[Demo] EXCEPT !.secret = "demo"]

\* _ensure_demo_address: an address inserted as default, or is_default set again
\* where the object loaded has lost it.
DemoAddresses(snap) ==
    IF snap.homes = {}
    THEN {[addrs EXCEPT ![a] = [owner |-> Demo, home |-> TRUE, default |-> TRUE]] :
            a \in {b \in Ids : Fresh(b)}}
    ELSE {[a \in Ids |-> IF a \in snap.homes \ snap.defaults
                         THEN [addrs[a] EXCEPT !.default = TRUE] ELSE addrs[a]]}

\* Mutant: the answer compares the demo account before with the end of the run.
CreatedDemoAlways(snap) == TRUE

\* created.demo_user in the answer of a bootstrap.
CreatedDemo(snap) == ~snap.known

\* The rest of seed_dev_data, the second _seed_snapshot and the commit.
SeedCommit(w) ==
    /\ tx[w].pc = "write"
    /\ SeedPossible(w)
    /\ StoreValues
    /\ users' = [users EXCEPT ![Demo] = DemoUser(tx[w].snap)]
    /\ addrs' \in DemoAddresses(tx[w].snap)
    /\ creator' = IF tx[w].job = "bootstrap" /\ CreatedDemo(tx[w].snap)
                  THEN [creator EXCEPT ![Demo] = @ \cup {w}] ELSE creator
    /\ SetTx(w, Idle)
    /\ UNCHANGED <<earned, touched>>

\* IntegrityError, MultipleResultsFound or StaleDataError: all is rolled back.
SeedRefused(w) ==
    /\ tx[w].pc = "write"
    /\ ~SeedPossible(w)
    /\ SetTx(w, Idle)
    /\ UNCHANGED <<migrationVars, people>>

-----------------------------------------------------------------------------
(***************************************************************************)
(* Accounts.                                                               *)
(***************************************************************************)

\* RegisterUserUseCase: the look-up finds nobody.
BeginRegister(c, e) ==
    /\ tx[c].pc = "idle"
    /\ Serving
    /\ ~Exists(e)
    /\ SetTx(c, [Idle EXCEPT !.job = "register", !.pc = "insert", !.who = e])
    /\ UNCHANGED <<migrationVars, people>>

\* Mutant: the INSERT does not wait for another one of the same e-mail.
EmailFreeAlways(c) == TRUE

EmailFree(c) == UserFree(c, tx[c].who)

\* INSERT of the account, flushed and not committed.
InsertUser(c) ==
    /\ tx[c].pc = "insert"
    /\ AllUsersFree(c)
    /\ EmailFree(c)
    /\ IF Exists(tx[c].who) THEN SetTx(c, Idle) ELSE Goes(c, "commit")
    /\ UNCHANGED <<migrationVars, people>>

NewAccount(c) == [NoAccount EXCEPT !.secret = c]

\* The commit, after which the client is told.
CommitUser(c) ==
    /\ tx[c].job = "register" /\ tx[c].pc = "commit"
    /\ LET e == tx[c].who IN
       /\ users' = [users EXCEPT ![e] = NewAccount(c)]
       /\ creator' = [creator EXCEPT ![e] = @ \cup {c}]
    /\ SetTx(c, Idle)
    /\ UNCHANGED <<migrationVars, addrs, earned, touched>>

\* PATCH /users/me: get_current_user reads the row.
BeginProfile(c, e) ==
    /\ tx[c].pc = "idle"
    /\ Serving
    /\ Exists(e)
    /\ SetTx(c, [Idle EXCEPT !.job = "profile", !.pc = "update", !.who = e,
                             !.snap = [NoView EXCEPT !.points = users[e].points]])
    /\ UNCHANGED <<migrationVars, people>>

\* Mutant: the whole row is written back as it was read.
ProfileWhole(row, seen) == [row EXCEPT !.points = seen.points]

\* SQLUserRepository.update: the names and the phone, and nothing else.
Profile(row, seen) == row

UpdateProfile(c) ==
    /\ tx[c].pc = "update"
    /\ AllUsersFree(c)
    /\ UserFree(c, tx[c].who)
    /\ LET e == tx[c].who IN
       users' = [users EXCEPT ![e] = Profile(@, tx[c].snap)]
    /\ SetTx(c, Idle)
    /\ UNCHANGED <<migrationVars, addrs, earned, creator, touched>>

\* An order of the account credits points: points_balance = points_balance + n.
EarnPoints(e) ==
    /\ Serving
    /\ Exists(e)
    /\ earned[e] < MaxPoints
    /\ \A w \in Parties : tx[w].pc # "write"
    /\ \A w \in Parties : tx[w].who = e => tx[w].pc \notin {"clear", "commit"}
    /\ users' = [users EXCEPT ![e].points = @ + 1]
    /\ earned' = [earned EXCEPT ![e] = @ + 1]
    /\ UNCHANGED <<migrationVars, addrs, creator, touched, tx>>

-----------------------------------------------------------------------------
(***************************************************************************)
(* Addresses.                                                              *)
(***************************************************************************)

\* POST /users/me/addresses that is not to be the default: one INSERT.  It waits
\* for a transaction that has locked the addresses of the user.
AddAddress(c, e, home) ==
    /\ tx[c].pc = "idle"
    /\ Serving /\ Room
    /\ Exists(e)
    /\ AllUsersFree(c)
    /\ \A w \in Parties : tx[w].who = e => tx[w].pc # "commit"
    /\ \E a \in Ids :
         /\ Fresh(a)
         /\ addrs' = [addrs EXCEPT ![a] = [owner |-> e, home |-> home, default |-> FALSE]]
    /\ touched' = (touched \/ home)
    /\ UNCHANGED <<migrationVars, users, earned, creator, tx>>

\* The same with is_default: the INSERT, not committed.
BeginAddress(c, e, home) ==
    /\ tx[c].pc = "idle"
    /\ Serving /\ Room
    /\ Exists(e)
    /\ AllUsersFree(c)
    /\ \A w \in Parties : tx[w].who = e => tx[w].pc # "commit"
    /\ \E a \in Ids :
         /\ Fresh(a)
         /\ SetTx(c, [Idle EXCEPT !.job = "address", !.pc = "clear", !.who = e,
                                  !.a = a, !.home = home])
    /\ UNCHANGED <<migrationVars, people>>

\* Mutant: the UPDATE skips addresses that are not committed yet.
AddressesFreeAlways(c) == TRUE

\* No other transaction has inserted or locked an address of the same user.
AddressesFree(c) ==
    \A w \in Clients \ {c} :
      tx[w].job = "address" /\ tx[w].pc # "idle" => tx[w].who # tx[c].who

\* The addresses of the user that are committed, which is the most recent read of
\* an UPDATE.
Reached(c) == {a \in Ids : addrs[a].owner = tx[c].who}

\* set_default, first UPDATE: every address of the user, which stay locked.
ClearDefaults(c) ==
    /\ tx[c].pc = "clear"
    /\ AddressesFree(c)
    /\ SetTx(c, [tx[c] EXCEPT !.pc = "commit", !.snap.defaults = Reached(c)])
    /\ UNCHANGED <<migrationVars, people>>

\* Two transactions wait for each other in ClearDefaults: one is rolled back.
Deadlock(c) ==
    /\ tx[c].pc = "clear"
    /\ ~AddressesFree(c)
    /\ SetTx(c, Idle)
    /\ UNCHANGED <<migrationVars, people>>

\* set_default, second UPDATE, and the commit.
CommitAddress(c) ==
    /\ tx[c].job = "address" /\ tx[c].pc = "commit"
    /\ LET t == tx[c] IN
       /\ addrs' = [a \in Ids |->
             IF a = t.a THEN [owner |-> t.who, home |-> t.home, default |-> TRUE]
             ELSE IF a \in t.snap.defaults THEN [addrs[a] EXCEPT !.default = FALSE]
             ELSE addrs[a]]
       /\ touched' = (touched \/ t.home)
    /\ SetTx(c, Idle)
    /\ UNCHANGED <<migrationVars, users, earned, creator>>

\* DELETE /users/me/addresses/{id}: waits for a lock on the row.
DeleteAddress(e, a) ==
    /\ Serving
    /\ addrs[a].owner = e
    /\ \A w \in Parties : tx[w].who = e => tx[w].pc # "commit"
    /\ addrs' = [addrs EXCEPT ![a] = Deleted]
    /\ touched' = (touched \/ addrs[a].home)
    /\ UNCHANGED <<migrationVars, users, earned, creator, tx>>

-----------------------------------------------------------------------------

\* A process dies, or its connection, or InnoDB picks it to end a deadlock.
Abort(w) ==
    /\ tx[w].pc # "idle"
    /\ SetTx(w, Idle)
    /\ UNCHANGED <<migrationVars, people>>

TxStep(w) ==
    \/ LockUsers(w) \/ SeedCommit(w) \/ SeedRefused(w)
    \/ w \in Clients /\ (\/ InsertUser(w) \/ CommitUser(w) \/ UpdateProfile(w)
                         \/ ClearDefaults(w) \/ Deadlock(w) \/ CommitAddress(w))

Begin(c) ==
    \/ BeginScript(c)
    \/ \E e \in Emails :
         \/ BeginRegister(c, e) \/ BeginProfile(c, e)
         \/ \E home \in {FALSE, e = Demo} : AddAddress(c, e, home) \/ BeginAddress(c, e, home)

Next ==
    \/ \E r \in Runs : Migrate(r) \/ BeginBootstrap(r)
    \/ \E c \in Clients : Begin(c)
    \/ \E w \in Parties : TxStep(w) \/ Abort(w)
    \/ \E e \in Emails : EarnPoints(e) \/ \E a \in Ids : DeleteAddress(e, a)

Spec == Init /\ [][Next]_vars

\* The thread of a run goes on; a kill and a lost connection are Interrupt.
Fairness == \A r \in Runs : WF_vars(Progress(r) /\ Migrate(r))

-----------------------------------------------------------------------------
(***************************************************************************)
(* Properties.                                                             *)
(***************************************************************************)
TypeOK ==
    /\ schema \subseteq ToSet(Tables) \cup ToSet(Audit)
    /\ tagType \in {"none", "values", "names", "text"}
    /\ tags \in {"none", "values", "names"}
    /\ version \in 0..HeadRevision
    /\ run \in [Runs -> Run]
    /\ cut \subseteq Modes \X Revisions
    /\ interrupts \in 0..MaxInterrupts
    /\ downgrades \in 0..MaxDowngrades
    /\ users \in [Emails -> Account]
    /\ addrs \in [Ids -> Address]
    /\ tx \in [Parties -> Transaction]
    /\ earned \in [Emails -> 0..MaxPoints]
    /\ creator \in [Emails -> SUBSET Parties]
    /\ touched \in BOOLEAN

\* The seed only works on the schema of the head, whatever other runs of Alembic
\* do while a bootstrap is upgrading (the answer of its own upgrade is enough).
SeedFindsSchema ==
    \A r \in Runs : Upgraded(r) \/ tx[r].pc # "idle" => version = HeadRevision

\* However registrations and bootstraps race, at most one of them is told that it
\* has created the account of an e-mail: the snapshot of a bootstrap and the
\* look-up of a registration can be stale, the unique index is not.
OneCreator == \A e \in Emails : Cardinality(creator[e]) <= 1

\* Who was told that the registration succeeded has the account, with the own
\* password; only the demo account may be taken over by the seed.
AccountIsTheirs ==
    \A e \in Emails : \A c \in creator[e] \cap Clients :
      \/ users[e].secret = c
      \/ e = Demo /\ users[e].secret = "demo"

\* No seed and no profile change, however stale what it has read, loses or
\* repeats a point that an order has credited.
PointsAreExact == \A e \in Emails : users[e].points = earned[e]

\* set_default leaves one default address, also when two requests insert one at
\* the same time.  The demo user is the exception: the seed sets is_default of its
\* address and clears no other.
OneDefault ==
    \A e \in Emails \ {Demo} :
      Cardinality({a \in Ids : addrs[a].owner = e /\ addrs[a].default}) <= 1

\* "Casa Demo" is read with scalar_one_or_none and no index makes it unique.  The
\* unique slugs, which the seed inserts before it in the same transaction, keep it
\* single all the same, as long as the demo user leaves its addresses alone.
OneHome == ~touched => Cardinality(Homes) <= 1

=============================================================================
