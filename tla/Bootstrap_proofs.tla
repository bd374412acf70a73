--------------------------- MODULE Bootstrap_proofs ---------------------------
(***************************************************************************)
(* Proofs about Bootstrap, for any number of runs, clients, e-mails and    *)
(* addresses.                                                              *)
(***************************************************************************)
EXTENDS Bootstrap, Migrations_proofs, FiniteSetTheorems

-----------------------------------------------------------------------------
(***************************************************************************)
(* What holds of Migrations holds of the whole.                            *)
(***************************************************************************)

\* Steps of a transaction that leave the migrations alone.
LEMMA TxStepMigrations ==
    ASSUME NEW w \in Parties, TxStep(w) \/ Abort(w)
    PROVE  StoreValues \/ UNCHANGED migrationVars
  <1>1. CASE SeedCommit(w)
    BY <1>1 DEF SeedCommit
  <1>2. CASE LockUsers(w) \/ SeedRefused(w) \/ Abort(w)
    BY <1>2 DEF LockUsers, SeedRefused, Abort
  <1>3. CASE InsertUser(w) \/ CommitUser(w) \/ UpdateProfile(w)
    BY <1>3 DEF InsertUser, CommitUser, UpdateProfile
  <1>4. CASE ClearDefaults(w) \/ Deadlock(w) \/ CommitAddress(w)
    BY <1>4 DEF ClearDefaults, Deadlock, CommitAddress
  <1>. QED  BY <1>1, <1>2, <1>3, <1>4 DEF TxStep

LEMMA StepMigrates == [Next]_vars => [MigrationNext]_migrationVars
  <1>. SUFFICES ASSUME [Next]_vars PROVE [MigrationNext]_migrationVars
    OBVIOUS
  <1>1. CASE UNCHANGED vars
    BY <1>1 DEF vars
  <1>2. ASSUME NEW r \in Runs, Migrate(r) PROVE MigrationNext
    BY <1>2 DEF Migrate, MigrationNext
  <1>3. ASSUME NEW r \in Runs, BeginBootstrap(r) PROVE MigrationNext
    <2>1. Release(r)
      BY <1>3 DEF BeginBootstrap, Upgraded, Release
    <2>. QED  BY <2>1 DEF MigrationNext, MigrationStep
  <1>4. ASSUME NEW c \in Clients, Begin(c) PROVE UNCHANGED migrationVars
    BY <1>4 DEF Begin, BeginScript, BeginRegister, BeginProfile, AddAddress, BeginAddress
  <1>5. ASSUME NEW w \in Parties, TxStep(w) \/ Abort(w)
        PROVE  [MigrationNext]_migrationVars
    BY <1>5, TxStepMigrations DEF MigrationNext
  <1>6. ASSUME NEW e \in Emails, EarnPoints(e) \/ \E a \in Ids : DeleteAddress(e, a)
        PROVE  UNCHANGED migrationVars
    BY <1>6 DEF EarnPoints, DeleteAddress
  <1>. QED  BY <1>1, <1>2, <1>3, <1>4, <1>5, <1>6 DEF Next

\* The bootstrap and the requests do to the migrations nothing that Migrations does
\* not allow: the whole implements it.
THEOREM TheWholeMigrates == Spec => MigrationSpec
  <1>1. Init => MigrationInit
    BY DEF Init
  <1>. QED  BY <1>1, StepMigrates, PTL DEF Spec, MigrationSpec

\* So its version is true of the database, whatever bootstraps and requests do.
THEOREM TheVersionStaysTrue == Spec => []VersionIsTrue
  BY TheWholeMigrates, TheVersionIsTrue, PTL

THEOREM TheWayStaysFree == Spec => []NothingLeftOver
  BY TheWholeMigrates, TheWayIsFree, PTL

THEOREM TheAuditStays == Spec => AuditIsKept
  BY TheWholeMigrates, TheAuditIsKept, PTL

LEMMA WholeInvariance == Spec => []IInv
  BY TheWholeMigrates, Invariance, PTL

-----------------------------------------------------------------------------
(***************************************************************************)
(* Transactions: their records, who runs them, and what their locks keep   *)
(* apart.                                                                  *)
(***************************************************************************)

TxTypes == tx \in [Parties -> Transaction]

\* Requests are about an account and are made by clients.
Asks(w) == tx[w].pc \in {"insert", "clear", "commit", "update"} => tx[w].who \in Emails
JobFits(w) ==
    /\ tx[w].pc = "insert" => tx[w].job = "register"
    /\ tx[w].pc = "clear" => tx[w].job = "address"
    /\ tx[w].job = "address" => tx[w].pc \in {"clear", "commit"}
Askers(w) == tx[w].job \in {"script", "register", "address", "profile"} => w \in Clients

Registering(v) == tx[v].job = "register" /\ tx[v].pc = "commit"
Locking(v) == tx[v].job = "address" /\ tx[v].pc = "commit"

\* A seed that writes is alone; a new row of users is locked against everyone, and
\* so are the addresses of a user.
Apart(v, w) ==
    /\ tx[v].pc = "write" => tx[w].pc \notin {"write", "clear", "commit"}
    /\ Registering(v) /\ tx[w].who = tx[v].who => tx[w].pc \notin {"clear", "commit"}
    /\ Locking(v) /\ tx[w].who = tx[v].who => tx[w].job # "address"

TxInv ==
    /\ TxTypes
    /\ \A w \in Parties : Asks(w) /\ Askers(w) /\ JobFits(w)
    /\ \A v, w \in Parties : v # w => Apart(v, w)

LEMMA IdleIsTransaction ==
    /\ Idle \in Transaction
    /\ Idle.job = "none" /\ Idle.pc = "idle" /\ Idle.who = NoOne
  BY DEF Idle, Transaction, Jobs, NoView, Ids

LEMMA ViewType ==
    ASSUME users \in [Emails -> Account], NEW e \in Emails
    PROVE  View(e) \in [seeded : BOOLEAN, known : BOOLEAN, points : Nat,
                        homes : SUBSET Ids, defaults : SUBSET Ids]
  BY DEF View, Account, Homes, Exists

LEMMA SetTxOK ==
    ASSUME TxTypes, NEW w \in Parties, NEW t \in Transaction, SetTx(w, t)
    PROVE  /\ TxTypes'
           /\ tx'[w] = t
           /\ \A v \in Parties : v # w => tx'[v] = tx[v]
  BY DEF TxTypes, SetTx

\* One transaction goes on; what it locks, it finds free.
LEMMA TxGoes ==
    ASSUME TxInv, NEW w \in Parties, NEW t \in Transaction, SetTx(w, t),
           t.pc \in {"insert", "clear", "commit", "update"} => t.who \in Emails,
           t.job \in {"script", "register", "address", "profile"} => w \in Clients,
           t.pc = "insert" => t.job = "register",
           t.pc = "clear" => t.job = "address",
           t.job = "address" => t.pc \in {"clear", "commit"},
           t.pc = "write" =>
             \A v \in Parties \ {w} : tx[v].pc \notin {"write", "clear", "commit"},
           t.pc \in {"clear", "commit"} =>
             \A v \in Parties \ {w} :
               tx[v].pc # "write" /\ (tx[v].who = t.who => ~ Registering(v)),
           t.job = "register" /\ t.pc = "commit" =>
             \A v \in Parties \ {w} : tx[v].who = t.who => tx[v].pc \notin {"clear", "commit"},
           t.job = "address" =>
             \A v \in Parties \ {w} : tx[v].who = t.who => ~ Locking(v),
           t.job = "address" /\ t.pc = "commit" =>
             \A v \in Parties \ {w} : tx[v].who = t.who => tx[v].job # "address"
    PROVE  TxInv'
  <1>1. /\ TxTypes'
        /\ tx'[w] = t
        /\ \A v \in Parties : v # w => tx'[v] = tx[v]
    BY SetTxOK DEF TxInv
  <1>2. ASSUME NEW v \in Parties PROVE Asks(v)' /\ Askers(v)' /\ JobFits(v)'
    BY <1>1 DEF TxInv, Asks, Askers, JobFits
  <1>3. ASSUME NEW u \in Parties, NEW v \in Parties, u # v PROVE Apart(u, v)'
    <2>1. CASE u = w
      BY <1>1, <1>3, <2>1 DEF TxInv, Apart, Registering, Locking
    <2>2. CASE v = w
      BY <1>1, <1>3, <2>2 DEF TxInv, Apart, Registering, Locking
    <2>3. CASE u # w /\ v # w
      BY <1>1, <1>3, <2>3 DEF TxInv, Apart, Registering, Locking
    <2>. QED  BY <2>1, <2>2, <2>3
  <1>. QED  BY <1>1, <1>2, <1>3 DEF TxInv

LEMMA TxIdles ==
    ASSUME TxInv, NEW w \in Parties, SetTx(w, Idle)
    PROVE  TxInv'
  BY IdleIsTransaction, TxGoes DEF Registering, Locking

LEMMA TxFacts ==
    ASSUME TxInv, NEW w \in Parties
    PROVE  /\ tx[w] \in Transaction
           /\ Asks(w) /\ Askers(w) /\ JobFits(w)
           /\ \A v \in Parties : v # w => Apart(v, w) /\ Apart(w, v)
  BY DEF TxInv, TxTypes

AccountTypes ==
    /\ users \in [Emails -> Account]
    /\ earned \in [Emails -> Nat]
    /\ creator \in [Emails -> SUBSET Parties]

LEMMA DemoFacts == Demo \in Emails /\ NoOne \notin Emails
  BY DemoAssumption

LEMMA BeginBootstrapTx ==
    ASSUME TxInv, AccountTypes, NEW r \in Runs, BeginBootstrap(r)
    PROVE  TxInv'
  <1>. DEFINE t == [Idle EXCEPT !.job = "bootstrap", !.pc = "lock", !.snap = View(Demo)]
  <1>1. t \in Transaction /\ t.job = "bootstrap" /\ t.pc = "lock"
    BY IdleIsTransaction, ViewType, DemoFacts DEF AccountTypes, Transaction, Jobs
  <1>2. SetTx(r, t) /\ r \in Parties
    BY DEF BeginBootstrap, Parties
  <1>. HIDE DEF t
  <1>. QED  BY <1>1, <1>2, TxGoes

LEMMA BeginTx ==
    ASSUME TxInv, AccountTypes, NEW c \in Clients, Begin(c)
    PROVE  TxInv'
  <1>0. c \in Parties
    BY DEF Parties
  <1>1. CASE BeginScript(c)
    <2>. DEFINE t == [Idle EXCEPT !.job = "script", !.pc = "lock"]
    <2>1. t \in Transaction /\ t.job = "script" /\ t.pc = "lock"
      BY IdleIsTransaction DEF Transaction, Jobs
    <2>2. SetTx(c, t)
      BY <1>1 DEF BeginScript
    <2>. HIDE DEF t
    <2>. QED  BY <1>0, <2>1, <2>2, TxGoes
  <1>2. ASSUME NEW e \in Emails, BeginRegister(c, e) PROVE TxInv'
    <2>. DEFINE t == [Idle EXCEPT !.job = "register", !.pc = "insert", !.who = e]
    <2>1. t \in Transaction /\ t.job = "register" /\ t.pc = "insert" /\ t.who = e
      BY IdleIsTransaction DEF Transaction, Jobs
    <2>2. SetTx(c, t)
      BY <1>2 DEF BeginRegister
    <2>. HIDE DEF t
    <2>. QED  BY <1>0, <2>1, <2>2, TxGoes
  <1>3. ASSUME NEW e \in Emails, BeginProfile(c, e) PROVE TxInv'
    <2>. DEFINE s == [NoView EXCEPT !.points = users[e].points]
                t == [Idle EXCEPT !.job = "profile", !.pc = "update", !.who = e, !.snap = s]
    <2>1. users[e].points \in Nat
      BY DEF AccountTypes, Account
    <2>2. s \in [seeded : BOOLEAN, known : BOOLEAN, points : Nat,
                 homes : SUBSET Ids, defaults : SUBSET Ids]
      BY <2>1 DEF NoView
    <2>3. SetTx(c, t)
      BY <1>3 DEF BeginProfile
    <2>. HIDE DEF s
    <2>4. t \in Transaction /\ t.job = "profile" /\ t.pc = "update" /\ t.who = e
      BY <2>2, IdleIsTransaction DEF Transaction, Jobs
    <2>. HIDE DEF t
    <2>. QED  BY <1>0, <2>3, <2>4, TxGoes
  <1>4. ASSUME NEW e \in Emails, NEW home \in {FALSE, e = Demo},
               AddAddress(c, e, home) \/ BeginAddress(c, e, home)
        PROVE  TxInv'
    <2>1. CASE AddAddress(c, e, home)
      <3>1. UNCHANGED tx
        BY <2>1 DEF AddAddress
      <3>. QED  BY <3>1 DEF TxInv, TxTypes, Asks, Askers, JobFits, Apart, Registering, Locking
    <2>2. CASE BeginAddress(c, e, home)
      <3>1. PICK a \in Ids :
              SetTx(c, [Idle EXCEPT !.job = "address", !.pc = "clear", !.who = e,
                                    !.a = a, !.home = home])
        BY <2>2 DEF BeginAddress
      <3>. DEFINE t == [Idle EXCEPT !.job = "address", !.pc = "clear", !.who = e,
                                    !.a = a, !.home = home]
      <3>2. t \in Transaction /\ t.job = "address" /\ t.pc = "clear" /\ t.who = e
        <4>1. home \in BOOLEAN
          OBVIOUS
        <4>. QED  BY <4>1, IdleIsTransaction DEF Transaction, Jobs
      <3>3. \A v \in Parties \ {c} :
              tx[v].pc # "write" /\ (tx[v].who = e => tx[v].pc # "commit")
        BY <2>2 DEF BeginAddress, AllUsersFree
      <3>4. SetTx(c, t)
        BY <3>1
      <3>. HIDE DEF t
      <3>. QED  BY <1>0, <3>2, <3>3, <3>4, TxGoes DEF Registering, Locking
    <2>. QED  BY <1>4, <2>1, <2>2
  <1>. QED  BY <1>1, <1>2, <1>3, <1>4 DEF Begin

LEMMA TxStepTx ==
    ASSUME TxInv, AccountTypes, NEW w \in Parties, TxStep(w) \/ Abort(w)
    PROVE  TxInv'
  <1>0. /\ tx[w] \in Transaction /\ Asks(w) /\ Askers(w) /\ JobFits(w)
        /\ \A v \in Parties \ {w} : Apart(v, w) /\ Askers(v) /\ JobFits(v)
    BY TxFacts
  <1>1. CASE \/ SeedCommit(w) \/ SeedRefused(w) \/ Abort(w) \/ CommitUser(w)
             \/ UpdateProfile(w) \/ Deadlock(w) \/ CommitAddress(w)
    <2>1. SetTx(w, Idle)
      BY <1>1 DEF SeedCommit, SeedRefused, Abort, CommitUser, UpdateProfile, Deadlock,
                  CommitAddress
    <2>. QED  BY <2>1, TxIdles
  <1>2. CASE LockUsers(w)
    <2>1. PICK s : s = IF tx[w].job = "script" THEN View(Demo) ELSE tx[w].snap
      OBVIOUS
    <2>2. PICK t : t = [tx[w] EXCEPT !.pc = "write", !.snap = s]
      OBVIOUS
    <2>3. SetTx(w, t)
      <3>1. [tx[w] EXCEPT !.pc = "write",
                          !.snap = IF tx[w].job = "script" THEN View(Demo) ELSE @]
              = [tx[w] EXCEPT !.pc = "write", !.snap = s]
        <4>1. [tx[w] EXCEPT !.pc = "write"].snap = tx[w].snap
          BY <1>0 DEF Transaction
        <4>. QED  BY <2>1, <4>1, Zenon
      <3>. QED  BY <1>2, <2>2, <3>1 DEF LockUsers
    <2>4. s \in [seeded : BOOLEAN, known : BOOLEAN, points : Nat,
                 homes : SUBSET Ids, defaults : SUBSET Ids]
      BY <1>0, <2>1, ViewType, DemoFacts DEF AccountTypes, Transaction
    <2>5. t \in Transaction /\ t.pc = "write" /\ t.job = tx[w].job
      BY <1>0, <2>2, <2>4 DEF Transaction
    <2>6. \A v \in Parties \ {w} : tx[v].pc \notin {"write", "clear", "commit"}
      BY <1>2 DEF LockUsers, LockFree, AllUsersFree
    <2>7. t.job # "address"
      BY <1>0, <1>2, <2>5 DEF LockUsers, JobFits
    <2>. QED  BY <1>0, <2>3, <2>5, <2>6, <2>7, TxGoes DEF Askers
  <1>3. CASE InsertUser(w)
    <2>1. CASE Exists(tx[w].who)
      BY <1>3, <2>1, TxIdles DEF InsertUser
    <2>2. CASE ~ Exists(tx[w].who)
      <3>1. PICK t : t = [tx[w] EXCEPT !.pc = "commit"]
        OBVIOUS
      <3>2. /\ t \in Transaction /\ t.pc = "commit" /\ t.job = tx[w].job
            /\ t.who = tx[w].who /\ t.who \in Emails
        BY <1>0, <1>3, <3>1 DEF Transaction, InsertUser, Asks
      <3>3. SetTx(w, t)
        BY <1>3, <2>2, <3>1 DEF InsertUser, Goes
      <3>4. \A v \in Parties \ {w} :
              tx[v].pc # "write" /\ (tx[v].who = t.who => tx[v].pc \notin {"clear", "commit"})
        BY <1>3, <3>2 DEF InsertUser, AllUsersFree, EmailFree, UserFree
      <3>5. tx[w].pc = "insert"
        BY <1>3 DEF InsertUser
      <3>6. tx[w].job # "address"
        BY <1>0, <3>5 DEF JobFits
      <3>. QED  BY <1>0, <3>2, <3>3, <3>4, <3>6, TxGoes DEF Askers, Registering, Locking
    <2>. QED  BY <2>1, <2>2
  <1>4. CASE ClearDefaults(w)
    <2>1. PICK s : s = [tx[w].snap EXCEPT !.defaults = Reached(w)]
      OBVIOUS
    <2>2. PICK t : t = [tx[w] EXCEPT !.pc = "commit", !.snap = s]
      OBVIOUS
    <2>3. SetTx(w, t)
      <3>1. [tx[w] EXCEPT !.pc = "commit", !.snap.defaults = Reached(w)] = t
        <4>1. [tx[w] EXCEPT !.pc = "commit"].snap = tx[w].snap
          BY <1>0 DEF Transaction
        <4>. QED  BY <2>1, <2>2, <4>1, Zenon
      <3>. QED  BY <1>4, <3>1 DEF ClearDefaults
    <2>4. s \in [seeded : BOOLEAN, known : BOOLEAN, points : Nat,
                 homes : SUBSET Ids, defaults : SUBSET Ids]
      BY <1>0, <2>1 DEF Transaction, Reached
    <2>5. /\ t \in Transaction /\ t.pc = "commit" /\ t.job = tx[w].job
          /\ t.who = tx[w].who /\ t.who \in Emails
      BY <1>0, <1>4, <2>2, <2>4 DEF Transaction, ClearDefaults, Asks
    <2>6. tx[w].pc = "clear" /\ tx[w].job = "address" /\ w \in Clients
      BY <1>0, <1>4 DEF ClearDefaults, JobFits, Askers
    <2>7. \A v \in Parties \ {w} :
            tx[v].pc # "write" /\ (tx[v].who = t.who => ~ Registering(v))
      BY <1>0, <2>5, <2>6 DEF Apart
    <2>8. \A v \in Parties \ {w} : tx[v].who = t.who => tx[v].job # "address"
      BY <1>0, <1>4, <2>5 DEF ClearDefaults, AddressesFree, JobFits, Askers
    <2>. QED  BY <2>3, <2>5, <2>6, <2>7, <2>8, TxGoes DEF Locking
  <1>. QED  BY <1>1, <1>2, <1>3, <1>4 DEF TxStep

-----------------------------------------------------------------------------
(***************************************************************************)
(* Accounts.                                                               *)
(***************************************************************************)

AtMostOne(S) == \A x, y \in S : x = y

LEMMA AtMostOneCounts ==
    ASSUME NEW S, AtMostOne(S)
    PROVE  Cardinality(S) <= 1
  <1>1. CASE S = {}
    BY <1>1, FS_EmptySet
  <1>2. CASE S # {}
    <2>1. PICK x \in S : S = {x}
      BY <1>2 DEF AtMostOne
    <2>2. Cardinality(S) = 1
      BY <2>1, FS_Singleton
    <2>. QED  BY <2>2
  <1>. QED  BY <1>1, <1>2

\* Nobody was told of an account that is not there, and it has earned nothing.
Told == \A e \in Emails : ~ Exists(e) => creator[e] = {} /\ earned[e] = 0

\* A registration that is about to commit has found its e-mail free, and it is.
Found == \A c \in Parties : Registering(c) => ~ Exists(tx[c].who)

AccountInv ==
    /\ AccountTypes
    /\ Told
    /\ Found
    /\ \A e \in Emails : AtMostOne(creator[e])
    /\ AccountIsTheirs
    /\ PointsAreExact

\* Transactions that do not commit an account.
LEMMA AccountsStay ==
    ASSUME AccountInv, TxInv, UNCHANGED <<users, earned, creator>>,
           \A c \in Parties : Registering(c)' => Registering(c) /\ tx'[c].who = tx[c].who
    PROVE  AccountInv'
  BY DEF AccountInv, AccountTypes, Told, Found, Exists, AccountIsTheirs, PointsAreExact

LEMMA IdleRegistersNothing ==
    ASSUME TxInv, NEW w \in Parties, SetTx(w, Idle)
    PROVE  \A c \in Parties : Registering(c)' => Registering(c) /\ tx'[c].who = tx[c].who /\ c # w
  BY IdleIsTransaction, SetTxOK DEF TxInv, Registering

LEMMA MigrateAccounts ==
    ASSUME TxInv, AccountInv, NEW r \in Runs, Migrate(r)
    PROVE  AccountInv'
  <1>1. UNCHANGED tx
    BY DEF Migrate
  <1>2. CASE "users" \in schema'
    <2>1. UNCHANGED <<users, earned, creator>>
      BY <1>2 DEF Migrate
    <2>. QED  BY <1>1, <2>1, AccountsStay DEF Registering
  <1>3. CASE "users" \notin schema'
    <2>1. /\ users' = Nobody /\ earned' = [e \in Emails |-> 0]
          /\ creator' = [e \in Emails |-> {}]
      BY <1>3 DEF Migrate
    <2>2. NoAccount \in Account /\ NoAccount.secret = NoOne /\ NoAccount.points = 0
      BY DEF NoAccount, Account
    <2>3. \A e \in Emails : ~ Exists(e)'
      BY <2>1, <2>2 DEF Nobody, Exists
    <2>4. Found'
      <3>1. ASSUME NEW c \in Parties, Registering(c)' PROVE ~ Exists(tx[c].who)'
        <4>1. tx[c].who \in Emails
          BY <1>1, <3>1, TxFacts DEF Asks, Registering
        <4>2. PICK e \in Emails : e = tx[c].who
          BY <4>1
        <4>. QED  BY <1>1, <2>3, <4>2 DEF Exists
      <3>. QED  BY <1>1, <3>1 DEF Found
    <2>5. AccountTypes'
      BY <2>1, <2>2 DEF AccountTypes, Nobody
    <2>6. Told' /\ AccountIsTheirs' /\ (\A e \in Emails : AtMostOne(creator[e]))'
      BY <2>1 DEF Told, AccountIsTheirs, AtMostOne
    <2>7. PointsAreExact'
      BY <2>1, <2>2 DEF PointsAreExact, Nobody
    <2>. QED  BY <2>4, <2>5, <2>6, <2>7 DEF AccountInv
  <1>. QED  BY <1>2, <1>3

LEMMA SeedAccounts ==
    ASSUME TxInv, AccountInv, NEW w \in Parties, SeedCommit(w)
    PROVE  AccountInv'
  <1>. DEFINE row == [users[Demo] EXCEPT !.secret = "demo"]
  <1>1. /\ tx[w].pc = "write" /\ SetTx(w, Idle)
        /\ users' = [users EXCEPT ![Demo] = row]
        /\ creator' = (IF tx[w].job = "bootstrap" /\ ~ tx[w].snap.known
                       THEN [creator EXCEPT ![Demo] = @ \cup {w}] ELSE creator)
        /\ tx[w].snap.known \/ ~ Exists(Demo)
        /\ earned' = earned
    BY DEF SeedCommit, DemoUser, CreatedDemo, SeedPossible, DemoUserInserts
  <1>2. /\ row \in Account /\ row.secret = "demo" /\ row.points = users[Demo].points
    BY DemoFacts DEF AccountInv, AccountTypes, Account
  <1>3. AccountTypes'
    BY <1>1, <1>2, DemoFacts DEF AccountInv, AccountTypes
  <1>4. /\ users'[Demo] = row
        /\ \A e \in Emails : e # Demo => users'[e] = users[e] /\ creator'[e] = creator[e]
        /\ \/ creator'[Demo] = creator[Demo]
           \/ ~ Exists(Demo) /\ creator'[Demo] = creator[Demo] \cup {w}
    BY <1>1, <1>2, DemoFacts DEF AccountInv, AccountTypes
  <1>. HIDE DEF row
  <1>5. "demo" # NoOne
    BY DemoAssumption
  <1>6. Told'
    BY <1>1, <1>2, <1>4, <1>5, DemoFacts DEF AccountInv, Told, Exists
  <1>7. Found'
    <2>1. \A c \in Parties : ~ Registering(c)'
      BY <1>1, IdleRegistersNothing, TxFacts DEF Apart, Registering
    <2>. QED  BY <2>1 DEF Found
  <1>8. (\A e \in Emails : AtMostOne(creator[e]))'
    BY <1>4, DemoFacts DEF AccountInv, AtMostOne, Told
  <1>9. AccountIsTheirs'
    BY <1>2, <1>4 DEF AccountInv, AccountIsTheirs
  <1>10. PointsAreExact'
    BY <1>1, <1>2, <1>4 DEF AccountInv, PointsAreExact
  <1>. QED  BY <1>3, <1>6, <1>7, <1>8, <1>9, <1>10 DEF AccountInv

LEMMA CommitUserAccounts ==
    ASSUME TxInv, AccountInv, NEW c \in Clients, CommitUser(c)
    PROVE  AccountInv'
  <1>0. c \in Parties /\ c # NoOne
    BY DemoAssumption DEF Parties
  <1>1. PICK e : e = tx[c].who
    OBVIOUS
  <1>. DEFINE row == [NoAccount EXCEPT !.secret = c]
  <1>2. /\ Registering(c) /\ SetTx(c, Idle)
        /\ users' = [users EXCEPT ![e] = row]
        /\ creator' = [creator EXCEPT ![e] = @ \cup {c}]
        /\ earned' = earned
    BY <1>1 DEF CommitUser, NewAccount, Registering
  <1>3. e \in Emails
    BY <1>0, <1>1, <1>2, TxFacts DEF Asks, Registering
  <1>4. row \in Account /\ row.secret = c /\ row.points = 0
    BY DEF NoAccount, Account
  <1>5. ~ Exists(e)
    BY <1>0, <1>1, <1>2 DEF AccountInv, Found
  <1>6. creator[e] = {} /\ earned[e] = 0
    BY <1>3, <1>5 DEF AccountInv, Told
  <1>. HIDE DEF row
  <1>7. AccountTypes'
    BY <1>0, <1>2, <1>3, <1>4 DEF AccountInv, AccountTypes
  <1>8. /\ users'[e] = row /\ creator'[e] = {c}
        /\ \A f \in Emails : f # e => users'[f] = users[f] /\ creator'[f] = creator[f]
    BY <1>2, <1>3, <1>6 DEF AccountInv, AccountTypes
  <1>9. Told'
    BY <1>0, <1>2, <1>4, <1>8 DEF AccountInv, Told, Exists
  <1>10. Found'
    <2>1. ASSUME NEW v \in Parties, Registering(v)' PROVE ~ Exists(tx[v].who)'
      <3>1. Registering(v) /\ tx'[v].who = tx[v].who /\ v # c
        BY <1>0, <1>2, <2>1, IdleRegistersNothing
      <3>2. PICK f : f = tx[v].who
        OBVIOUS
      <3>3. f # e /\ f \in Emails
        BY <1>0, <1>1, <1>2, <3>1, <3>2, TxFacts DEF Apart, Registering, Asks
      <3>4. ~ Exists(f)
        BY <3>1, <3>2 DEF AccountInv, Found
      <3>. QED  BY <1>8, <3>1, <3>2, <3>3, <3>4 DEF Exists
    <2>. QED  BY <2>1 DEF Found
  <1>11. (\A f \in Emails : AtMostOne(creator[f]))'
    BY <1>8 DEF AccountInv, AtMostOne
  <1>12. AccountIsTheirs'
    BY <1>4, <1>8 DEF AccountInv, AccountIsTheirs
  <1>13. PointsAreExact'
    BY <1>2, <1>4, <1>6, <1>8 DEF AccountInv, PointsAreExact
  <1>. QED  BY <1>7, <1>9, <1>10, <1>11, <1>12, <1>13 DEF AccountInv

LEMMA EarnPointsAccounts ==
    ASSUME TxInv, AccountInv, NEW e \in Emails, EarnPoints(e)
    PROVE  AccountInv'
  <1>1. /\ Exists(e) /\ UNCHANGED <<creator, tx>>
        /\ users' = [users EXCEPT ![e].points = @ + 1]
        /\ earned' = [earned EXCEPT ![e] = @ + 1]
    BY DEF EarnPoints
  <1>2. /\ users[e] \in Account /\ earned[e] \in Nat
    BY DEF AccountInv, AccountTypes
  <1>3. /\ users' \in [Emails -> Account] /\ earned' \in [Emails -> Nat]
        /\ users'[e].secret = users[e].secret /\ users'[e].points = users[e].points + 1
        /\ earned'[e] = earned[e] + 1
        /\ \A f \in Emails : f # e => users'[f] = users[f] /\ earned'[f] = earned[f]
    BY <1>1, <1>2 DEF AccountInv, AccountTypes, Account
  <1>4. \A f \in Emails : users'[f].secret = users[f].secret
    BY <1>3
  <1>5. AccountTypes'
    BY <1>1, <1>3 DEF AccountInv, AccountTypes
  <1>6. Told'
    BY <1>1, <1>3, <1>4 DEF AccountInv, Told, Exists
  <1>7. Found'
    <2>1. ASSUME NEW c \in Parties, Registering(c) PROVE ~ Exists(tx[c].who)'
      <3>1. tx[c].who \in Emails /\ ~ Exists(tx[c].who)
        BY <2>1, TxFacts DEF AccountInv, Found, Asks, Registering
      <3>. QED  BY <1>1, <1>4, <3>1 DEF Exists
    <2>. QED  BY <1>1, <2>1 DEF Found, Registering
  <1>8. (\A f \in Emails : AtMostOne(creator[f]))'
    BY <1>1 DEF AccountInv
  <1>9. AccountIsTheirs'
    BY <1>1, <1>4 DEF AccountInv, AccountIsTheirs
  <1>10. PointsAreExact'
    BY <1>3 DEF AccountInv, PointsAreExact
  <1>. QED  BY <1>5, <1>6, <1>7, <1>8, <1>9, <1>10 DEF AccountInv

\* A transaction that begins is far from its commit.
LEMMA BeginsEarly ==
    ASSUME TxInv, NEW w \in Parties, Begin(w) \/ BeginBootstrap(w)
    PROVE  \A v \in Parties : tx'[v] = tx[v] \/ tx'[v].pc # "commit"
  <1>1. ASSUME NEW t, SetTx(w, t), t.pc # "commit"
        PROVE  \A v \in Parties : tx'[v] = tx[v] \/ tx'[v].pc # "commit"
    BY <1>1 DEF TxInv, TxTypes, SetTx
  <1>2. CASE BeginBootstrap(w)
    <2>. DEFINE t == [Idle EXCEPT !.job = "bootstrap", !.pc = "lock", !.snap = View(Demo)]
    <2>1. SetTx(w, t) /\ t.pc = "lock"
      BY <1>2 DEF BeginBootstrap, Idle
    <2>. HIDE DEF t
    <2>. QED  BY <1>1, <2>1
  <1>3. CASE BeginScript(w)
    <2>. DEFINE t == [Idle EXCEPT !.job = "script", !.pc = "lock"]
    <2>1. SetTx(w, t) /\ t.pc = "lock"
      BY <1>3 DEF BeginScript, Idle
    <2>. HIDE DEF t
    <2>. QED  BY <1>1, <2>1
  <1>4. ASSUME NEW e \in Emails, BeginRegister(w, e)
        PROVE  \A v \in Parties : tx'[v] = tx[v] \/ tx'[v].pc # "commit"
    <2>. DEFINE t == [Idle EXCEPT !.job = "register", !.pc = "insert", !.who = e]
    <2>1. SetTx(w, t) /\ t.pc = "insert"
      BY <1>4 DEF BeginRegister, Idle
    <2>. HIDE DEF t
    <2>. QED  BY <1>1, <2>1
  <1>5. ASSUME NEW e \in Emails, BeginProfile(w, e)
        PROVE  \A v \in Parties : tx'[v] = tx[v] \/ tx'[v].pc # "commit"
    <2>. DEFINE s == [NoView EXCEPT !.points = users[e].points]
                t == [Idle EXCEPT !.job = "profile", !.pc = "update", !.who = e, !.snap = s]
    <2>1. SetTx(w, t)
      BY <1>5 DEF BeginProfile
    <2>. HIDE DEF s
    <2>2. t.pc = "update"
      BY DEF Idle
    <2>. HIDE DEF t
    <2>. QED  BY <1>1, <2>1, <2>2
  <1>6. ASSUME NEW e \in Emails, NEW home \in {FALSE, e = Demo}, BeginAddress(w, e, home)
        PROVE  \A v \in Parties : tx'[v] = tx[v] \/ tx'[v].pc # "commit"
    <2>1. PICK a \in Ids :
            SetTx(w, [Idle EXCEPT !.job = "address", !.pc = "clear", !.who = e,
                                  !.a = a, !.home = home])
      BY <1>6 DEF BeginAddress
    <2>. DEFINE t == [Idle EXCEPT !.job = "address", !.pc = "clear", !.who = e,
                                  !.a = a, !.home = home]
    <2>2. SetTx(w, t) /\ t.pc = "clear"
      BY <2>1 DEF Idle
    <2>. HIDE DEF t
    <2>. QED  BY <1>1, <2>2
  <1>7. ASSUME NEW e \in Emails, NEW home \in {FALSE, e = Demo}, AddAddress(w, e, home)
        PROVE  \A v \in Parties : tx'[v] = tx[v] \/ tx'[v].pc # "commit"
    BY <1>7 DEF AddAddress
  <1>. QED  BY <1>2, <1>3, <1>4, <1>5, <1>6, <1>7 DEF Begin

LEMMA RequestAccounts ==
    ASSUME TxInv, AccountInv,
           \/ \E r \in Runs : BeginBootstrap(r)
           \/ \E c \in Clients : Begin(c)
           \/ \E e \in Emails, a \in Ids : DeleteAddress(e, a)
    PROVE  AccountInv'
  <1>1. UNCHANGED <<users, earned, creator>>
    BY DEF Begin, BeginBootstrap, BeginScript, BeginRegister, BeginProfile, AddAddress,
           BeginAddress, DeleteAddress, people
  <1>2. \A v \in Parties : tx'[v] = tx[v] \/ tx'[v].pc # "commit"
    <2>1. CASE \E e \in Emails, a \in Ids : DeleteAddress(e, a)
      BY <2>1 DEF DeleteAddress
    <2>2. CASE \E w \in Parties : Begin(w) \/ BeginBootstrap(w)
      BY <2>2, BeginsEarly
    <2>. QED  BY <2>1, <2>2 DEF Parties
  <1>. QED  BY <1>1, <1>2, AccountsStay DEF Registering

LEMMA TxStepAccounts ==
    ASSUME TxInv, AccountInv, NEW w \in Parties, TxStep(w) \/ Abort(w)
    PROVE  AccountInv'
  <1>1. CASE SeedCommit(w)
    BY <1>1, SeedAccounts
  <1>2. CASE w \in Clients /\ CommitUser(w)
    BY <1>2, CommitUserAccounts
  <1>3. CASE SeedRefused(w) \/ Abort(w) \/ Deadlock(w) \/ CommitAddress(w)
    <2>1. SetTx(w, Idle) /\ UNCHANGED <<users, earned, creator>>
      BY <1>3 DEF SeedRefused, Abort, Deadlock, CommitAddress, people
    <2>. QED  BY <2>1, IdleRegistersNothing, AccountsStay
  <1>4. CASE UpdateProfile(w)
    <2>1. /\ SetTx(w, Idle) /\ UNCHANGED <<earned, creator>>
          /\ users' = [users EXCEPT ![tx[w].who] = @]
      BY <1>4 DEF UpdateProfile, Profile
    <2>2. users' = users
      BY <2>1 DEF AccountInv, AccountTypes
    <2>. QED  BY <2>1, <2>2, IdleRegistersNothing, AccountsStay
  <1>5. CASE LockUsers(w) \/ ClearDefaults(w)
    <2>1. /\ UNCHANGED <<users, earned, creator>>
          /\ tx[w].pc \in {"lock", "clear"}
      BY <1>5 DEF LockUsers, ClearDefaults, people
    <2>2. /\ tx[w] \in Transaction
          /\ tx[w].pc = "clear" => tx[w].job = "address"
      BY TxFacts DEF JobFits
    <2>3. /\ \A v \in Parties : v # w => tx'[v] = tx[v]
          /\ tx'[w].pc = "write" \/ (tx'[w].job = tx[w].job /\ tx[w].pc = "clear")
      <3>1. CASE LockUsers(w)
        <4>1. PICK s : tx' = [tx EXCEPT ![w] = [tx[w] EXCEPT !.pc = "write", !.snap = s]]
          BY <3>1, Zenon DEF LockUsers, SetTx
        <4>. QED  BY <2>2, <4>1 DEF TxInv, TxTypes, Transaction
      <3>2. CASE ClearDefaults(w)
        <4>1. PICK s : tx' = [tx EXCEPT ![w] = [tx[w] EXCEPT !.pc = "commit", !.snap = s]]
          BY <3>2, Zenon DEF ClearDefaults, SetTx
        <4>. QED  BY <2>2, <3>2, <4>1 DEF TxInv, TxTypes, Transaction, ClearDefaults
      <3>. QED  BY <1>5, <3>1, <3>2
    <2>. QED  BY <2>1, <2>2, <2>3, AccountsStay DEF Registering
  <1>6. CASE InsertUser(w)
    <2>1. UNCHANGED <<users, earned, creator>>
      BY <1>6 DEF InsertUser, people
    <2>2. CASE Exists(tx[w].who)
      <3>1. SetTx(w, Idle)
        BY <1>6, <2>2 DEF InsertUser
      <3>. QED  BY <2>1, <3>1, IdleRegistersNothing, AccountsStay
    <2>3. CASE ~ Exists(tx[w].who)
      <3>1. /\ tx'[w].who = tx[w].who
            /\ \A v \in Parties : v # w => tx'[v] = tx[v]
        BY <1>6, <2>3, TxFacts DEF InsertUser, Goes, SetTx, TxInv, TxTypes, Transaction
      <3>2. Found'
        BY <2>1, <2>3, <3>1 DEF AccountInv, Found, Registering, Exists
      <3>. QED  BY <2>1, <3>2 DEF AccountInv, AccountTypes, Told, Exists, AccountIsTheirs,
                    PointsAreExact
    <2>. QED  BY <2>2, <2>3
  <1>. QED  BY <1>1, <1>2, <1>3, <1>4, <1>5, <1>6 DEF TxStep

-----------------------------------------------------------------------------
(***************************************************************************)
(* Addresses.                                                              *)
(***************************************************************************)

Defaulted(e) == {a \in Ids : addrs[a].owner = e /\ addrs[a].default}

\* Who is about to commit a new default has cleared every other.
AddressInv ==
    /\ addrs \in [Ids -> Address]
    /\ \A e \in Emails \ {Demo} : AtMostOne(Defaulted(e))
    /\ \A c \in Parties :
         Locking(c) /\ tx[c].who # Demo => Defaulted(tx[c].who) \subseteq tx[c].snap.defaults

LEMMA AddressesShrink ==
    ASSUME TxInv, AddressInv, addrs' \in [Ids -> Address],
           \A e \in Emails \ {Demo} : Defaulted(e)' \subseteq Defaulted(e),
           \A c \in Parties : Locking(c)' => tx'[c] = tx[c]
    PROVE  AddressInv'
  <1>1. (\A e \in Emails \ {Demo} : AtMostOne(Defaulted(e)))'
    BY DEF AddressInv, AtMostOne
  <1>2. ASSUME NEW c \in Parties, Locking(c)', tx'[c].who # Demo
        PROVE  (Defaulted(tx[c].who) \subseteq tx[c].snap.defaults)'
    <2>1. PICK e, d : e = tx[c].who /\ d = tx[c].snap.defaults
      OBVIOUS
    <2>2. /\ tx'[c] = tx[c] /\ Locking(c)
      BY <1>2 DEF Locking
    <2>3. e \in Emails \ {Demo}
      BY <1>2, <2>1, <2>2, TxFacts DEF Asks, Locking
    <2>4. Defaulted(e) \subseteq d
      BY <2>1, <2>2, <2>3 DEF AddressInv
    <2>5. Defaulted(e)' \subseteq d
      BY <2>3, <2>4
    <2>. QED  BY <2>1, <2>2, <2>5
  <1>. QED  BY <1>1, <1>2 DEF AddressInv

LEMMA AddressesUnchanged ==
    ASSUME TxInv, AddressInv, UNCHANGED addrs,
           \A c \in Parties : Locking(c)' => tx'[c] = tx[c]
    PROVE  AddressInv'
  <1>1. addrs' \in [Ids -> Address]
    BY DEF AddressInv
  <1>2. \A e \in Emails \ {Demo} : Defaulted(e)' \subseteq Defaulted(e)
    BY DEF Defaulted
  <1>. QED  BY <1>1, <1>2, AddressesShrink

LEMMA IdleLocksNothing ==
    ASSUME TxInv, NEW w \in Parties, SetTx(w, Idle)
    PROVE  \A c \in Parties : Locking(c)' => tx'[c] = tx[c] /\ c # w
  BY IdleIsTransaction, SetTxOK DEF TxInv, Locking

LEMMA MigrateAddresses ==
    ASSUME TxInv, AddressInv, NEW r \in Runs, Migrate(r)
    PROVE  AddressInv'
  <1>1. \A c \in Parties : Locking(c)' => tx'[c] = tx[c]
    BY DEF Migrate
  <1>2. addrs' = addrs \/ addrs' = Nowhere
    BY DEF Migrate
  <1>3. CASE addrs' = addrs
    BY <1>1, <1>3, AddressesUnchanged
  <1>4. CASE addrs' = Nowhere
    <2>1. NoAddress \in Address /\ ~ NoAddress.default
      BY DEF NoAddress, Address
    <2>2. addrs' \in [Ids -> Address] /\ \A a \in Ids : ~ addrs'[a].default
      BY <1>4, <2>1 DEF Nowhere
    <2>. QED  BY <1>1, <2>2, AddressesShrink DEF Defaulted
  <1>. QED  BY <1>2, <1>3, <1>4

LEMMA SeedAddresses ==
    ASSUME TxInv, AddressInv, NEW w \in Parties, SeedCommit(w)
    PROVE  AddressInv'
  <1>1. SetTx(w, Idle) /\ addrs' \in DemoAddresses(tx[w].snap)
    BY DEF SeedCommit
  <1>2. \A a \in tx[w].snap.homes \ tx[w].snap.defaults : addrs[a].owner = Demo
    BY DEF SeedCommit, SeedPossible, DemoAddressUpdates
  <1>3. \A c \in Parties : Locking(c)' => tx'[c] = tx[c]
    BY <1>1, IdleLocksNothing
  <1>4. CASE tx[w].snap.homes = {}
    <2>1. PICK a \in Ids :
            addrs' = [addrs EXCEPT ![a] = [owner |-> Demo, home |-> TRUE, default |-> TRUE]]
      BY <1>1, <1>4 DEF DemoAddresses
    <2>2. addrs' \in [Ids -> Address]
      BY <2>1, DemoFacts DEF AddressInv, Address
    <2>3. \A e \in Emails \ {Demo} : Defaulted(e)' \subseteq Defaulted(e)
      BY <2>1 DEF AddressInv, Defaulted
    <2>. QED  BY <1>3, <2>2, <2>3, AddressesShrink
  <1>5. CASE tx[w].snap.homes # {}
    <2>1. addrs' = [a \in Ids |-> IF a \in tx[w].snap.homes \ tx[w].snap.defaults
                                  THEN [addrs[a] EXCEPT !.default = TRUE] ELSE addrs[a]]
      BY <1>1, <1>5 DEF DemoAddresses
    <2>2. ASSUME NEW a \in Ids
          PROVE  /\ addrs'[a] \in Address
                 /\ addrs'[a] = addrs[a] \/ addrs'[a].owner = Demo
      <3>1. addrs[a] \in Address
        BY DEF AddressInv
      <3>2. [addrs[a] EXCEPT !.default = TRUE] \in Address
        BY <3>1 DEF Address
      <3>3. [addrs[a] EXCEPT !.default = TRUE].owner = addrs[a].owner
        BY <3>1 DEF Address
      <3>. QED  BY <1>2, <2>1, <3>1, <3>2, <3>3
    <2>3. addrs' \in [Ids -> Address]
      BY <2>1, <2>2
    <2>4. \A e \in Emails \ {Demo} : Defaulted(e)' \subseteq Defaulted(e)
      BY <2>2 DEF Defaulted
    <2>. QED  BY <1>3, <2>3, <2>4, AddressesShrink
  <1>. QED  BY <1>4, <1>5

LEMMA AddAddresses ==
    ASSUME TxInv, AddressInv, NEW c \in Clients, NEW e \in Emails,
           NEW home \in {FALSE, e = Demo}, AddAddress(c, e, home)
    PROVE  AddressInv'
  <1>1. PICK a \in Ids :
          addrs' = [addrs EXCEPT ![a] = [owner |-> e, home |-> home, default |-> FALSE]]
    BY DEF AddAddress
  <1>2. home \in BOOLEAN
    OBVIOUS
  <1>3. addrs' \in [Ids -> Address]
    BY <1>1, <1>2 DEF AddressInv, Address
  <1>4. \A f \in Emails \ {Demo} : Defaulted(f)' \subseteq Defaulted(f)
    BY <1>1 DEF AddressInv, Defaulted
  <1>5. \A v \in Parties : Locking(v)' => tx'[v] = tx[v]
    BY DEF AddAddress
  <1>. QED  BY <1>3, <1>4, <1>5, AddressesShrink

LEMMA DeleteAddresses ==
    ASSUME TxInv, AddressInv, NEW e \in Emails, NEW a \in Ids, DeleteAddress(e, a)
    PROVE  AddressInv'
  <1>1. addrs' = [addrs EXCEPT ![a] = Deleted]
    BY DEF DeleteAddress
  <1>2. Deleted \in Address /\ ~ Deleted.default
    BY DEF Deleted, NoAddress, Address
  <1>3. addrs' \in [Ids -> Address]
    BY <1>1, <1>2 DEF AddressInv
  <1>4. \A f \in Emails \ {Demo} : Defaulted(f)' \subseteq Defaulted(f)
    BY <1>1, <1>2 DEF AddressInv, Defaulted
  <1>5. \A v \in Parties : Locking(v)' => tx'[v] = tx[v]
    BY DEF DeleteAddress
  <1>. QED  BY <1>3, <1>4, <1>5, AddressesShrink

LEMMA ClearAddresses ==
    ASSUME TxInv, AddressInv, NEW w \in Parties, ClearDefaults(w)
    PROVE  AddressInv'
  <1>1. PICK s, e, d :
          /\ s = [tx[w].snap EXCEPT !.defaults = Reached(w)]
          /\ e = tx[w].who /\ d = Reached(w)
    OBVIOUS
  <1>2. tx' = [tx EXCEPT ![w] = [tx[w] EXCEPT !.pc = "commit", !.snap = s]]
    <2>1. [tx[w] EXCEPT !.pc = "commit", !.snap.defaults = Reached(w)]
            = [tx[w] EXCEPT !.pc = "commit", !.snap = s]
      <3>1. [tx[w] EXCEPT !.pc = "commit"].snap = tx[w].snap
        BY TxFacts DEF Transaction
      <3>. QED  BY <1>1, <3>1, Zenon
    <2>. QED  BY <2>1 DEF ClearDefaults, SetTx
  <1>3. /\ tx'[w].who = e /\ tx'[w].snap.defaults = d
        /\ \A v \in Parties : v # w => tx'[v] = tx[v]
    BY <1>1, <1>2, TxFacts DEF TxInv, TxTypes, Transaction
  <1>4. UNCHANGED addrs
    BY DEF ClearDefaults, people
  <1>5. Defaulted(e) \subseteq d
    BY <1>1 DEF Defaulted, Reached
  <1>6. ASSUME NEW c \in Parties, Locking(c)', tx'[c].who # Demo
        PROVE  (Defaulted(tx[c].who) \subseteq tx[c].snap.defaults)'
    <2>1. CASE c = w
      BY <1>3, <1>4, <1>5, <2>1 DEF Defaulted
    <2>2. CASE c # w
      <3>1. tx'[c] = tx[c] /\ Locking(c)
        BY <1>3, <1>6, <2>2 DEF Locking
      <3>2. Defaulted(tx[c].who) \subseteq tx[c].snap.defaults
        BY <1>6, <3>1 DEF AddressInv
      <3>. QED  BY <1>4, <3>1, <3>2 DEF Defaulted
    <2>. QED  BY <2>1, <2>2
  <1>. QED  BY <1>4, <1>6 DEF AddressInv, Defaulted

LEMMA CommitAddresses ==
    ASSUME TxInv, AddressInv, NEW w \in Parties, CommitAddress(w)
    PROVE  AddressInv'
  <1>1. PICK t : t = tx[w]
    OBVIOUS
  <1>2. /\ Locking(w) /\ SetTx(w, Idle) /\ t \in Transaction /\ t.who \in Emails
        /\ addrs' = [a \in Ids |->
             IF a = t.a THEN [owner |-> t.who, home |-> t.home, default |-> TRUE]
             ELSE IF a \in t.snap.defaults THEN [addrs[a] EXCEPT !.default = FALSE]
             ELSE addrs[a]]
    BY <1>1, TxFacts DEF CommitAddress, Locking, Asks
  <1>3. ASSUME NEW a \in Ids
        PROVE  /\ addrs'[a] \in Address
               /\ a = t.a => addrs'[a].owner = t.who
               /\ a # t.a /\ addrs'[a].default =>
                    addrs[a].default /\ a \notin t.snap.defaults
               /\ a # t.a => addrs'[a].owner = addrs[a].owner
    <2>1. addrs[a] \in Address
      BY DEF AddressInv
    <2>2. [addrs[a] EXCEPT !.default = FALSE] \in Address
      BY <2>1 DEF Address
    <2>3. /\ [addrs[a] EXCEPT !.default = FALSE].owner = addrs[a].owner
          /\ ~ [addrs[a] EXCEPT !.default = FALSE].default
      BY <2>1 DEF Address
    <2>4. [owner |-> t.who, home |-> t.home, default |-> TRUE] \in Address
      BY <1>2 DEF Transaction, Address
    <2>. QED  BY <1>2, <2>1, <2>2, <2>3, <2>4
  <1>4. addrs' \in [Ids -> Address]
    BY <1>2, <1>3
  <1>5. ASSUME NEW e \in Emails \ {Demo}, e # t.who PROVE Defaulted(e)' \subseteq Defaulted(e)
    BY <1>3, <1>5 DEF Defaulted
  <1>6. ASSUME t.who # Demo PROVE Defaulted(t.who)' \subseteq {t.a}
    <2>1. Defaulted(t.who) \subseteq t.snap.defaults
      BY <1>1, <1>2, <1>6 DEF AddressInv
    <2>. QED  BY <1>3, <2>1 DEF Defaulted
  <1>7. (\A e \in Emails \ {Demo} : AtMostOne(Defaulted(e)))'
    <2>1. ASSUME NEW e \in Emails \ {Demo} PROVE AtMostOne(Defaulted(e)')
      <3>1. CASE e = t.who
        BY <1>6, <3>1 DEF AtMostOne
      <3>2. CASE e # t.who
        BY <1>5, <3>2 DEF AtMostOne, AddressInv
      <3>. QED  BY <3>1, <3>2
    <2>. QED  BY <2>1 DEF AtMostOne
  <1>8. ASSUME NEW c \in Parties, Locking(c)', tx'[c].who # Demo
        PROVE  (Defaulted(tx[c].who) \subseteq tx[c].snap.defaults)'
    <2>1. tx'[c] = tx[c] /\ c # w /\ Locking(c)
      BY <1>2, <1>8, IdleLocksNothing DEF Locking
    <2>2. PICK e, d : e = tx[c].who /\ d = tx[c].snap.defaults
      OBVIOUS
    <2>3. e \in Emails \ {Demo} /\ e # t.who
      BY <1>1, <1>2, <1>8, <2>1, <2>2, TxFacts DEF Apart, Asks, Locking
    <2>4. Defaulted(e) \subseteq d
      BY <2>1, <2>2, <2>3 DEF AddressInv
    <2>5. Defaulted(e)' \subseteq d
      BY <1>5, <2>3, <2>4
    <2>. QED  BY <2>1, <2>2, <2>5
  <1>. QED  BY <1>4, <1>7, <1>8 DEF AddressInv

-----------------------------------------------------------------------------
(***************************************************************************)
(* The seed and the schema.                                                *)
(***************************************************************************)

\* Once a run has answered that the upgrade is done, and until the seed that follows
\* it is, nothing is taken back.
Seeding(r) == Upgraded(r) \/ tx[r].pc # "idle"
AtHead == version = HeadRevision /\ \A q \in Runs : ~ Downgrading(q)
SchemaInv == downgrades \in Nat /\ \A r \in Runs : Seeding(r) => AtHead

LEMMA SetRunKeeps ==
    ASSUME IInv, NEW r \in Runs, NEW v \in Run, SetRun(r, v)
    PROVE  run'[r] = v /\ \A q \in Runs : q # r => run'[q] = run[q]
  BY SetRunOK DEF IInv

\* A run that does not begin a downgrade, with the version as it was.
LEMMA RunGoesOn ==
    ASSUME IInv, SchemaInv, NEW r \in Runs, NEW v \in Run, SetRun(r, v),
           UNCHANGED <<version, downgrades, tx>>,
           v.pc = "working" /\ v.mode = "down" => Downgrading(r),
           v.pc = "ok" /\ v.mode = "up" => AtHead
    PROVE  SchemaInv'
  <1>1. run'[r] = v /\ \A q \in Runs : q # r => run'[q] = run[q]
    BY SetRunKeeps
  <1>2. \A q \in Runs : Downgrading(q)' => Downgrading(q)
    BY <1>1 DEF Downgrading, Working
  <1>3. \A q \in Runs : Seeding(q)' => Seeding(q) \/ AtHead
    BY <1>1 DEF Seeding, Upgraded
  <1>. QED  BY <1>2, <1>3 DEF SchemaInv, AtHead

LEMMA RecordSchema ==
    ASSUME IInv, SchemaInv, NEW r \in Runs, Record(r), UNCHANGED tx
    PROVE  SchemaInv'
  <1>0. PICK k, v : k = run[r].at /\ v = NextRevision(r)
    OBVIOUS
  <1>1. /\ k \in 1..4 /\ SetRun(r, v) /\ version = From(r) /\ version' = To(r)
        /\ downgrades' = downgrades /\ Working(r)
    BY <1>0, RunFacts DEF Record, AllDone
  <1>2. CASE Upgrading(r)
    <2>1. version = k - 1 /\ version' = k
      BY <1>0, <1>1, <1>2 DEF From, To, Upgrading
    <2>2. \A q \in Runs : ~ Downgrading(q) /\ ~ Seeding(q)
      BY <1>1, <1>2, <2>1 DEF IInv, Alone, SchemaInv, AtHead, HeadRevision, Upgrading,
                              Downgrading
    <2>3. CASE k < 4
      <3>1. k + 1 \in Revisions /\ 1 \in Nat \ {0}
        BY <1>1, <2>3 DEF Revisions, HeadRevision
      <3>2. v = [run[r] EXCEPT !.at = @ + 1, !.i = 1]
        BY <1>0, <1>2, <2>3 DEF NextRevision, Upgrading, HeadRevision
      <3>3. v \in Run /\ v.pc = "working" /\ v.mode = "up"
        BY <1>0, <1>2, <3>1, <3>2, RunFacts DEF Run, Upgrading, Working
      <3>4. \A q \in Runs : ~ Seeding(q)'
        BY <1>1, <2>2, <3>3, SetRunKeeps DEF Seeding, Upgraded
      <3>. QED  BY <1>1, <3>4 DEF SchemaInv
    <2>4. CASE ~ k < 4
      <3>1. v = Ended(r, "ok")
        BY <1>0, <1>2, <2>4 DEF NextRevision, Upgrading, HeadRevision
      <3>2. v \in Run /\ v.pc = "ok"
        BY <3>1, EndedRun DEF IInv
      <3>3. \A q \in Runs : ~ Downgrading(q)'
        BY <1>1, <2>2, <3>2, SetRunKeeps DEF Downgrading, Working
      <3>4. version' = HeadRevision
        BY <1>1, <2>1, <2>4 DEF HeadRevision
      <3>. QED  BY <1>1, <3>3, <3>4 DEF SchemaInv, AtHead
    <2>. QED  BY <2>3, <2>4
  <1>3. CASE Downgrading(r)
    <2>1. \A q \in Runs : ~ Seeding(q)
      BY <1>3 DEF SchemaInv, AtHead
    <2>2. v \in Run /\ v.mode = "down"
      <3>1. CASE k - 1 > run[r].goal
        <4>1. k - 1 \in Revisions /\ 1 \in Nat \ {0}
          BY <1>1, <3>1, RunFacts DEF Revisions, HeadRevision
        <4>2. v = [run[r] EXCEPT !.at = @ - 1, !.i = 1]
          BY <1>0, <1>3, <3>1 DEF NextRevision, Downgrading
        <4>. QED  BY <1>0, <1>3, <4>1, <4>2, RunFacts DEF Run, Downgrading
      <3>2. CASE ~ k - 1 > run[r].goal
        <4>1. v = Ended(r, "ok")
          BY <1>0, <1>3, <3>2 DEF NextRevision, Downgrading
        <4>2. Ended(r, "ok").mode = "down"
          BY <1>3, NoRunIsIdle DEF Ended, Downgrading, Run
        <4>. QED  BY <4>1, <4>2, EndedRun DEF IInv
      <3>. QED  BY <3>1, <3>2
    <2>3. \A q \in Runs : ~ Seeding(q)'
      BY <1>1, <2>1, <2>2, SetRunKeeps DEF Seeding, Upgraded
    <2>. QED  BY <1>1, <2>3 DEF SchemaInv
  <1>. QED  BY <1>1, <1>2, <1>3, RunFacts

LEMMA MigrateSchema ==
    ASSUME IInv, SchemaInv, NEW r \in Runs, Migrate(r)
    PROVE  SchemaInv'
  <1>0. /\ MigrationStep(r) /\ UNCHANGED tx /\ run[r] \in Run
        /\ downgrades' > downgrades => Quiet
    BY RunFacts DEF Migrate
  <1>1. CASE StartUpgrade(r)
    <2>1. /\ run[r].pc = "idle" /\ (\A q \in Runs : ~ Downgrading(q))
          /\ UNCHANGED <<version, downgrades>>
      BY <1>1 DEF StartUpgrade
    <2>2. CASE version = HeadRevision
      <3>. DEFINE v == [NoRun EXCEPT !.pc = "ok"]
      <3>1. v \in Run /\ v.pc = "ok" /\ SetRun(r, v)
        BY <1>1, <2>2, NoRunIsIdle DEF StartUpgrade, Run
      <3>. HIDE DEF v
      <3>. QED  BY <1>0, <2>1, <2>2, <3>1, RunGoesOn DEF AtHead
    <2>3. CASE version # HeadRevision
      <3>. DEFINE v == [NoRun EXCEPT !.pc = "working", !.at = version + 1]
      <3>1. version + 1 \in Revisions
        BY <2>3, RunFacts DEF Revisions, HeadRevision
      <3>2. v \in Run /\ v.pc = "working" /\ v.mode = "up" /\ SetRun(r, v)
        BY <1>1, <2>3, <3>1, NoRunIsIdle DEF StartUpgrade, Run, NoRun
      <3>. HIDE DEF v
      <3>. QED  BY <1>0, <2>1, <3>2, RunGoesOn
    <2>. QED  BY <2>2, <2>3
  <1>2. CASE StartDowngrade(r)
    <2>1. /\ \A q \in Runs : run[q].pc = "idle"
          /\ downgrades' = downgrades + 1
      BY <1>2 DEF StartDowngrade
    <2>2. Quiet /\ downgrades' \in Nat
      BY <1>0, <2>1 DEF SchemaInv
    <2>3. PICK goal \in 0..(version - 1) :
            SetRun(r, [NoRun EXCEPT !.pc = "working", !.mode = "down",
                                    !.at = version, !.goal = goal])
      BY <1>2 DEF StartDowngrade
    <2>4. /\ run'[r].pc = "working"
          /\ \A q \in Runs : q # r => run'[q] = run[q]
      BY <2>3 DEF SetRun, NoRun, IInv, MigrationTypes
    <2>5. \A q \in Runs : ~ Seeding(q)'
      BY <1>0, <2>1, <2>2, <2>4 DEF Quiet, Parties, Seeding, Upgraded
    <2>. QED  BY <2>2, <2>5 DEF SchemaInv
  <1>3. CASE Inspect(r) \/ Execute(r)
    <2>1. /\ Working(r) /\ UNCHANGED <<version, downgrades>>
          /\ \/ SetRun(r, [run[r] EXCEPT !.i = @ + 1, !.absent = FALSE])
             \/ SetRun(r, [run[r] EXCEPT !.absent = TRUE])
      BY <1>3 DEF Inspect, Execute, InScript, Advance
    <2>2. CASE SetRun(r, [run[r] EXCEPT !.i = @ + 1, !.absent = FALSE])
      <3>. DEFINE v == [run[r] EXCEPT !.i = @ + 1, !.absent = FALSE]
      <3>1. run[r].i + 1 \in Nat \ {0}
        BY RunFacts
      <3>2. v \in Run /\ v.pc = "working" /\ v.mode = run[r].mode
        BY <1>0, <2>1, <3>1 DEF Run, Working
      <3>3. SetRun(r, v)
        BY <2>2
      <3>. HIDE DEF v
      <3>. QED  BY <1>0, <2>1, <3>2, <3>3, RunGoesOn DEF Downgrading
    <2>3. CASE SetRun(r, [run[r] EXCEPT !.absent = TRUE])
      <3>. DEFINE v == [run[r] EXCEPT !.absent = TRUE]
      <3>2. v \in Run /\ v.pc = "working" /\ v.mode = run[r].mode
        BY <1>0, <2>1 DEF Run, Working
      <3>3. SetRun(r, v)
        BY <2>3
      <3>. HIDE DEF v
      <3>. QED  BY <1>0, <2>1, <3>2, <3>3, RunGoesOn DEF Downgrading
    <2>. QED  BY <2>1, <2>2, <2>3
  <1>4. CASE Record(r)
    BY <1>0, <1>4, RecordSchema
  <1>5. CASE Refused(r) \/ RecordRefused(r) \/ Interrupt(r)
    <2>1. SetRun(r, Ended(r, "failed")) /\ UNCHANGED <<version, downgrades>>
      BY <1>5 DEF Refused, RecordRefused, Interrupt
    <2>2. Ended(r, "failed") \in Run /\ Ended(r, "failed").pc = "failed"
      BY EndedRun DEF IInv
    <2>. QED  BY <1>0, <2>1, <2>2, RunGoesOn
  <1>6. CASE Release(r)
    <2>1. SetRun(r, NoRun) /\ UNCHANGED <<version, downgrades>>
      BY <1>6 DEF Release
    <2>. QED  BY <1>0, <2>1, NoRunIsIdle, RunGoesOn
  <1>. QED  BY <1>0, <1>1, <1>2, <1>3, <1>4, <1>5, <1>6 DEF MigrationStep, Progress

LEMMA BeginBootstrapSchema ==
    ASSUME IInv, TxInv, SchemaInv, NEW r \in Runs, BeginBootstrap(r)
    PROVE  SchemaInv'
  <1>1. AtHead
    BY DEF BeginBootstrap, SchemaInv, Seeding
  <1>2. SetRun(r, NoRun) /\ UNCHANGED <<version, downgrades>>
    BY DEF BeginBootstrap
  <1>3. \A q \in Runs : ~ Downgrading(q)'
    BY <1>1, <1>2, NoRunIsIdle, SetRunKeeps DEF AtHead, Downgrading, Working
  <1>. QED  BY <1>1, <1>2, <1>3 DEF SchemaInv, AtHead

\* Requests, and transactions that go on or end.
LEMMA TxSchema ==
    ASSUME TxInv, SchemaInv, UNCHANGED <<version, run, downgrades>>,
           \A r \in Runs : tx'[r] = tx[r] \/ tx[r].pc # "idle"
    PROVE  SchemaInv'
  BY DEF SchemaInv, Seeding, AtHead, Upgraded, Downgrading, Working

LEMMA TxStepIsBusy ==
    ASSUME TxInv, NEW w \in Parties, TxStep(w) \/ Abort(w)
    PROVE  tx[w].pc # "idle" /\ \A v \in Parties : v # w => tx'[v] = tx[v]
  <1>1. tx[w].pc # "idle"
    BY DEF TxStep, Abort, LockUsers, SeedCommit, SeedRefused, InsertUser, CommitUser,
           UpdateProfile, ClearDefaults, Deadlock, CommitAddress
  <1>2. ASSUME NEW t, SetTx(w, t) PROVE \A v \in Parties : v # w => tx'[v] = tx[v]
    BY <1>2 DEF SetTx, TxInv, TxTypes
  <1>3. CASE \/ SeedCommit(w) \/ SeedRefused(w) \/ Abort(w) \/ CommitUser(w)
             \/ UpdateProfile(w) \/ Deadlock(w) \/ CommitAddress(w)
    <2>1. SetTx(w, Idle)
      BY <1>3 DEF SeedCommit, SeedRefused, Abort, CommitUser, UpdateProfile, Deadlock,
                  CommitAddress
    <2>. QED  BY <1>1, <1>2, <2>1
  <1>4. CASE LockUsers(w)
    <2>1. PICK t : SetTx(w, t)
      BY <1>4, Zenon DEF LockUsers
    <2>. QED  BY <1>1, <1>2, <2>1
  <1>5. CASE InsertUser(w)
    <2>1. PICK t : SetTx(w, t)
      BY <1>5, Zenon DEF InsertUser, Goes
    <2>. QED  BY <1>1, <1>2, <2>1
  <1>6. CASE ClearDefaults(w)
    <2>1. PICK t : SetTx(w, t)
      BY <1>6, Zenon DEF ClearDefaults
    <2>. QED  BY <1>1, <1>2, <2>1
  <1>. QED  BY <1>3, <1>4, <1>5, <1>6 DEF TxStep

LEMMA BeginIsAClients ==
    ASSUME TxInv, NEW c \in Clients, Begin(c)
    PROVE  \A r \in Runs : tx'[r] = tx[r]
  <1>1. ASSUME NEW t, SetTx(c, t) PROVE \A r \in Runs : tx'[r] = tx[r]
    BY <1>1, PartiesAssumption DEF SetTx, TxInv, TxTypes, Parties
  <1>2. UNCHANGED tx \/ \E t : SetTx(c, t)
    <2>1. CASE BeginScript(c)
      BY <2>1, Zenon DEF BeginScript
    <2>2. ASSUME NEW e \in Emails, BeginRegister(c, e) PROVE \E t : SetTx(c, t)
      BY <2>2, Zenon DEF BeginRegister
    <2>3. ASSUME NEW e \in Emails, BeginProfile(c, e) PROVE \E t : SetTx(c, t)
      BY <2>3, Zenon DEF BeginProfile
    <2>4. ASSUME NEW e \in Emails, NEW home \in {FALSE, e = Demo}, BeginAddress(c, e, home)
          PROVE  \E t : SetTx(c, t)
      <3>1. PICK a \in Ids :
              SetTx(c, [Idle EXCEPT !.job = "address", !.pc = "clear", !.who = e,
                                    !.a = a, !.home = home])
        BY <2>4 DEF BeginAddress
      <3>. QED  BY <3>1, Zenon
    <2>5. ASSUME NEW e \in Emails, NEW home \in {FALSE, e = Demo}, AddAddress(c, e, home)
          PROVE  UNCHANGED tx
      BY <2>5 DEF AddAddress
    <2>. QED  BY <2>1, <2>2, <2>3, <2>4, <2>5 DEF Begin
  <1>. QED  BY <1>1, <1>2

-----------------------------------------------------------------------------
(***************************************************************************)
(* The inductive invariant and the theorems.                               *)
(***************************************************************************)

BInv == TxInv /\ AccountInv /\ AddressInv /\ SchemaInv

LEMMA BInvInit == Init => BInv
  <1>. SUFFICES ASSUME Init PROVE BInv
    OBVIOUS
  <1>1. /\ tx = [w \in Parties |-> Idle] /\ users = Nobody /\ addrs = Nowhere
        /\ earned = [e \in Emails |-> 0] /\ creator = [e \in Emails |-> {}]
        /\ downgrades = 0 /\ \A r \in Runs : run[r].pc = "idle"
    BY NoRunIsIdle DEF Init, MigrationInit
  <1>2. TxInv
    BY <1>1, IdleIsTransaction
       DEF TxInv, TxTypes, Asks, Askers, JobFits, Apart, Registering, Locking
  <1>3. NoAccount \in Account /\ NoAccount.secret = NoOne /\ NoAccount.points = 0
    BY DEF NoAccount, Account
  <1>4. AccountInv
    <2>1. AccountTypes
      BY <1>1, <1>3 DEF AccountTypes, Nobody
    <2>2. Told /\ (\A e \in Emails : AtMostOne(creator[e])) /\ AccountIsTheirs
      BY <1>1 DEF Told, AtMostOne, AccountIsTheirs
    <2>3. PointsAreExact
      BY <1>1, <1>3 DEF PointsAreExact, Nobody
    <2>4. Found
      BY <1>1, IdleIsTransaction DEF Found, Registering
    <2>. QED  BY <2>1, <2>2, <2>3, <2>4 DEF AccountInv
  <1>5. AddressInv
    <2>1. NoAddress \in Address /\ ~ NoAddress.default
      BY DEF NoAddress, Address
    <2>2. addrs \in [Ids -> Address] /\ \A e \in Emails : Defaulted(e) = {}
      BY <1>1, <2>1 DEF Nowhere, Defaulted
    <2>. QED  BY <1>1, <2>2, IdleIsTransaction DEF AddressInv, AtMostOne, Locking
  <1>6. SchemaInv
    BY <1>1, IdleIsTransaction DEF SchemaInv, Seeding, Upgraded, Parties
  <1>. QED  BY <1>2, <1>4, <1>5, <1>6 DEF BInv

LEMMA StepOfTx ==
    ASSUME IInv, BInv, NEW w \in Parties, TxStep(w) \/ Abort(w)
    PROVE  BInv'
  <1>1. TxInv' /\ AccountInv'
    BY TxStepTx, TxStepAccounts DEF BInv, AccountInv
  <1>2. AddressInv'
    <2>0. /\ tx[w] \in Transaction /\ JobFits(w)
          /\ \A v \in Parties : v # w => tx'[v] = tx[v]
      BY TxStepIsBusy, TxFacts DEF BInv
    <2>1. CASE SeedCommit(w)
      BY <2>1, SeedAddresses DEF BInv
    <2>2. CASE CommitAddress(w)
      BY <2>2, CommitAddresses DEF BInv
    <2>3. CASE ClearDefaults(w)
      BY <2>3, ClearAddresses DEF BInv
    <2>4. CASE SeedRefused(w) \/ Abort(w) \/ CommitUser(w) \/ UpdateProfile(w) \/ Deadlock(w)
      <3>1. SetTx(w, Idle) /\ UNCHANGED addrs
        BY <2>4 DEF SeedRefused, Abort, CommitUser, UpdateProfile, Deadlock, people
      <3>. QED  BY <3>1, IdleLocksNothing, AddressesUnchanged DEF BInv
    <2>5. CASE LockUsers(w) \/ InsertUser(w)
      <3>1. UNCHANGED addrs /\ tx[w].pc \in {"lock", "insert"}
        BY <2>5 DEF LockUsers, InsertUser, people
      <3>2. tx[w].job # "address"
        BY <2>0, <3>1 DEF JobFits
      <3>3. ~ Locking(w)'
        <4>1. CASE LockUsers(w)
          <5>1. PICK s : tx' = [tx EXCEPT ![w] = [tx[w] EXCEPT !.pc = "write", !.snap = s]]
            BY <4>1, Zenon DEF LockUsers, SetTx
          <5>. QED  BY <2>0, <3>2, <5>1 DEF BInv, TxInv, TxTypes, Transaction, Locking
        <4>2. CASE InsertUser(w)
          <5>1. SetTx(w, Idle) \/ SetTx(w, [tx[w] EXCEPT !.pc = "commit"])
            BY <4>2 DEF InsertUser, Goes
          <5>2. CASE SetTx(w, Idle)
            BY <5>2, IdleLocksNothing DEF BInv
          <5>3. CASE SetTx(w, [tx[w] EXCEPT !.pc = "commit"])
            BY <2>0, <3>2, <5>3 DEF SetTx, BInv, TxInv, TxTypes, Transaction, Locking
          <5>. QED  BY <5>1, <5>2, <5>3
        <4>. QED  BY <2>5, <4>1, <4>2
      <3>. QED  BY <2>0, <3>1, <3>3, AddressesUnchanged DEF BInv
    <2>. QED  BY <2>1, <2>2, <2>3, <2>4, <2>5 DEF TxStep
  <1>3. SchemaInv'
    <2>1. UNCHANGED <<version, run, downgrades>>
      BY TxStepMigrations DEF StoreValues, migrationVars
    <2>2. \A r \in Runs : tx'[r] = tx[r] \/ tx[r].pc # "idle"
      BY TxStepIsBusy DEF BInv, Parties
    <2>. QED  BY <2>1, <2>2, TxSchema DEF BInv
  <1>. QED  BY <1>1, <1>2, <1>3 DEF BInv

LEMMA BeginStep ==
    ASSUME IInv, BInv, NEW c \in Clients, Begin(c)
    PROVE  BInv'
  <1>1. TxInv' /\ AccountInv'
    BY BeginTx, RequestAccounts DEF BInv, AccountInv
  <1>2. UNCHANGED <<version, run, downgrades>>
    BY DEF Begin, BeginScript, BeginRegister, BeginProfile, AddAddress, BeginAddress,
           migrationVars
  <1>3. SchemaInv'
    <2>1. \A r \in Runs : tx'[r] = tx[r]
      BY BeginIsAClients DEF BInv
    <2>. QED  BY <1>2, <2>1, TxSchema DEF BInv
  <1>4. CASE \E e \in Emails : \E home \in {FALSE, e = Demo} : AddAddress(c, e, home)
    BY <1>1, <1>3, <1>4, AddAddresses DEF BInv
  <1>5. CASE ~ \E e \in Emails : \E home \in {FALSE, e = Demo} : AddAddress(c, e, home)
    <2>1. UNCHANGED addrs
      BY <1>5 DEF Begin, BeginScript, BeginRegister, BeginProfile, BeginAddress, people
    <2>2. \A v \in Parties : Locking(v)' => tx'[v] = tx[v]
      BY BeginsEarly DEF BInv, Parties, Locking
    <2>3. AddressInv'
      BY <2>1, <2>2, AddressesUnchanged DEF BInv
    <2>. QED  BY <1>1, <1>3, <2>3 DEF BInv
  <1>. QED  BY <1>4, <1>5

LEMMA BInvStep == IInv /\ BInv /\ [Next]_vars => BInv'
  <1>. SUFFICES ASSUME IInv, BInv, [Next]_vars PROVE BInv'
    OBVIOUS
  <1>1. ASSUME NEW r \in Runs, Migrate(r) PROVE BInv'
    <2>1. UNCHANGED tx
      BY <1>1 DEF Migrate
    <2>2. TxInv'
      BY <2>1 DEF BInv, TxInv, TxTypes, Asks, Askers, JobFits, Apart, Registering, Locking
    <2>. QED  BY <1>1, <2>2, MigrateAccounts, MigrateAddresses, MigrateSchema DEF BInv
  <1>2. ASSUME NEW r \in Runs, BeginBootstrap(r) PROVE BInv'
    <2>1. TxInv' /\ AccountInv' /\ SchemaInv'
      BY <1>2, BeginBootstrapTx, RequestAccounts, BeginBootstrapSchema DEF BInv, AccountInv
    <2>2. UNCHANGED addrs /\ \A v \in Parties : Locking(v)' => tx'[v] = tx[v]
      BY <1>2, BeginsEarly DEF BInv, Parties, Locking, BeginBootstrap, people
    <2>. QED  BY <2>1, <2>2, AddressesUnchanged DEF BInv
  <1>3. ASSUME NEW c \in Clients, Begin(c) PROVE BInv'
    BY <1>3, BeginStep
  <1>4. ASSUME NEW w \in Parties, TxStep(w) \/ Abort(w) PROVE BInv'
    BY <1>4, StepOfTx
  <1>5. ASSUME NEW e \in Emails, EarnPoints(e) PROVE BInv'
    <2>1. UNCHANGED <<tx, addrs, version, run, downgrades>>
      BY <1>5 DEF EarnPoints, migrationVars
    <2>2. TxInv' /\ SchemaInv'
      BY <2>1 DEF BInv, TxInv, TxTypes, Asks, Askers, JobFits, Apart, Registering, Locking,
                  SchemaInv, Seeding, AtHead, Upgraded, Downgrading, Working
    <2>3. AddressInv'
      BY <2>1, AddressesUnchanged DEF BInv
    <2>. QED  BY <1>5, <2>2, <2>3, EarnPointsAccounts DEF BInv
  <1>6. ASSUME NEW e \in Emails, NEW a \in Ids, DeleteAddress(e, a) PROVE BInv'
    <2>1. UNCHANGED <<tx, version, run, downgrades>>
      BY <1>6 DEF DeleteAddress, migrationVars
    <2>2. TxInv' /\ SchemaInv'
      BY <2>1 DEF BInv, TxInv, TxTypes, Asks, Askers, JobFits, Apart, Registering, Locking,
                  SchemaInv, Seeding, AtHead, Upgraded, Downgrading, Working
    <2>. QED  BY <1>6, <2>2, RequestAccounts, DeleteAddresses DEF BInv
  <1>7. CASE UNCHANGED vars
    <2>1. UNCHANGED <<tx, users, earned, creator, addrs, version, run, downgrades>>
      BY <1>7 DEF vars, people, migrationVars
    <2>2. TxInv' /\ SchemaInv'
      BY <2>1 DEF BInv, TxInv, TxTypes, Asks, Askers, JobFits, Apart, Registering, Locking,
                  SchemaInv, Seeding, AtHead, Upgraded, Downgrading, Working
    <2>3. AccountInv' /\ AddressInv'
      BY <2>1, AccountsStay, AddressesUnchanged DEF BInv, Registering
    <2>. QED  BY <2>2, <2>3 DEF BInv
  <1>. QED  BY <1>1, <1>2, <1>3, <1>4, <1>5, <1>6, <1>7 DEF Next

LEMMA BootstrapInvariance == Spec => []BInv
  BY BInvInit, BInvStep, WholeInvariance, PTL DEF Spec

\* POST /internal/bootstrap seeds the schema of the head: its own upgrade is enough.
THEOREM TheSeedFindsItsSchema == Spec => []SeedFindsSchema
  <1>1. BInv => SeedFindsSchema
    BY DEF BInv, SchemaInv, Seeding, AtHead, SeedFindsSchema
  <1>. QED  BY <1>1, BootstrapInvariance, PTL

\* POST /auth/register and the bootstrap: one creator of an account.
THEOREM OneCreatorEach == Spec => []OneCreator
  <1>1. BInv => OneCreator
    BY AtMostOneCounts DEF BInv, AccountInv, OneCreator
  <1>. QED  BY <1>1, BootstrapInvariance, PTL

\* A registration that was confirmed is the account of who made it.
THEOREM TheAccountIsTheirs == Spec => []AccountIsTheirs
  <1>1. BInv => AccountIsTheirs
    BY DEF BInv, AccountInv
  <1>. QED  BY <1>1, BootstrapInvariance, PTL

\* Points credited by orders survive registrations, seeds and profile changes.
THEOREM NoPointIsLost == Spec => []PointsAreExact
  <1>1. BInv => PointsAreExact
    BY DEF BInv, AccountInv
  <1>. QED  BY <1>1, BootstrapInvariance, PTL

\* set_default leaves one default address.
THEOREM OneDefaultEach == Spec => []OneDefault
  <1>1. BInv => OneDefault
    BY AtMostOneCounts DEF BInv, AddressInv, OneDefault, Defaulted
  <1>. QED  BY <1>1, BootstrapInvariance, PTL

-----------------------------------------------------------------------------
(***************************************************************************)
(* "Casa Demo".  A seed that has looked at the demo data, before or after  *)
(* its locks, saw the catalog with the address or neither: the two are     *)
(* committed together, the table of the addresses is made when there are   *)
(* no rows, and it is not dropped while a seed that has read it goes on.   *)
(***************************************************************************)

Looked(w) == tx[w].pc = "write" \/ tx[w].job = "bootstrap"

SeedJobs ==
    \A w \in Parties :
      /\ tx[w].pc \in {"lock", "write"} => tx[w].job \in {"bootstrap", "script"}
      /\ tx[w].job = "bootstrap" => tx[w].pc # "idle"

SeededHomes ==
    /\ "addresses" \notin schema => Homes = {} /\ ~ touched
    /\ "addresses" \in schema /\ tags # "none" /\ ~ touched => Homes # {}
    /\ Homes # {} /\ ~ touched => tags # "none"
    /\ ~ touched => AtMostOne(Homes)

\* The id of an address that is inserted and not committed is nobody else's.
NewAddresses ==
    \A w \in Parties : tx[w].job = "address" =>
      /\ "addresses" \in schema
      /\ tx[w].a \in Ids /\ addrs[tx[w].a].owner = NoOne
      /\ \A v \in Parties : v # w /\ tx[v].job = "address" => tx[v].a # tx[w].a

SoundView(snap) ==
    /\ snap.homes # {} => snap.seeded
    /\ snap.seeded => tags # "none"
    /\ "addresses" \in schema =>
         (snap.seeded => snap.homes # {}) /\ snap.homes \subseteq Homes

Views == \A w \in Parties : Looked(w) /\ ~ touched => SoundView(tx[w].snap)

HomeInv == SeedJobs /\ SeededHomes /\ NewAddresses /\ Views

LEMMA ViewIsSound ==
    ASSUME SeededHomes, ~ touched
    PROVE  SoundView(View(Demo))
  BY DEF SeededHomes, SoundView, View

\* A transaction that changes nothing but where it stands.
LEMMA HomeTx ==
    ASSUME HomeInv, UNCHANGED <<schema, tags, addrs, touched>>, NEW w \in Parties,
           \A v \in Parties : v # w => tx'[v] = tx[v],
           tx'[w].pc \in {"lock", "write"} => tx'[w].job \in {"bootstrap", "script"},
           tx'[w].job = "bootstrap" => tx'[w].pc # "idle",
           tx'[w].job = "address" =>
             /\ "addresses" \in schema
             /\ tx'[w].a \in Ids /\ addrs[tx'[w].a].owner = NoOne
             /\ \A v \in Parties : v # w /\ tx[v].job = "address" => tx[v].a # tx'[w].a,
           tx'[w].pc = "write" \/ tx'[w].job = "bootstrap" =>
             \/ tx'[w].snap = View(Demo)
             \/ Looked(w) /\ tx'[w].snap = tx[w].snap
    PROVE  HomeInv'
  <1>1. SeedJobs'
    BY DEF HomeInv, SeedJobs
  <1>2. SeededHomes'
    BY DEF HomeInv, SeededHomes, Homes, AtMostOne
  <1>3. NewAddresses'
    <2>1. ASSUME NEW v \in Parties, tx'[v].job = "address"
          PROVE  /\ "addresses" \in schema /\ tx'[v].a \in Ids
                 /\ addrs[tx'[v].a].owner = NoOne
                 /\ \A u \in Parties : u # v /\ tx'[u].job = "address" => tx'[u].a # tx'[v].a
      <3>1. CASE v = w
        BY <2>1, <3>1
      <3>2. CASE v # w
        BY <2>1, <3>2 DEF HomeInv, NewAddresses
      <3>. QED  BY <3>1, <3>2
    <2>. QED  BY <2>1 DEF NewAddresses
  <1>4. ASSUME NEW v \in Parties, Looked(v)', ~ touched' PROVE SoundView(tx[v].snap)'
    <2>1. PICK s : s = tx'[v].snap
      OBVIOUS
    <2>2. SoundView(s)
      <3>1. CASE v # w
        BY <1>4, <2>1, <3>1 DEF HomeInv, Views, Looked
      <3>2. CASE v = w /\ s = View(Demo)
        BY <1>4, <3>2, ViewIsSound DEF HomeInv
      <3>3. CASE v = w /\ Looked(w) /\ s = tx[w].snap
        BY <1>4, <3>3 DEF HomeInv, Views
      <3>. QED  BY <1>4, <2>1, <3>1, <3>2, <3>3 DEF Looked
    <2>. QED  BY <2>1, <2>2 DEF SoundView, Homes
  <1>. QED  BY <1>1, <1>2, <1>3, <1>4 DEF HomeInv, Views

LEMMA HomeIdles ==
    ASSUME TxInv, HomeInv, UNCHANGED <<schema, tags, addrs, touched>>,
           NEW w \in Parties, SetTx(w, Idle)
    PROVE  HomeInv'
  <1>1. tx'[w] = Idle /\ \A v \in Parties : v # w => tx'[v] = tx[v]
    BY IdleIsTransaction, SetTxOK DEF TxInv
  <1>. QED  BY <1>1, IdleIsTransaction, HomeTx

LEMMA HomeStays ==
    ASSUME HomeInv, UNCHANGED <<schema, tags, addrs, touched, tx>>
    PROVE  HomeInv'
  BY DEF HomeInv, SeedJobs, SeededHomes, NewAddresses, Views, SoundView, Homes, Looked, AtMostOne

LEMMA SetTxGives ==
    ASSUME TxInv, NEW w \in Parties, NEW t, SetTx(w, t)
    PROVE  tx'[w] = t /\ \A v \in Parties : v # w => tx'[v] = tx[v]
  BY DEF TxInv, TxTypes, SetTx

LEMMA BootstrapHome ==
    ASSUME TxInv, HomeInv, NEW r \in Runs, BeginBootstrap(r)
    PROVE  HomeInv'
  <1>. DEFINE t == [Idle EXCEPT !.job = "bootstrap", !.pc = "lock", !.snap = View(Demo)]
  <1>1. SetTx(r, t) /\ UNCHANGED <<schema, tags, addrs, touched>> /\ r \in Parties
    BY DEF BeginBootstrap, people, Parties
  <1>2. t.job = "bootstrap" /\ t.pc = "lock" /\ t.snap = View(Demo)
    BY DEF Idle
  <1>. HIDE DEF t
  <1>3. tx'[r] = t /\ \A v \in Parties : v # r => tx'[v] = tx[v]
    BY <1>1, SetTxGives
  <1>. QED  BY <1>1, <1>2, <1>3, HomeTx

\* An id that is fresh.
LEMMA FreshFacts ==
    ASSUME NEW a \in Ids, Fresh(a)
    PROVE  addrs[a].owner = NoOne /\ \A w \in Parties : tx[w].a # a
  BY DEF Fresh

LEMMA AddHome ==
    ASSUME TxInv, AddressInv, HomeInv, NEW c \in Clients, NEW e \in Emails,
           NEW home \in {FALSE, e = Demo}, AddAddress(c, e, home)
    PROVE  HomeInv'
  <1>1. PICK a \in Ids :
          /\ Fresh(a)
          /\ addrs' = [addrs EXCEPT ![a] = [owner |-> e, home |-> home, default |-> FALSE]]
    BY DEF AddAddress
  <1>2. /\ UNCHANGED <<schema, tags, tx>> /\ touched' = (touched \/ home)
        /\ "addresses" \in schema
    <2>1. UNCHANGED <<schema, tags, tx>> /\ touched' = (touched \/ home)
      BY DEF AddAddress, migrationVars
    <2>2. "addresses" \in ToSet(Tables)
      BY FirstTables, ObjectLists
    <2>3. ToSet(Tables) \subseteq schema
      BY DEF AddAddress, Serving
    <2>. QED  BY <2>1, <2>2, <2>3
  <1>3. addrs[a].owner = NoOne /\ \A w \in Parties : tx[w].a # a
    BY <1>1, FreshFacts
  <1>4. /\ addrs'[a].home = home
        /\ \A b \in Ids : b # a => addrs'[b] = addrs[b]
    BY <1>1 DEF AddressInv
  <1>5. ~ touched' => Homes' = Homes /\ ~ touched
    BY <1>2, <1>3, <1>4, DemoFacts DEF Homes
  <1>6. SeededHomes'
    BY <1>2, <1>5 DEF HomeInv, SeededHomes, AtMostOne
  <1>7. Views'
    BY <1>2, <1>5 DEF HomeInv, Views, Looked, SoundView
  <1>8. NewAddresses'
    BY <1>2, <1>3, <1>4 DEF HomeInv, NewAddresses
  <1>9. SeedJobs'
    BY <1>2 DEF HomeInv, SeedJobs
  <1>. QED  BY <1>6, <1>7, <1>8, <1>9 DEF HomeInv

LEMMA BeginHome ==
    ASSUME TxInv, AddressInv, HomeInv, NEW c \in Clients, Begin(c)
    PROVE  HomeInv'
  <1>0. c \in Parties
    BY DEF Parties
  <1>1. ASSUME NEW t, SetTx(c, t), UNCHANGED <<schema, tags, addrs, touched>>,
               \/ t.job = "script" /\ t.pc = "lock"
               \/ t.job \in {"register", "profile"} /\ t.pc \in {"insert", "update"}
        PROVE  HomeInv'
    <2>1. tx'[c] = t /\ \A v \in Parties : v # c => tx'[v] = tx[v]
      BY <1>0, <1>1, SetTxGives
    <2>. QED  BY <1>0, <1>1, <2>1, HomeTx
  <1>2. CASE BeginScript(c)
    <2>. DEFINE t == [Idle EXCEPT !.job = "script", !.pc = "lock"]
    <2>1. SetTx(c, t) /\ UNCHANGED <<schema, tags, addrs, touched>>
      BY <1>2 DEF BeginScript, people, migrationVars
    <2>2. t.job = "script" /\ t.pc = "lock"
      BY DEF Idle
    <2>. HIDE DEF t
    <2>. QED  BY <1>1, <2>1, <2>2
  <1>3. ASSUME NEW e \in Emails, BeginRegister(c, e) PROVE HomeInv'
    <2>. DEFINE t == [Idle EXCEPT !.job = "register", !.pc = "insert", !.who = e]
    <2>1. SetTx(c, t) /\ UNCHANGED <<schema, tags, addrs, touched>>
      BY <1>3 DEF BeginRegister, people, migrationVars
    <2>2. t.job = "register" /\ t.pc = "insert"
      BY DEF Idle
    <2>. HIDE DEF t
    <2>. QED  BY <1>1, <2>1, <2>2
  <1>4. ASSUME NEW e \in Emails, BeginProfile(c, e) PROVE HomeInv'
    <2>. DEFINE s == [NoView EXCEPT !.points = users[e].points]
                t == [Idle EXCEPT !.job = "profile", !.pc = "update", !.who = e, !.snap = s]
    <2>1. SetTx(c, t) /\ UNCHANGED <<schema, tags, addrs, touched>>
      BY <1>4 DEF BeginProfile, people, migrationVars
    <2>. HIDE DEF s
    <2>2. t.job = "profile" /\ t.pc = "update"
      BY DEF Idle
    <2>. HIDE DEF t
    <2>. QED  BY <1>1, <2>1, <2>2
  <1>5. ASSUME NEW e \in Emails, NEW home \in {FALSE, e = Demo}, BeginAddress(c, e, home)
        PROVE  HomeInv'
    <2>1. PICK a \in Ids :
            /\ Fresh(a)
            /\ SetTx(c, [Idle EXCEPT !.job = "address", !.pc = "clear", !.who = e,
                                     !.a = a, !.home = home])
      BY <1>5 DEF BeginAddress
    <2>. DEFINE t == [Idle EXCEPT !.job = "address", !.pc = "clear", !.who = e,
                                  !.a = a, !.home = home]
    <2>2. t.job = "address" /\ t.pc = "clear" /\ t.a = a
      BY DEF Idle
    <2>3. SetTx(c, t)
      BY <2>1
    <2>. HIDE DEF t
    <2>4. tx'[c] = t /\ \A v \in Parties : v # c => tx'[v] = tx[v]
      BY <1>0, <2>3, SetTxGives
    <2>5. addrs[a].owner = NoOne /\ \A w \in Parties : tx[w].a # a
      BY <2>1, FreshFacts
    <2>6. UNCHANGED <<schema, tags, addrs, touched>> /\ "addresses" \in schema
      <3>1. "addresses" \in ToSet(Tables)
        BY FirstTables, ObjectLists
      <3>. QED  BY <1>5, <3>1 DEF BeginAddress, Serving, people, migrationVars
    <2>. QED  BY <1>0, <2>2, <2>4, <2>5, <2>6, HomeTx
  <1>6. ASSUME NEW e \in Emails, NEW home \in {FALSE, e = Demo}, AddAddress(c, e, home)
        PROVE  HomeInv'
    BY <1>6, AddHome
  <1>. QED  BY <1>2, <1>3, <1>4, <1>5, <1>6 DEF Begin

LEMMA DeleteHome ==
    ASSUME TxInv, AddressInv, HomeInv, NEW e \in Emails, NEW a \in Ids, DeleteAddress(e, a)
    PROVE  HomeInv'
  <1>1. /\ UNCHANGED <<schema, tags, tx>> /\ touched' = (touched \/ addrs[a].home)
        /\ addrs' = [addrs EXCEPT ![a] = Deleted] /\ addrs[a].owner = e
        /\ ToSet(Tables) \subseteq schema
    BY DEF DeleteAddress, migrationVars, Serving
  <1>2. "addresses" \in schema
    BY <1>1, FirstTables, ObjectLists
  <1>3. ~ Deleted.home /\ addrs'[a] = Deleted /\ \A b \in Ids : b # a => addrs'[b] = addrs[b]
    BY <1>1 DEF Deleted, NoAddress, AddressInv
  <1>4. ~ touched' => Homes' = Homes /\ ~ touched
    BY <1>1, <1>3 DEF Homes
  <1>5. SeededHomes'
    BY <1>1, <1>2, <1>4 DEF HomeInv, SeededHomes, AtMostOne
  <1>6. Views'
    BY <1>1, <1>4 DEF HomeInv, Views, Looked, SoundView
  <1>7. NewAddresses'
    <2>1. e # NoOne
      BY DemoFacts
    <2>. QED  BY <1>1, <1>3, <2>1 DEF HomeInv, NewAddresses
  <1>8. SeedJobs'
    BY <1>1 DEF HomeInv, SeedJobs
  <1>. QED  BY <1>5, <1>6, <1>7, <1>8 DEF HomeInv

LEMMA CommitHome ==
    ASSUME TxInv, AddressInv, HomeInv, NEW w \in Parties, CommitAddress(w)
    PROVE  HomeInv'
  <1>1. PICK t : t = tx[w]
    OBVIOUS
  <1>2. /\ SetTx(w, Idle) /\ t \in Transaction /\ t.job = "address"
        /\ UNCHANGED <<schema, tags>> /\ touched' = (touched \/ t.home)
        /\ addrs' = [a \in Ids |->
             IF a = t.a THEN [owner |-> t.who, home |-> t.home, default |-> TRUE]
             ELSE IF a \in t.snap.defaults THEN [addrs[a] EXCEPT !.default = FALSE]
             ELSE addrs[a]]
    BY <1>1, TxFacts DEF CommitAddress, migrationVars
  <1>3. /\ "addresses" \in schema /\ t.a \in Ids /\ addrs[t.a].owner = NoOne
        /\ \A v \in Parties : v # w /\ tx[v].job = "address" => tx[v].a # t.a
    BY <1>1, <1>2 DEF HomeInv, NewAddresses
  <1>4. tx'[w] = Idle /\ \A v \in Parties : v # w => tx'[v] = tx[v]
    BY <1>2, SetTxGives
  <1>5. ASSUME NEW a \in Ids
        PROVE  /\ a # t.a => addrs'[a].owner = addrs[a].owner /\ addrs'[a].home = addrs[a].home
               /\ a = t.a => addrs'[a].home = t.home
    <2>1. addrs[a] \in Address
      BY DEF AddressInv
    <2>2. /\ [addrs[a] EXCEPT !.default = FALSE].owner = addrs[a].owner
          /\ [addrs[a] EXCEPT !.default = FALSE].home = addrs[a].home
      BY <2>1 DEF Address
    <2>. QED  BY <1>2, <2>2
  <1>6. ~ touched' => Homes' = Homes /\ ~ touched
    BY <1>2, <1>3, <1>5, DemoFacts DEF Homes
  <1>7. SeededHomes'
    BY <1>2, <1>3, <1>6 DEF HomeInv, SeededHomes, AtMostOne
  <1>8. Views'
    BY <1>2, <1>4, <1>6, IdleIsTransaction DEF HomeInv, Views, Looked, SoundView
  <1>9. NewAddresses'
    BY <1>2, <1>3, <1>4, <1>5, IdleIsTransaction DEF HomeInv, NewAddresses
  <1>10. SeedJobs'
    BY <1>4, IdleIsTransaction DEF HomeInv, SeedJobs
  <1>. QED  BY <1>7, <1>8, <1>9, <1>10 DEF HomeInv

LEMMA SeedHome ==
    ASSUME TxInv, AddressInv, HomeInv, NEW w \in Parties, SeedCommit(w)
    PROVE  HomeInv'
  <1>1. PICK snap : snap = tx[w].snap
    OBVIOUS
  <1>2. /\ SetTx(w, Idle) /\ tx[w].pc = "write" /\ UNCHANGED <<schema, touched>>
        /\ tags' = "values" /\ addrs' \in DemoAddresses(snap)
        /\ snap.seeded \/ tags = "none"
        /\ ToSet(Tables) \subseteq schema
    BY <1>1 DEF SeedCommit, StoreValues, SeedPossible, CatalogInserts, Serving
  <1>3. "addresses" \in schema
    BY <1>2, FirstTables, ObjectLists
  <1>4. tx'[w] = Idle /\ \A v \in Parties : v # w => tx'[v] = tx[v]
    BY <1>2, SetTxGives
  <1>5. CASE snap.homes # {}
    <2>1. addrs' = [a \in Ids |-> IF a \in snap.homes \ snap.defaults
                                  THEN [addrs[a] EXCEPT !.default = TRUE] ELSE addrs[a]]
      BY <1>2, <1>5 DEF DemoAddresses
    <2>2. ASSUME NEW a \in Ids
          PROVE  addrs'[a].owner = addrs[a].owner /\ addrs'[a].home = addrs[a].home
      <3>1. addrs[a] \in Address
        BY DEF AddressInv
      <3>2. /\ [addrs[a] EXCEPT !.default = TRUE].owner = addrs[a].owner
            /\ [addrs[a] EXCEPT !.default = TRUE].home = addrs[a].home
        BY <3>1 DEF Address
      <3>. QED  BY <2>1, <3>2
    <2>3. Homes' = Homes
      BY <2>2 DEF Homes
    <2>4. ~ touched => Homes # {}
      BY <1>1, <1>2, <1>3, <1>5 DEF HomeInv, Views, Looked, SoundView
    <2>5. SeededHomes'
      BY <1>2, <1>3, <2>3, <2>4 DEF HomeInv, SeededHomes, AtMostOne
    <2>6. Views'
      BY <1>2, <1>4, <2>3, IdleIsTransaction DEF HomeInv, Views, Looked, SoundView
    <2>7. NewAddresses'
      BY <1>2, <1>4, <2>2, IdleIsTransaction DEF HomeInv, NewAddresses
    <2>8. SeedJobs'
      BY <1>4, IdleIsTransaction DEF HomeInv, SeedJobs
    <2>. QED  BY <2>5, <2>6, <2>7, <2>8 DEF HomeInv
  <1>6. CASE snap.homes = {}
    <2>1. PICK a \in Ids :
            /\ Fresh(a)
            /\ addrs' = [addrs EXCEPT ![a] = [owner |-> Demo, home |-> TRUE, default |-> TRUE]]
      BY <1>2, <1>6 DEF DemoAddresses
    <2>2. /\ addrs'[a].owner = Demo /\ addrs'[a].home
          /\ \A b \in Ids : b # a => addrs'[b] = addrs[b]
      BY <2>1 DEF AddressInv
    <2>3. addrs[a].owner = NoOne /\ \A v \in Parties : tx[v].a # a
      BY <2>1, FreshFacts
    <2>4. ~ touched => Homes = {} /\ Homes' = {a}
      <3>1. ~ touched => ~ snap.seeded
        BY <1>1, <1>2, <1>3, <1>6 DEF HomeInv, Views, Looked, SoundView
      <3>2. ~ touched => Homes = {}
        BY <1>2, <3>1 DEF HomeInv, SeededHomes
      <3>. QED  BY <2>2, <3>2 DEF Homes
    <2>5. SeededHomes'
      BY <1>2, <1>3, <2>4 DEF HomeInv, SeededHomes, AtMostOne
    <2>6. Views'
      BY <1>2, <1>3, <1>4, <2>4, IdleIsTransaction DEF HomeInv, Views, Looked, SoundView
    <2>7. NewAddresses'
      BY <1>2, <1>4, <2>2, <2>3, IdleIsTransaction DEF HomeInv, NewAddresses
    <2>8. SeedJobs'
      BY <1>4, IdleIsTransaction DEF HomeInv, SeedJobs
    <2>. QED  BY <2>5, <2>6, <2>7, <2>8 DEF HomeInv
  <1>. QED  BY <1>5, <1>6

LEMMA TxStepHome ==
    ASSUME TxInv, AddressInv, HomeInv, NEW w \in Parties, TxStep(w) \/ Abort(w)
    PROVE  HomeInv'
  <1>0. tx[w] \in Transaction /\ JobFits(w) /\ \A v \in Parties : v # w => tx'[v] = tx[v]
    BY TxFacts, TxStepIsBusy
  <1>1. CASE SeedCommit(w)
    BY <1>1, SeedHome
  <1>2. CASE CommitAddress(w)
    BY <1>2, CommitHome
  <1>3. CASE SeedRefused(w) \/ Abort(w) \/ CommitUser(w) \/ UpdateProfile(w) \/ Deadlock(w)
    <2>1. SetTx(w, Idle) /\ UNCHANGED <<schema, tags, addrs, touched>>
      BY <1>3 DEF SeedRefused, Abort, CommitUser, UpdateProfile, Deadlock, people, migrationVars
    <2>. QED  BY <2>1, HomeIdles
  <1>4. CASE LockUsers(w)
    <2>0. tx[w].pc = "lock" /\ UNCHANGED <<schema, tags, addrs, touched>>
      BY <1>4 DEF LockUsers, people, migrationVars
    <2>1. PICK s : s = IF tx[w].job = "script" THEN View(Demo) ELSE tx[w].snap
      OBVIOUS
    <2>2. tx' = [tx EXCEPT ![w] = [tx[w] EXCEPT !.pc = "write", !.snap = s]]
      <3>1. [tx[w] EXCEPT !.pc = "write",
                          !.snap = IF tx[w].job = "script" THEN View(Demo) ELSE @]
              = [tx[w] EXCEPT !.pc = "write", !.snap = s]
        <4>1. [tx[w] EXCEPT !.pc = "write"].snap = tx[w].snap
          BY <1>0 DEF Transaction
        <4>. QED  BY <2>1, <4>1, Zenon
      <3>. QED  BY <1>4, <3>1 DEF LockUsers, SetTx
    <2>3. tx'[w].pc = "write" /\ tx'[w].job = tx[w].job /\ tx'[w].snap = s
      BY <1>0, <2>2 DEF TxInv, TxTypes, Transaction
    <2>4. tx[w].job \in {"bootstrap", "script"}
      BY <2>0 DEF HomeInv, SeedJobs
    <2>5. s = View(Demo) \/ (Looked(w) /\ s = tx[w].snap)
      BY <2>1, <2>4 DEF Looked
    <2>. QED  BY <1>0, <2>0, <2>3, <2>4, <2>5, HomeTx
  <1>5. CASE InsertUser(w)
    <2>0. tx[w].pc = "insert" /\ UNCHANGED <<schema, tags, addrs, touched>>
      BY <1>5 DEF InsertUser, people, migrationVars
    <2>1. SetTx(w, Idle) \/ SetTx(w, [tx[w] EXCEPT !.pc = "commit"])
      BY <1>5 DEF InsertUser, Goes
    <2>2. CASE SetTx(w, Idle)
      BY <2>0, <2>2, HomeIdles
    <2>3. CASE SetTx(w, [tx[w] EXCEPT !.pc = "commit"])
      <3>1. tx'[w].pc = "commit" /\ tx'[w].job = "register"
        BY <1>0, <2>0, <2>3 DEF SetTx, TxInv, TxTypes, Transaction, JobFits
      <3>. QED  BY <1>0, <2>0, <3>1, HomeTx
    <2>. QED  BY <2>1, <2>2, <2>3
  <1>6. CASE ClearDefaults(w)
    <2>0. tx[w].pc = "clear" /\ UNCHANGED <<schema, tags, addrs, touched>>
      BY <1>6 DEF ClearDefaults, people, migrationVars
    <2>1. PICK s : tx' = [tx EXCEPT ![w] = [tx[w] EXCEPT !.pc = "commit", !.snap = s]]
      BY <1>6, Zenon DEF ClearDefaults, SetTx
    <2>2. tx'[w].pc = "commit" /\ tx'[w].job = tx[w].job /\ tx'[w].a = tx[w].a
      BY <1>0, <2>1 DEF TxInv, TxTypes, Transaction
    <2>3. tx[w].job = "address"
      BY <1>0, <2>0 DEF JobFits
    <2>4. /\ "addresses" \in schema /\ tx[w].a \in Ids /\ addrs[tx[w].a].owner = NoOne
          /\ \A v \in Parties : v # w /\ tx[v].job = "address" => tx[v].a # tx[w].a
      BY <2>3 DEF HomeInv, NewAddresses
    <2>. QED  BY <1>0, <2>0, <2>2, <2>3, <2>4, HomeTx
  <1>. QED  BY <1>1, <1>2, <1>3, <1>4, <1>5, <1>6 DEF TxStep

\* A seed that has looked keeps the tables it has read; an address that is inserted
\* keeps its table.
LEMMA MigrateHome ==
    ASSUME IInv, FirstRevision, TagsInv, TxInv, HomeInv, SchemaInv,
           NEW r \in Runs, Migrate(r)
    PROVE  HomeInv'
  <1>1. /\ MigrationStep(r) /\ UNCHANGED tx
        /\ \A w \in Parties : \A o \in Used(w) : o \in schema => o \in schema'
    BY DEF Migrate
  <1>2. /\ "addresses" \in schema' => UNCHANGED <<addrs, touched>>
        /\ "addresses" \notin schema' => addrs' = Nowhere /\ touched' = FALSE
    BY DEF Migrate
  <1>3. /\ "addresses" \notin schema /\ "addresses" \in schema' =>
             tags = "none" /\ tags' = "none"
        /\ \/ (tags' = "none") <=> (tags = "none")
           \/ /\ "categories" \in schema /\ "categories" \notin schema'
              /\ "addresses" \notin schema' /\ tags' = "none"
    BY <1>1, MigrationEffects
  <1>4. ASSUME NEW w \in Parties, Looked(w)
        PROVE  /\ "addresses" \in schema => "addresses" \in schema'
               /\ "categories" \in schema => "categories" \in schema'
    <2>1. tx[w].pc # "idle"
      BY <1>4 DEF Looked, HomeInv, SeedJobs
    <2>2. "categories" \in Used(w) /\ "addresses" \in Used(w)
      <3>1. CASE tx[w].pc = "write"
        BY <3>1, TxFacts DEF JobFits, Used
      <3>2. CASE tx[w].job = "bootstrap"
        BY <2>1, <3>2 DEF Used
      <3>. QED  BY <1>4, <3>1, <3>2 DEF Looked
    <2>. QED  BY <1>1, <2>2
  <1>5. ASSUME NEW w \in Parties, tx[w].job = "address"
        PROVE  "addresses" \in schema => "addresses" \in schema'
    <2>1. tx[w].pc \in {"clear", "commit"}
      BY <1>5, TxFacts DEF JobFits
    <2>2. "addresses" \in Used(w)
      BY <1>5, <2>1 DEF Used
    <2>. QED  BY <1>1, <2>2
  <1>6. "addresses" \notin schema' => Homes' = {}
    <2>1. ASSUME NEW a \in Ids, "addresses" \notin schema' PROVE ~ addrs'[a].home
      BY <1>2, <2>1 DEF Nowhere, NoAddress
    <2>. QED  BY <2>1 DEF Homes
  <1>7. "addresses" \in schema' => Homes' = Homes
    BY <1>2 DEF Homes
  <1>8. SeededHomes'
    <2>1. CASE "addresses" \notin schema'
      BY <1>2, <1>6, <2>1 DEF SeededHomes, AtMostOne
    <2>2. CASE "addresses" \in schema'
      BY <1>2, <1>3, <1>7, <2>2 DEF HomeInv, SeededHomes, AtMostOne
    <2>. QED  BY <2>1, <2>2
  <1>9. ASSUME NEW w \in Parties, Looked(w), ~ touched' PROVE SoundView(tx[w].snap)'
    <2>1. PICK s : s = tx[w].snap
      OBVIOUS
    <2>2. (tags' = "none") <=> (tags = "none")
      BY <1>3, <1>4, <1>9
    <2>3. ~ touched
      BY <1>2, <1>4, <1>9 DEF HomeInv, SeededHomes
    <2>4. SoundView(s)
      BY <1>9, <2>1, <2>3 DEF HomeInv, Views
    <2>5. CASE "addresses" \in schema'
      BY <1>1, <1>3, <1>7, <2>1, <2>2, <2>4, <2>5 DEF SoundView, HomeInv, SeededHomes
    <2>6. CASE "addresses" \notin schema'
      BY <1>1, <2>1, <2>2, <2>4, <2>6 DEF SoundView
    <2>. QED  BY <2>5, <2>6
  <1>10. Views'
    BY <1>1, <1>9 DEF Views, Looked
  <1>11. NewAddresses'
    BY <1>1, <1>2, <1>5 DEF HomeInv, NewAddresses
  <1>12. SeedJobs'
    BY <1>1 DEF HomeInv, SeedJobs
  <1>. QED  BY <1>8, <1>10, <1>11, <1>12 DEF HomeInv

LEMMA HomeStep ==
    IInv /\ FirstRevision /\ TagsInv /\ BInv /\ HomeInv /\ [Next]_vars => HomeInv'
  <1>. SUFFICES ASSUME IInv, FirstRevision, TagsInv, BInv, HomeInv, [Next]_vars
                PROVE  HomeInv'
    OBVIOUS
  <1>1. ASSUME NEW r \in Runs, Migrate(r) PROVE HomeInv'
    BY <1>1, MigrateHome DEF BInv
  <1>2. ASSUME NEW r \in Runs, BeginBootstrap(r) PROVE HomeInv'
    BY <1>2, BootstrapHome DEF BInv
  <1>3. ASSUME NEW c \in Clients, Begin(c) PROVE HomeInv'
    BY <1>3, BeginHome DEF BInv
  <1>4. ASSUME NEW w \in Parties, TxStep(w) \/ Abort(w) PROVE HomeInv'
    BY <1>4, TxStepHome DEF BInv
  <1>5. ASSUME NEW e \in Emails, EarnPoints(e) PROVE HomeInv'
    BY <1>5, HomeStays DEF EarnPoints, migrationVars
  <1>6. ASSUME NEW e \in Emails, NEW a \in Ids, DeleteAddress(e, a) PROVE HomeInv'
    BY <1>6, DeleteHome DEF BInv
  <1>7. CASE UNCHANGED vars
    BY <1>7, HomeStays DEF vars, people, migrationVars
  <1>. QED  BY <1>1, <1>2, <1>3, <1>4, <1>5, <1>6, <1>7 DEF Next

LEMMA HomeInvariance == Spec => []HomeInv
  <1>1. Init => HomeInv
    <2>. SUFFICES ASSUME Init PROVE HomeInv
      OBVIOUS
    <2>1. /\ schema = {} /\ tags = "none" /\ addrs = Nowhere /\ touched = FALSE
          /\ tx = [w \in Parties |-> Idle]
      BY DEF Init, MigrationInit
    <2>2. Homes = {}
      BY <2>1 DEF Homes, Nowhere, NoAddress
    <2>. QED  BY <2>1, <2>2, IdleIsTransaction
              DEF HomeInv, SeedJobs, SeededHomes, NewAddresses, Views, Looked, AtMostOne
  <1>2. Spec => [](FirstRevision /\ TagsInv)
    BY TheWholeMigrates, FirstInvariance, PTL
  <1>. QED  BY <1>1, <1>2, HomeStep, WholeInvariance, BootstrapInvariance, PTL DEF Spec

\* _ensure_demo_address never finds two addresses "Casa Demo", unless the demo user
\* has made or removed one.
THEOREM OneHomeOnly == Spec => []OneHome
  <1>1. HomeInv => OneHome
    BY AtMostOneCounts DEF HomeInv, SeededHomes, OneHome
  <1>. QED  BY <1>1, HomeInvariance, PTL

-----------------------------------------------------------------------------
(***************************************************************************)
(* Types.                                                                  *)
(***************************************************************************)

Bounded == earned \in [Emails -> 0..MaxPoints] /\ touched \in BOOLEAN

LEMMA BoundedStep ==
    BInv /\ Bounded /\ [Next]_vars => Bounded'
  <1>. SUFFICES ASSUME BInv, Bounded, [Next]_vars PROVE Bounded'
    OBVIOUS
  <1>1. ASSUME NEW r \in Runs, Migrate(r) PROVE Bounded'
    <2>1. [e \in Emails |-> 0] \in [Emails -> 0..MaxPoints]
      BY MaximaAssumption
    <2>2. /\ earned' = earned \/ earned' = [e \in Emails |-> 0]
          /\ touched' = touched \/ touched' = FALSE
      BY <1>1 DEF Migrate
    <2>. QED  BY <2>1, <2>2 DEF Bounded
  <1>2. ASSUME NEW r \in Runs, BeginBootstrap(r) PROVE Bounded'
    BY <1>2 DEF BeginBootstrap, people, Bounded
  <1>3. ASSUME NEW c \in Clients, Begin(c) PROVE Bounded'
    <2>1. CASE \E e \in Emails : \E home \in {FALSE, e = Demo} : AddAddress(c, e, home)
      BY <2>1 DEF AddAddress, Bounded
    <2>2. CASE ~ \E e \in Emails : \E home \in {FALSE, e = Demo} : AddAddress(c, e, home)
      <3>1. UNCHANGED <<earned, touched>>
        BY <1>3, <2>2 DEF Begin, BeginScript, BeginRegister, BeginProfile, BeginAddress, people
      <3>. QED  BY <3>1 DEF Bounded
    <2>. QED  BY <2>1, <2>2
  <1>4. ASSUME NEW w \in Parties, TxStep(w) \/ Abort(w) PROVE Bounded'
    <2>1. CASE CommitAddress(w)
      <3>1. tx[w].home \in BOOLEAN
        BY TxFacts DEF BInv, Transaction
      <3>. QED  BY <2>1, <3>1 DEF CommitAddress, Bounded
    <2>2. CASE ~ CommitAddress(w)
      <3>1. UNCHANGED <<earned, touched>>
        BY <1>4, <2>2 DEF TxStep, Abort, LockUsers, SeedCommit, SeedRefused, InsertUser,
              CommitUser, UpdateProfile, ClearDefaults, Deadlock, people
      <3>. QED  BY <3>1 DEF Bounded
    <2>. QED  BY <2>1, <2>2
  <1>5. ASSUME NEW e \in Emails, EarnPoints(e) PROVE Bounded'
    <2>1. /\ earned[e] < MaxPoints /\ earned' = [earned EXCEPT ![e] = @ + 1]
          /\ touched' = touched
      BY <1>5 DEF EarnPoints
    <2>2. earned[e] + 1 \in 0..MaxPoints
      BY <2>1, MaximaAssumption DEF Bounded
    <2>. QED  BY <2>1, <2>2 DEF Bounded
  <1>6. ASSUME NEW e \in Emails, NEW a \in Ids, DeleteAddress(e, a) PROVE Bounded'
    <2>1. addrs[a].home \in BOOLEAN
      BY DEF BInv, AddressInv, Address
    <2>. QED  BY <1>6, <2>1 DEF DeleteAddress, Bounded
  <1>7. CASE UNCHANGED vars
    BY <1>7 DEF vars, people, Bounded
  <1>. QED  BY <1>1, <1>2, <1>3, <1>4, <1>5, <1>6, <1>7 DEF Next

\* Every variable of the migrations and of the people keeps its type, and the counters
\* their bounds.
THEOREM BootstrapTypes == Spec => []TypeOK
  <1>1. Init => Bounded
    <2>. SUFFICES ASSUME Init PROVE Bounded
      OBVIOUS
    <2>1. earned = [e \in Emails |-> 0] /\ touched = FALSE /\ 0 \in 0..MaxPoints
      BY MaximaAssumption DEF Init
    <2>. QED  BY <2>1 DEF Bounded
  <1>2. Spec => [](SchemaTypes /\ CountTypes)
    BY TheWholeMigrates, TypesInvariance, PTL
  <1>3. IInv /\ SchemaTypes /\ CountTypes /\ BInv /\ Bounded => TypeOK
    BY DEF IInv, MigrationTypes, SchemaTypes, CountTypes, BInv, TxInv, TxTypes, AccountInv,
           AccountTypes, AddressInv, Bounded, TypeOK
  <1>. QED  BY <1>1, <1>2, <1>3, BoundedStep, WholeInvariance, BootstrapInvariance, PTL DEF Spec

=============================================================================
