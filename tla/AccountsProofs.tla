----------------------------- MODULE AccountsProofs -----------------------------
(***************************************************************************)
(* Theorems about Accounts, for any number of users, tokens, processes and *)
(* overlapping requests, and any limits.                                   *)
(***************************************************************************)
EXTENDS Accounts, FiniteSetTheorems, TLAPS

-------------------------------------------------------------------------------
(* Types. Beyond TypeOK: which request holds what, and the history of wrong *)
(* guesses is what the cache holds.                                        *)

TokenRecords == [subject : Users \cup Buyers, level : Roles \cup {0}, exp : 0..(MaxClock + Life)]
Entries == [count : Nat, until : Int]

Logins == [pc : {"login"}, proc : Procs, ident : Identifiers, checked : Nat]
Bootstraps == [pc : {"bootstrap"}, proc : Procs, name : Names]
Creations == [pc : {"create"}, proc : Procs, row : Row]
Updates == [pc : {"update"}, proc : Procs, user : Users, was : Row, row : Profile \cup Row]
Removals == [pc : {"deactivate", "delete"}, proc : Procs, user : Users]
Requests == {Idle} \cup Logins \cup Bootstraps \cup Creations \cup Updates \cup Removals

\* No two users have a name.
NamesUnique == \A u, v \in Existing : user[u].name = user[v].name => u = v

TypeInv ==
    /\ user \in [Users -> Row \cup {NoUser, Deleted}]
    /\ token \in [Tokens -> TokenRecords \cup {NoToken}]
    /\ attempts \in [Procs -> [Identifiers -> Entries]] /\ failures = attempts
    /\ revoked \in [Procs -> [Tokens -> Int]]
    /\ tx \in [Txs -> Requests]
    /\ now \in 0..MaxClock /\ requests \in 0..MaxRequests /\ boots \in Nat
    /\ logouts \in SUBSET (Procs \X Tokens)

\* Whole seconds, rounded down.
LEMMA WholeSeconds ==
    ASSUME NEW a \in Int, NEW s \in Nat \ {0}
    PROVE  (a \div s) \in Int /\ (a \div s) * s \in Int /\ (a \div s) * s <= a
           /\ a < (a \div s) * s + s
<1>1. (a \div s) \in Int
  BY SMT
<1>2. (a \div s) * s <= a
  BY SMT
<1>3. a < (a \div s) * s + s
  BY SMT
<1>4. QED
  BY <1>1, <1>2, <1>3

\* The assumption, as facts about single constants.
LEMMA Parameters ==
    /\ MaxAttempts \in Nat /\ MaxAttempts > 0
    /\ Lockout \in Nat /\ Lockout > 0 /\ Life \in Nat /\ Life > 0
    /\ Second \in Nat \ {0} /\ Second \in Nat /\ Second > 0
    /\ MaxClock \in Nat /\ MaxRequests \in Nat
    /\ Owner \in Roles /\ Roles \subseteq Nat \ {0}
BY AccountsAssumption

\* A request, by what it is about.
LEMMA RequestKinds ==
    ASSUME NEW r \in Requests
    PROVE  /\ r.pc = "login" => r \in Logins
           /\ r.pc = "bootstrap" => r \in Bootstraps
           /\ r.pc = "create" => r \in Creations
           /\ r.pc = "update" => r \in Updates
           /\ r.pc \in {"deactivate", "delete"} => r \in Removals
           /\ r.pc = "idle" => r = Idle
           /\ r = Idle \/ r.proc \in Procs
BY DEF Requests, Idle, Logins, Bootstraps, Creations, Updates, Removals

\* The users there are have a row with four columns.
LEMMA ExistingRows ==
    ASSUME user \in [Users -> Row \cup {NoUser, Deleted}]
    PROVE  \A u \in Existing : u \in Users /\ user[u] \in Row
BY DEF Existing

\* An update writes some columns of a row that is there.
LEMMA WrittenRow ==
    ASSUME TypeInv, NEW t \in Txs, tx[t].pc = "update", tx[t].user \in Existing
    PROVE  Written(t) \in Row
<1> DEFINE u == tx[t].user
           new(c) == IF c \in DOMAIN tx[t].row /\ tx[t].row[c] # tx[t].was[c]
                     THEN tx[t].row[c] ELSE user[u][c]
<1>1. user[u] \in Row /\ tx[t].row \in Profile \cup Row
  BY ExistingRows, RequestKinds DEF TypeInv, Updates
<1>2. DOMAIN user[u] = {"name", "phone", "level", "active"}
  BY <1>1 DEF Row
<1>3. Written(t) = [c \in {"name", "phone", "level", "active"} |-> new(c)]
  BY <1>2 DEF Written
<1>4. new("name") \in Names /\ new("phone") \in Phones
  <2>1. tx[t].row.name \in Names /\ tx[t].row.phone \in Phones
    BY <1>1 DEF Row, Profile
  <2>2. user[u].name \in Names /\ user[u].phone \in Phones
    BY <1>1 DEF Row
  <2>3. QED
    BY <2>1, <2>2
<1>5. new("level") \in Roles /\ new("active") \in BOOLEAN
  <2>1. user[u].level \in Roles /\ user[u].active \in BOOLEAN
    BY <1>1 DEF Row
  <2>2. tx[t].row \in Profile => DOMAIN tx[t].row = {"name", "phone"}
    BY DEF Profile
  <2>3. tx[t].row \in Row => tx[t].row.level \in Roles /\ tx[t].row.active \in BOOLEAN
    BY DEF Row
  <2>4. QED
    BY <1>1, <2>1, <2>2, <2>3
<1> HIDE DEF new
<1>6. Written(t) = [name |-> new("name"), phone |-> new("phone"), level |-> new("level"),
                    active |-> new("active")]
  BY <1>3
<1>7. QED
  BY <1>4, <1>5, <1>6 DEF Row

\* A cache entry counts, and its count is what is left of it.
LEMMA GetType == ASSUME NEW e \in Entries PROVE Get(e) \in Nat
BY DEF Get, Entries

\* Starting a request, ending it.
LEMMA RequestStep ==
    ASSUME TypeInv, NEW t \in Txs, NEW r \in Requests, Goes(t, r)
    PROVE  tx' \in [Txs -> Requests]
BY DEF TypeInv, Goes

\* The requests begun are requests.
LEMMA BeginStep ==
    ASSUME TypeInv, NEW t \in Txs, Begin(t)
    PROVE  /\ tx[t] = Idle /\ requests' \in 0..MaxRequests
           /\ UNCHANGED <<user, token, attempts, revoked, failures, logouts, now, boots>>
           /\ \E r \in Requests \ {Idle} : tx' = [tx EXCEPT ![t] = r]
<1> DEFINE Result == /\ tx[t] = Idle /\ requests' \in 0..MaxRequests
                     /\ UNCHANGED <<user, token, attempts, revoked, failures, logouts, now, boots>>
                     /\ \E r \in Requests \ {Idle} : tx' = [tx EXCEPT ![t] = r]
<1>1. Request => requests' \in 0..MaxRequests
  BY Parameters DEF TypeInv, Request
<1>2. Owner \in Roles /\ TRUE \in BOOLEAN
  BY Parameters
<1>3. ASSUME NEW n \in Names, StartBootstrap(t, n) PROVE Result
  <2>1. PICK p \in Procs : Goes(t, [pc |-> "bootstrap", proc |-> p, name |-> n])
    BY <1>3 DEF StartBootstrap
  <2>2. [pc |-> "bootstrap", proc |-> p, name |-> n] \in Requests \ {Idle}
    BY DEF Requests, Bootstraps, Idle
  <2>3. QED
    BY <1>1, <1>3, <2>1, <2>2 DEF StartBootstrap, Goes, cache
<1>4. ASSUME NEW p \in Procs, NEW i \in Identifiers, StartLogin(t, p, i) PROVE Result
  <2> DEFINE r == [pc |-> "login", proc |-> p, ident |-> i, checked |-> Get(attempts[p][i])]
  <2>1. Get(attempts[p][i]) \in Nat
    BY GetType DEF TypeInv
  <2>2. r \in Requests \ {Idle}
    BY <2>1 DEF Requests, Logins, Idle
  <2>3. QED
    BY <1>1, <1>4, <2>2 DEF StartLogin, Goes, cache
<1>5. ASSUME NEW p \in Procs, NEW k \in Tokens, NEW n \in Names, NEW f \in Phones, NEW l \in Roles,
             StartCreate(t, p, k, [name |-> n, phone |-> f, level |-> l, active |-> TRUE])
      PROVE  Result
  <2> DEFINE row == [name |-> n, phone |-> f, level |-> l, active |-> TRUE]
  <2>1. row \in Row
    BY DEF Row
  <2> HIDE DEF row
  <2>2. [pc |-> "create", proc |-> p, row |-> row] \in Requests \ {Idle}
    BY <2>1 DEF Requests, Creations, Idle
  <2>3. StartCreate(t, p, k, row)
    BY <1>5 DEF row
  <2>4. QED
    BY <1>1, <2>2, <2>3 DEF StartCreate, Goes, cache
<1>6. ASSUME NEW p \in Procs, NEW k \in Tokens, NEW u \in Users, NEW row \in Profile \cup Row,
             StartUpdate(t, p, k, u, row)
      PROVE  Result
  <2>1. user[u] \in Row
    BY <1>6, ExistingRows DEF StartUpdate, TypeInv
  <2>2. [pc |-> "update", proc |-> p, user |-> u, was |-> user[u], row |-> row] \in Requests \ {Idle}
    BY <2>1 DEF Requests, Updates, Idle
  <2>3. QED
    BY <1>1, <1>6, <2>2 DEF StartUpdate, Goes, cache
<1>7. ASSUME NEW p \in Procs, NEW k \in Tokens, NEW u \in Users, NEW pc \in {"deactivate", "delete"},
             StartRemoval(t, p, k, u, pc)
      PROVE  Result
  <2>1. [pc |-> pc, proc |-> p, user |-> u] \in Requests \ {Idle}
    BY DEF Requests, Removals, Idle
  <2>2. QED
    BY <1>1, <1>7, <2>1 DEF StartRemoval, Goes, cache
<1>8. QED
  BY <1>3, <1>4, <1>5, <1>6, <1>7 DEF Begin

\* The processes start with types in order.
LEMMA TypeStart == Init => TypeInv /\ NamesUnique
<1> SUFFICES ASSUME Init PROVE TypeInv /\ NamesUnique
  OBVIOUS
<1>1. user \in [Users -> Row \cup {NoUser, Deleted}] /\ token \in [Tokens -> TokenRecords \cup {NoToken}]
  BY DEF Init
<1>2. Absent \in Entries
  BY DEF Absent, Entries
<1>3. /\ attempts \in [Procs -> [Identifiers -> Entries]] /\ failures = attempts
      /\ revoked \in [Procs -> [Tokens -> Int]]
  BY <1>2 DEF Init
<1>4. tx \in [Txs -> Requests]
  BY DEF Init, Requests
<1>5. /\ now \in 0..MaxClock /\ requests \in 0..MaxRequests /\ boots \in Nat
      /\ logouts \in SUBSET (Procs \X Tokens)
  BY Parameters DEF Init
<1>6. NamesUnique
  BY DEF Init, NamesUnique, Existing
<1>7. QED
  BY <1>1, <1>3, <1>4, <1>5, <1>6 DEF TypeInv

\* A login that succeeds gets a token of its user, or of its buyer.
LEMMA IssueStep ==
    ASSUME TypeInv, NEW k \in Tokens, NEW subject \in Users \cup Buyers, NEW level \in Roles \cup {0},
           Issue(k, subject, level)
    PROVE  token' \in [Tokens -> TokenRecords \cup {NoToken}]
<1> DEFINE exp == ((now + Life) \div Second) * Second
<1>1. now + Life \in Nat /\ now + Life <= MaxClock + Life /\ MaxClock + Life \in Nat
  BY Parameters DEF TypeInv
<1>2. exp \in Int /\ exp <= now + Life /\ now + Life < exp + Second
  BY <1>1, WholeSeconds, Parameters
<1>3. (now + Life) \div Second >= 0
  BY <1>1, Parameters, SMT
<1>4. exp >= 0
  <2> DEFINE n == (now + Life) \div Second
  <2>1. n \in Int /\ n >= 0
    BY <1>1, <1>3, WholeSeconds, Parameters
  <2> HIDE DEF n
  <2>2. n * Second >= 0
    BY <2>1, Parameters
  <2>3. QED
    BY <2>2 DEF n
<1>5. token' = [token EXCEPT ![k] = [subject |-> subject, level |-> level, exp |-> exp]]
  BY DEF Issue
<1> HIDE DEF exp
<1>6. exp \in 0..(MaxClock + Life)
  BY <1>1, <1>2, <1>4
<1>7. [subject |-> subject, level |-> level, exp |-> exp] \in TokenRecords
  BY <1>6 DEF TokenRecords
<1>8. QED
  BY <1>5, <1>7 DEF TypeInv

\* A wrong guess and a right one count alike in the cache and in the history.
LEMMA CountStep ==
    ASSUME TypeInv, NEW p \in Procs, NEW i \in Identifiers,
           \/ \E checked : Fails(p, i, checked)
           \/ Succeeds(p, i)
    PROVE  /\ attempts' \in [Procs -> [Identifiers -> Entries]] /\ failures' = attempts'
           /\ \A q \in Procs, j \in Identifiers : <<q, j>> # <<p, i>> =>
                 attempts'[q][j] = attempts[q][j]
           /\ \/ /\ \E checked : Fails(p, i, checked)
                 /\ attempts'[p][i] = [count |-> Get(attempts[p][i]) + 1, until |-> now + Lockout]
              \/ Succeeds(p, i) /\ attempts'[p][i] = Absent
<1>1. attempts \in [Procs -> [Identifiers -> Entries]] /\ failures = attempts
  BY DEF TypeInv
<1> DEFINE entry == [count |-> Get(attempts[p][i]) + 1, until |-> now + Lockout]
<1>2. entry \in Entries /\ Absent \in Entries
  <2>1. Get(attempts[p][i]) \in Nat
    BY <1>1, GetType
  <2>2. now + Lockout \in Int
    BY Parameters DEF TypeInv
  <2>3. QED
    BY <2>1, <2>2 DEF Entries, Absent
<1>3. CASE \E checked : Fails(p, i, checked)
  <2>1. attempts' = [attempts EXCEPT ![p][i] = entry] /\ failures' = [attempts EXCEPT ![p][i] = entry]
    BY <1>1, <1>3 DEF Fails, Recorded
  <2> HIDE DEF entry
  <2>2. /\ attempts' \in [Procs -> [Identifiers -> Entries]] /\ failures' = attempts'
        /\ attempts'[p][i] = entry
        /\ \A q \in Procs, j \in Identifiers : <<q, j>> # <<p, i>> =>
              attempts'[q][j] = attempts[q][j]
    BY <1>1, <1>2, <2>1
  <2>3. QED
    BY <1>3, <2>2 DEF entry
<1>4. CASE Succeeds(p, i)
  <2>1. attempts' = [attempts EXCEPT ![p][i] = Absent] /\ failures' = [attempts EXCEPT ![p][i] = Absent]
    BY <1>1, <1>4 DEF Succeeds
  <2>2. QED
    BY <1>1, <1>2, <1>4, <2>1
<1>5. QED
  BY <1>3, <1>4

\* What the rows of users may become: one row is made with a free name, loses
\* its name, or changes and keeps its name or takes a free one.
UserStep ==
    \/ UNCHANGED user
    \/ \E u \in Users :
          /\ \A v \in Users \ {u} : user'[v] = user[v]
          /\ \/ user[u] = NoUser /\ user'[u] \in Row /\ NameFree(user'[u].name, u)
             \/ user'[u] = Deleted
             \/ /\ u \in Existing /\ user'[u] \in Row
                /\ user'[u].name = user[u].name \/ NameFree(user'[u].name, u)

\* Then types hold, and names stay unique.
LEMMA UserStepKeeps ==
    ASSUME user \in [Users -> Row \cup {NoUser, Deleted}], NamesUnique, DOMAIN user' = Users,
           user' = [u \in Users |-> user'[u]], UserStep
    PROVE  user' \in [Users -> Row \cup {NoUser, Deleted}] /\ NamesUnique'
<1>1. CASE UNCHANGED user
  BY <1>1 DEF NamesUnique, Existing
<1>2. ASSUME NEW u \in Users, \A v \in Users \ {u} : user'[v] = user[v],
             \/ user[u] = NoUser /\ user'[u] \in Row /\ NameFree(user'[u].name, u)
             \/ user'[u] = Deleted
             \/ /\ u \in Existing /\ user'[u] \in Row
                /\ user'[u].name = user[u].name \/ NameFree(user'[u].name, u)
      PROVE  user' \in [Users -> Row \cup {NoUser, Deleted}] /\ NamesUnique'
  <2>1. user'[u] \in Row \cup {Deleted}
    BY <1>2
  <2>2. user' \in [Users -> Row \cup {NoUser, Deleted}]
    BY <1>2, <2>1
  <2>3. \A v \in Existing' \ {u} : v \in Existing /\ user'[v] = user[v]
    BY <1>2 DEF Existing
  <2>4. u \in Existing' => \A v \in Existing \ {u} : user[v].name # user'[u].name
    BY <1>2 DEF Existing, NameFree, NamesUnique
  <2>5. QED
    BY <2>2, <2>3, <2>4 DEF NamesUnique
<1>3. QED
  BY <1>1, <1>2 DEF UserStep

\* A step that writes users writes one row of them.
LEMMA UserSteps ==
    ASSUME TypeInv, NEW t \in Txs,
           CommitUpdate(t) \/ CommitRemoval(t) \/ \E u \in Users : CommitBootstrap(t, u) \/ CommitCreate(t, u)
    PROVE  DOMAIN user' = Users /\ user' = [u \in Users |-> user'[u]] /\ UserStep
<1> DEFINE Result == DOMAIN user' = Users /\ user' = [u \in Users |-> user'[u]] /\ UserStep
<1>1. user \in [Users -> Row \cup {NoUser, Deleted}] /\ tx[t] \in Requests
  BY DEF TypeInv
<1>2. UNCHANGED user => Result
  BY <1>1 DEF UserStep
<1>3. ASSUME NEW u \in Users, NEW row, user' = [user EXCEPT ![u] = row],
             \/ user[u] = NoUser /\ row \in Row /\ NameFree(row.name, u)
             \/ row = Deleted
             \/ /\ u \in Existing /\ row \in Row
                /\ row.name = user[u].name \/ NameFree(row.name, u)
      PROVE  Result
  <2>1. user'[u] = row /\ \A v \in Users \ {u} : user'[v] = user[v]
    BY <1>1, <1>3
  <2>2. UserStep
    BY <1>3, <2>1 DEF UserStep
  <2>3. QED
    BY <1>1, <1>3, <2>2
<1>4. ASSUME NEW u \in Users, CommitBootstrap(t, u) PROVE Result
  <2> DEFINE row == [name |-> tx[t].name, phone |-> "none", level |-> Owner, active |-> TRUE]
  <2>1. tx[t] \in Bootstraps
    BY <1>1, <1>4, RequestKinds DEF CommitBootstrap
  <2>2. row \in Row /\ row.name = tx[t].name
    BY <2>1, AccountsAssumption DEF Row, Bootstraps
  <2>3. user[u] = NoUser /\ (UNCHANGED user
           \/ (NameFree(tx[t].name, u) /\ user' = [user EXCEPT ![u] = row]))
    BY <1>4 DEF CommitBootstrap
  <2> HIDE DEF row
  <2>4. QED
    BY <1>2, <1>3, <2>2, <2>3
<1>5. ASSUME NEW u \in Users, CommitCreate(t, u) PROVE Result
  <2>1. tx[t].row \in Row
    BY <1>1, <1>5, RequestKinds DEF CommitCreate, Creations
  <2>2. QED
    BY <1>2, <1>3, <1>5, <2>1 DEF CommitCreate
<1>6. CASE CommitUpdate(t)
  <2> DEFINE u == tx[t].user
  <2>1. u \in Users /\ tx[t].pc = "update"
    BY <1>1, <1>6, RequestKinds DEF CommitUpdate, Updates
  <2>2. \/ UNCHANGED user
        \/ /\ u \in Existing /\ NameFree(Written(t).name, u)
           /\ user' = [user EXCEPT ![u] = Written(t)]
    BY <1>6 DEF CommitUpdate
  <2>3. QED
    BY <1>2, <1>3, <2>1, <2>2, WrittenRow
<1>7. CASE CommitRemoval(t)
  <2> DEFINE u == tx[t].user
             row == [user[u] EXCEPT !.active = FALSE]
  <2>1. u \in Users
    BY <1>1, <1>7, RequestKinds DEF CommitRemoval, Removals
  <2>2. \/ UNCHANGED user \/ user' = [user EXCEPT ![u] = Deleted]
        \/ u \in Existing /\ user' = [user EXCEPT ![u] = row]
    BY <1>7 DEF CommitRemoval
  <2>3. u \in Existing => row \in Row /\ row.name = user[u].name
    BY <1>1, ExistingRows DEF Row
  <2> HIDE DEF row, u
  <2>4. QED
    BY <1>2, <1>3, <2>1, <2>2, <2>3
<1>8. QED
  BY <1>4, <1>5, <1>6, <1>7

\* Every step keeps the types and the unique names.
LEMMA TypeStep == TypeInv /\ NamesUnique /\ [Next]_vars => (TypeInv /\ NamesUnique)'
<1> SUFFICES ASSUME TypeInv, NamesUnique, [Next]_vars PROVE TypeInv' /\ NamesUnique'
  OBVIOUS
<1>1. /\ user \in [Users -> Row \cup {NoUser, Deleted}]
      /\ token \in [Tokens -> TokenRecords \cup {NoToken}]
      /\ attempts \in [Procs -> [Identifiers -> Entries]] /\ failures = attempts
      /\ revoked \in [Procs -> [Tokens -> Int]]
      /\ tx \in [Txs -> Requests]
      /\ now \in 0..MaxClock /\ requests \in 0..MaxRequests /\ boots \in Nat
      /\ logouts \in SUBSET (Procs \X Tokens)
  BY DEF TypeInv
<1>2. UNCHANGED user => NamesUnique'
  BY DEF NamesUnique, Existing
<1>3. Idle \in Requests /\ Absent \in Entries
  BY DEF Requests, Absent, Entries
<1>4. \A t \in Txs : Ends(t) => tx' \in [Txs -> Requests]
  BY <1>3, RequestStep DEF Ends
<1>5. ASSUME NEW t \in Txs, Begin(t) PROVE TypeInv' /\ NamesUnique'
  <2>1. tx' \in [Txs -> Requests]
    BY <1>1, <1>5, BeginStep
  <2>2. requests' \in 0..MaxRequests /\ UNCHANGED <<user, token, attempts, revoked, failures, logouts, now, boots>>
    BY <1>5, BeginStep
  <2>3. QED
    BY <1>1, <1>2, <2>1, <2>2 DEF TypeInv
<1>6. ASSUME NEW t \in Txs, Refuse(t) PROVE TypeInv' /\ NamesUnique'
  <2>1. tx[t] \in Logins /\ Fails(tx[t].proc, tx[t].ident, tx[t].checked)
    BY <1>1, <1>6, RequestKinds DEF Refuse
  <2>2. attempts' \in [Procs -> [Identifiers -> Entries]] /\ failures' = attempts'
    BY <2>1, CountStep DEF Logins
  <2>3. tx' \in [Txs -> Requests]
    BY <1>4, <1>6 DEF Refuse
  <2>4. UNCHANGED <<user, token, revoked, logouts, now, requests, boots>>
    BY <1>6 DEF Refuse
  <2>5. QED
    BY <1>1, <1>2, <2>2, <2>3, <2>4 DEF TypeInv
<1>7. ASSUME NEW t \in Txs, RefuseInactive(t) PROVE TypeInv' /\ NamesUnique'
  <2>1. tx' \in [Txs -> Requests]
    BY <1>4, <1>7 DEF RefuseInactive
  <2>2. QED
    BY <1>1, <1>2, <1>7, <2>1 DEF TypeInv, RefuseInactive, cache
<1>8. ASSUME NEW t \in Txs, NEW k \in Tokens, Admit(t, k) PROVE TypeInv' /\ NamesUnique'
  <2>1. tx[t] \in Logins
    BY <1>1, <1>8, RequestKinds DEF Admit
  <2>2. attempts' \in [Procs -> [Identifiers -> Entries]] /\ failures' = attempts'
    BY <1>8, <2>1, CountStep DEF Logins, Admit
  <2>3. tx' \in [Txs -> Requests]
    BY <1>4, <1>8 DEF Admit
  <2>4. UNCHANGED <<user, revoked, logouts, now, requests, boots>>
    BY <1>8 DEF Admit
  <2>5. \A u \in Existing : u \in Users /\ user[u].level \in Roles
    BY <1>1, ExistingRows DEF Row
  <2>6. \E subject \in Users \cup Buyers, level \in Roles \cup {0} : Issue(k, subject, level)
    BY <1>8, <2>5 DEF Admit, Found
  <2>7. token' \in [Tokens -> TokenRecords \cup {NoToken}]
    BY <2>6, IssueStep
  <2>8. QED
    BY <1>1, <1>2, <2>2, <2>3, <2>4, <2>7 DEF TypeInv
<1>9. ASSUME NEW t \in Txs,
             CommitUpdate(t) \/ CommitRemoval(t) \/ \E u \in Users : CommitBootstrap(t, u) \/ CommitCreate(t, u)
      PROVE  TypeInv' /\ NamesUnique'
  <2>1. user' \in [Users -> Row \cup {NoUser, Deleted}] /\ NamesUnique'
    BY <1>1, <1>9, UserSteps, UserStepKeeps
  <2>2. tx' \in [Txs -> Requests]
    BY <1>4, <1>9 DEF CommitUpdate, CommitRemoval, CommitBootstrap, CommitCreate
  <2>3. UNCHANGED <<token, attempts, revoked, failures, logouts, now, requests>>
    BY <1>9 DEF CommitUpdate, CommitRemoval, CommitBootstrap, CommitCreate, cache
  <2>4. Boots(0) \in Nat /\ Boots(1) \in Nat
    BY <1>1 DEF Boots
  <2>5. boots' \in {boots, Boots(0), Boots(1)}
    BY <1>9 DEF CommitUpdate, CommitRemoval, CommitBootstrap, CommitCreate
  <2>6. QED
    BY <1>1, <2>1, <2>2, <2>3, <2>4, <2>5 DEF TypeInv
<1>10. ASSUME NEW p \in Procs, NEW k \in Tokens, Logout(p, k) PROVE TypeInv' /\ NamesUnique'
  <2>1. now + RevokedFor(k) \in Int
    <3>1. token[k] \in TokenRecords
      BY <1>1, <1>10 DEF Logout, Accepted
    <3>2. token[k].exp - now \in Int /\ now \in Int
      BY <1>1, <3>1, Parameters DEF TokenRecords
    <3>3. (token[k].exp - now) \div Second \in Int
      BY <3>2, WholeSeconds, Parameters
    <3> DEFINE left == (token[k].exp - now) \div Second
    <3>4. RevokedFor(k) = IF left <= 0 THEN 60 * Second ELSE left * Second
      BY DEF RevokedFor
    <3> HIDE DEF left
    <3>5. RevokedFor(k) \in Int
      BY <3>3, <3>4, Parameters DEF left
    <3>6. QED
      BY <3>2, <3>5
  <2>2. revoked' = [revoked EXCEPT ![p][k] = now + RevokedFor(k)]
    BY <1>10 DEF Logout
  <2>3. revoked' \in [Procs -> [Tokens -> Int]]
    BY <1>1, <2>1, <2>2
  <2>4. logouts' \in SUBSET (Procs \X Tokens)
    BY <1>1, <1>10 DEF Logout
  <2>5. requests' \in 0..MaxRequests
    BY <1>1, <1>10, Parameters DEF Logout, Request
  <2>6. UNCHANGED <<user, token, attempts, tx, now, failures, boots>>
    BY <1>10 DEF Logout
  <2>7. QED
    BY <1>1, <1>2, <2>3, <2>4, <2>5, <2>6 DEF TypeInv
<1>11. ASSUME NEW p \in Procs, Restart(p) PROVE TypeInv' /\ NamesUnique'
  <2> DEFINE fresh == [i \in Identifiers |-> Absent]
  <2>1. fresh \in [Identifiers -> Entries]
    BY <1>3
  <2>2. attempts' = [attempts EXCEPT ![p] = fresh] /\ failures' = [attempts EXCEPT ![p] = fresh]
    BY <1>1, <1>11 DEF Restart
  <2> HIDE DEF fresh
  <2>3. attempts' \in [Procs -> [Identifiers -> Entries]] /\ failures' = attempts'
    BY <1>1, <2>1, <2>2
  <2>4. revoked' \in [Procs -> [Tokens -> Int]]
    BY <1>1, <1>11 DEF Restart
  <2>5. tx' \in [Txs -> Requests] /\ logouts' \in SUBSET (Procs \X Tokens)
    BY <1>1, <1>3, <1>11 DEF Restart
  <2>6. UNCHANGED <<user, token, now, requests, boots>>
    BY <1>11 DEF Restart
  <2>7. QED
    BY <1>1, <1>2, <2>3, <2>4, <2>5, <2>6 DEF TypeInv
<1>12. CASE Tick
  <2>1. now' \in 0..MaxClock
    BY <1>1, <1>12, Parameters DEF Tick
  <2>2. UNCHANGED <<user, token, attempts, revoked, failures, logouts, tx, requests, boots>>
    BY <1>12 DEF Tick, cache
  <2>3. QED
    BY <1>1, <1>2, <2>1, <2>2 DEF TypeInv
<1>13. CASE UNCHANGED vars
  BY <1>1, <1>2, <1>13 DEF TypeInv, vars
<1>14. QED
  BY <1>5, <1>6, <1>7, <1>8, <1>9, <1>10, <1>11, <1>12, <1>13 DEF Next, Finish

\* The types and the unique names of every state.
THEOREM AccountTypes == Spec => [](TypeInv /\ NamesUnique)
<1>1. Init => TypeInv /\ NamesUnique
  BY TypeStart
<1>2. TypeInv /\ NamesUnique /\ [Next]_vars => (TypeInv /\ NamesUnique)'
  BY TypeStep
<1>3. QED
  BY <1>1, <1>2, PTL DEF Spec

\* The type invariant of the module follows.
THEOREM TypesHold == Spec => []TypeOK
<1>1. TypeInv /\ NamesUnique => TypeOK
  BY DEF TypeInv, NamesUnique, TypeOK, TokenRecords
<1>2. QED
  BY <1>1, AccountTypes, PTL

-------------------------------------------------------------------------------
(* The bootstrap of an empty table.                                        *)

Bootstrapping == {t \in Txs : tx[t].pc = "bootstrap"}

\* One bootstrap at most is under way, as the advisory lock is held; and while
\* one is, a user that is there was not made by a bootstrap.
BootInv ==
    /\ \A s, t \in Bootstrapping : s = t
    /\ Bootstrapping # {} /\ Existing # {} => boots = 0
    /\ boots <= 1

\* A step that neither begins a bootstrap nor writes users.
LEMMA BootUntouched ==
    ASSUME TypeInv, BootInv, Bootstrapping' \subseteq Bootstrapping, UNCHANGED <<user, boots>>
    PROVE  BootInv'
BY DEF BootInv, Existing

\* An end of a request, and what the requests are that are left.
LEMMA BootEnds ==
    ASSUME TypeInv, NEW t \in Txs, Ends(t)
    PROVE  Bootstrapping' = Bootstrapping \ {t}
BY DEF TypeInv, Ends, Goes, Bootstrapping, Idle

\* Every step keeps the bootstrap apart from the users it did not make.
LEMMA BootStep == TypeInv /\ BootInv /\ [Next]_vars => BootInv'
<1> SUFFICES ASSUME TypeInv, BootInv, [Next]_vars PROVE BootInv'
  OBVIOUS
<1>1. user \in [Users -> Row \cup {NoUser, Deleted}] /\ tx \in [Txs -> Requests] /\ boots \in Nat
  BY DEF TypeInv
<1>2. ASSUME NEW t \in Txs, Begin(t) PROVE BootInv'
  <2>1. PICK r \in Requests : tx' = [tx EXCEPT ![t] = r]
    BY <1>2, BeginStep
  <2>2. UNCHANGED <<user, boots>>
    BY <1>2, BeginStep
  <2>3. CASE \E n \in Names : StartBootstrap(t, n)
    <3>1. Bootstrapping = {} /\ Existing = {}
      BY <2>3 DEF StartBootstrap, AdvisoryLockFree, Bootstrapping
    <3>2. Bootstrapping' \subseteq {t}
      BY <1>1, <2>1, <3>1 DEF Bootstrapping
    <3>3. Existing' = {}
      BY <2>2, <3>1 DEF Existing
    <3>4. QED
      BY <2>2, <3>2, <3>3 DEF BootInv
  <2>4. CASE ~\E n \in Names : StartBootstrap(t, n)
    <3>1. tx'[t].pc # "bootstrap"
      BY <1>1, <1>2, <2>4 DEF Begin, StartLogin, StartCreate, StartUpdate, StartRemoval, Goes
    <3>2. Bootstrapping' \subseteq Bootstrapping
      BY <1>1, <2>1, <3>1 DEF Bootstrapping
    <3>3. QED
      BY <2>2, <3>2, BootUntouched
  <2>5. QED
    BY <2>3, <2>4
<1>3. ASSUME NEW t \in Txs, Refuse(t) \/ RefuseInactive(t) \/ \E k \in Tokens : Admit(t, k) PROVE BootInv'
  <2>1. Ends(t) /\ UNCHANGED <<user, boots>>
    BY <1>3 DEF Refuse, RefuseInactive, Admit
  <2>2. QED
    BY <2>1, BootEnds, BootUntouched
<1>4. ASSUME NEW t \in Txs, CommitUpdate(t) \/ CommitRemoval(t) PROVE BootInv'
  <2>1. Ends(t) /\ UNCHANGED boots
    BY <1>4 DEF CommitUpdate, CommitRemoval
  <2>2. Existing' \subseteq Existing
    <3> DEFINE u == tx[t].user
               off == [user[u] EXCEPT !.active = FALSE]
    <3>1. \/ UNCHANGED user
          \/ u \in Existing /\ user' = [user EXCEPT ![u] = Written(t)]
          \/ u \in Existing /\ user' = [user EXCEPT ![u] = off]
          \/ user' = [user EXCEPT ![u] = Deleted]
      BY <1>4 DEF CommitUpdate, CommitRemoval
    <3> HIDE DEF u, off
    <3>2. QED
      BY <1>1, <3>1 DEF Existing
  <2>3. QED
    BY <2>1, <2>2, BootEnds DEF BootInv
<1>5. ASSUME NEW t \in Txs, NEW u \in Users, CommitCreate(t, u) PROVE BootInv'
  <2>1. Ends(t) /\ boots' = Boots(0)
    BY <1>5 DEF CommitCreate
  <2>2. Bootstrapping' \subseteq Bootstrapping
    BY <2>1, BootEnds
  <2>3. boots' = (IF Existing = {} THEN 0 ELSE boots)
    BY <1>1, <2>1 DEF Boots
  <2>4. QED
    BY <1>1, <2>2, <2>3 DEF BootInv
<1>6. ASSUME NEW t \in Txs, NEW u \in Users, CommitBootstrap(t, u) PROVE BootInv'
  <2>1. Ends(t) /\ t \in Bootstrapping
    BY <1>6 DEF CommitBootstrap, Bootstrapping
  <2>2. Bootstrapping' = {}
    BY <2>1, BootEnds DEF BootInv
  <2>3. (IF Existing = {} THEN 0 ELSE boots) = 0
    BY <2>1 DEF BootInv
  <2>4. boots' = boots \/ boots' = 1
    BY <1>6, <2>3 DEF CommitBootstrap, Boots
  <2>5. QED
    BY <1>1, <2>2, <2>4 DEF BootInv
<1>7. ASSUME NEW p \in Procs, Restart(p) PROVE BootInv'
  <2>1. Bootstrapping' \subseteq Bootstrapping
    BY <1>1, <1>7 DEF Restart, Bootstrapping, Idle
  <2>2. QED
    BY <1>7, <2>1, BootUntouched DEF Restart
<1>8. ASSUME UNCHANGED <<user, tx, boots>> PROVE BootInv'
  <2>1. Bootstrapping' = Bootstrapping
    BY <1>8 DEF Bootstrapping
  <2>2. QED
    BY <1>8, <2>1, BootUntouched
<1>9. QED
  BY <1>2, <1>3, <1>4, <1>5, <1>6, <1>7, <1>8 DEF Next, Finish, Logout, Tick, vars

\* The bootstrap makes one Owner of an empty table, whoever asks at once.
THEOREM OneBootstrap == Spec => []BootstrapOnce
<1>1. Init => BootInv
  BY DEF Init, BootInv, Bootstrapping, Idle
<1>2. TypeInv /\ BootInv /\ [Next]_vars => BootInv'
  BY BootStep
<1>3. BootInv => BootstrapOnce
  BY DEF BootInv, BootstrapOnce
<1>4. QED
  BY <1>1, <1>2, <1>3, AccountTypes, PTL DEF Spec

-------------------------------------------------------------------------------
(* Tokens that were revoked.                                               *)

\* A token a process was asked to revoke is listed until its last second.
RevokedInv ==
    \A l \in logouts : token[l[2]] # NoToken /\ revoked[l[1]][l[2]] + Second > token[l[2]].exp

\* The time a token is listed for leaves less than a second of its life.
LEMMA ListedToTheLastSecond ==
    ASSUME TypeInv, NEW k \in Tokens, token[k] # NoToken
    PROVE  now + RevokedFor(k) + Second > token[k].exp /\ RevokedFor(k) \in Int
<1> DEFINE life == token[k].exp - now
           left == life \div Second
<1>1. token[k].exp \in Int /\ now \in Int
  BY Parameters DEF TypeInv, TokenRecords
<1>2. life \in Int
  BY <1>1
<1>3. left \in Int /\ left * Second \in Int /\ life < left * Second + Second
  BY <1>2, WholeSeconds, Parameters
<1>4. RevokedFor(k) = IF left <= 0 THEN 60 * Second ELSE left * Second
  BY DEF RevokedFor
<1>5. left <= 0 => left * Second <= 0
  <2> HIDE DEF left
  <2>1. QED
    BY <1>3, Parameters
<1> HIDE DEF left
<1>6. RevokedFor(k) \in Int /\ RevokedFor(k) + Second > life
  <2>1. CASE left <= 0
    BY <1>2, <1>3, <1>4, <1>5, <2>1, Parameters
  <2>2. CASE ~(left <= 0)
    BY <1>2, <1>3, <1>4, <2>2, Parameters
  <2>3. QED
    BY <2>1, <2>2
<1>7. QED
  BY <1>1, <1>6, Parameters

\* Every step keeps what is revoked listed for as long as it has to be.
LEMMA RevokedStep == TypeInv /\ RevokedInv /\ [Next]_vars => RevokedInv'
<1> SUFFICES ASSUME TypeInv, RevokedInv, [Next]_vars PROVE RevokedInv'
  OBVIOUS
<1>1. /\ revoked \in [Procs -> [Tokens -> Int]] /\ token \in [Tokens -> TokenRecords \cup {NoToken}]
      /\ logouts \in SUBSET (Procs \X Tokens)
  BY DEF TypeInv
<1>2. ASSUME UNCHANGED <<token, revoked, logouts>> PROVE RevokedInv'
  BY <1>2 DEF RevokedInv
<1>3. ASSUME NEW t \in Txs, Begin(t) PROVE RevokedInv'
  BY <1>2, <1>3, BeginStep
<1>4. ASSUME NEW t \in Txs, NEW k \in Tokens, Admit(t, k) PROVE RevokedInv'
  <2>1. UNCHANGED <<revoked, logouts>>
    BY <1>4 DEF Admit
  <2>2. token[k] = NoToken /\ \A j \in Tokens \ {k} : token'[j] = token[j]
    BY <1>1, <1>4 DEF Admit, Issue
  <2>3. \A l \in logouts : l[2] \in Tokens \ {k}
    BY <1>1, <2>2 DEF RevokedInv
  <2>4. QED
    BY <2>1, <2>2, <2>3 DEF RevokedInv
<1>5. ASSUME NEW p \in Procs, NEW k \in Tokens, Logout(p, k) PROVE RevokedInv'
  <2> DEFINE until == now + RevokedFor(k)
  <2>1. token[k] # NoToken /\ UNCHANGED token /\ logouts' = logouts \cup {<<p, k>>}
    BY <1>5 DEF Logout, Accepted
  <2>2. until + Second > token[k].exp
    BY <2>1, ListedToTheLastSecond
  <2>3. revoked' = [revoked EXCEPT ![p][k] = until]
    BY <1>5 DEF Logout
  <2> HIDE DEF until
  <2>4. /\ revoked'[p][k] = until
        /\ \A q \in Procs, j \in Tokens : <<q, j>> # <<p, k>> => revoked'[q][j] = revoked[q][j]
    BY <1>1, <2>3
  <2>5. ASSUME NEW l \in logouts'
        PROVE  token'[l[2]] # NoToken /\ revoked'[l[1]][l[2]] + Second > token'[l[2]].exp
    <3>1. l \in Procs \X Tokens /\ l = <<l[1], l[2]>> /\ l[1] \in Procs /\ l[2] \in Tokens
      BY <1>1, <2>1
    <3>2. CASE l = <<p, k>>
      BY <2>1, <2>2, <2>4, <3>2
    <3>3. CASE l # <<p, k>>
      <4>1. l \in logouts
        BY <2>1, <3>3
      <4>2. revoked'[l[1]][l[2]] = revoked[l[1]][l[2]]
        BY <2>4, <3>1, <3>3
      <4>3. QED
        BY <2>1, <4>1, <4>2 DEF RevokedInv
    <3>4. QED
      BY <3>2, <3>3
  <2>6. QED
    BY <2>5 DEF RevokedInv
<1>6. ASSUME NEW p \in Procs, Restart(p) PROVE RevokedInv'
  <2>1. logouts' = {l \in logouts : l[1] # p} /\ UNCHANGED token
    BY <1>6 DEF Restart
  <2>2. \A l \in logouts' : l \in logouts /\ revoked'[l[1]] = revoked[l[1]]
    BY <1>1, <1>6, <2>1 DEF Restart
  <2>3. QED
    BY <2>1, <2>2 DEF RevokedInv
<1>7. ASSUME NEW t \in Txs,
             \/ Refuse(t) \/ RefuseInactive(t) \/ CommitUpdate(t) \/ CommitRemoval(t)
             \/ \E u \in Users : CommitBootstrap(t, u) \/ CommitCreate(t, u)
      PROVE  RevokedInv'
  BY <1>2, <1>7 DEF Refuse, RefuseInactive, CommitUpdate, CommitRemoval, CommitBootstrap, CommitCreate, cache
<1>8. CASE Tick \/ UNCHANGED vars
  BY <1>2, <1>8 DEF Tick, cache, vars
<1>9. QED
  BY <1>3, <1>4, <1>5, <1>6, <1>7, <1>8 DEF Next, Finish

\* A process that revoked a token refuses it for as long as the token has a
\* second to live.
THEOREM RevokedIsRefused == Spec => []RevokedStaysOut
<1>1. Init => RevokedInv
  BY DEF Init, RevokedInv
<1>2. TypeInv /\ RevokedInv /\ [Next]_vars => RevokedInv'
  BY RevokedStep
<1>3. TypeInv /\ RevokedInv => RevokedStaysOut
  <2> SUFFICES ASSUME TypeInv, RevokedInv, NEW l \in logouts, now + Second <= token[l[2]].exp
               PROVE  ~(revoked[l[1]][l[2]] < now)
    BY DEF RevokedStaysOut, Accepted
  <2>1. l[1] \in Procs /\ l[2] \in Tokens
    BY DEF TypeInv
  <2>2. revoked[l[1]][l[2]] \in Int /\ now \in Int /\ token[l[2]] # NoToken
    BY <2>1 DEF TypeInv, RevokedInv
  <2>3. token[l[2]].exp \in Int
    BY <2>1, <2>2, Parameters DEF TypeInv, TokenRecords
  <2>4. revoked[l[1]][l[2]] + Second > token[l[2]].exp
    BY DEF RevokedInv
  <2>5. QED
    BY <2>2, <2>3, <2>4, Parameters
<1>4. QED
  BY <1>1, <1>2, <1>3, AccountTypes, PTL DEF Spec

-------------------------------------------------------------------------------
(* The lock-out.                                                           *)

\* The logins of a process under way for an identifier.
Pending(p, i) == {t \in Txs : tx[t].pc = "login" /\ tx[t].proc = p /\ tx[t].ident = i}

\* The guesses that failed and those whose check was made before them.
LockoutInv ==
    \A p \in Procs, i \in Identifiers :
        Get(attempts[p][i]) + Cardinality(Pending(p, i)) <= MaxAttempts + Cardinality(Txs) - 1

\* How many logins are under way is a number, at most that of the requests.
LEMMA PendingCount ==
    ASSUME NEW p, NEW i
    PROVE  /\ IsFiniteSet(Pending(p, i)) /\ Cardinality(Pending(p, i)) \in Nat
           /\ Cardinality(Txs) \in Nat /\ Cardinality(Txs) > 0
           /\ Cardinality(Pending(p, i)) <= Cardinality(Txs)
<1>1. IsFiniteSet(Txs) /\ Pending(p, i) \subseteq Txs /\ Txs # {}
  BY AccountsAssumption DEF Pending
<1>2. IsFiniteSet(Pending(p, i)) /\ Cardinality(Pending(p, i)) <= Cardinality(Txs)
  BY <1>1, FS_Subset
<1>3. Cardinality(Txs) \in Nat /\ Cardinality(Pending(p, i)) \in Nat
  BY <1>1, <1>2, FS_CardinalityType
<1>4. Cardinality(Txs) # 0
  BY <1>1, FS_EmptySet
<1>5. QED
  BY <1>2, <1>3, <1>4

\* Fewer logins under way count less.
LEMMA PendingShrinks ==
    ASSUME NEW p, NEW i, NEW S, S \subseteq Pending(p, i)
    PROVE  Cardinality(S) \in Nat /\ Cardinality(S) <= Cardinality(Pending(p, i))
BY PendingCount, FS_Subset, FS_CardinalityType

\* Requests that end or do something else leave the lock-out as it is.
LEMMA LockoutFewer ==
    ASSUME TypeInv, TypeInv', LockoutInv,
           \A p \in Procs, i \in Identifiers :
               Pending(p, i)' \subseteq Pending(p, i) /\ Get(attempts[p][i])' <= Get(attempts[p][i])
    PROVE  LockoutInv'
<1> SUFFICES ASSUME NEW p \in Procs, NEW i \in Identifiers
             PROVE  (Get(attempts[p][i]) + Cardinality(Pending(p, i)))' <= MaxAttempts + Cardinality(Txs) - 1
  BY DEF LockoutInv
<1> DEFINE pending == Pending(p, i)'
           count == Get(attempts[p][i])'
<1>1. Get(attempts[p][i]) \in Nat /\ Get(attempts[p][i])' \in Nat
  <2>1. attempts[p][i] \in Entries /\ attempts'[p][i] \in Entries
    BY DEF TypeInv
  <2>2. now \in Int /\ now' \in Int
    BY Parameters DEF TypeInv
  <2>3. QED
    BY <2>1, <2>2 DEF Get, Entries
<1>2. Cardinality(pending) \in Nat /\ Cardinality(pending) <= Cardinality(Pending(p, i))
  <2>1. pending \subseteq Pending(p, i)
    OBVIOUS
  <2> HIDE DEF pending
  <2>2. QED
    BY <2>1, PendingShrinks
<1>3. Cardinality(Pending(p, i)) \in Nat /\ Cardinality(Txs) \in Nat
  BY PendingCount
<1>4. Get(attempts[p][i]) + Cardinality(Pending(p, i)) <= MaxAttempts + Cardinality(Txs) - 1
  BY DEF LockoutInv
<1>5. count <= Get(attempts[p][i]) /\ count \in Nat
  BY <1>1
<1> HIDE DEF pending, count
<1>6. count + Cardinality(pending) <= MaxAttempts + Cardinality(Txs) - 1
  BY <1>1, <1>2, <1>3, <1>4, <1>5, Parameters
<1>7. QED
  BY <1>6 DEF count, pending

\* Every step keeps the lock-out: a check finds fewer than MaxAttempts, a
\* failure turns a login under way into a failed one, and time only frees.
LEMMA LockoutStep == TypeInv /\ TypeInv' /\ LockoutInv /\ [Next]_vars => LockoutInv'
<1> SUFFICES ASSUME TypeInv, TypeInv', LockoutInv, [Next]_vars PROVE LockoutInv'
  OBVIOUS
<1>1. /\ attempts \in [Procs -> [Identifiers -> Entries]] /\ tx \in [Txs -> Requests]
      /\ now \in Int
  BY Parameters DEF TypeInv
<1>2. \A p \in Procs, i \in Identifiers : Get(attempts[p][i]) \in Nat
  BY <1>1, GetType
<1>3. ASSUME UNCHANGED <<attempts, now>> PROVE \A p, i : Get(attempts[p][i])' = Get(attempts[p][i])
  BY <1>3 DEF Get
<1>4. ASSUME NEW t \in Txs, Ends(t)
      PROVE  \A p, i : Pending(p, i)' = Pending(p, i) \ {t}
  BY <1>1, <1>4 DEF Ends, Goes, Pending, Idle
<1>5. ASSUME UNCHANGED <<attempts, now>>, \A p \in Procs, i \in Identifiers : Pending(p, i)' \subseteq Pending(p, i)
      PROVE  LockoutInv'
  <2>1. \A p \in Procs, i \in Identifiers : Get(attempts[p][i])' <= Get(attempts[p][i])
    BY <1>2, <1>3, <1>5
  <2>2. QED
    BY <1>5, <2>1, LockoutFewer
<1>6. ASSUME NEW t \in Txs, NEW p \in Procs, NEW i \in Identifiers, StartLogin(t, p, i) PROVE LockoutInv'
  <2>1. UNCHANGED <<attempts, now>> /\ Get(attempts[p][i]) < MaxAttempts /\ tx[t] = Idle
    BY <1>2, <1>6, Parameters DEF StartLogin, cache, Locked
  <2>2. \A q, j : <<q, j>> # <<p, i>> => Pending(q, j)' = Pending(q, j)
    BY <1>1, <1>6 DEF StartLogin, Goes, Pending, Idle
  <2>3. Pending(p, i)' = Pending(p, i) \cup {t} /\ t \notin Pending(p, i)
    BY <1>1, <1>6 DEF StartLogin, Goes, Pending, Idle
  <2> DEFINE more == Pending(p, i) \cup {t}
  <2>4. more \subseteq Txs
    BY DEF Pending
  <2>5. Cardinality(more) \in Nat /\ Cardinality(more) <= Cardinality(Txs) /\ Cardinality(Txs) \in Nat
    <3> HIDE DEF more
    <3>1. QED
      BY <2>4, FS_Subset, FS_CardinalityType, AccountsAssumption
  <2> HIDE DEF more
  <2>6. Get(attempts[p][i]) + Cardinality(more) <= MaxAttempts + Cardinality(Txs) - 1
    BY <1>2, <2>1, <2>5, Parameters
  <2>7. ASSUME NEW q \in Procs, NEW j \in Identifiers
        PROVE  Get(attempts[q][j])' + Cardinality(Pending(q, j)') <= MaxAttempts + Cardinality(Txs) - 1
    <3>1. Get(attempts[q][j])' = Get(attempts[q][j])
      BY <1>3, <2>1
    <3>2. CASE q = p /\ j = i
      BY <2>3, <2>6, <3>1, <3>2 DEF more
    <3>3. CASE ~(q = p /\ j = i)
      <4>1. Pending(q, j)' = Pending(q, j)
        BY <2>2, <3>3
      <4>2. QED
        BY <3>1, <4>1 DEF LockoutInv
    <3>4. QED
      BY <3>2, <3>3
  <2>8. QED
    BY <2>7 DEF LockoutInv
<1>7. ASSUME NEW t \in Txs, Begin(t) PROVE LockoutInv'
  <2>1. CASE \E p \in Procs, i \in Identifiers : StartLogin(t, p, i)
    BY <1>6, <2>1
  <2>2. CASE ~\E p \in Procs, i \in Identifiers : StartLogin(t, p, i)
    <3>1. UNCHANGED <<attempts, now>> /\ \E r \in Requests : tx' = [tx EXCEPT ![t] = r]
      BY <1>7, BeginStep
    <3>2. tx'[t].pc # "login"
      BY <1>1, <1>7, <2>2 DEF Begin, StartBootstrap, StartCreate, StartUpdate, StartRemoval, Goes
    <3>3. \A p \in Procs, i \in Identifiers : Pending(p, i)' \subseteq Pending(p, i)
      BY <1>1, <3>1, <3>2 DEF Pending
    <3>4. QED
      BY <1>5, <3>1, <3>3
  <2>3. QED
    BY <2>1, <2>2
<1>8. ASSUME NEW t \in Txs, NEW p \in Procs, NEW i \in Identifiers,
             tx[t].pc = "login" /\ tx[t].proc = p /\ tx[t].ident = i, Ends(t), UNCHANGED now,
             \/ \E checked : Fails(p, i, checked)
             \/ Succeeds(p, i)
      PROVE  LockoutInv'
  <2> DEFINE fewer == Pending(p, i) \ {t}
  <2>1. t \in Pending(p, i) /\ Pending(p, i)' = fewer
    BY <1>4, <1>8 DEF Pending
  <2>2. Cardinality(fewer) \in Nat /\ Cardinality(fewer) = Cardinality(Pending(p, i)) - 1
    <3>1. IsFiniteSet(Pending(p, i)) /\ Cardinality(Pending(p, i)) \in Nat
      BY PendingCount
    <3>2. fewer \subseteq Pending(p, i)
      OBVIOUS
    <3>3. Cardinality(fewer) = Cardinality(Pending(p, i)) - 1
      BY <2>1, <3>1, FS_RemoveElement
    <3> HIDE DEF fewer
    <3>4. QED
      BY <3>2, <3>3, PendingShrinks
  <2> HIDE DEF fewer
  <2>3. Get(attempts[p][i])' \in Nat /\ Get(attempts[p][i])' <= Get(attempts[p][i]) + 1
    <3>1. \/ attempts'[p][i] = [count |-> Get(attempts[p][i]) + 1, until |-> now + Lockout]
          \/ attempts'[p][i] = Absent
      BY <1>8, CountStep
    <3>2. attempts'[p][i].count \in {Get(attempts[p][i]) + 1, 0}
      BY <3>1 DEF Absent
    <3>3. Get(attempts[p][i])' \in {attempts'[p][i].count, 0}
      BY DEF Get
    <3>4. QED
      BY <1>2, <3>2, <3>3
  <2>4. \A q \in Procs, j \in Identifiers : <<q, j>> # <<p, i>> => attempts'[q][j] = attempts[q][j]
    BY <1>8, CountStep
  <2>5. ASSUME NEW q \in Procs, NEW j \in Identifiers
        PROVE  Get(attempts[q][j])' + Cardinality(Pending(q, j)') <= MaxAttempts + Cardinality(Txs) - 1
    <3>1. CASE q = p /\ j = i
      <4> DEFINE count == Get(attempts[p][i])'
      <4>1. count \in Nat /\ count <= Get(attempts[p][i]) + 1
        BY <2>3
      <4>2. Get(attempts[p][i]) + Cardinality(Pending(p, i)) <= MaxAttempts + Cardinality(Txs) - 1
        BY DEF LockoutInv
      <4>3. Cardinality(Pending(p, i)) \in Nat /\ Cardinality(Txs) \in Nat
        BY PendingCount
      <4> HIDE DEF count
      <4>4. count + Cardinality(fewer) <= MaxAttempts + Cardinality(Txs) - 1
        BY <1>2, <2>2, <4>1, <4>2, <4>3, Parameters
      <4>5. QED
        BY <2>1, <3>1, <4>4 DEF count
    <3>2. CASE ~(q = p /\ j = i)
      <4>1. Get(attempts[q][j])' = Get(attempts[q][j])
        BY <1>8, <2>4, <3>2 DEF Get
      <4>2. Pending(q, j)' = Pending(q, j)
        BY <1>4, <1>8, <3>2 DEF Pending
      <4>3. QED
        BY <4>1, <4>2 DEF LockoutInv
    <3>3. QED
      BY <3>1, <3>2
  <2>6. QED
    BY <2>5 DEF LockoutInv
<1>9. ASSUME NEW t \in Txs, Refuse(t) \/ \E k \in Tokens : Admit(t, k) PROVE LockoutInv'
  <2>1. tx[t] \in Logins /\ tx[t].pc = "login" /\ Ends(t) /\ UNCHANGED now
    BY <1>1, <1>9, RequestKinds DEF Refuse, Admit
  <2>2. \/ Fails(tx[t].proc, tx[t].ident, tx[t].checked)
        \/ Succeeds(tx[t].proc, tx[t].ident)
    BY <1>9 DEF Refuse, Admit
  <2>3. tx[t].proc \in Procs /\ tx[t].ident \in Identifiers
    BY <2>1 DEF Logins
  <2>4. QED
    BY <1>8, <2>1, <2>2, <2>3
<1>10. ASSUME NEW t \in Txs,
              \/ RefuseInactive(t) \/ CommitUpdate(t) \/ CommitRemoval(t)
              \/ \E u \in Users : CommitBootstrap(t, u) \/ CommitCreate(t, u)
       PROVE  LockoutInv'
  <2>1. Ends(t) /\ UNCHANGED <<attempts, now>>
    BY <1>10 DEF RefuseInactive, CommitUpdate, CommitRemoval, CommitBootstrap, CommitCreate, cache
  <2>2. QED
    BY <1>4, <1>5, <2>1
<1>11. ASSUME NEW p \in Procs, NEW k \in Tokens, Logout(p, k) PROVE LockoutInv'
  <2>1. UNCHANGED <<attempts, now, tx>>
    BY <1>11 DEF Logout
  <2>2. QED
    BY <1>5, <2>1 DEF Pending
<1>12. ASSUME NEW p \in Procs, Restart(p) PROVE LockoutInv'
  <2>1. \A q \in Procs, i \in Identifiers : Pending(q, i)' \subseteq Pending(q, i)
    BY <1>1, <1>12 DEF Restart, Pending, Idle
  <2>2. \A q \in Procs, i \in Identifiers : attempts'[q][i] \in {attempts[q][i], Absent}
    BY <1>1, <1>12 DEF Restart
  <2>3. \A q \in Procs, i \in Identifiers : Get(attempts[q][i])' <= Get(attempts[q][i])
    BY <1>2, <1>12, <2>2 DEF Restart, Get, Absent
  <2>4. QED
    BY <2>1, <2>3, LockoutFewer
<1>13. CASE Tick
  <2>1. UNCHANGED <<tx, attempts>> /\ now' = now + 1
    BY <1>13 DEF Tick, cache
  <2>2. \A q \in Procs, i \in Identifiers : Pending(q, i)' \subseteq Pending(q, i)
    BY <2>1 DEF Pending
  <2>3. \A q \in Procs, i \in Identifiers : attempts[q][i] \in Entries
    BY <1>1
  <2>4. \A q \in Procs, i \in Identifiers : Get(attempts[q][i])' <= Get(attempts[q][i])
    BY <1>1, <2>1, <2>3 DEF Get, Entries
  <2>5. QED
    BY <2>2, <2>4, LockoutFewer
<1>14. CASE UNCHANGED vars
  BY <1>5, <1>14 DEF vars, Pending
<1>15. QED
  BY <1>7, <1>9, <1>10, <1>11, <1>12, <1>13, <1>14 DEF Next, Finish

\* However many requests overlap, a process lets at most MaxAttempts wrong
\* guesses for an identifier through in a lock-out window, and beyond them only
\* those whose check was made before the last of these failed.
THEOREM LockedOut == Spec => []LockoutHolds
<1>1. Init => LockoutInv
  <2> SUFFICES ASSUME Init, NEW p \in Procs, NEW i \in Identifiers
               PROVE  Get(attempts[p][i]) + Cardinality(Pending(p, i)) <= MaxAttempts + Cardinality(Txs) - 1
    BY DEF LockoutInv
  <2>1. Get(attempts[p][i]) = 0
    BY DEF Init, Get, Absent
  <2>2. Pending(p, i) = {}
    BY DEF Init, Pending, Idle
  <2>3. Cardinality(Pending(p, i)) = 0
    BY <2>2, FS_EmptySet
  <2>4. QED
    BY <2>1, <2>3, PendingCount, Parameters
<1>2. TypeInv /\ TypeInv' /\ LockoutInv /\ [Next]_vars => LockoutInv'
  BY LockoutStep
<1>3. TypeInv /\ LockoutInv => LockoutHolds
  <2> SUFFICES ASSUME TypeInv, LockoutInv, NEW p \in Procs, NEW i \in Identifiers
               PROVE  Get(failures[p][i]) <= MaxAttempts + Cardinality(Txs) - 1
    BY DEF LockoutHolds
  <2>1. attempts[p][i] \in Entries /\ failures[p][i] = attempts[p][i]
    BY DEF TypeInv
  <2>2. Get(attempts[p][i]) \in Nat
    BY <2>1, GetType
  <2>3. Get(attempts[p][i]) + Cardinality(Pending(p, i)) <= MaxAttempts + Cardinality(Txs) - 1
    BY DEF LockoutInv
  <2>4. QED
    BY <2>1, <2>2, <2>3, PendingCount, Parameters
<1>4. QED
  BY <1>1, <1>2, <1>3, AccountTypes, PTL DEF Spec
===============================================================================
