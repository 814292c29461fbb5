------------------------------- MODULE Accounts -------------------------------
(***************************************************************************)
(* Internal users, their tokens, and the process-local cache that holds the *)
(* failed logins and the revoked tokens: user_service, auth_service, the    *)
(* password logins of buyer_auth_service, core/security, core/cache and     *)
(* api/dependencies. A request of one process runs until it awaits the      *)
(* database; each step is what it does between two awaits.                  *)
(*                                                                         *)
(* Left out: passwords (a guess is right or wrong), e-mail addresses (they  *)
(* behave as user names do), avatars, takeover flags, service keys, and     *)
(* what buyers do to their accounts.                                        *)
(*                                                                         *)
(* A definition whose name ends in _Faulty... is a deliberately wrong       *)
(* variant of the one that follows it; no action uses it.                   *)
(***************************************************************************)
EXTENDS Integers, FiniteSets

CONSTANTS Users,        \* ids of users rows
          Names,        \* user names
          Phones,       \* phone numbers, "none" among them
          Roles,        \* levels of roles: Owner's is 1, the highest rank
          Buyers,       \* the buyers, by what they log in with
          Tokens,       \* access tokens
          Procs,        \* server processes
          Txs,          \* requests under way at once
          MaxAttempts,  \* _MAX_LOGIN_ATTEMPTS
          Lockout,      \* _LOCKOUT_SECONDS, in ticks
          Life,         \* ACCESS_TOKEN_EXPIRE_MINUTES, in ticks
          Second,       \* ticks in a second
          MaxClock,     \* bound: the time looked at
          MaxRequests   \* bound: requests made

Owner == 1

ASSUME AccountsAssumption ==
    /\ IsFiniteSet(Txs) /\ Txs # {}
    /\ "none" \in Phones /\ Names \cap (Phones \cup Buyers) = {} /\ Buyers \cap Phones = {}
    /\ Owner \in Roles /\ Roles \subseteq Nat \ {0}
    /\ {MaxAttempts, Lockout, Life, Second} \subseteq Nat \ {0}
    /\ {MaxClock, MaxRequests} \subseteq Nat

NoUser == [name |-> "none", phone |-> "none"]
Deleted == [name |-> "deleted", phone |-> "none"]   \* ids are not used twice
NoToken == [exp |-> 0]
Idle == [pc |-> "idle"]
Absent == [count |-> 0, until |-> -1]

Identifiers == Names \cup (Phones \ {"none"}) \cup Buyers

VARIABLES user,      \* users
          token,     \* the tokens issued
          attempts,  \* app_cache: failed logins, per process and identifier
          revoked,   \* app_cache: until when a token is listed, per process
          tx,        \* the requests under way
          now, requests,
          failures,  \* history: wrong guesses since the last success or window
          logouts,   \* history: tokens a process was asked to revoke
          boots      \* history: bootstraps since the users table was last empty

vars == <<user, token, attempts, revoked, tx, now, requests, failures, logouts, boots>>
cache == <<attempts, revoked, failures, logouts>>

Profile == [name : Names, phone : Phones]
Row == [name : Names, phone : Phones, level : Roles, active : BOOLEAN]

\* The processes start on an empty database, or on one with an Owner and any
\* other users.
Init ==
    /\ user \in [Users -> Row \cup {NoUser}]
    /\ \A u, v \in Users : u # v /\ user[u] # NoUser => user[u].name # user[v].name
    /\ (\A u \in Users : user[u] = NoUser) \/ (\E u \in Users : user[u] # NoUser /\ user[u].level = Owner /\ user[u].active)
    /\ token = [k \in Tokens |-> NoToken]
    /\ attempts = [p \in Procs |-> [i \in Identifiers |-> Absent]]
    /\ revoked = [p \in Procs |-> [k \in Tokens |-> -1]]
    /\ tx = [t \in Txs |-> Idle]
    /\ now = 0 /\ requests = 0
    /\ failures = [p \in Procs |-> [i \in Identifiers |-> Absent]]
    /\ logouts = {}
    /\ boots = 0

Existing == {u \in Users : user[u] \notin {NoUser, Deleted}}
Request == requests < MaxRequests /\ requests' = requests + 1
Goes(t, r) == tx' = [tx EXCEPT ![t] = r]
Ends(t) == Goes(t, Idle)

-------------------------------------------------------------------------------
(* TTLCache                                                                 *)

\* get: an entry is there up to and including its last instant.
Get(entry) == IF entry.until >= now THEN entry.count ELSE 0

\* _record_failed_login, _clear_login_attempts: no await between get and set.
Recorded_FaultyCheckedValue(entry, checked) == [count |-> checked + 1, until |-> now + Lockout]
Recorded(entry, checked) == [count |-> Get(entry) + 1, until |-> now + Lockout]

Fails(p, i, checked) ==
    /\ attempts' = [attempts EXCEPT ![p][i] = Recorded(@, checked)]
    /\ failures' = [failures EXCEPT ![p][i] = [count |-> Get(@) + 1, until |-> now + Lockout]]

Succeeds(p, i) ==
    /\ attempts' = [attempts EXCEPT ![p][i] = Absent]
    /\ failures' = [failures EXCEPT ![p][i] = Absent]

\* revoke_token: the life that is left in whole seconds, a minute if that is none.
RevokedFor_FaultyDefault(k) == Second
RevokedFor(k) ==
    LET left == (token[k].exp - now) \div Second
    IN IF left <= 0 THEN 60 * Second ELSE left * Second

-------------------------------------------------------------------------------
(* Logins and tokens                                                        *)

\* decode_token
Accepted(p, k) ==
    /\ token[k] # NoToken
    /\ now < token[k].exp
    /\ revoked[p][k] < now

\* create_access_token: exp is a whole second.
Issue(k, subject, level) ==
    /\ token[k] = NoToken
    /\ token' = [token EXCEPT ![k] =
          [subject |-> subject, level |-> level, exp |-> ((now + Life) \div Second) * Second]]

\* authenticate_user, login_buyer_password, login_buyer_phone: the lock-out is
\* looked at before the first await only.
Locked(p, i) == Get(attempts[p][i]) >= MaxAttempts

StartLogin(t, p, i) ==
    /\ Request
    /\ tx[t] = Idle /\ ~Locked(p, i)
    /\ Goes(t, [pc |-> "login", proc |-> p, ident |-> i, checked |-> Get(attempts[p][i])])
    /\ UNCHANGED <<user, token, cache, now, boots>>

\* By name, else by number; of several with the number, any.
Found(i) == {u \in Existing : i \in {user[u].name, user[u].phone}}

Refuse(t) ==
    /\ tx[t].pc = "login"
    /\ Fails(tx[t].proc, tx[t].ident, tx[t].checked)
    /\ Ends(t)
    /\ UNCHANGED <<user, token, revoked, logouts, now, requests, boots>>

RefuseInactive(t) ==
    /\ tx[t].pc = "login" /\ \E u \in Found(tx[t].ident) : ~user[u].active
    /\ Ends(t)
    /\ UNCHANGED <<user, token, cache, now, requests, boots>>

Admit(t, k) ==
    LET i == tx[t].ident
    IN /\ tx[t].pc = "login"
       /\ \/ \E u \in Found(i) : user[u].active /\ Issue(k, u, user[u].level)
          \/ i \in Buyers /\ Issue(k, i, 0)
       /\ Succeeds(tx[t].proc, i)
       /\ Ends(t)
       /\ UNCHANGED <<user, revoked, logouts, now, requests, boots>>

Logout(p, k) ==
    /\ Request
    /\ Accepted(p, k)
    /\ revoked' = [revoked EXCEPT ![p][k] = now + RevokedFor(k)]
    /\ logouts' = logouts \cup {<<p, k>>}
    /\ UNCHANGED <<user, token, attempts, tx, now, failures, boots>>

-------------------------------------------------------------------------------
(* Who a request comes from is read from the database as it begins.         *)

\* get_current_user_id
Identified(p, k) ==
    Accepted(p, k) /\ token[k].level # 0 /\ token[k].subject \in Existing /\ user[token[k].subject].active

\* get_current_user_role_level: the lower of the token's and the row's rank; a
\* token whose row is gone keeps its own.
Level(k) ==
    IF token[k].subject \in Existing /\ user[token[k].subject].level > token[k].level
    THEN user[token[k].subject].level ELSE token[k].level

IsOwner(p, k) ==
    /\ Accepted(p, k) /\ token[k].level # 0
    /\ token[k].subject \in Existing => user[token[k].subject].active
    /\ Level(k) <= Owner

NameFree(n, u) == \A v \in Existing \ {u} : user[v].name # n
PhoneFree(f, u) == f = "none" \/ \A v \in Existing \ {u} : user[v].phone # f

\* A commit to an empty table begins the count of bootstraps anew.
Boots(more) == (IF Existing = {} THEN 0 ELSE boots) + more

\* bootstrap_owner: the advisory lock is held from before the look at the table.
AdvisoryLockFree_FaultyNotTaken == TRUE
AdvisoryLockFree == \A t \in Txs : tx[t].pc # "bootstrap"

StartBootstrap(t, n) ==
    /\ Request
    /\ tx[t] = Idle /\ AdvisoryLockFree
    /\ Existing = {}
    /\ \E p \in Procs : Goes(t, [pc |-> "bootstrap", proc |-> p, name |-> n])
    /\ UNCHANGED <<user, token, cache, now, boots>>

CommitBootstrap(t, u) ==
    /\ tx[t].pc = "bootstrap" /\ user[u] = NoUser
    /\ IF NameFree(tx[t].name, u)
       THEN /\ user' = [user EXCEPT ![u] =
                  [name |-> tx[t].name, phone |-> "none", level |-> Owner, active |-> TRUE]]
            /\ boots' = Boots(1)
       ELSE UNCHANGED <<user, boots>>
    /\ Ends(t)
    /\ UNCHANGED <<token, cache, now, requests>>

StartCreate(t, p, k, row) ==
    /\ Request
    /\ tx[t] = Idle /\ IsOwner(p, k)
    /\ \A u \in Existing : user[u].name # row.name /\ (row.phone = "none" \/ user[u].phone # row.phone)
    /\ Goes(t, [pc |-> "create", proc |-> p, row |-> row])
    /\ UNCHANGED <<user, token, cache, now, boots>>

\* The column of names is unique, that of numbers is not.
CommitCreate(t, u) ==
    /\ tx[t].pc = "create" /\ user[u] = NoUser
    /\ user' = IF NameFree(tx[t].row.name, u) THEN [user EXCEPT ![u] = tx[t].row] ELSE user
    /\ boots' = Boots(0)
    /\ Ends(t)
    /\ UNCHANGED <<token, cache, now, requests>>

\* update_user_profile writes a name and a number; admin_update_user a role and
\* the active flag as well, but never FALSE for its own account. Neither clears
\* a number.
StartUpdate(t, p, k, u, row) ==
    /\ Request
    /\ tx[t] = Idle /\ u \in Existing /\ Identified(p, k)
    /\ \/ row \in Profile /\ token[k].subject = u
       \/ row \in Row /\ IsOwner(p, k) /\ (token[k].subject = u => row.active)
    /\ row.phone = "none" => user[u].phone = "none"
    /\ NameFree(row.name, u) /\ PhoneFree(row.phone, u)
    /\ Goes(t, [pc |-> "update", proc |-> p, user |-> u, was |-> user[u], row |-> row])
    /\ UNCHANGED <<user, token, cache, now, boots>>

\* The columns whose value differs from the row that was read are written.
Written(t) ==
    LET u == tx[t].user
    IN [c \in DOMAIN user[u] |->
           IF c \in DOMAIN tx[t].row /\ tx[t].row[c] # tx[t].was[c] THEN tx[t].row[c] ELSE user[u][c]]

CommitUpdate(t) ==
    LET u == tx[t].user
    IN /\ tx[t].pc = "update"
       /\ user' = IF u \in Existing /\ NameFree(Written(t).name, u)
                  THEN [user EXCEPT ![u] = Written(t)] ELSE user
       /\ Ends(t)
       /\ UNCHANGED <<token, cache, now, requests, boots>>

\* deactivate_user and delete_user, never of one's own account.
StartRemoval(t, p, k, u, pc) ==
    /\ Request
    /\ tx[t] = Idle /\ u \in Existing /\ Identified(p, k) /\ IsOwner(p, k)
    /\ token[k].subject # u
    /\ Goes(t, [pc |-> pc, proc |-> p, user |-> u])
    /\ UNCHANGED <<user, token, cache, now, boots>>

\* A row that others refer to cannot be deleted: it is deactivated instead.
CommitRemoval(t) ==
    LET u == tx[t].user
    IN /\ tx[t].pc \in {"deactivate", "delete"}
       /\ \/ user' = IF u \in Existing THEN [user EXCEPT ![u].active = FALSE] ELSE user
          \/ tx[t].pc = "delete" /\ user' = [user EXCEPT ![u] = Deleted]
       /\ Ends(t)
       /\ UNCHANGED <<token, cache, now, requests, boots>>

-------------------------------------------------------------------------------
Tick ==
    /\ now < MaxClock
    /\ now' = now + 1
    /\ UNCHANGED <<user, token, cache, tx, requests, boots>>

\* The cache goes with its process, and so do the requests it was serving.
Restart(p) ==
    /\ attempts' = [attempts EXCEPT ![p] = [i \in Identifiers |-> Absent]]
    /\ failures' = [failures EXCEPT ![p] = [i \in Identifiers |-> Absent]]
    /\ revoked' = [revoked EXCEPT ![p] = [k \in Tokens |-> -1]]
    /\ logouts' = {l \in logouts : l[1] # p}
    /\ tx' = [t \in Txs |-> IF tx[t] # Idle /\ tx[t].proc = p THEN Idle ELSE tx[t]]
    /\ UNCHANGED <<user, token, now, requests, boots>>

Begin(t) ==
    \/ \E n \in Names : StartBootstrap(t, n)
    \/ \E p \in Procs :
          \/ \E i \in Identifiers : StartLogin(t, p, i)
          \/ \E k \in Tokens :
                \/ \E n \in Names, f \in Phones, l \in Roles :
                      StartCreate(t, p, k, [name |-> n, phone |-> f, level |-> l, active |-> TRUE])
                \/ \E u \in Users :
                      \/ \E row \in Profile \cup Row : StartUpdate(t, p, k, u, row)
                      \/ \E pc \in {"deactivate", "delete"} : StartRemoval(t, p, k, u, pc)

Finish(t) ==
    \/ Refuse(t) \/ RefuseInactive(t) \/ CommitUpdate(t) \/ CommitRemoval(t)
    \/ \E k \in Tokens : Admit(t, k)
    \/ \E u \in Users : CommitBootstrap(t, u) \/ CommitCreate(t, u)

Next ==
    \/ \E t \in Txs : Begin(t) \/ Finish(t)
    \/ \E p \in Procs : Restart(p) \/ \E k \in Tokens : Logout(p, k)
    \/ Tick

Spec == Init /\ [][Next]_vars

-------------------------------------------------------------------------------
TypeOK ==
    /\ \A u \in Users : user[u] \in Row \cup {NoUser, Deleted}
    /\ \A k \in Tokens :
          token[k] = NoToken
          \/ token[k] \in [subject : Users \cup Buyers, level : Roles \cup {0}, exp : 0..(MaxClock + Life)]
    /\ \A u, v \in Existing : user[u].name = user[v].name => u = v
    /\ now \in 0..MaxClock /\ requests \in 0..MaxRequests /\ boots \in Nat

\* However many requests overlap, a process lets at most MaxAttempts wrong
\* guesses for an identifier through in a lock-out window, and beyond them only
\* those whose check was made before the last of these failed.
LockoutHolds ==
    \A p \in Procs, i \in Identifiers :
        Get(failures[p][i]) <= MaxAttempts + Cardinality(Txs) - 1

\* A process that revoked a token refuses it for as long as the token has a
\* second to live; only the last fraction of a second is not covered.
RevokedStaysOut ==
    \A l \in logouts : now + Second <= token[l[2]].exp => ~Accepted(l[1], l[2])

\* The bootstrap makes one Owner of an empty table, whoever asks at once.
BootstrapOnce == boots <= 1
===============================================================================
