---------------------------- MODULE BuyerAuthProofs ----------------------------
(***************************************************************************)
(* Theorems about BuyerAuth, for any number of codes, accounts, customer   *)
(* records and overlapping requests. (SumTheorems is extended for its      *)
(* induction over finite sets.)                                            *)
(***************************************************************************)
EXTENDS BuyerAuth, SumTheorems

-------------------------------------------------------------------------------
(* Types. Beyond TypeOK: which request holds what.                         *)

Rows == [table : {"otp_codes"}, id : Codes] \cup [table : {"buyers"}, id : Buyers]
        \cup [table : {"customers"}, id : Customers]
Profiles == [email : Emails, phone : Phones]
CustomerRecords == [number : Phones, buyer : Buyers \cup {"none"}]

Issuings == [pc : {"issuing"}, held : SUBSET Rows, code : Codes, buyer : {"none"},
             value : [replaces : SUBSET Codes, fresh : CodeRecords]]
Exhaustings == [pc : {"exhausting"}, held : SUBSET Rows, code : Codes, buyer : {"none"}, value : {"none"}]
Confirmings == [pc : {"confirming"}, held : SUBSET Rows, code : Codes, buyer : {"none"},
                value : [matches : BOOLEAN, attempts : Nat]]
Registerings == [pc : {"registering"}, held : SUBSET Rows, code : Codes, buyer : Buyers, value : Profiles]
Spendings == [pc : {"spending"}, held : SUBSET Rows, code : Codes, buyer : Buyers, value : {"none"}]
Resettings == [pc : {"resetting"}, held : SUBSET Rows, code : Codes, buyer : {"none"}, value : SUBSET Purposes]
Relinkings == [pc : {"moving", "linking", "charging"}, held : SUBSET Rows, code : {0}, buyer : Buyers,
               value : [record : SUBSET Customers, phone : Phones]]
Requests == {Idle} \cup Issuings \cup Exhaustings \cup Confirmings \cup Registerings \cup Spendings
            \cup Resettings \cup Relinkings

TypeInv ==
    /\ code \in [Codes -> CodeRecords \cup {NoCode}]
    /\ buyer \in [Buyers -> Profiles \cup {NoBuyer}]
    /\ customer \in [Customers -> CustomerRecords \cup {NoCustomer}]
    /\ tx \in [Txs -> Requests]
    /\ requests \in 0..MaxRequests
    /\ uses \in [Codes -> Nat]
    /\ outdated \in SUBSET Codes /\ unlocked \in SUBSET Customers

\* The rows there are.
LEMMA RowKinds ==
    /\ \A o \in Codes : CodeRow(o) \in Rows
    /\ \A b \in Buyers : BuyerRow(b) \in Rows
    /\ \A c \in Customers : CustomerRow(c) \in Rows
    /\ \A x, y : CodeRow(x) = CodeRow(y) => x = y
    /\ \A x, y : BuyerRow(x) = BuyerRow(y) => x = y
    /\ \A x, y : CodeRow(x) # BuyerRow(y) /\ CodeRow(x) # CustomerRow(y) /\ BuyerRow(x) # CustomerRow(y)
<1>1. /\ \A o \in Codes : CodeRow(o) \in Rows
      /\ \A b \in Buyers : BuyerRow(b) \in Rows
      /\ \A c \in Customers : CustomerRow(c) \in Rows
  BY DEF Rows, CodeRow, BuyerRow, CustomerRow
<1>2. ASSUME NEW x, NEW y, CodeRow(x) = CodeRow(y) PROVE x = y
  <2>1. CodeRow(x).id = x /\ CodeRow(y).id = y
    BY DEF CodeRow
  <2>2. QED
    BY <1>2, <2>1
<1>3. ASSUME NEW x, NEW y, BuyerRow(x) = BuyerRow(y) PROVE x = y
  <2>1. BuyerRow(x).id = x /\ BuyerRow(y).id = y
    BY DEF BuyerRow
  <2>2. QED
    BY <1>3, <2>1
<1>4. ASSUME NEW x, NEW y
      PROVE  CodeRow(x) # BuyerRow(y) /\ CodeRow(x) # CustomerRow(y) /\ BuyerRow(x) # CustomerRow(y)
  <2>1. /\ CodeRow(x).table = "otp_codes" /\ BuyerRow(x).table = "buyers"
        /\ BuyerRow(y).table = "buyers" /\ CustomerRow(y).table = "customers"
    BY DEF CodeRow, BuyerRow, CustomerRow
  <2>2. "otp_codes" # "buyers" /\ "otp_codes" # "customers" /\ "buyers" # "customers"
    OBVIOUS
  <2>3. QED
    BY <2>1, <2>2
<1>5. QED
  BY <1>1, <1>2, <1>3, <1>4

\* A request, by its step.
LEMMA RequestKinds ==
    ASSUME NEW r \in Requests
    PROVE  /\ r.pc = "issuing" => r \in Issuings
           /\ r.pc = "exhausting" => r \in Exhaustings
           /\ r.pc = "confirming" => r \in Confirmings
           /\ r.pc = "registering" => r \in Registerings
           /\ r.pc = "spending" => r \in Spendings
           /\ r.pc = "resetting" => r \in Resettings
           /\ r.pc \in {"moving", "linking", "charging"} => r \in Relinkings
           /\ r.pc = "idle" <=> r = Idle
BY DEF Requests, Idle, Issuings, Exhaustings, Confirmings, Registerings, Spendings, Resettings, Relinkings

\* The marks of an absent row are not rows.
LEMMA NoRows == NoCode \notin CodeRecords /\ NoBuyer \notin Profiles /\ NoCustomer \notin CustomerRecords
<1>1. NoCode \notin CodeRecords
  BY DEF NoCode, CodeRecords, Purposes
<1>2. NoBuyer \notin Profiles /\ NoCustomer \notin CustomerRecords
  BY BuyerAuthAssumption DEF NoBuyer, Profiles, NoCustomer, CustomerRecords
<1>3. QED
  BY <1>1, <1>2

\* A code is there or not, and so are an account and a customer.
LEMMA RowsThere ==
    ASSUME TypeInv
    PROVE  /\ \A o \in Codes : code[o] # NoCode <=> code[o] \in CodeRecords
           /\ \A b \in Buyers : b \in Accounts <=> buyer[b] \in Profiles
           /\ \A c \in Customers : c \in Known <=> customer[c] \in CustomerRecords
           /\ Accounts \subseteq Buyers /\ Known \subseteq Customers
BY NoRows DEF TypeInv, Accounts, Known

\* Of finitely many numbers one is the largest.
LEMMA Largest ==
    ASSUME NEW S, IsFiniteSet(S), S # {}, NEW f \in [S -> Nat]
    PROVE  \E o \in S : \A n \in S : f[n] <= f[o]
<1> DEFINE F == {s \in SUBSET S : s # {} => \E o \in s : \A n \in s : f[n] <= f[o]}
<1>1. {} \in F
  OBVIOUS
<1>2. ASSUME NEW s \in SUBSET S, s # {}, \A x \in s : s \ {x} \in F PROVE s \in F
  <2>1. PICK x \in s : TRUE
    BY <1>2
  <2>2. CASE s \ {x} = {}
    BY <2>1, <2>2
  <2>3. CASE s \ {x} # {}
    <3>1. PICK o \in s \ {x} : \A n \in s \ {x} : f[n] <= f[o]
      BY <1>2, <2>1, <2>3
    <3>2. f[x] \in Nat /\ f[o] \in Nat /\ \A n \in s : f[n] \in Nat
      BY <2>1, <3>1
    <3>3. CASE f[x] <= f[o]
      BY <3>1, <3>3
    <3>4. CASE f[o] <= f[x]
      BY <2>1, <3>1, <3>2, <3>4
    <3>5. QED
      BY <3>2, <3>3, <3>4
  <2>4. QED
    BY <2>2, <2>3
<1>3. \A s \in SUBSET S : s \in F
  <2> HIDE DEF F
  <2>1. QED
    BY <1>1, <1>2, FiniteSetInduction
<1>4. QED
  BY <1>3

\* Of an account's active codes there is a newest.
LEMMA NewestIsActive ==
    ASSUME TypeInv, NEW e, Active(e) # {}
    PROVE  Newest(e) \in Active(e)
<1> DEFINE S == Active(e)
           created == [o \in S |-> code[o].created]
           top(o) == \A n \in S : created[n] <= created[o]
           latest == {o \in S : top(o)}
           Wins(o) == \A n \in S : code[n].created < code[o].created
                                   \/ (code[n].created = code[o].created /\ n <= o)
<1>1. S \subseteq Codes /\ Codes \subseteq Nat
  BY BuyerAuthAssumption DEF Active
<1>2. S # {} /\ IsFiniteSet(S)
  BY <1>1, FS_Subset, BuyerAuthAssumption
<1>3. \A o \in S : code[o].created \in Nat
  BY RowsThere DEF Active, CodeRecords
<1>4. created \in [S -> Nat]
  BY <1>3
<1>5. PICK last \in S : top(last)
  <2> HIDE DEF S, created
  <2>1. QED
    BY <1>2, <1>4, Largest
<1>6. latest # {} /\ latest \subseteq S
  BY <1>5
<1>7. IsFiniteSet(latest)
  <2> HIDE DEF latest
  <2>1. QED
    BY <1>2, <1>6, FS_Subset
<1>8. PICK m \in latest : \A n \in latest : n <= m
  <2> DEFINE id == [n \in latest |-> n]
  <2>1. id \in [latest -> Nat]
    BY <1>1, <1>6
  <2>2. PICK m \in latest : \A n \in latest : id[n] <= id[m]
    <3> HIDE DEF id, latest
    <3>1. QED
      BY <1>6, <1>7, <2>1, Largest
  <2>3. \A n \in latest : id[n] = n
    OBVIOUS
  <2> HIDE DEF latest, id
  <2>4. \A n \in latest : n <= m
    BY <2>2, <2>3
  <2>5. QED
    BY <2>4
<1>9. m \in S /\ Wins(m)
  <2>1. m \in S /\ top(m)
    BY <1>6
  <2>2. ASSUME NEW n \in S
        PROVE  code[n].created < code[m].created \/ (code[n].created = code[m].created /\ n <= m)
    <3>1. code[n].created <= code[m].created
      BY <2>1
    <3>2. CASE code[n].created = code[m].created
      <4>1. top(n)
        BY <2>1, <3>2
      <4>2. n \in latest
        BY <4>1
      <4>3. QED
        BY <1>8, <3>2, <4>2
    <3>3. CASE code[n].created # code[m].created
      BY <1>3, <2>1, <3>1, <3>3
    <3>4. QED
      BY <3>2, <3>3
  <2>3. QED
    BY <2>1, <2>2
<1>10. Newest(e) = CHOOSE o \in S : Wins(o)
  BY DEF Newest
<1> HIDE DEF S, Wins
<1>11. Newest(e) \in S
  BY <1>9, <1>10
<1>12. QED
  BY <1>11 DEF S

-------------------------------------------------------------------------------
(* Codes. What a request that is under way holds, and what it relies on.   *)

Held(t) == IF tx[t].pc = "idle" THEN {} ELSE tx[t].held

\* No row is held by two requests.
HeldOnce == \A s, t \in Txs : s # t => Held(s) \cap Held(t) = {}

\* What a request that is about a code relies on.
CodeRequestOK(r) ==
    /\ r.pc = "issuing" =>
          /\ code[r.code] = NoCode
          /\ \A n \in r.value.replaces : code[n] # NoCode /\ CodeRow(n) \in r.held
          /\ ~r.value.fresh.used /\ r.value.fresh.attempts = 0
    /\ r.pc = "confirming" => code[r.code] # NoCode /\ code[r.code].purpose = "login"
    /\ r.pc = "exhausting" => code[r.code] # NoCode
    /\ r.pc \in {"registering", "spending", "resetting"} =>
          CodeRow(r.code) \in r.held /\ code[r.code] # NoCode /\ ~code[r.code].used

\* A row of otp_codes: what a code may be, and that it was used if it has been
\* spent or outdated.
CodeOK(o) ==
    /\ code[o] # NoCode /\ code[o].purpose \in ResetPurposes => code[o].attempts <= MaxVerify
    /\ uses[o] <= 1
    /\ uses[o] # 0 => code[o] # NoCode /\ code[o].used
    /\ o \in outdated => code[o] # NoCode /\ code[o].used

CodeInv ==
    /\ HeldOnce
    /\ \A s, t \in Txs : tx[s].pc = "issuing" /\ tx[t].pc = "issuing" /\ tx[s].code = tx[t].code => s = t
    /\ \A t \in Txs : CodeRequestOK(tx[t])
    /\ \A o \in Codes : CodeOK(o)

\* What a step may do to a code: issue it, or change it but not take back that
\* it was used.
Advances(o) ==
    \/ code'[o] = code[o]
    \/ code[o] = NoCode /\ code'[o] \in CodeRecords /\ code'[o].attempts = 0 /\ ~code'[o].used
    \/ /\ code[o] # NoCode /\ code'[o] \in CodeRecords
       /\ code'[o].purpose = code[o].purpose
       /\ code[o].used => code'[o].used
       /\ code[o].purpose \in ResetPurposes => code'[o].attempts <= MaxVerify

\* A request other than the one that ends does not rely on what changed.
Respects(o, s) ==
    /\ code[o] = NoCode /\ code'[o] # NoCode => ~(tx[s].pc = "issuing" /\ tx[s].code = o)
    /\ code[o] # NoCode /\ ~code[o].used /\ code'[o].used => CodeRow(o) \notin Held(s)

\* A request keeps what it relies on while the codes advance and respect it.
LEMMA RequestKept ==
    ASSUME TypeInv, TypeInv', NEW s \in Txs, CodeRequestOK(tx[s]),
           \A o \in Codes : Advances(o) /\ Respects(o, s)
    PROVE  CodeRequestOK(tx[s])'
           \/ tx'[s] # tx[s]
<1> SUFFICES ASSUME tx'[s] = tx[s] PROVE CodeRequestOK(tx[s])'
  OBVIOUS
<1> DEFINE r == tx[s]
<1>1. r \in Requests
  BY DEF TypeInv
<1>2. \A o \in Codes : code[o] # NoCode => code'[o] # NoCode /\ code'[o].purpose = code[o].purpose
  BY NoRows DEF Advances
<1>3. r.pc = "issuing" => r.code \in Codes /\ r.value.replaces \subseteq Codes
  BY <1>1, RequestKinds DEF Issuings
<1>4. r.pc \in {"confirming", "exhausting", "registering", "spending", "resetting"} => r.code \in Codes
  BY <1>1, RequestKinds DEF Exhaustings, Confirmings, Registerings, Spendings, Resettings
<1>5. r.pc = "issuing" => /\ code'[r.code] = NoCode
                          /\ \A n \in r.value.replaces : code'[n] # NoCode /\ CodeRow(n) \in r.held
                          /\ ~r.value.fresh.used /\ r.value.fresh.attempts = 0
  BY <1>2, <1>3 DEF CodeRequestOK, Respects
<1>6. r.pc = "confirming" => code'[r.code] # NoCode /\ code'[r.code].purpose = "login"
  BY <1>2, <1>4 DEF CodeRequestOK
<1>7. r.pc = "exhausting" => code'[r.code] # NoCode
  BY <1>2, <1>4 DEF CodeRequestOK
<1>8. r.pc \in {"registering", "spending", "resetting"} =>
          CodeRow(r.code) \in r.held /\ code'[r.code] # NoCode /\ ~code'[r.code].used
  <2> HAVE r.pc \in {"registering", "spending", "resetting"}
  <2>1. CodeRow(r.code) \in r.held /\ code[r.code] # NoCode /\ ~code[r.code].used /\ r.code \in Codes
    BY <1>4 DEF CodeRequestOK
  <2>2. CodeRow(r.code) \in Held(s)
    BY <2>1 DEF Held
  <2>3. QED
    BY <1>2, <2>1, <2>2 DEF Respects
<1>9. QED
  BY <1>5, <1>6, <1>7, <1>8 DEF CodeRequestOK

\* A code that advances stays what a code may be.
LEMMA CodeKept ==
    ASSUME TypeInv, NEW o \in Codes, CodeOK(o), Advances(o),
           uses'[o] = uses[o], o \in outdated' => o \in outdated
    PROVE  CodeOK(o)'
<1>1. code[o] # NoCode => code'[o] # NoCode /\ code'[o].purpose = code[o].purpose /\ (code[o].used => code'[o].used)
  BY NoRows DEF Advances
<1>2. code'[o] # NoCode /\ code'[o].purpose \in ResetPurposes => code'[o].attempts <= MaxVerify
  BY BuyerAuthAssumption DEF Advances, CodeOK
<1>3. QED
  BY <1>1, <1>2 DEF CodeOK

\* A step in which one request begins, goes on or ends, and the codes advance.
LEMMA CodeStepKeeps ==
    ASSUME TypeInv, TypeInv', CodeInv, NEW t \in Txs, NEW r \in Requests, Goes(t, r),
           \A o \in Codes : Advances(o),
           \A o \in Codes, s \in Txs \ {t} : Respects(o, s),
           CodeRequestOK(r)',
           r.pc = "issuing" => \A s \in Txs \ {t} : ~(tx[s].pc = "issuing" /\ tx[s].code = r.code),
           r = Idle \/ r.held = Held(t) \/ \A x \in r.held : Free(x),
           \A o \in Codes : CodeOK(o)'
    PROVE  CodeInv'
<1>1. tx'[t] = r /\ \A s \in Txs \ {t} : tx'[s] = tx[s]
  BY DEF TypeInv, Goes
<1>2. \A s \in Txs : CodeRequestOK(tx[s])'
  <2> SUFFICES ASSUME NEW s \in Txs PROVE CodeRequestOK(tx[s])'
    OBVIOUS
  <2>1. CASE s = t
    <3>1. CodeRequestOK(r)' => CodeRequestOK(tx[s])'
      BY <1>1, <2>1 DEF CodeRequestOK
    <3>2. QED
      BY <3>1
  <2>2. CASE s # t
    BY <1>1, <2>2, RequestKept DEF CodeInv
  <2>3. QED
    BY <2>1, <2>2
<1>3. HeldOnce'
  <2>1. \A s \in Txs \ {t} : Held(s)' = Held(s)
    BY <1>1 DEF Held
  <2>2. \A s \in Txs \ {t} : Held(t)' \cap Held(s) = {}
    <3> SUFFICES ASSUME NEW s \in Txs \ {t} PROVE Held(t)' \cap Held(s) = {}
      OBVIOUS
    <3>1. Held(t)' \subseteq r.held \/ Held(t)' = {}
      BY <1>1 DEF Held
    <3>2. r = Idle => Held(t)' = {}
      BY <1>1 DEF Held, Idle
    <3>3. (\A x \in r.held : Free(x)) => r.held \cap Held(s) = {}
      BY DEF Free, Held
    <3>4. r.held = Held(t) => r.held \cap Held(s) = {}
      BY DEF CodeInv, HeldOnce
    <3>5. QED
      BY <3>1, <3>2, <3>3, <3>4
  <2>3. ASSUME NEW s \in Txs, NEW u \in Txs, s # u PROVE Held(s)' \cap Held(u)' = {}
    <3>1. CASE s # t /\ u # t
      BY <2>1, <2>3, <3>1 DEF CodeInv, HeldOnce
    <3>2. CASE s = t
      BY <2>1, <2>2, <2>3, <3>2
    <3>3. CASE u = t
      BY <2>1, <2>2, <2>3, <3>3
    <3>4. QED
      BY <3>1, <3>2, <3>3
  <2>4. QED
    BY <2>3 DEF HeldOnce
<1>4. \A s, u \in Txs : tx'[s].pc = "issuing" /\ tx'[u].pc = "issuing" /\ tx'[s].code = tx'[u].code => s = u
  BY <1>1 DEF CodeInv
<1>5. QED
  BY <1>2, <1>3, <1>4 DEF CodeInv

\* A step in which no request goes on.
LEMMA CodeStepAlone ==
    ASSUME TypeInv, TypeInv', CodeInv, UNCHANGED tx,
           \A o \in Codes : Advances(o),
           \A o \in Codes, s \in Txs : Respects(o, s),
           \A o \in Codes : CodeOK(o)'
    PROVE  CodeInv'
<1>1. \A s \in Txs : CodeRequestOK(tx[s])'
  BY RequestKept DEF CodeInv
<1>2. HeldOnce'
  BY DEF CodeInv, HeldOnce, Held
<1>3. QED
  BY <1>1, <1>2 DEF CodeInv

\* A step that leaves the codes alone respects every request.
LEMMA CodesAlone ==
    ASSUME UNCHANGED code
    PROVE  \A o \in Codes : Advances(o) /\ \A s : Respects(o, s)
BY DEF Advances, Respects

\* Changing one code.
LEMMA OneCode ==
    ASSUME TypeInv, NEW o \in Codes, NEW row \in CodeRecords, code' = [code EXCEPT ![o] = row],
           code[o] # NoCode, row.purpose = code[o].purpose, code[o].used => row.used,
           code[o].purpose \in ResetPurposes => row.attempts <= MaxVerify
    PROVE  /\ code' \in [Codes -> CodeRecords \cup {NoCode}]
           /\ \A n \in Codes : Advances(n)
           /\ code'[o] = row /\ \A n \in Codes \ {o} : code'[n] = code[n]
BY DEF TypeInv, Advances

\* Marking codes as used.
LEMMA MarkedUsed ==
    ASSUME TypeInv, CodeInv, NEW S \in SUBSET Codes, \A o \in S : code[o] # NoCode, Invalidated(S)
    PROVE  /\ code' \in [Codes -> CodeRecords \cup {NoCode}]
           /\ \A o \in Codes : Advances(o)
           /\ \A o \in S : code'[o] # NoCode /\ code'[o].used
           /\ \A o \in Codes \ S : code'[o] = code[o]
<1>1. code \in [Codes -> CodeRecords \cup {NoCode}]
  BY DEF TypeInv
<1>2. \A o \in Codes \ S : code'[o] = code[o]
  BY DEF Invalidated
<1>3. ASSUME NEW o \in S
      PROVE  /\ code'[o] \in CodeRecords /\ code'[o].used /\ code'[o].purpose = code[o].purpose
             /\ code'[o].attempts = code[o].attempts
  <2>1. code[o] \in CodeRecords
    BY <1>1, <1>3
  <2>2. code'[o] = [code[o] EXCEPT !.used = TRUE]
    BY <1>3 DEF Invalidated
  <2>3. QED
    BY <2>1, <2>2 DEF CodeRecords
<1>4. ASSUME NEW o \in Codes PROVE Advances(o)
  <2>1. CASE o \in S
    BY <1>3, <2>1 DEF Advances, CodeInv, CodeOK
  <2>2. CASE o \notin S
    BY <1>2, <2>2 DEF Advances
  <2>3. QED
    BY <2>1, <2>2
<1>5. DOMAIN code' = Codes /\ code' = [o \in Codes |-> code'[o]]
  BY DEF Invalidated
<1>6. QED
  BY <1>1, <1>2, <1>3, <1>4, <1>5, NoRows

\* A step that leaves codes and their uses alone.
LEMMA CodesUntouched ==
    ASSUME TypeInv, TypeInv', CodeInv, NEW t \in Txs, NEW r \in Requests, Goes(t, r),
           UNCHANGED <<code, uses, outdated>>, CodeRequestOK(r),
           r.pc = "issuing" => \A s \in Txs \ {t} : ~(tx[s].pc = "issuing" /\ tx[s].code = r.code),
           r = Idle \/ r.held = Held(t) \/ \A x \in r.held : Free(x)
    PROVE  CodeInv'
<1>1. \A o \in Codes : Advances(o) /\ \A s : Respects(o, s)
  BY CodesAlone
<1>2. \A o \in Codes : CodeOK(o)'
  BY <1>1, CodeKept DEF CodeInv
<1>3. CodeRequestOK(r)'
  BY DEF CodeRequestOK
<1>4. QED
  BY <1>1, <1>2, <1>3, CodeStepKeeps

\* An idle request relies on nothing.
LEMMA IdleRelies == Idle \in Requests /\ CodeRequestOK(Idle) /\ CodeRequestOK(Idle)' /\ Idle.pc = "idle"
BY DEF CodeRequestOK, Idle, Requests

\* Requests are counted up to the bound.
LEMMA RequestCount == ASSUME TypeInv, Request PROVE requests' \in 0..MaxRequests
BY BuyerAuthAssumption DEF TypeInv, Request

\* Codes are issued.
LEMMA IssueStep ==
    ASSUME TypeInv, CodeInv, NEW o \in Codes, NEW purpose \in Purposes, NEW target \in Emails \cup Phones,
           Issue(o, purpose, target)
    PROVE  TypeInv' /\ CodeInv'
<1> DEFINE row == Fresh(purpose, target)
<1>1. row \in CodeRecords /\ row.attempts = 0 /\ ~row.used
  <2>1. requests \in Nat
    BY BuyerAuthAssumption DEF TypeInv
  <2>2. QED
    BY <2>1 DEF Fresh, CodeRecords
<1>2. code[o] = NoCode /\ code' = [code EXCEPT ![o] = row] /\ UNCHANGED <<buyer, customer, tx, uses, outdated, unlocked>>
  BY DEF Issue, Unissued
<1> HIDE DEF row
<1>3. code'[o] = row /\ \A n \in Codes \ {o} : code'[n] = code[n]
  BY <1>2 DEF TypeInv
<1>4. \A n \in Codes : Advances(n)
  BY <1>1, <1>2, <1>3 DEF Advances
<1>5. TypeInv'
  <2>1. code' \in [Codes -> CodeRecords \cup {NoCode}]
    BY <1>1, <1>2 DEF TypeInv
  <2>2. QED
    BY <1>2, <2>1, RequestCount DEF TypeInv, Issue
<1>6. \A n \in Codes, s \in Txs : Respects(n, s)
  BY <1>2, <1>3 DEF Respects, Issue, Unissued
<1>7. \A n \in Codes : CodeOK(n)'
  BY <1>2, <1>4, CodeKept DEF CodeInv
<1>8. QED
  BY <1>2, <1>4, <1>5, <1>6, <1>7, CodeStepAlone

\* expires_at passes.
LEMMA ExpireStep ==
    ASSUME TypeInv, CodeInv, NEW o \in Codes, Expire(o)
    PROVE  TypeInv' /\ CodeInv'
<1> DEFINE row == [code[o] EXCEPT !.live = FALSE]
<1>1. code[o] \in CodeRecords
  BY DEF TypeInv, Expire
<1>2. row \in CodeRecords /\ row.purpose = code[o].purpose /\ row.used = code[o].used /\ row.attempts = code[o].attempts
  BY <1>1 DEF CodeRecords
<1>3. code' = [code EXCEPT ![o] = row] /\ code[o] # NoCode
      /\ UNCHANGED <<buyer, customer, tx, requests, uses, outdated, unlocked>>
  BY DEF Expire
<1> HIDE DEF row
<1>4. code[o].purpose \in ResetPurposes => row.attempts <= MaxVerify
  BY <1>2, <1>3 DEF CodeInv, CodeOK
<1>5. /\ code' \in [Codes -> CodeRecords \cup {NoCode}]
      /\ \A n \in Codes : Advances(n)
      /\ code'[o] = row /\ \A n \in Codes \ {o} : code'[n] = code[n]
  BY <1>2, <1>3, <1>4, OneCode
<1>6. TypeInv'
  BY <1>3, <1>5 DEF TypeInv
<1>7. \A n \in Codes, s \in Txs : Respects(n, s)
  BY <1>2, <1>3, <1>5 DEF Respects
<1>8. \A n \in Codes : CodeOK(n)'
  BY <1>3, <1>5, CodeKept DEF CodeInv
<1>9. QED
  BY <1>3, <1>5, <1>6, <1>7, <1>8, CodeStepAlone

\* A request begins that leaves the codes alone: those of
\* request_buyer_forgot_password, confirm_wa_verification, register, login_otp
\* and the resets.
LEMMA CodeBegins ==
    ASSUME TypeInv, CodeInv, NEW t \in Txs, NEW o \in Codes,
           \/ \E e \in Emails : RequestReset(t, o, e)
           \/ \E sender \in Phones : ReadNonce(t, o, sender)
           \/ \E b \in Buyers : Login(t, b, o)
           \/ \E b \in Buyers, e \in Emails, p \in Phones : Register(t, b, e, p, o)
           \/ ResetWithToken(t, o, ResetPurposes) \/ ResetWithToken(t, o, {"reset_password"})
    PROVE  TypeInv' /\ CodeInv' /\ UNCHANGED <<buyer, customer, unlocked>>
           /\ \E r \in Requests : Goes(t, r) /\ tx[t] = Idle /\ r.pc \notin {"moving", "linking", "charging"}
<1> DEFINE Result == TypeInv' /\ CodeInv' /\ UNCHANGED <<buyer, customer, unlocked>>
               /\ \E r \in Requests : Goes(t, r) /\ tx[t] = Idle /\ r.pc \notin {"moving", "linking", "charging"}
<1>0. code \in [Codes -> CodeRecords \cup {NoCode}]
  BY DEF TypeInv
<1>1. ASSUME NEW r \in Requests, Goes(t, r), tx[t] = Idle, Request, CodeRequestOK(r), \A x \in r.held : Free(x),
             r.pc = "issuing" => \A s \in Txs \ {t} : ~(tx[s].pc = "issuing" /\ tx[s].code = r.code),
             r.pc \notin {"moving", "linking", "charging"},
             UNCHANGED <<code, buyer, customer, uses, outdated, unlocked>>
      PROVE  Result
  <2>1. TypeInv'
    <3>1. tx' \in [Txs -> Requests]
      BY <1>1 DEF TypeInv, Goes
    <3>2. QED
      BY <1>1, <3>1, RequestCount DEF TypeInv
  <2>2. CodeInv'
    BY <1>1, <2>1, CodesUntouched
  <2>3. QED
    BY <1>1, <2>1, <2>2
<1>2. CodeRow(o) \in Rows /\ {CodeRow(o)} \in SUBSET Rows
  BY RowKinds
<1>3. ASSUME NEW e \in Emails, RequestReset(t, o, e) PROVE Result
  <2> DEFINE held == {CodeRow(n) : n \in Active(e)}
             fresh == Fresh("buyer_reset_password", e)
             r == At("issuing", held, o, "none", [replaces |-> Active(e), fresh |-> fresh])
  <2>1. fresh \in CodeRecords /\ fresh.attempts = 0 /\ ~fresh.used
    <3>1. requests \in Nat
      BY BuyerAuthAssumption DEF TypeInv
    <3>2. QED
      BY <3>1 DEF Fresh, CodeRecords, Purposes
  <2>2. Active(e) \subseteq Codes /\ held \subseteq Rows /\ \A n \in Active(e) : code[n] # NoCode /\ CodeRow(n) \in held
    BY RowKinds DEF Active
  <2>3. Goes(t, r) /\ code[o] = NoCode /\ (\A x \in held : Free(x))
        /\ \A s \in Txs : tx[s].pc = "issuing" => tx[s].code # o
    BY <1>3 DEF RequestReset, Unissued
  <2> HIDE DEF fresh, held
  <2>4. r \in Requests /\ r.pc = "issuing" /\ r.code = o /\ r.held = held
    BY <2>1, <2>2 DEF At, Requests, Issuings
  <2>5. CodeRequestOK(r)
    BY <2>1, <2>2, <2>3 DEF At, CodeRequestOK
  <2> HIDE DEF r
  <2>6. QED
    BY <1>1, <1>3, <2>3, <2>4, <2>5 DEF RequestReset
<1>4. ASSUME NEW sender \in Phones, ReadNonce(t, o, sender) PROVE Result
  <2> DEFINE r == At("confirming", {}, o, "none", [matches |-> sender = code[o].target, attempts |-> code[o].attempts])
  <2>1. code[o] \in CodeRecords
    BY <1>0, <1>4 DEF ReadNonce
  <2>2. r \in Requests /\ r.pc = "confirming" /\ r.held = {}
    <3>1. code[o].attempts \in Nat
      BY <2>1 DEF CodeRecords
    <3>2. r \in Confirmings
      BY <3>1 DEF At, Confirmings
    <3>3. QED
      BY <3>2 DEF At, Requests
  <2>3. CodeRequestOK(r)
    BY <1>4 DEF At, CodeRequestOK, ReadNonce
  <2>4. Goes(t, r)
    BY <1>4 DEF ReadNonce
  <2> HIDE DEF r
  <2>5. QED
    BY <1>1, <1>4, <2>2, <2>3, <2>4 DEF ReadNonce
<1>5. ASSUME NEW b \in Buyers, Login(t, b, o) PROVE Result
  <2> DEFINE r == At("spending", {CodeRow(o)}, o, b, "none")
  <2>1. r \in Requests /\ r.pc = "spending" /\ r.held = {CodeRow(o)}
    BY <1>2 DEF At, Requests, Spendings
  <2>2. CodeRequestOK(r)
    BY <1>5 DEF At, CodeRequestOK, Login, Spendable
  <2>3. Goes(t, r) /\ Free(CodeRow(o))
    BY <1>5 DEF Login, Spendable, Lockable
  <2> HIDE DEF r
  <2>4. QED
    BY <1>1, <1>5, <2>1, <2>2, <2>3 DEF Login
<1>6. ASSUME NEW b \in Buyers, NEW e \in Emails, NEW p \in Phones, Register(t, b, e, p, o) PROVE Result
  <2> DEFINE r == At("registering", {CodeRow(o)}, o, b, [email |-> e, phone |-> p])
  <2>1. r \in Requests /\ r.pc = "registering" /\ r.held = {CodeRow(o)}
    BY <1>2 DEF At, Requests, Registerings, Profiles
  <2>2. CodeRequestOK(r)
    BY <1>6 DEF At, CodeRequestOK, Register, Spendable
  <2>3. Goes(t, r) /\ Free(CodeRow(o))
    BY <1>6 DEF Register, Spendable, Lockable
  <2> HIDE DEF r
  <2>4. QED
    BY <1>1, <1>6, <2>1, <2>2, <2>3 DEF Register
<1>7. ASSUME NEW purposes \in SUBSET Purposes, ResetWithToken(t, o, purposes) PROVE Result
  <2> DEFINE r == At("resetting", {CodeRow(o)}, o, "none", purposes)
  <2>1. r \in Requests /\ r.pc = "resetting" /\ r.held = {CodeRow(o)}
    BY <1>2 DEF At, Requests, Resettings
  <2>2. CodeRequestOK(r)
    BY <1>7 DEF At, CodeRequestOK, ResetWithToken, Spendable
  <2>3. Goes(t, r) /\ Free(CodeRow(o))
    BY <1>7 DEF ResetWithToken, Spendable, Lockable
  <2> HIDE DEF r
  <2>4. QED
    BY <1>1, <1>7, <2>1, <2>2, <2>3 DEF ResetWithToken
<1>8. ResetPurposes \in SUBSET Purposes /\ {"reset_password"} \in SUBSET Purposes
  BY DEF ResetPurposes, Purposes
<1>9. QED
  BY <1>3, <1>4, <1>5, <1>6, <1>7, <1>8

\* What a step about codes does with the requests: none goes on, or one that is
\* not about records, or ends.
CodeSide ==
    \/ UNCHANGED tx
    \/ \E t \in Txs, r \in Requests : Goes(t, r) /\ r.pc \notin {"moving", "linking", "charging"}

\* verify_otp
LEMMA VerifyStep ==
    ASSUME TypeInv, CodeInv, NEW t \in Txs, NEW o \in Codes, NEW right \in BOOLEAN, VerifyOtp(t, o, right)
    PROVE  TypeInv' /\ CodeInv' /\ CodeSide
<1>1. code[o] \in CodeRecords /\ code[o] # NoCode /\ ~code[o].used /\ code[o].purpose = "reset_password"
      /\ Free(CodeRow(o)) /\ tx[t] = Idle /\ code[o].attempts \in Nat /\ MaxVerify \in Nat
      /\ code[o].attempts <= MaxVerify
  <2>1. code[o] \in CodeRecords
    BY DEF TypeInv, VerifyOtp
  <2>2. code[o].attempts <= MaxVerify
    BY DEF VerifyOtp, CodeInv, CodeOK, ResetPurposes
  <2>3. QED
    BY <2>1, <2>2, BuyerAuthAssumption DEF VerifyOtp, CodeRecords
<1>2. PICK row \in CodeRecords :
          /\ code' = [code EXCEPT ![o] = row]
          /\ row.purpose = code[o].purpose /\ row.attempts <= MaxVerify
  <2>1. CASE Tried(o) /\ code' = [code EXCEPT ![o].used = TRUE]
    <3> DEFINE row == [code[o] EXCEPT !.used = TRUE]
    <3>1. row \in CodeRecords /\ row.purpose = code[o].purpose /\ row.attempts = code[o].attempts
      BY <1>1 DEF CodeRecords
    <3>2. QED
      BY <1>1, <2>1, <3>1
  <2>2. CASE ~Tried(o) /\ code' = [code EXCEPT ![o].verified = TRUE]
    <3> DEFINE row == [code[o] EXCEPT !.verified = TRUE]
    <3>1. row \in CodeRecords /\ row.purpose = code[o].purpose /\ row.attempts = code[o].attempts
      BY <1>1 DEF CodeRecords
    <3>2. QED
      BY <1>1, <2>2, <3>1
  <2>3. CASE ~Tried(o) /\ code' = [code EXCEPT ![o].attempts = @ + 1]
    <3> DEFINE row == [code[o] EXCEPT !.attempts = @ + 1]
    <3>1. row \in CodeRecords /\ row.purpose = code[o].purpose /\ row.attempts = code[o].attempts + 1
      BY <1>1 DEF CodeRecords
    <3>2. code[o].attempts + 1 <= MaxVerify
      BY <1>1, <2>3 DEF Tried
    <3>3. QED
      BY <2>3, <3>1, <3>2
  <2>4. QED
    BY <2>1, <2>2, <2>3 DEF VerifyOtp
<1>3. /\ code' \in [Codes -> CodeRecords \cup {NoCode}]
      /\ \A n \in Codes : Advances(n)
      /\ code'[o] = row /\ \A n \in Codes \ {o} : code'[n] = code[n]
  BY <1>1, <1>2, OneCode
<1>4. \A n \in Codes, s \in Txs : Respects(n, s)
  <2>1. \A s \in Txs : CodeRow(o) \notin Held(s)
    BY <1>1 DEF Free, Held
  <2>2. QED
    BY <1>1, <1>3, <2>1 DEF Respects
<1>5. UNCHANGED <<buyer, customer, uses, outdated, unlocked>> /\ requests' \in 0..MaxRequests
  BY RequestCount DEF VerifyOtp
<1>6. \A n \in Codes : CodeOK(n)'
  BY <1>3, <1>5, CodeKept DEF CodeInv
<1>7. CASE UNCHANGED tx
  <2>1. TypeInv'
    BY <1>3, <1>5, <1>7 DEF TypeInv
  <2>2. QED
    BY <1>3, <1>4, <1>6, <1>7, <2>1, CodeStepAlone DEF CodeSide
<1>8. CASE Goes(t, At("exhausting", {}, o, "none", "none"))
  <2> DEFINE r == At("exhausting", {}, o, "none", "none")
  <2>1. r \in Requests /\ r.pc = "exhausting" /\ r.held = {} /\ r.code = o
    BY DEF At, Requests, Exhaustings
  <2>2. Goes(t, r)
    BY <1>8
  <2> HIDE DEF r
  <2>3. tx' \in [Txs -> Requests]
    BY <2>1, <2>2 DEF TypeInv, Goes
  <2>4. TypeInv'
    BY <1>3, <1>5, <2>3 DEF TypeInv
  <2>5. CodeRequestOK(r)'
    BY <1>2, <1>3, <2>1, NoRows DEF CodeRequestOK
  <2>6. CodeInv'
    BY <1>3, <1>4, <1>6, <2>1, <2>2, <2>4, <2>5, CodeStepKeeps
  <2>7. QED
    BY <2>1, <2>2, <2>4, <2>6 DEF CodeSide
<1>9. QED
  BY <1>7, <1>8 DEF VerifyOtp

\* An e-mailed code is refused.
LEMMA RefuseStep ==
    ASSUME TypeInv, CodeInv, NEW e \in Emails, RefuseCode(e)
    PROVE  TypeInv' /\ CodeInv' /\ CodeSide
<1> DEFINE o == Newest(e)
           Row(n) == [code[n] EXCEPT !.used = TRUE,
                         !.attempts = IF n = o /\ ~Tried(o) /\ code[o].live THEN @ + 1 ELSE @]
           more == [code[o] EXCEPT !.attempts = @ + 1]
<1>1. o \in Active(e) /\ Active(e) \subseteq Codes /\ MaxVerify \in Nat
  BY NewestIsActive, BuyerAuthAssumption DEF RefuseCode, Active
<1>2. \A n \in Active(e) : /\ code[n] \in CodeRecords /\ code[n] # NoCode /\ ~code[n].used
                           /\ code[n].purpose = "buyer_reset_password"
                           /\ code[n].attempts \in Nat /\ code[n].attempts <= MaxVerify
                           /\ \A s \in Txs : CodeRow(n) \notin Held(s)
  <2> SUFFICES ASSUME NEW n \in Active(e)
               PROVE  /\ code[n] \in CodeRecords /\ code[n] # NoCode /\ ~code[n].used
                      /\ code[n].purpose = "buyer_reset_password"
                      /\ code[n].attempts \in Nat /\ code[n].attempts <= MaxVerify
                      /\ \A s \in Txs : CodeRow(n) \notin Held(s)
    OBVIOUS
  <2>1. n \in Codes /\ code[n] # NoCode /\ ~code[n].used /\ code[n].purpose = "buyer_reset_password"
    BY DEF Active
  <2>2. code[n] \in CodeRecords
    BY <2>1 DEF TypeInv
  <2>3. code[n].attempts \in Nat
    BY <2>2 DEF CodeRecords
  <2>4. code[n].attempts <= MaxVerify
    BY <2>1 DEF CodeInv, CodeOK, ResetPurposes
  <2>5. \A s \in Txs : CodeRow(n) \notin Held(s)
    BY DEF RefuseCode, Free, Held
  <2>6. QED
    BY <2>1, <2>2, <2>3, <2>4, <2>5
<1>3. UNCHANGED <<buyer, customer, tx, uses, outdated, unlocked>> /\ requests' \in 0..MaxRequests
  BY RequestCount DEF RefuseCode
<1>4. /\ code' \in [Codes -> CodeRecords \cup {NoCode}]
      /\ \A n \in Codes : Advances(n)
      /\ \A n \in Codes \ Active(e) : code'[n] = code[n]
  <2>1. CASE code' = [n \in Codes |-> IF n \notin Active(e) THEN code[n] ELSE Row(n)]
    <3>1. ASSUME NEW n \in Active(e)
          PROVE  /\ Row(n) \in CodeRecords /\ Row(n).purpose = code[n].purpose /\ Row(n).used
                 /\ Row(n).attempts <= MaxVerify
      <4> DEFINE a == IF n = o /\ ~Tried(o) /\ code[o].live THEN code[n].attempts + 1 ELSE code[n].attempts
      <4>1. a \in Nat /\ a <= MaxVerify
        BY <1>1, <1>2, <3>1 DEF Tried
      <4>2. Row(n) = [code[n] EXCEPT !.used = TRUE, !.attempts = a]
        BY <1>2, <3>1 DEF CodeRecords
      <4> HIDE DEF a, Row
      <4>3. QED
        BY <1>2, <3>1, <4>1, <4>2 DEF CodeRecords
    <3> HIDE DEF Row
    <3>2. \A n \in Active(e) : code'[n] = Row(n)
      BY <1>1, <2>1
    <3>3. \A n \in Codes \ Active(e) : code'[n] = code[n]
      BY <2>1
    <3>4. code' \in [Codes -> CodeRecords \cup {NoCode}]
      BY <2>1, <3>1 DEF TypeInv
    <3>5. ASSUME NEW n \in Codes PROVE Advances(n)
      <4>1. CASE n \in Active(e)
        BY <1>2, <3>1, <3>2, <4>1 DEF Advances
      <4>2. CASE n \notin Active(e)
        BY <3>3, <4>2 DEF Advances
      <4>3. QED
        BY <4>1, <4>2
    <3>6. QED
      BY <3>3, <3>4, <3>5
  <2>2. CASE code' = [code EXCEPT ![o].attempts = @ + 1] /\ ~(code[o].attempts + 1 >= MaxVerify)
    <3>1. more \in CodeRecords /\ more.purpose = code[o].purpose /\ more.used = code[o].used
          /\ more.attempts = code[o].attempts + 1
      BY <1>1, <1>2 DEF CodeRecords
    <3>2. more.attempts <= MaxVerify /\ code' = [code EXCEPT ![o] = more]
      BY <1>1, <1>2, <2>2, <3>1
    <3> HIDE DEF o, more
    <3>3. QED
      BY <1>1, <1>2, <3>1, <3>2, OneCode
  <2>3. QED
    BY <2>1, <2>2 DEF RefuseCode
<1>5. \A n \in Codes, s \in Txs : Respects(n, s)
  BY <1>2, <1>4 DEF Respects
<1>6. \A n \in Codes : CodeOK(n)'
  BY <1>3, <1>4, CodeKept DEF CodeInv
<1>7. TypeInv'
  BY <1>3, <1>4 DEF TypeInv
<1>8. QED
  BY <1>3, <1>4, <1>5, <1>6, <1>7, CodeStepAlone DEF CodeSide

\* A reset with an e-mailed code begins.
LEMMA CodeResetBegins ==
    ASSUME TypeInv, CodeInv, NEW t \in Txs, NEW e \in Emails, ResetWithCode(t, e)
    PROVE  TypeInv' /\ CodeInv' /\ CodeSide /\ UNCHANGED <<buyer, customer, unlocked>>
<1> DEFINE o == Newest(e)
           held == {CodeRow(n) : n \in Active(e)}
           r == At("resetting", held, o, "none", {"buyer_reset_password"})
<1>1. o \in Active(e) /\ Active(e) \subseteq Codes
  BY NewestIsActive DEF ResetWithCode, Active
<1>2. code[o] # NoCode /\ ~code[o].used
  BY <1>1 DEF Active
<1>3. held \in SUBSET Rows /\ CodeRow(o) \in held /\ \A x \in held : Free(x)
  BY <1>1, RowKinds DEF ResetWithCode, Lockable
<1>4. Goes(t, r) /\ Request /\ UNCHANGED <<code, buyer, customer, uses, outdated, unlocked>>
  BY DEF ResetWithCode
<1> HIDE DEF held, o
<1>5. r \in Requests /\ r.pc = "resetting" /\ r.held = held /\ r.code = o
  BY <1>1, <1>3 DEF At, Requests, Resettings, Purposes
<1>6. CodeRequestOK(r)
  BY <1>2, <1>3, <1>5 DEF CodeRequestOK
<1> HIDE DEF r
<1>7. tx' \in [Txs -> Requests]
  BY <1>4, <1>5 DEF TypeInv, Goes
<1>8. TypeInv'
  BY <1>4, <1>7, RequestCount DEF TypeInv
<1>9. CodeInv'
  BY <1>3, <1>4, <1>5, <1>6, <1>8, CodesUntouched
<1>10. QED
  BY <1>4, <1>5, <1>8, <1>9 DEF CodeSide

\* The rows a request holds are held by no other.
LEMMA OwnRows ==
    ASSUME CodeInv, NEW t \in Txs, tx[t].pc # "idle", NEW x, x \in tx[t].held \/ Free(x)
    PROVE  \A s \in Txs \ {t} : x \notin Held(s)
BY DEF CodeInv, HeldOnce, Held, Free

\* A request ends, and the codes advance.
LEMMA CodeEnds ==
    ASSUME TypeInv, TypeInv', CodeInv, NEW t \in Txs, Ends(t),
           \A o \in Codes : Advances(o),
           \A o \in Codes, s \in Txs \ {t} : Respects(o, s),
           \A o \in Codes : CodeOK(o)'
    PROVE  CodeInv' /\ CodeSide
<1> DEFINE r == Idle
<1>1. r \in Requests /\ CodeRequestOK(r)' /\ r.pc = "idle" /\ r = Idle /\ Goes(t, r)
  BY IdleRelies DEF Ends
<1> HIDE DEF r
<1>2. CodeInv'
  BY <1>1, CodeStepKeeps
<1>3. QED
  BY <1>1, <1>2 DEF CodeSide

\* The end of request_buyer_forgot_password.
LEMMA CommitResetStep ==
    ASSUME TypeInv, CodeInv, NEW t \in Txs, CommitReset(t)
    PROVE  TypeInv' /\ CodeInv' /\ CodeSide
<1> DEFINE o == tx[t].code
           old == tx[t].value.replaces
           fresh == tx[t].value.fresh
<1>1. o \in Codes /\ old \in SUBSET Codes /\ fresh \in CodeRecords /\ tx[t].pc = "issuing"
  BY RequestKinds DEF TypeInv, CommitReset, Issuings
<1>2. /\ code[o] = NoCode /\ ~fresh.used /\ fresh.attempts = 0
      /\ \A n \in old : code[n] # NoCode /\ CodeRow(n) \in tx[t].held
  BY <1>1 DEF CodeInv, CodeRequestOK
<1>3. /\ code' = [n \in Codes |-> IF n = o THEN fresh ELSE IF n \in old THEN [code[n] EXCEPT !.used = TRUE] ELSE code[n]]
      /\ Ends(t) /\ UNCHANGED <<buyer, customer, requests, uses, outdated, unlocked>>
  BY DEF CommitReset
<1>4. \A n \in old : /\ code[n] \in CodeRecords /\ n # o
                     /\ [code[n] EXCEPT !.used = TRUE] \in CodeRecords
                     /\ [code[n] EXCEPT !.used = TRUE].purpose = code[n].purpose
                     /\ [code[n] EXCEPT !.used = TRUE].attempts = code[n].attempts
                     /\ [code[n] EXCEPT !.used = TRUE].used
  <2> SUFFICES ASSUME NEW n \in old
               PROVE  /\ code[n] \in CodeRecords /\ n # o
                      /\ [code[n] EXCEPT !.used = TRUE] \in CodeRecords
                      /\ [code[n] EXCEPT !.used = TRUE].purpose = code[n].purpose
                      /\ [code[n] EXCEPT !.used = TRUE].attempts = code[n].attempts
                      /\ [code[n] EXCEPT !.used = TRUE].used
    OBVIOUS
  <2>1. code[n] \in CodeRecords /\ n # o
    BY <1>1, <1>2 DEF TypeInv
  <2>2. QED
    BY <2>1 DEF CodeRecords
<1> HIDE DEF o, old, fresh
<1>5. /\ code'[o] = fresh
      /\ \A n \in old : code'[n] = [code[n] EXCEPT !.used = TRUE]
      /\ \A n \in Codes : n # o /\ n \notin old => code'[n] = code[n]
  BY <1>1, <1>3, <1>4
<1>6. code' \in [Codes -> CodeRecords \cup {NoCode}]
  BY <1>1, <1>3, <1>4 DEF TypeInv
<1>7. ASSUME NEW n \in Codes PROVE Advances(n)
  <2>1. CASE n = o
    BY <1>1, <1>2, <1>5, <2>1 DEF Advances
  <2>2. CASE n \in old
    <3>1. code[n].purpose \in ResetPurposes => code'[n].attempts <= MaxVerify
      BY <1>2, <1>4, <1>5, <2>2 DEF CodeInv, CodeOK
    <3>2. QED
      BY <1>2, <1>4, <1>5, <2>2, <3>1 DEF Advances
  <2>3. CASE n # o /\ n \notin old
    BY <1>5, <2>3 DEF Advances
  <2>4. QED
    BY <2>1, <2>2, <2>3
<1>8. ASSUME NEW n \in Codes, NEW s \in Txs \ {t} PROVE Respects(n, s)
  <2>1. CASE n = o
    <3>1. ~(tx[s].pc = "issuing" /\ tx[s].code = o)
      BY <1>1, <2>1 DEF CodeInv, o
    <3>2. QED
      BY <1>2, <2>1, <3>1 DEF Respects
  <2>2. CASE n \in old
    <3>1. CodeRow(n) \notin Held(s)
      BY <1>1, <1>2, <2>2, OwnRows
    <3>2. QED
      BY <1>2, <2>2, <3>1 DEF Respects
  <2>3. CASE n # o /\ n \notin old
    BY <1>5, <2>3 DEF Respects
  <2>4. QED
    BY <2>1, <2>2, <2>3
<1>9. \A n \in Codes : CodeOK(n)'
  BY <1>3, <1>7, CodeKept DEF CodeInv
<1>10. TypeInv'
  <2>1. tx' \in [Txs -> Requests]
    BY <1>3, IdleRelies DEF TypeInv, Ends, Goes
  <2>2. QED
    BY <1>3, <1>6, <2>1 DEF TypeInv
<1>11. QED
  BY <1>3, <1>7, <1>8, <1>9, <1>10, CodeEnds

\* A code that was tried too often is marked used, and a WhatsApp nonce is
\* confirmed or counted.
LEMMA WriteCodeStep ==
    ASSUME TypeInv, CodeInv, NEW t \in Txs, Exhaust(t) \/ ConfirmWa(t)
    PROVE  TypeInv' /\ CodeInv' /\ CodeSide
<1> DEFINE o == tx[t].code
<1>1. /\ o \in Codes /\ code[o] # NoCode /\ Free(CodeRow(o)) /\ tx[t].pc \in {"exhausting", "confirming"}
      /\ ConfirmWa(t) => code[o].purpose = "login" /\ tx[t].value.attempts \in Nat
  <2>1. CASE Exhaust(t)
    BY <2>1, RequestKinds DEF TypeInv, Exhaust, Exhaustings, CodeInv, CodeRequestOK, ConfirmWa
  <2>2. CASE ConfirmWa(t)
    BY <2>2, RequestKinds DEF TypeInv, ConfirmWa, Confirmings, CodeInv, CodeRequestOK
  <2>3. QED
    BY <2>1, <2>2
<1>2. code[o] \in CodeRecords
  BY <1>1 DEF TypeInv
<1>3. UNCHANGED <<buyer, customer, requests, uses, outdated, unlocked>> /\ Ends(t)
  BY DEF Exhaust, ConfirmWa
<1>4. PICK row \in CodeRecords :
          /\ code' = [code EXCEPT ![o] = row]
          /\ row.purpose = code[o].purpose /\ (code[o].used => row.used)
          /\ code[o].purpose \in ResetPurposes => row.attempts <= MaxVerify
  <2>1. code[o].purpose \in ResetPurposes => code[o].attempts <= MaxVerify
    BY <1>1 DEF CodeInv, CodeOK
  <2>2. CASE code' = [code EXCEPT ![o].used = TRUE]
    <3> DEFINE row == [code[o] EXCEPT !.used = TRUE]
    <3>1. row \in CodeRecords /\ row.purpose = code[o].purpose /\ row.attempts = code[o].attempts /\ row.used
      BY <1>2 DEF CodeRecords
    <3>2. QED
      BY <2>1, <2>2, <3>1
  <2>3. CASE code' = [code EXCEPT ![o].verified = TRUE]
    <3> DEFINE row == [code[o] EXCEPT !.verified = TRUE]
    <3>1. row \in CodeRecords /\ row.purpose = code[o].purpose /\ row.attempts = code[o].attempts /\ row.used = code[o].used
      BY <1>2 DEF CodeRecords
    <3>2. QED
      BY <2>1, <2>3, <3>1
  <2>4. CASE ConfirmWa(t) /\ code' = [code EXCEPT ![o].attempts = tx[t].value.attempts + 1]
    <3> DEFINE a == tx[t].value.attempts + 1
               row == [code[o] EXCEPT !.attempts = a]
    <3>1. a \in Nat
      BY <1>1, <2>4
    <3>2. code' = [code EXCEPT ![o].attempts = a]
      BY <2>4
    <3> HIDE DEF a
    <3>3. row \in CodeRecords /\ row.purpose = code[o].purpose /\ row.used = code[o].used
      BY <1>2, <3>1 DEF CodeRecords
    <3>4. code[o].purpose \notin ResetPurposes
      BY <1>1, <2>4 DEF ResetPurposes
    <3>5. code' = [code EXCEPT ![o] = row]
      BY <3>2
    <3> HIDE DEF row
    <3>6. QED
      BY <3>3, <3>4, <3>5
  <2>5. QED
    BY <2>2, <2>3, <2>4 DEF Exhaust, ConfirmWa
<1>5. /\ code' \in [Codes -> CodeRecords \cup {NoCode}]
      /\ \A n \in Codes : Advances(n)
      /\ code'[o] = row /\ \A n \in Codes \ {o} : code'[n] = code[n]
  BY <1>1, <1>4, OneCode
<1>6. \A s \in Txs : CodeRow(o) \notin Held(s)
  BY <1>1 DEF Free, Held
<1>7. \A n \in Codes, s \in Txs \ {t} : Respects(n, s)
  BY <1>1, <1>5, <1>6 DEF Respects
<1>8. \A n \in Codes : CodeOK(n)'
  BY <1>3, <1>5, CodeKept DEF CodeInv
<1>9. TypeInv'
  <2>1. tx' \in [Txs -> Requests]
    BY <1>3, IdleRelies DEF TypeInv, Ends, Goes
  <2>2. QED
    BY <1>3, <1>5, <2>1 DEF TypeInv
<1>10. QED
  BY <1>3, <1>5, <1>7, <1>8, <1>9, CodeEnds

\* A request spends its code.
LEMMA SpendStep ==
    ASSUME TypeInv, CodeInv, NEW t \in Txs, tx[t].pc \in {"registering", "spending"}, Spent(tx[t].code), Ends(t),
           UNCHANGED <<customer, requests, outdated, unlocked>>, buyer' \in [Buyers -> Profiles \cup {NoBuyer}]
    PROVE  TypeInv' /\ CodeInv' /\ CodeSide
<1> DEFINE o == tx[t].code
           row == [code[o] EXCEPT !.used = TRUE]
<1>1. o \in Codes /\ CodeRow(o) \in tx[t].held /\ code[o] # NoCode /\ ~code[o].used
  BY RequestKinds DEF TypeInv, Registerings, Spendings, CodeInv, CodeRequestOK
<1>2. code[o] \in CodeRecords /\ uses[o] \in Nat
  BY <1>1 DEF TypeInv
<1>3. row \in CodeRecords /\ row.purpose = code[o].purpose /\ row.attempts = code[o].attempts /\ row.used
  BY <1>2 DEF CodeRecords
<1>4. code[o].purpose \in ResetPurposes => code[o].attempts <= MaxVerify
  BY <1>1 DEF CodeInv, CodeOK
<1>5. code' = [code EXCEPT ![o] = row] /\ uses' = [uses EXCEPT ![o] = @ + 1]
  BY DEF Spent
<1> HIDE DEF o, row
<1>6. /\ code' \in [Codes -> CodeRecords \cup {NoCode}]
      /\ \A n \in Codes : Advances(n)
      /\ code'[o] = row /\ \A n \in Codes \ {o} : code'[n] = code[n]
  BY <1>1, <1>3, <1>4, <1>5, OneCode
<1>7. uses'[o] = uses[o] + 1 /\ (\A n \in Codes \ {o} : uses'[n] = uses[n]) /\ uses' \in [Codes -> Nat]
  BY <1>1, <1>2, <1>5 DEF TypeInv
<1>8. uses[o] = 0
  BY <1>1 DEF CodeInv, CodeOK
<1>9. ASSUME NEW n \in Codes PROVE CodeOK(n)'
  <2>1. CASE n = o
    <3>1. code'[n] # NoCode /\ code'[n].used
      BY <1>3, <1>6, <2>1, NoRows
    <3>2. code'[n].purpose \in ResetPurposes => code'[n].attempts <= MaxVerify
      BY <1>3, <1>4, <1>6, <2>1
    <3>3. uses'[n] <= 1
      BY <1>7, <1>8, <2>1
    <3>4. QED
      BY <3>1, <3>2, <3>3 DEF CodeOK
  <2>2. CASE n # o
    BY <1>6, <1>7, <2>2, CodeKept DEF CodeInv
  <2>3. QED
    BY <2>1, <2>2
<1>10. \A n \in Codes, s \in Txs \ {t} : Respects(n, s)
  <2>1. \A s \in Txs \ {t} : CodeRow(o) \notin Held(s)
    BY <1>1, OwnRows
  <2>2. QED
    BY <1>1, <1>6, <2>1 DEF Respects
<1>11. TypeInv'
  <2>1. tx' \in [Txs -> Requests]
    BY IdleRelies DEF TypeInv, Ends, Goes
  <2>2. QED
    BY <1>6, <1>7, <2>1 DEF TypeInv
<1>12. QED
  BY <1>6, <1>9, <1>10, <1>11, CodeEnds

\* register and login_otp commit.
LEMMA RegisterStep ==
    ASSUME TypeInv, CodeInv, NEW t \in Txs, CommitRegister(t) \/ CommitLogin(t)
    PROVE  TypeInv' /\ CodeInv' /\ CodeSide
<1>1. CASE CommitLogin(t)
  BY <1>1, SpendStep DEF CommitLogin, TypeInv
<1>2. CASE CommitRegister(t) /\ Spent(tx[t].code) /\ buyer' = [buyer EXCEPT ![tx[t].buyer] = tx[t].value]
  <2>1. tx[t].buyer \in Buyers /\ tx[t].value \in Profiles
    BY <1>2, RequestKinds DEF TypeInv, CommitRegister, Registerings
  <2>2. buyer' \in [Buyers -> Profiles \cup {NoBuyer}]
    BY <1>2, <2>1 DEF TypeInv
  <2>3. QED
    BY <1>2, <2>2, SpendStep DEF CommitRegister
<1>3. CASE CommitRegister(t) /\ UNCHANGED <<buyer, code, uses>>
  <2>1. Ends(t) /\ UNCHANGED <<customer, requests, outdated, unlocked>>
    BY <1>3 DEF CommitRegister
  <2>2. tx' \in [Txs -> Requests]
    BY <2>1, IdleRelies DEF TypeInv, Ends, Goes
  <2>3. TypeInv'
    BY <1>3, <2>1, <2>2 DEF TypeInv
  <2>4. \A o \in Codes : Advances(o) /\ \A s : Respects(o, s)
    BY <1>3, CodesAlone
  <2>5. \A o \in Codes : CodeOK(o)'
    BY <1>3, <2>1, <2>4, CodeKept DEF CodeInv
  <2>6. QED
    BY <2>1, <2>3, <2>4, <2>5, CodeEnds
<1>4. QED
  BY <1>1, <1>2, <1>3 DEF CommitRegister

\* A password is set: its code is spent and the others of the account retired.
LEMMA PasswordStep ==
    ASSUME TypeInv, CodeInv, NEW t \in Txs, CommitPassword(t)
    PROVE  TypeInv' /\ CodeInv' /\ CodeSide
<1> DEFINE o == tx[t].code
           old == SameAccount(o, tx[t].value)
           S == old \cup {o}
<1>1. o \in Codes /\ CodeRow(o) \in tx[t].held /\ code[o] # NoCode /\ ~code[o].used /\ tx[t].pc # "idle"
  BY RequestKinds DEF TypeInv, CommitPassword, Resettings, CodeInv, CodeRequestOK
<1>2. old \subseteq Codes /\ (\A n \in old : code[n] # NoCode) /\ uses[o] \in Nat
  BY <1>1 DEF SameAccount, TypeInv
<1>3. /\ Invalidated(S) /\ uses' = [uses EXCEPT ![o] = @ + 1] /\ outdated' = outdated \cup old
      /\ Ends(t) /\ UNCHANGED <<buyer, customer, requests, unlocked>>
      /\ \A n \in old : Free(CodeRow(n)) \/ CodeRow(n) \in tx[t].held
  BY DEF CommitPassword, Retired
<1> HIDE DEF o, old
<1>4. S \in SUBSET Codes /\ o \in S /\ old \subseteq S /\ (\A n \in S : code[n] # NoCode)
      /\ \A n \in S : Free(CodeRow(n)) \/ CodeRow(n) \in tx[t].held
  BY <1>1, <1>2, <1>3
<1> HIDE DEF S
<1>5. /\ code' \in [Codes -> CodeRecords \cup {NoCode}]
      /\ \A n \in Codes : Advances(n)
      /\ \A n \in S : code'[n] # NoCode /\ code'[n].used
      /\ \A n \in Codes \ S : code'[n] = code[n]
  BY <1>3, <1>4, MarkedUsed
<1>6. \A n \in Codes, s \in Txs \ {t} : Respects(n, s)
  <2>1. \A n \in S, s \in Txs \ {t} : CodeRow(n) \notin Held(s)
    BY <1>1, <1>4, OwnRows
  <2>2. QED
    BY <1>4, <1>5, <2>1 DEF Respects
<1>7. uses'[o] = uses[o] + 1 /\ (\A n \in Codes \ {o} : uses'[n] = uses[n]) /\ uses' \in [Codes -> Nat]
  BY <1>1, <1>2, <1>3 DEF TypeInv
<1>8. uses[o] = 0
  BY <1>1 DEF CodeInv, CodeOK
<1>9. ASSUME NEW n \in Codes PROVE CodeOK(n)'
  <2>1. code'[n] # NoCode /\ code'[n].purpose \in ResetPurposes => code'[n].attempts <= MaxVerify
    BY <1>5, BuyerAuthAssumption DEF CodeInv, CodeOK, Advances
  <2>2. code[n] # NoCode /\ code[n].used => code'[n] # NoCode /\ code'[n].used
    BY <1>5, NoRows DEF Advances
  <2>3. uses'[n] <= 1 /\ (uses'[n] # 0 => code'[n] # NoCode /\ code'[n].used)
    <3>1. CASE n = o
      BY <1>4, <1>5, <1>7, <1>8, <3>1
    <3>2. CASE n # o
      BY <1>7, <2>2, <3>2 DEF CodeInv, CodeOK
    <3>3. QED
      BY <3>1, <3>2
  <2>4. n \in outdated' => code'[n] # NoCode /\ code'[n].used
    BY <1>3, <1>4, <1>5, <2>2 DEF CodeInv, CodeOK
  <2>5. QED
    BY <2>1, <2>3, <2>4 DEF CodeOK
<1>10. TypeInv'
  <2>1. tx' \in [Txs -> Requests]
    BY <1>3, IdleRelies DEF TypeInv, Ends, Goes
  <2>2. outdated' \in SUBSET Codes
    BY <1>2, <1>3 DEF TypeInv
  <2>3. QED
    BY <1>3, <1>5, <1>7, <2>1, <2>2 DEF TypeInv
<1>11. QED
  BY <1>3, <1>5, <1>6, <1>9, <1>10, CodeEnds

\* A request rolls back.
LEMMA AbortStep ==
    ASSUME TypeInv, CodeInv, NEW t \in Txs, Abort(t)
    PROVE  TypeInv' /\ CodeInv' /\ CodeSide
<1>1. Ends(t) /\ UNCHANGED <<code, buyer, customer, requests, uses, outdated, unlocked>>
  BY DEF Abort
<1>2. TypeInv'
  <2>1. tx' \in [Txs -> Requests]
    BY <1>1, IdleRelies DEF TypeInv, Ends, Goes
  <2>2. QED
    BY <1>1, <2>1 DEF TypeInv
<1>3. \A o \in Codes : Advances(o) /\ \A s : Respects(o, s)
  BY <1>1, CodesAlone
<1>4. \A o \in Codes : CodeOK(o)'
  BY <1>1, <1>3, CodeKept DEF CodeInv
<1>5. QED
  BY <1>1, <1>2, <1>3, <1>4, CodeEnds

-------------------------------------------------------------------------------
(* Customer records. A request that will link one, and holds its account's  *)
(* row, knows the record's number: it is the account's. That no charge may  *)
(* be relied on for this is why RecordMatches is about Known \ unlocked.    *)

\* What a request that is about a customer record relies on.
RecordRequestOK(r) ==
    /\ r.pc \in {"moving", "linking", "charging"} =>
          r.buyer \in Accounts /\ r.value.record \subseteq Known
    /\ r.pc = "charging" => r.value.record # {} /\ r.held = {}
    /\ r.pc = "moving" =>
          BuyerRow(r.buyer) \in r.held /\ (r.value.record = {} => LinkedTo(r.buyer) \subseteq unlocked)
    /\ r.pc = "linking" /\ r.value.record = {} => BuyerRow(r.buyer) \in r.held
    /\ r.pc = "linking" /\ BuyerRow(r.buyer) \in r.held => r.value.phone = buyer[r.buyer].phone
    /\ r.pc \in {"moving", "linking"} /\ BuyerRow(r.buyer) \in r.held =>
          \A c \in r.value.record \ unlocked : customer[c].number = buyer[r.buyer].phone

PhonesUnique == \A a, b \in Accounts : buyer[a].phone = buyer[b].phone => a = b

RecordInv ==
    /\ \A t \in Txs : RecordRequestOK(tx[t])
    /\ PhonesUnique
    /\ \A c \in Known : customer[c].buyer \in Accounts \cup {"none"}
    /\ RecordMatches

\* A step spares the record of a request that holds its account's row.
Spares(s) ==
    tx[s].pc \in {"moving", "linking"} /\ BuyerRow(tx[s].buyer) \in tx[s].held =>
        /\ buyer'[tx[s].buyer].phone = buyer[tx[s].buyer].phone
        /\ \A c \in tx[s].value.record \ unlocked' : customer'[c].number = customer[c].number
        /\ \A c \in Known' \ unlocked' :
              customer'[c].buyer = tx[s].buyer => c \in Known /\ customer[c].buyer = tx[s].buyer

\* A request keeps what it relies on while accounts, records and charges only
\* become more and its record is spared.
LEMMA RecordRequestKept ==
    ASSUME TypeInv, NEW s \in Txs, RecordRequestOK(tx[s]), tx'[s] = tx[s],
           Accounts \subseteq Accounts', Known \subseteq Known', unlocked \subseteq unlocked', Spares(s)
    PROVE  RecordRequestOK(tx[s])'
<1> DEFINE r == tx[s]
           b == tx[s].buyer
           locks == r.pc \in {"moving", "linking"} /\ BuyerRow(b) \in r.held
<1>1. r.pc \in {"moving", "linking", "charging"} => b \in Accounts' /\ r.value.record \subseteq Known'
  BY DEF RecordRequestOK
<1>2. r.pc = "charging" => r.value.record # {} /\ r.held = {}
  BY DEF RecordRequestOK
<1>3. r.pc = "moving" => BuyerRow(b) \in r.held
  BY DEF RecordRequestOK
<1>4. r.pc = "moving" /\ r.value.record = {} =>
          \A c \in Known' : customer'[c].buyer = b => c \in unlocked'
  BY <1>3 DEF RecordRequestOK, Spares, LinkedTo
<1>5. r.pc = "linking" /\ r.value.record = {} => BuyerRow(b) \in r.held
  BY DEF RecordRequestOK
<1>6. r.pc = "linking" /\ BuyerRow(b) \in r.held => r.value.phone = buyer'[b].phone
  BY DEF RecordRequestOK, Spares
<1>7. locks => \A c \in r.value.record \ unlocked' : customer'[c].number = buyer'[b].phone
  BY DEF RecordRequestOK, Spares
<1> HIDE DEF r, b
<1>8. tx'[s] = r /\ tx'[s].buyer = b
  BY DEF r, b
<1>9. QED
  BY <1>1, <1>2, <1>3, <1>4, <1>5, <1>6, <1>7, <1>8 DEF RecordRequestOK, LinkedTo, BuyerRow

\* A step of a request, from one state of the accounts and records to the next.
LEMMA RecordStepKeeps ==
    ASSUME TypeInv, RecordInv, NEW t \in Txs, NEW r \in Requests, Goes(t, r), RecordRequestOK(r)',
           Accounts \subseteq Accounts', Known \subseteq Known', unlocked \subseteq unlocked',
           \A s \in Txs \ {t} : Spares(s),
           PhonesUnique', \A c \in Known' : customer'[c].buyer \in Accounts' \cup {"none"}, RecordMatches'
    PROVE  RecordInv'
<1>1. tx'[t] = r /\ \A s \in Txs \ {t} : tx'[s] = tx[s]
  BY DEF TypeInv, Goes
<1>2. ASSUME NEW s \in Txs PROVE RecordRequestOK(tx[s])'
  <2>1. CASE s = t
    <3>1. RecordRequestOK(r)' => RecordRequestOK(tx[s])'
      BY <1>1, <2>1 DEF RecordRequestOK
    <3>2. QED
      BY <3>1
  <2>2. CASE s # t
    BY <1>1, <2>2, RecordRequestKept DEF RecordInv
  <2>3. QED
    BY <2>1, <2>2
<1>3. QED
  BY <1>2 DEF RecordInv

\* Nothing about accounts and records changes.
LEMMA RecordsStay ==
    ASSUME UNCHANGED <<buyer, customer, unlocked>>
    PROVE  /\ Accounts' = Accounts /\ Known' = Known /\ \A s \in Txs : Spares(s)
           /\ RecordInv => PhonesUnique' /\ RecordMatches'
                           /\ \A c \in Known' : customer'[c].buyer \in Accounts' \cup {"none"}
<1>1. Accounts' = Accounts /\ Known' = Known
  BY DEF Accounts, Known
<1>2. \A s \in Txs : Spares(s)
  BY <1>1 DEF Spares
<1>3. RecordInv => PhonesUnique' /\ RecordMatches' /\ \A c \in Known' : customer'[c].buyer \in Accounts' \cup {"none"}
  BY <1>1 DEF RecordInv, PhonesUnique, RecordMatches
<1>4. QED
  BY <1>1, <1>2, <1>3

\* A request that is not about records relies on none.
LEMMA NotAboutRecords ==
    ASSUME NEW r, r.pc \notin {"moving", "linking", "charging"}
    PROVE  RecordRequestOK(r) /\ RecordRequestOK(r)'
BY DEF RecordRequestOK

\* Steps about codes leave the records alone.
LEMMA RecordsUntouched ==
    ASSUME TypeInv, RecordInv, UNCHANGED <<buyer, customer, unlocked>>, CodeSide
    PROVE  RecordInv'
<1>1. CASE UNCHANGED tx
  <2>1. \A s \in Txs : RecordRequestOK(tx[s])'
    BY <1>1, RecordsStay, RecordRequestKept DEF RecordInv
  <2>2. QED
    BY <2>1, RecordsStay DEF RecordInv
<1>2. ASSUME NEW t \in Txs, NEW r \in Requests, Goes(t, r), r.pc \notin {"moving", "linking", "charging"}
      PROVE  RecordInv'
  <2>1. RecordRequestOK(r)'
    BY <1>2, NotAboutRecords
  <2>2. QED
    BY <1>2, <2>1, RecordsStay, RecordStepKeeps
<1>3. QED
  BY <1>1, <1>2 DEF CodeSide

\* Two requests do not hold one account's row.
LEMMA AccountHeldOnce ==
    ASSUME CodeInv, NEW s \in Txs, NEW t \in Txs, s # t, tx[s].pc # "idle", tx[t].pc # "idle",
           BuyerRow(tx[s].buyer) \in tx[s].held, BuyerRow(tx[t].buyer) \in tx[t].held
    PROVE  tx[s].buyer # tx[t].buyer
BY DEF CodeInv, HeldOnce, Held

\* The invariant of the module.
Inv == TypeInv /\ CodeInv /\ RecordInv

\* A request about records begins or goes on and changes no row yet:
\* change_buyer_phone, create_buyer_order and create_payment_charge.
LEMMA RecordGoesOn ==
    ASSUME Inv, NEW t \in Txs, NEW r \in Requests, Goes(t, r), RecordRequestOK(r),
           r = Idle \/ r.pc \in {"moving", "linking", "charging"},
           r = Idle \/ r.held = Held(t) \/ \A x \in r.held : Free(x),
           requests' \in 0..MaxRequests, UNCHANGED <<code, buyer, customer, uses, outdated, unlocked>>
    PROVE  Inv'
<1>1. TypeInv /\ CodeInv /\ RecordInv
  BY DEF Inv
<1>2. TypeInv'
  <2>1. tx' \in [Txs -> Requests]
    BY <1>1 DEF TypeInv, Goes
  <2>2. QED
    BY <1>1, <2>1 DEF TypeInv
<1>3. CodeRequestOK(r) /\ r.pc # "issuing"
  BY IdleRelies DEF CodeRequestOK
<1>4. CodeInv'
  BY <1>1, <1>2, <1>3, CodesUntouched
<1>5. Accounts' = Accounts /\ Known' = Known
  BY DEF Accounts, Known
<1>6. RecordRequestOK(r)'
  BY <1>5 DEF RecordRequestOK, LinkedTo
<1>7. RecordInv'
  BY <1>1, <1>5, <1>6, RecordsStay, RecordStepKeeps
<1>8. QED
  BY <1>2, <1>4, <1>7 DEF Inv

\* The request of a kind about records.
LEMMA RecordRequest ==
    ASSUME NEW pc \in {"moving", "linking", "charging"}, NEW held \in SUBSET Rows, NEW b \in Buyers,
           NEW record \in SUBSET Customers, NEW p \in Phones
    PROVE  At(pc, held, 0, b, [record |-> record, phone |-> p]) \in Requests
BY DEF At, Requests, Relinkings

\* The record that is found for an account is its own, or has its number.
LEMMA FoundRecord ==
    ASSUME Inv, NEW b \in Accounts
    PROVE  /\ Record(b) \subseteq Known /\ Record(b) \subseteq Customers
           /\ Record(b) = {} => LinkedTo(b) = {}
           /\ \A c \in Record(b) \ unlocked : customer[c].number = buyer[b].phone
           /\ buyer[b].phone \in Phones
<1>1. Record(b) \subseteq Known /\ Known \subseteq Customers /\ (Record(b) = {} => LinkedTo(b) = {})
  BY DEF Record, LinkedTo, Numbered, Known
<1>2. buyer[b].phone \in Phones
  BY RowsThere DEF Inv, Profiles
<1>3. \A c \in LinkedTo(b) \ unlocked : customer[c].number = buyer[b].phone
  <2>1. b # "none"
    BY BuyerAuthAssumption DEF Accounts
  <2>2. QED
    BY <2>1 DEF Inv, RecordInv, RecordMatches, LinkedTo
<1>4. QED
  BY <1>1, <1>2, <1>3 DEF Record, Numbered

\* The requests about records that begin.
LEMMA RecordBegins ==
    ASSUME Inv, NEW t \in Txs, NEW b \in Buyers,
           \/ \E p \in Phones : StartPhoneChange(t, b, p)
           \/ StartCheckout(t, b)
           \/ \E c \in Customers : StartCharge(t, b, c)
    PROVE  Inv'
<1>1. b \in Accounts /\ Request
  BY DEF StartPhoneChange, StartCheckout, StartCharge
<1>2. requests' \in 0..MaxRequests
  BY <1>1, RequestCount DEF Inv
<1>3. ASSUME NEW p \in Phones, StartPhoneChange(t, b, p) PROVE Inv'
  <2> DEFINE held == {BuyerRow(b)} \cup {CustomerRow(c) : c \in LinkedTo(b)}
             r == At("moving", held, 0, b, [record |-> Record(b), phone |-> p])
  <2>1. held \in SUBSET Rows
    BY RowKinds DEF LinkedTo, Known
  <2>2. \A x \in held : Free(x)
    BY <1>3 DEF StartPhoneChange
  <2>3. BuyerRow(b) \in held
    OBVIOUS
  <2>4. Goes(t, r) /\ UNCHANGED <<code, buyer, customer, uses, outdated, unlocked>>
    BY <1>3 DEF StartPhoneChange
  <2> HIDE DEF held
  <2>5. r \in Requests
    BY <1>1, <2>1, FoundRecord, RecordRequest
  <2>6. /\ r.pc = "moving" /\ r.held = held /\ r.buyer = b /\ r.value.record = Record(b)
    BY DEF At
  <2> HIDE DEF r
  <2>7. RecordRequestOK(r)
    BY <1>1, <2>3, <2>6, FoundRecord DEF RecordRequestOK
  <2>8. QED
    BY <1>2, <2>2, <2>4, <2>5, <2>6, <2>7, RecordGoesOn
<1>4. CASE StartCheckout(t, b)
  <2> DEFINE r == At("linking", {BuyerRow(b)}, 0, b, [record |-> Record(b), phone |-> buyer[b].phone])
  <2>1. {BuyerRow(b)} \in SUBSET Rows
    BY RowKinds
  <2>2. Goes(t, r) /\ UNCHANGED <<code, buyer, customer, uses, outdated, unlocked>> /\ Free(BuyerRow(b))
    BY <1>4 DEF StartCheckout
  <2>3. r \in Requests
    BY <1>1, <2>1, FoundRecord, RecordRequest
  <2>4. /\ r.pc = "linking" /\ r.held = {BuyerRow(b)} /\ r.buyer = b /\ r.value.record = Record(b)
        /\ r.value.phone = buyer[b].phone
    BY DEF At
  <2> HIDE DEF r
  <2>5. RecordRequestOK(r)
    BY <1>1, <2>4, FoundRecord DEF RecordRequestOK
  <2>6. QED
    BY <1>2, <2>2, <2>3, <2>4, <2>5, RecordGoesOn
<1>5. ASSUME NEW c \in Customers, StartCharge(t, b, c) PROVE Inv'
  <2> DEFINE r == At("charging", {}, 0, b, [record |-> {c}, phone |-> buyer[b].phone])
  <2>1. Goes(t, r) /\ UNCHANGED <<code, buyer, customer, uses, outdated, unlocked>> /\ c \in Known
    BY <1>5 DEF StartCharge
  <2>2. r \in Requests
    <3>1. {c} \in SUBSET Customers /\ {} \in SUBSET Rows
      OBVIOUS
    <3>2. QED
      BY <1>1, <3>1, FoundRecord, RecordRequest
  <2>3. r.pc = "charging" /\ r.held = {} /\ r.buyer = b /\ r.value.record = {c}
    BY DEF At
  <2> HIDE DEF r
  <2>4. RecordRequestOK(r)
    BY <1>1, <2>1, <2>3 DEF RecordRequestOK
  <2>5. QED
    BY <1>2, <2>1, <2>2, <2>3, <2>4, RecordGoesOn
<1>6. QED
  BY <1>3, <1>4, <1>5

\* get_customer_for_buyer in a charge.
LEMMA FindStep ==
    ASSUME Inv, NEW t \in Txs, FindRecord(t)
    PROVE  Inv'
<1>1. tx[t] \in Relinkings /\ tx[t].pc = "charging" /\ RecordRequestOK(tx[t])
  BY RequestKinds DEF Inv, TypeInv, RecordInv, FindRecord
<1>2. requests' \in 0..MaxRequests /\ UNCHANGED <<code, buyer, customer, uses, outdated, unlocked>>
  BY DEF Inv, TypeInv, FindRecord
<1>3. CASE Ends(t)
  <2> DEFINE r == Idle
  <2>1. r \in Requests /\ r.pc = "idle" /\ Goes(t, r) /\ r = Idle
    BY <1>3, IdleRelies DEF Ends
  <2> HIDE DEF r
  <2>2. RecordRequestOK(r)
    BY <2>1, NotAboutRecords
  <2>3. QED
    BY <1>2, <2>1, <2>2, RecordGoesOn
<1>4. CASE Goes(t, [tx[t] EXCEPT !.pc = "linking"])
  <2> DEFINE r == [tx[t] EXCEPT !.pc = "linking"]
  <2>1. r \in Relinkings
    BY <1>1 DEF Relinkings
  <2>2. r.pc = "linking" /\ r.held = tx[t].held /\ r.buyer = tx[t].buyer /\ r.value = tx[t].value
    BY <1>1 DEF Relinkings
  <2>3. Goes(t, r)
    BY <1>4
  <2> HIDE DEF r
  <2>4. r \in Requests /\ r.held = Held(t) /\ BuyerRow(r.buyer) \notin r.held
    BY <1>1, <2>1, <2>2 DEF Requests, Held, RecordRequestOK
  <2>5. RecordRequestOK(r)
    BY <1>1, <2>2, <2>4 DEF RecordRequestOK
  <2>6. QED
    BY <1>2, <2>2, <2>3, <2>4, <2>5, RecordGoesOn
<1>5. QED
  BY <1>3, <1>4 DEF FindRecord

\* A request about records ends, and writes rows.
LEMMA RecordEnds ==
    ASSUME Inv, NEW t \in Txs, Ends(t), UNCHANGED <<code, requests, uses, outdated>>,
           buyer' \in [Buyers -> Profiles \cup {NoBuyer}],
           customer' \in [Customers -> CustomerRecords \cup {NoCustomer}], unlocked' \in SUBSET Customers,
           Accounts \subseteq Accounts', Known \subseteq Known', unlocked \subseteq unlocked',
           \A s \in Txs \ {t} : Spares(s),
           PhonesUnique', \A c \in Known' : customer'[c].buyer \in Accounts' \cup {"none"}, RecordMatches'
    PROVE  Inv'
<1> DEFINE r == Idle
<1>1. r \in Requests /\ r.pc = "idle" /\ Goes(t, r) /\ r = Idle /\ CodeRequestOK(r)
  BY IdleRelies DEF Ends
<1> HIDE DEF r
<1>2. TypeInv /\ CodeInv /\ RecordInv
  BY DEF Inv
<1>3. TypeInv'
  <2>1. tx' \in [Txs -> Requests]
    BY <1>1, <1>2 DEF TypeInv, Goes
  <2>2. QED
    BY <1>2, <2>1 DEF TypeInv
<1>4. CodeInv'
  BY <1>1, <1>2, <1>3, CodesUntouched
<1>5. RecordInv'
  BY <1>1, <1>2, NotAboutRecords, RecordStepKeeps
<1>6. QED
  BY <1>3, <1>4, <1>5 DEF Inv

\* A number changes, and with it the records of the account.
LEMMA PhoneStep ==
    ASSUME Inv, NEW t \in Txs, CommitPhone(t)
    PROVE  Inv'
<1> DEFINE b == tx[t].buyer
           p == tx[t].value.phone
           record == tx[t].value.record
<1>1. /\ tx[t].pc = "moving" /\ b \in Accounts /\ b \in Buyers /\ b # "none" /\ p \in Phones
      /\ record \in SUBSET Customers /\ record \subseteq Known /\ BuyerRow(b) \in tx[t].held
      /\ \A c \in record \ unlocked : customer[c].number = buyer[b].phone
      /\ record = {} => LinkedTo(b) \subseteq unlocked
  <2>1. tx[t] \in Relinkings /\ RecordRequestOK(tx[t]) /\ tx[t].pc = "moving"
    BY RequestKinds DEF Inv, TypeInv, RecordInv, CommitPhone
  <2>2. b \in Buyers /\ p \in Phones /\ record \in SUBSET Customers
    BY <2>1 DEF Relinkings
  <2>3. b # "none"
    BY <2>2, BuyerAuthAssumption
  <2>4. QED
    BY <2>1, <2>2, <2>3 DEF RecordRequestOK
<1>2. Ends(t) /\ UNCHANGED <<code, requests, uses, outdated, unlocked>>
  BY DEF CommitPhone
<1>3. /\ buyer \in [Buyers -> Profiles \cup {NoBuyer}] /\ buyer[b] \in Profiles
      /\ customer \in [Customers -> CustomerRecords \cup {NoCustomer}] /\ unlocked \in SUBSET Customers
      /\ \A a \in Accounts : a \in Buyers /\ buyer[a] \in Profiles
      /\ \A c \in Known : c \in Customers /\ customer[c] \in CustomerRecords
  BY <1>1, RowsThere DEF Inv, TypeInv
<1>4. CASE UNCHANGED <<buyer, customer>>
  <2>1. RecordInv
    BY DEF Inv
  <2>2. QED
    BY <1>2, <1>3, <1>4, <2>1, RecordsStay, RecordEnds
<1>5. CASE /\ \A a \in Accounts \ {b} : buyer[a].phone # p
           /\ record # {} => \A c \in Known \ record : customer[c].number # p /\ customer[c].buyer # b
           /\ buyer' = [buyer EXCEPT ![b].phone = p]
           /\ customer' = [c \in Customers |-> IF c \in record THEN Moved(c, b, p) ELSE customer[c]]
  <2> DEFINE new == [buyer[b] EXCEPT !.phone = p]
             moved == [number |-> p, buyer |-> b]
  <2>1. new \in Profiles /\ new.phone = p /\ moved \in CustomerRecords /\ moved.number = p /\ moved.buyer = b
    BY <1>1, <1>3 DEF Profiles, CustomerRecords
  <2>2. /\ buyer'[b] = new /\ \A a \in Buyers \ {b} : buyer'[a] = buyer[a]
        /\ buyer' \in [Buyers -> Profiles \cup {NoBuyer}]
    BY <1>1, <1>3, <1>5, <2>1
  <2>3. /\ \A c \in record : customer'[c] = moved
        /\ \A c \in Customers \ record : customer'[c] = customer[c]
        /\ customer' \in [Customers -> CustomerRecords \cup {NoCustomer}]
    BY <1>1, <1>3, <1>5, <2>1 DEF Moved
  <2> HIDE DEF b, p, record, new, moved
  <2>4. Accounts' = Accounts
    BY <1>1, <2>1, <2>2, NoRows DEF Accounts
  <2>5. Known' = Known
    BY <1>1, <2>1, <2>3, NoRows DEF Known
  <2>6. PhonesUnique'
    BY <1>1, <1>3, <1>5, <2>1, <2>2, <2>4 DEF PhonesUnique, Inv, RecordInv
  <2>7. \A c \in Known' : customer'[c].buyer \in Accounts' \cup {"none"}
    BY <1>1, <1>3, <2>1, <2>3, <2>4, <2>5 DEF Inv, RecordInv
  <2>8. ASSUME NEW c \in Known, c \notin unlocked, customer'[c].buyer # "none"
        PROVE  customer'[c].number = buyer'[customer'[c].buyer].phone
    <3>1. CASE c \in record
      BY <2>1, <2>2, <2>3, <3>1
    <3>2. CASE c \notin record
      <4>1. customer'[c] = customer[c] /\ customer[c].number = buyer[customer[c].buyer].phone
        BY <1>3, <2>3, <2>8, <3>2 DEF Inv, RecordInv, RecordMatches
      <4>2. customer[c].buyer # b
        <5>1. CASE record = {}
          BY <1>1, <2>8, <5>1 DEF LinkedTo
        <5>2. CASE record # {}
          BY <1>5, <3>2, <5>2
        <5>3. QED
          BY <5>1, <5>2
      <4>3. customer[c].buyer \in Buyers
        BY <1>3, <2>8, <4>1 DEF CustomerRecords
      <4>4. QED
        BY <2>2, <4>1, <4>2, <4>3
    <3>3. QED
      BY <3>1, <3>2
  <2>9. RecordMatches'
    BY <1>2, <2>5, <2>8 DEF RecordMatches
  <2>10. ASSUME NEW s \in Txs \ {t} PROVE Spares(s)
    <3> DEFINE a == tx[s].buyer
    <3>1. SUFFICES ASSUME tx[s].pc \in {"moving", "linking"}, BuyerRow(a) \in tx[s].held
                   PROVE  /\ buyer'[a].phone = buyer[a].phone
                          /\ \A c \in tx[s].value.record \ unlocked' : customer'[c].number = customer[c].number
                          /\ \A c \in Known' \ unlocked' :
                                customer'[c].buyer = a => c \in Known /\ customer[c].buyer = a
      BY DEF Spares
    <3>2. RecordRequestOK(tx[s]) /\ tx[s] \in Relinkings
      BY <3>1, RequestKinds DEF Inv, TypeInv, RecordInv
    <3>3. /\ a \in Accounts /\ tx[s].value.record \subseteq Known
          /\ \A c \in tx[s].value.record \ unlocked : customer[c].number = buyer[a].phone
      BY <3>1, <3>2 DEF RecordRequestOK
    <3>4. a # b
      BY <1>1, <3>1, AccountHeldOnce DEF Inv, b
    <3> HIDE DEF a
    <3>5. buyer'[a] = buyer[a] /\ buyer[a].phone # buyer[b].phone
      BY <1>1, <1>3, <2>2, <3>3, <3>4 DEF Inv, RecordInv, PhonesUnique
    <3>6. ASSUME NEW c \in tx[s].value.record \ unlocked PROVE customer'[c] = customer[c]
      BY <1>1, <1>3, <2>3, <3>3, <3>5
    <3>7. \A c \in Known : customer'[c].buyer = a => customer[c].buyer = a
      BY <1>3, <2>1, <2>3, <3>4
    <3>8. QED
      BY <1>2, <2>5, <3>5, <3>6, <3>7
  <2>11. QED
    BY <1>2, <1>3, <2>2, <2>3, <2>4, <2>5, <2>6, <2>7, <2>9, <2>10, RecordEnds
<1>6. QED
  BY <1>4, <1>5 DEF CommitPhone

\* A record is linked: under the account's row lock by a checkout, else by a charge.
LEMMA LinkStep ==
    ASSUME Inv, NEW t \in Txs, Link(t)
    PROVE  Inv'
<1> DEFINE b == tx[t].buyer
           record == tx[t].value.record
           locked == BuyerRow(b) \in tx[t].held
<1>1. /\ tx[t].pc = "linking" /\ b \in Accounts /\ b \in Buyers
      /\ record \in SUBSET Customers /\ record \subseteq Known
      /\ locked => \A c \in record \ unlocked : customer[c].number = buyer[b].phone
  <2>1. tx[t] \in Relinkings /\ RecordRequestOK(tx[t]) /\ tx[t].pc = "linking"
    BY RequestKinds DEF Inv, TypeInv, RecordInv, Link
  <2>2. b \in Buyers /\ record \in SUBSET Customers
    BY <2>1 DEF Relinkings
  <2>3. QED
    BY <2>1, <2>2 DEF RecordRequestOK
<1>2. Ends(t) /\ UNCHANGED <<code, buyer, requests, uses, outdated>>
  BY DEF Link
<1>3. /\ buyer \in [Buyers -> Profiles \cup {NoBuyer}]
      /\ customer \in [Customers -> CustomerRecords \cup {NoCustomer}] /\ unlocked \in SUBSET Customers
      /\ \A c \in Known : c \in Customers /\ customer[c] \in CustomerRecords
  BY RowsThere DEF Inv, TypeInv
<1>4. Accounts' = Accounts
  BY <1>2 DEF Accounts
<1>5. PhonesUnique'
  BY <1>2, <1>4 DEF PhonesUnique, Inv, RecordInv
<1>6. CASE UNCHANGED <<customer, unlocked>>
  <2>1. RecordInv
    BY DEF Inv
  <2>2. QED
    BY <1>2, <1>3, <1>6, <2>1, RecordsStay, RecordEnds
<1>7. CASE /\ customer' = [c \in Customers |-> IF c \in record THEN [customer[c] EXCEPT !.buyer = b] ELSE customer[c]]
           /\ unlocked' = IF BuyerRow(b) \in tx[t].held THEN unlocked ELSE unlocked \cup record
  <2>1. ASSUME NEW c \in record
        PROVE  customer'[c] \in CustomerRecords /\ customer'[c].buyer = b /\ customer'[c].number = customer[c].number
    <3>1. customer[c] \in CustomerRecords /\ customer'[c] = [customer[c] EXCEPT !.buyer = b]
      BY <1>1, <1>3, <1>7, <2>1
    <3>2. QED
      BY <1>1, <3>1 DEF CustomerRecords
  <2>2. \A c \in Customers \ record : customer'[c] = customer[c]
    BY <1>7
  <2>3. customer' \in [Customers -> CustomerRecords \cup {NoCustomer}]
    <3>1. \A c \in Customers : customer'[c] \in CustomerRecords \cup {NoCustomer}
      BY <1>3, <2>1, <2>2
    <3>2. DOMAIN customer' = Customers /\ customer' = [c \in Customers |-> customer'[c]]
      BY <1>7
    <3>3. QED
      BY <3>1, <3>2
  <2>4. unlocked \subseteq unlocked' /\ unlocked' \in SUBSET Customers /\ (~locked => record \subseteq unlocked')
    BY <1>1, <1>3, <1>7
  <2> HIDE DEF b, record
  <2>5. Known' = Known
    BY <1>1, <2>1, <2>2, NoRows DEF Known
  <2>6. \A c \in Known' : customer'[c].buyer \in Accounts' \cup {"none"}
    BY <1>1, <1>3, <1>4, <2>1, <2>2, <2>5 DEF Inv, RecordInv
  <2>7. ASSUME NEW c \in Known, c \notin unlocked', customer'[c].buyer # "none"
        PROVE  customer'[c].number = buyer[customer'[c].buyer].phone
    <3>1. CASE c \in record
      BY <1>1, <2>1, <2>4, <2>7, <3>1
    <3>2. CASE c \notin record
      BY <1>3, <2>2, <2>4, <2>7, <3>2 DEF Inv, RecordInv, RecordMatches
    <3>3. QED
      BY <3>1, <3>2
  <2>8. RecordMatches'
    BY <1>2, <2>5, <2>7 DEF RecordMatches
  <2>9. ASSUME NEW s \in Txs \ {t} PROVE Spares(s)
    <3> DEFINE a == tx[s].buyer
    <3>1. SUFFICES ASSUME tx[s].pc \in {"moving", "linking"}, BuyerRow(a) \in tx[s].held
                   PROVE  /\ buyer'[a].phone = buyer[a].phone
                          /\ \A c \in tx[s].value.record \ unlocked' : customer'[c].number = customer[c].number
                          /\ \A c \in Known' \ unlocked' :
                                customer'[c].buyer = a => c \in Known /\ customer[c].buyer = a
      BY DEF Spares
    <3>2. tx[s].value.record \subseteq Customers
      BY <3>1, RequestKinds DEF Inv, TypeInv, Relinkings
    <3>3. locked => a # b
      BY <1>1, <3>1, AccountHeldOnce DEF Inv, b
    <3> HIDE DEF a
    <3>4. \A c \in Customers : customer'[c].number = customer[c].number
      BY <2>1, <2>2
    <3>5. \A c \in Known \ unlocked' : customer'[c].buyer = a => customer[c].buyer = a
      BY <1>3, <2>1, <2>2, <2>4, <3>3
    <3>6. QED
      BY <1>2, <2>5, <3>2, <3>4, <3>5
  <2>10. QED
    BY <1>2, <1>3, <1>4, <1>5, <2>3, <2>4, <2>5, <2>6, <2>8, <2>9, RecordEnds
<1>8. QED
  BY <1>6, <1>7 DEF Link

\* A checkout makes a record of the account's number.
LEMMA CreateStep ==
    ASSUME Inv, NEW t \in Txs, NEW c \in Customers, CreateRecord(t, c)
    PROVE  Inv'
<1> DEFINE b == tx[t].buyer
           p == tx[t].value.phone
<1>1. /\ tx[t].pc = "linking" /\ b \in Accounts /\ b \in Buyers /\ p \in Phones
      /\ BuyerRow(b) \in tx[t].held /\ p = buyer[b].phone
  <2>1. tx[t] \in Relinkings /\ RecordRequestOK(tx[t]) /\ tx[t].pc = "linking" /\ tx[t].value.record = {}
    BY RequestKinds DEF Inv, TypeInv, RecordInv, CreateRecord
  <2>2. b \in Buyers /\ p \in Phones
    BY <2>1 DEF Relinkings
  <2>3. QED
    BY <2>1, <2>2 DEF RecordRequestOK
<1>2. Ends(t) /\ UNCHANGED <<code, buyer, requests, uses, outdated, unlocked>> /\ customer[c] = NoCustomer
  BY DEF CreateRecord
<1>3. /\ buyer \in [Buyers -> Profiles \cup {NoBuyer}]
      /\ customer \in [Customers -> CustomerRecords \cup {NoCustomer}] /\ unlocked \in SUBSET Customers
  BY DEF Inv, TypeInv
<1>4. Accounts' = Accounts
  BY <1>2 DEF Accounts
<1>5. PhonesUnique'
  BY <1>2, <1>4 DEF PhonesUnique, Inv, RecordInv
<1>6. CASE UNCHANGED customer
  <2>1. RecordInv
    BY DEF Inv
  <2>2. QED
    BY <1>2, <1>3, <1>6, <2>1, RecordsStay, RecordEnds
<1>7. CASE customer' = [customer EXCEPT ![c] = [number |-> p, buyer |-> b]]
  <2> DEFINE row == [number |-> p, buyer |-> b]
  <2>1. row \in CustomerRecords /\ row.number = p /\ row.buyer = b
    BY <1>1 DEF CustomerRecords
  <2> HIDE DEF row, p
  <2>2. customer' = [customer EXCEPT ![c] = row]
    BY <1>7 DEF row, p
  <2> HIDE DEF b
  <2>3. customer'[c] = row /\ (\A d \in Customers \ {c} : customer'[d] = customer[d])
        /\ customer' \in [Customers -> CustomerRecords \cup {NoCustomer}]
    BY <1>3, <2>1, <2>2
  <2>4. Known' = Known \cup {c} /\ c \notin Known
    BY <1>2, <2>1, <2>3, NoRows DEF Known
  <2>5. \A d \in Known' : customer'[d].buyer \in Accounts' \cup {"none"}
    BY <1>1, <1>4, <2>1, <2>3, <2>4 DEF Inv, RecordInv, Known
  <2>6. RecordMatches'
    BY <1>1, <1>2, <2>1, <2>3, <2>4 DEF Inv, RecordInv, RecordMatches, Known
  <2>7. ASSUME NEW s \in Txs \ {t} PROVE Spares(s)
    <3> DEFINE a == tx[s].buyer
    <3>1. SUFFICES ASSUME tx[s].pc \in {"moving", "linking"}, BuyerRow(a) \in tx[s].held
                   PROVE  /\ buyer'[a].phone = buyer[a].phone
                          /\ \A d \in tx[s].value.record \ unlocked' : customer'[d].number = customer[d].number
                          /\ \A d \in Known' \ unlocked' :
                                customer'[d].buyer = a => d \in Known /\ customer[d].buyer = a
      BY DEF Spares
    <3>2. tx[s].value.record \subseteq Known
      BY <3>1 DEF Inv, RecordInv, RecordRequestOK
    <3>3. a # b
      BY <1>1, <3>1, AccountHeldOnce DEF Inv, b
    <3> HIDE DEF a
    <3>4. QED
      BY <1>2, <2>1, <2>3, <2>4, <3>2, <3>3 DEF Known
  <2>8. Known \subseteq Known'
    BY <2>4
  <2>9. QED
    BY <1>2, <1>3, <1>4, <1>5, <2>3, <2>5, <2>6, <2>7, <2>8, RecordEnds
<1>8. QED
  BY <1>6, <1>7 DEF CreateRecord

\* The chatbot's and a reviewer's customer is nobody's yet.
LEMMA UpsertStep ==
    ASSUME Inv, NEW c \in Customers, NEW p \in Phones, Upsert(c, p)
    PROVE  Inv'
<1> DEFINE row == [number |-> p, buyer |-> "none"]
<1>1. row \in CustomerRecords /\ row.buyer = "none" /\ customer' = [customer EXCEPT ![c] = row]
  BY DEF CustomerRecords, Upsert
<1>2. customer[c] = NoCustomer /\ UNCHANGED <<code, buyer, tx, uses, outdated, unlocked>> /\ Request
  BY DEF Upsert
<1> HIDE DEF row
<1>3. TypeInv /\ CodeInv /\ RecordInv /\ customer \in [Customers -> CustomerRecords \cup {NoCustomer}]
  BY DEF Inv, TypeInv
<1>4. customer'[c] = row /\ (\A d \in Customers \ {c} : customer'[d] = customer[d])
      /\ customer' \in [Customers -> CustomerRecords \cup {NoCustomer}]
  BY <1>1, <1>3
<1>5. TypeInv'
  BY <1>2, <1>3, <1>4, RequestCount DEF TypeInv
<1>6. CodeInv'
  <2>1. \A o \in Codes : Advances(o) /\ \A s : Respects(o, s)
    BY <1>2, CodesAlone
  <2>2. \A o \in Codes : CodeOK(o)'
    BY <1>2, <1>3, <2>1, CodeKept DEF CodeInv
  <2>3. QED
    BY <1>2, <1>3, <1>5, <2>1, <2>2, CodeStepAlone
<1>7. Known' = Known \cup {c} /\ c \notin Known /\ Accounts' = Accounts
  BY <1>1, <1>2, <1>4, NoRows DEF Known, Accounts
<1>8. \A s \in Txs : Spares(s)
  <2> SUFFICES ASSUME NEW s \in Txs, tx[s].pc \in {"moving", "linking"} PROVE Spares(s)
    BY DEF Spares
  <2>1. tx[s].value.record \subseteq Known /\ tx[s].buyer \in Accounts /\ tx[s].buyer # "none"
    BY <1>3, BuyerAuthAssumption DEF RecordInv, RecordRequestOK, Accounts
  <2>2. QED
    BY <1>1, <1>2, <1>4, <1>7, <2>1 DEF Spares, Known
<1>9. \A s \in Txs : RecordRequestOK(tx[s])'
  <2>1. Known \subseteq Known'
    BY <1>7
  <2>2. QED
    BY <1>2, <1>3, <1>7, <1>8, <2>1, RecordRequestKept DEF RecordInv
<1>10. PhonesUnique' /\ (\A d \in Known' : customer'[d].buyer \in Accounts' \cup {"none"}) /\ RecordMatches'
  BY <1>1, <1>2, <1>3, <1>4, <1>7 DEF RecordInv, PhonesUnique, RecordMatches, Known
<1>11. QED
  BY <1>5, <1>6, <1>9, <1>10 DEF Inv, RecordInv

\* A registration adds an account with a number of its own.
LEMMA NewAccountStep ==
    ASSUME Inv, NEW t \in Txs, CommitRegister(t)
    PROVE  Inv'
<1> DEFINE b == tx[t].buyer
           new == tx[t].value
<1>1. TypeInv /\ CodeInv /\ RecordInv /\ tx[t] \in Registerings
  BY RequestKinds DEF Inv, TypeInv, CommitRegister
<1>2. TypeInv' /\ CodeInv' /\ CodeSide
  BY <1>1, RegisterStep
<1>3. b \in Buyers /\ new \in Profiles /\ UNCHANGED <<customer, unlocked>> /\ Ends(t)
  BY <1>1 DEF Registerings, CommitRegister
<1>4. CASE UNCHANGED buyer
  BY <1>1, <1>2, <1>3, <1>4, RecordsUntouched DEF Inv
<1>5. CASE /\ buyer[b] = NoBuyer /\ buyer' = [buyer EXCEPT ![b] = new]
           /\ \A a \in Accounts : buyer[a].email # new.email /\ buyer[a].phone # new.phone
  <2> HIDE DEF b, new
  <2>1. buyer'[b] = new /\ \A a \in Buyers \ {b} : buyer'[a] = buyer[a]
    BY <1>1, <1>3, <1>5 DEF TypeInv
  <2>2. Accounts' = Accounts \cup {b} /\ b \notin Accounts
    BY <1>3, <1>5, <2>1, NoRows DEF Accounts
  <2>3. Known' = Known /\ \A a \in Accounts : buyer'[a] = buyer[a]
    BY <1>3, <2>1, <2>2 DEF Known, Accounts
  <2>4. PhonesUnique'
    BY <1>1, <1>5, <2>1, <2>2, <2>3 DEF RecordInv, PhonesUnique
  <2>5. \A c \in Known' : customer'[c].buyer \in Accounts' \cup {"none"}
    BY <1>1, <1>3, <2>2, <2>3 DEF RecordInv
  <2>6. RecordMatches'
    BY <1>1, <1>3, <2>3 DEF RecordInv, RecordMatches
  <2>7. ASSUME NEW s \in Txs \ {t} PROVE Spares(s)
    <3>1. tx[s].pc \in {"moving", "linking"} => tx[s].buyer \in Accounts
      BY <1>1 DEF RecordInv, RecordRequestOK
    <3>2. QED
      BY <1>3, <2>3, <3>1 DEF Spares
  <2> DEFINE r == Idle
  <2>8. r \in Requests /\ r.pc = "idle" /\ Goes(t, r)
    BY <1>3, IdleRelies DEF Ends
  <2> HIDE DEF r
  <2>9. Accounts \subseteq Accounts' /\ Known \subseteq Known' /\ unlocked \subseteq unlocked'
    BY <1>3, <2>2, <2>3
  <2>10. RecordInv'
    BY <1>1, <2>4, <2>5, <2>6, <2>7, <2>8, <2>9, NotAboutRecords, RecordStepKeeps
  <2>11. QED
    BY <1>2, <2>10 DEF Inv
<1>6. QED
  BY <1>4, <1>5 DEF CommitRegister

\* The invariant holds at first.
LEMMA InvStart == Init => Inv
<1> SUFFICES ASSUME Init PROVE Inv
  OBVIOUS
<1>1. PICK b \in Buyers, e \in Emails, p \in Phones :
          buyer = [a \in Buyers |-> IF a = b THEN [email |-> e, phone |-> p] ELSE NoBuyer]
  BY DEF Init
<1>2. [email |-> e, phone |-> p] \in Profiles
  BY DEF Profiles
<1>3. TypeInv
  <2>1. tx \in [Txs -> Requests]
    BY IdleRelies DEF Init
  <2>2. requests \in 0..MaxRequests
    BY BuyerAuthAssumption DEF Init
  <2>3. buyer \in [Buyers -> Profiles \cup {NoBuyer}]
    BY <1>1, <1>2
  <2>4. QED
    BY <2>1, <2>2, <2>3 DEF Init, TypeInv
<1>4. \A t \in Txs : tx[t] = Idle /\ tx[t].pc = "idle"
  BY DEF Init, Idle
<1>5. CodeInv
  <2>1. \A t \in Txs : CodeRequestOK(tx[t]) /\ Held(t) = {} /\ tx[t].pc # "issuing"
    BY <1>4 DEF CodeRequestOK, Held
  <2>2. \A o \in Codes : CodeOK(o)
    BY DEF Init, CodeOK
  <2>3. QED
    BY <2>1, <2>2 DEF CodeInv, HeldOnce
<1>6. Known = {} /\ Accounts \subseteq {b}
  BY <1>1 DEF Init, Known, Accounts
<1>7. RecordInv
  <2>1. \A t \in Txs : RecordRequestOK(tx[t])
    BY <1>4 DEF RecordRequestOK
  <2>2. QED
    BY <1>6, <2>1 DEF RecordInv, PhonesUnique, RecordMatches
<1>8. QED
  BY <1>3, <1>5, <1>7 DEF Inv

\* Every step keeps it.
LEMMA InvStep == Inv /\ [Next]_vars => Inv'
<1> SUFFICES ASSUME Inv, [Next]_vars PROVE Inv'
  OBVIOUS
<1>1. TypeInv /\ CodeInv /\ RecordInv
  BY DEF Inv
<1>2. ASSUME TypeInv' /\ CodeInv' /\ CodeSide /\ UNCHANGED <<buyer, customer, unlocked>> PROVE Inv'
  BY <1>1, <1>2, RecordsUntouched DEF Inv
<1>3. ASSUME NEW o \in Codes, NEW purpose \in Purposes, NEW target \in Emails \cup Phones, Issue(o, purpose, target)
      PROVE  Inv'
  <2>1. UNCHANGED <<buyer, customer, tx, unlocked>>
    BY <1>3 DEF Issue
  <2>2. QED
    BY <1>1, <1>2, <1>3, <2>1, IssueStep DEF CodeSide
<1>4. CASE CodeRequests
  <2>1. ASSUME NEW o \in Codes, NEW p \in Phones, StartWa(o, p) PROVE Inv'
    BY <1>3, <2>1 DEF StartWa, Purposes
  <2>2. ASSUME NEW o \in Codes, NEW e \in Emails, RequestSellerReset(o, e) PROVE Inv'
    BY <1>3, <2>2 DEF RequestSellerReset, Purposes
  <2>3. ASSUME NEW o \in Codes, Expire(o) PROVE Inv'
    <3>1. UNCHANGED <<buyer, customer, tx, unlocked>>
      BY <2>3 DEF Expire
    <3>2. QED
      BY <1>1, <1>2, <2>3, <3>1, ExpireStep DEF CodeSide
  <2>4. ASSUME NEW o \in Codes, NEW t \in Txs,
               \/ \E e \in Emails : RequestReset(t, o, e)
               \/ \E sender \in Phones : ReadNonce(t, o, sender)
               \/ \E b \in Buyers : Login(t, b, o)
               \/ \E b \in Buyers, e \in Emails, p \in Phones : Register(t, b, e, p, o)
               \/ ResetWithToken(t, o, ResetPurposes) \/ ResetWithToken(t, o, {"reset_password"})
        PROVE  Inv'
    <3>1. /\ TypeInv' /\ CodeInv' /\ UNCHANGED <<buyer, customer, unlocked>>
          /\ \E r \in Requests : Goes(t, r) /\ tx[t] = Idle /\ r.pc \notin {"moving", "linking", "charging"}
      BY <1>1, <2>4, CodeBegins
    <3>2. QED
      BY <1>2, <3>1 DEF CodeSide
  <2>5. ASSUME NEW o \in Codes, NEW t \in Txs, NEW right \in BOOLEAN, VerifyOtp(t, o, right) PROVE Inv'
    <3>1. UNCHANGED <<buyer, customer, unlocked>>
      BY <2>5 DEF VerifyOtp
    <3>2. QED
      BY <1>1, <1>2, <2>5, <3>1, VerifyStep
  <2>6. ASSUME NEW e \in Emails, RefuseCode(e) PROVE Inv'
    <3>1. UNCHANGED <<buyer, customer, unlocked>>
      BY <2>6 DEF RefuseCode
    <3>2. QED
      BY <1>1, <1>2, <2>6, <3>1, RefuseStep
  <2>7. ASSUME NEW e \in Emails, NEW t \in Txs, ResetWithCode(t, e) PROVE Inv'
    BY <1>1, <1>2, <2>7, CodeResetBegins
  <2>8. QED
    BY <1>4, <2>1, <2>2, <2>3, <2>4, <2>5, <2>6, <2>7 DEF CodeRequests
<1>5. CASE RecordRequests
  BY <1>5, UpsertStep, RecordBegins DEF RecordRequests
<1>6. ASSUME NEW t \in Txs, Steps(t) PROVE Inv'
  <2>1. CASE CommitReset(t)
    BY <1>1, <1>2, <2>1, CommitResetStep DEF CommitReset
  <2>2. CASE Exhaust(t) \/ ConfirmWa(t)
    <3>1. UNCHANGED <<buyer, customer, unlocked>>
      BY <2>2 DEF Exhaust, ConfirmWa
    <3>2. QED
      BY <1>1, <1>2, <2>2, <3>1, WriteCodeStep
  <2>3. CASE CommitRegister(t)
    BY <2>3, NewAccountStep
  <2>4. CASE CommitLogin(t)
    BY <1>1, <1>2, <2>4, RegisterStep DEF CommitLogin
  <2>5. CASE CommitPassword(t)
    BY <1>1, <1>2, <2>5, PasswordStep DEF CommitPassword
  <2>6. CASE Abort(t)
    BY <1>1, <1>2, <2>6, AbortStep DEF Abort
  <2>7. QED
    BY <1>6, <2>1, <2>2, <2>3, <2>4, <2>5, <2>6, PhoneStep, FindStep, LinkStep, CreateStep DEF Steps
<1>7. CASE UNCHANGED vars
  <2>1. UNCHANGED <<code, buyer, customer, tx, requests, uses, outdated, unlocked>>
    BY <1>7 DEF vars
  <2>2. TypeInv'
    BY <1>1, <2>1 DEF TypeInv
  <2>3. CodeInv'
    <3>1. \A o \in Codes : Advances(o) /\ \A s : Respects(o, s)
      BY <2>1, CodesAlone
    <3>2. \A o \in Codes : CodeOK(o)'
      BY <1>1, <2>1, <3>1, CodeKept DEF CodeInv
    <3>3. QED
      BY <1>1, <2>1, <2>2, <3>1, <3>2, CodeStepAlone
  <2>4. QED
    BY <1>2, <2>1, <2>2, <2>3 DEF CodeSide
<1>8. QED
  BY <1>4, <1>5, <1>6, <1>7 DEF Next

\* The invariant holds of every state.
THEOREM Invariant == Spec => []Inv
BY InvStart, InvStep, PTL DEF Spec

\* Types, and no code that can reset a password is tried more than
\* _MAX_OTP_VERIFY_ATTEMPTS times.
THEOREM CodesAreLimited == Spec => []TypeOK
<1>1. Inv => TypeOK
  <2> SUFFICES ASSUME Inv PROVE TypeOK
    OBVIOUS
  <2>1. TypeInv /\ CodeInv
    BY DEF Inv
  <2>2. \A o \in Codes : code[o] # NoCode /\ code[o].purpose \in ResetPurposes => code[o].attempts <= MaxVerify
    BY <2>1 DEF CodeInv, CodeOK
  <2>3. \A o \in Codes : code[o] = NoCode \/ code[o] \in CodeRecords
    BY <2>1 DEF TypeInv
  <2>4. \A b \in Buyers : buyer[b] = NoBuyer \/ buyer[b] \in [email : Emails, phone : Phones]
    BY <2>1 DEF TypeInv, Profiles
  <2>5. \A c \in Customers : customer[c] = NoCustomer \/ customer[c] \in [number : Phones, buyer : Buyers \cup {"none"}]
    BY <2>1 DEF TypeInv, CustomerRecords
  <2>6. QED
    BY <2>1, <2>2, <2>3, <2>4, <2>5 DEF TypeOK, TypeInv
<1>2. QED
  BY <1>1, Invariant, PTL

\* A code or its token lets at most one login, registration or reset through,
\* and is used once it has.
THEOREM CodesSpentOnce == Spec => []SpentOnce
<1>1. Inv => SpentOnce
  BY DEF Inv, CodeInv, CodeOK, SpentOnce
<1>2. QED
  BY <1>1, Invariant, PTL

\* A reset leaves no code alive that was there for the account.
THEOREM ResetsRetireCodes == Spec => []OutdatedAreDead
<1>1. Inv => OutdatedAreDead
  BY DEF Inv, TypeInv, CodeInv, CodeOK, OutdatedAreDead
<1>2. QED
  BY <1>1, Invariant, PTL

\* A record that a checkout or a change of number linked carries its buyer's
\* number, whatever overlaps.
THEOREM RecordsFollowNumbers == Spec => []RecordMatches
<1>1. Inv => RecordMatches
  BY DEF Inv, RecordInv
<1>2. QED
  BY <1>1, Invariant, PTL
===============================================================================
