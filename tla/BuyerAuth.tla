------------------------------ MODULE BuyerAuth ------------------------------
(***************************************************************************)
(* One-time codes and what they authorise, and the link between a buyer's   *)
(* account and the customer record of its WhatsApp number:                  *)
(* buyer_auth_service and the customer look-ups of order_service. Requests  *)
(* are concurrent transactions (PostgreSQL, READ COMMITTED); each step is   *)
(* what happens between two points where another one can come in.           *)
(*                                                                         *)
(* Left out: names and passwords themselves, the development mode that      *)
(* verifies numbers without WhatsApp, formats of numbers, login with a      *)
(* password (its lock-out is in Accounts).                                  *)
(*                                                                         *)
(* A definition whose name ends in _Faulty... is a deliberately wrong       *)
(* variant of the one that follows it; no action uses it.                   *)
(***************************************************************************)
EXTENDS Integers, FiniteSets

CONSTANTS Codes,       \* ids of otp_codes rows
          Txs,         \* requests under way at once
          Buyers, Customers,   \* ids of rows
          Emails, Phones,
          Sellers,     \* e-mail addresses of internal users
          MaxVerify,   \* _MAX_OTP_VERIFY_ATTEMPTS
          MaxRequests  \* bound: requests made

ASSUME BuyerAuthAssumption ==
    /\ Codes \subseteq Nat \ {0} /\ IsFiniteSet(Codes)
    /\ Sellers \subseteq Emails /\ Emails \cap Phones = {}
    /\ "none" \notin Buyers \cup Emails \cup Phones
    /\ MaxVerify \in Nat \ {0} /\ MaxRequests \in Nat

Purposes == {"login", "buyer_reset_password", "reset_password"}
ResetPurposes == {"buyer_reset_password", "reset_password"}

NoCode == [purpose |-> "none"]
NoBuyer == [email |-> "none", phone |-> "none"]
NoCustomer == [number |-> "none", buyer |-> "none"]
Idle == [pc |-> "idle"]

VARIABLES code,      \* otp_codes
          buyer,     \* buyers
          customer,  \* customers
          tx,        \* the requests under way
          requests,  \* requests made so far: the clock of created_at
          uses,      \* history: operations committed on the strength of a code
          outdated,  \* history: codes there were when their account was last reset
          unlocked   \* history: customers a charge linked, which locks no account

vars == <<code, buyer, customer, tx, requests, uses, outdated, unlocked>>

Init ==
    /\ code = [o \in Codes |-> NoCode]
    /\ \E b \in Buyers, e \in Emails, p \in Phones :
          buyer = [a \in Buyers |-> IF a = b THEN [email |-> e, phone |-> p] ELSE NoBuyer]
    /\ customer = [c \in Customers |-> NoCustomer]
    /\ tx = [t \in Txs |-> Idle]
    /\ requests = 0
    /\ uses = [o \in Codes |-> 0]
    /\ outdated = {} /\ unlocked = {}

-------------------------------------------------------------------------------
(* Rows, locks, and the beginning and end of a request.                     *)

CodeRow(o) == [table |-> "otp_codes", id |-> o]
BuyerRow(b) == [table |-> "buyers", id |-> b]
CustomerRow(c) == [table |-> "customers", id |-> c]

Free(row) == \A t \in Txs : tx[t].pc # "idle" => row \notin tx[t].held

Request == requests < MaxRequests /\ requests' = requests + 1

\* A request at step pc, with its locks, the code and the buyer it is about, and
\* what else it read or will write.
At(pc, held, o, b, value) ==
    [pc |-> pc, held |-> held, code |-> o, buyer |-> b, value |-> value]
Goes(t, r) == tx' = [tx EXCEPT ![t] = r]
Ends(t) == Goes(t, Idle)

Accounts == {b \in Buyers : buyer[b] # NoBuyer}
Known == {c \in Customers : customer[c] # NoCustomer}

\* Rollback: by an error, a broken deadlock or a crash of the server.
Abort(t) ==
    /\ tx[t].pc # "idle" /\ Ends(t)
    /\ UNCHANGED <<code, buyer, customer, requests, uses, outdated, unlocked>>

-------------------------------------------------------------------------------
(* Codes are issued.                                                        *)

Fresh(purpose, target) ==
    [purpose |-> purpose, target |-> target, used |-> FALSE, verified |-> FALSE, attempts |-> 0,
     live |-> TRUE, created |-> requests]

Unissued(o) ==
    /\ code[o] = NoCode
    /\ \A t \in Txs : tx[t].pc = "issuing" => tx[t].code # o
    /\ \A n \in Codes : n < o => code[n] # NoCode \/ \E t \in Txs : tx[t].pc = "issuing" /\ tx[t].code = n

\* start_wa_verification, and request_seller_forgot_password through send_otp.
Issue(o, purpose, target) ==
    /\ Request
    /\ Unissued(o)
    /\ code' = [code EXCEPT ![o] = Fresh(purpose, target)]
    /\ UNCHANGED <<buyer, customer, tx, uses, outdated, unlocked>>

StartWa(o, p) == Issue(o, "login", p)
RequestSellerReset(o, e) == e \in Sellers /\ Issue(o, "reset_password", e)

Active(e) ==
    {o \in Codes : code[o] # NoCode /\ code[o].target = e
                   /\ code[o].purpose = "buyer_reset_password" /\ ~code[o].used}

\* request_buyer_forgot_password: the older codes are marked, unlocked until
\* then; the new one is there when the request commits, dated by its beginning.
RequestReset(t, o, e) ==
    /\ Request
    /\ tx[t] = Idle /\ Unissued(o)
    /\ \E b \in Accounts : buyer[b].email = e
    /\ \A n \in Active(e) : Free(CodeRow(n))
    /\ Goes(t, At("issuing", {CodeRow(n) : n \in Active(e)}, o, "none",
                  [replaces |-> Active(e), fresh |-> Fresh("buyer_reset_password", e)]))
    /\ UNCHANGED <<code, buyer, customer, uses, outdated, unlocked>>

CommitReset(t) ==
    /\ tx[t].pc = "issuing"
    /\ code' = [o \in Codes |->
            IF o = tx[t].code THEN tx[t].value.fresh
            ELSE IF o \in tx[t].value.replaces THEN [code[o] EXCEPT !.used = TRUE]
            ELSE code[o]]
    /\ Ends(t)
    /\ UNCHANGED <<buyer, customer, requests, uses, outdated, unlocked>>

\* expires_at passes.
Expire(o) ==
    /\ code[o] # NoCode /\ code[o].live
    /\ code' = [code EXCEPT ![o].live = FALSE]
    /\ UNCHANGED <<buyer, customer, tx, requests, uses, outdated, unlocked>>

-------------------------------------------------------------------------------
(* Codes are verified.                                                      *)

\* verify_otp, under the row's lock. The last wrong attempt is committed before
\* the code is marked used; the next request does that if this one never does.
Tried_FaultyOffByOne(o) == code[o].attempts > MaxVerify
Tried(o) == code[o].attempts >= MaxVerify

VerifyOtp(t, o, right) ==
    /\ Request
    /\ tx[t] = Idle
    /\ code[o] # NoCode /\ code[o].purpose = "reset_password" /\ ~code[o].used /\ Free(CodeRow(o))
    /\ \/ /\ Tried(o)
          /\ code' = [code EXCEPT ![o].used = TRUE] /\ UNCHANGED tx
       \/ /\ ~Tried(o) /\ code[o].live /\ right
          /\ code' = [code EXCEPT ![o].verified = TRUE] /\ UNCHANGED tx
       \/ /\ ~Tried(o) /\ code[o].live /\ ~right
          /\ code' = [code EXCEPT ![o].attempts = @ + 1]
          /\ IF code[o].attempts + 1 >= MaxVerify
             THEN Goes(t, At("exhausting", {}, o, "none", "none"))
             ELSE UNCHANGED tx
    /\ UNCHANGED <<buyer, customer, uses, outdated, unlocked>>

Exhaust(t) ==
    /\ tx[t].pc = "exhausting" /\ Free(CodeRow(tx[t].code))
    /\ code' = [code EXCEPT ![tx[t].code].used = TRUE]
    /\ Ends(t)
    /\ UNCHANGED <<buyer, customer, requests, uses, outdated, unlocked>>

\* confirm_wa_verification reads without a lock and writes what follows from it.
ReadNonce(t, o, sender) ==
    /\ Request
    /\ tx[t] = Idle
    /\ code[o] # NoCode /\ code[o].purpose = "login"
    /\ ~code[o].used /\ ~code[o].verified /\ code[o].live
    /\ Goes(t, At("confirming", {}, o, "none",
                  [matches |-> sender = code[o].target, attempts |-> code[o].attempts]))
    /\ UNCHANGED <<code, buyer, customer, uses, outdated, unlocked>>

ConfirmWa(t) ==
    LET o == tx[t].code
    IN /\ tx[t].pc = "confirming" /\ Free(CodeRow(o))
       /\ code' = IF tx[t].value.matches
                  THEN [code EXCEPT ![o].verified = TRUE]
                  ELSE [code EXCEPT ![o].attempts = tx[t].value.attempts + 1]
       /\ Ends(t)
       /\ UNCHANGED <<buyer, customer, requests, uses, outdated, unlocked>>

-------------------------------------------------------------------------------
(* Codes are spent, by whoever shows the token of the last verification.    *)

\* SELECT ... FOR UPDATE waits for the row.
Lockable_FaultyNoWait(o) == TRUE
Lockable(o) == Free(CodeRow(o))

Spendable(o, purposes) ==
    /\ code[o] # NoCode /\ code[o].purpose \in purposes
    /\ Lockable(o)
    /\ code[o].verified /\ ~code[o].used /\ code[o].live

\* validate_and_consume_db_verify_token, after the checks for duplicates.
Register(t, b, e, p, o) ==
    /\ Request
    /\ tx[t] = Idle
    /\ buyer[b] = NoBuyer /\ \A a \in Accounts : buyer[a].email # e /\ buyer[a].phone # p
    /\ Spendable(o, {"login"}) /\ code[o].target = p
    /\ Goes(t, At("registering", {CodeRow(o)}, o, b, [email |-> e, phone |-> p]))
    /\ UNCHANGED <<code, buyer, customer, uses, outdated, unlocked>>

Spent(o) == code' = [code EXCEPT ![o].used = TRUE] /\ uses' = [uses EXCEPT ![o] = @ + 1]

\* The unique columns of buyers decide between two that register at once; the
\* loser's token is not spent.
CommitRegister(t) ==
    LET b == tx[t].buyer
    IN /\ tx[t].pc = "registering"
       /\ IF buyer[b] = NoBuyer
             /\ \A a \in Accounts : buyer[a].email # tx[t].value.email /\ buyer[a].phone # tx[t].value.phone
          THEN /\ buyer' = [buyer EXCEPT ![b] = tx[t].value]
               /\ Spent(tx[t].code)
          ELSE UNCHANGED <<buyer, code, uses>>
       /\ Ends(t)
       /\ UNCHANGED <<customer, requests, outdated, unlocked>>

\* login_buyer_otp
Login(t, b, o) ==
    /\ Request
    /\ tx[t] = Idle /\ b \in Accounts
    /\ Spendable(o, {"login"}) /\ code[o].target = buyer[b].phone
    /\ Goes(t, At("spending", {CodeRow(o)}, o, b, "none"))
    /\ UNCHANGED <<code, buyer, customer, uses, outdated, unlocked>>

CommitLogin(t) ==
    /\ tx[t].pc = "spending"
    /\ Spent(tx[t].code)
    /\ Ends(t)
    /\ UNCHANGED <<buyer, customer, requests, outdated, unlocked>>

\* reset_buyer_password and reset_seller_password: the account is looked up
\* before the token is spent. The purposes each accepts, it also retires.
ResetWithToken(t, o, purposes) ==
    /\ Request
    /\ tx[t] = Idle
    /\ Spendable(o, purposes)
    /\ IF purposes = ResetPurposes
       THEN \E b \in Accounts : code[o].target \in {buyer[b].email, buyer[b].phone}
       ELSE code[o].target \in Sellers
    /\ Goes(t, At("resetting", {CodeRow(o)}, o, "none", purposes))
    /\ UNCHANGED <<code, buyer, customer, uses, outdated, unlocked>>

\* _get_valid_buyer_reset_otp: all active codes are locked, the newest counts.
Newest(e) ==
    CHOOSE o \in Active(e) : \A n \in Active(e) :
        code[n].created < code[o].created \/ (code[n].created = code[o].created /\ n <= o)

Invalidated(S) == code' = [o \in Codes |-> IF o \in S THEN [code[o] EXCEPT !.used = TRUE] ELSE code[o]]

\* Expired, tried too often, or wrong: verify_buyer_reset_otp and
\* reset_buyer_password_email alike.
RefuseCode(e) ==
    /\ Request
    /\ Active(e) # {} /\ \A n \in Active(e) : Free(CodeRow(n))
    /\ LET o == Newest(e)
       IN IF Tried(o) \/ ~code[o].live \/ code[o].attempts + 1 >= MaxVerify
          THEN code' = [n \in Codes |->
                  IF n \notin Active(e) THEN code[n]
                  ELSE [code[n] EXCEPT !.used = TRUE,
                            !.attempts = IF n = o /\ ~Tried(o) /\ code[o].live THEN @ + 1 ELSE @]]
          ELSE code' = [code EXCEPT ![o].attempts = @ + 1]
    /\ UNCHANGED <<buyer, customer, tx, uses, outdated, unlocked>>

ResetWithCode(t, e) ==
    /\ Request
    /\ tx[t] = Idle
    /\ \E b \in Accounts : buyer[b].email = e
    /\ Active(e) # {} /\ \A n \in Active(e) : Lockable(n)
    /\ ~Tried(Newest(e)) /\ code[Newest(e)].live
    /\ Goes(t, At("resetting", {CodeRow(n) : n \in Active(e)}, Newest(e), "none",
                  {"buyer_reset_password"}))
    /\ UNCHANGED <<code, buyer, customer, uses, outdated, unlocked>>

SameAccount(o, purposes) ==
    {n \in Codes : code[n] # NoCode /\ code[n].target = code[o].target /\ code[n].purpose \in purposes}

Retired_FaultyOwn(o, purposes) == {o}
Retired(o, purposes) == SameAccount(o, purposes)

\* The code is spent, the others of the account are retired and the password is
\* set, in one commit; the UPDATE waits for rows that others hold.
CommitPassword(t) ==
    LET o == tx[t].code
    IN /\ tx[t].pc = "resetting"
       /\ \A n \in Retired(o, tx[t].value) : Free(CodeRow(n)) \/ CodeRow(n) \in tx[t].held
       /\ Invalidated(Retired(o, tx[t].value) \cup {o})
       /\ uses' = [uses EXCEPT ![o] = @ + 1]
       /\ outdated' = outdated \cup SameAccount(o, tx[t].value)
       /\ Ends(t)
       /\ UNCHANGED <<buyer, customer, requests, unlocked>>


-------------------------------------------------------------------------------
(* The customer record of a buyer's number carries the buyer's orders.      *)

LinkedTo(b) == {c \in Known : customer[c].buyer = b}
Numbered(p) == {c \in Known : customer[c].number = p}
Record(b) == IF LinkedTo(b) # {} THEN LinkedTo(b) ELSE Numbered(buyer[b].phone)
Unclaimed(S, b) == \A c \in S : customer[c].buyer \in {"none", b}

\* The chatbot's and a reviewer's customer: found by number or created.
Upsert(c, p) ==
    /\ Request
    /\ customer[c] = NoCustomer /\ Numbered(p) = {}
    /\ customer' = [customer EXCEPT ![c] = [number |-> p, buyer |-> "none"]]
    /\ UNCHANGED <<code, buyer, tx, uses, outdated, unlocked>>

\* change_buyer_phone up to its flush. A record found by number is not locked.
StartPhoneChange(t, b, p) ==
    /\ Request
    /\ tx[t] = Idle /\ b \in Accounts /\ Free(BuyerRow(b))
    /\ \A a \in Accounts \ {b} : buyer[a].phone # p
    /\ \A c \in LinkedTo(b) : Free(CustomerRow(c))
    /\ Record(b) # {} => Numbered(p) \subseteq Record(b) /\ Unclaimed(Record(b), b)
    /\ Goes(t, At("moving", {BuyerRow(b)} \cup {CustomerRow(c) : c \in LinkedTo(b)}, 0, b,
                  [record |-> Record(b), phone |-> p]))
    /\ UNCHANGED <<code, buyer, customer, uses, outdated, unlocked>>

\* The row the flush writes; the unique columns of both tables are checked.
Moved_FaultyLinkOnly(c, b, p) == [customer[c] EXCEPT !.buyer = b]
Moved(c, b, p) == [number |-> p, buyer |-> b]

CommitPhone(t) ==
    LET b == tx[t].buyer
        p == tx[t].value.phone
        record == tx[t].value.record
    IN /\ tx[t].pc = "moving"
       /\ \A c \in record : Free(CustomerRow(c)) \/ CustomerRow(c) \in tx[t].held
       /\ IF /\ \A a \in Accounts \ {b} : buyer[a].phone # p
             /\ record # {} => \A c \in Known \ record : customer[c].number # p /\ customer[c].buyer # b
          THEN /\ buyer' = [buyer EXCEPT ![b].phone = p]
               /\ customer' = [c \in Customers |-> IF c \in record THEN Moved(c, b, p) ELSE customer[c]]
          ELSE UNCHANGED <<buyer, customer>>
       /\ Ends(t)
       /\ UNCHANGED <<code, requests, uses, outdated, unlocked>>

\* create_buyer_order: get_or_create_customer_for_buyer under the buyer's row lock.
StartCheckout(t, b) ==
    /\ Request
    /\ tx[t] = Idle /\ b \in Accounts /\ Free(BuyerRow(b))
    /\ LinkedTo(b) = {} /\ Unclaimed(Record(b), b)
    /\ Goes(t, At("linking", {BuyerRow(b)}, 0, b, [record |-> Record(b), phone |-> buyer[b].phone]))
    /\ UNCHANGED <<code, buyer, customer, uses, outdated, unlocked>>

\* create_payment_charge by a buyer: the account is read, without a lock, when
\* the token is checked; the order it names, so its customer too, is older.
StartCharge(t, b, c) ==
    /\ Request
    /\ tx[t] = Idle /\ b \in Accounts /\ c \in Known
    /\ Goes(t, At("charging", {}, 0, b, [record |-> {c}, phone |-> buyer[b].phone]))
    /\ UNCHANGED <<code, buyer, customer, uses, outdated, unlocked>>

\* get_customer_for_buyer: a linked record needs nothing; the order's customer
\* must be the one that is found, else the request ends with 404.
FindRecord(t) ==
    LET b == tx[t].buyer
        found == Numbered(tx[t].value.phone)
    IN /\ tx[t].pc = "charging"
       /\ IF LinkedTo(b) = {} /\ found = tx[t].value.record /\ Unclaimed(found, b)
          THEN Goes(t, [tx[t] EXCEPT !.pc = "linking"])
          ELSE Ends(t)
       /\ UNCHANGED <<code, buyer, customer, requests, uses, outdated, unlocked>>

\* A charge holds no lock on the buyer, and neither row is read again.
Link(t) ==
    LET b == tx[t].buyer
        record == tx[t].value.record
    IN /\ tx[t].pc = "linking" /\ record # {}
       /\ \A c \in record : Free(CustomerRow(c))
       /\ IF LinkedTo(b) \subseteq record
          THEN /\ customer' = [c \in Customers |->
                      IF c \in record THEN [customer[c] EXCEPT !.buyer = b] ELSE customer[c]]
               /\ unlocked' = IF BuyerRow(b) \in tx[t].held THEN unlocked ELSE unlocked \cup record
          ELSE UNCHANGED <<customer, unlocked>>
       /\ Ends(t)
       /\ UNCHANGED <<code, buyer, requests, uses, outdated>>

CreateRecord(t, c) ==
    LET b == tx[t].buyer
        p == tx[t].value.phone
    IN /\ tx[t].pc = "linking" /\ tx[t].value.record = {}
       /\ customer[c] = NoCustomer
       /\ IF Numbered(p) = {} /\ LinkedTo(b) = {}
          THEN customer' = [customer EXCEPT ![c] = [number |-> p, buyer |-> b]]
          ELSE UNCHANGED customer
       /\ Ends(t)
       /\ UNCHANGED <<code, buyer, requests, uses, outdated, unlocked>>

-------------------------------------------------------------------------------
CodeRequests ==
    \/ \E o \in Codes :
          \/ \E p \in Phones : StartWa(o, p)
          \/ \E e \in Emails : RequestSellerReset(o, e)
          \/ Expire(o)
          \/ \E t \in Txs :
                \/ \E e \in Emails : RequestReset(t, o, e)
                \/ \E right \in BOOLEAN : VerifyOtp(t, o, right)
                \/ \E sender \in Phones : ReadNonce(t, o, sender)
                \/ \E b \in Buyers : Login(t, b, o)
                \/ \E b \in Buyers, e \in Emails, p \in Phones : Register(t, b, e, p, o)
                \/ ResetWithToken(t, o, ResetPurposes) \/ ResetWithToken(t, o, {"reset_password"})
    \/ \E e \in Emails : RefuseCode(e) \/ \E t \in Txs : ResetWithCode(t, e)

RecordRequests ==
    \/ \E c \in Customers, p \in Phones : Upsert(c, p)
    \/ \E t \in Txs, b \in Buyers :
          \/ \E p \in Phones : StartPhoneChange(t, b, p)
          \/ StartCheckout(t, b)
          \/ \E c \in Customers : StartCharge(t, b, c)

Steps(t) ==
    \/ CommitReset(t) \/ Exhaust(t) \/ ConfirmWa(t) \/ CommitRegister(t) \/ CommitLogin(t)
    \/ CommitPassword(t) \/ CommitPhone(t) \/ FindRecord(t) \/ Link(t)
    \/ \E c \in Customers : CreateRecord(t, c)
    \/ Abort(t)

Next == CodeRequests \/ RecordRequests \/ \E t \in Txs : Steps(t)

Spec == Init /\ [][Next]_vars

-------------------------------------------------------------------------------
CodeRecords ==
    [purpose : Purposes, target : Emails \cup Phones, used : BOOLEAN, verified : BOOLEAN, attempts : Nat, live : BOOLEAN, created : Nat]

\* Types, and the limit of otp_codes' counter: a code that can reset a password
\* is never tried more than _MAX_OTP_VERIFY_ATTEMPTS times, however its requests
\* interleave (a WhatsApp nonce has no such limit).
TypeOK ==
    /\ \A o \in Codes : code[o] = NoCode \/ code[o] \in CodeRecords
    /\ \A o \in Codes : code[o] # NoCode /\ code[o].purpose \in ResetPurposes => code[o].attempts <= MaxVerify
    /\ \A b \in Buyers : buyer[b] = NoBuyer \/ buyer[b] \in [email : Emails, phone : Phones]
    /\ \A c \in Customers :
          customer[c] = NoCustomer \/ customer[c] \in [number : Phones, buyer : Buyers \cup {"none"}]
    /\ requests \in 0..MaxRequests /\ unlocked \subseteq Customers

\* A code or its token lets at most one login, registration or password reset
\* through, and is used once it has: validate_and_consume_db_verify_token, the
\* resets, and the unique columns under a registration.
SpentOnce == \A o \in Codes : uses[o] <= 1 /\ (uses[o] = 1 => code[o].used)

\* A password reset leaves no other code that was there for the account: a
\* second mail, or one in somebody else's hands, cannot change it back.
OutdatedAreDead == \A o \in outdated : code[o].used

\* An account's orders follow its number: the record that a checkout or a change
\* of number linked to a buyer carries the number the buyer has, whatever
\* registrations, checkouts, changes, charges and chatbot messages overlap. A
\* record linked by a charge may not: the charge locks no account.
RecordMatches ==
    \A c \in Known \ unlocked :
        customer[c].buyer # "none" => customer[c].number = buyer[customer[c].buyer].phone
=============================================================================
