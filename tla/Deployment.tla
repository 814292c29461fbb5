----------------------------- MODULE Deployment -----------------------------
(***************************************************************************)
(* How a database of the bakery comes to its schema: the bootstrap of an   *)
(* empty database, the preflight that adopts one without a revision, the   *)
(* read-only audit of the known drift, the chain of Alembic revisions, and *)
(* the seeding of the first rows by the API.  Several operators and API    *)
(* processes run these commands at once, and any of them can die between   *)
(* two steps.                                                              *)
(*                                                                         *)
(* A schema object is a table, a group of columns, an index or a row that  *)
(* the commands tell apart; a trouble is a fact about the rows or about    *)
(* the shape of an object that makes a command refuse.                     *)
(***************************************************************************)
EXTENDS Naturals, Sequences

CONSTANTS
    Procs,      \* operators at a shell, and API processes
    Databases   \* the databases the commands may find:
                \* records [objects, bad, version, rows]

VARIABLES
    objects,    \* the schema objects there are
    bad,        \* the troubles the data has
    version,    \* position of the recorded revision in Chain, 0 for none
    rows,       \* the seeded rows: "roles", "owner"
    lock,       \* holder of the bootstrap's advisory lock
    pc, mark,   \* what each process does, and the revision it goes from or to
    draft       \* rows written by a transaction not yet committed

vars == <<objects, bad, version, rows, lock, pc, mark, draft>>

Nobody == "nobody"

-----------------------------------------------------------------------------
(* What the models and the start-up migrations create.                     *)

OrderTables == {"core", "fulfillment", "expired_label", "snapshots",
                "order_accessories", "order_lifecycle"}
PaymentTables == {"refund_enum", "refund_transactions", "pg_order_id",
                  "long_transaction_id"}
CatalogueTables == {"product_images", "product_en"}
ReviewTables == {"review_images"}
FaqTables == {"faq_en"}
StockTables == {"stock_movements"}
PurchaseTables == {"purchase_cancel"}
ExpenseTables == {"expense_workflow", "expense_audits", "expense_supplier"}
CustomerTables == {"buyer_link"}
OutboxTables == {"email_outbox", "email_outbox_audit", "outbox_lease"}
SettingsTables == {"sender_settings"}
StoreTables == {"store_customization"}

Models == UNION {OrderTables, PaymentTables, CatalogueTables, ReviewTables,
                 FaqTables, StockTables, PurchaseTables, ExpenseTables,
                 CustomerTables, OutboxTables, SettingsTables, StoreTables}

EnsuredPurchase == {"purchase_cancel"}
EnsuredStockName == {"stock_name_index"}
EnsuredOrder == {"order_lifecycle", "snapshots"}
EnsuredCustomer == {"buyer_link"}
EnsuredFulfillment == {"fulfillment"}
EnsuredAccessories == {"order_accessories"}
EnsuredPayment == {"pg_order_id"}
EnsuredTuning == {"pg_trgm", "tuning"}
EnsuredProductImages == {"product_images"}
EnsuredReviewImages == {"review_images"}
EnsuredOutbox == {"outbox_lease"}

AutoMigrated == UNION {EnsuredPurchase, EnsuredStockName, EnsuredOrder,
                       EnsuredCustomer, EnsuredFulfillment,
                       EnsuredAccessories, EnsuredPayment, EnsuredTuning,
                       EnsuredProductImages, EnsuredReviewImages,
                       EnsuredOutbox}

-----------------------------------------------------------------------------
(* The revisions.  One adds objects unconditionally (an object of that     *)
(* name stops it), needs others, ensures objects it creates only when they *)
(* are missing, refuses some troubles and settles others.                  *)

Revision == [adds |-> {}, needs |-> {"core"}, ensures |-> {},
             refuses |-> {}, settles |-> {}]

R20260919_01 == [Revision EXCEPT !.ensures = {"pg_trgm", "tuning"}]
R20260925_01 == [Revision EXCEPT !.adds = {"product_images"}]
R20260925_02 == [Revision EXCEPT !.adds = {"review_images"}]
R20261001_01 == [Revision EXCEPT !.adds = {"fulfillment"},
                                 !.ensures = {"expired_label"}]
R20261005_01 == [Revision EXCEPT
                    !.adds = {"stock_movements", "stock_name_index"},
                    !.refuses = {"duplicate_names"},
                    !.settles = {"unledgered"}]
R20261008_01 == [Revision EXCEPT !.adds = {"refund_transactions"},
                                 !.ensures = {"refund_enum"},
                                 !.settles = {"unbacked_refunds"}]
R20261013_01 == [Revision EXCEPT !.adds = {"email_outbox"}]
R20261014_01 == [Revision EXCEPT !.adds = {"email_outbox_audit"},
                                 !.needs = {"core", "email_outbox"}]
R20261014_02 == [Revision EXCEPT !.adds = {"outbox_lease"},
                                 !.needs = {"core", "email_outbox"}]
R20261014_03 == [Revision EXCEPT !.adds = {"pg_order_id"}]
R20261015_01 == [Revision EXCEPT !.adds = {"snapshots", "order_accessories"}]
R20261016_01 == [Revision EXCEPT !.ensures = {"long_transaction_id"}]
R20261016_02 == [Revision EXCEPT !.ensures = {"buyer_link"}]
R20261017_01 == [Revision EXCEPT !.ensures = OutboxTables]
R20261017_02 == [Revision EXCEPT !.settles = {"stale_sold_counts"}]
R20261017_03 == [Revision EXCEPT !.adds = {"purchase_cancel"}]
R20261019_01 == [Revision EXCEPT
                    !.ensures = {"expense_workflow", "expense_audits"}]
R20261026_01 == [Revision EXCEPT !.adds = {"order_lifecycle"}]
R20261026_02 == [Revision EXCEPT !.adds = {"sender_settings"}]

ExpensesRepaired == {"expense_workflow"}
AuditsRepaired == {"expense_audits"}
LifecycleRepaired == {"order_lifecycle"}
SenderRepaired == {"sender_settings"}
R20261027_01 == [Revision EXCEPT
                    !.ensures = UNION {ExpensesRepaired, AuditsRepaired,
                                       LifecycleRepaired, SenderRepaired},
                    !.refuses = {"unrepairable_rows"}]

R20261030_01 == [Revision EXCEPT
                    !.adds = {"store_customization", "homepage_row"}]
R20261030_02 == [Revision EXCEPT !.ensures = {"expired_label", "fulfillment"}]
R20261031_01 == [Revision EXCEPT !.ensures = {"product_en"}]
R20261106_01 == [Revision EXCEPT !.ensures = {"faq_en"}]
R20261106_02 == [Revision EXCEPT !.ensures = {"expense_supplier"},
                                 !.refuses = {"orphan_suppliers"}]
R20261107_01 == [Revision EXCEPT !.refuses = {"ambiguous_categories"}]

Chain == <<R20260919_01, R20260925_01, R20260925_02, R20261001_01,
           R20261005_01, R20261008_01, R20261013_01, R20261014_01,
           R20261014_02, R20261014_03, R20261015_01, R20261016_01,
           R20261016_02, R20261017_01, R20261017_02, R20261017_03,
           R20261019_01, R20261026_01, R20261026_02, R20261027_01,
           R20261030_01, R20261030_02, R20261031_01, R20261106_01,
           R20261106_02, R20261107_01>>

Newest == Len(Chain)
BeforeRefunds == 5       \* 20261005_01
AfterRefunds == 6        \* 20261008_01
Baselines == {BeforeRefunds, AfterRefunds}
LabelRevision == 22      \* 20261030_02, which commits halfway

Ensured(from, to) == UNION {Chain[i].ensures : i \in from .. to}
Made(from, to) == (UNION {Chain[i].adds : i \in from .. to}) \cup Ensured(from, to)
Settled(from, to) == UNION {Chain[i].settles : i \in from .. to}

\* The revisions after `from` up to `to` run, each on what those before it left.
Passes(from, to) ==
    \A i \in from + 1 .. to :
        LET there == objects \cup Made(from + 1, i - 1)
        IN  /\ Chain[i].needs \subseteq there
            /\ Chain[i].adds \cap there = {}
            /\ Chain[i].refuses \cap bad = {}

-----------------------------------------------------------------------------
(* What a recorded revision v vouches for: what the revisions up to it made, *)
(* but for what a later one repairs and for the indexes and the homepage     *)
(* row that no adoption verifies.                                            *)
Vouched(v) ==
    Made(1, v) \ (Ensured(v + 1, Newest) \cup {"tuning", "homepage_row"})

Fits(v, there, troubles) ==
    /\ Vouched(v) \subseteq there
    /\ Settled(1, v) \cap troubles = {}
    /\ "stray_enums" \notin there

\* Enum types are left alone only by a schema dropped around them, an empty
\* database has no rows, and a record that is there at the start is true.
ASSUME DatabasesAssumption ==
    \A d \in Databases :
        /\ d.version \in 0 .. Newest
        /\ d.version > 0 => Fits(d.version, d.objects, d.bad)
        /\ "stray_enums" \in d.objects => "core" \notin d.objects
        /\ d.objects = {} => d.bad = {}
        /\ "roles" \in d.rows => "owner" \in d.rows

Init ==
    /\ \E d \in Databases :
          /\ objects = d.objects
          /\ bad = d.bad
          /\ version = d.version
          /\ rows = d.rows
    /\ lock = Nobody
    /\ pc = [p \in Procs |-> "idle"]
    /\ mark = [p \in Procs |-> 0]
    /\ draft = [p \in Procs |-> {}]

Goes(p, from, to) == pc[p] = from /\ pc' = [pc EXCEPT ![p] = to]

-----------------------------------------------------------------------------
(* Bootstrap.                                                              *)

StartBootstrap(p) ==
    /\ lock = Nobody
    /\ Goes(p, "idle", "locked")
    /\ lock' = p
    /\ UNCHANGED <<objects, bad, version, rows, mark, draft>>

Empty_FaultyTablesOnly == objects \ {"stray_enums"} = {} /\ version = 0

\* No table, alembic_version included, and no enum type.
Empty == objects = {} /\ version = 0

RefuseBootstrap(p) ==
    /\ ~Empty
    /\ Goes(p, "locked", "idle")
    /\ lock' = Nobody
    /\ UNCHANGED <<objects, bad, version, rows, mark, draft>>

CreateSchema(p) ==
    /\ Empty
    /\ Goes(p, "locked", "created")
    /\ objects' = objects \cup Models \cup AutoMigrated
    /\ lock' = Nobody
    /\ UNCHANGED <<bad, version, rows, mark, draft>>

\* A command of its own, in a transaction of its own.
StampHead(p) ==
    /\ Goes(p, "created", "idle")
    /\ version' = Newest
    /\ UNCHANGED <<objects, bad, rows, lock, mark, draft>>

-----------------------------------------------------------------------------
(* Preflight and audit.                                                    *)

RequiredTables == {"core", "product_images", "review_images", "stock_movements"}

BaselineErrors ==
    {e \in {"versioned", "tables", "columns", "extension", "name_index",
            "duplicate_names", "ledger", "duplicate_references"} :
        CASE e = "versioned" -> version > 0
          [] e = "tables" -> ~(RequiredTables \subseteq objects)
          [] e = "columns" -> "core" \in objects /\ "fulfillment" \notin objects
          [] e = "extension" -> "pg_trgm" \notin objects
          [] e = "name_index" ->
                "core" \in objects /\ "stock_name_index" \notin objects
          [] e = "duplicate_names" -> "duplicate_names" \in bad
          [] e = "ledger" ->
                "stock_movements" \in objects /\ "unledgered" \in bad
          [] e = "duplicate_references" ->
                "pg_order_id" \in objects /\ "duplicate_references" \in bad}

RefundObjects == {"refund_transactions", "refund_enum"}

NoRefundErrors == IF RefundObjects \cap objects # {} THEN {"refunds"} ELSE {}

LaterTables == {"email_outbox", "email_outbox_audit", "order_accessories"}

LaterErrors_FaultyOutboxOnly ==
    IF {"email_outbox", "email_outbox_audit"} \cap objects # {}
      THEN {"later_tables"} ELSE {}

LaterErrors ==
    (IF LaterTables \cap objects # {} THEN {"later_tables"} ELSE {})
      \cup (IF "pg_order_id" \in objects THEN {"later_payment"} ELSE {})
      \cup (IF "snapshots" \in objects THEN {"later_snapshots"} ELSE {})

RefundErrors ==
    IF ~(RefundObjects \subseteq objects) THEN {"no_refunds"}
    ELSE {"refund_shape", "unbacked_refunds"} \cap bad

\* The errors that keep a database from being adopted at baseline t.
PreflightErrors(t) ==
    BaselineErrors \cup
        (IF t = BeforeRefunds THEN NoRefundErrors
                              ELSE LaterErrors \cup RefundErrors)

\* The checks read the database; the stamp is another command, later.
Preflight(p, t) ==
    /\ PreflightErrors(t) = {}
    /\ Goes(p, "idle", "checked")
    /\ mark' = [mark EXCEPT ![p] = t]
    /\ UNCHANGED <<objects, bad, version, rows, lock, draft>>

StampBaseline(p) ==
    /\ Goes(p, "checked", "idle")
    /\ version' = mark[p]
    /\ UNCHANGED <<objects, bad, rows, lock, mark, draft>>

AuditRefunds == RefundObjects \subseteq objects /\ "refund_shape" \notin bad
AuditAccessories ==
    "order_accessories" \in objects /\ "accessory_shape" \notin bad
AuditSnapshots == "snapshots" \in objects
AuditPayments ==
    /\ "long_transaction_id" \in objects
    /\ "pg_order_id" \notin objects
    /\ "payment_shape" \notin bad
AuditNoOutbox == OutboxTables \cap objects = {}
AuditRows ==
    {"undated_payments", "unbacked_refunds", "stray_refunds"} \cap bad = {}

\* The audit of the known drift: everything up to 20261008_01, and of the
\* later revisions 20261015_01 alone.
AuditClean ==
    /\ version = 0
    /\ RequiredTables \subseteq objects
    /\ AuditRefunds
    /\ AuditAccessories
    /\ AuditSnapshots
    /\ AuditPayments
    /\ AuditNoOutbox
    /\ AuditRows
    /\ PreflightErrors(AfterRefunds) \subseteq {"later_tables", "later_snapshots"}

-----------------------------------------------------------------------------
(* The upgrade.  Alembic reads the recorded revision, runs those after it  *)
(* in one transaction and moves the record from revision to revision; a    *)
(* record another upgrade has moved fails it.                              *)

BeginUpgrade(p) ==
    /\ Goes(p, "idle", "upgrading")
    /\ mark' = [mark EXCEPT ![p] = version]
    /\ UNCHANGED <<objects, bad, version, rows, lock, draft>>

\* The run of revisions from + 1 .. to commits.
Commits(p, from, to) ==
    /\ version = from
    /\ Passes(from, to)
    /\ objects' = objects \cup Made(from + 1, to)
    /\ bad' = bad \ Settled(from + 1, to)
    /\ mark' = [mark EXCEPT ![p] = to]

Recorded_FaultyInBlock(to) == to + 1

\* The revision the commit at the autocommit block records: the last finished one.
Recorded(to) == to

\* The autocommit block of 20261030_02 commits all the revisions before it.
UpgradeToBlock(p) ==
    /\ mark[p] < LabelRevision
    /\ Goes(p, "upgrading", "block")
    /\ Commits(p, mark[p], LabelRevision - 1)
    /\ version' = Recorded(LabelRevision - 1)
    /\ UNCHANGED <<rows, lock, draft>>

AddLabel(p) ==
    /\ Goes(p, "block", "labelled")
    /\ objects' = objects \cup {"expired_label"}
    /\ UNCHANGED <<bad, version, rows, lock, mark, draft>>

UpgradeToHead(p) ==
    /\ \/ Goes(p, "labelled", "idle")
       \/ mark[p] >= LabelRevision /\ Goes(p, "upgrading", "idle")
    /\ Commits(p, mark[p], Newest)
    /\ version' = Newest
    /\ UNCHANGED <<rows, lock, draft>>

Target(p) == IF pc[p] = "upgrading" /\ mark[p] < LabelRevision
               THEN LabelRevision - 1 ELSE Newest

FailUpgrade(p) ==
    /\ ~(version = mark[p] /\ Passes(mark[p], Target(p)))
    /\ Goes(p, "upgrading", "idle") \/ Goes(p, "labelled", "idle")
    /\ UNCHANGED <<objects, bad, version, rows, lock, mark, draft>>

-----------------------------------------------------------------------------
(* The API: it checks that the roles table exists, and seeds an empty one. *)

StartApi(p) ==
    /\ "core" \in objects
    /\ "roles" \notin rows
    /\ Goes(p, "idle", "seeding")
    /\ UNCHANGED <<objects, bad, version, rows, lock, mark, draft>>

\* Production without the Owner's credentials, or with unusable ones.
RefuseSeed(p) ==
    /\ Goes(p, "seeding", "idle")
    /\ UNCHANGED <<objects, bad, version, rows, lock, mark, draft>>

EnsureRoles_FaultyCommits(p) ==
    /\ \A q \in Procs \ {p} : "roles" \notin draft[q]
    /\ Goes(p, "seeding", "roles")
    /\ rows' = rows \cup {"roles"}
    /\ UNCHANGED <<objects, bad, version, lock, mark, draft>>

\* A level that another start has written and not committed is waited for.
EnsureRoles(p) ==
    /\ \A q \in Procs \ {p} : "roles" \notin draft[q]
    /\ Goes(p, "seeding", "roles")
    /\ draft' = [draft EXCEPT ![p] = @ \cup {"roles"}]
    /\ UNCHANGED <<objects, bad, version, rows, lock, mark>>

\* The level was found missing, then inserted by another start.
LoseRoles(p) ==
    /\ "roles" \in rows
    /\ Goes(p, "seeding", "idle")
    /\ UNCHANGED <<objects, bad, version, rows, lock, mark, draft>>

EnsureOwner(p) ==
    /\ Goes(p, "roles", "owner")
    /\ draft' = [draft EXCEPT ![p] = @ \cup {"owner"}]
    /\ UNCHANGED <<objects, bad, version, rows, lock, mark>>

CommitSeed(p) ==
    /\ Goes(p, "owner", "idle")
    /\ rows' = rows \cup draft[p]
    /\ draft' = [draft EXCEPT ![p] = {}]
    /\ UNCHANGED <<objects, bad, version, lock, mark>>

-----------------------------------------------------------------------------
\* The process dies or its connection breaks: what it had not committed is
\* rolled back, and PostgreSQL frees its advisory lock.
Crash(p) ==
    /\ pc[p] # "idle"
    /\ pc' = [pc EXCEPT ![p] = "idle"]
    /\ lock' = IF lock = p THEN Nobody ELSE lock
    /\ draft' = [draft EXCEPT ![p] = {}]
    /\ UNCHANGED <<objects, bad, version, rows, mark>>

Bootstrap(p) == \/ StartBootstrap(p) \/ RefuseBootstrap(p)
                \/ CreateSchema(p)   \/ StampHead(p)

Adopt(p) == (\E t \in Baselines : Preflight(p, t)) \/ StampBaseline(p)

Upgrade(p) == \/ BeginUpgrade(p) \/ UpgradeToBlock(p) \/ AddLabel(p)
              \/ UpgradeToHead(p) \/ FailUpgrade(p)

Seed(p) == \/ StartApi(p) \/ RefuseSeed(p) \/ EnsureRoles(p) \/ LoseRoles(p)
           \/ EnsureOwner(p) \/ CommitSeed(p)

Next == \E p \in Procs :
            Bootstrap(p) \/ Adopt(p) \/ Upgrade(p) \/ Seed(p) \/ Crash(p)

Spec == Init /\ [][Next]_vars

-----------------------------------------------------------------------------
(* The recorded revision is true of the database: what it vouches for is    *)
(* there, what its chain settles is settled, and no types of an older      *)
(* schema lie beneath it (db_bootstrap.py:64-142, db_preflight.py:125-463, *)
(* the autocommit block of 20261030_02): a later upgrade never starts from *)
(* what is not there, whoever stamped, crashed or upgraded in between.     *)
RecordIsTrue == version > 0 => Fits(version, objects, bad)

(* Roles never exist without an Owner: the API seeds only an empty roles   *)
(* table, so a start that died after the roles alone would leave a shop    *)
(* nobody can sign in to, for ever (main.py:79-98, database.py:413-440).   *)
SeededHasOwner == "roles" \in rows => "owner" \in rows

(* A database whose drift the audit recognises can be adopted at neither   *)
(* baseline: the revisions after it would stop on the objects it already   *)
(* has (db_reconcile.py:671-767 against db_preflight.py:334-380).          *)
AuditedIsNotAdoptable ==
    AuditClean => \A t \in Baselines : PreflightErrors(t) # {}
=============================================================================
