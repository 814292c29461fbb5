-------------------------- MODULE DeploymentProofs --------------------------
(***************************************************************************)
(* Theorems about Deployment, for any number of operators and API          *)
(* processes and any databases that satisfy its assumption.  A revision    *)
(* only adds objects and only settles troubles, so what a record vouches   *)
(* for stays; what is left to show is that each command records a revision *)
(* whose objects are there when it does.                                   *)
(***************************************************************************)
EXTENDS Deployment, TLAPS

(* What the chain holds, revision by revision.                             *)

LEMMA Length == Newest = 26 /\ Newest \in Nat
BY DEF Newest, Chain

\* What the bootstrap creates.
Built ==
    {"core", "fulfillment", "expired_label", "snapshots", "order_accessories",
     "order_lifecycle", "refund_enum", "refund_transactions", "pg_order_id",
     "long_transaction_id", "product_images", "product_en", "review_images",
     "faq_en", "stock_movements", "purchase_cancel", "expense_workflow",
     "expense_audits", "expense_supplier", "buyer_link", "email_outbox",
     "email_outbox_audit", "outbox_lease", "sender_settings",
     "store_customization", "stock_name_index", "pg_trgm", "tuning"}

LEMMA BuiltObjects == Models \cup AutoMigrated = Built
<1>1. Models = {"core", "fulfillment", "expired_label", "snapshots",
                "order_accessories", "order_lifecycle", "refund_enum",
                "refund_transactions", "pg_order_id", "long_transaction_id",
                "product_images", "product_en", "review_images", "faq_en",
                "stock_movements", "purchase_cancel", "expense_workflow",
                "expense_audits", "expense_supplier", "buyer_link",
                "email_outbox", "email_outbox_audit", "outbox_lease",
                "sender_settings", "store_customization"}
  BY DEF Models, OrderTables, PaymentTables, CatalogueTables, ReviewTables,
         FaqTables, StockTables, PurchaseTables, ExpenseTables, CustomerTables,
         OutboxTables, SettingsTables, StoreTables
<1>2. AutoMigrated = {"purchase_cancel", "stock_name_index", "order_lifecycle",
                "snapshots", "buyer_link", "fulfillment", "order_accessories",
                "pg_order_id", "pg_trgm", "tuning", "product_images",
                "review_images", "outbox_lease"}
  BY DEF AutoMigrated, EnsuredPurchase, EnsuredStockName, EnsuredOrder,
         EnsuredCustomer, EnsuredFulfillment, EnsuredAccessories,
         EnsuredPayment, EnsuredTuning, EnsuredProductImages,
         EnsuredReviewImages, EnsuredOutbox
<1> QED BY <1>1, <1>2 DEF Built

(* A revision needs the core tables, and makes nothing the bootstrap does    *)
(* not make but the homepage row.                                            *)
Ordinary(r) ==
    /\ "core" \in r.needs
    /\ r.adds \cup r.ensures \subseteq Built \cup {"homepage_row"}

LEMMA Revisions == \A i \in 1 .. 26 : Ordinary(Chain[i])
<1>1. Ordinary(Chain[1])
  BY DEF Chain, Ordinary, Built, Revision, R20260919_01
<1>2. Ordinary(Chain[2])
  BY DEF Chain, Ordinary, Built, Revision, R20260925_01
<1>3. Ordinary(Chain[3])
  BY DEF Chain, Ordinary, Built, Revision, R20260925_02
<1>4. Ordinary(Chain[4])
  BY DEF Chain, Ordinary, Built, Revision, R20261001_01
<1>5. Ordinary(Chain[5])
  BY DEF Chain, Ordinary, Built, Revision, R20261005_01
<1>6. Ordinary(Chain[6])
  BY DEF Chain, Ordinary, Built, Revision, R20261008_01
<1>7. Ordinary(Chain[7])
  BY DEF Chain, Ordinary, Built, Revision, R20261013_01
<1>8. Ordinary(Chain[8])
  BY DEF Chain, Ordinary, Built, Revision, R20261014_01
<1>9. Ordinary(Chain[9])
  BY DEF Chain, Ordinary, Built, Revision, R20261014_02
<1>10. Ordinary(Chain[10])
  BY DEF Chain, Ordinary, Built, Revision, R20261014_03
<1>11. Ordinary(Chain[11])
  BY DEF Chain, Ordinary, Built, Revision, R20261015_01
<1>12. Ordinary(Chain[12])
  BY DEF Chain, Ordinary, Built, Revision, R20261016_01
<1>13. Ordinary(Chain[13])
  BY DEF Chain, Ordinary, Built, Revision, R20261016_02
<1>14. Ordinary(Chain[14])
  BY DEF Chain, Ordinary, Built, Revision, R20261017_01, OutboxTables
<1>15. Ordinary(Chain[15])
  BY DEF Chain, Ordinary, Built, Revision, R20261017_02
<1>16. Ordinary(Chain[16])
  BY DEF Chain, Ordinary, Built, Revision, R20261017_03
<1>17. Ordinary(Chain[17])
  BY DEF Chain, Ordinary, Built, Revision, R20261019_01
<1>18. Ordinary(Chain[18])
  BY DEF Chain, Ordinary, Built, Revision, R20261026_01
<1>19. Ordinary(Chain[19])
  BY DEF Chain, Ordinary, Built, Revision, R20261026_02
<1>20. Ordinary(Chain[20])
  <2>1. R20261027_01.ensures = {"expense_workflow", "expense_audits",
                                "order_lifecycle", "sender_settings"}
    BY DEF R20261027_01, Revision, ExpensesRepaired, AuditsRepaired,
           LifecycleRepaired, SenderRepaired
  <2>2. R20261027_01.needs = {"core"} /\ R20261027_01.adds = {}
    BY DEF R20261027_01, Revision
  <2> QED BY <2>1, <2>2 DEF Chain, Ordinary, Built
<1>21. Ordinary(Chain[21])
  BY DEF Chain, Ordinary, Built, Revision, R20261030_01
<1>22. Ordinary(Chain[22])
  BY DEF Chain, Ordinary, Built, Revision, R20261030_02
<1>23. Ordinary(Chain[23])
  BY DEF Chain, Ordinary, Built, Revision, R20261031_01
<1>24. Ordinary(Chain[24])
  BY DEF Chain, Ordinary, Built, Revision, R20261106_01
<1>25. Ordinary(Chain[25])
  BY DEF Chain, Ordinary, Built, Revision, R20261106_02
<1>26. Ordinary(Chain[26])
  BY DEF Chain, Ordinary, Built, Revision, R20261107_01
<1> QED BY <1>1, <1>2, <1>3, <1>4, <1>5, <1>6, <1>7, <1>8, <1>9, <1>10, <1>11, <1>12, <1>13, <1>14, <1>15, <1>16, <1>17, <1>18, <1>19, <1>20, <1>21, <1>22, <1>23, <1>24, <1>25, <1>26

LEMMA MadeBySome ==
    ASSUME NEW from, NEW to
    PROVE  Made(from, to) =
             UNION {Chain[i].adds \cup Chain[i].ensures : i \in from .. to}
<1>1. ASSUME NEW x
      PROVE  x \in Ensured(from, to) <=> \E i \in from .. to : x \in Chain[i].ensures
  BY Zenon DEF Ensured
<1>2. ASSUME NEW x
      PROVE  x \in Made(from, to) <=>
               \/ \E i \in from .. to : x \in Chain[i].adds
               \/ x \in Ensured(from, to)
  BY Zenon DEF Made
<1>3. ASSUME NEW x
      PROVE  x \in UNION {Chain[i].adds \cup Chain[i].ensures : i \in from .. to} <=>
               \E i \in from .. to : x \in Chain[i].adds \/ x \in Chain[i].ensures
  BY Zenon
<1> QED BY <1>1, <1>2, <1>3, Zenon

LEMMA MadeIsBuilt ==
    ASSUME NEW from \in Nat \ {0}, NEW to \in 0 .. 26
    PROVE  Made(from, to) \subseteq Built \cup {"homepage_row"}
<1>1. \A i \in from .. to : i \in 1 .. 26
  OBVIOUS
<1> QED BY <1>1, Revisions, MadeBySome, Zenon DEF Ordinary

LEMMA NoStrayTypes ==
    ASSUME NEW from \in Nat \ {0}, NEW to \in 0 .. 26
    PROVE  "stray_enums" \notin Made(from, to)
BY MadeIsBuilt DEF Built

(* The first revisions leave behind what the preflight requires of a         *)
(* database before it adopts it, but for the label that 20261030_02 adds.    *)
BeforeBlock == RequiredTables \cup {"fulfillment", "stock_name_index", "pg_trgm"}

LEMMA FirstRevisions ==
    /\ Vouched(5) \subseteq BeforeBlock
    /\ Vouched(6) \subseteq BeforeBlock \cup RefundObjects
    /\ Settled(1, 5) \subseteq {"unledgered"}
    /\ Settled(1, 6) \subseteq {"unledgered", "unbacked_refunds"}
<1> DEFINE Of(i) == Chain[i].adds \cup Chain[i].ensures
           Later == {"tuning", "expired_label"}
<1>1. Of(1) \subseteq BeforeBlock \cup Later /\ Chain[1].settles = {}
  BY DEF Chain, R20260919_01, Revision, BeforeBlock
<1>2. Of(2) \subseteq BeforeBlock \cup Later /\ Chain[2].settles = {}
  BY DEF Chain, R20260925_01, Revision, BeforeBlock, RequiredTables
<1>3. Of(3) \subseteq BeforeBlock \cup Later /\ Chain[3].settles = {}
  BY DEF Chain, R20260925_02, Revision, BeforeBlock, RequiredTables
<1>4. Of(4) \subseteq BeforeBlock \cup Later /\ Chain[4].settles = {}
  BY DEF Chain, R20261001_01, Revision, BeforeBlock, RequiredTables
<1>5. Of(5) \subseteq BeforeBlock \cup Later /\ Chain[5].settles = {"unledgered"}
  BY DEF Chain, R20261005_01, Revision, BeforeBlock, RequiredTables
<1>6. Of(6) \subseteq RefundObjects /\ Chain[6].settles = {"unbacked_refunds"}
  BY DEF Chain, R20261008_01, Revision, RefundObjects
<1>7. "expired_label" \in Chain[22].ensures
  BY DEF Chain, R20261030_02, Revision
<1>8. ASSUME NEW v \in {5, 6}
      PROVE  "expired_label" \in Ensured(v + 1, Newest)
  BY <1>7, Length DEF Ensured
<1>9. \A i \in 1 .. 5 : Of(i) \subseteq BeforeBlock \cup Later
  BY <1>1, <1>2, <1>3, <1>4, <1>5
<1>10. Made(1, 5) \subseteq BeforeBlock \cup Later
  BY <1>9, MadeBySome, Zenon
<1>11. Made(1, 6) \subseteq BeforeBlock \cup Later \cup RefundObjects
  <2>1. \A i \in 1 .. 6 : i \in 1 .. 5 \/ i = 6
    OBVIOUS
  <2> QED BY <1>6, <1>9, <2>1, MadeBySome, Zenon
<1>12. Settled(1, 5) \subseteq {"unledgered"}
  BY <1>1, <1>2, <1>3, <1>4, <1>5 DEF Settled
<1>13. Settled(1, 6) \subseteq {"unledgered", "unbacked_refunds"}
  BY <1>1, <1>2, <1>3, <1>4, <1>5, <1>6 DEF Settled
<1> QED BY <1>8, <1>10, <1>11, <1>12, <1>13 DEF Vouched

(* What the bootstrap creates is what the whole chain vouches for.           *)
LEMMA BuiltIsHead == Vouched(26) \subseteq Built
BY MadeIsBuilt DEF Vouched

(* A run of revisions takes a database that fits where it starts to one that *)
(* fits where it ends.                                                       *)
LEMMA UpgradeFits ==
    ASSUME NEW from \in 0 .. 26, NEW to \in 0 .. 26, from <= to,
           from > 0 => Fits(from, objects, bad),
           "stray_enums" \notin objects
    PROVE  Fits(to, objects \cup Made(from + 1, to),
                    bad \ Settled(from + 1, to))
<1>1. "stray_enums" \notin Made(from + 1, to)
  BY NoStrayTypes
<1>2. \A i \in 1 .. to : i \in 1 .. from \/ i \in from + 1 .. to
  OBVIOUS
<1>3. \A i \in from + 1 .. Newest : i \in from + 1 .. to \/ i \in to + 1 .. Newest
  BY Length
<1>4. Made(1, to) \subseteq Made(1, from) \cup Made(from + 1, to)
  BY <1>2 DEF Made, Ensured
<1>5. Ensured(from + 1, Newest)
        \subseteq Made(from + 1, to) \cup Ensured(to + 1, Newest)
  <2>1. Ensured(from + 1, Newest)
          \subseteq Ensured(from + 1, to) \cup Ensured(to + 1, Newest)
    BY <1>3 DEF Ensured
  <2>2. Ensured(from + 1, to) \subseteq Made(from + 1, to)
    BY DEF Made
  <2> QED BY <2>1, <2>2
<1>6. Settled(1, to) \subseteq Settled(1, from) \cup Settled(from + 1, to)
  BY <1>2 DEF Settled
<1>7. from = 0 => Made(1, from) = {} /\ Settled(1, from) = {}
  BY DEF Made, Ensured, Settled
<1>8. Vouched(to) \subseteq objects \cup Made(from + 1, to)
  BY <1>4, <1>5, <1>7 DEF Fits, Vouched
<1>9. Settled(1, to) \cap (bad \ Settled(from + 1, to)) = {}
  BY <1>6, <1>7 DEF Fits
<1> QED BY <1>1, <1>8, <1>9 DEF Fits

-----------------------------------------------------------------------------
(* The invariant: the record is true; a process that has created the schema, *)
(* passed a preflight or committed the first half of an upgrade is about to  *)
(* record a revision the database fits; and the seeding transaction that is  *)
(* about to commit has the Owner in it.                                      *)
Typed ==
    /\ version \in 0 .. 26
    /\ pc = [p \in Procs |-> pc[p]]
    /\ mark \in [Procs -> 0 .. 26]
    /\ draft = [p \in Procs |-> draft[p]]

Clean ==
    /\ "stray_enums" \in objects => "core" \notin objects
    /\ objects = {} => bad = {}

AboutToRecord ==
    \A p \in Procs :
        /\ pc[p] = "created" => Fits(26, objects, bad)
        /\ pc[p] = "checked" => mark[p] > 0 /\ Fits(mark[p], objects, bad)
        /\ pc[p] \in {"block", "labelled"} => mark[p] = 21

AboutToSeed == \A p \in Procs : pc[p] = "owner" => "owner" \in draft[p]

DeploymentInv ==
    Typed /\ Clean /\ AboutToRecord /\ AboutToSeed /\ RecordIsTrue /\ SeededHasOwner

(* Objects are never dropped and troubles never return.                      *)
LEMMA StillFits ==
    ASSUME NEW v, Fits(v, objects, bad), objects \subseteq objects',
           bad' \subseteq bad, "stray_enums" \notin objects'
    PROVE  Fits(v, objects', bad')
BY DEF Fits

LEMMA InitInv == Init => DeploymentInv
BY DatabasesAssumption, Length
   DEF Init, DeploymentInv, Typed, Clean, AboutToRecord, AboutToSeed,
       RecordIsTrue, SeededHasOwner

LEMMA SchemaCreated ==
    ASSUME DeploymentInv, NEW p \in Procs, CreateSchema(p)
    PROVE  DeploymentInv'
<1>1. objects' = Built /\ bad' = bad /\ bad = {} /\ version' = 0 /\ objects = {}
  BY BuiltObjects DEF CreateSchema, Empty, DeploymentInv, Clean
<1>2. Fits(26, objects', bad')
  BY <1>1, BuiltIsHead DEF Fits, Built
<1>3. "stray_enums" \notin objects' /\ objects' # {}
  BY <1>1 DEF Built
<1>4. AboutToRecord'
  <2> SUFFICES ASSUME NEW q \in Procs
               PROVE  /\ pc'[q] = "created" => Fits(26, objects', bad')
                      /\ pc'[q] = "checked" => mark'[q] > 0 /\ Fits(mark'[q], objects', bad')
                      /\ pc'[q] \in {"block", "labelled"} => mark'[q] = 21
    BY DEF AboutToRecord
  <2>1. pc'[q] # "created" => pc'[q] = pc[q]
    BY DEF CreateSchema, Goes, DeploymentInv, Typed
  <2>2. mark' = mark
    BY DEF CreateSchema
  <2>3. pc[q] = "checked" => Fits(mark[q], objects', bad')
    BY <1>1, <1>3, StillFits DEF DeploymentInv, AboutToRecord
  <2> QED BY <1>2, <2>1, <2>2, <2>3 DEF DeploymentInv, AboutToRecord
<1>5. Typed' /\ AboutToSeed' /\ SeededHasOwner'
  BY DEF CreateSchema, Goes, DeploymentInv, Typed, AboutToSeed, SeededHasOwner
<1> QED BY <1>1, <1>3, <1>4, <1>5 DEF DeploymentInv, Clean, RecordIsTrue

(* A database without preflight errors fits the baseline it is checked for.  *)
LEMMA AdoptionFits ==
    ASSUME Clean, NEW t \in Baselines, PreflightErrors(t) = {}
    PROVE  Fits(t, objects, bad)
<1>1. BaselineErrors = {}
  BY DEF PreflightErrors
<1>2. RequiredTables \subseteq objects
  <2>1. "tables" \notin BaselineErrors
    BY <1>1
  <2> QED BY <2>1 DEF BaselineErrors
<1>3. "core" \in objects /\ "stock_movements" \in objects
  BY <1>2 DEF RequiredTables
<1>4. "fulfillment" \in objects
  <2>1. "columns" \notin BaselineErrors
    BY <1>1
  <2> QED BY <2>1, <1>3 DEF BaselineErrors
<1>5. "pg_trgm" \in objects
  <2>1. "extension" \notin BaselineErrors
    BY <1>1
  <2> QED BY <2>1 DEF BaselineErrors
<1>6. "stock_name_index" \in objects
  <2>1. "name_index" \notin BaselineErrors
    BY <1>1
  <2> QED BY <2>1, <1>3 DEF BaselineErrors
<1>7. "unledgered" \notin bad
  <2>1. "ledger" \notin BaselineErrors
    BY <1>1
  <2> QED BY <2>1, <1>3 DEF BaselineErrors
<1>8. BeforeBlock \subseteq objects
  BY <1>2, <1>4, <1>5, <1>6 DEF BeforeBlock
<1>9. "stray_enums" \notin objects
  BY <1>3 DEF Clean
<1>10. CASE t = BeforeRefunds
  BY <1>7, <1>8, <1>9, <1>10, FirstRevisions DEF Fits, BeforeRefunds
<1>11. CASE t = AfterRefunds
  <2>1. RefundErrors = {}
    BY <1>11 DEF PreflightErrors, BeforeRefunds, AfterRefunds
  <2>2. RefundObjects \subseteq objects /\ "unbacked_refunds" \notin bad
    BY <2>1 DEF RefundErrors
  <2> QED BY <1>7, <1>8, <1>9, <1>11, <2>2, FirstRevisions DEF Fits, AfterRefunds
<1> QED BY <1>10, <1>11 DEF Baselines

LEMMA Adopted ==
    ASSUME DeploymentInv, NEW p \in Procs, Adopt(p)
    PROVE  DeploymentInv'
<1>1. CASE \E t \in Baselines : Preflight(p, t)
  <2> PICK t \in Baselines : Preflight(p, t)
    BY <1>1
  <2>1. Fits(t, objects, bad) /\ t \in 1 .. 26
    BY AdoptionFits DEF Preflight, DeploymentInv, Baselines, BeforeRefunds, AfterRefunds
  <2> QED BY <2>1 DEF Preflight, Goes, DeploymentInv, Typed, Clean,
                      AboutToRecord, AboutToSeed, RecordIsTrue, SeededHasOwner
<1>2. CASE StampBaseline(p)
  BY <1>2 DEF StampBaseline, Goes, DeploymentInv, Typed, Clean, AboutToRecord,
              AboutToSeed, RecordIsTrue, SeededHasOwner
<1> QED BY <1>1, <1>2 DEF Adopt

(* A run of revisions that commits leaves a database that fits where it ends. *)
LEMMA CommitFits ==
    ASSUME DeploymentInv, NEW p \in Procs, NEW to \in {21, 26},
           mark[p] <= to, Commits(p, mark[p], to)
    PROVE  /\ Fits(to, objects', bad')
           /\ objects \subseteq objects' /\ bad' \subseteq bad
           /\ objects' = {} => bad' = {}
<1> DEFINE from == mark[p]
<1>1. from \in 0 .. 26 /\ version = from
  BY DEF DeploymentInv, Typed, Commits
<1>2. "stray_enums" \notin objects
  <2>1. CASE from > 0
    BY <1>1, <2>1 DEF DeploymentInv, RecordIsTrue, Fits
  <2>2. CASE from = 0
    <3>1. 1 \in from + 1 .. to /\ 1 \in 1 .. 26
      BY <2>2
    <3>2. "core" \in objects \cup Made(from + 1, 0)
      BY <3>1, <2>2, Revisions DEF Commits, Passes, Ordinary
    <3>3. Made(from + 1, 0) = {}
      BY <2>2 DEF Made, Ensured
    <3> QED BY <3>2, <3>3 DEF DeploymentInv, Clean
  <2> QED BY <1>1, <2>1, <2>2
<1>3. from > 0 => Fits(from, objects, bad)
  BY <1>1 DEF DeploymentInv, RecordIsTrue
<1>4. Fits(to, objects', bad')
  <2>1. Fits(to, objects \cup Made(from + 1, to), bad \ Settled(from + 1, to))
    <3>1. from \in 0 .. 26 /\ to \in 0 .. 26 /\ from <= to
      BY <1>1
    <3> HIDE DEF from
    <3> QED BY <3>1, <1>2, <1>3, UpgradeFits
  <2>2. objects' = objects \cup Made(from + 1, to) /\ bad' = bad \ Settled(from + 1, to)
    BY DEF Commits
  <2> QED BY <2>1, <2>2
<1>5. objects \subseteq objects' /\ bad' \subseteq bad
  BY DEF Commits
<1> QED BY <1>4, <1>5 DEF DeploymentInv, Clean

LEMMA Upgraded ==
    ASSUME DeploymentInv, NEW p \in Procs, Upgrade(p)
    PROVE  DeploymentInv'
<1> USE DEF Goes, DeploymentInv
<1>1. CASE BeginUpgrade(p)
  BY <1>1 DEF BeginUpgrade, Typed, Clean, AboutToRecord, AboutToSeed,
              RecordIsTrue, SeededHasOwner
<1>2. CASE UpgradeToBlock(p) \/ UpgradeToHead(p)
  <2> DEFINE to == IF pc'[p] = "block" THEN 21 ELSE 26
  <2>1. /\ Commits(p, mark[p], to) /\ version' = to /\ mark[p] <= to
        /\ UNCHANGED <<rows, lock, draft>>
        /\ pc' = [pc EXCEPT ![p] = IF to = 21 THEN "block" ELSE "idle"]
    BY <1>2, Length DEF UpgradeToBlock, UpgradeToHead, Recorded, LabelRevision, Typed
  <2>2. /\ Fits(to, objects', bad')
        /\ objects \subseteq objects' /\ bad' \subseteq bad
        /\ objects' = {} => bad' = {}
    BY <2>1, CommitFits
  <2>3. mark' = [mark EXCEPT ![p] = to]
    BY <2>1 DEF Commits
  <2>4. Clean' /\ RecordIsTrue' /\ Typed' /\ AboutToSeed' /\ SeededHasOwner'
    BY <2>1, <2>2, <2>3 DEF Clean, RecordIsTrue, Typed, AboutToSeed,
                            SeededHasOwner, Fits
  <2>5. ASSUME NEW q \in Procs
        PROVE  /\ pc'[q] = "created" => Fits(26, objects', bad')
               /\ pc'[q] = "checked" => mark'[q] > 0 /\ Fits(mark'[q], objects', bad')
               /\ pc'[q] \in {"block", "labelled"} => mark'[q] = 21
    <3>1. CASE q = p
      BY <3>1, <2>1, <2>3 DEF Typed
    <3>2. CASE q # p
      <4>1. pc'[q] = pc[q] /\ mark'[q] = mark[q]
        BY <3>2, <2>1, <2>3 DEF Typed
      <4>2. "stray_enums" \notin objects'
        BY <2>2 DEF Fits
      <4>3. ASSUME NEW v, Fits(v, objects, bad) PROVE Fits(v, objects', bad')
        BY <4>2, <4>3, <2>2, StillFits
      <4> QED BY <4>1, <4>3 DEF AboutToRecord
    <3> QED BY <3>1, <3>2
  <2> QED BY <2>4, <2>5 DEF AboutToRecord
<1>3. CASE AddLabel(p)
  <2>1. "stray_enums" \in objects' => "stray_enums" \in objects
    BY <1>3 DEF AddLabel
  <2>2. objects \subseteq objects' /\ bad' = bad /\ objects' # {}
    BY <1>3 DEF AddLabel
  <2>3. ASSUME NEW v, Fits(v, objects, bad) PROVE Fits(v, objects', bad')
    BY <2>1, <2>2, <2>3 DEF Fits
  <2>4. "core" \in objects' => "core" \in objects
    BY <1>3 DEF AddLabel
  <2>5. pc' = [pc EXCEPT ![p] = "labelled"] /\ pc[p] = "block" /\ version' = version
        /\ mark' = mark /\ draft' = draft /\ rows' = rows
    BY <1>3 DEF AddLabel
  <2> QED BY <2>1, <2>2, <2>3, <2>4, <2>5
          DEF Typed, Clean, AboutToRecord, AboutToSeed, RecordIsTrue, SeededHasOwner
<1>4. CASE FailUpgrade(p)
  BY <1>4 DEF FailUpgrade, Typed, Clean, AboutToRecord, AboutToSeed,
              RecordIsTrue, SeededHasOwner
<1> QED BY <1>1, <1>2, <1>3, <1>4 DEF Upgrade

LEMMA Seeded ==
    ASSUME DeploymentInv, NEW p \in Procs, Seed(p)
    PROVE  DeploymentInv'
<1> USE DEF Goes, DeploymentInv, Typed, Clean, AboutToRecord, AboutToSeed,
            RecordIsTrue, SeededHasOwner
<1>1. CASE StartApi(p)
  BY <1>1 DEF StartApi
<1>2. CASE RefuseSeed(p)
  BY <1>2 DEF RefuseSeed
<1>3. CASE EnsureRoles(p)
  BY <1>3 DEF EnsureRoles
<1>4. CASE LoseRoles(p)
  BY <1>4 DEF LoseRoles
<1>5. CASE EnsureOwner(p)
  BY <1>5 DEF EnsureOwner
<1>6. CASE CommitSeed(p)
  BY <1>6 DEF CommitSeed
<1> QED BY <1>1, <1>2, <1>3, <1>4, <1>5, <1>6 DEF Seed

LEMMA Others ==
    ASSUME DeploymentInv, NEW p \in Procs,
           \/ StartBootstrap(p) \/ RefuseBootstrap(p) \/ StampHead(p) \/ Crash(p)
    PROVE  DeploymentInv'
<1> USE DEF Goes, DeploymentInv, Typed, Clean, AboutToRecord, AboutToSeed,
            RecordIsTrue, SeededHasOwner
<1>1. CASE StartBootstrap(p)
  BY <1>1 DEF StartBootstrap
<1>2. CASE RefuseBootstrap(p)
  BY <1>2 DEF RefuseBootstrap
<1>3. CASE StampHead(p)
  BY <1>3, Length DEF StampHead
<1>4. CASE Crash(p)
  BY <1>4 DEF Crash
<1> QED BY <1>1, <1>2, <1>3, <1>4

LEMMA StepInv == DeploymentInv /\ [Next]_vars => DeploymentInv'
<1> SUFFICES ASSUME DeploymentInv, [Next]_vars PROVE DeploymentInv'
  OBVIOUS
<1>1. CASE UNCHANGED vars
  BY <1>1 DEF vars, DeploymentInv, Typed, Clean, AboutToRecord, AboutToSeed,
              RecordIsTrue, SeededHasOwner
<1>2. CASE Next
  <2> PICK p \in Procs : Bootstrap(p) \/ Adopt(p) \/ Upgrade(p) \/ Seed(p) \/ Crash(p)
    BY <1>2 DEF Next
  <2> QED BY SchemaCreated, Adopted, Upgraded, Seeded, Others DEF Bootstrap
<1> QED BY <1>1, <1>2

(* The invariant holds in every reachable state of every deployment.         *)
THEOREM DeploymentInvariant == Spec => []DeploymentInv
BY InitInv, StepInv, PTL DEF Spec

(* The recorded revision is true of the database, however many operators     *)
(* bootstrap, stamp and upgrade it at once and wherever they die             *)
(* (db_bootstrap.py, db_preflight.py, alembic/versions).                     *)
THEOREM RecordStaysTrue == Spec => []RecordIsTrue
<1>1. DeploymentInv => RecordIsTrue
  BY DEF DeploymentInv
<1> QED BY <1>1, DeploymentInvariant, PTL

(* Roles are never committed without an Owner (database.py:413-440).         *)
THEOREM RolesComeWithOwner == Spec => []SeededHasOwner
<1>1. DeploymentInv => SeededHasOwner
  BY DEF DeploymentInv
<1> QED BY <1>1, DeploymentInvariant, PTL

(* The audit recognises no database that a preflight would stamp, whatever   *)
(* is in it: the drift it looks for has the refund ledger, which the older   *)
(* baseline excludes, and the accessories of an order, which the newer one   *)
(* does (db_reconcile.py:671-767 against db_preflight.py:334-380).           *)
THEOREM AuditedIsLeftAlone == Spec => []AuditedIsNotAdoptable
<1>1. ASSUME AuditClean PROVE NoRefundErrors # {} /\ LaterErrors # {}
  <2>1. RefundObjects \cap objects # {}
    BY <1>1 DEF AuditClean, AuditRefunds, RefundObjects
  <2>2. "order_accessories" \in LaterTables \cap objects
    BY <1>1 DEF AuditClean, AuditAccessories, LaterTables
  <2>3. QED
    BY <2>1, <2>2 DEF NoRefundErrors, LaterErrors
<1>2. ASSUME AuditClean, NEW t \in Baselines PROVE PreflightErrors(t) # {}
  <2>1. CASE t = BeforeRefunds
    BY <1>1, <1>2, <2>1 DEF PreflightErrors
  <2>2. CASE t # BeforeRefunds
    BY <1>1, <1>2, <2>2 DEF PreflightErrors
  <2>3. QED
    BY <2>1, <2>2
<1>3. AuditedIsNotAdoptable
  BY <1>2 DEF AuditedIsNotAdoptable
<1>4. QED
  BY <1>3, PTL
=============================================================================
