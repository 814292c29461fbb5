---------------------------- MODULE MCDeployment ----------------------------
(***************************************************************************)
(* Small instances of Deployment: an empty database, one whose tables were *)
(* dropped, unversioned databases that stopped near a baseline and have    *)
(* drifted by an object or a group of them and one trouble, and versioned  *)
(* databases with what later revisions repair missing.                     *)
(***************************************************************************)
EXTENDS Deployment, TLC

CONSTANTS
    o1, o2, o3,
    Extras,     \* groups of objects an unversioned database has besides
    Lacks,      \* groups of objects it lacks
    Troubles,   \* the troubles it may have
    Stops,      \* the revisions its schema may stop at
    Versions    \* the revisions a versioned database may be at

Seeded == {"roles", "owner"}

Database(o, b, v, r) == [objects |-> o, bad |-> b, version |-> v, rows |-> r]

Fresh == {Database({}, {}, 0, {}), Database({"stray_enums"}, {}, 0, {})}

\* A trouble a unique index excludes does not come with that index.
Possible(o, b) == "stock_name_index" \in o => "duplicate_names" \notin b

Legacy ==
    {Database(({"core"} \cup Made(1, n) \cup more) \ less, b, 0, Seeded) :
        n \in Stops, more \in Extras, less \in Lacks,
        b \in {{}} \cup {{t} : t \in Troubles}}

Tracked ==
    {Database(({"core"} \cup Made(1, v)) \ (Ensured(v + 1, Newest) \cap less),
              b \ Settled(1, v), v, r) :
        v \in Versions, less \in Lacks, r \in {{}, Seeded},
        b \in {{}} \cup {{t} : t \in Troubles}}

SmallDatabases ==
    Fresh \cup {d \in Legacy \cup Tracked : Possible(d.objects, d.bad)}

Groups ==
    {{}, {"snapshots", "order_accessories", "long_transaction_id"},
     {"refund_enum"}, {"purchase_cancel"}, {"email_outbox"}, {"pg_order_id"}}

Missing == {{}, {"fulfillment", "expired_label"}, {"expense_audits"},
            {"product_images"}, {"stock_name_index"}, {"pg_trgm"}, {"tuning"}}

AllTroubles ==
    {"duplicate_names", "unledgered", "duplicate_references",
     "unbacked_refunds", "stray_refunds", "undated_payments", "refund_shape",
     "accessory_shape", "payment_shape", "unrepairable_rows",
     "orphan_suppliers", "ambiguous_categories", "stale_sold_counts"}

Interchangeable == Permutations(Procs)

(* "Konfigurasi homepage belum tersedia. Jalankan migrasi database terlebih *)
(* dahulu." (services/store_customization_service.py:45-49): once every     *)
(* migration has run, the homepage configuration is there.                  *)
HomepageConfigured == version = Newest => "homepage_row" \in objects
=============================================================================
