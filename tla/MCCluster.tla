------------------------------ MODULE MCCluster ------------------------------
(***************************************************************************)
(* Bounded instances of Cluster.                                           *)
(***************************************************************************)
EXTENDS Cluster

CONSTANTS k1, v1,       \* a Catalog and a CatalogVersion resource
          gateway, p1,  \* the built-in exporter, and a plugin
          b1, b2,       \* bindings
          q1, q2        \* requests

MCOrder == <<"deployments", "routes">>

Work(does, m, n, installed) ==
    [does |-> does, edits |-> m, faults |-> n, installed |-> installed]

MCWorkloads == {
    \* AssetHub and its operands
    Work({"hub", "drift", "down", "call"}, 2, 1, FALSE),
    \* the resources of catalogs and versions
    Work({"write", "delete", "down", "call"}, 2, 1, TRUE),
    Work({"write", "delete", "drift"}, 2, 0, TRUE),
    \* exporter plugins
    Work({"plugins"}, 3, 0, TRUE),
    Work({"plugins", "server"}, 2, 0, TRUE),
    Work({"answers", "down"}, 2, 1, TRUE),
    \* bindings, and the catalog under them
    Work({"catalog", "createBinding", "updateBinding", "run", "deleteBinding", "deleteCatalog",
          "server", "database"}, 3, 1, TRUE),
    Work({"catalog", "createBinding", "createCatalog", "deleteCatalog"}, 4, 0, TRUE),
    \* previews
    Work({"catalog", "preview", "publish", "edit", "validate"}, 4, 0, TRUE),
    Work({"catalog", "preview", "publish", "types", "validate"}, 4, 0, TRUE),
    Work({"catalog", "preview", "publish", "pins", "validate", "database"}, 4, 1, TRUE),
    Work({"catalog", "preview", "createBinding", "deleteBinding", "plugins"}, 2, 0, TRUE) }

=============================================================================
