------------------------------ MODULE MCDbPool ------------------------------
EXTENDS DbPool, TLC

CONSTANTS r1, r2, r3

\* One request of any kind, one that meets it in the rows of the room, and one
\* that only reads (/api/health) and finds the pool in use.
Mixed ==
    (r1 :> DOMAIN Handler) @@ (r3 :> {"read"}) @@
    (r2 :> {"relocate", "reset",
            "update_node_positions", "rotate_zone"})
=============================================================================
