--------------------------- MODULE MCWorkspacePool ---------------------------
(* The pool on small sets.  Workspaces has one identity per lease, so the    *)
(* allocator never runs out before the leases do.                            *)
EXTENDS WorkspacePool
=============================================================================
