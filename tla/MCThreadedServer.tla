-------------------------- MODULE MCThreadedServer --------------------------
(* Small instances of the threaded server.  Clients are interchangeable for  *)
(* safety; no symmetry is used where liveness is checked.                    *)
EXTENDS ThreadedServer, TLC

Symmetry == Permutations(Clients)
=============================================================================
