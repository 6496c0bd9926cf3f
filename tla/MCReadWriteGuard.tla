-------------------------- MODULE MCReadWriteGuard --------------------------
EXTENDS ReadWriteGuard

CONSTANTS r1, r2, w, u

\* Two readers, so that a read group forms, a writer and an Upgradeable
\* event.
MCClients == {r1, r2, w, u}
MCWant == r1 :> "Read" @@ r2 :> "Read" @@ w :> "Write" @@ u :> "Upgradeable"
=============================================================================
