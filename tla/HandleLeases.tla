---------------------------- MODULE HandleLeases ----------------------------
(***************************************************************************)
(* What src/include/epiphanydb.h promises about handles, with the library  *)
(* seen from outside: a call that succeeds takes a set of blocks for a new *)
(* handle in one step, a releasing call gives back all of them in one      *)
(* step, and nothing else ever changes which blocks stand behind a handle. *)
(***************************************************************************)
CONSTANT Block

VARIABLE lease   \* the held handles, each with the blocks behind it

Leased == UNION {lease[h] : h \in DOMAIN lease}

LeaseInit == lease = [h \in {} |-> {}]

\* epiphanydb_init, create_table, open_table or begin_transaction succeeds:
\* the blocks are no part of any other lease.
Acquire(h, blocks) ==
    /\ h \in blocks
    /\ blocks \cap Leased = {}
    /\ lease' = [g \in DOMAIN lease \cup {h} |-> IF g = h THEN blocks ELSE lease[g]]

\* epiphanydb_cleanup, close_table, commit or rollback takes the handle back.
Release(h) ==
    /\ h \in DOMAIN lease
    /\ lease' = [g \in DOMAIN lease \ {h} |-> lease[g]]

LeaseNext ==
    \/ \E blocks \in SUBSET Block : \E h \in blocks : Acquire(h, blocks)
    \/ \E h \in DOMAIN lease : Release(h)

LeaseSpec == LeaseInit /\ [][LeaseNext]_lease
=============================================================================
