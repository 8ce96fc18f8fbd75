----------------------------- MODULE AddressLease -----------------------------
(***************************************************************************)
(* What the allocator promises to the rest of the agent: a table of leases *)
(* in which no address is ever leased to two keys, a lease once granted is *)
(* not moved while the agent runs, and a restart gives a key back the      *)
(* address it had in the last saved table or none.                         *)
(***************************************************************************)
CONSTANTS Keys, Address, NoIP

VARIABLES
    lease,    \* the live table, key to address
    kept,     \* the table on disk
    snapshot, \* the table a save in progress will write
    booting   \* the agent is still seeding the table from its access list

vars == <<lease, kept, snapshot, booting>>

Table == [Keys -> Address \cup {NoIP}]
NoLeases == [k \in Keys |-> NoIP]
Free(ip) == ip \in Address /\ \A k \in Keys : lease[k] # ip

Init == lease = NoLeases /\ kept = NoLeases /\ snapshot = NoLeases /\ booting = TRUE

Grant(k, ip) ==
    /\ lease[k] = NoIP
    /\ Free(ip)
    /\ lease' = [lease EXCEPT ![k] = ip]
    /\ UNCHANGED <<kept, snapshot, booting>>

(* Start-up only: the access-control list overrules the saved table.       *)
Overrule(k, ip) ==
    /\ booting = TRUE
    /\ Free(ip)
    /\ lease' = [lease EXCEPT ![k] = ip]
    /\ UNCHANGED <<kept, snapshot, booting>>

Revoke(k) ==
    /\ lease' = [lease EXCEPT ![k] = NoIP]
    /\ UNCHANGED <<kept, snapshot, booting>>

Booted == booting = TRUE /\ booting' = FALSE /\ UNCHANGED <<lease, kept, snapshot>>

Copy == snapshot' = lease /\ UNCHANGED <<lease, kept, booting>>

Write == kept' = snapshot /\ UNCHANGED <<lease, snapshot, booting>>

Restart ==
    /\ lease' \in Table
    /\ \A k \in Keys : lease'[k] \in {kept[k], NoIP}
    /\ booting' = TRUE
    /\ UNCHANGED <<kept, snapshot>>

Next ==
    \/ \E k \in Keys, ip \in Address : Grant(k, ip) \/ Overrule(k, ip)
    \/ \E k \in Keys : Revoke(k)
    \/ Booted \/ Copy \/ Write \/ Restart

Spec == Init /\ [][Next]_vars
===============================================================================
