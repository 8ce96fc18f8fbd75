------------------------------ MODULE IPAllocator ------------------------------
(***************************************************************************)
(* The tunnel-address allocator as a state machine: its methods are called *)
(* in any order by the start-up reconcile, the tunnel handlers and the     *)
(* shutdown path, the process may die at any point, and an overlay re-roll *)
(* may change the /24 prefix between two runs.                             *)
(***************************************************************************)
EXTENDS IPAllocatorOps

VARIABLES
    alloc,     \* the live allocator
    file,      \* ip_alloc.json; a missing file is the empty table
    snapshot,  \* the copy Save took under the mutex
    saving,    \* Save is between its copy and its rename
    booting    \* reconcilePeers has not finished its MarkUsed loop

vars == <<alloc, file, snapshot, saving, booting>>

NoAllocations == [k \in Keys |-> NoIP]

Init ==
    /\ alloc \in {Load(p, NoAllocations) : p \in Prefixes}
    /\ file = NoAllocations
    /\ snapshot = NoAllocations
    /\ saving = FALSE
    /\ booting = TRUE

DoAllocate(k) ==
    /\ CanAllocate(alloc, k)
    /\ alloc' = Allocate(alloc, k)
    /\ UNCHANGED <<file, snapshot, saving, booting>>

DoMarkUsed(k, ip) ==
    /\ booting
    /\ alloc' = MarkUsed(alloc, k, ip)
    /\ UNCHANGED <<file, snapshot, saving, booting>>

DoTryAdopt(k, ip) ==
    /\ CanAdopt(alloc, k, ip)
    /\ alloc' = Adopt(alloc, k, ip)
    /\ UNCHANGED <<file, snapshot, saving, booting>>

DoRelease(k) ==
    /\ alloc' = Release(alloc, k)
    /\ UNCHANGED <<file, snapshot, saving, booting>>

FinishBoot ==
    /\ booting
    /\ booting' = FALSE
    /\ UNCHANGED <<alloc, file, snapshot, saving>>

(* Save copies the table under the mutex, releases it, writes a temporary  *)
(* file and renames it over the old one; other methods may run in between. *)
SaveCopy ==
    /\ ~saving
    /\ snapshot' = alloc.allocated
    /\ saving' = TRUE
    /\ UNCHANGED <<alloc, file, booting>>

SaveRename ==
    /\ saving
    /\ file' = snapshot
    /\ saving' = FALSE
    /\ UNCHANGED <<alloc, snapshot, booting>>

SaveFails ==
    /\ saving
    /\ saving' = FALSE
    /\ UNCHANGED <<alloc, file, snapshot, booting>>

(* A stop or a crash at any point, then NewIPAllocator on the same file,   *)
(* under the same or a re-rolled prefix.                                   *)
Restart(prefix) ==
    /\ alloc' = Load(prefix, file)
    /\ saving' = FALSE
    /\ booting' = TRUE
    /\ UNCHANGED <<file, snapshot>>

Next ==
    \/ \E k \in Keys : DoAllocate(k) \/ DoRelease(k)
    \/ \E k \in Keys, ip \in Address : DoMarkUsed(k, ip) \/ DoTryAdopt(k, ip)
    \/ FinishBoot
    \/ SaveCopy \/ SaveRename \/ SaveFails
    \/ \E p \in Prefixes : Restart(p)

Spec == Init /\ [][Next]_vars

-------------------------------------------------------------------------------
(* Every variable of the allocator keeps its type.                         *)
TypeOK ==
    /\ alloc \in Allocator
    /\ file \in Table
    /\ snapshot \in Table
    /\ saving \in BOOLEAN
    /\ booting \in BOOLEAN

(* The allocator never hands one address to two clients, whatever order    *)
(* Allocate, MarkUsed, TryAdopt, Release, Save and a restart come in: every*)
(* live lease is exclusive, usable (InSubnet) and marked used.             *)
LeasesExclusive == Exclusive(alloc.allocated) /\ Backed(alloc)

(* The strengthening that makes LeasesExclusive inductive: the reserved    *)
(* addresses stay used, and what a restart may load is exclusive as well.  *)
IInv ==
    /\ TypeOK
    /\ Sound(alloc)
    /\ Exclusive(file)
    /\ Exclusive(snapshot)

(* Once start-up is over no method leaks an address: one that is in use    *)
(* with no holder was already so.  (MarkUsed, at start-up, can leak one    *)
(* when it overwrites a key's saved address.)                              *)
NoNewOrphans == [][~booting /\ ~booting' => Orphans(alloc') \subseteq Orphans(alloc)]_vars

(* The allocator keeps the promise of AddressLease.                        *)
Lease == INSTANCE AddressLease WITH lease <- alloc.allocated, kept <- file
ImplementsLease == Lease!Spec
===============================================================================
