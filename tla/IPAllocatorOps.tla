---------------------------- MODULE IPAllocatorOps ----------------------------
(***************************************************************************)
(* The tunnel-address allocator (internal/wireguard/ip_allocator.go) as    *)
(* operators on a value                                                    *)
(*   a = [prefix, allocated, usedIPs]                                      *)
(* the three mutable fields of the Go struct IPAllocator.  Every method of *)
(* the struct runs under its mutex, so each is one operator.  An address   *)
(* is a pair <<prefix, host>>; NoIP is the empty string of the code, both  *)
(* "no allocation" and "no address".                                       *)
(***************************************************************************)
EXTENDS Naturals, FiniteSetsExt

CONSTANTS
    Keys,        \* client WireGuard public keys, the empty one included
    EmptyKey,    \* the empty string as a public key
    Prefixes,    \* the /24 prefixes an overlay may be (re)rolled to
    LastHost,    \* the broadcast host number, 255 in the code
    ServerHost,  \* the host number of the gateway
    NoIP         \* the empty string as an address

Hosts == 0 .. LastHost
Address == Prefixes \X Hosts

ASSUME EmptyKeyAssumption == EmptyKey \in Keys
ASSUME HostAssumption == LastHost \in Nat /\ ServerHost \in Hosts
ASSUME NoIPAssumption == NoIP \notin Address

(* NewIPAllocator reserves the gateway, the network and the broadcast.     *)
Reserved(prefix) == {<<prefix, 0>>, <<prefix, ServerHost>>, <<prefix, LastHost>>}

Table == [Keys -> Address \cup {NoIP}]

Allocator == [prefix : Prefixes,
              allocated : Table,
              usedIPs : SUBSET Address]

InSubnet(a, ip) ==
    /\ ip \in Address
    /\ ip[1] = a.prefix
    /\ ip \notin Reserved(a.prefix)

(* Record that k holds ip.                                                 *)
Take(a, k, ip) == [a EXCEPT !.allocated[k] = ip, !.usedIPs = @ \cup {ip}]

-------------------------------------------------------------------------------
(* Mutated form of Allocate: the existing allocation is not looked up.     *)
MutAllocateAnew(a, k) ==
    LET free == {h \in 2 .. (LastHost - 1) : <<a.prefix, h>> \notin a.usedIPs}
    IN  IF free = {} THEN a ELSE Take(a, k, <<a.prefix, Min(free)>>)

(* Allocate: an existing allocation wins, else the first free host in      *)
(* 2..254; the caller gets an error when there is none.                    *)
FreeHosts(a) == {h \in 2 .. (LastHost - 1) : <<a.prefix, h>> \notin a.usedIPs}

CanAllocate(a, k) == a.allocated[k] # NoIP \/ FreeHosts(a) # {}

Allocate(a, k) ==
    IF a.allocated[k] # NoIP THEN a ELSE Take(a, k, <<a.prefix, Min(FreeHosts(a))>>)

(* MarkUsed seeds the allocator from the ACL at start-up.  An address that *)
(* is already used is left to its holder; otherwise the key's previous     *)
(* entry, if any, is overwritten and its address stays in usedIPs.         *)
MarkUsed(a, k, ip) ==
    IF ~InSubnet(a, ip) \/ ip \in a.usedIPs THEN a
    ELSE IF k = EmptyKey THEN [a EXCEPT !.usedIPs = @ \cup {ip}]
    ELSE Take(a, k, ip)

(* Mutated form of CanAdopt: no collision check.                           *)
MutCanAdoptHeld(a, k, ip) ==
    k # EmptyKey /\ InSubnet(a, ip) /\ a.allocated[k] \in {NoIP, ip}

(* TryAdopt restores the address of a signed lease; CanAdopt is its result *)
(* and Adopt the state it leaves when the result is true.                  *)
CanAdopt(a, k, ip) ==
    /\ k # EmptyKey
    /\ InSubnet(a, ip)
    /\ IF a.allocated[k] # NoIP
       THEN a.allocated[k] = ip
       ELSE /\ \A j \in Keys \ {k} : a.allocated[j] # ip
            /\ ip \notin a.usedIPs

Adopt(a, k, ip) == Take(a, k, ip)

(* Mutated form of Release: the address is not freed.                      *)
MutReleaseKeepsUsed(a, k) == [a EXCEPT !.allocated[k] = NoIP]

Release(a, k) ==
    IF a.allocated[k] = NoIP THEN a
    ELSE [a EXCEPT !.usedIPs = @ \ {a.allocated[k]}, !.allocated[k] = NoIP]

(* Mutated form of Load: reloading forgets the reserved addresses.         *)
MutLoadUnreserved(prefix, f) ==
    LET kept == {k \in Keys : f[k] # NoIP /\ f[k][1] = prefix}
    IN  [prefix |-> prefix,
         allocated |-> [k \in Keys |-> IF k \in kept THEN f[k] ELSE NoIP],
         usedIPs |-> {f[k] : k \in kept}]

(* NewIPAllocator followed by Load of the saved key-to-address map f: an   *)
(* entry of another prefix, or on an address in use, is dropped.  Saved    *)
(* maps are injective, so the random iteration order does not matter.      *)
Load(prefix, f) ==
    LET kept == {k \in Keys : /\ f[k] # NoIP
                              /\ f[k][1] = prefix
                              /\ f[k] \notin Reserved(prefix)}
    IN  [prefix |-> prefix,
         allocated |-> [k \in Keys |-> IF k \in kept THEN f[k] ELSE NoIP],
         usedIPs |-> Reserved(prefix) \cup {f[k] : k \in kept}]

-------------------------------------------------------------------------------
(* No two keys of a table hold one address.                                *)
Exclusive(f) == \A j, k \in Keys : j # k /\ f[j] # NoIP => f[j] # f[k]

(* Every lease is usable (InSubnet) and its address is marked used.        *)
Backed(a) == \A k \in Keys : a.allocated[k] # NoIP =>
    InSubnet(a, a.allocated[k]) /\ a.allocated[k] \in a.usedIPs

(* What every method preserves; the reserved addresses stay used.          *)
Sound(a) ==
    /\ a \in Allocator
    /\ Exclusive(a.allocated)
    /\ Backed(a)
    /\ Reserved(a.prefix) \subseteq a.usedIPs

(* Addresses marked used that no key holds and no rule reserves.           *)
Orphans(a) == a.usedIPs \ (Reserved(a.prefix) \cup {a.allocated[k] : k \in Keys})
===============================================================================
