---------------------------- MODULE OpenPathsProofs ---------------------------
(***************************************************************************)
(* Proofs about the paths that packets come in by: Pinholes, for any       *)
(* addresses and any number of lost calls, moves, crashes and stops;       *)
(* RelayShim, for any tunnel ids, sockets and ceiling.                     *)
(***************************************************************************)
EXTENDS Pinholes, RelayShim, FiniteSetTheorems, TLAPS

-------------------------------------------------------------------------------
(* The pinholes and their nonces.                                          *)

Writers == {"v4", "v6"}
Alive == phase \in {"boot", "run"}

(* The nonce file, and the copies that a writer may still put in its       *)
(* place, have one of S for the key k.                                     *)
CopiesIn(k, S) ==
    /\ file[k] \in S
    /\ \A p \in Writers : snap[p][k] \in S
    /\ tmp # NoTmp /\ (\E p \in Writers : doing[p] = "rename") => tmp[k] \in S

(* The refresh of this start has still to see to a.                        *)
Ahead(a) == doing["v6"] = "start" \/ a \in unasked \/ (doing["v6"] = "asked" /\ answer.addr = a)

Shape ==
    /\ phase \in {"boot", "run", "stopped", "down"}
    /\ DOMAIN v6pinholes = Addrs /\ DOMAIN doing = Writers /\ DOMAIN snap = Writers
    /\ addrs \subseteq Addrs /\ unasked \subseteq Addrs
    /\ doing["v6"] = "asked" => answer.addr \in Addrs
    /\ then \in {"each", "remove"}
    /\ phase = "down" => \A p \in Writers : snap[p] = NoFile /\ doing[p] = "idle"

(* A renewal is asked for with the nonce that is held.                     *)
RenewsHeld ==
    Alive /\ doing["v6"] = "asked" /\ answer.hole # NoHole /\ v6pinholes[answer.addr] # NoHole =>
        answer.hole.nonce \in {Zero, v6pinholes[answer.addr].nonce}

(* The IPv4 nonce is made once in the life of a process.                   *)
V4Saves == Alive => CopiesIn(V4, {None, v4nonce})

(* After a start two goroutines write, and an address gets a new nonce     *)
(* only if no copy has one for it.                                         *)
BootSaves ==
    phase = "boot" => \A a \in Addrs :
        /\ Current[a] # None => CopiesIn(a, {None, Current[a]})
        /\ Ahead(a) /\ v6pinholes[a] = NoHole => CopiesIn(a, {None})

(* From the first tick on there is one writer at a time, which writes what *)
(* is in memory; only while the refresh writes, or after a write that      *)
(* failed, may the file have an older nonce.                               *)
RunSaves ==
    phase = "run" =>
        /\ doing["v6"] # "idle" => doing["v4"] = "due"
        /\ \A p \in Writers : doing[p] \in {"tmp", "rename"} => snap[p] = Current
        /\ \A p \in Writers : doing[p] = "rename" => tmp = snap[p]
        /\ doing["v6"] \notin {"copy", "tmp", "rename"} /\ ~unsaved =>
             \A a \in Addrs : Current[a] # None => file[a] \in {None, Current[a]}

Saves == Shape /\ RenewsHeld /\ V4Saves /\ BootSaves /\ RunSaves

LEMMA CurrentOf ==
    /\ \A a \in Addrs : Current[a] = IF v6pinholes[a].nonce = Zero THEN None ELSE v6pinholes[a].nonce
    /\ Current[V4] = IF v4nonce = Zero THEN None ELSE v4nonce
    /\ Current = [k \in Keys |-> Current[k]]
BY PinholeAssumption, Zenon DEF Current, Keys, Nonce

LEMMA Places ==
    /\ DOMAIN Booting = Writers /\ Booting["v4"] = "ask" /\ Booting["v6"] = "start"
    /\ DOMAIN Resting = Writers /\ Resting["v4"] = "idle" /\ Resting["v6"] = "idle"
    /\ DOMAIN Returned = Writers /\ Returned["v6"] = "idle"
    /\ Returned["v4"] = IF doing["v4"] = "due" THEN "ask" ELSE doing["v4"]
BY DEF Booting, Resting, Returned, Writers

LEMMA HoleFields == NoHole.nonce = None /\ NoHole.via = "none" /\ None # Zero
BY DEF NoHole, None, Zero

(* persistNonces, whether or not its write fails.                          *)
Persisting(p) == Persist(p) \/ PersistFails(p)

(* persistNonces: whatever S the copies of a key are in, they stay there   *)
(* if the nonce in memory is of S too.                                     *)
LEMMA PersistCopies ==
    ASSUME Shape, NEW p \in Writers, Persisting(p), NEW k \in Keys, NEW S, None \in S, Current[k] \in S, CopiesIn(k, S)
    PROVE  CopiesIn(k, S)'
<1>. USE DEF Shape, Writers, CopiesIn
<1>1. CASE Persist(p) /\ doing[p] = "copy"
  BY <1>1 DEF Persist, disk
<1>2. CASE Persist(p) /\ doing[p] = "tmp"
  BY <1>2 DEF Persist, WriteTmp
<1>3. ASSUME doing[p] = "rename" \/ PersistFails(p), PersistReturns(p),
             file' = file \/ (tmp # NoTmp /\ doing[p] = "rename" /\ file' = tmp),
             tmp' \in {tmp, NoTmp, NoFile}
      PROVE  CopiesIn(k, S)'
  <2>1. NoFile[k] = None
    BY DEF NoFile
  <2>2. snap'[p] = NoFile /\ \A q \in Writers : q # p => snap'[q] = snap[q]
    BY <1>3 DEF PersistReturns
  <2>3. \A q \in Writers : doing'[q] = "rename" => doing[q] = "rename"
    BY <1>3 DEF PersistReturns
  <2>. QED
    BY <1>3, <2>1, <2>2, <2>3
<1>4. CASE Persist(p) /\ doing[p] = "rename"
  BY <1>3, <1>4 DEF Persist, disk
<1>5. CASE PersistFails(p)
  BY <1>3, <1>5 DEF PersistFails
<1>. QED
  BY <1>1, <1>2, <1>4, <1>5 DEF Persisting, Persist

LEMMA PersistSaves ==
    ASSUME Saves, NEW p \in Writers, Persisting(p)
    PROVE  Saves'
<1>1. UNCHANGED <<addrs, v6pinholes, v4nonce, unasked, answer, then, phase>> /\ Current' = Current
  BY DEF Persisting, Persist, PersistFails, PersistReturns, refresh, Current, Nonce
<1>2. /\ \A q \in Writers : q # p => doing'[q] = doing[q] /\ snap'[q] = snap[q]
      /\ DOMAIN doing' = Writers /\ DOMAIN snap' = Writers
  BY DEF Persisting, Persist, PersistFails, PersistReturns, Saves, Shape, Writers
<1>3. doing[p] \in {"copy", "tmp", "rename"} /\ doing'[p] \in {"tmp", "rename", "idle", "each", "remove"}
  BY DEF Persisting, Persist, PersistFails, PersistReturns, Saves, Shape, Writers
<1>4. Shape'
  BY <1>1, <1>2, <1>3 DEF Saves, Shape, Writers
<1>5. RenewsHeld'
  BY <1>1, <1>2, <1>3 DEF Saves, RenewsHeld, Alive, Writers
<1>6. V4Saves'
  <2>1. Alive /\ V4 \in Keys /\ Current[V4] \in {None, v4nonce} => CopiesIn(V4, {None, v4nonce})'
    BY <1>1, PersistCopies, Zenon DEF Saves, V4Saves, CopiesIn
  <2>. QED
    BY <1>1, <2>1, CurrentOf DEF V4Saves, Alive, Keys
<1>7. BootSaves'
  <2>. SUFFICES ASSUME phase = "boot", NEW a \in Addrs
                PROVE  /\ Current[a] # None => CopiesIn(a, {None, Current[a]})'
                       /\ Ahead(a)' /\ v6pinholes[a] = NoHole => CopiesIn(a, {None})'
    BY <1>1 DEF BootSaves
  <2>1. Current[a] # None => CopiesIn(a, {None, Current[a]})'
    BY <1>1, PersistCopies, Zenon DEF Saves, BootSaves, CopiesIn, Keys
  <2>2. Ahead(a)' => Ahead(a)
    BY <1>1, <1>2, <1>3 DEF Ahead, Writers
  <2>3. v6pinholes[a] = NoHole => Current[a] = None
    BY CurrentOf, HoleFields
  <2>. QED
    BY <2>1, <2>2, <2>3, PersistCopies DEF Saves, BootSaves, Keys
<1>8. RunSaves'
  <2>. SUFFICES ASSUME phase = "run" PROVE RunSaves'
    BY <1>1 DEF RunSaves
  <2>1. doing'["v6"] # "idle" => doing'["v4"] = "due"
    BY <1>2, <1>3 DEF Saves, RunSaves, Writers
  <2>2. CASE Persist(p) /\ doing[p] = "copy"
    BY <1>1, <2>1, <2>2 DEF Saves, Shape, RunSaves, Persist, Writers, disk
  <2>3. CASE Persist(p) /\ doing[p] = "tmp"
    BY <1>1, <2>1, <2>3 DEF Saves, Shape, RunSaves, Persist, WriteTmp, Writers
  <2>4. ASSUME doing[p] = "rename" \/ PersistFails(p), PersistReturns(p), file' = Current \/ unsaved' PROVE RunSaves'
    <3>1. \A q \in Writers : doing'[q] \notin {"tmp", "rename"}
      BY <1>2, <1>3, <2>4 DEF Saves, Shape, RunSaves, PersistReturns, Writers
    <3>. QED
      BY <1>1, <2>1, <2>4, <3>1 DEF RunSaves
  <2>5. CASE Persist(p) /\ doing[p] = "rename"
    <3>1. tmp = Current
      BY <2>5 DEF Saves, RunSaves
    <3>2. DOMAIN NoTmp = {} /\ V4 \in DOMAIN Current
      BY DEF NoTmp, Current, Keys
    <3>3. file' = Current
      BY <2>5, <3>1, <3>2 DEF Persist
    <3>. QED
      BY <2>4, <2>5, <3>3 DEF Persist
  <2>6. CASE PersistFails(p)
    BY <2>4, <2>6 DEF PersistFails
  <2>. QED
    BY <1>3, <2>2, <2>3, <2>5, <2>6 DEF Persisting
<1>. QED
  BY <1>4, <1>5, <1>6, <1>7, <1>8 DEF Saves

(* Steps that leave the files, the copies and the nonces in memory alone   *)
(* and take no writer into or out of persistNonces.                        *)
LEMMA QuietKeeps ==
    ASSUME Saves, Shape', RenewsHeld', UNCHANGED <<file, tmp, unsaved, snap, phase, v4nonce, v6pinholes>>,
           \A p \in Writers : doing'[p] # doing[p] => {doing[p], doing'[p]} \cap {"tmp", "rename"} = {},
           \A a \in Addrs : Ahead(a)' => Ahead(a),
           phase = "run" /\ doing'["v6"] # "idle" => doing'["v4"] = "due",
           doing["v6"] = "copy" => doing'["v6"] = "copy"
    PROVE  Saves'
<1>1. Current' = Current
  BY DEF Current, Nonce
<1>2. \A k \in Keys : \A S : CopiesIn(k, S) => CopiesIn(k, S)'
  BY Zenon DEF CopiesIn, Writers
<1>3. V4Saves'
  <2>. SUFFICES ASSUME Alive PROVE CopiesIn(V4, {None, v4nonce})'
    BY DEF V4Saves, Alive
  <2>. QED
    BY Zenon DEF Saves, V4Saves, CopiesIn, Writers
<1>4. BootSaves'
  <2>. SUFFICES ASSUME phase = "boot", NEW a \in Addrs
                PROVE  /\ Current[a] # None => CopiesIn(a, {None, Current[a]})'
                       /\ Ahead(a)' /\ v6pinholes[a] = NoHole => CopiesIn(a, {None})'
    BY <1>1 DEF BootSaves
  <2>1. Current[a] # None => CopiesIn(a, {None, Current[a]})'
    BY <1>1, Zenon DEF Saves, BootSaves, CopiesIn, Writers
  <2>. QED
    BY <1>2, <2>1, Zenon DEF Saves, BootSaves, Keys
<1>5. RunSaves'
  BY <1>1, Zenon DEF Saves, RunSaves, Writers
<1>. QED
  BY <1>3, <1>4, <1>5 DEF Saves

(* The steps of RefreshV6Pinholes that change no nonce.                    *)
LEMMA RefreshKeeps ==
    ASSUME Saves, RemoveStale \/ (\E a \in Addrs : ensureV6Pinhole(a)) \/ RefreshEnds
    PROVE  Saves'
<1>. USE DEF Writers
<1>1. CASE RemoveStale
  <2>1. /\ UNCHANGED <<file, tmp, unsaved, snap, phase, v4nonce, v6pinholes, addrs, unasked, answer>>
        /\ doing["v6"] = "remove" /\ doing' = [doing EXCEPT !["v6"] = "each"] /\ then' = "each"
    BY <1>1 DEF RemoveStale, client, disk
  <2>. QED
    BY <2>1, QuietKeeps DEF Saves, Shape, RenewsHeld, RunSaves, Ahead
<1>2. ASSUME NEW a \in Addrs, ensureV6Pinhole(a) PROVE Saves'
  <2>1. /\ UNCHANGED <<file, tmp, unsaved, snap, phase, v4nonce, v6pinholes, addrs, then>>
        /\ doing["v6"] = "each" /\ doing' = [doing EXCEPT !["v6"] = "asked"] /\ a \in unasked /\ unasked' = unasked \ {a}
    BY <1>2, Zenon DEF ensureV6Pinhole, client, disk
  <2>2. /\ answer'.addr = a
        /\ v6pinholes[a] # NoHole => answer'.hole = NoHole \/ answer'.hole.nonce \in {Zero, v6pinholes[a].nonce}
    BY <1>2 DEF ensureV6Pinhole, Ensure
  <2>. QED
    BY <2>1, <2>2, QuietKeeps, Zenon DEF Saves, Shape, RenewsHeld, RunSaves, Ahead
<1>3. CASE RefreshEnds
  <2>1. /\ UNCHANGED <<file, tmp, unsaved, snap, phase, v4nonce, v6pinholes, addrs, unasked, answer, then>>
        /\ doing["v6"] = "each" /\ doing' = Returned
    BY <1>3 DEF RefreshEnds, client, disk, refresh
  <2>. QED
    BY <2>1, QuietKeeps, Places DEF Saves, Shape, RenewsHeld, RunSaves, Ahead
<1>. QED
  BY <1>1, <1>2, <1>3, Zenon

(* The nonces of addresses that the host no longer has are forgotten.      *)
LEMMA ForgetSaves ==
    ASSUME Saves, RefreshV6Pinholes
    PROVE  Saves'
<1>1. /\ UNCHANGED <<file, tmp, unsaved, snap, phase, v4nonce, addrs, answer>> /\ doing["v6"] = "start"
      /\ \A a \in Addrs : v6pinholes'[a] = v6pinholes[a] \/ (v6pinholes'[a] = NoHole /\ a \notin unasked')
      /\ DOMAIN v6pinholes' = Addrs /\ unasked' \subseteq Addrs /\ then' \in {"each", "remove"}
      /\ DOMAIN doing' = Writers /\ doing'["v6"] \in {"idle", "each", "copy"}
      /\ doing'["v4"] = IF doing["v4"] = "due" /\ doing'["v6"] = "idle" THEN "ask" ELSE doing["v4"]
  BY Places DEF RefreshV6Pinholes, disk, Saves, Shape, Writers
<1>2. /\ \A a \in Addrs : Current'[a] = Current[a] \/ Current'[a] = None
      /\ Current'[V4] = Current[V4]
  BY <1>1, HoleFields, PinholeAssumption DEF Current, Keys, Nonce
<1>3. Shape' /\ RenewsHeld'
  BY <1>1 DEF Saves, Shape, RenewsHeld, Writers
<1>4. V4Saves'
  BY <1>1, Zenon DEF Saves, V4Saves, Alive, CopiesIn, Writers
<1>5. BootSaves'
  <2>. SUFFICES ASSUME phase = "boot", NEW a \in Addrs
                PROVE  /\ Current'[a] # None => CopiesIn(a, {None, Current[a]})'
                       /\ Ahead(a)' /\ v6pinholes'[a] = NoHole => CopiesIn(a, {None})'
    BY <1>1 DEF BootSaves
  <2>1. Ahead(a)' /\ v6pinholes'[a] = NoHole => Ahead(a) /\ v6pinholes[a] = NoHole
    BY <1>1 DEF Ahead
  <2>2. /\ Current[a] # None => CopiesIn(a, {None, Current[a]})
        /\ Ahead(a) /\ v6pinholes[a] = NoHole => CopiesIn(a, {None})
    BY DEF Saves, BootSaves
  <2>3. /\ UNCHANGED <<file, tmp, unsaved, snap>>
        /\ \A p \in Writers : doing'[p] = "rename" => doing[p] = "rename"
    BY <1>1 DEF Writers
  <2>4. Current'[a] # None => Current'[a] = Current[a]
    BY <1>2
  <2>. QED
    BY <2>1, <2>2, <2>3, <2>4, Zenon DEF CopiesIn
<1>6. RunSaves'
  BY <1>1, <1>2 DEF Saves, RunSaves, Writers
<1>. QED
  BY <1>3, <1>4, <1>5, <1>6 DEF Saves

(* An answer that is stored has the nonce held, or, where none was held,   *)
(* a nonce that no copy contradicts.                                       *)
LEMMA StoreSaves ==
    ASSUME Saves, storePinhole
    PROVE  Saves'
<1>. DEFINE b == answer.addr
<1>1. /\ UNCHANGED <<file, tmp, unsaved, snap, phase, v4nonce, addrs, unasked>> /\ doing["v6"] = "asked"
      /\ then' = "each" /\ b \in Addrs
  BY Zenon DEF storePinhole, disk, Saves, Shape
<1>2. CASE answer.hole = NoHole
  <2>1. doing' = [doing EXCEPT !["v6"] = "each"] /\ UNCHANGED v6pinholes
    BY <1>2 DEF storePinhole
  <2>. QED
    BY <1>1, <2>1, QuietKeeps DEF Saves, Shape, RenewsHeld, RunSaves, Ahead, Writers
<1>3. CASE answer.hole # NoHole
  <2>1. doing' = [doing EXCEPT !["v6"] = "copy"] /\ v6pinholes' = [v6pinholes EXCEPT ![b] = answer.hole]
    BY <1>3 DEF storePinhole
  <2>2. /\ DOMAIN v6pinholes = Addrs /\ DOMAIN doing = Writers
        /\ v6pinholes'[b] = answer.hole /\ \A a \in Addrs : a # b => v6pinholes'[a] = v6pinholes[a]
        /\ DOMAIN v6pinholes' = Addrs /\ DOMAIN doing' = Writers
        /\ doing'["v6"] = "copy" /\ doing'["v4"] = doing["v4"]
    BY <1>1, <2>1 DEF Saves, Shape, Writers
  <2>3. \A a \in Addrs : Current'[a] = IF v6pinholes'[a].nonce = Zero THEN None ELSE v6pinholes'[a].nonce
    BY PinholeAssumption DEF Current, Keys, Nonce
  <2>4. Shape' /\ RenewsHeld'
    BY <1>1, <2>2 DEF Saves, Shape, RenewsHeld, Writers
  <2>5. V4Saves'
    BY <1>1, <2>2 DEF Saves, V4Saves, Alive, CopiesIn, Writers
  <2>6. BootSaves'
    <3>. SUFFICES ASSUME phase = "boot", NEW a \in Addrs
                  PROVE  /\ Current'[a] # None => CopiesIn(a, {None, Current[a]})'
                         /\ Ahead(a)' /\ v6pinholes'[a] = NoHole => CopiesIn(a, {None})'
      BY <1>1 DEF BootSaves
    <3>1. \A S : CopiesIn(a, S) => CopiesIn(a, S)'
      BY <1>1, <2>2 DEF CopiesIn, Writers
    <3>2. CASE a # b
      <4>1. Current'[a] = Current[a] /\ (Ahead(a)' => Ahead(a))
        BY <1>1, <2>2, <2>3, <3>2, CurrentOf DEF Ahead
      <4>. QED
        BY <2>2, <3>1, <3>2, <4>1 DEF Saves, BootSaves
    <3>3. CASE a = b /\ v6pinholes[b] # NoHole
      <4>1. Current'[a] # None => Current'[a] = Current[a]
        BY <1>1, <1>3, <2>2, <2>3, <3>3, CurrentOf DEF Saves, RenewsHeld, Alive
      <4>. QED
        BY <1>3, <2>2, <3>1, <3>3, <4>1 DEF Saves, BootSaves
    <3>4. CASE a = b /\ v6pinholes[b] = NoHole
      <4>1. CopiesIn(a, {None})'
        BY <1>1, <3>1, <3>4, Zenon DEF Saves, BootSaves, Ahead
      <4>. QED
        BY <4>1 DEF CopiesIn
    <3>. QED
      BY <3>2, <3>3, <3>4, Zenon
  <2>7. RunSaves'
    BY <1>1, <2>2 DEF Saves, RunSaves, Writers
  <2>. QED
    BY <2>4, <2>5, <2>6, <2>7 DEF Saves
<1>. QED
  BY <1>2, <1>3

(* The IPv4 nonce is made only where there is none.                        *)
LEMMA MapSaves ==
    ASSUME Saves, tryPCPv4
    PROVE  Saves'
<1>1. /\ UNCHANGED <<file, tmp, unsaved, snap, phase, v6pinholes, addrs, unasked, answer, then>>
      /\ doing["v4"] = "ask" /\ (v4nonce' = v4nonce \/ v4nonce = None)
  BY DEF tryPCPv4, disk, refresh
<1>2. doing'["v6"] = doing["v6"] /\ doing'["v4"] \in {"copy", "idle"} /\ DOMAIN doing' = Writers
  BY DEF tryPCPv4, Saves, Shape, Writers
<1>3. \A a \in Addrs : Current'[a] = Current[a]
  BY <1>1, PinholeAssumption DEF Current, Keys, Nonce
<1>4. Shape' /\ RenewsHeld'
  BY <1>1, <1>2 DEF Saves, Shape, RenewsHeld, Alive, Writers
<1>5. V4Saves'
  BY <1>1, <1>2 DEF Saves, V4Saves, Alive, CopiesIn, Writers
<1>6. BootSaves'
  <2>. SUFFICES ASSUME phase = "boot", NEW a \in Addrs
                PROVE  /\ Current'[a] # None => CopiesIn(a, {None, Current[a]})'
                       /\ Ahead(a)' /\ v6pinholes'[a] = NoHole => CopiesIn(a, {None})'
    BY <1>1 DEF BootSaves
  <2>1. \A S : CopiesIn(a, S) => CopiesIn(a, S)'
    BY <1>1, <1>2 DEF CopiesIn, Writers
  <2>2. Ahead(a)' => Ahead(a)
    BY <1>1, <1>2 DEF Ahead
  <2>. QED
    BY <1>1, <1>3, <2>1, <2>2 DEF Saves, BootSaves
<1>7. RunSaves'
  BY <1>1, <1>2, <1>3 DEF Saves, RunSaves, Writers
<1>. QED
  BY <1>4, <1>5, <1>6, <1>7 DEF Saves

(* The first tick finds both goroutines of the start done.                 *)
LEMMA TickSaves ==
    ASSUME Saves, PHTick
    PROVE  Saves'
<1>1. /\ UNCHANGED <<file, tmp, unsaved, snap, v4nonce, v6pinholes, addrs, unasked, answer, then>>
      /\ phase \in {"boot", "run"} /\ phase' = "run" /\ doing["v6"] = "idle"
      /\ DOMAIN doing' = Writers /\ doing'["v4"] = "due" /\ doing'["v6"] = "start"
  BY Places DEF PHTick, client, disk, refresh, Writers
<1>2. Current' = Current
  BY <1>1 DEF Current, Nonce
<1>3. Shape' /\ RenewsHeld' /\ BootSaves'
  BY <1>1, Zenon DEF Saves, Shape, RenewsHeld, BootSaves, Writers
<1>4. V4Saves'
  BY <1>1, Zenon DEF Saves, V4Saves, Alive, CopiesIn, Writers
<1>5. ~unsaved => \A a \in Addrs : Current[a] # None => file[a] \in {None, Current[a]}
  BY <1>1 DEF Saves, BootSaves, RunSaves, CopiesIn
<1>6. RunSaves'
  BY <1>1, <1>2, <1>5 DEF RunSaves, Writers
<1>. QED
  BY <1>3, <1>4, <1>6 DEF Saves

(* A process that starts has the nonces of the file, and no other copies.  *)
LEMMA StartSaves ==
    ASSUME Saves, StartUp
    PROVE  Saves'
<1>1. /\ UNCHANGED <<file, snap, addrs, unasked, answer, then>> /\ v4nonce' = file[V4] /\ phase' = "boot"
      /\ \A a \in Addrs : v6pinholes'[a] = IF file[a] = None THEN NoHole ELSE [nonce |-> file[a], via |-> "pcp"]
      /\ DOMAIN v6pinholes' = Addrs
      /\ DOMAIN doing' = Writers /\ doing'["v4"] = "ask" /\ doing'["v6"] = "start" /\ phase = "down"
  BY Places DEF StartUp, disk, refresh
<1>2. \A p \in Writers : \A k \in Keys : snap'[p][k] = None
  BY <1>1 DEF Saves, Shape, NoFile
<1>3. Shape' /\ RenewsHeld' /\ RunSaves'
  BY <1>1 DEF Saves, Shape, RenewsHeld, RunSaves, Writers
<1>4. V4Saves'
  BY <1>1, <1>2 DEF V4Saves, CopiesIn, Keys, Writers
<1>5. BootSaves'
  <2>1. \A a \in Addrs : Current'[a] = IF v6pinholes'[a].nonce = Zero THEN None ELSE v6pinholes'[a].nonce
    BY PinholeAssumption DEF Current, Keys, Nonce
  <2>2. \A a \in Addrs : (Current'[a] # None => file[a] = Current'[a]) /\ (v6pinholes'[a] = NoHole => file[a] = None)
    BY <1>1, <2>1, HoleFields
  <2>3. file' = file /\ \A p \in Writers : doing'[p] # "rename"
    BY <1>1 DEF Writers
  <2>4. \A a \in Addrs : \A p \in Writers : snap'[p][a] = None
    BY <1>2 DEF Keys
  <2>. QED
    BY <2>2, <2>3, <2>4 DEF BootSaves, CopiesIn
<1>. QED
  BY <1>3, <1>4, <1>5 DEF Saves

LEMMA SavesInductive ==
    ASSUME Saves, [PHNext]_phVars
    PROVE  Saves'
<1>1. CASE Steps6
  BY <1>1, PersistSaves, RefreshKeeps, ForgetSaves, StoreSaves DEF Steps6, Persisting, Writers
<1>2. CASE Steps4
  BY <1>2, PersistSaves, MapSaves, Zenon DEF Steps4, Persisting, Writers
<1>3. ASSUME UNCHANGED <<client, disk, doing, refresh, snap, phase>>, addrs' \subseteq Addrs PROVE Saves'
  <2>1. UNCHANGED <<v6pinholes, v4nonce, file, tmp, unsaved, doing, unasked, answer, then, snap, phase>>
    BY <1>3, Zenon DEF client, disk, refresh
  <2>2. Shape' /\ RenewsHeld' /\ \A a \in Addrs : Ahead(a)' => Ahead(a)
    BY <1>3, <2>1 DEF Saves, Shape, RenewsHeld, Alive, Ahead
  <2>. QED
    BY <2>1, <2>2, QuietKeeps DEF Saves, RunSaves
<1>4. CASE StaysDown \/ AddressesChange \/ CalmDown \/ UNCHANGED phVars
  BY <1>3, <1>4 DEF StaysDown, AddressesChange, CalmDown, phVars, Saves, Shape
<1>5. CASE PHStop
  <2>1. /\ DOMAIN v6pinholes' = Addrs /\ UNCHANGED <<doing, snap, addrs, unasked, answer, then>> /\ phase' = "stopped"
    BY <1>5, Zenon DEF PHStop, refresh
  <2>. QED
    BY <2>1, Zenon DEF Saves, Shape, RenewsHeld, V4Saves, BootSaves, RunSaves, Alive
<1>6. CASE Exit \/ Crash
  <2>1. Ends
    BY <1>6 DEF Exit, Crash
  <2>2. /\ DOMAIN v6pinholes' = Addrs /\ doing' = Resting /\ phase' = "down" /\ addrs' = addrs
        /\ unasked' = {} /\ then' = "each" /\ DOMAIN snap' = Writers /\ \A p \in Writers : snap'[p] = NoFile
    BY <2>1 DEF Ends, Fresh, Writers
  <2>. QED
    BY <2>2, Places DEF Saves, Shape, RenewsHeld, V4Saves, BootSaves, RunSaves, Alive, Writers
<1>. QED
  BY <1>1, <1>2, <1>4, <1>5, <1>6, TickSaves, StartSaves DEF PHNext

LEMMA InitSaves ==
    ASSUME PHInit
    PROVE  Saves
<1>1. /\ \A p \in Writers : \A k \in Keys : snap[p][k] = None
      /\ \A k \in Keys : file[k] = None
      /\ \A a \in Addrs : v6pinholes[a] = NoHole
  BY DEF PHInit, NoFile, Writers
<1>2. Shape /\ RenewsHeld /\ RunSaves
  BY Places DEF PHInit, Shape, RenewsHeld, RunSaves, Writers
<1>3. \A k \in Keys : \A S : None \in S => CopiesIn(k, S)
  BY <1>1 DEF PHInit, CopiesIn
<1>. QED
  BY <1>2, <1>3 DEF Saves, V4Saves, BootSaves, Keys

(* Whenever neither goroutine is at work, a nonce on disk for an address   *)
(* that has one in memory is the same nonce, for every number of addresses *)
(* and of lost calls: persistNonces may write an older snapshot last, but  *)
(* never one with another nonce for the same address.  After writes that   *)
(* failed this holds again from the next one on that does not, and for the *)
(* IPv4 mapping's nonce it holds throughout.                               *)
THEOREM SavedNoncesAreCurrent == PHSpec => []SavedNonceIsCurrent
<1>1. PHInit => Saves
  BY InitSaves
<1>2. Saves /\ [PHNext]_phVars => Saves'
  BY SavesInductive
<1>3. Saves => SavedNonceIsCurrent
  <2>. SUFFICES ASSUME Saves, AtRest PROVE Outdated = {} \/ (unsaved /\ V4 \notin Outdated)
    BY DEF SavedNonceIsCurrent
  <2>1. V4 \notin Outdated
    BY CurrentOf DEF Outdated, Saves, V4Saves, CopiesIn, Alive, AtRest
  <2>2. ASSUME ~unsaved, NEW a \in Addrs PROVE a \notin Outdated
    BY <2>2, Places DEF Outdated, Saves, BootSaves, RunSaves, CopiesIn, AtRest
  <2>. QED
    BY <2>1, <2>2 DEF Outdated, Keys
<1>. QED
  BY <1>1, <1>2, <1>3, PTL DEF PHSpec

-------------------------------------------------------------------------------
(* The relay shim.                                                         *)

(* What the invariants of RelayShim rest on: the types, that only closeAll *)
(* has sockets in leaving, and that a socket is dialled once.              *)
Types ==
    /\ run \in {"bind", "read", "write", "close", "closeall", "over"}
    /\ current \in Sockets \cup {NoSocket}
    /\ run = "close" => current \in Sockets
    /\ cancelled \in BOOLEAN /\ failed \in BOOLEAN
    /\ table \in [Ids -> Sockets \cup {NoSocket}]
    /\ dialled \subseteq Sockets /\ open \subseteq dialled
    /\ leaving # {} => run = "closeall"

IInv == Types /\ OneOwner /\ Ceiling /\ TunnelsAnswer

(* A new shim has no tunnels.                                              *)
LEMMA InitEstablishes ==
    ASSUME MaxTunnels \in Nat, Init
    PROVE  IInv
<1>1. Tunnels = {}
  BY DEF Init, Tunnels
<1>2. Held = {}
  BY <1>1 DEF Held
<1>3. Types /\ OneOwner
  BY <1>1, <1>2, Zenon DEF Init, Types, OneOwner, Closing
<1>4. Ceiling
  BY <1>1, FS_EmptySet DEF Ceiling
<1>5. TunnelsAnswer
  BY <1>2 DEF TunnelsAnswer
<1>. QED
  BY <1>3, <1>4, <1>5 DEF IInv

(* A step that only takes tunnels out of the table keeps to the ceiling.   *)
LEMMA FewerTunnels ==
    ASSUME MaxTunnels \in Nat, Ceiling, Tunnels' \subseteq Tunnels
    PROVE  Ceiling'
<1>1. IsFiniteSet(Tunnels') /\ Cardinality(Tunnels') <= Cardinality(Tunnels)
  BY FS_Subset DEF Ceiling
<1>2. Cardinality(Tunnels) \in Nat /\ Cardinality(Tunnels') \in Nat
  BY <1>1, FS_CardinalityType DEF Ceiling
<1>. QED
  BY <1>1, <1>2 DEF Ceiling

(* toWireGuard with a new tunnel: the socket is fresh, and there is room.  *)
LEMMA NewTunnelPreserves ==
    ASSUME NoSocket \notin Sockets, MaxTunnels \in Nat, IInv,
           NEW i \in Ids, NEW s \in Sockets, NewTunnel(i, s)
    PROVE  IInv'
<1>1. Tunnels' = Tunnels \cup {i} /\ i \notin Tunnels
  BY DEF NewTunnel, Tunnels, IInv, Types
<1>2. \A j \in Tunnels : table'[j] = table[j]
  BY DEF NewTunnel, Tunnels, IInv, Types
<1>3. table'[i] = s
  BY DEF NewTunnel, IInv, Types
<1>4. Held' = Held \cup {s}
  BY <1>1, <1>2, <1>3 DEF Held
<1>5. s \notin open /\ s \notin Held
  BY DEF NewTunnel, IInv, Types, OneOwner
<1>6. Closing = {} /\ Closing' = {}
  BY DEF NewTunnel, Closing
<1>7. Types'
  BY DEF NewTunnel, IInv, Types
<1>8. OneOwner'
  <2>1. open' = Held' \cup Closing' \cup expired' \cup leaving'
    BY <1>4, <1>6 DEF NewTunnel, IInv, OneOwner
  <2>2. \A j, k \in Tunnels' : table'[j] = table'[k] => j = k
    BY <1>1, <1>2, <1>3, <1>5 DEF IInv, OneOwner, Held
  <2>3. Held' \cap (Closing' \cup expired' \cup leaving') = {} /\ expired' \cap leaving' = {}
    BY <1>4, <1>5, <1>6 DEF NewTunnel, IInv, OneOwner
  <2>. QED
    BY <1>6, <2>1, <2>2, <2>3 DEF OneOwner
<1>9. Ceiling'
  <2>1. IsFiniteSet(Tunnels') /\ Cardinality(Tunnels') = Cardinality(Tunnels) + 1
    BY <1>1, FS_AddElement DEF IInv, Ceiling
  <2>2. Cardinality(Tunnels) \in Nat /\ Cardinality(Tunnels) < MaxTunnels
    BY FS_CardinalityType DEF NewTunnel, IInv, Ceiling
  <2>. QED
    BY <2>1, <2>2 DEF Ceiling
<1>10. TunnelsAnswer'
  BY <1>4 DEF NewTunnel, IInv, TunnelsAnswer
<1>. QED
  BY <1>7, <1>8, <1>9, <1>10 DEF IInv

(* A CLOSE frame takes one tunnel out of the table, into run's hands.      *)
LEMMA TakeTunnelPreserves ==
    ASSUME NoSocket \notin Sockets, MaxTunnels \in Nat, IInv, NEW i \in Ids, TakeTunnel(i)
    PROVE  IInv'
<1>1. Tunnels' = Tunnels \ {i} /\ i \in Tunnels
  BY DEF TakeTunnel, sockets, Tunnels, IInv, Types
<1>2. \A j \in Tunnels' : table'[j] = table[j]
  BY <1>1 DEF TakeTunnel, sockets, Tunnels, IInv, Types
<1>3. Held' = Held \ {table[i]} /\ table[i] \in Held
  BY <1>1, <1>2 DEF Held, IInv, OneOwner
<1>4. table[i] \in Sockets
  BY DEF TakeTunnel, sockets, Tunnels, IInv, Types
<1>5. Closing = {} /\ Closing' = {table[i]}
  BY DEF TakeTunnel, sockets, Closing
<1>6. Types'
  BY <1>4 DEF TakeTunnel, sockets, IInv, Types
<1>7. OneOwner'
  <2>1. open' = Held' \cup Closing' \cup expired' \cup leaving'
    BY <1>3, <1>5 DEF TakeTunnel, sockets, IInv, OneOwner
  <2>2. \A j, k \in Tunnels' : table'[j] = table'[k] => j = k
    BY <1>1, <1>2 DEF IInv, OneOwner
  <2>3. /\ Held' \cap (Closing' \cup expired' \cup leaving') = {}
        /\ Closing' \cap (expired' \cup leaving') = {}
        /\ expired' \cap leaving' = {}
    BY <1>3, <1>5 DEF TakeTunnel, sockets, IInv, OneOwner
  <2>. QED
    BY <2>1, <2>2, <2>3 DEF OneOwner
<1>8. Ceiling'
  BY <1>1, FewerTunnels DEF IInv
<1>9. TunnelsAnswer'
  BY <1>3 DEF TakeTunnel, sockets, IInv, TunnelsAnswer
<1>. QED
  BY <1>6, <1>7, <1>8, <1>9 DEF IInv

(* reapOnce takes the idle tunnels out of the table.                       *)
LEMMA ReapPreserves ==
    ASSUME NoSocket \notin Sockets, MaxTunnels \in Nat, IInv, Reap
    PROVE  IInv'
<1>1. Tunnels' = {i \in Tunnels : table[i] \notin idle}
  BY DEF Reap, sockets, Tunnels, IInv, Types
<1>2. \A j \in Tunnels' : table'[j] = table[j]
  BY <1>1 DEF Reap, sockets, Tunnels, IInv, Types
<1>3. Held' = Held \ idle
  BY <1>1, <1>2 DEF Held
<1>4. Closing' = Closing
  BY DEF Reap, sockets, Closing
<1>5. Types'
  BY DEF Reap, sockets, IInv, Types
<1>6. OneOwner'
  <2>1. open' = Held' \cup Closing' \cup expired' \cup leaving'
    BY <1>3, <1>4 DEF Reap, sockets, IInv, OneOwner
  <2>2. \A j, k \in Tunnels' : table'[j] = table'[k] => j = k
    BY <1>1, <1>2 DEF IInv, OneOwner
  <2>3. /\ Held' \cap (Closing' \cup expired' \cup leaving') = {}
        /\ Closing' \cap (expired' \cup leaving') = {}
        /\ expired' \cap leaving' = {}
    BY <1>3, <1>4 DEF Reap, sockets, IInv, OneOwner
  <2>. QED
    BY <2>1, <2>2, <2>3 DEF OneOwner
<1>7. Ceiling'
  BY <1>1, FewerTunnels DEF IInv
<1>8. TunnelsAnswer'
  BY <1>3 DEF Reap, sockets, IInv, TunnelsAnswer
<1>. QED
  BY <1>5, <1>6, <1>7, <1>8 DEF IInv

(* closeAll empties the table.                                             *)
LEMMA CloseAllPreserves ==
    ASSUME MaxTunnels \in Nat, IInv, CloseAll
    PROVE  IInv'
<1>1. Tunnels' = {}
  BY DEF CloseAll, sockets, Tunnels
<1>2. Held' = {}
  BY <1>1 DEF Held
<1>3. Closing = {} /\ Closing' = {} /\ leaving = {}
  BY DEF CloseAll, sockets, Closing, IInv, Types
<1>4. Types'
  BY DEF CloseAll, sockets, IInv, Types
<1>5. OneOwner'
  BY <1>1, <1>2, <1>3 DEF CloseAll, sockets, IInv, OneOwner
<1>6. Ceiling'
  BY <1>1, FewerTunnels DEF IInv
<1>7. TunnelsAnswer'
  BY <1>2 DEF TunnelsAnswer
<1>. QED
  BY <1>4, <1>5, <1>6, <1>7 DEF IInv

(* A step that leaves the table alone.                                     *)
LEMMA SameTable ==
    ASSUME table' = table, Ceiling
    PROVE  Tunnels' = Tunnels /\ Held' = Held /\ Ceiling'
BY DEF Tunnels, Held, Ceiling

(* A socket is closed by the one that holds it.                            *)
LEMMA ClosesPreserve ==
    ASSUME NoSocket \notin Sockets, IInv,
           CloseTunnel \/ \E s \in Sockets : CloseOne(s) \/ CloseExpired(s)
    PROVE  IInv'
<1>1. Tunnels' = Tunnels /\ Held' = Held /\ Ceiling' /\ table' = table
  BY SameTable DEF CloseTunnel, CloseOne, CloseExpired, IInv
<1>2. CASE CloseTunnel
  <2>1. Closing = {current} /\ Closing' = {}
    BY <1>2 DEF CloseTunnel, Closing
  <2>2. Types'
    BY <1>2 DEF CloseTunnel, IInv, Types
  <2>3. OneOwner'
    BY <1>1, <1>2, <2>1 DEF CloseTunnel, IInv, OneOwner
  <2>4. TunnelsAnswer'
    BY <1>1, <1>2 DEF CloseTunnel, IInv, TunnelsAnswer
  <2>. QED
    BY <1>1, <2>2, <2>3, <2>4 DEF IInv
<1>3. CASE \E s \in Sockets : CloseOne(s) \/ CloseExpired(s)
  <2>1. PICK s \in Sockets : CloseOne(s) \/ CloseExpired(s)
    BY <1>3
  <2>2. Closing' = Closing
    BY <2>1 DEF CloseOne, CloseExpired, Closing
  <2>3. Types'
    BY <2>1 DEF CloseOne, CloseExpired, IInv, Types
  <2>4. OneOwner'
    BY <1>1, <2>1, <2>2 DEF CloseOne, CloseExpired, IInv, OneOwner
  <2>5. TunnelsAnswer'
    BY <1>1, <2>1 DEF CloseOne, CloseExpired, IInv, TunnelsAnswer
  <2>. QED
    BY <1>1, <2>3, <2>4, <2>5 DEF IInv
<1>. QED
  BY <1>2, <1>3

(* The other steps change neither the table nor what is open.              *)
LEMMA OthersPreserve ==
    ASSUME NoSocket \notin Sockets, IInv,
           \/ Bind \/ ToWireGuard \/ Return \/ KeepaliveEnds \/ Cancel \/ UNCHANGED vars
           \/ \E i \in Ids : KnownTunnel(i)
           \/ \E s \in Sockets : PumpEnds(s) \/ Reply(s) \/ GoesIdle(s)
    PROVE  IInv'
<1>. USE DEF Bind, ToWireGuard, Return, KeepaliveEnds, Cancel, vars, sockets, KnownTunnel, PumpEnds, Reply, GoesIdle
<1>1. table' = table /\ open' = open /\ expired' = expired /\ leaving' = leaving /\ dialled' = dialled
  BY Zenon
<1>2. Tunnels' = Tunnels /\ Held' = Held /\ Ceiling'
  BY <1>1, SameTable, Zenon DEF IInv
<1>3. Closing' = Closing
  BY Zenon DEF Closing
<1>4. Types'
  BY <1>1, Zenon DEF IInv, Types, Tunnels
<1>5. OneOwner'
  BY <1>1, <1>2, <1>3, Zenon DEF IInv, OneOwner
<1>6. TunnelsAnswer'
  <2>. SUFFICES ASSUME ~failed', ~cancelled' PROVE Held \subseteq pumping'
    BY <1>2, Zenon DEF TunnelsAnswer
  <2>1. ~failed /\ ~cancelled
    BY Zenon DEF IInv, Types
  <2>2. Held \subseteq pumping /\ Held \subseteq open
    BY <2>1, Zenon DEF IInv, TunnelsAnswer, OneOwner
  <2>. QED
    BY <2>1, <2>2, Zenon
<1>. QED
  BY <1>2, <1>4, <1>5, <1>6, Zenon DEF IInv

LEMMA NextPreserves ==
    ASSUME NoSocket \notin Sockets, MaxTunnels \in Nat, IInv, [Next]_vars
    PROVE  IInv'
<1>1. \A s \in leaving : s \in Sockets
  BY DEF IInv, Types, OneOwner
<1>. QED
  BY <1>1, NewTunnelPreserves, TakeTunnelPreserves, ReapPreserves, CloseAllPreserves,
     ClosesPreserve, OthersPreserve DEF Next, RunStep, Finish

(* The invariant of RelayShim is inductive.                                *)
THEOREM ShimInvariance ==
    ASSUME NoSocket \notin Sockets, MaxTunnels \in Nat
    PROVE  Spec => []IInv
<1>1. Init => IInv
  BY InitEstablishes
<1>2. IInv /\ [Next]_vars => IInv'
  BY NextPreserves
<1>. QED
  BY <1>1, <1>2, PTL DEF Spec

(* Whatever the goroutines of a session do at the same time (shim.go), an  *)
(* open loopback socket has exactly one owner, which will close it: none   *)
(* leaks and none is closed twice.                                         *)
THEOREM SocketsHaveOneOwner ==
    ASSUME NoSocket \notin Sockets, MaxTunnels \in Nat
    PROVE  Spec => []OneOwner
BY ShimInvariance, PTL DEF IInv

(* The table never holds more than maxTunnels tunnels.                     *)
THEOREM CeilingHolds ==
    ASSUME NoSocket \notin Sockets, MaxTunnels \in Nat
    PROVE  Spec => []Ceiling
BY ShimInvariance, PTL DEF IInv

(* As long as no replyPump has met an error, every tunnel in the table has *)
(* one.                                                                    *)
THEOREM TunnelsArePumped ==
    ASSUME NoSocket \notin Sockets, MaxTunnels \in Nat
    PROVE  Spec => []TunnelsAnswer
BY ShimInvariance, PTL DEF IInv
===============================================================================
