---------------------------- MODULE MCControlPlane ----------------------------
(* Instances of ControlPlane.                                              *)
EXTENDS ControlPlane, TLC

(* Nothing distinguishes two public keys: the loops take them in any order.*)
KeySymmetry == Permutations(RealKeys)

OneMember == {CHOOSE m \in Members : TRUE}
OnePrefix == {CHOOSE p \in Prefixes : TRUE}

With(events, members, prefixes, orphan) ==
    [events |-> events, members |-> members, prefixes |-> prefixes, orphan |-> orphan]

Crowded == <<CHOOSE p \in OnePrefix : TRUE, 3>>

(* Two members with crashes, or with clean stops; two that may list one    *)
(* key; clean stops, or failing writes, with re-rolled prefixes; failing   *)
(* `wg set`.  Where Crowded is taken one address of the pool is left,      *)
(* otherwise two are.                                                      *)
PushSetups ==
    {With({"crash"}, Members, OnePrefix, NoIP),
     With({"stop"}, Members, OnePrefix, Crowded),
     With({"crash", "shared"}, Members, OnePrefix, Crowded),
     With({"stop"}, OneMember, Prefixes, NoIP),
     With({"crash", "save"}, OneMember, Prefixes, Crowded),
     With({"crash", "save", "wgset"}, OneMember, OnePrefix, Crowded)}

(* One combination of events on one prefix.                                *)
StopsAndCrashes == {With({"stop", "crash"}, OneMember, OnePrefix, NoIP)}
WgSetMayFail == {With({"wgset"}, OneMember, OnePrefix, NoIP)}
SharedKeys == {With({"shared"}, Members, OnePrefix, NoIP)}
===============================================================================
