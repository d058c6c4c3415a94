---------------------------- MODULE WatchedStore ----------------------------
(***************************************************************************)
(* What a watch promises its reader: a store changes from version to       *)
(* version, and the reader sees versions that are never older than the one *)
(* it saw before and never newer than the store's.  It may skip versions.  *)
(***************************************************************************)
EXTENDS Naturals

VARIABLES ver,    \* the store's version
          seen    \* the version the reader saw last; 0 before the first

watchedVars == <<ver, seen>>

Update == /\ ver' = ver + 1
          /\ UNCHANGED seen

See == /\ seen' \in seen .. ver
       /\ UNCHANGED ver

Init == ver = 1 /\ seen = 0

Next == Update \/ See

Spec == Init /\ [][Next]_watchedVars
=============================================================================
