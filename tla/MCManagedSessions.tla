------------------------- MODULE MCManagedSessions -------------------------
(***************************************************************************)
(* TLC instance of ManagedSessions.  Two sessions show the prompt that is  *)
(* hidden while two wait; one of them has two requests, the other one.     *)
(***************************************************************************)
EXTENDS ManagedSessions, TLC

CONSTANTS s1, s2, t1, t2

MCControls == {s1, s2}
MCThreads == {t1, t2}
MCThreadsOf == (s1 :> {t1, t2}) @@ (s2 :> {t2})
MCWatched == {t2}
MCIds == 1..3
MCIdsApart == (s1 :> {1, 3}) @@ (s2 :> {2})
MCIdsShared == (s1 :> {1}) @@ (s2 :> {1})
MCMaxWire == 1
MCMaxDrops == 1
=============================================================================
