---------------------------- MODULE MCOtaUpdate ----------------------------
(***************************************************************************)
(* TLC instance of OtaUpdate.  Two releases, so that an offer can replace  *)
(* another and a manifest can be somebody else's; three blocks in chunks   *)
(* of at most two, so that chunks are partial and the last one is short.   *)
(* A poll sees everything fine or one thing wrong, under either policy     *)
(* where the policy is looked at.                                          *)
(***************************************************************************)
EXTENDS OtaUpdate

CONSTANTS r1, r2

MCReleases == {r1, r2}
MCSize == 3
MCChunk == 2
MCMetaSize == 1
MCApiAttempts == 2

Fine == [ble |-> BleBuild, link |-> TRUE, online |-> TRUE, power |-> TRUE,
         direct |-> FALSE, busy |-> "no"]

MCInputs ==
  {Fine, [Fine EXCEPT !.direct = TRUE], [Fine EXCEPT !.ble = FALSE],
   [Fine EXCEPT !.link = FALSE], [Fine EXCEPT !.online = FALSE],
   [Fine EXCEPT !.power = FALSE], [Fine EXCEPT !.busy = "screen"],
   [Fine EXCEPT !.busy = "work"],
   [Fine EXCEPT !.direct = TRUE, !.online = FALSE],
   [Fine EXCEPT !.direct = TRUE, !.power = FALSE]}
=============================================================================
