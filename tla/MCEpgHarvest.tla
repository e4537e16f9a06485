----------------------------- MODULE MCEpgHarvest -----------------------------
(***************************************************************************)
(* Two services that number their sections and events alike; one corrects  *)
(* its placeholder.  The events start on the last day of a January and the *)
(* last two of a February, the very last being one whose date comes out    *)
(* wrong.                                                                  *)
(***************************************************************************)
EXTENDS EpgHarvest

Programme(i, d, l, g) == [id |-> i, start |-> d, letters |-> l, genres |-> g]

Sections ==
    LET Of(v, t, n, k, es) ==
          [service |-> v, table |-> t, number |-> n, version |-> k, events |-> es]
    IN { Of(1, "pf", 0, 0, {Programme(7, 60733, 1, 0)}),
         Of(1, "pf", 0, 1, {Programme(7, 60733, 2, 1)}),
         Of(2, "pf", 0, 0, {Programme(7, 60734, 2, 0)}),
         Of(1, "schedule", 0, 0,
              {Programme(7, 60733, 0, 1), Programme(8, 60706, 1, 0)}),
         Of(1, "other", 0, 0, {Programme(9, 60733, 1, 0)}) }

(* A bit lost in the service id, or in the text.                           *)
Damaged(s) == [s EXCEPT !.service = 3 - @,
                        !.events = {[e EXCEPT !.genres = 2] : e \in @}]
=============================================================================
