---------------------------- MODULE MCScanCommand ----------------------------
(***************************************************************************)
(* Two scanners; a mux whose SDT has two sections and then, in its next    *)
(* version, one, and a mux whose one service is not named.                 *)
(***************************************************************************)
EXTENDS ScanCommand, TLC

CONSTANTS p1, p2, k1, k2, k3, t1, t2, c1

Service(k, t) == [key |-> k, name |-> Title(t)]

Tables ==
    LET Of(v, n, l, svcs) ==
          [version |-> v, number |-> n, last |-> l, services |-> svcs, intact |-> TRUE]
    IN <<{Of(0, 0, 1, <<Service(k1, t1)>>), Of(0, 1, 1, <<Service(k2, t1)>>),
          Of(1, 0, 0, <<Service(k2, t1)>>)},
         {Of(0, 0, 0, <<[key |-> k3, name |-> Placeholder(k3)]>>)}>>

ProgramsOf == <<<<k1, k2>>, <<k3>>>>

(* A bit of the number and of a name, or of the syntax indicator.          *)
Garbled(s) ==
    LET bad == [s EXCEPT !.intact = FALSE, !.services = <<Service(k1, t2)>>]
    IN {[bad EXCEPT !.number = 1 - @],
        [bad EXCEPT !.number = NoNumber, !.last = 0, !.version = 0]}

Files ==
    {[kind |-> "absent", records |-> <<>>],
     [kind |-> "bare", records |-> <<Service(k3, t1)>>],
     [kind |-> "document",
      records |-> <<[key |-> k3, name |-> Title(c1), aliases |-> {}]>>]}

(* One scanner hears enough for damage and corrections, the other for a    *)
(* list.                                                                   *)
Copies == (p1 :> 3) @@ (p2 :> 1)
=============================================================================
