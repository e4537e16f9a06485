---------------------------- MODULE MCAdapterTune ----------------------------
(***************************************************************************)
(* Two processes, two muxes, three programs, a filter table that holds one *)
(* service and one tap more: a service's taps fit, those of two do not.    *)
(***************************************************************************)
EXTENDS AdapterTune

CONSTANTS m1, m2, p1, p2, p3

SharedSid ==    \* service 1 exists on both muxes, with other PIDs
    { [mux |-> m1, sid |-> 1, pmt |-> 10, es |-> {11}],
      [mux |-> m1, sid |-> 2, pmt |-> 20, es |-> {11, 21}],
      [mux |-> m2, sid |-> 1, pmt |-> 10, es |-> {12}] }

UniqueSids ==   \* LingerAssumption holds of these and FaultJobs
    { [mux |-> m1, sid |-> 1, pmt |-> 10, es |-> {11}],
      [mux |-> m2, sid |-> 2, pmt |-> 10, es |-> {12}] }

AllJobs ==      \* service 3 is in no PAT
    [kind : {"tune"}, mux : {m1}, sid : {1, 2, 3}]
      \cup [kind : {"tune"}, mux : {m2}, sid : {1}]
      \cup [kind : {"full"}, mux : {m2}, sid : {1}]
      \cup [kind : {"scan", "epg"}, mux : {m1, m2}, sid : {1}]

FaultJobs ==    \* one to be served, one that leaves the frontend elsewhere
    [kind : {"tune"}, mux : {m2}, sid : {2}]
      \cup [kind : {"scan"}, mux : {m1}, sid : {1}]

TwoEitPids == {18, 39}
=============================================================================
