----------------------------- MODULE AdapterLease -----------------------------
(***************************************************************************)
(* What the adapter lock promises a reader of a command's output: one      *)
(* command has the adapter at a time; while it serves, it serves exactly   *)
(* what its command line asked for; and it has stopped serving before      *)
(* another command gets the adapter.                                       *)
(***************************************************************************)
CONSTANTS
    Procs,
    Jobs,
    Promised            \* job |-> the [mux, pids] it may be served with

VARIABLES
    owner,              \* {}, or the one process that has the adapter, with its job
    serving             \* {}, or the one thing its output is made from

leaseVars == <<owner, serving>>

LeaseInit == owner = {} /\ serving = {}

Claim(p, j) ==
    /\ owner = {} /\ serving = {}
    /\ owner' = {[by |-> p, job |-> j]}
    /\ UNCHANGED serving

Serve ==
    /\ serving = {}
    /\ \E o \in owner : \E out \in Promised[o.job] : serving' = {out}
    /\ UNCHANGED owner

Stop ==
    /\ serving # {}
    /\ serving' = {}
    /\ UNCHANGED owner

Leave ==
    /\ owner # {} /\ serving = {}
    /\ owner' = {}
    /\ UNCHANGED serving

LeaseNext ==
    \/ \E p \in Procs, j \in Jobs : Claim(p, j)
    \/ Serve \/ Stop \/ Leave

LeaseSpec == LeaseInit /\ [][LeaseNext]_leaseVars
=============================================================================
