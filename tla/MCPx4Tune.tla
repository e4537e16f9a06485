------------------------------- MODULE MCPx4Tune -------------------------------
(***************************************************************************)
(* Packets of three bytes, any payload bytes for strays, reads of up to    *)
(* five bytes; frequencies at the edges of the plan and of its tolerance.  *)
(***************************************************************************)
EXTENDS Px4Tune

EdgeFrequencies ==
    {225142857, Centre(13) - 1, Centre(13), Centre(24) + 100001,
     Centre(24) - 1, Centre(62) + 100000, Centre(63)}
=============================================================================
