-------------------------------- MODULE UhfPlan --------------------------------
(***************************************************************************)
(* The UHF channels of ISDB-T as the px4 driver numbers them (px4.rs):     *)
(* frequencies in hertz, in 32 bits.                                       *)
(***************************************************************************)
EXTENDS Integers

UhfBase == 473142857
UhfSpacing == 6000000
FirstPhysical == 13
LastPhysical == 62
Tolerance == 100000

(* freq_no_for_physical.                                                   *)
FreqNo(ch) == ch + 50

Offset(freq) == freq - UhfBase
Physical(freq) == Offset(freq) \div UhfSpacing + FirstPhysical

(* What physical_from_frequency accepts.                                   *)
OnPlan(freq) ==
    /\ freq >= UhfBase
    /\ Physical(freq) <= LastPhysical
    /\ Offset(freq) % UhfSpacing <= Tolerance

(* The centre of a channel.                                                *)
Centre(ch) == UhfBase + (ch - FirstPhysical) * UhfSpacing
=============================================================================
