-------------------------- MODULE MCSectionAssembler --------------------------
(***************************************************************************)
(* Payloads of three cells; sections of one, two, four and seven cells: one*)
(* that shares a packet with others and one that needs up to four.         *)
(***************************************************************************)
EXTENDS SectionAssembler
=============================================================================
