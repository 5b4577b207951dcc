------------------------------ MODULE MCObjectives ------------------------------
(***************************************************************************)
(* An instance of Objectives for TLC.                                      *)
(***************************************************************************)
EXTENDS Objectives

CONSTANTS ann, bob, cid

MCMembers == {ann, bob, cid}
MCAnn == {ann}
MCCid == {cid}
MCNoOne == {}
=============================================================================
