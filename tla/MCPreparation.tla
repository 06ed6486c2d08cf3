------------------------------ MODULE MCPreparation ------------------------------
(* Instance of Preparation: two versions are asked for, the later one without a  *)
(* required path, and somebody may bring a third that is no clone of anything.  *)
EXTENDS Preparation

CONSTANTS v1, v2, v3

MCVersions == {v1, v2, v3}
MCLacking == {v2, "none"}
MCUnversioned == {v3}
MCWanted == <<v1, v2>>
================================================================================
