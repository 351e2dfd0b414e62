---------------------------- MODULE MCFrontDoor ----------------------------
(* The sizes of the instances of FrontDoor.  Truncated, the shorter text   *)
(* gets longer and the longer one shorter.                                 *)
EXTENDS FrontDoor

CONSTANTS agent, passerby, stranger

MCKeys == {agent, passerby, stranger}
MCLengths == {2, 5}
=============================================================================
