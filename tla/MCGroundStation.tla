-------------------------- MODULE MCGroundStation ---------------------------
(***************************************************************************)
(* Stories for TLC: the flight controller arms and disarms while the       *)
(* transmitter reboots, changes its protocol, or reports its own state.    *)
(***************************************************************************)
EXTENDS GroundStation

Fc(extended, armed) ==
    [type |-> "fc", extended |-> extended, armed |-> armed]
Local(state) == [type |-> "local", state |-> state]

SmallStories ==
    {[content |-> <<Fc(TRUE, TRUE), Local("ACTIVE"), Fc(TRUE, FALSE)>>,
      rebootAt |-> 3],
     [content |-> <<Fc(TRUE, TRUE), Fc(FALSE, FALSE), Fc(TRUE, FALSE)>>,
      rebootAt |-> 4],
     [content |-> <<Local("ACTIVE"), Fc(TRUE, TRUE), Local("LOCKED")>>,
      rebootAt |-> 2]}
=============================================================================
