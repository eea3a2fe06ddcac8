-------------------------- MODULE MCStateMachine --------------------------
(* A machine with a loop, a transition to the same state and events that   *)
(* some states do not know.                                                *)
EXTENDS StateMachine

MCStates == {"start", "up", "down"}
MCMachine == {<<"start", "go", "up">>, <<"up", "halt", "down">>,
              <<"down", "go", "up">>, <<"down", "halt", "down">>}
MCFilter == [w \in {"w1", "w2"} |-> IF w = "w1" THEN {} ELSE {"down"}]
MCGood == [p \in {"p1"} |-> {"up"}]
MCBad == [p \in {"p1"} |-> {"down"}]
=============================================================================
