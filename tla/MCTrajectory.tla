---------------------------- MODULE MCTrajectory ----------------------------
EXTENDS Trajectory

\* Every kind of call; a read and its respelling in one turn, the adjustment abbreviated or
\* respelled alone and beside itself, an adjustment the gate refuses, alone with a refusal in
\* words and behind one it executes.
MCTurns ==
    {[calls |-> calls, said |-> "nothing"] :
        calls \in {<<"read", "read_respelled">>,
                   <<"adjust_short">>, <<"adjust", "adjust_short">>,
                   <<"adjust_respelled">>, <<"adjust_respelled", "adjust">>,
                   <<"adjust", "overreach">>,
                   <<"read", "unknown">>, <<"no_number">>, <<"garbled">>}} \cup
    {[calls |-> <<"overreach">>, said |-> "refusal"]}
=============================================================================
