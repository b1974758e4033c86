--------------------------- MODULE MCEngineProcess ---------------------------
EXTENDS EngineProcess

CONSTANTS base, local, call

MCChains == {base, local}
MCRequests == {call}
MCNode(endpoint, opens, verifies) ==
    [endpoint |-> endpoint, opens |-> opens, verifies |-> verifies]

MCNodes ==
    {MCNode("unset", 0, 0), MCNode("unsound", 0, 0), MCNode("unsound", 20, 0),
     MCNode("sound", 0, 5), MCNode("sound", 5, 5), MCNode("sound", 5, 20), MCNode("sound", 20, 0)}

==============================================================================
