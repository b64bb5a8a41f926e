------------------------------ MODULE MCAudioPath ------------------------------
(* A machine whose chip runs on a thread of its own; one that warps and    *)
(* drops its samples meanwhile; and one that warps and does not, and makes *)
(* more than is asked for at times.                                        *)
EXTENDS AudioPath

MCThreaded == [frame |-> {1}, threaded |-> TRUE, warps |-> FALSE, suppresses |-> FALSE]
MCWarping  == [frame |-> {1}, threaded |-> FALSE, warps |-> TRUE, suppresses |-> TRUE]
MCGenerous == [frame |-> {1, 2}, threaded |-> FALSE, warps |-> TRUE, suppresses |-> FALSE]
MCMachines == {MCThreaded, MCWarping, MCGenerous}
==============================================================================
