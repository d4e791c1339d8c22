------------------------------ MODULE MCReplay ------------------------------
(* An instance of Replay for TLC.                                          *)
EXTENDS Replay

Message(type, size, price, shares, ts) ==
    [size |-> size, type |-> type, buysell |-> "B", price |-> price, shares |-> shares,
     ts |-> ts]

\* Additions of every timestamp, and one of each kind of message that is none.
MCPayloads ==
    {Message("A", "whole", 1, 1, ts) : ts \in 0..2}
    \cup {[Message("F", "whole", 1, 1, 3) EXCEPT !.buysell = "other"],
          Message("A", "short", 1, 1, 1), Message("other", "whole", 1, 1, 1),
          Message("A", "whole", 0, 1, 1), Message("A", "whole", 1, 0, 1), Empty}
=============================================================================
