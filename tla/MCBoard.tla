------------------------------ MODULE MCBoard ------------------------------
(***************************************************************************)
(* Board for TLC: a native pin and the expander pin that powers the USB    *)
(* port, two networks' credentials of which one pair works and one         *)
(* password is too short for the driver, and wire lists with a repeated    *)
(* pin, a name of the full length, a missing name, a pull pin and a pin of *)
(* another board.                                                          *)
(***************************************************************************)
EXTENDS Board

TheWorks == {[ssid |-> "s2", pass |-> "p2"]}
TheRejects == [ssid : {"s1", "s2"}, pass : {"p1"}]
ThePins == <<"T2", "E1_15">>
Lists ==
    {<<>>,
     <<[pin |-> "T2", wire |-> "w"], [pin |-> "T2", wire |-> "long"]>>,
     <<[pin |-> "T2", wire |-> Absent], [pin |-> "E1_15", wire |-> "w"]>>,
     <<[pin |-> "E0_8", wire |-> "w"]>>,
     <<[pin |-> "X", wire |-> "w"], [pin |-> "T2", wire |-> Unwired], [pin |-> "T2", wire |-> "w"]>>}
=============================================================================
