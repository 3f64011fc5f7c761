------------------------------ MODULE BusTable ------------------------------
(***************************************************************************)
(* What the device table promises those who look devices up in it: a       *)
(* device and an address are listed at most once, an entry keeps both      *)
(* until it is taken out, and a new device may take the place of the       *)
(* earlier one at its address in one step.  DeviceRegistry implements it;  *)
(* ClientConn relies on no more than this.                                 *)
(***************************************************************************)
CONSTANTS
    Handles,    \* device objects of the USB host library
    Addresses,  \* USB addresses, which are also devnum and busid
    Slots,      \* indices of devices[]
    Free        \* an entry that is not in_use

Listing == [handle : Handles, devnum : Addresses]

VARIABLE table

Listed == {s \in Slots : table[s] # Free}
At(a) == {s \in Listed : table[s].devnum = a}
ListedAs(h) == {s \in Listed : table[s].handle = h}
List(h, a) == [handle |-> h, devnum |-> a]

TableInit == table = [s \in Slots |-> Free]

Enter(s, h, a) ==
    /\ table[s] = Free
    /\ At(a) = {} /\ ListedAs(h) = {}
    /\ table' = [table EXCEPT ![s] = List(h, a)]

Replace(s, t, h, a) ==
    /\ s \in At(a)
    /\ ListedAs(h) = {}
    /\ t = s \/ table[t] = Free
    /\ table' = [table EXCEPT ![s] = Free, ![t] = List(h, a)]

Remove(s) ==
    /\ s \in Listed
    /\ table' = [table EXCEPT ![s] = Free]

TableNext ==
    /\ table' # table
    /\ \/ \E s \in Slots, h \in Handles, a \in Addresses : Enter(s, h, a)
       \/ \E s, t \in Slots, h \in Handles, a \in Addresses : Replace(s, t, h, a)
       \/ \E s \in Slots : Remove(s)

TableSpec == TableInit /\ [][TableNext]_table
=============================================================================
