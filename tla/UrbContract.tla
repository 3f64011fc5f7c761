---------------------------- MODULE UrbContract ----------------------------
(***************************************************************************)
(* What an imported device promises its USB/IP client, whatever goes on    *)
(* inside: every CMD_SUBMIT that is received is answered by exactly one    *)
(* RET_SUBMIT, unless the connection is closed first or the answer itself  *)
(* cannot be sent, after which there is none.                              *)
(***************************************************************************)
CONSTANTS Seqs          \* sequence numbers of the client's URBs

VARIABLES urb,          \* unsent, pending, answered or lost
          open          \* the server still reads from the connection

vars == <<urb, open>>

Init ==
    /\ urb = [s \in Seqs |-> "unsent"]
    /\ open = TRUE

Receive(s) ==
    /\ open
    /\ urb[s] = "unsent"
    /\ urb' = [urb EXCEPT ![s] = "pending"]
    /\ UNCHANGED open

\* Requests still in hand end while the connection closes, too.
End(s, outcome) ==
    /\ urb[s] = "pending"
    /\ urb' = [urb EXCEPT ![s] = outcome]
    /\ UNCHANGED open

Close ==
    /\ open
    /\ open' = FALSE
    /\ UNCHANGED urb

Next ==
    \/ Close
    \/ \E s \in Seqs : Receive(s) \/ End(s, "answered") \/ End(s, "lost")

Spec ==
    /\ Init /\ [][Next]_vars
    /\ \A s \in Seqs : WF_vars(open /\ (End(s, "answered") \/ End(s, "lost")))
=============================================================================
