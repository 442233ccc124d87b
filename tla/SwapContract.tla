---------------------------- MODULE SwapContract ----------------------------
(***************************************************************************)
(* What DRI2 promises a client and expects of the driver: a swap that      *)
(* ScheduleSwap accepts is answered by one DRI2SwapComplete, and until     *)
(* then the core throttles the client.  Swaps that are refused or answered *)
(* at once leave no trace here.                                            *)
(***************************************************************************)
EXTENDS Integers

CONSTANT NumWindow
Windows == 1..NumWindow

VARIABLES owed,   \* [Windows -> Nat]: answers the driver owes
          limit   \* [Windows -> Nat]: swaps the core waits for

vars == <<owed, limit>>

Init == owed = [w \in Windows |-> 0] /\ limit = [w \in Windows |-> 0]

Accept(w) == /\ limit[w] = 0
             /\ owed'  = [owed  EXCEPT ![w] = 1]
             /\ limit' = [limit EXCEPT ![w] = 1]

\* The answer, or the destruction of the window.
Settle(w) == /\ owed[w] = 1
             /\ owed'  = [owed  EXCEPT ![w] = 0]
             /\ limit' = [limit EXCEPT ![w] = 0]

\* The end of a server generation takes all windows.
SettleAll == /\ owed'  = [w \in Windows |-> 0]
             /\ limit' = [w \in Windows |-> 0]

Next == SettleAll \/ \E w \in Windows : Accept(w) \/ Settle(w)

Spec == /\ Init /\ [][Next]_vars
        /\ \A w \in Windows : WF_vars(Settle(w))
=============================================================================
