------------------------------- MODULE FanIn -------------------------------
(***************************************************************************)
(* What a DispatchGroup promises the code that waits on it: every request  *)
(* replies once, and the waiter is told once, after the last reply, unless *)
(* the making of a reply stops the program.                                *)
(*                                                                         *)
(* HomeFeed.tla, the detailed model of HomeViewModel.callFuncToGetData,    *)
(* implements this specification.                                          *)
(***************************************************************************)
EXTENDS Naturals

CONSTANT Requests  \* the requests fanned out

VARIABLES
    replied,       \* the requests whose reply has been counted
    announced,     \* has the waiter been told?
    stopped        \* has the program stopped?

fanInVars == <<replied, announced, stopped>>

FanInInit ==
    /\ replied = {}
    /\ announced = FALSE
    /\ stopped = FALSE

\* A request replies, once.
Reply(k) ==
    /\ ~stopped
    /\ k \notin replied
    /\ replied' = replied \union {k}
    /\ UNCHANGED <<announced, stopped>>

\* The waiter runs, once, when no reply is missing.
Announce ==
    /\ ~stopped
    /\ replied = Requests
    /\ ~announced
    /\ announced' = TRUE
    /\ UNCHANGED <<replied, stopped>>

\* Making a reply that is still missing stops the program.
Stop ==
    /\ ~stopped
    /\ replied # Requests
    /\ stopped' = TRUE
    /\ UNCHANGED <<replied, announced>>

FanInNext ==
    \/ \E k \in Requests : Reply(k)
    \/ Announce
    \/ Stop

FanInSafety == FanInInit /\ [][FanInNext]_fanInVars

FanInSpec ==
    /\ FanInSafety
    /\ \A k \in Requests : WF_fanInVars(Reply(k))
    /\ WF_fanInVars(Announce)
=============================================================================
