---------------------------- MODULE MCHookProgress ----------------------------
(***************************************************************************)
(* The two waits of the hook core, under fairness, for TLC: an unhook that *)
(* drains the calls of a physical hook (HookLifecycle), and a VM adapter   *)
(* that waits for the callbacks of its listeners (HookListeners).  They    *)
(* share no state; which one moves is chosen at the start.                 *)
(***************************************************************************)
EXTENDS HookLifecycle, Sequences

CONSTANTS Thread1, Thread2, Listener, Owner

VARIABLES
  part,                                                        \* which one moves
  mutex, chain, record_state, hook_in_flight, active, listener_in_flight,
  lease_retained, leases, admission, current, installer, handle, releasing,
  phase, entered, pending, giving                              \* of HookListeners

listenerVars == <<mutex, chain, record_state, hook_in_flight, active, listener_in_flight,
                  lease_retained, leases, admission, current, installer, handle, releasing,
                  phase, entered, pending, giving>>

Sharing == INSTANCE HookListeners
  WITH state <- record_state, in_flight <- listener_in_flight, retained <- lease_retained,
       Threads <- {Thread1, Thread2}, Listeners <- {Listener}, Owners <- {Owner},
       OwnerOf <- [l \in {Listener} |-> Owner], GroupOf <- [t \in {Thread1, Thread2} |-> Owner],
       Priority <- [l \in {Listener} |-> 0],
       HostMayFail <- FALSE, Swept <- {Owner}, MayClear <- FALSE

allVars == <<part, vars, listenerVars>>

(* Steps of the chosen part.                                               *)
Draining(A)  == part = "drain" /\ UNCHANGED <<part, listenerVars>> /\ A
Quiescing(A) == part = "quiesce" /\ UNCHANGED <<part, vars>> /\ A

MCInit == part \in {"drain", "quiesce"} /\ Init /\ Sharing!Init

MCNext == Draining(Next) \/ Quiescing(Sharing!Next)

(* The fairness of the two modules.                                        *)
MCFairness ==
  /\ WF_allVars(Draining(Install /\ pc # "free"))
  /\ WF_allVars(Draining(Finish))
  /\ \A k \in Calls : WF_allVars(Draining(Advance(k)))
  /\ WF_allVars(Quiescing(Sharing!Holder))
  /\ WF_allVars(Quiescing(Sharing!ApiStep(Listener)))
  /\ \A t \in {Thread1, Thread2} : WF_allVars(Quiescing(Sharing!Advance(t)))

MCSpec == MCInit /\ [][MCNext]_allVars /\ MCFairness

(* A VM adapter that was quiesced becomes quiescent once its callbacks     *)
(* have returned: its last lease is given back.                            *)
QuiesceCompletes == Sharing!QuiesceCompletes
===============================================================================
