--------------------------- MODULE LoaderCallbacks ---------------------------
(***************************************************************************)
(* The LSPosed module: native_init binds the framework's hook functions as *)
(* the host, and loader callbacks schedule a refresh.  Both pass through   *)
(* one packed word, a state and a count of entrants, which a client closes *)
(* before it lets go of what the callbacks use                             *)
(* (adapters/lsposed/lsposed_module.cpp).                                  *)
(***************************************************************************)
EXTENDS Naturals, FiniteSets

CONSTANTS
  Loaders,      \* threads on which the framework calls in
  MaxEntrants   \* the limit of the entrant count

(* The framework has finitely many threads.                                *)
LoadersAssumption == IsFiniteSet(Loaders)

VARIABLES
  control,      \* g_loader_callback_control: state and entrants
  initialized,  \* g_initialized
  bindings,     \* how often the host was bound
  inside,       \* where each loader thread is
  drained       \* a client was told that the callbacks have drained

loaderVars == <<control, initialized, bindings, inside, drained>>

Init ==
  /\ control = [state |-> "active", entrants |-> 0]
  /\ initialized = FALSE /\ bindings = 0 /\ drained = FALSE
  /\ inside = [t \in Loaders |-> "out"]

-----------------------------------------------------------------------------
(* TryEnterLoaderCallback and its call site: OnModuleLoaded or native_init *)
Enter(t) ==
  /\ inside[t] = "out"
  /\ control.state = "active" /\ control.entrants < MaxEntrants
  /\ control' = [control EXCEPT !.entrants = @ + 1]
  /\ \E place \in {"callback", "init"} :
       /\ place = "callback" => bindings > 0   \* native_init hands out the callback
       /\ inside' = [inside EXCEPT ![t] = place]
  /\ UNCHANGED <<initialized, bindings, drained>>

(* ExitLoaderCallback, when a callback has scheduled its refresh or a      *)
(* native_init returns.                                                    *)
Exit(t) ==
  /\ inside[t] \in {"callback", "leaving"}
  /\ inside' = [inside EXCEPT ![t] = "out"]
  /\ control' = [control EXCEPT !.entrants = @ - 1]
  /\ UNCHANGED <<initialized, bindings, drained>>

(* Mutant: the flag is looked at but not taken in the same step.           *)
ClaimLate(t) ==
  /\ inside[t] = "init"
  /\ inside' = [inside EXCEPT ![t] = IF initialized THEN "leaving" ELSE "binding"]
  /\ UNCHANGED <<control, initialized, bindings, drained>>

(* One native_init wins g_initialized, any other returns.                  *)
Claim(t) ==
  /\ inside[t] = "init"
  /\ initialized' = TRUE
  /\ inside' = [inside EXCEPT ![t] = IF initialized THEN "leaving" ELSE "binding"]
  /\ UNCHANGED <<control, bindings, drained>>

(* The winner binds the host, starts the worker and schedules a scan.      *)
Bind(t) ==
  /\ inside[t] = "binding"
  /\ bindings' = bindings + 1
  /\ inside' = [inside EXCEPT ![t] = "leaving"]
  /\ UNCHANGED <<control, initialized, drained>>

CloseLoaderCallbackAdmission ==
  /\ control.state = "active"
  /\ control' = [control EXCEPT !.state = "draining"]
  /\ UNCHANGED <<initialized, bindings, inside, drained>>

(* Mutant: the drain is finished whoever is inside.                        *)
FinishAtOnce ==
  /\ control.state \in {"draining", "closed"}
  /\ control' = [control EXCEPT !.state = "closed"]
  /\ drained' = TRUE
  /\ UNCHANGED <<initialized, bindings, inside>>

(* The drain is finished by an exchange of the whole word, count included. *)
FinishLoaderCallbackDrain ==
  /\ control \in {[state |-> s, entrants |-> 0] : s \in {"draining", "closed"}}
  /\ control' = [control EXCEPT !.state = "closed"]
  /\ drained' = TRUE
  /\ UNCHANGED <<initialized, bindings, inside>>

Next ==
  \/ \E t \in Loaders : Enter(t) \/ Exit(t) \/ Claim(t) \/ Bind(t)
  \/ CloseLoaderCallbackAdmission \/ FinishLoaderCallbackDrain

Spec == Init /\ [][Next]_loaderVars

-----------------------------------------------------------------------------
(* Properties                                                              *)

(* Once a client has been told that the callbacks have drained, none is    *)
(* inside, and the host was bound by one native_init at most               *)
(* (lsposed_native_api.h:35, native_init).                                 *)
CallbacksDrained ==
  /\ control.entrants = Cardinality({t \in Loaders : inside[t] # "out"})
  /\ drained => control.state = "closed" /\ \A t \in Loaders : inside[t] = "out"
  /\ bindings <= 1
=============================================================================
