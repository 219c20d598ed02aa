----------------------------- MODULE ProcessTraces -----------------------------
(***************************************************************************)
(* What DartPlant leaves for a while in a process it does not own, five    *)
(* modules in one: patched RETs (ReturnInterception), patched entries      *)
(* (DobbyHost, ShadowHookHost), the loader's callbacks (LoaderCallbacks)   *)
(* and a borrowed signal (ThreadSampling).  They share no state, and their *)
(* steps interleave.                                                       *)
(***************************************************************************)
EXTENDS ReturnInterception

CONSTANTS
  Installers, MaxTickets,        \* DobbyHost: its Callers
  Clients, MaxStubs,             \* ShadowHookHost
  Loaders, MaxEntrants,          \* LoaderCallbacks
  Targets, Polled, MaxSamples,   \* ThreadSampling
  None

VARIABLES
  target_owned, reservation, tickets, installing, ticket, result, returned,
  stubs, proxied, made, calling, stub, abandoned,
  control, initialized, bindings, inside, drained,
  disposition, claimed, raced, pending, alive, running, regs, capture, sampler, signal, old,
  targets, asked, samples, overdue, sample

dobbyVars   == <<target_owned, reservation, tickets, installing, ticket, result, returned>>
shadowVars  == <<stubs, proxied, made, calling, stub, abandoned>>
loaderVars  == <<control, initialized, bindings, inside, drained>>
samplerVars == <<disposition, claimed, raced, pending, alive, running, regs, capture, sampler,
                 signal, old, targets, asked, samples, overdue, sample>>

tracesVars == <<vars, dobbyVars, shadowVars, loaderVars, samplerVars>>

Dobby      == INSTANCE DobbyHost WITH owned <- target_owned, Callers <- Installers
ShadowHook == INSTANCE ShadowHookHost
Loader     == INSTANCE LoaderCallbacks
Sampling   == INSTANCE ThreadSampling

ASSUME HostsAssumption ==
  Dobby!TicketsAssumption /\ ShadowHook!StubsAssumption /\ Loader!LoadersAssumption

-----------------------------------------------------------------------------

TracesInit == Init /\ Dobby!Init /\ ShadowHook!Init /\ Loader!Init /\ Sampling!Init

ReturnsMove == Next /\ UNCHANGED <<dobbyVars, shadowVars, loaderVars, samplerVars>>
DobbyMoves  == Dobby!Next /\ UNCHANGED <<vars, shadowVars, loaderVars, samplerVars>>
ShadowMoves == ShadowHook!Next /\ UNCHANGED <<vars, dobbyVars, loaderVars, samplerVars>>
LoaderMoves == Loader!Next /\ UNCHANGED <<vars, dobbyVars, shadowVars, samplerVars>>
SamplerMoves == Sampling!Next /\ UNCHANGED <<vars, dobbyVars, shadowVars, loaderVars>>

TracesNext == ReturnsMove \/ DobbyMoves \/ ShadowMoves \/ LoaderMoves \/ SamplerMoves

TracesSpec == TracesInit /\ [][TracesNext]_tracesVars

-----------------------------------------------------------------------------
(* Properties of the instanced modules                                     *)

(* What an adapter has put into an entry it can take out again, and what a *)
(* caller of Install is told of it is so (PatchIsOwned and TellsTruth of   *)
(* DobbyHost, StubIsOwned of ShadowHookHost).                              *)
HostsKeepContract ==
  [][Dobby!PatchIsOwned' /\ Dobby!TellsTruth /\ ShadowHook!StubIsOwned']_tracesVars

(* Drained loader callbacks are over, and one native_init binds the host   *)
(* (LoaderCallbacks).                                                      *)
CallbacksDrained == Loader!CallbacksDrained

(* A sample is one thread's registers at one moment (ThreadSampling).      *)
SampleIsWhole == Sampling!SampleIsWhole

(* A borrowed signal is given back as it was (ThreadSampling).             *)
SignalReturned == Sampling!SignalReturned
===============================================================================
