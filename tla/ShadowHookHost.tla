--------------------------- MODULE ShadowHookHost ---------------------------
(***************************************************************************)
(* The ShadowHook adapter at one target: its map of stubs, which is        *)
(* changed before or after ShadowHook itself is called, never around it    *)
(* (adapters/shadowhook/shadowhook_host.cpp).  A step is one section under *)
(* the adapter's lock or one call of ShadowHook.                           *)
(***************************************************************************)
EXTENDS Integers

CONSTANTS
  Clients,   \* threads that call the adapter
  MaxStubs,  \* bound: stubs made in a behaviour
  None       \* nothing

(* Nothing is no stub.                                                     *)
StubsAssumption == None \notin Nat

VARIABLES
  stubs,     \* the stub of the target in the map, or None
  proxied,   \* the stub through which ShadowHook has replaced the entry, or None
  made,      \* stubs made so far
  calling,   \* where each client is: "free", "hooked", "backing out", "found", "unhooked"
  stub,      \* the stub it has in its hands
  abandoned  \* history: stubs that a hook could not back out of

shadowVars == <<stubs, proxied, made, calling, stub, abandoned>>

Init ==
  /\ stubs = None /\ proxied = None /\ made = 0 /\ abandoned = {}
  /\ calling = [c \in Clients |-> "free"]
  /\ stub = [c \in Clients |-> None]

At(c, place, next) == calling[c] = place /\ calling' = [calling EXCEPT ![c] = next]

(* shadowhook_hook_func_addr_2 in unique mode refuses a target that has a  *)
(* stub.                                                                   *)
HookEntry(c) ==
  /\ At(c, "free", "hooked")
  /\ proxied = None /\ made < MaxStubs
  /\ made' = made + 1 /\ proxied' = made + 1
  /\ stub' = [stub EXCEPT ![c] = made + 1]
  /\ UNCHANGED <<stubs, abandoned>>

(* Mutant: a new stub takes the place of the one in the map.               *)
RememberOver(c) ==
  /\ At(c, "hooked", "free")
  /\ stubs' = stub[c]
  /\ UNCHANGED <<proxied, made, stub, abandoned>>

(* A stub that finds another one in the map is taken out again.            *)
Remember(c) ==
  /\ IF stubs = None THEN At(c, "hooked", "free") /\ stubs' = stub[c]
     ELSE At(c, "hooked", "backing out") /\ UNCHANGED stubs
  /\ UNCHANGED <<proxied, made, stub, abandoned>>

(* shadowhook_unhook fails for a stub that is gone, and may fail.  The     *)
(* status is not looked at when a hook backs out.                          *)
BackOut(c) ==
  /\ At(c, "backing out", "free")
  /\ \/ proxied = stub[c] /\ proxied' = None /\ UNCHANGED abandoned
     \/ abandoned' = abandoned \cup {stub[c]} /\ UNCHANGED proxied
  /\ UNCHANGED <<stubs, made, stub>>

(* An unhook reads the map, calls ShadowHook, and erases the target.       *)
FindStub(c) ==
  /\ At(c, "free", "found")
  /\ stubs # None
  /\ stub' = [stub EXCEPT ![c] = stubs]
  /\ UNCHANGED <<stubs, proxied, made, abandoned>>

UnhookEntry(c) ==
  /\ \/ proxied = stub[c] /\ At(c, "found", "unhooked") /\ proxied' = None
     \/ At(c, "found", "free") /\ UNCHANGED proxied
  /\ UNCHANGED <<stubs, made, stub, abandoned>>

Forget(c) ==
  /\ At(c, "unhooked", "free")
  /\ stubs' = None
  /\ UNCHANGED <<proxied, made, stub, abandoned>>

Next == \E c \in Clients : \/ HookEntry(c) \/ Remember(c) \/ BackOut(c)
                           \/ FindStub(c) \/ UnhookEntry(c) \/ Forget(c)

Spec == Init /\ [][Next]_shadowVars

-----------------------------------------------------------------------------
(* Properties                                                              *)

(* A stub that has replaced the entry is in the map, where an unhook finds *)
(* it, or in the hands of the hook that made it.  An erase by target never *)
(* forgets the stub of somebody else.  A hook that meets the stale entry   *)
(* of an unhook in progress, and then cannot take its stub out, is the one *)
(* exception (Hook, Unhook).                                               *)
StubIsOwned ==
  proxied # None =>
    \/ stubs = proxied
    \/ proxied \in abandoned
    \/ \E c \in Clients : stub[c] = proxied /\ calling[c] \in {"hooked", "backing out"}
=============================================================================
