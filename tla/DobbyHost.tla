------------------------------ MODULE DobbyHost ------------------------------
(***************************************************************************)
(* The Dobby adapter at one target: its transactions with Dobby, the map   *)
(* of the tickets it owns, and the code that Install returns, while other  *)
(* callers hook and unhook the same target and other users of Dobby come   *)
(* and go (adapters/dobby/dobby_host.cpp).  A step is one section under    *)
(* g_owned_mutex or one call of Dobby outside it.                          *)
(***************************************************************************)
EXTENDS Integers

CONSTANTS
  Callers,      \* threads that call the adapter
  MaxTickets,   \* bound: transactions prepared in a behaviour
  None          \* nothing

Foreign == [ticket |-> 0, stage |-> "foreign"]   \* another user's reservation

States == {"preparing", "installed", "recovery"}
Stages == {"prepared", "patched", "uncertain"}

(* Nothing is no transaction, no reservation and no stage of one.          *)
TicketsAssumption ==
  None \notin [ticket : Nat, state : States] \cup [ticket : Nat, stage : Stages]
              \cup {Foreign} \cup Stages

Success == 0
NeverPublished == -1
AfterPublished == -2
RecoveryRequired == -3

VARIABLES
  owned,       \* the target in g_owned_hooks: its OwnedTransaction, or None
  reservation, \* Dobby's own record of the target, or None
  tickets,     \* transactions prepared so far
  installing,  \* how far each caller is in Install
  ticket,      \* its ticket there
  result,      \* DobbyHookResult of its commit: whether the handle is kept, publication
  returned     \* the code that its last Install returned, or None

dobbyVars == <<owned, reservation, tickets, installing, ticket, result, returned>>

NoResult == [kept |-> FALSE, ever_published |-> FALSE, recovery |-> FALSE]

Init ==
  /\ owned = None /\ reservation = None /\ tickets = 0
  /\ installing = [c \in Callers |-> "free"]
  /\ ticket = [c \in Callers |-> 0]
  /\ result = [c \in Callers |-> NoResult]
  /\ returned = [c \in Callers |-> None]

Return(c, code) ==
  /\ returned' = [returned EXCEPT ![c] = code]
  /\ installing' = [installing EXCEPT ![c] = "free"]

Moves(c, place) ==
  /\ installing' = [installing EXCEPT ![c] = place]
  /\ UNCHANGED returned

-----------------------------------------------------------------------------
(* Dobby, as the adapter uses it                                           *)

(* A reservation is released, or the call fails and it stays as it was.    *)
DobbyAbortHook(done) == reservation' = IF done THEN None ELSE reservation

(* The outcomes of a commit: the replacement is in; the prologue has       *)
(* changed and the transaction is still prepared; it failed before or      *)
(* after publication and everything is undone; or nobody knows.            *)
Commits ==
  [ok       |-> [after |-> "patched",   result |-> NoResult],
   changed  |-> [after |-> "prepared",  result |-> [NoResult EXCEPT !.kept = TRUE]],
   undone   |-> [after |-> None,        result |-> NoResult],
   restored |-> [after |-> None,        result |-> [NoResult EXCEPT !.ever_published = TRUE]],
   unsure   |-> [after |-> "uncertain", result |-> [kept |-> TRUE, ever_published |-> TRUE,
                                                    recovery |-> TRUE]]]

-----------------------------------------------------------------------------
(* Install                                                                 *)

(* Under the lock: refuse an owned target, prepare, remember the ticket.   *)
(* Dobby may refuse.  A result without an original, or a map that cannot   *)
(* grow, aborts.                                                           *)
Prepare(c) ==
  /\ installing[c] = "free"
  /\ UNCHANGED result
  /\ \/ Return(c, NeverPublished) /\ UNCHANGED <<owned, reservation, tickets, ticket>>
     \/ /\ owned = None /\ reservation = None /\ tickets < MaxTickets
        /\ tickets' = tickets + 1
        /\ \/ /\ ticket' = [ticket EXCEPT ![c] = tickets + 1]
              /\ owned' = [ticket |-> tickets + 1, state |-> "preparing"]
              /\ reservation' = [ticket |-> tickets + 1, stage |-> "prepared"]
              /\ Moves(c, "commit")
           \/ \E aborted \in BOOLEAN :
                /\ reservation' = IF aborted THEN None
                                  ELSE [ticket |-> tickets + 1, stage |-> "prepared"]
                /\ Return(c, NeverPublished)
                /\ UNCHANGED <<owned, ticket>>

(* backup_ready and DobbyCommitHook, outside the lock.                     *)
Commit(c) ==
  /\ installing[c] = "commit"
  /\ \E outcome \in DOMAIN Commits :
       LET commit == Commits[outcome]
       IN /\ reservation' = IF commit.after = None THEN None
                            ELSE [ticket |-> ticket[c], stage |-> commit.after]
          /\ result' = [result EXCEPT ![c] = commit.result]
          /\ Moves(c, IF outcome = "ok" THEN "committed" ELSE "failed")
  /\ UNCHANGED <<owned, tickets, ticket>>

(* Under the lock again: a caller marks only the transaction it made.      *)
Mark(c, state) ==
  owned' = IF owned # None /\ owned.ticket = ticket[c] THEN [owned EXCEPT !.state = state]
           ELSE owned

MarkInstalled(c) ==
  /\ installing[c] = "committed"
  /\ Mark(c, "installed")
  /\ Return(c, Success)
  /\ UNCHANGED <<reservation, tickets, ticket, result>>

(* A ticket that is kept though nothing was published is aborted, still    *)
(* without the lock.                                                       *)
AbortFailed(c) ==
  /\ installing[c] = "failed"
  /\ IF result[c].kept /\ ~result[c].ever_published /\ ~result[c].recovery
     THEN \E done \in BOOLEAN : /\ DobbyAbortHook(done)
                                /\ result' = [result EXCEPT ![c].kept = ~done]
     ELSE UNCHANGED <<reservation, result>>
  /\ Moves(c, "settle")
  /\ UNCHANGED <<owned, tickets, ticket>>

(* Mutant: a failed commit is taken to have released its ticket.           *)
SettleForgets(c) ==
  /\ installing[c] = "settle"
  /\ owned' = None
  /\ Return(c, IF result[c].ever_published THEN AfterPublished ELSE NeverPublished)
  /\ UNCHANGED <<reservation, tickets, ticket, result>>

(* Mutant: an uncertain patch is reported as restored.                     *)
SettleMisreports(c) ==
  /\ installing[c] = "settle"
  /\ IF result[c].kept THEN Mark(c, "recovery") ELSE owned' = None
  /\ Return(c, IF result[c].ever_published THEN AfterPublished ELSE NeverPublished)
  /\ UNCHANGED <<reservation, tickets, ticket, result>>

Settle(c) ==
  /\ installing[c] = "settle"
  /\ IF result[c].kept THEN Mark(c, "recovery") ELSE owned' = None
  /\ Return(c, IF result[c].kept THEN RecoveryRequired
               ELSE IF result[c].ever_published THEN AfterPublished
               ELSE NeverPublished)
  /\ UNCHANGED <<reservation, tickets, ticket, result>>

-----------------------------------------------------------------------------

(* Mutant: an unhook may take a transaction that is still being prepared.  *)
UnhookSteals(c) ==
  /\ installing[c] = "free"
  /\ owned # None
  /\ reservation # None /\ reservation.ticket = owned.ticket
  /\ owned' = None /\ reservation' = None
  /\ UNCHANGED <<tickets, installing, ticket, result, returned>>

(* Unhook, in one section: Dobby recovers or destroys what the adapter     *)
(* owns, or fails and everything stays.                                    *)
Unhook(c) ==
  /\ installing[c] = "free"
  /\ owned # None /\ owned.state # "preparing"
  /\ owned' = None /\ reservation' = None
  /\ UNCHANGED <<tickets, installing, ticket, result, returned>>

(* Another user of Dobby reserves the target and lets it go.               *)
ForeignUser ==
  /\ \/ reservation = None    /\ reservation' = Foreign
     \/ reservation = Foreign /\ reservation' = None
  /\ UNCHANGED <<owned, tickets, installing, ticket, result, returned>>

Next ==
  \/ \E c \in Callers : \/ Prepare(c) \/ Commit(c) \/ MarkInstalled(c) \/ AbortFailed(c)
                        \/ Settle(c) \/ Unhook(c)
  \/ ForeignUser

Spec == Init /\ [][Next]_dobbyVars

-----------------------------------------------------------------------------
(* Properties                                                              *)

(* The adapter can take back whatever it has put into the entry: a target  *)
(* that is patched, or may be, has its ticket in g_owned_hooks, and a      *)
(* caller in Install finds its own transaction there (Install, Unhook).    *)
PatchIsOwned ==
  /\ reservation # None /\ reservation.stage \in {"patched", "uncertain"}
       => owned # None /\ owned.ticket = reservation.ticket
  /\ \A c \in Callers : installing[c] # "free"
       => owned # None /\ owned.ticket = ticket[c] /\ owned.state = "preparing"

(* What a caller of Install is told is so when it is told: success, that   *)
(* its replacement is in; never published, that it was never reachable;    *)
(* after publication, that the entry is restored; recovery required, that  *)
(* the ticket is kept for the unhook (host_api.h:52).                      *)
TellsTruth ==
  \A c \in Callers : installing[c] # "free" /\ installing'[c] = "free" =>
    LET mine == reservation' # None /\ reservation'.ticket = ticket[c]
    IN CASE returned'[c] = Success          -> mine /\ reservation'.stage = "patched"
         [] returned'[c] = NeverPublished   -> ~mine /\ ~result[c].ever_published
         [] returned'[c] = AfterPublished   -> ~mine
         [] returned'[c] = RecoveryRequired -> mine /\ owned'.state = "recovery"

OutcomeTrue == [][TellsTruth]_dobbyVars
=============================================================================
