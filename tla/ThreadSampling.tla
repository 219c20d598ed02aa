---------------------------- MODULE ThreadSampling ----------------------------
(***************************************************************************)
(* The process sampler: it borrows a signal that nobody uses, sends it to  *)
(* one thread after the other, and takes the registers that the handler    *)
(* copies there into one global record.  A sample that does not come in    *)
(* time is given up, but its handler still may run                         *)
(* (host/signal_lease.cpp, vm/live_vm_bootstrap.cpp).  A step is one       *)
(* atomic access or one system call.  One bootstrap runs at a time, under  *)
(* g_bootstrap_mutex.                                                      *)
(***************************************************************************)
EXTENDS Integers

CONSTANTS
  Targets,     \* the threads of the process
  Polled,      \* those whose name ends in ".ui", which are sampled repeatedly
  MaxSamples,  \* bound: captures in a behaviour
  None         \* nothing

Signals == 1 .. 2   \* kSamplingSignals, in the order in which they are tried

VARIABLES
  disposition, \* of each signal: "default", "lease" (CaptureSignalHandler) or "host"
  claimed,     \* history: what the host has last set it to
  raced,       \* history: a host call fell between two calls of the lease
  pending,     \* signals on their way: <<signal, thread>>
  alive,       \* the threads there are
  running,     \* how far the handler is on each thread
  regs,        \* the registers it was given: those of a thread at a moment
  capture,     \* g_capture_active, g_capture_ready, g_expected_tid, g_capture
  sampler,     \* where the bootstrap is
  signal,      \* the candidate, or the leased signal
  old,         \* old_action_
  targets,     \* threads of this round still to be sampled
  asked,       \* the thread of the capture under way
  samples,     \* captures so far
  overdue,     \* history: a handler run of an earlier capture was on its way at the start
  sample       \* the registers of the last capture, or None

samplerVars == <<disposition, claimed, raced, pending, alive, running, regs, capture, sampler,
                 signal, old, targets, asked, samples, overdue, sample>>

leaseVars   == <<disposition, claimed, raced, signal, old>>
threadVars  == <<alive, running, regs>>
captureVars == <<targets, asked, samples, overdue, sample>>

NoRegs == [thread |-> None, moment |-> 0]

Init ==
  /\ disposition \in [Signals -> {"default", "host"}] /\ claimed = disposition
  /\ raced = FALSE /\ pending = {} /\ alive = Targets
  /\ running = [t \in Targets |-> "no"] /\ regs = [t \in Targets |-> NoRegs]
  /\ capture = [active |-> FALSE, ready |-> FALSE, expected |-> None,
                first |-> NoRegs, second |-> NoRegs]
  /\ sampler = "idle" /\ signal = 1 /\ old = "default"
  /\ targets = {} /\ asked = None /\ samples = 0 /\ overdue = FALSE /\ sample = None

Goes(from, to) == sampler = from /\ sampler' = to

-----------------------------------------------------------------------------
(* ScopedSignalLease                                                       *)

(* sigaction.  To set the default of a signal that is ignored by default   *)
(* also drops it where it is pending.                                      *)
SetAction(s, action) ==
  /\ disposition' = [disposition EXCEPT ![s] = action]
  /\ pending' = IF action = "default" THEN {p \in pending : p[1] # s} ELSE pending

(* The next candidate, or none: the bootstrap is not ready.                *)
NextCandidate == IF signal < 2 THEN sampler' = "probe" /\ signal' = signal + 1
                 ELSE sampler' = "idle" /\ signal' = 1

Bootstrap ==
  /\ Goes("idle", "probe") /\ samples < MaxSamples
  /\ signal' = 1
  /\ UNCHANGED <<disposition, claimed, raced, old, pending, threadVars, capture, captureVars>>

Probe ==
  /\ sampler = "probe"
  /\ IF disposition[signal] = "default" THEN sampler' = "install" /\ UNCHANGED signal
     ELSE NextCandidate
  /\ UNCHANGED <<disposition, claimed, raced, old, pending, threadVars, capture, captureVars>>

(* Mutant: the action that sigaction gives back is not looked at.          *)
InstallBlindly ==
  /\ Goes("install", "round")
  /\ old' = disposition[signal]
  /\ SetAction(signal, "lease")
  /\ UNCHANGED <<claimed, raced, signal, threadVars, capture, captureVars>>

(* The action given back tells whether the signal was free.                *)
Install ==
  /\ Goes("install", IF disposition[signal] = "default" THEN "round" ELSE "back out")
  /\ old' = disposition[signal]
  /\ SetAction(signal, "lease")
  /\ UNCHANGED <<claimed, raced, signal, threadVars, capture, captureVars>>

(* Mutant: a signal that was taken by mistake is not given back.           *)
KeepAnyway ==
  /\ sampler = "back out"
  /\ NextCandidate
  /\ UNCHANGED <<disposition, pending, claimed, raced, old, threadVars, capture, captureVars>>

BackOut ==
  /\ sampler = "back out"
  /\ SetAction(signal, old)
  /\ NextCandidate
  /\ UNCHANGED <<claimed, raced, old, threadVars, capture, captureVars>>

(* Mutant: the signal is given back without a look at who has it.          *)
ReleaseBlindly ==
  /\ Goes("release", "restore")
  /\ UNCHANGED <<leaseVars, pending, threadVars, capture, captureVars>>

(* The destructor gives the signal back only while the lease has it.       *)
Release ==
  /\ Goes("release", IF disposition[signal] = "lease" THEN "restore" ELSE "idle")
  /\ UNCHANGED <<leaseVars, pending, threadVars, capture, captureVars>>

Restore ==
  /\ Goes("restore", "idle")
  /\ SetAction(signal, old)
  /\ UNCHANGED <<claimed, raced, signal, old, threadVars, capture, captureVars>>

(* The host, or the app, changes a disposition at any time.  A probe that  *)
(* it overtakes is noticed; a restore is not.                              *)
HostSets(s, action) ==
  /\ action # disposition[s]
  /\ SetAction(s, action)
  /\ claimed' = [claimed EXCEPT ![s] = action]
  /\ raced' = (raced \/ (s = signal /\ sampler \in {"back out", "restore"}))
  /\ UNCHANGED <<signal, old, threadVars, capture, sampler, captureVars>>

HostAction == \E s \in Signals, action \in {"default", "host"} : HostSets(s, action)

-----------------------------------------------------------------------------
(* CaptureSignalHandler, on the thread that got the signal                 *)

Steps(t, from, to) == running[t] = from /\ running' = [running EXCEPT ![t] = to]

(* The signal reaches the thread: whoever has it now gets it.              *)
Deliver(t) ==
  /\ running[t] = "no"
  /\ \E s \in Signals :
       /\ <<s, t>> \in pending
       /\ pending' = pending \ {<<s, t>>}
       /\ IF disposition[s] = "lease"
          THEN /\ running' = [running EXCEPT ![t] = "entered"]
               /\ regs' = [regs EXCEPT ![t] = [thread |-> t, moment |-> samples]]
          ELSE UNCHANGED <<running, regs>>
  /\ UNCHANGED <<leaseVars, alive, capture, sampler, captureVars>>

(* It leaves unless a capture is active and expects this thread.           *)
Consider(t) ==
  /\ \/ Steps(t, "entered", IF capture.active THEN "expected" ELSE "no")
     \/ Steps(t, "expected", IF capture.expected = t THEN "first" ELSE "no")
  /\ UNCHANGED <<alive, regs, leaseVars, pending, capture, sampler, captureVars>>

(* Mutant: the record is announced before it is complete.                  *)
AnnounceFirst(t) ==
  /\ \/ Steps(t, "first", "second") /\ capture' = [capture EXCEPT !.ready = TRUE]
     \/ Steps(t, "second", "ready") /\ capture' = [capture EXCEPT !.first = regs[t]]
     \/ Steps(t, "ready", "no")     /\ capture' = [capture EXCEPT !.second = regs[t]]
  /\ UNCHANGED <<alive, regs, leaseVars, pending, sampler, captureVars>>

(* It stores the registers one by one, two of them here, and then says so. *)
Store(t) ==
  /\ \/ Steps(t, "first", "second") /\ capture' = [capture EXCEPT !.first = regs[t]]
     \/ Steps(t, "second", "ready") /\ capture' = [capture EXCEPT !.second = regs[t]]
     \/ Steps(t, "ready", "no")     /\ capture' = [capture EXCEPT !.ready = TRUE]
  /\ UNCHANGED <<alive, regs, leaseVars, pending, sampler, captureVars>>

Die(t) ==
  /\ t \in alive /\ running[t] = "no"
  /\ alive' = alive \ {t} /\ pending' = {p \in pending : p[2] # t}
  /\ UNCHANGED <<leaseVars, running, regs, capture, sampler, captureVars>>

-----------------------------------------------------------------------------
(* The rounds of the bootstrap and CaptureThread                           *)

(* A round lists the threads there are; some die before their turn.        *)
Round ==
  /\ sampler = "round" /\ targets = {}
  /\ \/ targets' = alive /\ alive # {} /\ UNCHANGED sampler
     \/ sampler' = "release" /\ UNCHANGED targets          \* the last round is over
  /\ UNCHANGED <<leaseVars, pending, threadVars, capture, asked, samples, overdue, sample>>

(* A target that does not run is skipped, except the polled ones.          *)
Skip(t) ==
  /\ sampler = "round" /\ t \in targets \ Polled
  /\ targets' = targets \ {t}
  /\ UNCHANGED <<leaseVars, pending, threadVars, capture, sampler, asked, samples, overdue,
                 sample>>

(* CaptureThread announces whom it expects.  A polled thread may get       *)
(* another turn.                                                           *)
Expect(t) ==
  /\ Goes("round", "clear") /\ t \in targets /\ samples < MaxSamples
  /\ asked' = t /\ samples' = samples + 1 /\ sample' = None
  /\ overdue' = (pending # {} \/ \E u \in Targets : running[u] # "no")
  /\ targets' \in {targets \ {t}} \cup {targets : u \in Polled \cap {t}}
  /\ capture' = [capture EXCEPT !.expected = t]
  /\ UNCHANGED <<leaseVars, pending, threadVars>>

(* Mutant: the capture starts with what the last one left.                 *)
ClearNothing ==
  /\ Goes("clear", "activate")
  /\ UNCHANGED <<capture, leaseVars, pending, threadVars, captureVars>>

Clear ==
  /\ Goes("clear", "activate")
  /\ capture' = [capture EXCEPT !.ready = FALSE]
  /\ UNCHANGED <<leaseVars, pending, threadVars, captureVars>>

Activate ==
  /\ Goes("activate", "send")
  /\ capture' = [capture EXCEPT !.active = TRUE]
  /\ UNCHANGED <<leaseVars, pending, threadVars, captureVars>>

(* tgkill fails for a thread that is gone.                                 *)
Send ==
  /\ IF asked \in alive
     THEN Goes("send", "wait") /\ pending' = pending \cup {<<signal, asked>>} /\ UNCHANGED capture
     ELSE /\ Goes("send", "round") /\ UNCHANGED pending
          /\ capture' = [capture EXCEPT !.active = FALSE]
  /\ UNCHANGED <<leaseVars, threadVars, captureVars>>

(* The wait ends with the sample or with its time.                         *)
StopWaiting ==
  /\ Goes("wait", "look")
  /\ capture' = [capture EXCEPT !.active = FALSE]
  /\ UNCHANGED <<leaseVars, pending, threadVars, captureVars>>

Look ==
  /\ Goes("look", IF capture.ready THEN "take" ELSE "round")
  /\ UNCHANGED <<capture, leaseVars, pending, threadVars, captureVars>>

(* The registers are read one by one, as they were stored.                 *)
Take ==
  /\ \/ Goes("take", "take second") /\ sample' = [first |-> capture.first, second |-> NoRegs]
     \/ Goes("take second", "taken") /\ sample' = [sample EXCEPT !.second = capture.second]
  /\ UNCHANGED <<capture, leaseVars, pending, threadVars, targets, asked, samples, overdue>>

(* The candidate is accepted, and the bootstrap over, or rejected.         *)
Judge ==
  /\ sampler = "taken" /\ sampler' \in {"release", "round"}
  /\ targets' = IF sampler' = "release" THEN {} ELSE targets
  /\ UNCHANGED <<capture, leaseVars, pending, threadVars, asked, samples, overdue, sample>>

Next ==
  \/ Bootstrap \/ Probe \/ Install \/ BackOut \/ Release \/ Restore \/ HostAction
  \/ Round \/ Clear \/ Activate \/ Send \/ StopWaiting \/ Look \/ Take \/ Judge
  \/ \E t \in Targets : \/ Deliver(t) \/ Consider(t) \/ Store(t) \/ Die(t)
                        \/ Skip(t) \/ Expect(t)

Spec == Init /\ [][Next]_samplerVars

-----------------------------------------------------------------------------
(* Properties                                                              *)

(* A sample is the registers of the thread it was asked of, all of one     *)
(* moment of this capture, unless the handler of an earlier capture was    *)
(* still to run when this one began (CaptureThread, CaptureSignalHandler). *)
SampleIsWhole ==
  sampler = "taken" /\ ~overdue =>
    /\ sample.first = sample.second
    /\ sample.first = [thread |-> asked, moment |-> samples]

(* A lease takes a signal that was free, and leaves nothing behind:        *)
(* between bootstraps no signal has its handler, and the host finds what   *)
(* it set last, unless it acted while the lease put an action back         *)
(* (ScopedSignalLease).                                                    *)
SignalReturned ==
  /\ sampler \notin {"idle", "probe", "install", "back out"} => old = "default"
  /\ sampler = "idle" =>
       /\ \A s \in Signals : disposition[s] # "lease"
       /\ ~raced => disposition = claimed
=============================================================================
