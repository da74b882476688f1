----------------------------- MODULE Leadership -----------------------------
(***************************************************************************)
(* What the election of src/36 promises to the passes of MasterScheduler,  *)
(* which write task records while their master leads: masters come forward *)
(* one after the other, each once; the lead is taken only while nobody     *)
(* holds it, and only by the candidate that has waited longest; it is kept *)
(* until its holder leaves, and whoever has left never leads again.        *)
(*                                                                         *)
(* Znodes, watches, threads, lists read too early and failed calls are     *)
(* MasterElection's business, which is shown to implement this module.     *)
(***************************************************************************)
EXTENDS Integers

CONSTANT Masters

VARIABLES
    candidates, \* masters that have come forward and not left
    arrival,    \* arrival[m]: when m came forward, 0 if it never did
    clock,      \* the next arrival
    leading     \* masters that lead

leadershipVars == <<candidates, arrival, clock, leading>>

LeadershipInit ==
    /\ candidates = {}
    /\ arrival = [m \in Masters |-> 0]
    /\ clock = 1
    /\ leading = {}

ComeForward(m) ==
    /\ arrival[m] = 0
    /\ arrival' = [arrival EXCEPT ![m] = clock]
    /\ clock' = clock + 1
    /\ candidates' = candidates \cup {m}
    /\ UNCHANGED leading

TakeLead(m) ==
    /\ leading = {}
    /\ m \in candidates
    /\ \A k \in candidates : arrival[m] <= arrival[k]
    /\ leading' = {m}
    /\ UNCHANGED <<candidates, arrival, clock>>

Leave(m) ==
    /\ m \in candidates
    /\ candidates' = candidates \ {m}
    /\ leading' = leading \ {m}
    /\ UNCHANGED <<arrival, clock>>

LeadershipNext == \E m \in Masters : ComeForward(m) \/ TakeLead(m) \/ Leave(m)

LeadershipSpec == LeadershipInit /\ [][LeadershipNext]_leadershipVars
=============================================================================
