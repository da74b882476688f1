------------------------------ MODULE P4Gateway ------------------------------
(***************************************************************************)
(* The P4 DDoS gateway (src/68): the traffic monitor that blocks a source  *)
(* whose packets exceed a threshold, the pass that unblocks it when its    *)
(* time is up, the controller that writes the switch's tables, and the     *)
(* REST calls that write the same tables by hand.                          *)
(*                                                                         *)
(* The monitor's lock is held while its callbacks write the tables one     *)
(* after the other; the controller's own lock covers one table write, so   *)
(* a REST call comes between any two of them.                              *)
(*                                                                         *)
(* Rates are abstracted to whether a packet exceeds the threshold of its   *)
(* source.  The L1 and L2 meters never come to exist: their index is       *)
(* computed with hashlib.crc32, which there is not, and the exception is   *)
(* caught (p4_controller.py 58-68), so these callbacks change nothing.     *)
(***************************************************************************)
EXTENDS Integers, FiniteSets

CONSTANTS Floods,            \* the sources of packets
          FloodTypes,        \* "udp", "icmp", "syn": one table each
          MaxBlocks,         \* bound: blocks of a source
          MaxSwitchFaults    \* bound: table writes that fail

ASSUME P4GatewayAssumption ==
    /\ "blacklist" \notin FloodTypes /\ "none" \notin FloodTypes
    /\ MaxBlocks \in Nat /\ MaxSwitchFaults \in Nat

VARIABLES
    flood,          \* flood[s][t]: the stats of a source for a type
    blacklisted,    \* blacklisted[s]: the type in _blacklisted_ips, or "none"
    timeUp,         \* sources whose block duration has passed
    gw,             \* who holds the monitor's lock, in its callbacks
    table,          \* the entries of the switch's tables
    tracked,        \* the entries in the controller's dictionaries
    byHand,         \* entries a REST call inserted or deleted (history)
    faulty,         \* entries a failed write left in doubt (history)
    doubled,        \* sources blocked again while blacklisted (history)
    blocks, switchFaults

gatewayVars == <<flood, blacklisted, timeUp, gw, table, tracked, byHand, faulty, doubled,
                 blocks, switchFaults>>

Kinds == FloodTypes \cup {"blacklist"}
Entries == Floods \X Kinds
Stats == [l1 : BOOLEAN, l2 : BOOLEAN, blocked : BOOLEAN]
NoStats == [l1 |-> FALSE, l2 |-> FALSE, blocked |-> FALSE]
Gateway == [pc : {"free", "limit", "list", "cleanup", "unlimit", "unlist"},
            src : Floods, type : FloodTypes, rest : SUBSET Floods]

GatewayTypeOK ==
    /\ flood \in [Floods -> [FloodTypes -> Stats]]
    /\ blacklisted \in [Floods -> FloodTypes \cup {"none"}]
    /\ timeUp \subseteq Floods
    /\ gw \in Gateway
    /\ table \subseteq Entries /\ tracked \subseteq Entries
    /\ byHand \subseteq Entries /\ faulty \subseteq Entries
    /\ doubled \subseteq Floods
    /\ blocks \in Nat /\ switchFaults \in Nat

GatewayInit ==
    /\ flood = [s \in Floods |-> [t \in FloodTypes |-> NoStats]]
    /\ blacklisted = [s \in Floods |-> "none"]
    /\ timeUp = {}
    /\ gw \in [pc : {"free"}, src : Floods, type : FloodTypes, rest : {{}}]
    /\ table = {} /\ tracked = {}
    /\ byHand = {} /\ faulty = {} /\ doubled = {}
    /\ blocks = 0 /\ switchFaults = 0

monitorVars == <<flood, blacklisted, timeUp, doubled, blocks>>
switchVars == <<table, tracked, faulty, switchFaults>>

(***************************************************************************)
(* P4Controller: a table write and the dictionary that follows it, under   *)
(* one lock.  The switch refuses to insert what it holds and to delete     *)
(* what it does not; a failed write may have reached it all the same.      *)
(***************************************************************************)
WriteFails(entry, done) ==
    /\ switchFaults < MaxSwitchFaults
    /\ switchFaults' = switchFaults + 1
    /\ faulty' = faulty \cup {entry}
    /\ table' \in {table, done}
    /\ UNCHANGED tracked

InsertEntry(entry) ==
    \/ /\ entry \notin table
       /\ table' = table \cup {entry} /\ tracked' = tracked \cup {entry}
       /\ UNCHANGED <<faulty, switchFaults>>
    \/ entry \in table /\ UNCHANGED switchVars
    \/ WriteFails(entry, table \cup {entry})

DeleteEntry(entry) ==
    \/ /\ entry \in table
       /\ table' = table \ {entry} /\ tracked' = tracked \ {entry}
       /\ UNCHANGED <<faulty, switchFaults>>
    \/ entry \notin table /\ UNCHANGED switchVars
    \/ WriteFails(entry, table \ {entry})

(***************************************************************************)
(* _check_and_update, and the callback of a block.  The ports' counts are  *)
(* never reset: a port that exceeded its threshold once always does, and   *)
(* the next packet to it after an unblock blocks the source again.         *)
(***************************************************************************)
RecordPacket(s, t, overL1, overL2) ==
    LET stats == flood[s][t]
        newL1 == ~stats.l1 /\ overL1
        newL2 == ~stats.l2 /\ overL2
        blocking == ~stats.blocked /\ (newL1 \/ newL2)
    IN  /\ gw.pc = "free"
        /\ flood' = [flood EXCEPT ![s][t] =
               [l1 |-> stats.l1 \/ newL1, l2 |-> stats.l2 \/ newL2,
                blocked |-> stats.blocked \/ blocking]]
        /\ flood' # flood
        /\ IF blocking
           THEN /\ blocks < MaxBlocks /\ blocks' = blocks + 1
                /\ doubled' = IF blacklisted[s] = "none" THEN doubled ELSE doubled \cup {s}
                /\ blacklisted' = [blacklisted EXCEPT ![s] = t]
                /\ timeUp' = timeUp \ {s}
                /\ gw' = [gw EXCEPT !.pc = "limit", !.src = s, !.type = t]
           ELSE UNCHANGED <<blacklisted, timeUp, doubled, blocks, gw>>
        /\ UNCHANGED <<switchVars, byHand>>

\* _on_block: what the first write returns is not looked at.
LimitSource ==
    /\ gw.pc = "limit"
    /\ InsertEntry(<<gw.src, gw.type>>)
    /\ gw' = [gw EXCEPT !.pc = "list"]
    /\ UNCHANGED <<monitorVars, byHand>>

BlacklistSource ==
    /\ gw.pc = "list"
    /\ InsertEntry(<<gw.src, "blacklist">>)
    /\ gw' = [gw EXCEPT !.pc = "free"]
    /\ UNCHANGED <<monitorVars, byHand>>

TimePasses(s) ==
    /\ blacklisted[s] # "none" /\ s \notin timeUp
    /\ timeUp' = timeUp \cup {s}
    /\ UNCHANGED <<flood, blacklisted, doubled, blocks, gw, switchVars, byHand>>

(***************************************************************************)
(* cleanup_expired: every expired source, under one hold of the lock.      *)
(***************************************************************************)
StartCleanup ==
    /\ gw.pc = "free" /\ timeUp # {}
    /\ gw' = [gw EXCEPT !.pc = "cleanup", !.rest = timeUp]
    /\ UNCHANGED <<monitorVars, switchVars, byHand>>

\* Mutant of UnblockSource: the flags of the type stay set.
UnblockSourceOnly(s) ==
    /\ gw.pc = "cleanup" /\ s \in gw.rest
    /\ blacklisted' = [blacklisted EXCEPT ![s] = "none"]
    /\ timeUp' = timeUp \ {s}
    /\ gw' = [gw EXCEPT !.pc = "unlimit", !.src = s, !.type = blacklisted[s],
                        !.rest = @ \ {s}]
    /\ UNCHANGED <<flood, doubled, blocks, switchVars, byHand>>

\* Mutant of UnblockSource: the source stays in _blacklisted_ips.
UnblockSourceListed(s) ==
    LET t == blacklisted[s] IN
    /\ gw.pc = "cleanup" /\ s \in gw.rest
    /\ timeUp' = timeUp \ {s}
    /\ flood' = [flood EXCEPT ![s][t] = NoStats]
    /\ gw' = [gw EXCEPT !.pc = "unlimit", !.src = s, !.type = t, !.rest = @ \ {s}]
    /\ UNCHANGED <<blacklisted, doubled, blocks, switchVars, byHand>>

\* _unblock_ip: the entry tells one type, and only that type's flags are reset.
UnblockSource(s) ==
    LET t == blacklisted[s] IN
    /\ gw.pc = "cleanup" /\ s \in gw.rest
    /\ blacklisted' = [blacklisted EXCEPT ![s] = "none"]
    /\ timeUp' = timeUp \ {s}
    /\ flood' = [flood EXCEPT ![s][t].l1 = FALSE, ![s][t].l2 = FALSE,
                              ![s][t].blocked = FALSE]
    /\ gw' = [gw EXCEPT !.pc = "unlimit", !.src = s, !.type = t, !.rest = @ \ {s}]
    /\ UNCHANGED <<doubled, blocks, switchVars, byHand>>

\* Mutant of UnlimitSource: the blacklist entry is left.
UnlimitSourceOnly ==
    /\ gw.pc = "unlimit"
    /\ DeleteEntry(<<gw.src, gw.type>>)
    /\ gw' = [gw EXCEPT !.pc = "cleanup"]
    /\ UNCHANGED <<monitorVars, byHand>>

UnlimitSource ==
    /\ gw.pc = "unlimit"
    /\ DeleteEntry(<<gw.src, gw.type>>)
    /\ gw' = [gw EXCEPT !.pc = "unlist"]
    /\ UNCHANGED <<monitorVars, byHand>>

UnlistSource ==
    /\ gw.pc = "unlist"
    /\ DeleteEntry(<<gw.src, "blacklist">>)
    /\ gw' = [gw EXCEPT !.pc = "cleanup"]
    /\ UNCHANGED <<monitorVars, byHand>>

EndCleanup ==
    /\ gw.pc = "cleanup" /\ gw.rest = {}
    /\ gw' = [gw EXCEPT !.pc = "free"]
    /\ UNCHANGED <<monitorVars, switchVars, byHand>>

(***************************************************************************)
(* The REST calls: they do not take the monitor's lock, and the monitor    *)
(* does not learn of them.                                                 *)
(***************************************************************************)
InsertByHand(entry) ==
    /\ entry \notin table
    /\ InsertEntry(entry)
    /\ byHand' = byHand \cup {entry}
    /\ UNCHANGED <<monitorVars, gw>>

DeleteByHand(entry) ==
    /\ entry \in table
    /\ DeleteEntry(entry)
    /\ byHand' = byHand \cup {entry}
    /\ UNCHANGED <<monitorVars, gw>>

GatewayNext ==
    \/ \E s \in Floods, t \in FloodTypes, overL1, overL2 \in BOOLEAN :
          RecordPacket(s, t, overL1, overL2)
    \/ LimitSource \/ BlacklistSource
    \/ StartCleanup \/ UnlimitSource \/ UnlistSource \/ EndCleanup
    \/ \E s \in Floods : TimePasses(s) \/ UnblockSource(s)
    \/ \E entry \in Entries : InsertByHand(entry) \/ DeleteByHand(entry)

GatewaySpec == GatewayInit /\ [][GatewayNext]_gatewayVars

-----------------------------------------------------------------------------
(***************************************************************************)
(* Properties.                                                             *)
(***************************************************************************)
\* Whether a write of the running callback to this entry is still to come.
Pending(entry) ==
    /\ entry[1] = gw.src
    /\ \/ gw.pc \in {"limit", "unlimit"}
       \/ gw.pc \in {"list", "unlist"} /\ entry[2] = "blacklist"

\* The entry the monitor wants the switch to hold.
Wanted(entry) ==
    /\ blacklisted[entry[1]] # "none"
    /\ entry[2] \in {"blacklist", blacklisted[entry[1]]}

\* Once no write is outstanding, the switch drops exactly the sources the
\* monitor has blocked: nothing is blocked for ever and nothing let through.
\* Left out: entries written by hand or by a failed write, and sources blocked
\* for a second type while blocked, whose first type is then forgotten.
SwitchFollowsMonitor ==
    \A entry \in Entries \ (byHand \cup faulty) :
        (entry[1] \notin doubled /\ ~Pending(entry)) => (entry \in table <=> Wanted(entry))

\* A source can be blocked again after it was unblocked: a type whose blocked
\* flag is set has the source's entry in the blacklist, to be reset with it.
BlockedHasEntry ==
    \A s \in Floods \ doubled, t \in FloodTypes :
        flood[s][t].blocked => blacklisted[s] = t

\* No callback writes late: whatever comes between the monitor's decision and a
\* write of its callback, the switch gains only an entry the monitor wants at
\* that moment, and loses only one it does not (REST calls, failing writes and
\* doubly blocked sources apart).
OnlyWantedWrites ==
    [][\A entry \in Entries \ (byHand' \cup faulty') :
          entry[1] \notin doubled =>
              /\ entry \in table' \ table => Wanted(entry)
              /\ entry \in table \ table' => ~Wanted(entry)]_gatewayVars
=============================================================================
