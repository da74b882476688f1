--------------------------- MODULE P4GatewayProofs ---------------------------
(***************************************************************************)
(* Proofs, for any sources, types, numbers of blocks and of failing        *)
(* writes, of the properties of P4Gateway.                                 *)
(*                                                                         *)
(* SwitchFollowsMonitor says nothing of the source whose callback runs, so *)
(* it is not inductive.  What is: only the entries the callback is still   *)
(* to write may differ, and the callback holds the type the monitor has.   *)
(***************************************************************************)
EXTENDS P4Gateway, TLAPS

\* Whoever is to be unblocked is blocked.
Expiring == \A s \in timeUp \cup gw.rest : blacklisted[s] # "none"

\* The running callback is of the type the monitor has, or of what it forgot.
CallbackKnows ==
    /\ (gw.pc \in {"limit", "list"} /\ gw.src \notin doubled) => blacklisted[gw.src] = gw.type
    /\ gw.pc \in {"unlimit", "unlist"} => blacklisted[gw.src] = "none"

\* The entries the running callback is still to write, exactly.
Outstanding(entry) ==
    /\ entry[1] = gw.src
    /\ \/ gw.pc \in {"limit", "unlimit"} /\ entry[2] \in {gw.type, "blacklist"}
       \/ gw.pc \in {"list", "unlist"} /\ entry[2] = "blacklist"

InDoubt(entry) == entry \in byHand \cup faulty \/ entry[1] \in doubled

Settled ==
    \A entry \in Entries :
        ~InDoubt(entry) /\ ~Outstanding(entry) => (entry \in table <=> Wanted(entry))

GatewayInv == GatewayTypeOK /\ Expiring /\ CallbackKnows /\ Settled /\ BlockedHasEntry

-----------------------------------------------------------------------------
\* A table write changes one entry at most; a successful insertion leaves it
\* there, and any other outcome leaves it in doubt.
LEMMA InsertedEntry ==
    ASSUME GatewayTypeOK, NEW entry \in Entries, InsertEntry(entry)
    PROVE  /\ table' \subseteq Entries /\ tracked' \subseteq Entries
           /\ faulty' \subseteq Entries /\ switchFaults' \in Nat
           /\ \A other \in Entries : other # entry => (other \in table' <=> other \in table)
           /\ faulty \subseteq faulty' /\ faulty' \subseteq faulty \cup {entry}
           /\ entry \in table' \/ entry \in faulty'
BY P4GatewayAssumption DEF InsertEntry, WriteFails, switchVars, GatewayTypeOK

LEMMA DeletedEntry ==
    ASSUME GatewayTypeOK, NEW entry \in Entries, DeleteEntry(entry)
    PROVE  /\ table' \subseteq Entries /\ tracked' \subseteq Entries
           /\ faulty' \subseteq Entries /\ switchFaults' \in Nat
           /\ \A other \in Entries : other # entry => (other \in table' <=> other \in table)
           /\ faulty \subseteq faulty' /\ faulty' \subseteq faulty \cup {entry}
           /\ entry \notin table' \/ entry \in faulty'
BY P4GatewayAssumption DEF DeleteEntry, WriteFails, switchVars, GatewayTypeOK

\* The entries the callbacks write.
LEMMA CallbackEntries ==
    ASSUME GatewayTypeOK
    PROVE  <<gw.src, gw.type>> \in Entries /\ <<gw.src, "blacklist">> \in Entries
BY DEF GatewayTypeOK, Gateway, Entries, Kinds

\* Resetting a flag of one type of one source keeps the stats typed.
LEMMA FlagReset ==
    ASSUME NEW stats \in [Floods -> [FloodTypes -> Stats]], NEW s \in Floods,
           NEW t \in FloodTypes
    PROVE  /\ [stats EXCEPT ![s][t].l1 = FALSE] \in [Floods -> [FloodTypes -> Stats]]
           /\ [stats EXCEPT ![s][t].l2 = FALSE] \in [Floods -> [FloodTypes -> Stats]]
           /\ [stats EXCEPT ![s][t].blocked = FALSE] \in [Floods -> [FloodTypes -> Stats]]
<1>1. stats[s][t] \in Stats
  OBVIOUS
<1>2. ASSUME NEW r \in Stats
      PROVE  [stats EXCEPT ![s][t] = r] \in [Floods -> [FloodTypes -> Stats]]
  OBVIOUS
<1>3. /\ [stats[s][t] EXCEPT !.l1 = FALSE] \in Stats
      /\ [stats[s][t] EXCEPT !.l2 = FALSE] \in Stats
      /\ [stats[s][t] EXCEPT !.blocked = FALSE] \in Stats
  BY <1>1 DEF Stats
<1>4. /\ [stats EXCEPT ![s][t].l1 = FALSE]
             = [stats EXCEPT ![s][t] = [stats[s][t] EXCEPT !.l1 = FALSE]]
      /\ [stats EXCEPT ![s][t].l2 = FALSE]
             = [stats EXCEPT ![s][t] = [stats[s][t] EXCEPT !.l2 = FALSE]]
      /\ [stats EXCEPT ![s][t].blocked = FALSE]
             = [stats EXCEPT ![s][t] = [stats[s][t] EXCEPT !.blocked = FALSE]]
  OBVIOUS
<1> QED BY <1>2, <1>3, <1>4

-----------------------------------------------------------------------------
LEMMA GatewayInitInv == GatewayInit => GatewayInv
<1> SUFFICES ASSUME GatewayInit PROVE GatewayInv
  OBVIOUS
<1>1. GatewayTypeOK
  BY DEF GatewayInit, GatewayTypeOK, Stats, NoStats, Gateway
<1>2. Expiring /\ CallbackKnows
  BY DEF GatewayInit, Expiring, CallbackKnows
<1>3. Settled
  BY DEF GatewayInit, Settled, Wanted, Entries
<1>4. BlockedHasEntry
  BY DEF GatewayInit, BlockedHasEntry, NoStats
<1> QED BY <1>1, <1>2, <1>3, <1>4 DEF GatewayInv

LEMMA GatewayTypeStep ==
    ASSUME GatewayInv, [GatewayNext]_gatewayVars
    PROVE  GatewayTypeOK'
<1> USE DEF GatewayInv, monitorVars
<1>1. ASSUME NEW s \in Floods, NEW t \in FloodTypes, NEW overL1 \in BOOLEAN,
             NEW overL2 \in BOOLEAN, RecordPacket(s, t, overL1, overL2)
      PROVE  GatewayTypeOK'
  <2>1. flood' \in [Floods -> [FloodTypes -> Stats]]
    BY <1>1 DEF RecordPacket, GatewayTypeOK, Stats
  <2>2. /\ blacklisted' \in [Floods -> FloodTypes \cup {"none"}]
        /\ timeUp' \subseteq Floods /\ doubled' \subseteq Floods /\ blocks' \in Nat
    BY <1>1 DEF RecordPacket, GatewayTypeOK
  <2>3. gw' \in Gateway
    <3>1. gw' = gw \/ gw' = [gw EXCEPT !.pc = "limit", !.src = s, !.type = t]
      BY <1>1 DEF RecordPacket
    <3> QED BY <3>1 DEF GatewayTypeOK, Gateway
  <2> QED BY <1>1, <2>1, <2>2, <2>3 DEF RecordPacket, switchVars, GatewayTypeOK
<1>2. ASSUME LimitSource \/ BlacklistSource PROVE GatewayTypeOK'
  <2>1. gw' \in Gateway
    BY <1>2 DEF LimitSource, BlacklistSource, GatewayTypeOK, Gateway
  <2> QED
    BY <1>2, <2>1, CallbackEntries, InsertedEntry DEF LimitSource, BlacklistSource, GatewayTypeOK
<1>3. ASSUME UnlimitSource \/ UnlistSource PROVE GatewayTypeOK'
  <2>1. gw' \in Gateway
    BY <1>3 DEF UnlimitSource, UnlistSource, GatewayTypeOK, Gateway
  <2> QED
    BY <1>3, <2>1, CallbackEntries, DeletedEntry DEF UnlimitSource, UnlistSource, GatewayTypeOK
<1>4. ASSUME StartCleanup \/ EndCleanup PROVE GatewayTypeOK'
  <2>1. gw' \in Gateway
    <3>1. CASE StartCleanup
      BY <3>1 DEF StartCleanup, GatewayTypeOK, Gateway
    <3>2. CASE EndCleanup
      BY <3>2 DEF EndCleanup, GatewayTypeOK, Gateway
    <3> QED BY <1>4, <3>1, <3>2
  <2> QED BY <1>4, <2>1 DEF StartCleanup, EndCleanup, switchVars, GatewayTypeOK
<1>5. ASSUME NEW s \in Floods, TimePasses(s) PROVE GatewayTypeOK'
  BY <1>5 DEF TimePasses, switchVars, GatewayTypeOK
<1>6. ASSUME NEW s \in Floods, UnblockSource(s) PROVE GatewayTypeOK'
  <2>1. blacklisted[s] \in FloodTypes
    BY <1>6 DEF UnblockSource, Expiring, GatewayTypeOK
  <2>2. gw' \in Gateway
    BY <1>6, <2>1 DEF UnblockSource, GatewayTypeOK, Gateway
  <2>3. flood' \in [Floods -> [FloodTypes -> Stats]]
    <3> DEFINE t == blacklisted[s]
               one == [flood EXCEPT ![s][t].l1 = FALSE]
               two == [one EXCEPT ![s][t].l2 = FALSE]
    <3>1. one \in [Floods -> [FloodTypes -> Stats]]
      BY <2>1, FlagReset DEF GatewayTypeOK
    <3> HIDE DEF one
    <3>2. two \in [Floods -> [FloodTypes -> Stats]]
      BY <2>1, <3>1, FlagReset
    <3>3. flood' = [two EXCEPT ![s][t].blocked = FALSE]
      BY <1>6 DEF UnblockSource, one
    <3> HIDE DEF two
    <3> QED BY <2>1, <3>2, <3>3, FlagReset
  <2> QED BY <1>6, <2>2, <2>3 DEF UnblockSource, switchVars, GatewayTypeOK
<1>7. ASSUME NEW entry \in Entries, InsertByHand(entry) PROVE GatewayTypeOK'
  BY <1>7, InsertedEntry DEF InsertByHand, GatewayTypeOK
<1>8. ASSUME NEW entry \in Entries, DeleteByHand(entry) PROVE GatewayTypeOK'
  BY <1>8, DeletedEntry DEF DeleteByHand, GatewayTypeOK
<1>9. ASSUME UNCHANGED gatewayVars PROVE GatewayTypeOK'
  BY <1>9 DEF gatewayVars, GatewayTypeOK
<1> QED
  BY <1>1, <1>2, <1>3, <1>4, <1>5, <1>6, <1>7, <1>8, <1>9 DEF GatewayNext

LEMMA ExpiringStep ==
    ASSUME GatewayInv, [GatewayNext]_gatewayVars
    PROVE  Expiring'
<1> USE DEF GatewayInv, monitorVars
<1>1. ASSUME NEW s \in Floods, NEW t \in FloodTypes, NEW overL1 \in BOOLEAN,
             NEW overL2 \in BOOLEAN, RecordPacket(s, t, overL1, overL2)
      PROVE  Expiring'
  <2>1. gw'.rest = gw.rest
    BY <1>1 DEF RecordPacket, GatewayTypeOK, Gateway
  <2>2. \/ blacklisted' = blacklisted /\ timeUp' = timeUp
        \/ blacklisted' = [blacklisted EXCEPT ![s] = t] /\ timeUp' = timeUp \ {s}
    BY <1>1 DEF RecordPacket
  <2> QED BY <2>1, <2>2, P4GatewayAssumption DEF Expiring, GatewayTypeOK, Gateway
<1>2. ASSUME NEW s \in Floods, UnblockSource(s) PROVE Expiring'
  <2>1. gw'.rest = gw.rest \ {s}
    BY <1>2 DEF UnblockSource, GatewayTypeOK, Gateway
  <2> QED BY <1>2, <2>1 DEF UnblockSource, Expiring, GatewayTypeOK, Gateway
<1>3. ASSUME NEW s \in Floods, TimePasses(s) PROVE Expiring'
  BY <1>3 DEF TimePasses, Expiring
<1>4. ASSUME StartCleanup PROVE Expiring'
  <2>1. gw'.rest = timeUp
    BY <1>4 DEF StartCleanup, GatewayTypeOK, Gateway
  <2> QED BY <1>4, <2>1 DEF StartCleanup, Expiring
<1>5. ASSUME \/ LimitSource \/ BlacklistSource \/ UnlimitSource \/ UnlistSource
             \/ EndCleanup
      PROVE  Expiring'
  <2>1. gw'.rest = gw.rest
    BY <1>5 DEF LimitSource, BlacklistSource, UnlimitSource, UnlistSource, EndCleanup,
                GatewayTypeOK, Gateway
  <2> QED
    BY <1>5, <2>1 DEF LimitSource, BlacklistSource, UnlimitSource, UnlistSource, EndCleanup,
                      Expiring
<1>6. ASSUME UNCHANGED <<monitorVars, gw>> PROVE Expiring'
  BY <1>6 DEF Expiring
<1> QED
  BY <1>1, <1>2, <1>3, <1>4, <1>5, <1>6
     DEF GatewayNext, InsertByHand, DeleteByHand, gatewayVars

LEMMA CallbackKnowsStep ==
    ASSUME GatewayInv, [GatewayNext]_gatewayVars
    PROVE  CallbackKnows'
<1> USE DEF GatewayInv, monitorVars
<1>1. ASSUME NEW s \in Floods, NEW t \in FloodTypes, NEW overL1 \in BOOLEAN,
             NEW overL2 \in BOOLEAN, RecordPacket(s, t, overL1, overL2)
      PROVE  CallbackKnows'
  <2>1. gw.pc = "free"
    BY <1>1 DEF RecordPacket
  <2>2. \/ gw' = gw
        \/ /\ gw' = [gw EXCEPT !.pc = "limit", !.src = s, !.type = t]
           /\ blacklisted' = [blacklisted EXCEPT ![s] = t]
    BY <1>1 DEF RecordPacket
  <2>3. CASE gw' = gw
    BY <2>1, <2>3 DEF CallbackKnows
  <2>4. CASE /\ gw' = [gw EXCEPT !.pc = "limit", !.src = s, !.type = t]
             /\ blacklisted' = [blacklisted EXCEPT ![s] = t]
    <3>1. gw'.pc = "limit" /\ gw'.src = s /\ gw'.type = t
      BY <2>4 DEF GatewayTypeOK, Gateway
    <3>2. blacklisted'[s] = t
      BY <2>4 DEF GatewayTypeOK
    <3> QED BY <3>1, <3>2 DEF CallbackKnows
  <2> QED BY <2>2, <2>3, <2>4
<1>2. ASSUME NEW s \in Floods, UnblockSource(s) PROVE CallbackKnows'
  <2>1. gw'.pc = "unlimit" /\ gw'.src = s /\ blacklisted'[s] = "none"
    BY <1>2 DEF UnblockSource, GatewayTypeOK, Gateway
  <2> QED BY <2>1 DEF CallbackKnows
<1>3. ASSUME LimitSource \/ BlacklistSource PROVE CallbackKnows'
  <2>1. /\ gw.pc \in {"limit", "list"} /\ gw'.pc \in {"list", "free"}
        /\ gw'.src = gw.src /\ gw'.type = gw.type
    BY <1>3 DEF LimitSource, BlacklistSource, GatewayTypeOK, Gateway
  <2> QED BY <1>3, <2>1 DEF LimitSource, BlacklistSource, CallbackKnows
<1>4. ASSUME UnlimitSource \/ UnlistSource PROVE CallbackKnows'
  <2>1. /\ gw.pc \in {"unlimit", "unlist"} /\ gw'.pc \in {"unlist", "cleanup"}
        /\ gw'.src = gw.src
    BY <1>4 DEF UnlimitSource, UnlistSource, GatewayTypeOK, Gateway
  <2> QED BY <1>4, <2>1 DEF UnlimitSource, UnlistSource, CallbackKnows
<1>5. ASSUME StartCleanup \/ EndCleanup PROVE CallbackKnows'
  <2>1. gw'.pc \in {"cleanup", "free"}
    BY <1>5 DEF StartCleanup, EndCleanup, GatewayTypeOK, Gateway
  <2> QED BY <2>1 DEF CallbackKnows
<1>6. ASSUME UNCHANGED <<blacklisted, doubled, gw>> PROVE CallbackKnows'
  BY <1>6 DEF CallbackKnows
<1> QED
  BY <1>1, <1>2, <1>3, <1>4, <1>5, <1>6
     DEF GatewayNext, TimePasses, InsertByHand, DeleteByHand, gatewayVars

LEMMA BlockedHasEntryStep ==
    ASSUME GatewayInv, [GatewayNext]_gatewayVars
    PROVE  BlockedHasEntry'
<1> USE DEF GatewayInv, monitorVars
<1>1. ASSUME NEW s \in Floods, NEW t \in FloodTypes, NEW overL1 \in BOOLEAN,
             NEW overL2 \in BOOLEAN, RecordPacket(s, t, overL1, overL2)
      PROVE  BlockedHasEntry'
  <2> SUFFICES ASSUME NEW q \in Floods \ doubled', NEW u \in FloodTypes,
                      flood'[q][u].blocked
               PROVE  blacklisted'[q] = u
    BY DEF BlockedHasEntry
  <2>1. doubled \subseteq doubled'
    BY <1>1 DEF RecordPacket
  <2>2. CASE q = s /\ u = t
    <3>1. CASE flood[s][t].blocked
      BY <1>1, <2>1, <2>2, <3>1 DEF RecordPacket, BlockedHasEntry
    <3>2. CASE ~flood[s][t].blocked
      <4>1. blacklisted' = [blacklisted EXCEPT ![s] = t]
        BY <1>1, <2>2, <3>2 DEF RecordPacket, GatewayTypeOK
      <4> QED BY <2>2, <4>1 DEF GatewayTypeOK
    <3> QED BY <3>1, <3>2
  <2>3. CASE ~(q = s /\ u = t)
    <3>1. flood[q][u].blocked
      BY <1>1, <2>3 DEF RecordPacket, GatewayTypeOK
    <3>2. blacklisted[q] = u
      BY <2>1, <3>1 DEF BlockedHasEntry
    <3> QED BY <1>1, <2>3, <3>2, P4GatewayAssumption DEF RecordPacket, GatewayTypeOK
  <2> QED BY <2>2, <2>3
<1>2. ASSUME NEW s \in Floods, UnblockSource(s) PROVE BlockedHasEntry'
  <2> SUFFICES ASSUME NEW q \in Floods \ doubled, NEW u \in FloodTypes,
                      flood'[q][u].blocked
               PROVE  blacklisted'[q] = u
    BY <1>2 DEF BlockedHasEntry, UnblockSource
  <2>1. CASE q = s
    <3>1. u # blacklisted[s]
      BY <1>2, <2>1 DEF UnblockSource, GatewayTypeOK, Stats
    <3>2. flood[q][u].blocked
      BY <1>2, <2>1, <3>1 DEF UnblockSource, GatewayTypeOK
    <3> QED BY <2>1, <3>1, <3>2 DEF BlockedHasEntry
  <2>2. CASE q # s
    BY <1>2, <2>2 DEF UnblockSource, GatewayTypeOK, BlockedHasEntry
  <2> QED BY <2>1, <2>2
<1>3. ASSUME UNCHANGED <<flood, blacklisted, doubled>> PROVE BlockedHasEntry'
  BY <1>3 DEF BlockedHasEntry
<1> QED
  BY <1>1, <1>2, <1>3
     DEF GatewayNext, LimitSource, BlacklistSource, StartCleanup, UnlimitSource,
         UnlistSource, EndCleanup, TimePasses, InsertByHand, DeleteByHand, gatewayVars

\* What InsertEntry or DeleteEntry does to one entry leaves the others settled.
LEMMA SettledStep ==
    ASSUME GatewayInv, [GatewayNext]_gatewayVars
    PROVE  Settled'
<1> USE DEF GatewayInv, monitorVars
<1> SUFFICES ASSUME NEW entry \in Entries, ~InDoubt(entry)', ~Outstanding(entry)'
             PROVE  entry \in table' <=> Wanted(entry)'
  BY DEF Settled
<1>0. PICK q \in Floods, k \in Kinds : entry = <<q, k>>
  BY DEF Entries
<1>a. entry[1] = q /\ entry[2] = k
  BY <1>0
<1>1. ASSUME NEW s \in Floods, NEW t \in FloodTypes, NEW overL1 \in BOOLEAN,
             NEW overL2 \in BOOLEAN, RecordPacket(s, t, overL1, overL2)
      PROVE  entry \in table' <=> Wanted(entry)'
  <2>1. /\ gw.pc = "free" /\ UNCHANGED <<table, faulty, byHand>>
        /\ ~InDoubt(entry)
        /\ entry \in table <=> Wanted(entry)
    BY <1>1 DEF RecordPacket, switchVars, InDoubt, Outstanding, Settled
  <2>2. \/ blacklisted' = blacklisted
        \/ /\ blacklisted' = [blacklisted EXCEPT ![s] = t]
           /\ gw' = [gw EXCEPT !.pc = "limit", !.src = s, !.type = t]
           /\ blacklisted[s] # "none" => s \in doubled'
    BY <1>1 DEF RecordPacket
  <2>3. CASE blacklisted' # blacklisted /\ q = s
    <3>1. blacklisted[s] = "none" /\ blacklisted'[s] = t
      BY <1>a, <2>2, <2>3 DEF InDoubt, GatewayTypeOK
    <3>2. gw'.pc = "limit" /\ gw'.src = s /\ gw'.type = t
      BY <2>2, <2>3 DEF GatewayTypeOK, Gateway
    <3>3. k \notin {t, "blacklist"}
      BY <1>a, <2>3, <3>2 DEF Outstanding
    <3> QED BY <1>a, <2>1, <2>3, <3>1, <3>3 DEF Wanted
  <2>4. CASE ~(blacklisted' # blacklisted /\ q = s)
    <3>1. blacklisted'[q] = blacklisted[q]
      BY <2>2, <2>4 DEF GatewayTypeOK
    <3> QED BY <1>a, <2>1, <3>1 DEF Wanted
  <2> QED BY <2>3, <2>4
<1>2. ASSUME LimitSource PROVE entry \in table' <=> Wanted(entry)'
  <2>1. /\ gw.pc = "limit" /\ gw'.pc = "list" /\ gw'.src = gw.src
        /\ InsertEntry(<<gw.src, gw.type>>)
        /\ UNCHANGED <<blacklisted, doubled, byHand>>
    BY <1>2 DEF LimitSource, GatewayTypeOK, Gateway
  <2>2. CASE entry = <<gw.src, gw.type>>
    <3>1. entry \in table'
      BY <2>1, <2>2, CallbackEntries, InsertedEntry DEF InDoubt
    <3>2. blacklisted[q] = k /\ k # "none"
      BY <1>0, <2>1, <2>2, P4GatewayAssumption
         DEF CallbackKnows, InDoubt, GatewayTypeOK, Gateway
    <3> QED BY <1>a, <2>1, <3>1, <3>2 DEF Wanted
  <2>3. CASE entry # <<gw.src, gw.type>>
    <3>1. (entry \in table' <=> entry \in table) /\ ~InDoubt(entry)
      BY <2>1, <2>3, CallbackEntries, InsertedEntry DEF InDoubt
    <3>2. ~Outstanding(entry)
      BY <1>0, <2>1, <2>3 DEF Outstanding
    <3> QED BY <2>1, <3>1, <3>2 DEF Settled, Wanted
  <2> QED BY <2>2, <2>3
<1>3. ASSUME BlacklistSource PROVE entry \in table' <=> Wanted(entry)'
  <2>1. /\ gw.pc = "list" /\ InsertEntry(<<gw.src, "blacklist">>)
        /\ UNCHANGED <<blacklisted, doubled, byHand>>
    BY <1>3 DEF BlacklistSource
  <2>2. CASE entry = <<gw.src, "blacklist">>
    <3>1. entry \in table'
      BY <2>1, <2>2, CallbackEntries, InsertedEntry DEF InDoubt
    <3>2. k = "blacklist" /\ blacklisted[q] # "none"
      BY <1>0, <2>1, <2>2, P4GatewayAssumption
         DEF CallbackKnows, InDoubt, GatewayTypeOK, Gateway
    <3> QED BY <1>a, <2>1, <3>1, <3>2 DEF Wanted
  <2>3. CASE entry # <<gw.src, "blacklist">>
    <3>1. (entry \in table' <=> entry \in table) /\ ~InDoubt(entry)
      BY <2>1, <2>3, CallbackEntries, InsertedEntry DEF InDoubt
    <3>2. ~Outstanding(entry)
      BY <1>0, <2>1, <2>3 DEF Outstanding
    <3> QED BY <2>1, <3>1, <3>2 DEF Settled, Wanted
  <2> QED BY <2>2, <2>3
<1>4. ASSUME UnlimitSource PROVE entry \in table' <=> Wanted(entry)'
  <2>1. /\ gw.pc = "unlimit" /\ gw'.pc = "unlist" /\ gw'.src = gw.src
        /\ DeleteEntry(<<gw.src, gw.type>>)
        /\ UNCHANGED <<blacklisted, doubled, byHand>>
    BY <1>4 DEF UnlimitSource, GatewayTypeOK, Gateway
  <2>2. CASE entry = <<gw.src, gw.type>>
    <3>1. entry \notin table'
      BY <2>1, <2>2, CallbackEntries, DeletedEntry DEF InDoubt
    <3>2. blacklisted[q] = "none"
      BY <1>0, <2>1, <2>2 DEF CallbackKnows
    <3> QED BY <1>a, <2>1, <3>1, <3>2 DEF Wanted
  <2>3. CASE entry # <<gw.src, gw.type>>
    <3>1. (entry \in table' <=> entry \in table) /\ ~InDoubt(entry)
      BY <2>1, <2>3, CallbackEntries, DeletedEntry DEF InDoubt
    <3>2. ~Outstanding(entry)
      BY <1>0, <2>1, <2>3 DEF Outstanding
    <3> QED BY <2>1, <3>1, <3>2 DEF Settled, Wanted
  <2> QED BY <2>2, <2>3
<1>5. ASSUME UnlistSource PROVE entry \in table' <=> Wanted(entry)'
  <2>1. /\ gw.pc = "unlist" /\ DeleteEntry(<<gw.src, "blacklist">>)
        /\ UNCHANGED <<blacklisted, doubled, byHand>>
    BY <1>5 DEF UnlistSource
  <2>2. CASE entry = <<gw.src, "blacklist">>
    <3>1. entry \notin table'
      BY <2>1, <2>2, CallbackEntries, DeletedEntry DEF InDoubt
    <3>2. blacklisted[q] = "none"
      BY <1>0, <2>1, <2>2 DEF CallbackKnows
    <3> QED BY <1>a, <2>1, <3>1, <3>2 DEF Wanted
  <2>3. CASE entry # <<gw.src, "blacklist">>
    <3>1. (entry \in table' <=> entry \in table) /\ ~InDoubt(entry)
      BY <2>1, <2>3, CallbackEntries, DeletedEntry DEF InDoubt
    <3>2. ~Outstanding(entry)
      BY <1>0, <2>1, <2>3 DEF Outstanding
    <3> QED BY <2>1, <3>1, <3>2 DEF Settled, Wanted
  <2> QED BY <2>2, <2>3
<1>6. ASSUME NEW s \in Floods, UnblockSource(s)
      PROVE  entry \in table' <=> Wanted(entry)'
  <2>1. /\ gw.pc = "cleanup" /\ UNCHANGED <<table, faulty, byHand, doubled>>
        /\ gw'.pc = "unlimit" /\ gw'.src = s /\ gw'.type = blacklisted[s]
        /\ blacklisted' = [blacklisted EXCEPT ![s] = "none"]
    BY <1>6 DEF UnblockSource, switchVars, GatewayTypeOK, Gateway
  <2>2. entry \in table <=> Wanted(entry)
    BY <2>1 DEF Settled, InDoubt, Outstanding
  <2>3. CASE q = s
    <3>1. k \notin {blacklisted[s], "blacklist"}
      BY <1>a, <2>1, <2>3 DEF Outstanding
    <3>2. blacklisted'[q] = "none"
      BY <2>1, <2>3 DEF GatewayTypeOK
    <3> QED BY <1>a, <2>1, <2>2, <2>3, <3>1, <3>2 DEF Wanted
  <2>4. CASE q # s
    BY <1>a, <2>1, <2>2, <2>4 DEF Wanted, GatewayTypeOK
  <2> QED BY <2>3, <2>4
<1>7. ASSUME NEW other \in Entries, InsertByHand(other) \/ DeleteByHand(other)
      PROVE  entry \in table' <=> Wanted(entry)'
  <2>1. entry # other /\ UNCHANGED <<blacklisted, doubled, gw>>
    BY <1>7 DEF InsertByHand, DeleteByHand, InDoubt
  <2>2. (entry \in table' <=> entry \in table) /\ ~InDoubt(entry)
    BY <1>7, <2>1, InsertedEntry, DeletedEntry DEF InsertByHand, DeleteByHand, InDoubt
  <2> QED BY <2>1, <2>2 DEF Settled, Outstanding, Wanted
<1>8. ASSUME StartCleanup \/ EndCleanup PROVE entry \in table' <=> Wanted(entry)'
  <2>1. /\ gw.pc \in {"free", "cleanup"}
        /\ UNCHANGED <<table, faulty, byHand, doubled, blacklisted>>
    BY <1>8 DEF StartCleanup, EndCleanup, switchVars
  <2> QED BY <2>1 DEF Settled, Outstanding, InDoubt, Wanted
<1>9. ASSUME UNCHANGED <<blacklisted, doubled, gw, table, faulty, byHand>>
      PROVE  entry \in table' <=> Wanted(entry)'
  BY <1>9 DEF Settled, Outstanding, InDoubt, Wanted
<1> QED
  BY <1>1, <1>2, <1>3, <1>4, <1>5, <1>6, <1>7, <1>8, <1>9
     DEF GatewayNext, TimePasses, switchVars, gatewayVars

-----------------------------------------------------------------------------
\* The inductive invariant: the switch differs from what the monitor wants only
\* in the entries the running callback is still to write.
THEOREM GatewayInvariant == GatewaySpec => []GatewayInv
<1>1. GatewayInv /\ [GatewayNext]_gatewayVars => GatewayInv'
  BY GatewayTypeStep, ExpiringStep, CallbackKnowsStep, SettledStep, BlockedHasEntryStep
     DEF GatewayInv
<1> QED BY <1>1, GatewayInitInv, PTL DEF GatewaySpec

\* The variables keep their types: no callback runs without a type.
THEOREM GatewayTypeCorrect == GatewaySpec => []GatewayTypeOK
<1>1. GatewayInv => GatewayTypeOK
  BY DEF GatewayInv
<1> QED BY <1>1, GatewayInvariant, PTL

\* However REST calls and callbacks interleave, every entry that neither a REST
\* call nor a failed write touched is in the table exactly if the monitor
\* wants it, outside the callbacks of its source.
THEOREM SwitchFollows == GatewaySpec => []SwitchFollowsMonitor
<1>1. GatewayInv => SwitchFollowsMonitor
  BY DEF GatewayInv, Settled, SwitchFollowsMonitor, InDoubt, Outstanding, Pending
<1> QED BY <1>1, GatewayInvariant, PTL

\* A type whose flag is set is the type the source is listed for.
THEOREM BlockedListed == GatewaySpec => []BlockedHasEntry
<1>1. GatewayInv => BlockedHasEntry
  BY DEF GatewayInv
<1> QED BY <1>1, GatewayInvariant, PTL

\* A callback's writes, however late, are what the monitor still wants: its lock
\* is held from the decision to the last write.
THEOREM CallbacksInTime == GatewaySpec => OnlyWantedWrites
<1> DEFINE InTime(entry) == entry[1] \notin doubled =>
                                /\ entry \in table' \ table => Wanted(entry)
                                /\ entry \in table \ table' => ~Wanted(entry)
<1>1. ASSUME GatewayInv, [GatewayNext]_gatewayVars,
             NEW entry \in Entries \ (byHand' \cup faulty')
      PROVE  InTime(entry)
  <2> SUFFICES ASSUME entry \in table' \ table \/ entry \in table \ table'
               PROVE  InTime(entry)
    OBVIOUS
  <2> HIDE DEF InTime
  <2>a. GatewayTypeOK /\ CallbackKnows
    BY <1>1 DEF GatewayInv
  <2>b. PICK q \in Floods, k \in Kinds : entry = <<q, k>>
    BY <1>1 DEF Entries
  <2>1. ASSUME LimitSource PROVE InTime(entry)
    <3>1. entry = <<gw.src, gw.type>> /\ entry \in table'
      BY <1>1, <2>a, <2>1, CallbackEntries, InsertedEntry DEF LimitSource
    <3>2. q = gw.src /\ k = gw.type /\ gw.type \in FloodTypes
      BY <2>a, <2>b, <3>1 DEF GatewayTypeOK, Gateway
    <3> QED BY <2>a, <2>b, <2>1, <3>1, <3>2, P4GatewayAssumption
            DEF LimitSource, CallbackKnows, Wanted, InTime
  <2>2. ASSUME BlacklistSource PROVE InTime(entry)
    <3>1. entry = <<gw.src, "blacklist">> /\ entry \in table'
      BY <1>1, <2>a, <2>2, CallbackEntries, InsertedEntry DEF BlacklistSource
    <3>2. q = gw.src /\ k = "blacklist" /\ gw.type \in FloodTypes
      BY <2>a, <2>b, <3>1 DEF GatewayTypeOK, Gateway
    <3> QED BY <2>a, <2>b, <2>2, <3>1, <3>2, P4GatewayAssumption
            DEF BlacklistSource, CallbackKnows, Wanted, InTime
  <2>3. ASSUME UnlimitSource \/ UnlistSource PROVE InTime(entry)
    <3>1. entry[1] = gw.src /\ entry \notin table'
      BY <1>1, <2>a, <2>3, CallbackEntries, DeletedEntry DEF UnlimitSource, UnlistSource
    <3>2. blacklisted[gw.src] = "none"
      BY <2>a, <2>3 DEF UnlimitSource, UnlistSource, CallbackKnows
    <3> QED BY <3>1, <3>2 DEF Wanted, InTime
  <2>4. ASSUME NEW other \in Entries, InsertByHand(other) \/ DeleteByHand(other)
        PROVE  InTime(entry)
    <3>1. entry # other
      BY <1>1, <2>4 DEF InsertByHand, DeleteByHand
    <3> QED
      BY <1>1, <2>a, <2>4, <3>1, InsertedEntry, DeletedEntry DEF InsertByHand, DeleteByHand
  <2>5. ASSUME StartCleanup \/ EndCleanup PROVE table' = table
    BY <2>5 DEF StartCleanup, EndCleanup, switchVars
  <2>6. ASSUME NEW s \in Floods, TimePasses(s) \/ UnblockSource(s) PROVE table' = table
    BY <2>6 DEF TimePasses, UnblockSource, switchVars
  <2>7. ASSUME NEW s \in Floods, NEW t \in FloodTypes, NEW overL1 \in BOOLEAN,
               NEW overL2 \in BOOLEAN, RecordPacket(s, t, overL1, overL2)
        PROVE  table' = table
    BY <2>7 DEF RecordPacket, switchVars
  <2>8. CASE UNCHANGED gatewayVars
    BY <2>8 DEF gatewayVars
  <2> QED
    BY <1>1, <2>1, <2>2, <2>3, <2>4, <2>5, <2>6, <2>7, <2>8 DEF GatewayNext
<1>2. GatewayInv /\ [GatewayNext]_gatewayVars
        => [\A entry \in Entries \ (byHand' \cup faulty') : InTime(entry)]_gatewayVars
  BY <1>1
<1> QED BY <1>2, GatewayInvariant, PTL DEF GatewaySpec, OnlyWantedWrites
=============================================================================
