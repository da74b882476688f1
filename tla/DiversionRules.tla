---------------------------- MODULE DiversionRules ----------------------------
(***************************************************************************)
(* The DDoS diversion service (src/109): the detector's triggers, the rule *)
(* manager with the tasks it creates, the API's calls, the expiry pass,    *)
(* and the FlowSpec routes the router holds.                               *)
(*                                                                         *)
(* Everything runs in one asyncio loop and no call inside a handler really *)
(* suspends (the ExaBGP socket is written with a blocking sendall), so a   *)
(* handler is one step; what interleaves is the tasks create_task queues   *)
(* with the triggers, API calls and passes that come before they run.      *)
(*                                                                         *)
(* Rates are the tier they fall in, addresses are one source and Dsts, and *)
(* dry_run is off and escalation on, as config.yaml has them.              *)
(***************************************************************************)
EXTENDS Integers, Sequences

CONSTANTS Dsts, NoRule,
          Rates, Types,        \* rates and attack types that occur
          MaxRules,            \* bound: rule ids
          MaxDiversionTasks,   \* bound: tasks queued at once
          UpgradeThreshold     \* escalation.upgrade_threshold

ASSUME DiversionAssumption ==
    /\ MaxRules \in Nat /\ MaxDiversionTasks \in Nat /\ UpgradeThreshold \in Nat
    /\ NoRule \notin 1..MaxRules
    /\ Rates \subseteq 1..3
    /\ Types \subseteq {"syn_flood", "udp_amplification", "http_flood", "dns_query_flood",
                        "ntp_reflection"}

VARIABLES
    ruleOf,        \* ruleOf[d]: dst_ip_to_rule_id
    activeRules,   \* activeRules[r]: the ActiveRule with id r
    tasks,         \* asyncio tasks created and not yet started, oldest first
    routes,        \* FlowSpec routes the router holds
    linkUp         \* writes to the ExaBGP socket succeed

diversionVars == <<ruleOf, activeRules, tasks, routes, linkUp>>

RuleIds == 1..MaxRules
Tiers == 1..3
Sources == {"any", "src"}
Protocols == {"any", "tcp", "udp"}
Ports == {"any", "80", "443", "53"}
RouteActions == {"redirect", "waf", "rate-limit", "discard"}
Match == [src : Sources, dst : Dsts, protocol : Protocols, port : Ports]
FlowSpecRule == [match : Match, action : RouteActions]
AttackTypes == {"syn_flood", "udp_amplification", "http_flood", "dns_query_flood",
                "ntp_reflection"}
Strategies == {"none", "redirect", "rate-limit", "discard"}
RuleRecord == [status : {"new", "active", "gone"}, rules : Seq(FlowSpecRule),
               attackType : AttackTypes \cup {"manual"}, tier : Tiers, rate : Tiers,
               strategy : Strategies, upgrades : Nat, overdue : BOOLEAN]
Task == [kind : {"apply", "check", "upgrade"}, rule : RuleIds, dst : Dsts,
         strategy : Strategies, https : BOOLEAN]

DiversionTypeOK ==
    /\ ruleOf \in [Dsts -> RuleIds \cup {NoRule}]
    /\ activeRules \in [RuleIds -> RuleRecord]
    /\ tasks \in Seq(Task)
    /\ routes \subseteq FlowSpecRule
    /\ linkUp \in BOOLEAN

Unused == [status |-> "new", rules |-> <<>>, attackType |-> "manual", tier |-> 1,
           rate |-> 1, strategy |-> "none", upgrades |-> 0, overdue |-> FALSE]

DiversionInit ==
    /\ ruleOf = [d \in Dsts |-> NoRule]
    /\ activeRules = [r \in RuleIds |-> Unused]
    /\ tasks = <<>> /\ routes = {} /\ linkUp = TRUE

IsActive(r) == r # NoRule /\ activeRules[r].status = "active"

(***************************************************************************)
(* FlowSpecController: what the commands do to the router's routes.  A     *)
(* route is known by its match; announcing a match again replaces it.      *)
(***************************************************************************)
Rule(src, dst, protocol, port, action) ==
    [match |-> [src |-> src, dst |-> dst, protocol |-> protocol, port |-> port],
     action |-> action]
Matches(rules) == {rules[i].match : i \in DOMAIN rules}
LastOfEach(rules) ==
    {rules[i] : i \in {i \in DOMAIN rules :
        \A j \in DOMAIN rules : j > i => rules[j].match # rules[i].match}}

Announced(held, rules) ==
    {route \in held : route.match \notin Matches(rules)} \cup LastOfEach(rules)

\* to_withdraw_command names no port.
WithdrawMatch(match) == [match EXCEPT !.port = "any"]
Withdrawn(held, rules) ==
    {route \in held : route.match \notin {WithdrawMatch(m) : m \in Matches(rules)}}

\* A write that fails is logged; connected stays set and nothing reconnects.
Sent(held) == routes' = IF linkUp THEN held ELSE routes

(***************************************************************************)
(* The rules a tier or an attack type asks for.                            *)
(***************************************************************************)
TierRules(tier, src, dst) ==
    CASE tier = 1 -> <<Rule(src, dst, "any", "any", "redirect")>>
      [] tier = 2 -> <<Rule(src, dst, "any", "any", "redirect"),
                       Rule(src, dst, "any", "any", "rate-limit")>>
      [] tier = 3 -> <<Rule(src, dst, "udp", "any", "discard")>>

\* Every type the classifier knows has rules of its own.
AttackRules(type, dst, https) ==
    CASE type = "http_flood" ->
            <<Rule("src", dst, "tcp", "80", "waf")>>
            \o (IF https THEN <<Rule("src", dst, "tcp", "443", "waf")>> ELSE <<>>)
      [] type \in {"udp_amplification", "ntp_reflection"} ->
            <<Rule("any", dst, "udp", "any", "discard")>>
      [] type = "dns_query_flood" -> <<Rule("any", dst, "udp", "53", "rate-limit")>>
      [] type = "syn_flood" -> <<Rule("any", dst, "tcp", "any", "redirect")>>
      [] OTHER -> <<>>

\* ATTACK_STRATEGY_MAPPING
StrategyOf(type) ==
    CASE type \in {"syn_flood", "http_flood"} -> "redirect"
      [] type \in {"udp_amplification", "ntp_reflection"} -> "discard"
      [] type = "dns_query_flood" -> "rate-limit"

TierOfStrategy(strategy, rate) ==
    CASE strategy = "discard" -> 3 [] strategy = "rate-limit" -> 2 [] OTHER -> rate

\* _should_upgrade_for_attack_type
StrategyUpgrade(old, new) ==
    \/ old = "redirect" /\ new \in {"rate-limit", "discard"}
    \/ old = "rate-limit" /\ new = "discard"

(***************************************************************************)
(* The triggers.                                                           *)
(***************************************************************************)
MakeTask(kind, r, d, strategy, https) ==
    [kind |-> kind, rule |-> r, dst |-> d, strategy |-> strategy, https |-> https]

NewRule(r, d, rules, type, tier, rate, strategy) ==
    /\ activeRules[r].status = "new" /\ \A s \in 1..(r - 1) : activeRules[s].status # "new"
    /\ activeRules' = [activeRules EXCEPT ![r] =
           [status |-> "active", rules |-> rules, attackType |-> type, tier |-> tier,
            rate |-> rate, strategy |-> strategy, upgrades |-> 0, overdue |-> FALSE]]
    /\ ruleOf' = [ruleOf EXCEPT ![d] = r]

Seen(r, rate) ==
    activeRules' = [activeRules EXCEPT ![r].rate = rate, ![r].overdue = FALSE]

\* trigger_diversion, which only the SYN counter calls: the surge test needs a
\* baseline, and nothing ever puts one in baseline_traffic.
TriggerDiversion(d, rate) ==
    LET r == ruleOf[d] IN
    /\ Len(tasks) < MaxDiversionTasks
    /\ \/ /\ IsActive(r)
          /\ Seen(r, rate)
          /\ tasks' = Append(tasks, MakeTask("check", r, d, "none", FALSE))
          /\ UNCHANGED ruleOf
       \/ /\ ~IsActive(r)
          /\ \E new \in RuleIds :
                /\ NewRule(new, d, TierRules(rate, "src", d), "syn_flood", rate, rate, "none")
                /\ tasks' = Append(tasks, MakeTask("apply", new, d, "none", FALSE))
    /\ UNCHANGED <<routes, linkUp>>

\* trigger_diversion_with_strategy; https: the record's port is 443 or 8080.
TriggerWithStrategy(d, type, rate, https) ==
    LET r == ruleOf[d]  strategy == StrategyOf(type) IN
    /\ Len(tasks) < MaxDiversionTasks
    /\ \/ /\ IsActive(r)
          /\ Seen(r, rate)
          /\ tasks' = Append(tasks,
                 IF StrategyUpgrade(activeRules[r].strategy, strategy)
                 THEN MakeTask("upgrade", r, d, strategy, https)
                 ELSE MakeTask("check", r, d, "none", FALSE))
          /\ UNCHANGED ruleOf
       \/ /\ ~IsActive(r)
          /\ \E new \in RuleIds :
                /\ NewRule(new, d, AttackRules(type, d, https), type,
                           TierOfStrategy(strategy, rate), rate, strategy)
                /\ tasks' = Append(tasks, MakeTask("apply", new, d, "none", FALSE))
    /\ UNCHANGED <<routes, linkUp>>

(***************************************************************************)
(* The tasks, in the order they were created.                              *)
(***************************************************************************)
Starts(kind) == tasks # <<>> /\ Head(tasks).kind = kind /\ tasks' = Tail(tasks)

\* Every coroutine first looks whether its rule is still there.
DropTask ==
    /\ tasks # <<>> /\ ~IsActive(Head(tasks).rule)
    /\ tasks' = Tail(tasks)
    /\ UNCHANGED <<ruleOf, activeRules, routes, linkUp>>

ApplyRules ==
    /\ Starts("apply") /\ IsActive(Head(tasks).rule)
    /\ Sent(Announced(routes, activeRules[Head(tasks).rule].rules))
    /\ UNCHANGED <<ruleOf, activeRules, linkUp>>

\* Mutant of UpgradeRule: the new rules replace the old before these are withdrawn.
UpgradeRuleLate(r, d, tier) ==
    LET new == TierRules(tier, activeRules[r].rules[1].match.src, d) IN
    /\ Sent(Announced(Withdrawn(routes, new), new))
    /\ activeRules' = [activeRules EXCEPT ![r].rules = new, ![r].tier = tier,
                                          ![r].upgrades = 0]

UpgradeRule(r, d, tier) ==
    LET old == activeRules[r].rules
        new == TierRules(tier, old[1].match.src, d) IN
    /\ Sent(Announced(Withdrawn(routes, old), new))
    /\ activeRules' = [activeRules EXCEPT ![r].rules = new, ![r].tier = tier,
                                          ![r].upgrades = 0]

\* Mutant of CheckAndUpgrade: any other tier than the rule's counts.
CheckAndChange ==
    LET r == Head(tasks).rule IN
    /\ Starts("check") /\ IsActive(r)
    /\ IF activeRules[r].rate # activeRules[r].tier
       THEN IF activeRules[r].upgrades + 1 >= UpgradeThreshold
            THEN UpgradeRule(r, Head(tasks).dst, activeRules[r].rate)
            ELSE /\ activeRules' = [activeRules EXCEPT ![r].upgrades = @ + 1]
                 /\ UNCHANGED routes
       ELSE UNCHANGED <<activeRules, routes>>
    /\ UNCHANGED <<ruleOf, linkUp>>

\* The count is not reset by a lower rate, only by an upgrade.
CheckAndUpgrade ==
    LET r == Head(tasks).rule IN
    /\ Starts("check") /\ IsActive(r)
    /\ IF activeRules[r].rate > activeRules[r].tier
       THEN IF activeRules[r].upgrades + 1 >= UpgradeThreshold
            THEN UpgradeRule(r, Head(tasks).dst, activeRules[r].rate)
            ELSE /\ activeRules' = [activeRules EXCEPT ![r].upgrades = @ + 1]
                 /\ UNCHANGED routes
       ELSE UNCHANGED <<activeRules, routes>>
    /\ UNCHANGED <<ruleOf, linkUp>>

\* The rules are made for the attack type the rule was created with.
UpgradeForAttackType ==
    LET task == Head(tasks)
        r == task.rule
        new == AttackRules(activeRules[r].attackType, task.dst, task.https)
        tier == TierOfStrategy(task.strategy, activeRules[r].rate) IN
    /\ Starts("upgrade") /\ IsActive(r)
    /\ Sent(Announced(Withdrawn(routes, activeRules[r].rules), new))
    /\ activeRules' = [activeRules EXCEPT ![r].rules = new, ![r].tier = tier,
                           ![r].strategy = task.strategy, ![r].upgrades = 0]
    /\ UNCHANGED <<ruleOf, linkUp>>

(***************************************************************************)
(* The API and the expiry pass.                                            *)
(***************************************************************************)
\* create_manual_rule does not look whether d has a rule; its rule is not seen
\* again by a trigger until it is ruleOf[d], which it is from now on.
CreateManualRule(d, src) ==
    \E new \in RuleIds :
        /\ NewRule(new, d, TierRules(1, src, d), "manual", 1, 1, "none")
        /\ Sent(Announced(routes, TierRules(1, src, d)))
        /\ UNCHANGED <<tasks, linkUp>>

EscalateRule(d) ==
    LET r == ruleOf[d] IN
    /\ IsActive(r) /\ activeRules[r].tier < 3
    /\ UpgradeRule(r, d, activeRules[r].tier + 1)
    /\ UNCHANGED <<ruleOf, tasks, linkUp>>

RuleGone(r) == activeRules' = [activeRules EXCEPT ![r] = [Unused EXCEPT !.status = "gone"]]

\* Mutant of RevokeRule: the destination keeps its entry.
RevokeRuleKeepingEntry(r) ==
    /\ IsActive(r) /\ RuleGone(r)
    /\ Sent(Withdrawn(routes, activeRules[r].rules))
    /\ UNCHANGED <<ruleOf, tasks, linkUp>>

RevokeRule(r) ==
    /\ IsActive(r) /\ RuleGone(r)
    /\ ruleOf' = [d \in Dsts |-> IF ruleOf[d] = r THEN NoRule ELSE ruleOf[d]]
    /\ Sent(Withdrawn(routes, activeRules[r].rules))
    /\ UNCHANGED <<tasks, linkUp>>

\* cleanup_expired_rules: a rule not seen for rule_expire_seconds.
ExpireRule(r) == IsActive(r) /\ activeRules[r].overdue /\ RevokeRule(r)

AttackStops(r) ==
    /\ IsActive(r) /\ ~activeRules[r].overdue
    /\ activeRules' = [activeRules EXCEPT ![r].overdue = TRUE]
    /\ UNCHANGED <<ruleOf, tasks, routes, linkUp>>

LinkBreaks ==
    /\ linkUp /\ linkUp' = FALSE
    /\ UNCHANGED <<ruleOf, activeRules, tasks, routes>>

DiversionNext ==
    \/ \E d \in Dsts, rate \in Rates : TriggerDiversion(d, rate)
    \/ \E d \in Dsts, type \in Types, rate \in Rates, https \in BOOLEAN :
          TriggerWithStrategy(d, type, rate, https)
    \/ DropTask \/ ApplyRules \/ CheckAndUpgrade \/ UpgradeForAttackType
    \/ \E d \in Dsts, src \in Sources : CreateManualRule(d, src)
    \/ \E d \in Dsts : EscalateRule(d)
    \/ \E r \in RuleIds : RevokeRule(r) \/ ExpireRule(r) \/ AttackStops(r)
    \/ LinkBreaks

DiversionSpec == DiversionInit /\ [][DiversionNext]_diversionVars

-----------------------------------------------------------------------------
(***************************************************************************)
(* Properties.                                                             *)
(***************************************************************************)
\* While the link works, a route without a port that no active rule asks for
\* is never left on the router.  (One with a port always is: the withdrawal
\* does not name it.)
NoOrphanRoute ==
    linkUp => \A route \in routes :
        \/ route.match.port # "any"
        \/ \E r \in RuleIds : IsActive(r) /\ route.match \in Matches(activeRules[r].rules)

\* A destination's entry names an active rule whose routes are that destination's.
EntriesAreActive ==
    \A d \in Dsts : ruleOf[d] # NoRule =>
        /\ IsActive(ruleOf[d])
        /\ \A m \in Matches(activeRules[ruleOf[d]].rules) : m.dst = d

\* Without a strategy to follow, a rule is only ever made stricter.
OnlyStricter ==
    [][\A r \in RuleIds :
         (IsActive(r) /\ activeRules[r].strategy = "none"
            /\ activeRules'[r].status = "active")
         => activeRules'[r].tier >= activeRules[r].tier]_diversionVars
=============================================================================
