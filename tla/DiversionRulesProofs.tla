------------------------ MODULE DiversionRulesProofs ------------------------
(***************************************************************************)
(* Proofs, for any destinations, rates, attack types and bounds, of the    *)
(* properties of DiversionRules.                                           *)
(*                                                                         *)
(* A task runs after the trigger that made it, so TaskFits says what still *)
(* holds by then of its rule, if that is still active: its routes are the  *)
(* destination's of the task, and an upgrade to another strategy is for a  *)
(* rule that follows one.  Ids are not used again, which is why a rule     *)
(* that is gone when its task runs is not another's.                       *)
(***************************************************************************)
EXTENDS DiversionRules, SequenceTheorems, TLAPS

RoutesAreOf(r, d) == \A m \in Matches(activeRules[r].rules) : m.dst = d

RulePart ==
    \A r \in RuleIds : IsActive(r) =>
        /\ activeRules[r].rules # <<>>
        /\ activeRules[r].strategy # "none" => activeRules[r].attackType \in AttackTypes

TaskFits(task) ==
    /\ activeRules[task.rule].status # "new"
    /\ IsActive(task.rule) =>
           /\ RoutesAreOf(task.rule, task.dst)
           /\ task.kind = "upgrade" =>
                  task.strategy # "none" /\ activeRules[task.rule].strategy # "none"

TaskPart == \A i \in 1..Len(tasks) : TaskFits(tasks[i])

DiversionInv ==
    DiversionTypeOK /\ RulePart /\ TaskPart /\ EntriesAreActive /\ NoOrphanRoute

-----------------------------------------------------------------------------
(***************************************************************************)
(* The rules a tier or an attack type asks for, and the routes.            *)
(***************************************************************************)
RulesFor(rules, d) ==
    /\ rules \in Seq(FlowSpecRule) /\ rules # <<>>
    /\ \A m \in Matches(rules) : m.dst = d

LEMMA RuleTypes ==
    ASSUME NEW src \in Sources, NEW d \in Dsts, NEW protocol \in Protocols,
           NEW port \in Ports, NEW action \in RouteActions
    PROVE  /\ Rule(src, d, protocol, port, action) \in FlowSpecRule
           /\ Rule(src, d, protocol, port, action).match.dst = d
BY DEF Rule, FlowSpecRule, Match

LEMMA TierRulesAreFor ==
    ASSUME NEW tier \in Tiers, NEW src \in Sources, NEW d \in Dsts
    PROVE  RulesFor(TierRules(tier, src, d), d)
<1>1. /\ Rule(src, d, "any", "any", "redirect") \in FlowSpecRule
      /\ Rule(src, d, "any", "any", "rate-limit") \in FlowSpecRule
      /\ Rule(src, d, "udp", "any", "discard") \in FlowSpecRule
      /\ Rule(src, d, "any", "any", "redirect").match.dst = d
      /\ Rule(src, d, "any", "any", "rate-limit").match.dst = d
      /\ Rule(src, d, "udp", "any", "discard").match.dst = d
  BY RuleTypes DEF Protocols, Ports, RouteActions
<1>2. CASE tier = 1
  BY <1>1, <1>2 DEF TierRules, RulesFor, Matches
<1>3. CASE tier = 2
  BY <1>1, <1>3 DEF TierRules, RulesFor, Matches
<1>4. CASE tier = 3
  BY <1>1, <1>4 DEF TierRules, RulesFor, Matches
<1> QED BY <1>2, <1>3, <1>4 DEF Tiers

LEMMA AttackRulesAreFor ==
    ASSUME NEW type \in AttackTypes, NEW d \in Dsts, NEW https \in BOOLEAN
    PROVE  RulesFor(AttackRules(type, d, https), d)
<1> DEFINE http == Rule("src", d, "tcp", "80", "waf")
           tls == Rule("src", d, "tcp", "443", "waf")
<1>1. /\ http \in FlowSpecRule /\ http.match.dst = d
      /\ tls \in FlowSpecRule /\ tls.match.dst = d
      /\ Rule("any", d, "udp", "any", "discard") \in FlowSpecRule
      /\ Rule("any", d, "udp", "any", "discard").match.dst = d
      /\ Rule("any", d, "udp", "53", "rate-limit") \in FlowSpecRule
      /\ Rule("any", d, "udp", "53", "rate-limit").match.dst = d
      /\ Rule("any", d, "tcp", "any", "redirect") \in FlowSpecRule
      /\ Rule("any", d, "tcp", "any", "redirect").match.dst = d
  BY RuleTypes DEF Sources, Protocols, Ports, RouteActions
<1> HIDE DEF http, tls
<1>2. CASE type = "http_flood"
  <2>1. CASE https
    <3>1. AttackRules(type, d, https) = <<http>> \o <<tls>>
      BY <1>2, <2>1 DEF AttackRules, http, tls
    <3>2. <<http>> \in Seq(FlowSpecRule) /\ <<tls>> \in Seq(FlowSpecRule)
      BY <1>1
    <3>3. LET both == <<http>> \o <<tls>> IN
          both \in Seq(FlowSpecRule) /\ Len(both) = 2 /\ both[1] = http /\ both[2] = tls
      BY <3>2, ConcatProperties
    <3> QED BY <1>1, <3>1, <3>3 DEF RulesFor, Matches
  <2>2. CASE ~https
    <3>1. AttackRules(type, d, https) = <<http>>
      BY <1>2, <2>2 DEF AttackRules, http
    <3> QED BY <1>1, <3>1 DEF RulesFor, Matches
  <2> QED BY <2>1, <2>2
<1>3. CASE type \in {"udp_amplification", "ntp_reflection"}
  BY <1>1, <1>3 DEF AttackRules, RulesFor, Matches
<1>4. CASE type = "dns_query_flood"
  BY <1>1, <1>4 DEF AttackRules, RulesFor, Matches
<1>5. CASE type = "syn_flood"
  BY <1>1, <1>5 DEF AttackRules, RulesFor, Matches
<1> QED BY <1>2, <1>3, <1>4, <1>5 DEF AttackTypes

LEMMA MatchesAreMatches ==
    ASSUME NEW rules \in Seq(FlowSpecRule)
    PROVE  Matches(rules) \subseteq Match /\ LastOfEach(rules) \subseteq FlowSpecRule
           /\ \A route \in LastOfEach(rules) : route.match \in Matches(rules)
<1>1. \A i \in DOMAIN rules : rules[i] \in FlowSpecRule
  OBVIOUS
<1>2. Matches(rules) \subseteq Match
  BY <1>1 DEF Matches, FlowSpecRule
<1>3. \A route \in LastOfEach(rules) : \E i \in DOMAIN rules : route = rules[i]
  BY DEF LastOfEach
<1> QED BY <1>1, <1>2, <1>3 DEF Matches

\* What the router holds after an announcement, and after a withdrawal.
LEMMA RoutesAnnounced ==
    ASSUME NEW held \in SUBSET FlowSpecRule, NEW rules \in Seq(FlowSpecRule)
    PROVE  /\ Announced(held, rules) \subseteq FlowSpecRule
           /\ \A route \in Announced(held, rules) :
                 route \in held \/ route.match \in Matches(rules)
BY MatchesAreMatches DEF Announced

LEMMA RoutesWithdrawn ==
    ASSUME NEW held \in SUBSET FlowSpecRule, NEW rules \in Seq(FlowSpecRule)
    PROVE  /\ Withdrawn(held, rules) \subseteq held
           /\ \A route \in Withdrawn(held, rules) :
                 route.match.port # "any" \/ route.match \notin Matches(rules)
<1>1. \A m \in Match : m.port = "any" => WithdrawMatch(m) = m
  BY DEF WithdrawMatch, Match
<1> QED BY <1>1, MatchesAreMatches DEF Withdrawn

-----------------------------------------------------------------------------
LEMMA DiversionInitInv == DiversionInit => DiversionInv
<1> SUFFICES ASSUME DiversionInit PROVE DiversionInv
  OBVIOUS
<1>1. Unused \in RuleRecord
  BY DEF Unused, RuleRecord, Tiers, Strategies
<1>2. DiversionTypeOK
  BY <1>1 DEF DiversionInit, DiversionTypeOK
<1>3. RulePart /\ TaskPart /\ EntriesAreActive /\ NoOrphanRoute
  BY DEF DiversionInit, RulePart, TaskPart, EntriesAreActive, NoOrphanRoute, IsActive, Unused
<1> QED BY <1>2, <1>3 DEF DiversionInv

-----------------------------------------------------------------------------
(***************************************************************************)
(* The steps, by what they do to the rules.                                *)
(***************************************************************************)
\* What is left of the queue still fits.
LEMMA QueueFits ==
    ASSUME tasks \in Seq(Task), tasks # <<>>, TaskPart
    PROVE  /\ Head(tasks) \in Task /\ TaskFits(Head(tasks))
           /\ Tail(tasks) \in Seq(Task)
           /\ \A i \in 1..Len(Tail(tasks)) :
                 \E j \in 1..Len(tasks) : Tail(tasks)[i] = tasks[j]
BY DEF TaskPart

\* A step that keeps the status, routes and strategy of every rule.
LEMMA RulesKept ==
    ASSUME DiversionInv, activeRules' \in [RuleIds -> RuleRecord],
           \A r \in RuleIds :
              /\ activeRules'[r].status = activeRules[r].status
              /\ activeRules'[r].rules = activeRules[r].rules
              /\ activeRules'[r].strategy = activeRules[r].strategy
              /\ activeRules'[r].attackType = activeRules[r].attackType
    PROVE  /\ RulePart'
           /\ \A task \in Task : TaskFits(task) => TaskFits(task)'
           /\ ruleOf' = ruleOf => EntriesAreActive'
           /\ routes' = routes /\ linkUp' = linkUp => NoOrphanRoute'
<1> USE DEF DiversionInv
<1>0. \A r \in RuleIds : r # NoRule
  BY DiversionAssumption DEF RuleIds
<1>1. \A r \in RuleIds : IsActive(r)' <=> IsActive(r)
  BY DEF IsActive
<1>2. RulePart'
  BY <1>1 DEF RulePart
<1>3. ASSUME NEW task \in Task, TaskFits(task) PROVE TaskFits(task)'
  <2>1. task.rule \in RuleIds
    BY DEF Task
  <2> QED BY <1>1, <1>3, <2>1 DEF TaskFits, RoutesAreOf
<1>4. ASSUME ruleOf' = ruleOf PROVE EntriesAreActive'
  <2>1. \A d \in Dsts : ruleOf[d] # NoRule => ruleOf[d] \in RuleIds
    BY DEF DiversionTypeOK
  <2> QED BY <1>1, <1>4, <2>1 DEF EntriesAreActive
<1>5. ASSUME routes' = routes, linkUp' = linkUp PROVE NoOrphanRoute'
  BY <1>1, <1>5 DEF NoOrphanRoute
<1> QED BY <1>2, <1>3, <1>4, <1>5

\* A new rule is nobody's yet.
LEMMA RuleAdded ==
    ASSUME DiversionInv, NEW d \in Dsts, NEW r \in RuleIds, NEW rules, RulesFor(rules, d),
           NEW type \in AttackTypes \cup {"manual"}, NEW tier \in Tiers, NEW rate \in Tiers,
           NEW strategy \in Strategies, strategy # "none" => type \in AttackTypes,
           NewRule(r, d, rules, type, tier, rate, strategy), linkUp' = linkUp,
           routes' = routes \/ Sent(Announced(routes, rules))
    PROVE  /\ ruleOf' \in [Dsts -> RuleIds \cup {NoRule}]
           /\ activeRules' \in [RuleIds -> RuleRecord]
           /\ routes' \subseteq FlowSpecRule
           /\ RulePart' /\ EntriesAreActive' /\ NoOrphanRoute'
           /\ \A task \in Task : TaskFits(task) => TaskFits(task)'
           /\ \A task \in Task : task.rule = r /\ task.dst = d /\ task.kind # "upgrade" =>
                 TaskFits(task)'
<1> USE DEF DiversionInv
<1> DEFINE new == [status |-> "active", rules |-> rules, attackType |-> type, tier |-> tier,
                   rate |-> rate, strategy |-> strategy, upgrades |-> 0, overdue |-> FALSE]
<1>1. /\ activeRules' = [activeRules EXCEPT ![r] = new]
      /\ ruleOf' = [ruleOf EXCEPT ![d] = r] /\ activeRules[r].status = "new"
  BY DEF NewRule
<1>2. new \in RuleRecord
  BY DEF RuleRecord, RulesFor
<1>3. /\ ruleOf' \in [Dsts -> RuleIds \cup {NoRule}]
      /\ activeRules' \in [RuleIds -> RuleRecord]
  BY <1>1, <1>2 DEF DiversionTypeOK
<1>4. /\ activeRules'[r] = new /\ r # NoRule
      /\ \A s \in RuleIds : s # r => activeRules'[s] = activeRules[s]
      /\ \A s \in RuleIds : IsActive(s) => s # r /\ activeRules'[s] = activeRules[s]
  BY <1>1, DiversionAssumption DEF DiversionTypeOK, IsActive, RuleIds
<1> HIDE DEF new
<1>5. /\ new.status = "active" /\ new.rules = rules /\ new.attackType = type
      /\ new.strategy = strategy
  BY DEF new
<1>6. RulePart'
  BY <1>4, <1>5 DEF RulePart, IsActive, RulesFor
<1>7. EntriesAreActive'
  <2>1. ASSUME NEW e \in Dsts, ruleOf'[e] # NoRule
        PROVE  /\ IsActive(ruleOf[e])'
               /\ \A m \in Matches(activeRules'[ruleOf'[e]].rules) : m.dst = e
    <3>1. CASE e = d
      BY <1>1, <1>4, <1>5, <3>1 DEF IsActive, RulesFor, DiversionTypeOK
    <3>2. CASE e # d
      <4>1. ruleOf'[e] = ruleOf[e] /\ ruleOf[e] \in RuleIds /\ IsActive(ruleOf[e])
        BY <1>1, <2>1, <3>2 DEF DiversionTypeOK, EntriesAreActive
      <4>2. activeRules'[ruleOf[e]] = activeRules[ruleOf[e]]
        BY <1>4, <4>1
      <4> QED BY <4>1, <4>2 DEF EntriesAreActive, IsActive
    <3> QED BY <3>1, <3>2
  <2> QED BY <2>1 DEF EntriesAreActive
<1>8. routes' \subseteq FlowSpecRule /\ NoOrphanRoute'
  <2>1. /\ Announced(routes, rules) \subseteq FlowSpecRule
        /\ \A route \in Announced(routes, rules) :
              route \in routes \/ route.match \in Matches(rules)
    BY RoutesAnnounced DEF DiversionTypeOK, RulesFor
  <2>2. /\ routes' \subseteq FlowSpecRule
        /\ \A route \in routes' : route \in routes \/ route.match \in Matches(rules)
    BY <2>1 DEF Sent, DiversionTypeOK
  <2>3. IsActive(r)' /\ Matches(activeRules'[r].rules) = Matches(rules)
    BY <1>4, <1>5 DEF IsActive
  <2>4. \A s \in RuleIds : IsActive(s) => IsActive(s)' /\ activeRules'[s] = activeRules[s]
    BY <1>4 DEF IsActive
  <2> QED BY <2>2, <2>3, <2>4 DEF NoOrphanRoute
<1>9. ASSUME NEW task \in Task, TaskFits(task) PROVE TaskFits(task)'
  <2>1. task.rule \in RuleIds /\ task.rule # r
    BY <1>1, <1>9 DEF Task, TaskFits
  <2>2. activeRules'[task.rule] = activeRules[task.rule]
    BY <1>4, <2>1
  <2> QED BY <1>9, <2>2 DEF TaskFits, IsActive, RoutesAreOf
<1>10. ASSUME NEW task \in Task, task.rule = r, task.dst = d, task.kind # "upgrade"
       PROVE  TaskFits(task)'
  BY <1>4, <1>5, <1>10 DEF TaskFits, RoutesAreOf, RulesFor
<1> QED BY <1>3, <1>6, <1>7, <1>8, <1>9, <1>10

\* An active rule whose routes are a destination's gets others of it.
LEMMA RuleReplaced ==
    ASSUME DiversionInv, NEW r \in RuleIds, IsActive(r), NEW d \in Dsts, RoutesAreOf(r, d),
           NEW new \in RuleRecord, new.status = "active", RulesFor(new.rules, d),
           new.attackType = activeRules[r].attackType,
           new.strategy = activeRules[r].strategy
             \/ (new.strategy # "none" /\ activeRules[r].strategy # "none"),
           activeRules' = [activeRules EXCEPT ![r] = new],
           Sent(Announced(Withdrawn(routes, activeRules[r].rules), new.rules)),
           ruleOf' = ruleOf, linkUp' = linkUp
    PROVE  /\ activeRules' \in [RuleIds -> RuleRecord] /\ routes' \subseteq FlowSpecRule
           /\ RulePart' /\ EntriesAreActive' /\ NoOrphanRoute'
           /\ \A task \in Task : TaskFits(task) => TaskFits(task)'
<1> USE DEF DiversionInv
<1> DEFINE old == activeRules[r].rules
<1>0. activeRules[r] \in RuleRecord /\ old \in Seq(FlowSpecRule)
  BY DEF DiversionTypeOK, RuleRecord
<1>1. /\ activeRules' \in [RuleIds -> RuleRecord] /\ activeRules'[r] = new
      /\ \A s \in RuleIds : s # r => activeRules'[s] = activeRules[s]
  BY DEF DiversionTypeOK
<1>2. \A s \in RuleIds : IsActive(s)' <=> IsActive(s)
  BY <1>1 DEF IsActive
<1>3. RulePart'
  BY <1>1, <1>2 DEF RulePart, RulesFor
<1>4. \A e \in Dsts : RoutesAreOf(r, e) => e = d
  <2>1. old # <<>> /\ 1 \in DOMAIN old
    BY <1>0 DEF RulePart
  <2>2. old[1].match \in Matches(old)
    BY <2>1 DEF Matches
  <2> QED BY <2>2 DEF RoutesAreOf
<1>5. EntriesAreActive'
  <2>1. ASSUME NEW e \in Dsts, ruleOf[e] # NoRule
        PROVE  IsActive(ruleOf[e])' /\ \A m \in Matches(activeRules'[ruleOf[e]].rules) : m.dst = e
    <3>1. /\ ruleOf[e] \in RuleIds /\ IsActive(ruleOf[e])
          /\ \A m \in Matches(activeRules[ruleOf[e]].rules) : m.dst = e
      BY <2>1 DEF DiversionTypeOK, EntriesAreActive
    <3>2. CASE ruleOf[e] = r
      <4>1. e = d
        BY <1>4, <3>1, <3>2 DEF RoutesAreOf
      <4> QED BY <1>1, <1>2, <3>1, <3>2, <4>1 DEF RulesFor
    <3>3. CASE ruleOf[e] # r
      BY <1>1, <1>2, <3>1, <3>3
    <3> QED BY <3>2, <3>3
  <2> QED BY <2>1 DEF EntriesAreActive
<1>6. routes' \subseteq FlowSpecRule /\ NoOrphanRoute'
  <2>1. /\ Withdrawn(routes, old) \subseteq routes
        /\ \A route \in Withdrawn(routes, old) :
              route.match.port # "any" \/ route.match \notin Matches(old)
    BY <1>0, RoutesWithdrawn DEF DiversionTypeOK
  <2>2. LET held == Withdrawn(routes, old) IN
        /\ Announced(held, new.rules) \subseteq FlowSpecRule
        /\ \A route \in Announced(held, new.rules) :
              route \in held \/ route.match \in Matches(new.rules)
    BY <2>1, RoutesAnnounced DEF DiversionTypeOK, RulesFor
  <2>3. routes' \subseteq FlowSpecRule
    BY <2>2 DEF Sent, DiversionTypeOK
  <2>4. SUFFICES ASSUME linkUp, NEW route \in routes', route.match.port = "any"
                 PROVE  \E s \in RuleIds :
                           IsActive(s)' /\ route.match \in Matches(activeRules'[s].rules)
    BY <2>3 DEF NoOrphanRoute
  <2>5. CASE route.match \in Matches(new.rules)
    BY <1>1, <1>2, <2>5
  <2>6. CASE route \in Withdrawn(routes, old)
    <3>1. PICK s \in RuleIds : IsActive(s) /\ route.match \in Matches(activeRules[s].rules)
      BY <2>1, <2>4, <2>6 DEF NoOrphanRoute
    <3>2. s # r
      BY <2>1, <2>4, <2>6, <3>1
    <3> QED BY <1>1, <1>2, <3>1, <3>2
  <2> QED BY <2>2, <2>4, <2>5, <2>6 DEF Sent
<1>7. ASSUME NEW task \in Task, TaskFits(task) PROVE TaskFits(task)'
  <2>1. task.rule \in RuleIds /\ task.dst \in Dsts
    BY DEF Task
  <2>2. CASE task.rule = r
    <3>1. task.dst = d
      BY <1>4, <1>7, <2>1, <2>2 DEF TaskFits
    <3> QED BY <1>1, <1>7, <2>2, <3>1 DEF TaskFits, RoutesAreOf, RulesFor
  <2>3. CASE task.rule # r
    BY <1>1, <1>2, <1>7, <2>1, <2>3 DEF TaskFits, RoutesAreOf
  <2> QED BY <2>2, <2>3
<1> QED BY <1>1, <1>3, <1>5, <1>6, <1>7

\* A rule that goes takes its routes and its destination's entry with it.
LEMMA RuleRevoked ==
    ASSUME DiversionInv, NEW r \in RuleIds, RevokeRule(r)
    PROVE  DiversionInv'
<1> USE DEF DiversionInv
<1> DEFINE old == activeRules[r].rules
           gone == [Unused EXCEPT !.status = "gone"]
<1>0. /\ activeRules[r] \in RuleRecord /\ old \in Seq(FlowSpecRule)
      /\ gone \in RuleRecord /\ gone.status = "gone"
  <2>1. Unused \in RuleRecord
    BY DEF Unused, RuleRecord, Tiers, Strategies
  <2>2. gone \in RuleRecord /\ gone.status = "gone"
    BY <2>1 DEF RuleRecord
  <2> QED BY <2>2 DEF DiversionTypeOK, RuleRecord
<1>1. /\ activeRules' \in [RuleIds -> RuleRecord] /\ activeRules'[r].status = "gone"
      /\ \A s \in RuleIds : s # r => activeRules'[s] = activeRules[s]
      /\ IsActive(r) /\ tasks' = tasks /\ linkUp' = linkUp
  BY <1>0 DEF RevokeRule, RuleGone, DiversionTypeOK
<1>2. /\ ruleOf' \in [Dsts -> RuleIds \cup {NoRule}]
      /\ \A d \in Dsts : ruleOf'[d] # NoRule => ruleOf'[d] = ruleOf[d] /\ ruleOf[d] # r
  BY DEF RevokeRule, DiversionTypeOK
<1>3. /\ Withdrawn(routes, old) \subseteq routes
      /\ \A route \in Withdrawn(routes, old) :
            route.match.port # "any" \/ route.match \notin Matches(old)
  BY <1>0, RoutesWithdrawn DEF DiversionTypeOK
<1>4. DiversionTypeOK'
  BY <1>1, <1>2, <1>3 DEF DiversionTypeOK, RevokeRule, Sent
<1>5. \A s \in RuleIds : IsActive(s)' <=> IsActive(s) /\ s # r
  BY <1>1 DEF IsActive
<1>6. RulePart'
  BY <1>1, <1>5 DEF RulePart
<1>7. EntriesAreActive'
  <2>1. \A d \in Dsts : ruleOf'[d] # NoRule =>
            /\ ruleOf'[d] = ruleOf[d] /\ ruleOf[d] \in RuleIds /\ ruleOf[d] # r
            /\ ruleOf[d] # NoRule
    BY <1>2 DEF DiversionTypeOK
  <2> QED BY <1>1, <1>5, <2>1 DEF EntriesAreActive
<1>8. NoOrphanRoute'
  <2>1. SUFFICES ASSUME linkUp, NEW route \in routes', route.match.port = "any"
                 PROVE  \E s \in RuleIds :
                           IsActive(s)' /\ route.match \in Matches(activeRules'[s].rules)
    BY <1>1 DEF NoOrphanRoute
  <2>2. route \in Withdrawn(routes, old)
    BY <2>1 DEF RevokeRule, Sent
  <2>3. PICK s \in RuleIds : IsActive(s) /\ route.match \in Matches(activeRules[s].rules)
    BY <1>3, <2>1, <2>2 DEF NoOrphanRoute
  <2>4. s # r
    BY <1>3, <2>1, <2>2, <2>3
  <2> QED BY <1>1, <1>5, <2>3, <2>4
<1>9. TaskPart'
  <2>1. ASSUME NEW task \in Task, TaskFits(task) PROVE TaskFits(task)'
    <3>1. task.rule \in RuleIds
      BY DEF Task
    <3>2. CASE task.rule = r
      BY <1>1, <1>5, <3>2 DEF TaskFits
    <3>3. CASE task.rule # r
      BY <1>1, <1>5, <2>1, <3>1, <3>3 DEF TaskFits, RoutesAreOf
    <3> QED BY <3>2, <3>3
  <2> QED BY <1>1, <2>1 DEF TaskPart, DiversionTypeOK
<1> QED BY <1>4, <1>6, <1>7, <1>8, <1>9

-----------------------------------------------------------------------------
(***************************************************************************)
(* The actions.                                                            *)
(***************************************************************************)
LEMMA TaskAppended ==
    ASSUME DiversionInv, NEW task \in Task, tasks' = Append(tasks, task),
           \A t \in Task : TaskFits(t) => TaskFits(t)', TaskFits(task)'
    PROVE  tasks' \in Seq(Task) /\ TaskPart'
<1>1. tasks \in Seq(Task)
  BY DEF DiversionInv, DiversionTypeOK
<1>2. \A i \in 1..Len(tasks') : tasks'[i] = task \/ \E j \in 1..Len(tasks) : tasks'[i] = tasks[j]
  BY <1>1
<1> QED BY <1>1, <1>2 DEF DiversionInv, TaskPart

LEMMA TriggerInv ==
    ASSUME DiversionInv, NEW d \in Dsts, NEW rate \in Rates,
           \/ TriggerDiversion(d, rate)
           \/ \E type \in Types, https \in BOOLEAN : TriggerWithStrategy(d, type, rate, https)
    PROVE  DiversionInv'
<1> USE DEF DiversionInv
<1> DEFINE r == ruleOf[d]
<1>0. /\ UNCHANGED <<routes, linkUp>> /\ rate \in Tiers /\ "src" \in Sources
      /\ Types \subseteq AttackTypes
  BY DiversionAssumption DEF TriggerDiversion, TriggerWithStrategy, Tiers, Sources, AttackTypes
<1>1. ASSUME NEW task \in Task, IsActive(r), Seen(r, rate), ruleOf' = ruleOf,
             tasks' = Append(tasks, task), task.rule = r, task.dst = d,
             task.kind = "upgrade" => task.strategy # "none" /\ activeRules[r].strategy # "none"
      PROVE  DiversionInv'
  <2>1. r \in RuleIds /\ activeRules[r] \in RuleRecord
    BY <1>1 DEF DiversionTypeOK, IsActive
  <2>2. activeRules' = [activeRules EXCEPT ![r] = [activeRules[r] EXCEPT !.rate = rate,
                                                                         !.overdue = FALSE]]
    BY <1>1, <2>1 DEF Seen, DiversionTypeOK
  <2>3. [activeRules[r] EXCEPT !.rate = rate, !.overdue = FALSE] \in RuleRecord
    BY <1>0, <2>1 DEF RuleRecord
  <2>4. /\ activeRules' \in [RuleIds -> RuleRecord]
        /\ \A s \in RuleIds :
              /\ activeRules'[s].status = activeRules[s].status
              /\ activeRules'[s].rules = activeRules[s].rules
              /\ activeRules'[s].strategy = activeRules[s].strategy
              /\ activeRules'[s].attackType = activeRules[s].attackType
    BY <2>1, <2>2, <2>3 DEF DiversionTypeOK, RuleRecord
  <2>5. /\ RulePart' /\ EntriesAreActive' /\ NoOrphanRoute'
        /\ \A t \in Task : TaskFits(t) => TaskFits(t)'
    BY <1>0, <1>1, <2>4, RulesKept
  <2>6. TaskFits(task)
    BY <1>1 DEF TaskFits, RoutesAreOf, IsActive, EntriesAreActive
  <2>7. tasks' \in Seq(Task) /\ TaskPart'
    BY <1>1, <2>5, <2>6, TaskAppended
  <2> QED BY <1>0, <1>1, <2>4, <2>5, <2>7 DEF DiversionTypeOK
<1>2. ASSUME NEW new \in RuleIds, NEW rules, RulesFor(rules, d), NEW type \in AttackTypes,
             NEW tier \in Tiers, NEW strategy \in Strategies,
             NewRule(new, d, rules, type, tier, rate, strategy),
             tasks' = Append(tasks, MakeTask("apply", new, d, "none", FALSE))
      PROVE  DiversionInv'
  <2>1. /\ MakeTask("apply", new, d, "none", FALSE) \in Task
        /\ MakeTask("apply", new, d, "none", FALSE).rule = new
        /\ MakeTask("apply", new, d, "none", FALSE).dst = d
        /\ MakeTask("apply", new, d, "none", FALSE).kind # "upgrade"
    BY DEF MakeTask, Task, Strategies
  <2>2. /\ ruleOf' \in [Dsts -> RuleIds \cup {NoRule}]
        /\ activeRules' \in [RuleIds -> RuleRecord] /\ routes' \subseteq FlowSpecRule
        /\ RulePart' /\ EntriesAreActive' /\ NoOrphanRoute'
        /\ \A task \in Task : TaskFits(task) => TaskFits(task)'
        /\ \A task \in Task : task.rule = new /\ task.dst = d /\ task.kind # "upgrade" =>
              TaskFits(task)'
    BY <1>0, <1>2, RuleAdded
  <2>3. tasks' \in Seq(Task) /\ TaskPart'
    BY <1>2, <2>1, <2>2, TaskAppended
  <2> QED BY <1>0, <2>2, <2>3 DEF DiversionTypeOK
<1>3. ASSUME TriggerDiversion(d, rate) PROVE DiversionInv'
  <2>1. CASE IsActive(r)
    <3>1. r \in RuleIds
      BY <2>1 DEF DiversionTypeOK, IsActive
    <3>2. /\ MakeTask("check", r, d, "none", FALSE) \in Task
          /\ MakeTask("check", r, d, "none", FALSE).rule = r
          /\ MakeTask("check", r, d, "none", FALSE).dst = d
          /\ MakeTask("check", r, d, "none", FALSE).kind # "upgrade"
      BY <3>1 DEF MakeTask, Task, Strategies
    <3> QED BY <1>1, <1>3, <2>1, <3>2 DEF TriggerDiversion
  <2>2. CASE ~IsActive(r)
    <3>1. RulesFor(TierRules(rate, "src", d), d)
      BY <1>0, TierRulesAreFor
    <3> QED
      BY <1>0, <1>2, <1>3, <2>2, <3>1 DEF TriggerDiversion, AttackTypes, Strategies
  <2> QED BY <2>1, <2>2
<1>4. ASSUME NEW type \in Types, NEW https \in BOOLEAN, TriggerWithStrategy(d, type, rate, https)
      PROVE  DiversionInv'
  <2>0. /\ type \in AttackTypes /\ StrategyOf(type) \in Strategies /\ StrategyOf(type) # "none"
        /\ TierOfStrategy(StrategyOf(type), rate) \in Tiers
    <3>1. type \in AttackTypes
      BY <1>0
    <3>2. StrategyOf(type) \in Strategies /\ StrategyOf(type) # "none"
      BY <3>1 DEF StrategyOf, Strategies, AttackTypes
    <3>3. \A strategy \in Strategies : TierOfStrategy(strategy, rate) \in Tiers
      BY <1>0 DEF TierOfStrategy, Strategies, Tiers
    <3> QED BY <3>1, <3>2, <3>3
  <2>1. CASE IsActive(r)
    <3>1. r \in RuleIds
      BY <2>1 DEF DiversionTypeOK, IsActive
    <3>2. /\ MakeTask("check", r, d, "none", FALSE) \in Task
          /\ MakeTask("check", r, d, "none", FALSE).rule = r
          /\ MakeTask("check", r, d, "none", FALSE).dst = d
          /\ MakeTask("check", r, d, "none", FALSE).kind # "upgrade"
      BY <3>1 DEF MakeTask, Task, Strategies
    <3>3. /\ MakeTask("upgrade", r, d, StrategyOf(type), https) \in Task
          /\ MakeTask("upgrade", r, d, StrategyOf(type), https).rule = r
          /\ MakeTask("upgrade", r, d, StrategyOf(type), https).dst = d
          /\ MakeTask("upgrade", r, d, StrategyOf(type), https).strategy # "none"
      BY <2>0, <3>1 DEF MakeTask, Task
    <3>4. StrategyUpgrade(activeRules[r].strategy, StrategyOf(type)) =>
              activeRules[r].strategy # "none"
      BY DEF StrategyUpgrade
    <3>5. Seen(r, rate) /\ ruleOf' = ruleOf
      BY <1>4, <2>1 DEF TriggerWithStrategy
    <3>6. CASE StrategyUpgrade(activeRules[r].strategy, StrategyOf(type))
      <4>1. tasks' = Append(tasks, MakeTask("upgrade", r, d, StrategyOf(type), https))
        BY <1>4, <2>1, <3>6 DEF TriggerWithStrategy
      <4> QED BY <1>1, <2>1, <3>3, <3>4, <3>5, <3>6, <4>1
    <3>7. CASE ~StrategyUpgrade(activeRules[r].strategy, StrategyOf(type))
      <4>1. tasks' = Append(tasks, MakeTask("check", r, d, "none", FALSE))
        BY <1>4, <2>1, <3>7 DEF TriggerWithStrategy
      <4> QED BY <1>1, <2>1, <3>2, <3>5, <4>1
    <3> QED BY <3>6, <3>7
  <2>2. CASE ~IsActive(r)
    <3>1. RulesFor(AttackRules(type, d, https), d)
      BY <2>0, AttackRulesAreFor
    <3> QED BY <1>2, <1>4, <2>0, <2>2, <3>1 DEF TriggerWithStrategy
  <2> QED BY <2>1, <2>2
<1> QED BY <1>3, <1>4

\* What every task that runs finds.
LEMMA TaskStarts ==
    ASSUME DiversionInv, NEW kind, Starts(kind)
    PROVE  /\ Head(tasks) \in Task /\ TaskFits(Head(tasks)) /\ Head(tasks).kind = kind
           /\ tasks' \in Seq(Task)
           /\ (\A task \in Task : TaskFits(task) => TaskFits(task)') => TaskPart'
<1>1. tasks \in Seq(Task) /\ tasks # <<>> /\ TaskPart /\ tasks' = Tail(tasks)
  BY DEF Starts, DiversionInv, DiversionTypeOK
<1>2. /\ Head(tasks) \in Task /\ TaskFits(Head(tasks)) /\ Tail(tasks) \in Seq(Task)
      /\ \A i \in 1..Len(Tail(tasks)) : \E j \in 1..Len(tasks) : Tail(tasks)[i] = tasks[j]
  BY <1>1, QueueFits
<1>3. \A j \in 1..Len(tasks) : tasks[j] \in Task /\ TaskFits(tasks[j])
  BY <1>1 DEF TaskPart
<1>4. ASSUME \A task \in Task : TaskFits(task) => TaskFits(task)'
      PROVE  TaskPart'
  BY <1>1, <1>2, <1>3, <1>4 DEF TaskPart
<1> QED BY <1>1, <1>2, <1>4 DEF Starts

LEMMA NothingReplaced ==
    ASSUME DiversionInv, UNCHANGED <<ruleOf, activeRules, linkUp>>
    PROVE  /\ RulePart' /\ EntriesAreActive'
           /\ \A task \in Task : TaskFits(task) => TaskFits(task)'
           /\ routes' = routes => NoOrphanRoute'
BY DEF DiversionInv, RulePart, EntriesAreActive, NoOrphanRoute, TaskFits, RoutesAreOf, IsActive

LEMMA DropOrApplyInv ==
    ASSUME DiversionInv, DropTask \/ ApplyRules
    PROVE  DiversionInv'
<1> USE DEF DiversionInv
<1>1. CASE DropTask
  <2>1. Starts(Head(tasks).kind) /\ UNCHANGED <<ruleOf, activeRules, routes, linkUp>>
    BY <1>1 DEF DropTask, Starts
  <2> QED BY <2>1, TaskStarts, NothingReplaced DEF DiversionTypeOK
<1>2. CASE ApplyRules
  <2> DEFINE r == Head(tasks).rule
             rules == activeRules[r].rules
  <2>1. /\ Starts("apply") /\ UNCHANGED <<ruleOf, activeRules, linkUp>>
        /\ Sent(Announced(routes, rules)) /\ IsActive(r)
    BY <1>2 DEF ApplyRules
  <2>2. /\ Head(tasks) \in Task /\ tasks' \in Seq(Task) /\ TaskPart'
        /\ RulePart' /\ EntriesAreActive'
    BY <2>1, TaskStarts, NothingReplaced
  <2>3. r \in RuleIds /\ rules \in Seq(FlowSpecRule)
    BY <2>2 DEF Task, DiversionTypeOK, RuleRecord
  <2>4. /\ routes' \subseteq FlowSpecRule
        /\ \A route \in routes' : route \in routes \/ route.match \in Matches(rules)
    BY <2>1, <2>3, RoutesAnnounced DEF Sent, DiversionTypeOK
  <2>5. NoOrphanRoute'
    BY <2>1, <2>3, <2>4 DEF NoOrphanRoute, IsActive
  <2> QED BY <2>1, <2>2, <2>4, <2>5 DEF DiversionTypeOK
<1> QED BY <1>1, <1>2

\* An upgrade to a tier.
LEMMA RuleUpgraded ==
    ASSUME DiversionInv, NEW r \in RuleIds, IsActive(r), NEW d \in Dsts, RoutesAreOf(r, d),
           NEW tier \in Tiers, UpgradeRule(r, d, tier), ruleOf' = ruleOf, linkUp' = linkUp
    PROVE  /\ activeRules' \in [RuleIds -> RuleRecord] /\ routes' \subseteq FlowSpecRule
           /\ RulePart' /\ EntriesAreActive' /\ NoOrphanRoute'
           /\ \A task \in Task : TaskFits(task) => TaskFits(task)'
           /\ \A s \in RuleIds : s # r => activeRules'[s] = activeRules[s]
           /\ activeRules'[r].tier = tier
<1> DEFINE old == activeRules[r].rules
           rules == TierRules(tier, old[1].match.src, d)
           new == [activeRules[r] EXCEPT !.rules = rules, !.tier = tier, !.upgrades = 0]
<1>1. activeRules[r] \in RuleRecord /\ old \in Seq(FlowSpecRule) /\ old # <<>>
  BY DEF DiversionInv, DiversionTypeOK, RulePart, RuleRecord
<1>2. old[1].match.src \in Sources
  <2>1. old[1] \in FlowSpecRule
    BY <1>1
  <2> QED BY <2>1 DEF FlowSpecRule, Match
<1>3. RulesFor(rules, d)
  BY <1>2, TierRulesAreFor
<1>4. /\ activeRules' = [activeRules EXCEPT ![r] = new]
      /\ Sent(Announced(Withdrawn(routes, old), rules))
  BY DEF UpgradeRule, DiversionInv, DiversionTypeOK
<1> HIDE DEF rules
<1>5. /\ new \in RuleRecord /\ new.rules = rules /\ new.status = "active" /\ new.tier = tier
      /\ new.attackType = activeRules[r].attackType /\ new.strategy = activeRules[r].strategy
  BY <1>1, <1>3 DEF RuleRecord, RulesFor, IsActive
<1>6. /\ \A s \in RuleIds : s # r => activeRules'[s] = activeRules[s]
      /\ activeRules'[r].tier = tier
  BY <1>4, <1>5 DEF DiversionInv, DiversionTypeOK
<1> HIDE DEF new
<1> QED BY <1>3, <1>4, <1>5, <1>6, RuleReplaced

LEMMA CheckInv ==
    ASSUME DiversionInv, CheckAndUpgrade
    PROVE  /\ DiversionInv'
           /\ \A r \in RuleIds : IsActive(r) => activeRules'[r].tier >= activeRules[r].tier
<1> USE DEF DiversionInv
<1> DEFINE r == Head(tasks).rule
           d == Head(tasks).dst
<1>1. /\ Starts("check") /\ IsActive(r) /\ UNCHANGED <<ruleOf, linkUp>>
  BY DEF CheckAndUpgrade
<1>2. /\ Head(tasks) \in Task /\ TaskFits(Head(tasks)) /\ tasks' \in Seq(Task)
      /\ (\A task \in Task : TaskFits(task) => TaskFits(task)') => TaskPart'
  BY <1>1, TaskStarts
<1>3. /\ r \in RuleIds /\ d \in Dsts /\ RoutesAreOf(r, d) /\ activeRules[r] \in RuleRecord
  BY <1>1, <1>2 DEF Task, TaskFits, DiversionTypeOK
<1>0. \A s \in RuleIds : activeRules[s].tier \in Int
  BY DEF DiversionTypeOK, RuleRecord, Tiers
<1>4. CASE activeRules[r].rate > activeRules[r].tier
           /\ activeRules[r].upgrades + 1 >= UpgradeThreshold
  <2>1. UpgradeRule(r, d, activeRules[r].rate) /\ activeRules[r].rate \in Tiers
    BY <1>3, <1>4 DEF CheckAndUpgrade, RuleRecord
  <2>2. /\ activeRules' \in [RuleIds -> RuleRecord] /\ routes' \subseteq FlowSpecRule
        /\ RulePart' /\ EntriesAreActive' /\ NoOrphanRoute'
        /\ \A task \in Task : TaskFits(task) => TaskFits(task)'
        /\ \A s \in RuleIds : s # r => activeRules'[s] = activeRules[s]
        /\ activeRules'[r].tier = activeRules[r].rate
    BY <1>1, <1>3, <2>1, RuleUpgraded
  <2>3. \A s \in RuleIds : activeRules'[s].tier >= activeRules[s].tier
    BY <1>0, <1>3, <1>4, <2>1, <2>2 DEF Tiers
  <2> QED BY <1>1, <1>2, <2>2, <2>3 DEF DiversionTypeOK
<1>5. CASE /\ activeRules' = [activeRules EXCEPT ![r].upgrades = @ + 1] \/ activeRules' = activeRules
           /\ routes' = routes
  <2>1. [activeRules[r] EXCEPT !.upgrades = @ + 1] \in RuleRecord
    BY <1>3 DEF RuleRecord
  <2>2. /\ activeRules' \in [RuleIds -> RuleRecord]
        /\ \A s \in RuleIds :
              /\ activeRules'[s].status = activeRules[s].status
              /\ activeRules'[s].rules = activeRules[s].rules
              /\ activeRules'[s].strategy = activeRules[s].strategy
              /\ activeRules'[s].attackType = activeRules[s].attackType
              /\ activeRules'[s].tier = activeRules[s].tier
    <3>1. CASE activeRules' = activeRules
      BY <3>1 DEF DiversionTypeOK
    <3>2. CASE activeRules' = [activeRules EXCEPT ![r].upgrades = @ + 1]
      <4>1. activeRules' = [activeRules EXCEPT ![r] = [activeRules[r] EXCEPT !.upgrades = @ + 1]]
        BY <1>3, <3>2 DEF DiversionTypeOK
      <4> QED BY <1>3, <2>1, <4>1 DEF DiversionTypeOK, RuleRecord
    <3> QED BY <1>5, <3>1, <3>2
  <2>3. /\ RulePart' /\ EntriesAreActive' /\ NoOrphanRoute'
        /\ \A t \in Task : TaskFits(t) => TaskFits(t)'
    BY <1>1, <1>5, <2>2, RulesKept
  <2> QED BY <1>0, <1>1, <1>2, <1>5, <2>2, <2>3 DEF DiversionTypeOK
<1> QED BY <1>4, <1>5 DEF CheckAndUpgrade

LEMMA UpgradeTypeInv ==
    ASSUME DiversionInv, UpgradeForAttackType
    PROVE  /\ DiversionInv'
           /\ \A r \in RuleIds : IsActive(r) /\ activeRules[r].strategy = "none" =>
                 activeRules'[r] = activeRules[r]
<1> USE DEF DiversionInv
<1> DEFINE task == Head(tasks)
           r == task.rule
           rules == AttackRules(activeRules[r].attackType, task.dst, task.https)
           tier == TierOfStrategy(task.strategy, activeRules[r].rate)
           new == [activeRules[r] EXCEPT !.rules = rules, !.tier = tier,
                                         !.strategy = task.strategy, !.upgrades = 0]
<1>1. /\ Starts("upgrade") /\ IsActive(r) /\ UNCHANGED <<ruleOf, linkUp>>
      /\ Sent(Announced(Withdrawn(routes, activeRules[r].rules), rules))
      /\ activeRules' = [activeRules EXCEPT ![r].rules = rules, ![r].tier = tier,
                             ![r].strategy = task.strategy, ![r].upgrades = 0]
  BY DEF UpgradeForAttackType
<1>2. /\ task \in Task /\ TaskFits(task) /\ tasks' \in Seq(Task) /\ task.kind = "upgrade"
      /\ (\A t \in Task : TaskFits(t) => TaskFits(t)') => TaskPart'
  BY <1>1, TaskStarts
<1>3. /\ r \in RuleIds /\ task.dst \in Dsts /\ task.https \in BOOLEAN
      /\ RoutesAreOf(r, task.dst) /\ task.strategy \in Strategies
      /\ task.strategy # "none" /\ activeRules[r].strategy # "none"
      /\ activeRules[r] \in RuleRecord
  BY <1>1, <1>2 DEF Task, TaskFits, DiversionTypeOK
<1>4. activeRules[r].attackType \in AttackTypes
  BY <1>1, <1>3 DEF RulePart
<1>5. RulesFor(rules, task.dst)
  BY <1>3, <1>4, AttackRulesAreFor
<1>6. tier \in Tiers
  BY <1>3 DEF TierOfStrategy, RuleRecord, Tiers
<1>7. activeRules' = [activeRules EXCEPT ![r] = new]
  BY <1>1, <1>3 DEF DiversionTypeOK
<1> HIDE DEF rules, tier
<1>8. /\ new \in RuleRecord /\ new.rules = rules /\ new.status = "active"
      /\ new.attackType = activeRules[r].attackType /\ new.strategy = task.strategy
  BY <1>1, <1>3, <1>5, <1>6 DEF RuleRecord, RulesFor, IsActive
<1> HIDE DEF new
<1>9. /\ activeRules' \in [RuleIds -> RuleRecord] /\ routes' \subseteq FlowSpecRule
      /\ RulePart' /\ EntriesAreActive' /\ NoOrphanRoute'
      /\ \A t \in Task : TaskFits(t) => TaskFits(t)'
  BY <1>1, <1>3, <1>5, <1>7, <1>8, RuleReplaced
<1>10. \A s \in RuleIds : s # r => activeRules'[s] = activeRules[s]
  BY <1>7 DEF DiversionTypeOK
<1> QED BY <1>1, <1>2, <1>3, <1>9, <1>10 DEF DiversionTypeOK

LEMMA ApiInv ==
    ASSUME DiversionInv, NEW d \in Dsts,
           EscalateRule(d) \/ \E src \in Sources : CreateManualRule(d, src)
    PROVE  DiversionInv'
<1> USE DEF DiversionInv
<1>1. CASE EscalateRule(d)
  <2>1. /\ IsActive(ruleOf[d]) /\ activeRules[ruleOf[d]].tier < 3
        /\ UpgradeRule(ruleOf[d], d, activeRules[ruleOf[d]].tier + 1)
        /\ UNCHANGED <<ruleOf, tasks, linkUp>>
    BY <1>1 DEF EscalateRule
  <2>2. /\ ruleOf[d] \in RuleIds /\ activeRules[ruleOf[d]].tier + 1 \in Tiers
    <3>1. ruleOf[d] \in RuleIds
      BY <2>1 DEF IsActive, DiversionTypeOK
    <3>2. activeRules[ruleOf[d]] \in RuleRecord
      BY <3>1 DEF DiversionTypeOK
    <3>3. activeRules[ruleOf[d]].tier \in Tiers
      BY <3>2 DEF RuleRecord
    <3> QED BY <2>1, <3>1, <3>3 DEF Tiers
  <2>3. RoutesAreOf(ruleOf[d], d)
    BY <2>1 DEF IsActive, EntriesAreActive, RoutesAreOf
  <2>4. /\ activeRules' \in [RuleIds -> RuleRecord] /\ routes' \subseteq FlowSpecRule
        /\ RulePart' /\ EntriesAreActive' /\ NoOrphanRoute'
        /\ \A task \in Task : TaskFits(task) => TaskFits(task)'
    BY <2>1, <2>2, <2>3, RuleUpgraded
  <2>5. TaskPart'
    BY <2>1, <2>4 DEF TaskPart, DiversionTypeOK
  <2> QED BY <2>1, <2>4, <2>5 DEF DiversionTypeOK
<1>2. ASSUME NEW src \in Sources, CreateManualRule(d, src) PROVE DiversionInv'
  <2>1. PICK new \in RuleIds :
            NewRule(new, d, TierRules(1, src, d), "manual", 1, 1, "none")
    BY <1>2 DEF CreateManualRule
  <2>2. /\ Sent(Announced(routes, TierRules(1, src, d))) /\ UNCHANGED <<tasks, linkUp>>
    BY <1>2 DEF CreateManualRule
  <2>3. 1 \in Tiers /\ "none" \in Strategies /\ RulesFor(TierRules(1, src, d), d)
    BY TierRulesAreFor DEF Tiers, Strategies
  <2>4. /\ ruleOf' \in [Dsts -> RuleIds \cup {NoRule}]
        /\ activeRules' \in [RuleIds -> RuleRecord] /\ routes' \subseteq FlowSpecRule
        /\ RulePart' /\ EntriesAreActive' /\ NoOrphanRoute'
        /\ \A task \in Task : TaskFits(task) => TaskFits(task)'
    BY <2>1, <2>2, <2>3, RuleAdded
  <2>5. TaskPart'
    BY <2>2, <2>4 DEF TaskPart, DiversionTypeOK
  <2> QED BY <2>2, <2>4, <2>5 DEF DiversionTypeOK
<1> QED BY <1>1, <1>2

LEMMA AroundInv ==
    ASSUME DiversionInv, LinkBreaks \/ \E r \in RuleIds : AttackStops(r)
    PROVE  DiversionInv'
<1> USE DEF DiversionInv
<1>1. CASE LinkBreaks
  BY <1>1 DEF LinkBreaks, DiversionTypeOK, RulePart, TaskPart, TaskFits, RoutesAreOf,
              EntriesAreActive, NoOrphanRoute, IsActive
<1>2. ASSUME NEW r \in RuleIds, AttackStops(r) PROVE DiversionInv'
  <2>1. /\ activeRules' = [activeRules EXCEPT ![r].overdue = TRUE]
        /\ UNCHANGED <<ruleOf, tasks, routes, linkUp>>
    BY <1>2 DEF AttackStops
  <2>2. [activeRules[r] EXCEPT !.overdue = TRUE] \in RuleRecord
    BY DEF DiversionTypeOK, RuleRecord
  <2>3. /\ activeRules' \in [RuleIds -> RuleRecord]
        /\ \A s \in RuleIds :
              /\ activeRules'[s].status = activeRules[s].status
              /\ activeRules'[s].rules = activeRules[s].rules
              /\ activeRules'[s].strategy = activeRules[s].strategy
              /\ activeRules'[s].attackType = activeRules[s].attackType
    BY <2>1, <2>2 DEF DiversionTypeOK, RuleRecord
  <2>4. /\ RulePart' /\ EntriesAreActive' /\ NoOrphanRoute'
        /\ \A task \in Task : TaskFits(task) => TaskFits(task)'
    BY <2>1, <2>3, RulesKept
  <2>5. TaskPart'
    BY <2>1, <2>4 DEF TaskPart, DiversionTypeOK
  <2> QED BY <2>1, <2>3, <2>4, <2>5 DEF DiversionTypeOK
<1> QED BY <1>1, <1>2

LEMMA DiversionStep ==
    ASSUME DiversionInv, [DiversionNext]_diversionVars
    PROVE  DiversionInv'
<1>1. ASSUME UNCHANGED diversionVars PROVE DiversionInv'
  BY <1>1 DEF diversionVars, DiversionInv, DiversionTypeOK, RulePart, TaskPart, TaskFits,
              RoutesAreOf, EntriesAreActive, NoOrphanRoute, IsActive
<1> QED
  BY <1>1, TriggerInv, DropOrApplyInv, CheckInv, UpgradeTypeInv, ApiInv, RuleRevoked,
     AroundInv DEF DiversionNext, ExpireRule

-----------------------------------------------------------------------------
\* DiversionInv holds in every state of the service.
THEOREM DiversionInvariant == DiversionSpec => []DiversionInv
BY DiversionInitInv, DiversionStep, PTL DEF DiversionSpec

\* The variables keep their types.
THEOREM DiversionTypeCorrect == DiversionSpec => []DiversionTypeOK
<1>1. DiversionInv => DiversionTypeOK
  BY DEF DiversionInv
<1> QED BY <1>1, DiversionInvariant, PTL

\* Whatever tasks run after the trigger, call or pass that came between, a
\* destination's entry names an active rule with that destination's routes.
THEOREM EntriesStayActive == DiversionSpec => []EntriesAreActive
<1>1. DiversionInv => EntriesAreActive
  BY DEF DiversionInv
<1> QED BY <1>1, DiversionInvariant, PTL

\* While the link works, the router holds no route without a port that no
\* active rule asks for.
THEOREM RoutesAreOwned == DiversionSpec => []NoOrphanRoute
<1>1. DiversionInv => NoOrphanRoute
  BY DEF DiversionInv
<1> QED BY <1>1, DiversionInvariant, PTL

\* Without a strategy, no trigger, task or call makes a rule less strict.
THEOREM StricterOnly == DiversionSpec => OnlyStricter
<1> DEFINE Stricter == \A r \in RuleIds :
               (IsActive(r) /\ activeRules[r].strategy = "none"
                  /\ activeRules'[r].status = "active")
               => activeRules'[r].tier >= activeRules[r].tier
<1>1. ASSUME DiversionInv, DiversionNext PROVE Stricter
  <2>0. /\ activeRules \in [RuleIds -> RuleRecord]
        /\ \A r \in RuleIds : activeRules[r].tier \in Int
    BY <1>1 DEF DiversionInv, DiversionTypeOK, RuleRecord, Tiers
  <2>1. ASSUME activeRules' = activeRules PROVE Stricter
    BY <2>0, <2>1
  <2>2. ASSUME NEW r \in RuleIds, NEW d, NEW rules, NEW type, NEW tier, NEW rate, NEW strategy,
               NewRule(r, d, rules, type, tier, rate, strategy)
        PROVE  Stricter
    <3>1. \A s \in RuleIds : IsActive(s) => s # r
      BY <2>2 DEF NewRule, IsActive
    <3>2. \A s \in RuleIds : s # r => activeRules'[s] = activeRules[s]
      BY <2>0, <2>2 DEF NewRule
    <3> QED BY <2>0, <3>1, <3>2
  <2>3. ASSUME NEW r, NEW rate, Seen(r, rate) PROVE Stricter
    <3>1. \A s \in RuleIds : activeRules'[s].tier = activeRules[s].tier
      BY <2>0, <2>3 DEF Seen, RuleRecord
    <3> QED BY <2>0, <3>1
  <2>4. ASSUME NEW d \in Dsts, EscalateRule(d) PROVE Stricter
    <3>1. /\ ruleOf[d] \in RuleIds /\ activeRules[ruleOf[d]].tier + 1 \in Tiers
          /\ RoutesAreOf(ruleOf[d], d)
      BY <1>1, <2>4
         DEF EscalateRule, IsActive, EntriesAreActive, RoutesAreOf, DiversionInv,
             DiversionTypeOK, RuleRecord, Tiers
    <3>2. /\ \A s \in RuleIds : s # ruleOf[d] => activeRules'[s] = activeRules[s]
          /\ activeRules'[ruleOf[d]].tier = activeRules[ruleOf[d]].tier + 1
      BY <1>1, <2>4, <3>1, RuleUpgraded DEF EscalateRule
    <3> QED BY <2>0, <3>1, <3>2
  <2>5. ASSUME NEW r \in RuleIds, RevokeRule(r) \/ AttackStops(r) PROVE Stricter
    <3>1. CASE RevokeRule(r)
      <4>1. /\ activeRules'[r].status = "gone"
            /\ \A s \in RuleIds : s # r => activeRules'[s] = activeRules[s]
        BY <2>0, <3>1 DEF RevokeRule, RuleGone, Unused
      <4> QED BY <2>0, <4>1
    <3>2. CASE AttackStops(r)
      <4>1. \A s \in RuleIds : activeRules'[s].tier = activeRules[s].tier
        BY <2>0, <3>2 DEF AttackStops, RuleRecord
      <4> QED BY <2>0, <4>1
    <3> QED BY <2>5, <3>1, <3>2
  <2>6. ASSUME CheckAndUpgrade \/ UpgradeForAttackType PROVE Stricter
    <3>1. CASE CheckAndUpgrade
      BY <1>1, <3>1, CheckInv
    <3>2. CASE UpgradeForAttackType
      BY <1>1, <2>0, <3>2, UpgradeTypeInv
    <3> QED BY <2>6, <3>1, <3>2
  <2>7. ASSUME NEW d \in Dsts, NEW rate \in Rates,
               \/ TriggerDiversion(d, rate)
               \/ \E type \in Types, https \in BOOLEAN : TriggerWithStrategy(d, type, rate, https)
        PROVE  Stricter
    BY <2>2, <2>3, <2>7 DEF TriggerDiversion, TriggerWithStrategy
  <2>8. ASSUME NEW d \in Dsts, NEW src \in Sources, CreateManualRule(d, src) PROVE Stricter
    BY <2>2, <2>8 DEF CreateManualRule
  <2> HIDE DEF Stricter
  <2> QED
    BY <1>1, <2>1, <2>4, <2>5, <2>6, <2>7, <2>8
       DEF DiversionNext, DropTask, ApplyRules, LinkBreaks, ExpireRule
<1>2. DiversionInv /\ [DiversionNext]_diversionVars => [Stricter]_diversionVars
  BY <1>1
<1> QED BY <1>2, DiversionInvariant, PTL DEF OnlyStricter, DiversionSpec
=============================================================================
