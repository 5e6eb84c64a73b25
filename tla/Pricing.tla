------------------------------- MODULE Pricing -------------------------------
(***************************************************************************)
(* PricingEngine of billing-service (usecase/pricing_usecase.go): the      *)
(* price of one product for one reseller.  CalculatePrice asks for up to   *)
(* four rules in four statements, from the most specific to the least, and *)
(* takes any error for "no such rule".  Operators change the rules in the  *)
(* database meanwhile: UpsertRule has no caller.                           *)
(***************************************************************************)
EXTENDS Platform

CONSTANTS
  RuleBook,  \* bound: the rules that may be in force
  BaseCosts  \* bound: the base costs asked about, in units of 0.0001

VARIABLES
  rules,     \* the active rows of billing.pricing_rules about this product
  quotes,    \* the calls of CalculatePrice: how far each is, and its price
  inForce    \* history: the rules in force when each call began

pricingVars == <<rules, quotes, inForce>>

\* What a rule is for, from the most specific scope to the least.
Scopes == <<"reseller_product", "reseller_type", "product", "type">>

Levels == 1 .. Len(Scopes)

\* markup is percent or units; min is 0 for NULL.
Rule == [level: Levels, kind: {"percentage", "fixed", "other"}, markup: Nat, min: Nat]

ASSUME PricingAssumption == RuleBook \subseteq Rule /\ BaseCosts \subseteq Nat

\* level: the rule to ask for next, past the last one when the price is known.
\* clean: no read failed and no rule changed so far.
Ask == [level: 0 .. Len(Scopes) + 1, base: Nat, price: Nat, clean: BOOLEAN]
NoAsk == [level |-> 0, base |-> 0, price |-> 0, clean |-> FALSE]
Priced == Len(Scopes) + 1
-----------------------------------------------------------------------------
\* Mutant: the minimum is taken for a maximum.
AtMostMin(price, rule) == IF rule.min # 0 /\ price > rule.min THEN rule.min ELSE price

AtLeastMin(price, rule) == IF rule.min # 0 /\ price < rule.min THEN rule.min ELSE price

\* Round(4) rounds half a unit up.
MarkedUp(base, rule) ==
  CASE rule.kind = "percentage" -> (base * (100 + rule.markup) + 50) \div 100
    [] rule.kind = "fixed" -> base + rule.markup
    [] OTHER -> base

applyRule(base, rule) == AtLeastMin(MarkedUp(base, rule), rule)

\* GetRule: LIMIT 1 without an order takes any active rule of the scope.
GetRule(level) == {rule \in rules : rule.level = level}
-----------------------------------------------------------------------------
PricingInit ==
  /\ rules \in SUBSET RuleBook
  /\ quotes = [q \in Calls |-> NoAsk]
  /\ inForce = [q \in Calls |-> {}]

\* A caller without a reseller starts at the third rule.
AskPrice(q, base, level) ==
  /\ quotes[q].level = 0 /\ Asked("price")
  /\ Cardinality({p \in Calls : quotes[p].level # 0}) < workload.inFlight
  /\ level \in {1, 3}
  /\ quotes' = [quotes EXCEPT ![q] = [level |-> level, base |-> base, price |-> 0,
                                    clean |-> TRUE]]
  /\ inForce' = [inForce EXCEPT ![q] = {r \in rules : r.level >= level}]
  /\ UNCHANGED rules

Answer(q, price) ==
  quotes' = [quotes EXCEPT ![q] = [level |-> Priced, base |-> @.base, price |-> price,
                                 clean |-> @.clean]]

\* One call of GetRule that finds a rule.
FindRule(q) ==
  /\ quotes[q].level \in Levels
  /\ \E rule \in GetRule(quotes[q].level) : Answer(q, applyRule(quotes[q].base, rule))
  /\ UNCHANGED <<rules, inForce>>

\* It goes on to the next rule, and from the last one to the base cost.
NextRule(q, clean) ==
  LET a == quotes[q] IN
  quotes' = [quotes EXCEPT ![q] =
               [level |-> a.level + 1, base |-> a.base, clean |-> a.clean /\ clean,
                price |-> IF a.level + 1 = Priced THEN a.base ELSE 0]]

MissRule(q) ==
  /\ quotes[q].level \in Levels /\ GetRule(quotes[q].level) = {}
  /\ NextRule(q, TRUE)
  /\ UNCHANGED <<rules, inForce>>

\* The statement fails: handled as if there were no rule.
FailRule(q) ==
  /\ quotes[q].level \in Levels
  /\ NextRule(q, FALSE)
  /\ UNCHANGED <<rules, inForce>>

TakeAnswer(q) ==
  /\ quotes[q].level = Priced
  /\ quotes' = [quotes EXCEPT ![q] = NoAsk]
  /\ inForce' = [inForce EXCEPT ![q] = {}]
  /\ UNCHANGED rules

\* An operator replaces the rules.
ChangeRules(new) ==
  /\ Asked("price") /\ new # rules
  /\ rules' = new
  /\ quotes' = [q \in Calls |-> IF quotes[q].level \in Levels
                               THEN [quotes[q] EXCEPT !.clean = FALSE] ELSE quotes[q]]
  /\ UNCHANGED inForce

PricingNext ==
  \/ \E q \in Calls :
       \/ \E base \in BaseCosts, level \in Levels : AskPrice(q, base, level)
       \/ FindRule(q) \/ MissRule(q) \/ FailRule(q) \/ TakeAnswer(q)
  \/ \E new \in SUBSET RuleBook : ChangeRules(new)

PricingSpec ==
  /\ WorkloadInit /\ PricingInit
  /\ [][PricingNext /\ UNCHANGED workload]_<<pricingVars, workload>>
-----------------------------------------------------------------------------
PricingTypeOK ==
  /\ rules \subseteq Rule /\ quotes \in [Calls -> Ask]
  /\ inForce \in [Calls -> SUBSET Rule]

\* The rules of the most specific scope that has one.
MostSpecific(set) == {r \in set : \A s \in set : r.level <= s.level}

\* "reseller-specific rule > global product rule > global type rule > base
\* cost" (pricing_usecase.go:26): when nothing fails and no rule changes
\* between the four reads, the price is the most specific rule's, at least its
\* minimum, and the base cost only when no rule applies.
PriceByRule ==
  \A q \in Calls : quotes[q].level = Priced /\ quotes[q].clean =>
    IF inForce[q] = {} THEN quotes[q].price = quotes[q].base
    ELSE \E rule \in MostSpecific(inForce[q]) :
           /\ quotes[q].price = applyRule(quotes[q].base, rule)
           /\ quotes[q].price >= rule.min
=============================================================================
