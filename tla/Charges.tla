------------------------------- MODULE Charges -------------------------------
(* What the flats are charged for one month, in paise: what the billing     *)
(* rules ask, their share of the water bill, and their standing discounts;  *)
(* and the bills generated from these while they are changed.  Dates are    *)
(* abstracted: a discount is in force for the month or not.                 *)
EXTENDS Integers, Sequences, FiniteSets, Summation

CONSTANTS Homes,        \* the flats
          Favoured,     \* the flats that are given discounts
          Area, People, \* of each flat
          RuleBooks,    \* sequences of rules that may be in force
          Offers,       \* the discounts a flat may be given
          MaxOffers,    \* bound: discounts of a flat
          Costs, Uses,  \* what the month's water may cost, and a flat may use
          Tariffs,      \* what a single reading may be priced by
          Limits,       \* the usage limits there may be, "none" among their modes
          MaxSingles    \* bound: readings entered one by one

RuleTypes == {"EQUAL_PER_FLAT", "FIXED_CUSTOM", "AREA_BASED", "PER_PERSON", "HYBRID", "PERCENTAGE_BASED",
              "CUSTOM_FORMULA"}
PriceModels == {"PER_LITRE", "PER_KL", "FIXED_CHARGE", "FIXED_PLUS_USAGE", "SLAB_BASED"}

\* Nothing checks what a rule asks, nor what a tariff's prices and slabs are: these may be negative.
\* Discounts, costs, units and limits are checked when they are entered.
ASSUME ChargesAssumption ==
    /\ IsFiniteSet(Homes) /\ Favoured \subseteq Homes
    /\ Area \in [Homes -> Int] /\ People \in [Homes -> Int]
    /\ RuleBooks \subseteq Seq([type : RuleTypes, amount : Int, base : Int])
    /\ Offers \subseteq [type : {"FIXED", "PERCENT"}, value : Nat, inForce : BOOLEAN]
    /\ Costs \subseteq Nat /\ Uses \subseteq Nat /\ MaxOffers \in Nat /\ MaxSingles \in Nat
    /\ Tariffs \subseteq [model : PriceModels, rate : Int, fixed : Int, free : Int,
                          slabs : Seq([upTo : Int, rate : Int])]
    /\ Limits \subseteq [mode : {"none", "PERCENT", "PER_UNIT", "ONE_TIME"}, units : Nat, value : Nat]

VARIABLES status,       \* of the month
          activeRules,  \* the rules in force
          discounts,    \* of each flat, oldest first
          limit,        \* the usage limit saved with the water rules
          allocation,   \* the limit an allocation under way has read, or Idle
          water,        \* the month's readings of each flat: how many, their charge, the excess in it
          cost,         \* history: what the water of those readings cost
          singles,
          bill

chargeVars == <<status, activeRules, discounts, limit, allocation, water, cost, singles, bill>>

\* To the nearest whole, halves away from zero.
Round(n, d) == IF n >= 0 THEN (2 * n + d) \div (2 * d) ELSE -((d - 2 * n) \div (2 * d))
Least(m, n) == IF m < n THEN m ELSE n

Idle == [mode |-> "idle", units |-> 0, value |-> 0]
NoReading == [rows |-> 0, charge |-> 0, excess |-> 0]
NoBill == [lines |-> [l \in {} |-> 0], base |-> 0, water |-> 0, discount |-> 0, total |-> 0]

ChargesInit ==
    /\ status = "DRAFT"
    /\ activeRules \in RuleBooks
    /\ discounts = [f \in Homes |-> <<>>]
    /\ limit \in {l \in Limits : l.mode = "none"}
    /\ allocation = Idle
    /\ water = [f \in Homes |-> NoReading]
    /\ cost = 0 /\ singles = 0
    /\ bill = [f \in Homes |-> NoBill]

\* A formula among the rules in force stops the whole month; otherwise what one rule asks of one
\* flat, and whether it makes a line at all.
Computable == \A i \in DOMAIN activeRules : activeRules[i].type # "CUSTOM_FORMULA"
Asked(f, r) ==
    CASE r.type \in {"EQUAL_PER_FLAT", "FIXED_CUSTOM"} -> r.amount
      [] r.type = "AREA_BASED"       -> Area[f] * r.amount
      [] r.type = "PER_PERSON"       -> People[f] * r.amount
      [] r.type = "HYBRID"           -> r.base + Area[f] * r.amount
      [] r.type = "PERCENTAGE_BASED" -> Round(r.base * r.amount, 100)
Applies(f, r) == CASE r.type \in {"EQUAL_PER_FLAT", "FIXED_CUSTOM"} -> r.amount # 0
                   [] r.type = "AREA_BASED" -> Area[f] # 0
                   [] r.type = "PER_PERSON" -> People[f] # 0
                   [] OTHER -> TRUE
Items(f) == [i \in {j \in DOMAIN activeRules : Applies(f, activeRules[j])} |-> Asked(f, activeRules[i])]

\* A bill's lines: an item for each rule that makes one, by the rule's number, and the water and
\* the discount if there is any.
WaterLine == 0
DiscountLine == -1
Lines(items, drawn, off) ==
    [l \in DOMAIN items \cup (IF drawn > 0 THEN {WaterLine} ELSE {})
                        \cup (IF off > 0 THEN {DiscountLine} ELSE {}) |->
        IF l = WaterLine THEN drawn ELSE IF l = DiscountLine THEN -off ELSE items[l]]

\* One discount in force after another, as long as there is something left to take it from.
Off(d, base) == IF d.type = "FIXED" THEN d.value ELSE Round(base * d.value, 100)
InForce(d, base) == IF d.inForce THEN Off(d, base) ELSE 0
DiscountUncapped(given, base) == SumOver([i \in DOMAIN given |-> InForce(given[i], base)])
DiscountFor(given, base) ==
    LET taken[i \in 0..Len(given)] ==
            IF i = 0 THEN 0
            ELSE LET room == base - taken[i - 1]
                 IN taken[i - 1] + (IF room > 0 THEN Least(InForce(given[i], base), room) ELSE 0)
    IN taken[Len(given)]

\* A flat's share of the cost by its units, and the extra for units above the limit.
Over(units, lim) == IF lim.mode = "none" \/ units <= lim.units THEN 0 ELSE units - lim.units
WaterCharge(units, total, price, lim) ==
    LET scale == 100 * total
        over  == Over(units, lim)
        extra == CASE lim.mode = "PERCENT"  -> over * price * lim.value
                   [] lim.mode = "PER_UNIT" -> over * lim.value * scale
                   [] lim.mode = "ONE_TIME" /\ over > 0 -> lim.value * scale
                   [] OTHER -> 0
    IN [rows |-> 1, charge |-> Round(100 * price * units + extra, scale), excess |-> Round(extra, scale)]

\* Standing discounts: given, changed (or switched off) and removed at any time.
GiveDiscount(f) ==
    /\ Len(discounts[f]) < MaxOffers
    /\ \E d \in Offers : discounts' = [discounts EXCEPT ![f] = Append(@, d)]
    /\ UNCHANGED <<status, activeRules, limit, allocation, water, cost, singles, bill>>

ChangeDiscount(f, i) ==
    /\ i \in DOMAIN discounts[f]
    /\ \E d \in Offers : discounts' = [discounts EXCEPT ![f][i] = d]
    /\ UNCHANGED <<status, activeRules, limit, allocation, water, cost, singles, bill>>

RemoveDiscount(f, i) ==
    /\ i \in DOMAIN discounts[f]
    /\ discounts' = [discounts EXCEPT ![f] = SubSeq(@, 1, i - 1) \o SubSeq(@, i + 1, Len(@))]
    /\ UNCHANGED <<status, activeRules, limit, allocation, water, cost, singles, bill>>

ChangeRules ==
    /\ activeRules' \in RuleBooks
    /\ UNCHANGED <<status, discounts, limit, allocation, water, cost, singles, bill>>

\* The price of a single reading, below zero if its prices are.  A slab takes as many units as its
\* limit says, whatever the slabs before it took, until there are none left; units beyond the last
\* slab cost what its units cost.
ReadingPrice(u, t) ==
    LET inSlab(a, slab) == LET n == Least(a.left, slab.upTo)
                           IN [left |-> a.left - n, amount |-> a.amount + n * slab.rate, rate |-> slab.rate]
        after[i \in 0..Len(t.slabs)] == IF i = 0 THEN [left |-> u, amount |-> 0, rate |-> 0]
                                        ELSE IF after[i - 1].left <= 0 THEN after[i - 1]
                                        ELSE inSlab(after[i - 1], t.slabs[i])
        slabbed == after[Len(t.slabs)]
    IN CASE t.model = "PER_LITRE"        -> 1000 * u * t.rate
         [] t.model = "PER_KL"           -> u * t.rate
         [] t.model = "FIXED_CHARGE"     -> t.fixed
         [] t.model = "FIXED_PLUS_USAGE" -> t.fixed + (IF u > t.free THEN (u - t.free) * t.rate ELSE 0)
         [] t.model = "SLAB_BASED"       -> slabbed.amount + slabbed.left * slabbed.rate

\* A single reading is added to the month's; the month's status is not looked at.
RecordReading(f) ==
    /\ singles < MaxSingles /\ singles' = singles + 1
    /\ \E u \in Uses, t \in Tariffs :
          LET amount == ReadingPrice(u, t)
          IN /\ water' = [water EXCEPT ![f].rows = @ + 1, ![f].charge = @ + amount]
             /\ cost' = cost + amount
    /\ UNCHANGED <<status, activeRules, discounts, limit, allocation, bill>>

\* The society's water bill is shared: the month and the saved limit are read, and then all
\* readings of the month are made anew.  One allocation is under way at a time.
AskAllocate ==
    /\ allocation = Idle
    /\ status \in {"DRAFT", "CALCULATED"}
    /\ allocation' = limit
    /\ UNCHANGED <<status, activeRules, discounts, limit, water, cost, singles, bill>>

Share(used, price, lim, before) ==
    LET total == SumOver(used)
    IN /\ total > 0
       /\ water' = [f \in Homes |->
             LET now == WaterCharge(used[f], total, price, lim)
             IN IF f \in DOMAIN used
                THEN [rows |-> before[f].rows + 1, charge |-> before[f].charge + now.charge,
                      excess |-> before[f].excess + now.excess]
                ELSE before[f]]

AllocateOnTop ==
    /\ allocation # Idle
    /\ \E read \in SUBSET Homes \ {{}} : \E used \in [read -> Uses], price \in Costs, lim \in Limits :
          /\ Share(used, price, lim, water)
          /\ limit' = lim /\ cost' = price
    /\ allocation' = Idle /\ singles' = 0
    /\ UNCHANGED <<status, activeRules, discounts, bill>>

Allocate ==
    /\ allocation # Idle
    /\ \E read \in SUBSET Homes \ {{}} : \E used \in [read -> Uses], price \in Costs :
          /\ \/ Share(used, price, allocation, [f \in Homes |-> NoReading]) /\ UNCHANGED limit
             \/ \E lim \in Limits : /\ Share(used, price, lim, [f \in Homes |-> NoReading])
                                    /\ limit' = lim
          /\ cost' = price
    /\ allocation' = Idle /\ singles' = 0
    /\ UNCHANGED <<status, activeRules, discounts, bill>>

\* Every flat's bill: its items, its water, and its discounts, which are taken from the items.
\* (One step here: FlatLedger has the stale check of the status, and what follows publishing.)
Generate ==
    /\ status \in {"DRAFT", "CALCULATED"}
    /\ Computable
    /\ bill' = [f \in Homes |->
          LET items == Items(f)
              base  == SumOver(items)
              off   == DiscountFor(discounts[f], base)
              drawn == water[f].charge
          IN [lines |-> Lines(items, drawn, off),
              base |-> base, water |-> drawn, discount |-> off, total |-> base + drawn - off]]
    /\ status' = "CALCULATED"
    /\ UNCHANGED <<activeRules, discounts, limit, allocation, water, cost, singles>>

Publish ==
    /\ status = "CALCULATED"
    /\ status' = "PUBLISHED"
    /\ UNCHANGED <<activeRules, discounts, limit, allocation, water, cost, singles, bill>>

OfferNext == \/ \E f \in Favoured : \/ GiveDiscount(f)
                                    \/ \E i \in 1..MaxOffers : ChangeDiscount(f, i) \/ RemoveDiscount(f, i)
             \/ ChangeRules
ReadNext == \E f \in Homes : RecordReading(f)
WaterNext == AskAllocate \/ Allocate
BillNext == Generate \/ Publish

ChargesNext == OfferNext \/ ReadNext \/ WaterNext \/ BillNext

ChargesSpec == ChargesInit /\ [][ChargesNext]_chargeVars

ChargesTypeOK ==
    /\ status \in {"DRAFT", "CALCULATED", "PUBLISHED"}
    /\ activeRules \in RuleBooks /\ limit \in Limits /\ allocation \in Limits \cup {Idle}
    /\ discounts \in [Homes -> Seq(Offers)] /\ \A f \in Homes : Len(discounts[f]) <= MaxOffers
    /\ water \in [Homes -> [rows : Nat, charge : Int, excess : Nat]]
    /\ cost \in Int /\ singles \in 0..MaxSingles

\* What the flats pay for water, without the extra for those above the limit, is what it cost:
\* to half a paisa for each reading, or a paisa where there is a limit and the extra is rounded
\* beside it; whatever was read before, and however often it is allocated anew.
WaterPaysForItself ==
    LET sum(field) == SumOver([f \in Homes |-> water[f][field]])
        apart == sum("charge") - sum("excess") - cost
        slack == IF limit.mode = "none" THEN sum("rows") ELSE 2 * sum("rows")
    IN -slack <= 2 * apart /\ 2 * apart <= slack

\* "Together they never exceed base, so a bill cannot be pushed below what it would cost without
\* them": a bill is its lines, its discounts are all that was given as far as the items reach,
\* and its water is paid in full; items that come to less than nothing are not discounted.  Water
\* that comes to less than nothing is in what is to be paid, and has no line.
BillAddsUp ==
    /\ \A f \in Homes : /\ bill[f].total = SumOver(bill[f].lines) + Least(bill[f].water, 0)
                        /\ bill[f].total >= bill[f].water + Least(bill[f].base, 0)
    /\ \A f \in Favoured : Computable =>
          LET base == SumOver(Items(f))
          IN DiscountFor(discounts[f], base)
                = IF base > 0 THEN Least(base, DiscountUncapped(discounts[f], base)) ELSE 0
=============================================================================
