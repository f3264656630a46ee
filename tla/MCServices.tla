----------------------------- MODULE MCServices -----------------------------
(* The gate, the money apart from the bills, the bookings, and what a month  *)
(* charges: services that share nothing but the society, explored one per    *)
(* behaviour.                                                                *)
EXTENDS Gate, Books, Bookings, Charges, TLC

CONSTANTS bank, corpus
MCLinked == [f \in Funds |-> bank]
MCOpening == [k \in Accounts \cup Funds |-> 3]
MCTimes == {{1}, {1, 2}}
MCRules == {[capacity |-> 1, cap |-> 2, fee |-> TRUE, approval |-> TRUE],
            [capacity |-> 2, cap |-> 1, fee |-> FALSE, approval |-> FALSE]}

CONSTANTS h1, h2
MCArea == h1 :> 3 @@ h2 :> 0
MCPeople == h1 :> 0 @@ h2 :> 2
Rule(type, amount, base) == [type |-> type, amount |-> amount, base |-> base]
MCBook == <<Rule("EQUAL_PER_FLAT", 40, 0), Rule("AREA_BASED", 7, 0), Rule("PER_PERSON", 9, 0),
            Rule("HYBRID", 2, 5), Rule("PERCENTAGE_BASED", 15, 70)>>
MCRuleBooks == {MCBook, <<Rule("FIXED_CUSTOM", 40, 0), Rule("CUSTOM_FORMULA", 0, 0)>>,
                <<Rule("FIXED_CUSTOM", -30, 0), Rule("PERCENTAGE_BASED", 5, -70)>>}
Offer(type, value, inForce) == [type |-> type, value |-> value, inForce |-> inForce]
MCOffers == {Offer("FIXED", 50, TRUE), Offer("PERCENT", 33, TRUE), Offer("FIXED", 90, FALSE)}
UsageLimit(mode, units, value) == [mode |-> mode, units |-> units, value |-> value]
MCLimits == {UsageLimit("none", 0, 0), UsageLimit("PERCENT", 1, 50), UsageLimit("PER_UNIT", 1, 7),
             UsageLimit("ONE_TIME", 1, 9)}
Tariff(model, rate, fixed, slabs) ==
    [model |-> model, rate |-> rate, fixed |-> fixed, free |-> 1, slabs |-> slabs]
MCTariffs == {Tariff("PER_LITRE", 1, 0, <<>>), Tariff("PER_KL", 1000, 0, <<>>),
              Tariff("FIXED_CHARGE", 0, 1000, <<>>), Tariff("FIXED_PLUS_USAGE", 1000, 1000, <<>>),
              Tariff("FIXED_CHARGE", 0, -1000, <<>>),
              Tariff("SLAB_BASED", 0, 0, <<[upTo |-> 1, rate |-> 1000], [upTo |-> -1, rate |-> 1000]>>)}

VARIABLE part
vars == <<gateVars, booksVars, bookingVars, chargeVars, part>>

Init ==
    /\ part \in {"gate", "expenses", "salaries", "bookings", "water", "discounts"}
    /\ GateInit /\ BooksInit /\ BookingsInit /\ ChargesInit
    /\ part # "expenses" => event = [cost |-> 1, fund |-> corpus]
    /\ part # "bookings" => rules.approval
    /\ part # "discounts" => activeRules = MCBook

Step ==
    /\ \/ part = "gate" /\ GateNext /\ UNCHANGED <<booksVars, bookingVars, chargeVars>>
       \/ part = "expenses" /\ ExpenseNext /\ UNCHANGED <<gateVars, bookingVars, chargeVars>>
       \/ part = "salaries" /\ (SalaryNext \/ MoveByHand) /\ UNCHANGED <<gateVars, bookingVars, chargeVars>>
       \/ part = "bookings" /\ BookingsNext /\ UNCHANGED <<gateVars, booksVars, chargeVars>>
       \/ /\ part = "water" /\ (ReadNext \/ WaterNext \/ BillNext)
          /\ UNCHANGED <<gateVars, booksVars, bookingVars>>
       \/ /\ part = "discounts" /\ (ReadNext \/ OfferNext \/ BillNext)
          /\ UNCHANGED <<gateVars, booksVars, bookingVars>>
    /\ UNCHANGED part

ServicesSpec == Init /\ [][Step]_vars

TypeOK == GateTypeOK /\ BooksTypeOK /\ BookingsTypeOK /\ ChargesTypeOK
=============================================================================
