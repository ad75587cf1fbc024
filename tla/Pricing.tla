------------------------------- MODULE Pricing -------------------------------
(***************************************************************************)
(* room-rates.service.ts, room-pricing.service.ts, pricing.util.ts and the *)
(* price that bookings.service.ts quotes, for one room.                    *)
(*                                                                         *)
(* A rate has a price.  A rule changes the price of one rate, or of all    *)
(* rates of the room (rate Null), from one day to another.  Money is       *)
(* counted in cents and percentages in hundredths of a percent.            *)
(***************************************************************************)
EXTENDS Integers, FiniteSets

CONSTANTS
    RateIds,         \* bound: rows of room_rates
    RuleIds,         \* bound: rows of room_pricings
    Days,            \* days on which rules begin and end and guests arrive
    Prices,          \* prices of rates
    Adjustments,     \* what the rules of this instance do to a price
    Requests,        \* bound: requests in flight at the same time
    RulesTakeTurns,  \* environment: one request at a time edits the rules
    MayFail,         \* environment: a call is rejected, the calendar refuses a stay
    Null

AdjustType == {"FIXED", "PERCENT_INCREASE", "PERCENT_DECREASE"}

ASSUME PricingAssumption ==
    /\ Days \subseteq Int
    /\ Prices \subseteq Nat
    /\ Adjustments \subseteq [type: AdjustType, value: Nat, override: Nat]
    /\ Null \notin RateIds

VARIABLES
    rate,        \* id -> row of table room_rates
    rule,        \* id -> row of table room_pricings
    req,         \* the requests being served
    overlapped   \* history: has anything happened while a request was served

vars == <<rate, rule, req, overlapped>>

-----------------------------------------------------------------------------
NoRow == [active |-> FALSE]

RateRow == [price: Prices, active: BOOLEAN]

RuleRow == [rate: RateIds \cup {Null}, start: Days, end: Days,
            adjust: Adjustments, active: BOOLEAN]

Rates == {r \in RateIds : rate[r] # NoRow}
Rules == {x \in RuleIds : rule[x] # NoRow}

\* findOverlappingRule asks for an active rule of the same scope, both ends included.
Clash(x, row) ==
    /\ x.active
    /\ x.rate = row.rate
    /\ x.start <= row.end
    /\ x.end >= row.start

-----------------------------------------------------------------------------
(***************************************************************************)
(* calculatePrice.  toDecimalPlaces(2) rounds half a cent away from zero.  *)
(***************************************************************************)
Cents(x) == IF x >= 0 THEN (x + 5000) \div 10000 ELSE -((5000 - x) \div 10000)

CalculatePrice(base, adjust) ==
    IF adjust.type = "FIXED" THEN adjust.override
    ELSE IF adjust.type = "PERCENT_INCREASE" THEN Cents(base * (10000 + adjust.value))
    ELSE Cents(base * (10000 - adjust.value))

Covers(x, day) == rule[x].active /\ rule[x].start <= day /\ day <= rule[x].end

\* A faulty choice that asks the rules of the room first.
QuotesWideFirst(r, day, base) ==
    LET wide == {x \in Rules : Covers(x, day) /\ rule[x].rate = Null}
        own  == {x \in Rules : Covers(x, day) /\ rule[x].rate = r}
    IN  IF wide # {} THEN {CalculatePrice(base, rule[x].adjust) : x \in wide}
        ELSE IF own # {} THEN {CalculatePrice(base, rule[x].adjust) : x \in own}
        ELSE {base}

(***************************************************************************)
(* A rule of the rate goes before a rule of the room.  Of several rules of *)
(* one scope find takes the one the database lists first, in no order the  *)
(* query asks for.                                                         *)
(***************************************************************************)
Quotes(r, day, base) ==
    LET own  == {x \in Rules : Covers(x, day) /\ rule[x].rate = r}
        wide == {x \in Rules : Covers(x, day) /\ rule[x].rate = Null}
    IN  IF own # {} THEN {CalculatePrice(base, rule[x].adjust) : x \in own}
        ELSE IF wide # {} THEN {CalculatePrice(base, rule[x].adjust) : x \in wide}
        ELSE {base}

-----------------------------------------------------------------------------
Idle == [op |-> "idle"]

Served(q) == req[q] # Idle

At(q, pc) == Served(q) /\ req[q].pc = pc

Editing(q) == Served(q) /\ req[q].op = "rule"

\* Somebody does something while requests are being served.
Meet == overlapped' = (overlapped \/ \E p \in Requests : Served(p))

Begin(q, first) == ~Served(q) /\ req' = [req EXCEPT ![q] = first] /\ Meet

Continue(q, next) == req' = [req EXCEPT ![q] = next] /\ UNCHANGED overlapped

Answer(q) == Continue(q, Idle)

Fail(q) == MayFail /\ Served(q) /\ Answer(q) /\ UNCHANGED <<rate, rule>>

MayEdit == RulesTakeTurns => \A p \in Requests : ~Editing(p)

-----------------------------------------------------------------------------
\* room-rates: every endpoint ends in one write that depends on no other column.
RateCreate(r) ==
    /\ rate[r] = NoRow
    /\ \E price \in Prices : rate' = [rate EXCEPT ![r] = [price |-> price, active |-> TRUE]]
    /\ Meet
    /\ UNCHANGED <<rule, req>>

RateUpdate(r) ==
    /\ r \in Rates
    /\ \E row \in RateRow : rate' = [rate EXCEPT ![r] = row]
    /\ Meet
    /\ UNCHANGED <<rule, req>>

\* A faulty removal that deletes the row.
RateRemoveRow(r) ==
    /\ r \in Rates
    /\ rate' = [rate EXCEPT ![r] = NoRow]
    /\ Meet
    /\ UNCHANGED <<rule, req>>

RateRemove(r) ==
    /\ r \in Rates
    /\ rate' = [rate EXCEPT ![r].active = FALSE]
    /\ Meet
    /\ UNCHANGED <<rule, req>>

-----------------------------------------------------------------------------
\* A range of dates in order and a rate of this room, switched off or not.
Valid(row) == row.start <= row.end /\ row.rate \in Rates \cup {Null}

RuleCreateCheck(q) ==
    /\ MayEdit
    /\ \E row \in RuleRow :
         /\ row.active
         /\ Valid(row)
         /\ ~\E x \in Rules : Clash(rule[x], row)
         /\ Begin(q, [op |-> "rule", pc |-> "insert", row |-> row])
    /\ UNCHANGED <<rate, rule>>

\* An id is never drawn twice: not the one that an update in flight refers to.
RuleCreateInsert(q) ==
    /\ At(q, "insert")
    /\ \E n \in RuleIds :
         /\ rule[n] = NoRow
         /\ \A p \in Requests : At(p, "recheck") \/ At(p, "write") => req[p].id # n
         /\ rule' = [rule EXCEPT ![n] = req[q].row]
    /\ Answer(q)
    /\ UNCHANGED rate

(***************************************************************************)
(* update merges the row it has read with the dto.  Scope and dates are    *)
(* always written, adjustment and active only when the dto has them.       *)
(***************************************************************************)
RuleUpdateRead(q) ==
    /\ MayEdit
    /\ \E n \in Rules, next \in RuleRow, sent \in SUBSET {"adjust", "active"} :
         /\ "adjust" \in sent \/ next.adjust = rule[n].adjust
         /\ "active" \in sent \/ next.active = rule[n].active
         /\ Valid(next)
         /\ Begin(q, [op |-> "rule", pc |-> "recheck", id |-> n, next |-> next, sent |-> sent])
    /\ UNCHANGED <<rate, rule>>

\* A faulty update that looks for overlaps only when the rule is active as yet.
RuleUpdateCheckActive(q) ==
    /\ At(q, "recheck")
    /\ IF /\ rule[req[q].id].active
          /\ \E x \in Rules \ {req[q].id} : Clash(rule[x], req[q].next)
       THEN Answer(q)
       ELSE Continue(q, [req[q] EXCEPT !.pc = "write"])
    /\ UNCHANGED <<rate, rule>>

RuleUpdateCheck(q) ==
    /\ At(q, "recheck")
    /\ IF \E x \in Rules \ {req[q].id} : Clash(rule[x], req[q].next)
       THEN Answer(q)
       ELSE Continue(q, [req[q] EXCEPT !.pc = "write"])
    /\ UNCHANGED <<rate, rule>>

Merged(old, next, sent) ==
    [rate |-> next.rate, start |-> next.start, end |-> next.end,
     adjust |-> IF "adjust" \in sent THEN next.adjust ELSE old.adjust,
     active |-> IF "active" \in sent THEN next.active ELSE old.active]

\* The update of a row that has been deleted is rejected.
RuleUpdateWrite(q) ==
    /\ At(q, "write")
    /\ LET n == req[q].id IN
       rule' = IF n \in Rules
               THEN [rule EXCEPT ![n] = Merged(rule[n], req[q].next, req[q].sent)]
               ELSE rule
    /\ Answer(q)
    /\ UNCHANGED rate

RuleRemove(x) ==
    /\ x \in Rules
    /\ rule' = [rule EXCEPT ![x] = NoRow]
    /\ Meet
    /\ UNCHANGED <<rate, req>>

-----------------------------------------------------------------------------
\* A faulty booking form that accepts rates that have been switched off.
BookRateAny(q) ==
    /\ \E r \in Rates, day \in Days :
         Begin(q, [op |-> "book", pc |-> "rules", rate |-> r, day |-> day,
                   base |-> rate[r].price])
    /\ UNCHANGED <<rate, rule>>

\* create in bookings.service.ts: the rate is read before the calendar ...
BookRate(q) ==
    /\ \E r \in Rates, day \in Days :
         /\ rate[r].active
         /\ Begin(q, [op |-> "book", pc |-> "rules", rate |-> r, day |-> day,
                      base |-> rate[r].price])
    /\ UNCHANGED <<rate, rule>>

\* ... the rules of the day of arrival after it ...
BookRules(q) ==
    /\ At(q, "rules")
    /\ \E final \in Quotes(req[q].rate, req[q].day, req[q].base) :
         Continue(q, [op |-> "book", pc |-> "enter", rate |-> req[q].rate,
                      day |-> req[q].day, base |-> req[q].base, final |-> final])
    /\ UNCHANGED <<rate, rule>>

\* ... and the row is entered with the price as it was then (its table: LodgingDb).
BookEnter(q) ==
    /\ At(q, "enter")
    /\ Answer(q)
    /\ UNCHANGED <<rate, rule>>

-----------------------------------------------------------------------------
Init ==
    /\ rate = [r \in RateIds |-> NoRow]
    /\ rule = [x \in RuleIds |-> NoRow]
    /\ req = [q \in Requests |-> Idle]
    /\ overlapped = FALSE

RateStep == \E r \in RateIds : RateCreate(r) \/ RateUpdate(r) \/ RateRemove(r)

EditStep(q) ==
    \/ RuleCreateCheck(q) \/ RuleCreateInsert(q)
    \/ RuleUpdateRead(q) \/ RuleUpdateCheck(q) \/ RuleUpdateWrite(q)

BookStep(q) == BookRate(q) \/ BookRules(q) \/ BookEnter(q)

Next ==
    \/ RateStep
    \/ \E x \in RuleIds : RuleRemove(x)
    \/ \E q \in Requests : EditStep(q) \/ BookStep(q) \/ Fail(q)

Spec == Init /\ [][Next]_vars

-----------------------------------------------------------------------------
Request ==
    [op: {"rule"}, pc: {"insert"}, row: RuleRow]
    \cup [op: {"rule"}, pc: {"recheck", "write"}, id: RuleIds, next: RuleRow,
          sent: SUBSET {"adjust", "active"}]
    \cup [op: {"book"}, pc: {"rules"}, rate: RateIds, day: Days, base: Nat]
    \cup [op: {"book"}, pc: {"enter"}, rate: RateIds, day: Days, base: Nat, final: Int]

\* The rates that rules are about, entered or in flight, exist.
RatesOf(r) ==
    IF r.pc = "insert" THEN {r.row.rate}
    ELSE IF r.op = "rule" THEN {r.next.rate}
    ELSE {r.rate}

References ==
    /\ \A x \in Rules : rule[x].rate \in Rates \cup {Null}
    /\ \A q \in Requests : Served(q) => RatesOf(req[q]) \subseteq Rates \cup {Null}

TypeOK ==
    /\ References
    /\ rate \in [RateIds -> RateRow \cup {NoRow}]
    /\ rule \in [RuleIds -> RuleRow \cup {NoRow}]
    /\ req \in [Requests -> Request \cup {Idle}]
    /\ overlapped \in BOOLEAN

(***************************************************************************)
(* What 'Date range overlaps with existing pricing rule' is about: however *)
(* rules are entered, moved to other dates or rates, switched off and on   *)
(* again, no two active rules of one scope share a day.                    *)
(***************************************************************************)
RulesApart ==
    \A x, y \in Rules :
        x # y /\ rule[x].active /\ rule[x].rate = rule[y].rate =>
            ~\E day \in Days : Covers(x, day) /\ Covers(y, day)

\* Money p is x hundredths of a percent of a cent to the nearest cent, half a cent away from zero.
Nearest(p, x) ==
    /\ -10000 <= 2 * (10000 * p - x) /\ 2 * (10000 * p - x) <= 10000
    /\ 2 * (10000 * p - x) = 10000 => x > 0
    /\ 2 * (10000 * p - x) = -10000 => x < 0

\* Price p is what adjustment adjust makes of base.
Worth(p, base, adjust) ==
    /\ adjust.type = "FIXED" => p = adjust.override
    /\ adjust.type = "PERCENT_INCREASE" => Nearest(p, base * (10000 + adjust.value))
    /\ adjust.type = "PERCENT_DECREASE" => Nearest(p, base * (10000 - adjust.value))

(***************************************************************************)
(* The price list: p is the price on that day of rate r, by every rule of  *)
(* the rate that covers the day, for want of one by every rule of the      *)
(* room, for want of both the base.                                        *)
(***************************************************************************)
Listed(p, r, day, base) ==
    LET InForce(scope) == {x \in Rules : Covers(x, day) /\ rule[x].rate = scope}
    IN  \/ InForce(r) # {} /\ \A x \in InForce(r) : Worth(p, base, rule[x].adjust)
        \/ /\ InForce(r) = {} /\ InForce(Null) # {}
           /\ \A x \in InForce(Null) : Worth(p, base, rule[x].adjust)
        \/ InForce(r) = {} /\ InForce(Null) = {} /\ p = base

(***************************************************************************)
(* Whatever row the database lists first, a quotation follows the price    *)
(* list at the moment the rules are read, also when rules, rates and other *)
(* bookings change while it is made.                                       *)
(***************************************************************************)
QuoteDetermined ==
    [][\A q \in Requests :
          At(q, "rules") /\ req'[q] # Idle /\ req'[q] # req[q] =>
              Listed(req'[q].final, req[q].rate, req[q].day, req[q].base)]_vars

(***************************************************************************)
(* When nothing has happened in between, a stay is entered at the listed   *)
(* price of a rate that is on sale.                                        *)
(***************************************************************************)
SoldAsListed ==
    \A q \in Requests :
        At(q, "enter") /\ ~overlapped =>
            /\ rate[req[q].rate].active
            /\ req[q].base = rate[req[q].rate].price
            /\ Listed(req[q].final, req[q].rate, req[q].day, rate[req[q].rate].price)

-----------------------------------------------------------------------------
(***************************************************************************)
(* Inductive strengthening of RulesApart while edits take turns: what a    *)
(* request is about to write is apart from every other rule, and its row,  *)
(* if it still exists, is as active as it was.                             *)
(***************************************************************************)
Apart(row, n) == \A x \in Rules \ {n} : ~Clash(rule[x], row)

EditFresh(q) ==
    /\ At(q, "insert") => \A x \in Rules : ~Clash(rule[x], req[q].row)
    /\ At(q, "write") => Apart(req[q].next, req[q].id)

OneEditor == \A p, q \in Requests : Editing(p) /\ Editing(q) => p = q

PricingInv ==
    /\ \A x, y \in Rules : x # y /\ rule[y].active => ~Clash(rule[x], rule[y])
    /\ OneEditor
    /\ \A q \in Requests : EditFresh(q)
==============================================================================
