---------------------------- MODULE PricingProofs ----------------------------
(***************************************************************************)
(* Theorems about Pricing: types, the overlap of rules and the quotation.  *)
(***************************************************************************)
EXTENDS Pricing, TLAPS

-----------------------------------------------------------------------------
(* Arithmetic *)

LEMMA CentsNearest ==
    ASSUME NEW x \in Int
    PROVE  Cents(x) \in Int /\ Nearest(Cents(x), x)
<1>1. CASE x >= 0
  <2> DEFINE p == (x + 5000) \div 10000
  <2>1. p \in Int /\ 10000 * p <= x + 5000 /\ x + 5000 < 10000 * p + 10000
    BY <1>1
  <2> HIDE DEF p
  <2>2. Nearest(p, x)
    BY <1>1, <2>1 DEF Nearest
  <2>3. QED
    BY <1>1, <2>1, <2>2 DEF Cents, p
<1>2. CASE ~(x >= 0)
  <2> DEFINE p == (5000 - x) \div 10000
  <2>1. p \in Int /\ 10000 * p <= 5000 - x /\ 5000 - x < 10000 * p + 10000
    BY <1>2
  <2> HIDE DEF p
  <2>2. Nearest(-p, x)
    BY <1>2, <2>1 DEF Nearest
  <2>3. QED
    BY <1>2, <2>1, <2>2 DEF Cents, p
<1>3. QED
  BY <1>1, <1>2

LEMMA PriceWorth ==
    ASSUME NEW base \in Nat, NEW adjust \in Adjustments
    PROVE  CalculatePrice(base, adjust) \in Int /\ Worth(CalculatePrice(base, adjust), base, adjust)
<1>1. adjust.type \in AdjustType /\ adjust.value \in Nat /\ adjust.override \in Nat
  BY PricingAssumption
<1> DEFINE up == base * (10000 + adjust.value)
           down == base * (10000 - adjust.value)
<1>2. up \in Int /\ down \in Int
  BY <1>1
<1> HIDE DEF up, down
<1>3. Cents(up) \in Int /\ Nearest(Cents(up), up) /\ Cents(down) \in Int /\ Nearest(Cents(down), down)
  BY <1>2, CentsNearest
<1>4. CASE adjust.type = "FIXED"
  BY <1>1, <1>4 DEF CalculatePrice, Worth
<1>5. CASE adjust.type = "PERCENT_INCREASE"
  BY <1>3, <1>5 DEF CalculatePrice, Worth, up
<1>6. CASE adjust.type = "PERCENT_DECREASE"
  BY <1>3, <1>6 DEF CalculatePrice, Worth, down
<1>7. QED
  BY <1>1, <1>4, <1>5, <1>6 DEF AdjustType

(***************************************************************************)
(* A reduction of at most 100 percent leaves a price between zero and the  *)
(* base.  The form does not demand at most 100 percent.                    *)
(***************************************************************************)
THEOREM DiscountWithinBase ==
    ASSUME NEW base \in Nat, NEW adjust \in Adjustments,
           adjust.type = "PERCENT_DECREASE", adjust.value <= 10000
    PROVE  CalculatePrice(base, adjust) \in 0..base
<1>1. adjust.value \in Nat
  BY PricingAssumption
<1> DEFINE x == base * (10000 - adjust.value)
<1>2. x \in Int /\ 0 <= x /\ x <= 10000 * base
  <2>1. base * adjust.value \in Nat /\ base * (10000 - adjust.value) \in Nat
    <3>1. \A a, b \in Nat : a * b \in Nat
      OBVIOUS
    <3>2. 10000 - adjust.value \in Nat
      BY <1>1
    <3>3. QED
      BY <1>1, <3>1, <3>2
  <2>2. base * (10000 - adjust.value) = 10000 * base - base * adjust.value
    BY <1>1
  <2>3. QED
    BY <2>1, <2>2
<1> HIDE DEF x
<1>3. Cents(x) \in Int /\ Nearest(Cents(x), x)
  BY <1>2, CentsNearest
<1>4. \A p \in Int : Nearest(p, x) => p \in 0..base
  BY <1>2 DEF Nearest
<1>5. CalculatePrice(base, adjust) = Cents(x)
  BY DEF CalculatePrice, x
<1>6. QED
  BY <1>3, <1>4, <1>5

-----------------------------------------------------------------------------
(* Types *)

\* No row and no request is taken for the absence of one.
LEMMA Absent ==
    /\ \A x \in RuleRow \cup RateRow : x # NoRow
    /\ \A r \in Request : r # Idle
  BY DEF RuleRow, RateRow, NoRow, Request, Idle

\* Rates are never deleted.
LEMMA RatesKept ==
    ASSUME TypeOK, [Next]_vars
    PROVE  Rates \subseteq Rates'
<1>1. CASE RateStep
  <2>1. PICK r \in RateIds : RateCreate(r) \/ RateUpdate(r) \/ RateRemove(r)
    BY <1>1 DEF RateStep
  <2>2. \A other \in RateIds \ {r} : rate'[other] = rate[other]
    BY <2>1 DEF RateCreate, RateUpdate, RateRemove, TypeOK
  <2>3. r \in Rates => rate'[r] \in RateRow
    <3>1. r \in Rates => rate[r] \in RateRow
      BY DEF TypeOK, Rates
    <3>2. r \in Rates => ~RateCreate(r)
      BY DEF RateCreate, Rates
    <3>3. QED
      BY <2>1, <3>1, <3>2 DEF RateUpdate, RateRemove, TypeOK, RateRow
  <2>4. QED
    BY <2>2, <2>3, Absent DEF Rates
<1>2. CASE UNCHANGED rate
  BY <1>2 DEF Rates
<1>3. QED
  BY <1>1, <1>2 DEF Next, vars, RuleRemove, EditStep, RuleCreateCheck, RuleCreateInsert,
     RuleUpdateRead, RuleUpdateCheck, RuleUpdateWrite, BookStep, BookRate, BookRules,
     BookEnter, Fail

\* The row an update writes.
LEMMA MergedRow ==
    ASSUME NEW next \in RuleRow, NEW old \in RuleRow, NEW sent
    PROVE  /\ Merged(old, next, sent) \in RuleRow
           /\ Merged(old, next, sent).rate = next.rate
  BY DEF RuleRow, Merged

LEMMA QuotesAreMoney ==
    ASSUME TypeOK, NEW r \in RateIds, NEW day \in Days, NEW base \in Nat,
           NEW final \in Quotes(r, day, base)
    PROVE  final \in Int
<1>1. \A x \in Rules : CalculatePrice(base, rule[x].adjust) \in Int
  <2>1. \A x \in Rules : rule[x].adjust \in Adjustments
    BY DEF TypeOK, Rules, RuleRow
  <2>2. QED
    BY <2>1, PriceWorth
<1>2. QED
  BY <1>1 DEF Quotes

\* What a request holds after it has been begun or has gone on.
LEMMA RequestStep ==
    ASSUME TypeOK, [Next]_vars, NEW q \in Requests, req'[q] # Idle, req'[q] # req[q]
    PROVE  req'[q] \in Request /\ RatesOf(req'[q]) \subseteq Rates \cup {Null}
<1> DEFINE Good(r) == r \in Request /\ RatesOf(r) \subseteq Rates \cup {Null}
<1>0. \A p \in Requests : \A next : req' = [req EXCEPT ![p] = next] => p = q /\ req'[q] = next
  BY DEF TypeOK
<1>1. ASSUME NEW p \in Requests, RuleCreateCheck(p) PROVE Good(req'[q])
  <2>1. PICK row \in RuleRow :
           /\ Valid(row)
           /\ req' = [req EXCEPT ![p] = [op |-> "rule", pc |-> "insert", row |-> row]]
    BY <1>1 DEF RuleCreateCheck, Begin
  <2>2. req'[q] = [op |-> "rule", pc |-> "insert", row |-> row]
    BY <1>0, <2>1
  <2>3. QED
    BY <2>1, <2>2 DEF Valid, Request, RatesOf
<1>2. ASSUME NEW p \in Requests, RuleUpdateRead(p) PROVE Good(req'[q])
  <2>1. PICK n \in Rules, next \in RuleRow, sent \in SUBSET {"adjust", "active"} :
           /\ Valid(next)
           /\ req' = [req EXCEPT ![p] = [op |-> "rule", pc |-> "recheck", id |-> n,
                                         next |-> next, sent |-> sent]]
    BY <1>2 DEF RuleUpdateRead, Begin
  <2>2. req'[q] = [op |-> "rule", pc |-> "recheck", id |-> n, next |-> next, sent |-> sent]
    BY <1>0, <2>1
  <2>3. QED
    BY <2>1, <2>2 DEF Valid, Request, RatesOf, Rules
<1>3. ASSUME NEW p \in Requests, RuleUpdateCheck(p) PROVE Good(req'[q])
  <2>1. At(p, "recheck") /\ p = q /\ req'[q] = [req[q] EXCEPT !.pc = "write"]
    BY <1>0, <1>3 DEF RuleUpdateCheck, Answer, Continue
  <2>2. req[q] \in Request /\ req[q].pc = "recheck" /\ Served(q)
    BY <2>1 DEF At, Served, TypeOK
  <2>3. req[q] \in [op: {"rule"}, pc: {"recheck", "write"}, id: RuleIds, next: RuleRow,
                    sent: SUBSET {"adjust", "active"}]
    BY <2>2 DEF Request
  <2>4. /\ req'[q] \in Request /\ req'[q].op = "rule" /\ req'[q].pc = "write"
        /\ req'[q].next = req[q].next /\ req[q].op = "rule"
    BY <2>1, <2>3 DEF Request
  <2>5. RatesOf(req[q]) = {req[q].next.rate} /\ RatesOf(req'[q]) = {req[q].next.rate}
    BY <2>2, <2>4 DEF RatesOf
  <2>6. QED
    BY <2>2, <2>4, <2>5 DEF TypeOK, References
<1>4. ASSUME NEW p \in Requests, BookRate(p) PROVE Good(req'[q])
  <2>1. PICK r \in Rates, day \in Days :
           req' = [req EXCEPT ![p] = [op |-> "book", pc |-> "rules", rate |-> r, day |-> day,
                                     base |-> rate[r].price]]
    BY <1>4 DEF BookRate, Begin
  <2>2. req'[q] = [op |-> "book", pc |-> "rules", rate |-> r, day |-> day,
                   base |-> rate[r].price]
    BY <1>0, <2>1
  <2>3. r \in RateIds /\ rate[r].price \in Nat
    BY PricingAssumption DEF Rates, TypeOK, RateRow
  <2>4. QED
    BY <2>2, <2>3 DEF Request, RatesOf
<1>5. ASSUME NEW p \in Requests, BookRules(p) PROVE Good(req'[q])
  <2>1. /\ At(p, "rules") /\ p = q
        /\ \E final \in Quotes(req[q].rate, req[q].day, req[q].base) :
             req'[q] = [op |-> "book", pc |-> "enter", rate |-> req[q].rate,
                        day |-> req[q].day, base |-> req[q].base, final |-> final]
    BY <1>0, <1>5 DEF BookRules, Continue
  <2>2. req[q] \in Request /\ req[q].pc = "rules" /\ Served(q)
    BY <2>1 DEF At, Served, TypeOK
  <2>3. req[q] \in [op: {"book"}, pc: {"rules"}, rate: RateIds, day: Days, base: Nat]
    BY <2>2 DEF Request
  <2>4. RatesOf(req[q]) = {req[q].rate}
    BY <2>3 DEF RatesOf
  <2>5. req[q].rate \in Rates \cup {Null}
    BY <2>2, <2>4 DEF TypeOK, References
  <2>6. QED
    BY <2>1, <2>3, <2>5, QuotesAreMoney DEF Request, RatesOf
<1>6. ASSUME NEW p \in Requests, Answer(p) PROVE FALSE
  BY <1>0, <1>6 DEF Answer, Continue
<1>7. req' # req
  OBVIOUS
<1>8. QED
  BY <1>1, <1>2, <1>3, <1>4, <1>5, <1>6, <1>7 DEF Next, vars, RateStep, RateCreate, RateUpdate,
     RateRemove, RuleRemove, EditStep, RuleCreateInsert, RuleUpdateWrite, BookStep,
     BookEnter, Fail

\* The steps that write a rule.
LEMMA WritersOfRules ==
    ASSUME [Next]_vars
    PROVE  \/ \E q \in Requests : RuleCreateInsert(q) \/ RuleUpdateWrite(q)
           \/ \E x \in RuleIds : RuleRemove(x)
           \/ rule' = rule
  BY DEF Next, vars, RateStep, RateCreate, RateUpdate, RateRemove, EditStep,
     RuleCreateCheck, RuleUpdateRead, RuleUpdateCheck, BookStep, BookRate, BookRules,
     BookEnter, Fail

\* What a rule is after a step.
LEMMA RuleStep ==
    ASSUME TypeOK, [Next]_vars
    PROVE  /\ rule' \in [RuleIds -> RuleRow \cup {NoRow}]
           /\ \A x \in Rules' : rule'[x].rate \in Rates \cup {Null}
<1> DEFINE Good == /\ rule' \in [RuleIds -> RuleRow \cup {NoRow}]
                   /\ \A x \in RuleIds : rule'[x] # NoRow => rule'[x].rate \in Rates \cup {Null}
<1>0. \A n \in RuleIds, row \in RuleRow :
         rule' = [rule EXCEPT ![n] = row] /\ row.rate \in Rates \cup {Null} => Good
  BY DEF TypeOK, References, Rules
<1>1. ASSUME NEW q \in Requests, RuleCreateInsert(q) PROVE Good
  <2>1. PICK n \in RuleIds : rule' = [rule EXCEPT ![n] = req[q].row]
    BY <1>1 DEF RuleCreateInsert
  <2>2. req[q] \in Request /\ req[q].pc = "insert" /\ Served(q)
    BY <1>1 DEF RuleCreateInsert, At, Served, TypeOK
  <2>3. req[q].row \in RuleRow /\ RatesOf(req[q]) = {req[q].row.rate}
    BY <2>2 DEF Request, RatesOf
  <2>4. req[q].row.rate \in Rates \cup {Null}
    BY <2>2, <2>3 DEF TypeOK, References
  <2> HIDE DEF Good
  <2>5. QED
    BY <1>0, <2>1, <2>3, <2>4
<1>2. ASSUME NEW q \in Requests, RuleUpdateWrite(q) PROVE Good
  <2>1. req[q] \in Request /\ req[q].pc = "write" /\ Served(q)
    BY <1>2 DEF RuleUpdateWrite, At, Served, TypeOK
  <2>2. /\ req[q].id \in RuleIds /\ req[q].next \in RuleRow /\ req[q].op = "rule"
        /\ RatesOf(req[q]) = {req[q].next.rate}
    BY <2>1 DEF Request, RatesOf
  <2>3. req[q].next.rate \in Rates \cup {Null}
    BY <2>1, <2>2 DEF TypeOK, References
  <2>4. CASE req[q].id \in Rules
    <3> DEFINE new == Merged(rule[req[q].id], req[q].next, req[q].sent)
    <3>1. rule' = [rule EXCEPT ![req[q].id] = new]
      BY <1>2, <2>4 DEF RuleUpdateWrite
    <3>2. rule[req[q].id] \in RuleRow
      BY <2>4 DEF TypeOK, Rules
    <3>3. new \in RuleRow /\ new.rate = req[q].next.rate
      BY <2>2, <3>2, MergedRow
    <3> HIDE DEF new, Good
    <3>4. QED
      BY <1>0, <2>2, <2>3, <3>1, <3>3
  <2>5. CASE req[q].id \notin Rules
    BY <1>2, <2>5 DEF RuleUpdateWrite, TypeOK, References, Rules
  <2>6. QED
    BY <2>4, <2>5
<1>3. ASSUME NEW x \in RuleIds, RuleRemove(x) PROVE Good
  BY <1>3 DEF RuleRemove, TypeOK, References, Rules
<1>4. ASSUME rule' = rule PROVE Good
  BY <1>4 DEF TypeOK, References, Rules
<1>5. Good
  <2>1. \/ \E q \in Requests : RuleCreateInsert(q) \/ RuleUpdateWrite(q)
        \/ \E x \in RuleIds : RuleRemove(x)
        \/ rule' = rule
    BY WritersOfRules
  <2> HIDE DEF Good
  <2>2. CASE \E q \in Requests : RuleCreateInsert(q) \/ RuleUpdateWrite(q)
    BY <1>1, <1>2, <2>2
  <2>3. CASE \E x \in RuleIds : RuleRemove(x)
    BY <1>3, <2>3
  <2>4. QED
    BY <1>4, <2>1, <2>2, <2>3
<1>6. QED
  BY <1>5 DEF Rules

LEMMA RateStepTyped ==
    ASSUME TypeOK, [Next]_vars
    PROVE  rate' \in [RateIds -> RateRow \cup {NoRow}]
<1>1. ASSUME NEW r \in RateIds, RateCreate(r) \/ RateUpdate(r)
      PROVE  rate' \in [RateIds -> RateRow \cup {NoRow}]
  <2>1. \A price \in Prices : [price |-> price, active |-> TRUE] \in RateRow
    BY DEF RateRow
  <2>2. PICK row \in RateRow : rate' = [rate EXCEPT ![r] = row]
    <3>1. CASE RateCreate(r)
      <4>1. PICK price \in Prices :
               rate' = [rate EXCEPT ![r] = [price |-> price, active |-> TRUE]]
        BY <3>1 DEF RateCreate
      <4>2. QED
        BY <2>1, <4>1
    <3>2. CASE RateUpdate(r)
      BY <3>2 DEF RateUpdate
    <3>3. QED
      BY <1>1, <3>1, <3>2
  <2>3. QED
    BY <2>2 DEF TypeOK
<1>2. ASSUME NEW r \in RateIds, RateRemove(r)
      PROVE  rate' \in [RateIds -> RateRow \cup {NoRow}]
  <2>1. rate[r] \in RateRow
    BY <1>2 DEF RateRemove, Rates, TypeOK
  <2>2. [rate[r] EXCEPT !.active = FALSE] \in RateRow
    BY <2>1 DEF RateRow
  <2>3. QED
    BY <1>2, <2>2 DEF RateRemove, TypeOK
<1>3. QED
  BY <1>1, <1>2 DEF Next, vars, RateStep, RuleRemove, EditStep, RuleCreateCheck,
     RuleCreateInsert, RuleUpdateRead, RuleUpdateCheck, RuleUpdateWrite, BookStep,
     BookRate, BookRules, BookEnter, Fail, TypeOK

LEMMA PricingTypeInit == Init => TypeOK
  BY DEF Init, TypeOK, References, Rules, Served

LEMMA PricingTypeStep ==
    ASSUME TypeOK, [Next]_vars
    PROVE  TypeOK'
<1>1. req' \in [Requests -> Request \cup {Idle}]
  <2>1. \A q \in Requests : req'[q] \in Request \cup {Idle}
    BY RequestStep DEF TypeOK
  <2>2. req' = req \/ \E q \in Requests : \E next : req' = [req EXCEPT ![q] = next]
    BY DEF Next, vars, RateStep, RateCreate, RateUpdate, RateRemove, RuleRemove, EditStep,
       RuleCreateCheck, RuleCreateInsert, RuleUpdateRead, RuleUpdateCheck, RuleUpdateWrite,
       BookStep, BookRate, BookRules, BookEnter, Fail, Begin, Continue, Answer
  <2>3. QED
    BY <2>1, <2>2 DEF TypeOK
<1>2. overlapped' \in BOOLEAN
  BY DEF Next, vars, RateStep, RateCreate, RateUpdate, RateRemove, RuleRemove, EditStep,
     RuleCreateCheck, RuleCreateInsert, RuleUpdateRead, RuleUpdateCheck, RuleUpdateWrite,
     BookStep, BookRate, BookRules, BookEnter, Fail, Begin, Continue, Answer, Meet, TypeOK
<1>3. \A q \in Requests : Served(q)' => RatesOf(req'[q]) \subseteq Rates \cup {Null}
  BY RequestStep DEF TypeOK, References, Served
<1>4. References'
  BY <1>3, RuleStep, RatesKept DEF References
<1>5. QED
  BY <1>1, <1>2, <1>4, RuleStep, RateStepTyped DEF TypeOK

(***************************************************************************)
(* Whatever overlaps, every rule and every request is about rates that      *)
(* exist, and every price quoted is an amount of cents.                    *)
(***************************************************************************)
THEOREM PricingTypeCorrect == Spec => []TypeOK
<1>1. TypeOK /\ [Next]_vars => TypeOK'
  BY PricingTypeStep
<1>2. QED
  BY <1>1, PricingTypeInit, PTL DEF Spec

-----------------------------------------------------------------------------
(* Rules that do not overlap *)

\* How a request comes to where it is about to write.
LEMMA Editors ==
    ASSUME TypeOK, TypeOK', [Next]_vars, NEW q \in Requests, req'[q] # req[q]
    PROVE  /\ At(q, "insert")' => RuleCreateCheck(q)
           /\ At(q, "write")' => RuleUpdateCheck(q)
           /\ Editing(q)' => Editing(q) \/ RuleCreateCheck(q) \/ RuleUpdateRead(q)
<1>0. \A p \in Requests : \A next : req' = [req EXCEPT ![p] = next] => p = q /\ req'[q] = next
  BY DEF TypeOK
<1>1. req'[q] = Idle => ~Served(q)'
  BY DEF Served
<1>2. ASSUME RuleUpdateRead(q) \/ BookRate(q) \/ BookRules(q)
      PROVE  ~At(q, "insert")' /\ ~At(q, "write")'
  BY <1>0, <1>2 DEF RuleUpdateRead, BookRate, BookRules, Begin, Continue, At
<1>3. ASSUME BookRate(q) \/ BookRules(q) PROVE ~Editing(q)'
  BY <1>0, <1>3 DEF BookRate, BookRules, Begin, Continue, Editing
<1>4. ASSUME RuleCreateCheck(q) PROVE ~At(q, "write")'
  BY <1>0, <1>4 DEF RuleCreateCheck, Begin, At
<1>5. ASSUME RuleUpdateCheck(q) PROVE Editing(q) /\ ~At(q, "insert")'
  <2>1. req[q] \in Request /\ req[q].pc = "recheck" /\ Served(q)
    BY <1>5 DEF RuleUpdateCheck, At, Served, TypeOK
  <2>2. req[q] \in [op: {"rule"}, pc: {"recheck", "write"}, id: RuleIds, next: RuleRow,
                    sent: SUBSET {"adjust", "active"}]
    BY <2>1 DEF Request
  <2>3. [req[q] EXCEPT !.pc = "write"].pc = "write"
    BY <2>2
  <2>4. req'[q] = Idle \/ req'[q] = [req[q] EXCEPT !.pc = "write"]
    BY <1>0, <1>5 DEF RuleUpdateCheck, Answer, Continue
  <2>5. QED
    BY <1>1, <2>1, <2>2, <2>3, <2>4 DEF Editing, At
<1>6. \A p \in Requests : Answer(p) => req'[q] = Idle
  BY <1>0 DEF Answer, Continue
<1>7. \/ RuleCreateCheck(q) \/ RuleUpdateRead(q) \/ RuleUpdateCheck(q)
      \/ BookRate(q) \/ BookRules(q) \/ req'[q] = Idle
  <2>1. \A p \in Requests :
           RuleCreateCheck(p) \/ RuleUpdateRead(p) \/ RuleUpdateCheck(p)
             \/ BookRate(p) \/ BookRules(p) => p = q
    BY <1>0 DEF RuleCreateCheck, RuleUpdateRead, RuleUpdateCheck, BookRate, BookRules,
       Begin, Continue, Answer
  <2>2. QED
    BY <1>6, <2>1 DEF Next, vars, RateStep, RateCreate, RateUpdate, RateRemove, RuleRemove,
       EditStep, RuleCreateInsert, RuleUpdateWrite, BookStep, BookEnter, Fail
<1>8. At(q, "insert")' \/ At(q, "write")' \/ Editing(q)' => Served(q)'
  BY DEF At, Editing
<1>9. QED
  BY <1>1, <1>2, <1>3, <1>4, <1>5, <1>7, <1>8

\* Who is about to write is an editor.
LEMMA WritersEdit ==
    ASSUME TypeOK, NEW q \in Requests, At(q, "insert") \/ At(q, "write")
    PROVE  Editing(q)
  BY DEF At, Editing, Served, TypeOK, Request

LEMMA OneEditorStep ==
    ASSUME RulesTakeTurns, TypeOK, TypeOK', OneEditor, [Next]_vars
    PROVE  OneEditor'
<1> SUFFICES ASSUME NEW p \in Requests, NEW q \in Requests, Editing(p)', Editing(q)', p # q
             PROVE  FALSE
  BY DEF OneEditor
<1>1. ASSUME NEW a \in Requests, NEW b \in Requests, a # b, Editing(a)', Editing(b)', ~Editing(a)
      PROVE  FALSE
  <2>1. req'[a] # req[a]
    BY <1>1 DEF Editing, Served
  <2>2. RuleCreateCheck(a) \/ RuleUpdateRead(a)
    BY <1>1, <2>1, Editors
  <2>3. ~Editing(b) /\ req'[b] = req[b]
    BY <1>1, <2>2 DEF RuleCreateCheck, RuleUpdateRead, MayEdit, Begin, TypeOK
  <2>4. QED
    BY <1>1, <2>3 DEF Editing, Served
<1>2. QED
  BY <1>1 DEF OneEditor

LEMMA ClashSymmetric ==
    ASSUME NEW x \in RuleRow, NEW y \in RuleRow, x.active, y.active, Clash(x, y)
    PROVE  Clash(y, x)
  BY PricingAssumption DEF Clash, RuleRow

\* No rule clashes with an active one.
ClashFree == \A x, y \in Rules : x # y /\ rule[y].active => ~Clash(rule[x], rule[y])

\* Putting a row that clashes with no other rule in place n.
LEMMA PutKeepsClashFree ==
    ASSUME TypeOK, ClashFree, NEW n \in RuleIds, NEW row \in RuleRow,
           \A x \in Rules \ {n} : ~Clash(rule[x], row),
           rule' = [rule EXCEPT ![n] = row]
    PROVE  ClashFree'
<1> SUFFICES ASSUME NEW x \in Rules', NEW y \in Rules', x # y, rule'[y].active,
                    Clash(rule'[x], rule'[y])
             PROVE  FALSE
  BY DEF ClashFree, Clash
<1>0. \A z \in RuleIds \ {n} : rule'[z] = rule[z]
  BY DEF TypeOK
<1>1. rule'[n] = row
  BY DEF TypeOK
<1>2. x \in RuleIds /\ y \in RuleIds /\ rule'[x].active
  BY DEF Rules, Clash
<1>3. CASE x # n /\ y # n
  <2>1. x \in Rules /\ y \in Rules /\ rule'[x] = rule[x] /\ rule'[y] = rule[y]
    BY <1>0, <1>2, <1>3 DEF Rules
  <2>2. QED
    BY <2>1 DEF ClashFree
<1>4. CASE y = n
  <2>1. x \in Rules \ {n} /\ rule'[x] = rule[x]
    BY <1>0, <1>2, <1>4 DEF Rules
  <2>2. QED
    BY <1>1, <1>4, <2>1
<1>5. CASE x = n
  <2>1. y \in Rules \ {n} /\ rule'[y] = rule[y]
    BY <1>0, <1>2, <1>5 DEF Rules
  <2>2. rule[y] \in RuleRow
    BY <2>1 DEF TypeOK, Rules
  <2>3. Clash(rule[y], row)
    BY <1>1, <1>2, <1>5, <2>1, <2>2, ClashSymmetric
  <2>4. QED
    BY <2>1, <2>3
<1>6. QED
  BY <1>3, <1>4, <1>5

LEMMA ClashFreeStep ==
    ASSUME TypeOK, PricingInv, [Next]_vars
    PROVE  ClashFree'
<1>0. ClashFree
  BY DEF PricingInv, ClashFree
<1>1. ASSUME NEW q \in Requests, RuleCreateInsert(q) PROVE ClashFree'
  <2>1. PICK n \in RuleIds : rule[n] = NoRow /\ rule' = [rule EXCEPT ![n] = req[q].row]
    BY <1>1 DEF RuleCreateInsert
  <2>2. req[q] \in Request /\ req[q].pc = "insert"
    BY <1>1 DEF RuleCreateInsert, At, Served, TypeOK
  <2>3. req[q].row \in RuleRow
    BY <2>2 DEF Request
  <2>4. \A x \in Rules \ {n} : ~Clash(rule[x], req[q].row)
    BY <1>1 DEF RuleCreateInsert, PricingInv, EditFresh
  <2>5. QED
    BY <1>0, <2>1, <2>3, <2>4, PutKeepsClashFree
<1>2. ASSUME NEW q \in Requests, RuleUpdateWrite(q), req[q].id \in Rules PROVE ClashFree'
  <2> DEFINE n == req[q].id
             row == Merged(rule[n], req[q].next, req[q].sent)
  <2>1. rule' = [rule EXCEPT ![n] = row]
    BY <1>2 DEF RuleUpdateWrite
  <2>2. req[q] \in Request /\ req[q].pc = "write"
    BY <1>2 DEF RuleUpdateWrite, At, Served, TypeOK
  <2>3. req[q].next \in RuleRow /\ rule[n] \in RuleRow /\ n \in RuleIds
    BY <1>2, <2>2 DEF Request, Rules, TypeOK
  <2>4. row \in RuleRow
    BY <2>3, MergedRow
  <2>5. \A x \in Rules \ {n} : ~Clash(rule[x], req[q].next)
    BY <1>2 DEF RuleUpdateWrite, PricingInv, EditFresh, Apart
  <2>6. row.rate = req[q].next.rate /\ row.start = req[q].next.start /\ row.end = req[q].next.end
    BY DEF Merged
  <2>7. \A x \in Rules \ {n} : ~Clash(rule[x], row)
    BY <2>5, <2>6 DEF Clash
  <2> HIDE DEF n, row
  <2>8. QED
    BY <1>0, <2>1, <2>3, <2>4, <2>7, PutKeepsClashFree
<1>3. ASSUME NEW q \in Requests, RuleUpdateWrite(q), req[q].id \notin Rules PROVE rule' = rule
  BY <1>3 DEF RuleUpdateWrite
<1>4. ASSUME NEW n \in RuleIds, RuleRemove(n) PROVE ClashFree'
  <2>1. rule' = [rule EXCEPT ![n] = NoRow]
    BY <1>4 DEF RuleRemove
  <2>2. \A x \in Rules' : x \in Rules /\ rule'[x] = rule[x]
    BY <2>1 DEF Rules, TypeOK
  <2>3. QED
    BY <1>0, <2>2 DEF ClashFree, Clash
<1>5. ASSUME rule' = rule PROVE ClashFree'
  BY <1>0, <1>5 DEF ClashFree, Clash, Rules
<1>6. QED
  BY <1>1, <1>2, <1>3, <1>4, <1>5, WritersOfRules

LEMMA EditFreshStep ==
    ASSUME TypeOK, TypeOK', PricingInv, [Next]_vars, NEW q \in Requests
    PROVE  EditFresh(q)'
<1>1. CASE rule' = rule
  <2>1. CASE req'[q] = req[q]
    BY <1>1, <2>1 DEF PricingInv, EditFresh, Apart, At, Served, Rules, Clash
  <2>2. CASE req'[q] # req[q]
    <3>1. ASSUME At(q, "insert")' PROVE \A x \in Rules' : ~Clash(rule[x], req'[q].row)
      <4>1. RuleCreateCheck(q)
        BY <2>2, <3>1, Editors
      <4>2. PICK row \in RuleRow :
               /\ ~\E x \in Rules : Clash(rule[x], row)
               /\ req'[q] = [op |-> "rule", pc |-> "insert", row |-> row]
        BY <4>1 DEF RuleCreateCheck, Begin, TypeOK
      <4>3. QED
        BY <1>1, <4>2 DEF Rules
    <3>2. ASSUME At(q, "write")'
          PROVE  \A x \in Rules' \ {req'[q].id} : ~Clash(rule[x], req'[q].next)
      <4>1. RuleUpdateCheck(q)
        BY <2>2, <3>2, Editors
      <4>2. req[q] \in Request /\ req[q].pc = "recheck"
        BY <4>1 DEF RuleUpdateCheck, At, Served, TypeOK
      <4>3. req[q] \in [op: {"rule"}, pc: {"recheck", "write"}, id: RuleIds, next: RuleRow,
                        sent: SUBSET {"adjust", "active"}]
        BY <4>2 DEF Request
      <4>4. ~Answer(q)
        BY <3>2 DEF Answer, Continue, At, Served, TypeOK
      <4>5. /\ req'[q] = [req[q] EXCEPT !.pc = "write"]
            /\ \A x \in Rules \ {req[q].id} : ~Clash(rule[x], req[q].next)
        BY <4>1, <4>4 DEF RuleUpdateCheck, Continue, TypeOK
      <4>6. req'[q].id = req[q].id /\ req'[q].next = req[q].next
        BY <4>3, <4>5
      <4>7. QED
        BY <1>1, <4>5, <4>6 DEF Rules
    <3>3. QED
      BY <1>1, <3>1, <3>2 DEF EditFresh, Apart, Clash
  <2>3. QED
    BY <2>1, <2>2
<1>2. ASSUME NEW p \in Requests, RuleCreateInsert(p) \/ RuleUpdateWrite(p) PROVE EditFresh(q)'
  <2>1. Answer(p) /\ (At(p, "insert") \/ At(p, "write"))
    BY <1>2 DEF RuleCreateInsert, RuleUpdateWrite
  <2>2. req' = [req EXCEPT ![p] = Idle]
    BY <2>1 DEF Answer, Continue
  <2>3. CASE q = p
    BY <2>2, <2>3 DEF EditFresh, At, Served, TypeOK
  <2>4. CASE q # p
    <3>1. req'[q] = req[q]
      BY <2>2, <2>4 DEF TypeOK
    <3>2. ~At(q, "insert") /\ ~At(q, "write")
      BY <2>1, <2>4, WritersEdit DEF PricingInv, OneEditor
    <3>3. QED
      BY <3>1, <3>2 DEF EditFresh, At, Served
  <2>5. QED
    BY <2>3, <2>4
<1>3. ASSUME NEW n \in RuleIds, RuleRemove(n) PROVE EditFresh(q)'
  <2>1. req' = req /\ \A x \in Rules' : x \in Rules /\ rule'[x] = rule[x]
    BY <1>3 DEF RuleRemove, Rules, TypeOK
  <2>2. QED
    BY <2>1 DEF PricingInv, EditFresh, Apart, At, Served, Clash
<1>4. QED
  BY <1>1, <1>2, <1>3, WritersOfRules

(***************************************************************************)
(* While one request at a time edits the rules of a room, what it is about *)
(* to write clashes with no rule, whatever bookings, rates and removals do *)
(* in the meantime.                                                        *)
(***************************************************************************)
THEOREM PricingSound == RulesTakeTurns => (Spec => []PricingInv)
<1> SUFFICES ASSUME RulesTakeTurns PROVE Spec => []PricingInv
  OBVIOUS
<1>1. Init => PricingInv
  BY DEF Init, PricingInv, OneEditor, EditFresh, Editing, At, Served, Rules
<1>2. TypeOK /\ TypeOK' /\ PricingInv /\ [Next]_vars => PricingInv'
  BY OneEditorStep, ClashFreeStep, EditFreshStep DEF PricingInv, ClashFree
<1>3. QED
  BY <1>1, <1>2, PricingTypeCorrect, PTL DEF Spec

\* Two active rules of one scope that cover the same day clash.
LEMMA CoveredTwice ==
    ASSUME TypeOK, NEW x \in Rules, NEW y \in Rules, rule[x].rate = rule[y].rate,
           NEW day \in Days, Covers(x, day), Covers(y, day)
    PROVE  Clash(rule[x], rule[y])
<1>1. rule[x] \in RuleRow /\ rule[y] \in RuleRow
  BY DEF TypeOK, Rules
<1>2. /\ day \in Int
      /\ rule[x].start \in Int /\ rule[x].end \in Int
      /\ rule[y].start \in Int /\ rule[y].end \in Int
  BY <1>1, PricingAssumption DEF RuleRow
<1>3. QED
  BY <1>2 DEF Clash, Covers

\* The strengthening says at least what RulesApart says.
LEMMA SoundIsApart == TypeOK /\ PricingInv => RulesApart
  BY CoveredTwice DEF PricingInv, RulesApart, Covers

(***************************************************************************)
(* While one request at a time edits the rules of a room, no two active    *)
(* rules of one scope share a day, for any days, rates and adjustments.    *)
(***************************************************************************)
THEOREM RulesStayApart == RulesTakeTurns => (Spec => []RulesApart)
  BY PricingSound, PricingTypeCorrect, SoundIsApart, PTL

\* With the rules apart, whichever rule find takes, its price is the listed one.
LEMMA QuotesAreListed ==
    ASSUME TypeOK, RulesApart, NEW r \in RateIds, NEW day \in Days, NEW base \in Nat,
           NEW final \in Quotes(r, day, base)
    PROVE  Listed(final, r, day, base)
<1> DEFINE InForce(scope) == {x \in Rules : Covers(x, day) /\ rule[x].rate = scope}
<1>1. \A scope : \A x, y \in InForce(scope) : x = y
  BY DEF RulesApart, Covers
<1>2. \A x \in Rules : rule[x].adjust \in Adjustments
  BY DEF TypeOK, Rules, RuleRow
<1>3. \A x \in Rules : Worth(CalculatePrice(base, rule[x].adjust), base, rule[x].adjust)
  BY <1>2, PriceWorth
<1>4. ASSUME NEW scope, NEW x \in InForce(scope), final = CalculatePrice(base, rule[x].adjust)
      PROVE  \A y \in InForce(scope) : Worth(final, base, rule[y].adjust)
  BY <1>1, <1>3, <1>4
<1>5. CASE InForce(r) # {}
  <2>1. PICK x \in InForce(r) : final = CalculatePrice(base, rule[x].adjust)
    BY <1>5 DEF Quotes
  <2>2. QED
    BY <1>4, <1>5, <2>1 DEF Listed
<1>6. CASE InForce(r) = {} /\ InForce(Null) # {}
  <2>1. PICK x \in InForce(Null) : final = CalculatePrice(base, rule[x].adjust)
    BY <1>6 DEF Quotes
  <2>2. QED
    BY <1>4, <1>6, <2>1 DEF Listed
<1>7. CASE InForce(r) = {} /\ InForce(Null) = {}
  BY <1>7 DEF Quotes, Listed
<1>8. QED
  BY <1>5, <1>6, <1>7

\* The booking form asks for one rate, not for all.
LEMMA BookRulesStep ==
    ASSUME TypeOK, RulesApart, [Next]_vars, NEW q \in Requests,
           At(q, "rules"), req'[q] # Idle, req'[q] # req[q]
    PROVE  Listed(req'[q].final, req[q].rate, req[q].day, req[q].base)
<1>1. req[q] \in [op: {"book"}, pc: {"rules"}, rate: RateIds, day: Days, base: Nat]
  BY DEF TypeOK, At, Served, Request
<1>2. BookRules(q)
  <2>1. \A p \in Requests : \A next : req' = [req EXCEPT ![p] = next] => p = q /\ next # Idle
    BY DEF TypeOK
  <2>2. req' # req
    OBVIOUS
  <2>3. Served(q) /\ req[q].pc = "rules"
    BY DEF At
  <2>4. ASSUME NEW p \in Requests, EditStep(p) PROVE FALSE
    <3>1. p = q
      BY <2>1, <2>4 DEF EditStep, RuleCreateCheck, RuleCreateInsert, RuleUpdateRead,
         RuleUpdateCheck, RuleUpdateWrite, Begin, Answer, Continue
    <3>2. ~At(q, "insert") /\ ~At(q, "recheck") /\ ~At(q, "write")
      BY <2>3 DEF At
    <3>3. QED
      BY <2>3, <2>4, <3>1, <3>2 DEF EditStep, RuleCreateCheck, RuleCreateInsert,
         RuleUpdateRead, RuleUpdateCheck, RuleUpdateWrite, Begin
  <2>5. ASSUME NEW p \in Requests, BookStep(p) PROVE BookRules(q)
    <3>1. p = q
      BY <2>1, <2>5 DEF BookStep, BookRate, BookRules, BookEnter, Begin, Answer, Continue
    <3>2. ~At(q, "enter")
      BY <2>3 DEF At
    <3>3. QED
      BY <2>3, <2>5, <3>1, <3>2 DEF BookStep, BookRate, BookEnter, Begin
  <2>6. ASSUME NEW p \in Requests, Fail(p) PROVE FALSE
    BY <2>1, <2>6 DEF Fail, Answer, Continue
  <2>7. QED
    BY <2>2, <2>4, <2>5, <2>6 DEF Next, vars, RateStep, RateCreate, RateUpdate, RateRemove,
       RuleRemove
<1>3. PICK final \in Quotes(req[q].rate, req[q].day, req[q].base) : req'[q].final = final
  BY <1>2 DEF BookRules, Continue, TypeOK
<1>4. QED
  BY <1>1, <1>3, QuotesAreListed

(***************************************************************************)
(* While one request at a time edits the rules of a room, the price that a *)
(* booking is quoted does not depend on the order in which the database    *)
(* lists the rules, and is the price the list has for the rate and day.    *)
(***************************************************************************)
THEOREM QuotesDetermined == RulesTakeTurns => (Spec => QuoteDetermined)
<1> SUFFICES ASSUME RulesTakeTurns PROVE Spec => QuoteDetermined
  OBVIOUS
<1>1. TypeOK /\ RulesApart /\ [Next]_vars =>
        [\A q \in Requests :
            At(q, "rules") /\ req'[q] # Idle /\ req'[q] # req[q] =>
                Listed(req'[q].final, req[q].rate, req[q].day, req[q].base)]_vars
  BY BookRulesStep
<1>2. QED
  BY <1>1, PricingTypeCorrect, RulesStayApart, PTL DEF Spec, QuoteDetermined

-----------------------------------------------------------------------------
\* While nothing overlaps there is one request, and what it has read is still so.
Alone == ~overlapped => \A p, q \in Requests : Served(p) /\ Served(q) => p = q

RateHeld == \A q \in Requests :
    At(q, "rules") /\ ~overlapped =>
        rate[req[q].rate].active /\ req[q].base = rate[req[q].rate].price

\* A step either meets no request and begins at most one, or is the next one of a request.
LEMMA LonelyStep ==
    ASSUME TypeOK, Alone, [Next]_vars, ~overlapped'
    PROVE  /\ ~overlapped
           /\ \/ \A p \in Requests : ~Served(p) /\ req'[p] = Idle
              \/ \E q \in Requests :
                    /\ \A p \in Requests \ {q} : ~Served(p) /\ req'[p] = Idle
                    /\ ~Served(q)
                    /\ rate' = rate /\ rule' = rule
                    /\ \/ BookRate(q)
                       \/ Served(q)' /\ req'[q].op = "rule"
              \/ \E q \in Requests :
                    /\ \A p \in Requests \ {q} : ~Served(p) /\ req'[p] = Idle
                    /\ rate' = rate
                    /\ \/ req'[q] = Idle
                       \/ BookRules(q)
                       \/ RuleUpdateCheck(q)
              \/ UNCHANGED vars
<1>0. overlapped \in BOOLEAN /\ req \in [Requests -> Request \cup {Idle}]
  BY DEF TypeOK
<1>1. ASSUME Meet PROVE ~overlapped /\ \A p \in Requests : ~Served(p)
  BY <1>1 DEF Meet
<1>2. ASSUME RateStep \/ \E x \in RuleIds : RuleRemove(x)
      PROVE  ~overlapped /\ \A p \in Requests : ~Served(p) /\ req'[p] = Idle
  <2>1. Meet /\ req' = req
    BY <1>2 DEF RateStep, RateCreate, RateUpdate, RateRemove, RuleRemove
  <2>2. QED
    BY <1>1, <2>1 DEF Served
<1>3. ASSUME NEW q \in Requests, NEW first, Begin(q, first)
      PROVE  /\ ~overlapped /\ ~Served(q) /\ req'[q] = first
             /\ \A p \in Requests \ {q} : ~Served(p) /\ req'[p] = Idle
  <2>1. Meet /\ req' = [req EXCEPT ![q] = first]
    BY <1>3 DEF Begin
  <2>2. QED
    BY <1>0, <1>1, <2>1 DEF Served
<1>4. ASSUME NEW q \in Requests, Served(q), NEW next, Continue(q, next)
      PROVE  /\ ~overlapped /\ req'[q] = next
             /\ \A p \in Requests \ {q} : ~Served(p) /\ req'[p] = Idle
  <2>1. ~overlapped /\ req' = [req EXCEPT ![q] = next]
    BY <1>4 DEF Continue
  <2>2. QED
    BY <1>0, <1>4, <2>1 DEF Alone, Served
<1>5. ASSUME NEW q \in Requests, EditStep(q) \/ BookStep(q) \/ Fail(q)
      PROVE  /\ ~overlapped
             /\ \A p \in Requests \ {q} : ~Served(p) /\ req'[p] = Idle
             /\ rate' = rate
             /\ \/ /\ ~Served(q) /\ rule' = rule
                   /\ BookRate(q) \/ (Served(q)' /\ req'[q].op = "rule")
                \/ req'[q] = Idle \/ BookRules(q) \/ RuleUpdateCheck(q)
  <2>1. CASE RuleCreateCheck(q)
    <3>1. PICK row : Begin(q, [op |-> "rule", pc |-> "insert", row |-> row])
      BY <2>1 DEF RuleCreateCheck
    <3>2. QED
      BY <1>3, <2>1, <3>1 DEF RuleCreateCheck, Served, Idle
  <2>2. CASE RuleUpdateRead(q)
    <3>1. PICK n, next, sent :
             Begin(q, [op |-> "rule", pc |-> "recheck", id |-> n, next |-> next, sent |-> sent])
      BY <2>2 DEF RuleUpdateRead
    <3>2. QED
      BY <1>3, <2>2, <3>1 DEF RuleUpdateRead, Served, Idle
  <2>3. CASE BookRate(q)
    <3>1. PICK first : Begin(q, first)
      BY <2>3 DEF BookRate
    <3>2. rate' = rate /\ rule' = rule
      BY <2>3 DEF BookRate
    <3>3. ~overlapped /\ ~Served(q) /\ \A p \in Requests \ {q} : ~Served(p) /\ req'[p] = Idle
      BY <1>3, <3>1
    <3>4. QED
      BY <2>3, <3>2, <3>3
  <2>4. CASE RuleCreateInsert(q) \/ RuleUpdateWrite(q) \/ BookEnter(q) \/ Fail(q)
    <3>1. Served(q) /\ Continue(q, Idle) /\ rate' = rate
      BY <2>4 DEF RuleCreateInsert, RuleUpdateWrite, BookEnter, Fail, At, Answer
    <3>2. QED
      BY <1>4, <3>1
  <2>5. CASE RuleUpdateCheck(q)
    <3>1. Served(q) /\ rate' = rate /\ \E next : Continue(q, next)
      BY <2>5 DEF RuleUpdateCheck, At, Answer
    <3>2. QED
      BY <1>4, <2>5, <3>1
  <2>6. CASE BookRules(q)
    <3>1. Served(q) /\ rate' = rate /\ \E next : Continue(q, next)
      BY <2>6 DEF BookRules, At
    <3>2. QED
      BY <1>4, <2>6, <3>1
  <2>7. QED
    BY <1>5, <2>1, <2>2, <2>3, <2>4, <2>5, <2>6 DEF EditStep, BookStep
<1>6. CASE UNCHANGED vars
  BY <1>6 DEF vars
<1>7. QED
  BY <1>2, <1>5, <1>6 DEF Next

LEMMA AloneStep == TypeOK /\ Alone /\ [Next]_vars => Alone'
  BY LonelyStep DEF Alone, Served, vars

\* What the request that goes on holds: the price on sale, then the price on the list.
LEMMA SoldStep ==
    ASSUME TypeOK, RulesApart, Alone, RateHeld, SoldAsListed, [Next]_vars, ~overlapped',
           NEW q \in Requests
    PROVE  /\ At(q, "rules")' =>
                rate'[req'[q].rate].active /\ req'[q].base = rate'[req'[q].rate].price
           /\ At(q, "enter")' =>
                /\ rate'[req'[q].rate].active
                /\ req'[q].base = rate'[req'[q].rate].price
                /\ Listed(req[q].final, req[q].rate, req[q].day, rate[req[q].rate].price)'
<1>0. ~overlapped
  BY LonelyStep
<1>1. CASE req'[q] = Idle
  BY <1>1 DEF At, Served
<1>2. CASE UNCHANGED vars
  <2>1. req' = req /\ rate' = rate /\ rule' = rule
    BY <1>2 DEF vars
  <2>2. QED
    BY <1>0, <2>1 DEF RateHeld, SoldAsListed, At, Served, Listed, Covers, Rules
<1>3. CASE Served(q)' /\ req'[q].op = "rule"
  <2>1. req'[q] \in Request
    BY <1>3, RequestStep DEF TypeOK, Served
  <2>2. QED
    BY <1>3, <2>1 DEF At, Served, Request
<1>4. CASE BookRate(q)
  <2>1. PICK r \in Rates, day \in Days :
           /\ rate[r].active
           /\ req'[q] = [op |-> "book", pc |-> "rules", rate |-> r, day |-> day,
                         base |-> rate[r].price]
    BY <1>4 DEF BookRate, Begin, TypeOK
  <2>2. rate' = rate
    BY <1>4 DEF BookRate
  <2>3. QED
    BY <2>1, <2>2 DEF At
<1>5. CASE BookRules(q)
  <2>1. req[q] \in [op: {"book"}, pc: {"rules"}, rate: RateIds, day: Days, base: Nat]
    BY <1>5 DEF BookRules, TypeOK, At, Served, Request
  <2>2. PICK final \in Quotes(req[q].rate, req[q].day, req[q].base) :
           req'[q] = [op |-> "book", pc |-> "enter", rate |-> req[q].rate,
                      day |-> req[q].day, base |-> req[q].base, final |-> final]
    BY <1>5 DEF BookRules, Continue, TypeOK
  <2>3. rate[req[q].rate].active /\ req[q].base = rate[req[q].rate].price
    BY <1>0, <1>5 DEF RateHeld, BookRules
  <2>4. Listed(final, req[q].rate, req[q].day, req[q].base)
    BY <2>1, QuotesAreListed
  <2>5. rate' = rate /\ rule' = rule
    BY <1>5 DEF BookRules
  <2>6. Listed(req[q].final, req[q].rate, req[q].day, rate[req[q].rate].price)'
    <3>1. PICK r \in RateIds, day \in Days :
             r = req[q].rate /\ day = req[q].day
      BY <2>1
    <3>2. /\ req'[q].final = final /\ req'[q].rate = r /\ req'[q].day = day
          /\ rate'[r].price = req[q].base
      BY <2>2, <2>3, <2>5, <3>1
    <3>3. Listed(final, r, day, req[q].base)
      BY <2>4, <3>1
    <3>4. QED
      BY <2>5, <3>2, <3>3 DEF Listed, Covers, Rules
  <2>7. QED
    BY <2>2, <2>3, <2>5, <2>6 DEF At
<1>6. CASE RuleUpdateCheck(q)
  <2>1. req[q] \in Request /\ req[q].op = "rule"
    BY <1>6 DEF RuleUpdateCheck, TypeOK, At, Served, Request
  <2>2. req'[q] = Idle \/ req'[q].pc = "write"
    BY <1>6, <2>1 DEF RuleUpdateCheck, Answer, Continue, TypeOK, Request
  <2>3. QED
    BY <2>2 DEF At, Served
<1>7. QED
  BY <1>1, <1>2, <1>3, <1>4, <1>5, <1>6, LonelyStep

(***************************************************************************)
(* When nothing has happened in between, a stay is entered at the listed   *)
(* price of a rate that is on sale, for any rates, rules and days.         *)
(***************************************************************************)
THEOREM StaysSoldAsListed == RulesTakeTurns => (Spec => []SoldAsListed)
<1> SUFFICES ASSUME RulesTakeTurns PROVE Spec => []SoldAsListed
  OBVIOUS
<1>1. Init => Alone /\ RateHeld /\ SoldAsListed
  BY DEF Init, Alone, RateHeld, SoldAsListed, At, Served
<1>2. /\ TypeOK /\ RulesApart /\ Alone /\ RateHeld /\ SoldAsListed /\ [Next]_vars
      => Alone' /\ RateHeld' /\ SoldAsListed'
  BY AloneStep, SoldStep DEF RateHeld, SoldAsListed
<1>3. QED
  BY <1>1, <1>2, PricingTypeCorrect, RulesStayApart, PTL DEF Spec
==============================================================================
