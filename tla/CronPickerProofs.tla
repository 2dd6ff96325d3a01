-------------------------- MODULE CronPickerProofs --------------------------
(***************************************************************************)
(* Theorems about CronPicker, for any stored schedules, any numbers typed *)
(* and any choices.                                                        *)
(***************************************************************************)
EXTENDS CronPicker, SequenceTheorems, TLAPS

\* What closing owes to a panel p: s is the picker before, t after.
Kept(t, p) ==
  /\ Expression(p) # <<>> => t.input = Expression(p)
  /\ \A i \in Tabs : ParseTab(i, p[i]) # Absent => t.cron[i] = ParseTab(i, p[i])

(* The result of closing depends on the picker before only where the panel   *)
(* says nothing.                                                             *)
LEMMA RemoveKeeps ==
    ASSUME NEW c, NEW in, NEW p, p # <<>>
    PROVE  Kept(Remove([cron |-> c, input |-> in], p), p)
  BY DEF Remove, CheckCron, SetValue, Absorb, Kept

LEMMA PanelIsOpen == \A c : Panel(c) # <<>>
<1>1. \A c : DOMAIN Panel(c) = Tabs
  BY DEF Panel
<1>2. DOMAIN <<>> = {} /\ 0 \in Tabs
  BY DEF Tabs
<1> QED BY <1>1, <1>2

LEMMA SetValueIs ==
    ASSUME NEW c, NEW in, NEW e
    PROVE  SetValue([cron |-> c, input |-> in], e) = [cron |-> c, input |-> e]
  BY DEF SetValue

\* An open panel has all tabs, whatever they hold.
PanelShape == panel # <<>> => panel = [i \in Tabs |-> panel[i]]

LEMMA Shape == Spec => []PanelShape
<1>1. Init => PanelShape
  BY DEF Init, PanelShape
<1>2. PanelShape /\ [Next]_vars => PanelShape'
  <2> SUFFICES ASSUME PanelShape, [Next]_vars PROVE PanelShape'
    OBVIOUS
  <2>1. CASE panel' = panel \/ panel' = <<>>
    BY <2>1 DEF PanelShape
  <2>2. CASE ClickInput
    <3>1. panel' = Panel(cron)
      BY <2>2 DEF ClickInput
    <3> QED BY <3>1 DEF Panel, PanelShape
  <2>3. CASE UserEdit
    <3>1. PICK i, tab : Edit(i, tab)
      BY <2>3 DEF UserEdit, ChooseRadio, TypeNumber, ToggleBox
    <3>2. panel # <<>> /\ panel' = [panel EXCEPT ![i] = tab]
      BY <3>1 DEF Edit
    <3> QED BY <3>2 DEF PanelShape
  <2>4. [Next]_vars => \/ panel' = panel \/ panel' = <<>> \/ ClickInput \/ UserEdit
    BY DEF Next, OpenForm, InitPicker, ClickGear, ClickOutside, Confirm, ClickSave,
           Accepted, Refused, Cancel, Gone, vars
  <2> QED BY <2>1, <2>2, <2>3, <2>4
<1> QED BY <1>1, <1>2, PTL DEF Spec

(* Whatever way the panel closes but the gear, the input and options.cron    *)
(* hold what was chosen in it.                                               *)
THEOREM ClosingKeeps == Spec => ClosingKeepsChoices
<1> DEFINE Goal == panel # <<>> /\ panel' = <<>> /\ phase' = "ready" /\ ~ClickGear =>
                     /\ Expression(panel) # <<>> => input' = Expression(panel)
                     /\ \A i \in Tabs : ParseTab(i, panel[i]) # Absent =>
                          cron'[i] = ParseTab(i, panel[i])
<1>1. ASSUME PanelShape, PanelShape', Next PROVE Goal
  <2> SUFFICES ASSUME panel # <<>>, panel' = <<>>, phase' = "ready", ~ClickGear
               PROVE  Kept([cron |-> cron', input |-> input'], panel)
    BY DEF Kept
  <2>1. CASE ClickOutside \/ ClickSave
    <3>1. Becomes(Remove(Picker, panel))
      BY <2>1 DEF ClickOutside, ClickSave
    <3>2. Kept(Remove(Picker, panel), panel)
      BY RemoveKeeps DEF Picker
    <3> QED BY <3>1, <3>2 DEF Becomes, Kept
  <2>2. CASE Confirm
    <3> DEFINE c == Absorb(cron, panel)
               e == Expression(panel)
               called == SetValue([Picker EXCEPT !.cron = c], Cron7to5(e))
    <3>1. Becomes(Remove(SetValue(called, e), panel))
      BY <2>2 DEF Confirm
    <3>2. [Picker EXCEPT !.cron = c] = [cron |-> c, input |-> input]
      BY DEF Picker
    <3>3. SetValue(called, e) = [cron |-> c, input |-> e]
      <4> DEFINE x == [Picker EXCEPT !.cron = c]
      <4>1. x = [cron |-> c, input |-> input]
        BY <3>2
      <4> HIDE DEF c, e, x
      <4>2. SetValue(x, Cron7to5(e)) = [cron |-> c, input |-> Cron7to5(e)]
        BY <4>1, SetValueIs
      <4>3. called = [cron |-> c, input |-> Cron7to5(e)]
        BY <4>2 DEF x
      <4> HIDE DEF called
      <4> QED BY <4>3, SetValueIs
    <3>4. Kept(Remove(SetValue(called, e), panel), panel)
      BY <3>3, RemoveKeeps
    <3> QED BY <3>1, <3>4 DEF Becomes, Kept
  <2>3. CASE ClickInput
    BY <2>3, PanelIsOpen DEF ClickInput
  <2>4. CASE OpenForm \/ InitPicker \/ Refused
    BY <2>4 DEF OpenForm, InitPicker, Refused
  <2>5. CASE Accepted \/ Cancel
    BY <2>5 DEF Accepted, Cancel, Gone
  <2>6. CASE UserEdit
    <3>1. PICK i, tab : Edit(i, tab)
      BY <2>6 DEF UserEdit, ChooseRadio, TypeNumber, ToggleBox
    <3>2. panel' = [panel EXCEPT ![i] = tab]
      BY <3>1 DEF Edit
    <3>3. DOMAIN panel' = Tabs /\ 0 \in Tabs /\ DOMAIN <<>> = {}
      BY <3>2 DEF PanelShape, Tabs
    <3> QED BY <3>3
  <2> QED BY <1>1, <2>1, <2>2, <2>3, <2>4, <2>5, <2>6 DEF Next
<1>2. PanelShape /\ PanelShape' /\ [Next]_vars => [Goal]_vars
  BY <1>1
<1>3. [][Goal]_vars => ClosingKeepsChoices
  BY PTL DEF ClosingKeepsChoices
<1> QED BY <1>2, <1>3, Shape, PTL DEF Spec

-----------------------------------------------------------------------------
(* Joining the fields of an expression.                                      *)

\* What a field adds to the length.
Weight(t) == IF t = Absent THEN 0 ELSE 1
Has(s, t) == \E k \in 1..Len(s) : s[k] = t

LEMMA FieldFacts ==
    ASSUME NEW t \in Token
    PROVE  /\ Field(t) \in Seq(Token)
           /\ Len(Field(t)) = Weight(t)
           /\ t # Absent => Has(Field(t), t)
  BY DEF Field, Weight, Has

LEMMA HasConcat ==
    ASSUME NEW r \in Seq(Token), NEW s \in Seq(Token), NEW t, Has(r, t) \/ Has(s, t)
    PROVE  Has(r \o s, t)
<1>1. CASE Has(r, t)
  <2>1. PICK k \in 1..Len(r) : r[k] = t
    BY <1>1 DEF Has
  <2>2. k \in 1..Len(r \o s) /\ (r \o s)[k] = t
    BY <2>1
  <2> QED BY <2>2 DEF Has
<1>2. CASE Has(s, t)
  <2>1. PICK k \in 1..Len(s) : s[k] = t
    BY <1>2 DEF Has
  <2>2. Len(r) + k \in 1..Len(r \o s) /\ (r \o s)[Len(r) + k] = t
    BY <2>1
  <2> QED BY <2>2 DEF Has
<1> QED BY <1>1, <1>2

LEMMA JoinedFacts ==
    ASSUME NEW c \in [Tabs -> Token]
    PROVE  /\ Joined(c) \in Seq(Token)
           /\ Len(Joined(c)) = Weight(c[0]) + Weight(c[1]) + Weight(c[2]) + Weight(c[3])
                                 + Weight(c[4]) + Weight(c[5]) + Weight(c[6])
           /\ \A i \in Tabs : c[i] # Absent => Has(Joined(c), c[i])
           /\ c[0] # Absent => Joined(c) # <<>> /\ Joined(c)[1] = c[0]
<1> DEFINE f(i) == Field(c[i])
           s1 == f(0) \o f(1)
           s2 == s1 \o f(2)
           s3 == s2 \o f(3)
           s4 == s3 \o f(4)
           s5 == s4 \o f(5)
           s6 == s5 \o f(6)
<1>1. \A i \in Tabs : /\ f(i) \in Seq(Token)
                      /\ Len(f(i)) = Weight(c[i])
                      /\ c[i] # Absent => Has(f(i), c[i])
  BY FieldFacts
<1>2. 0 \in Tabs /\ 1 \in Tabs /\ 2 \in Tabs /\ 3 \in Tabs /\ 4 \in Tabs /\ 5 \in Tabs
        /\ 6 \in Tabs /\ \A i \in Tabs : i \in {0, 1, 2, 3, 4, 5, 6}
  BY DEF Tabs
<1>3. c[0] # Absent => f(0) = <<c[0]>>
  BY DEF Field
<1>4. Joined(c) = s6
  BY DEF Joined
<1>5. \A i \in Tabs : Weight(c[i]) \in Nat
  BY DEF Weight
<1> HIDE DEF f
<1>6. /\ s1 \in Seq(Token) /\ s2 \in Seq(Token) /\ s3 \in Seq(Token)
      /\ s4 \in Seq(Token) /\ s5 \in Seq(Token) /\ s6 \in Seq(Token)
  BY <1>1, <1>2, ConcatProperties
<1>7. /\ Len(s1) = Len(f(0)) + Len(f(1)) /\ Len(s2) = Len(s1) + Len(f(2))
      /\ Len(s3) = Len(s2) + Len(f(3)) /\ Len(s4) = Len(s3) + Len(f(4))
      /\ Len(s5) = Len(s4) + Len(f(5)) /\ Len(s6) = Len(s5) + Len(f(6))
  BY <1>1, <1>2, <1>6, ConcatProperties
<1>8. ASSUME NEW t
      PROVE  /\ Has(f(0), t) \/ Has(f(1), t) => Has(s1, t)
             /\ Has(s1, t) \/ Has(f(2), t) => Has(s2, t)
             /\ Has(s2, t) \/ Has(f(3), t) => Has(s3, t)
             /\ Has(s3, t) \/ Has(f(4), t) => Has(s4, t)
             /\ Has(s4, t) \/ Has(f(5), t) => Has(s5, t)
             /\ Has(s5, t) \/ Has(f(6), t) => Has(s6, t)
  BY <1>1, <1>2, <1>6, HasConcat
<1>9. ASSUME c[0] # Absent
      PROVE  Len(s6) >= 1 /\ s6[1] = c[0]
  <2>1. Len(f(0)) = 1 /\ f(0)[1] = c[0]
    BY <1>3, <1>9
  <2>2. ASSUME NEW r \in Seq(Token), NEW s \in Seq(Token), Len(r) >= 1, r[1] = c[0]
        PROVE  Len(r \o s) >= 1 /\ (r \o s)[1] = c[0]
    BY <2>2
  <2>3. Len(s1) >= 1 /\ s1[1] = c[0]
    BY <1>1, <1>2, <2>1, <2>2
  <2> HIDE DEF s1
  <2>4. Len(s2) >= 1 /\ s2[1] = c[0]
    BY <1>1, <1>2, <1>6, <2>3, <2>2
  <2> HIDE DEF s2
  <2>5. Len(s3) >= 1 /\ s3[1] = c[0]
    BY <1>1, <1>2, <1>6, <2>4, <2>2
  <2> HIDE DEF s3
  <2>6. Len(s4) >= 1 /\ s4[1] = c[0]
    BY <1>1, <1>2, <1>6, <2>5, <2>2
  <2> HIDE DEF s4
  <2>7. Len(s5) >= 1 /\ s5[1] = c[0]
    BY <1>1, <1>2, <1>6, <2>6, <2>2
  <2> HIDE DEF s5
  <2> QED BY <1>1, <1>2, <1>6, <2>7, <2>2
<1> HIDE DEF s1, s2, s3, s4, s5, s6
<1>10. Len(s6) = Weight(c[0]) + Weight(c[1]) + Weight(c[2]) + Weight(c[3])
                   + Weight(c[4]) + Weight(c[5]) + Weight(c[6])
  BY <1>1, <1>2, <1>5, <1>7
<1>11. \A i \in Tabs : c[i] # Absent => Has(s6, c[i])
  BY <1>1, <1>2, <1>8
<1> QED BY <1>4, <1>6, <1>9, <1>10, <1>11

(* A panel whose expression is as long as what options.cron becomes has said *)
(* all that options.cron says.                                               *)
LEMMA EqualLengths ==
    ASSUME NEW c \in [Tabs -> Token], NEW d \in [Tabs -> Token],
           \A i \in Tabs : d[i] = c[i] \/ d[i] = Absent,
           Len(Joined(c)) = Len(Joined(d))
    PROVE  Joined(c) = Joined(d)
<1>1. \A i \in Tabs : Weight(d[i]) <= Weight(c[i]) /\ Weight(c[i]) \in {0, 1}
                        /\ Weight(d[i]) \in {0, 1}
  BY DEF Weight
<1>2. \A i \in Tabs : i \in {0, 1, 2, 3, 4, 5, 6}
  BY DEF Tabs
<1>3. 0 \in Tabs /\ 1 \in Tabs /\ 2 \in Tabs /\ 3 \in Tabs /\ 4 \in Tabs /\ 5 \in Tabs
        /\ 6 \in Tabs
  BY DEF Tabs
<1>4. \A i \in Tabs : Weight(c[i]) = Weight(d[i])
  BY <1>1, <1>2, <1>3, JoinedFacts
<1>5. \A i \in Tabs : c[i] = d[i]
  BY <1>4 DEF Weight
<1> QED BY <1>3, <1>5 DEF Joined

-----------------------------------------------------------------------------
(* The types of a tab, and reading back what was shown.                      *)

LEMMA TypeOfCustom ==
    ASSUME NEW i \in Tabs, NEW t \in Token, TypeOf(i, t) = "custom"
    PROVE  t.a \subseteq Nat
<1>1. t.kind = "list"
  BY DEF TypeOf, Token
<1> QED BY <1>1 DEF Token

LEMMA TabContentType ==
    ASSUME NEW i \in Tabs, NEW t \in Token
    PROVE  TabContent(i, t) \in Tab
<1>1. t.a \subseteq Int /\ t.b \subseteq Int
  BY DEF Token
<1>2. Magnitude(t.a) \subseteq Int /\ Magnitude(t.b) \subseteq Int
  BY <1>1 DEF Magnitude
<1>3. RangeStart(t) \in Number /\ RangeEnd(t) \in Number
  BY <1>1, <1>2 DEF RangeStart, RangeEnd, Number
<1>4. CustomGrid(i, t) \in SUBSET Nat
  BY TypeOfCustom DEF CustomGrid
<1>5. Offers(i) \subseteq RadioTypes
  BY DEF Offers, EveryRow, UnspecifiedRow, RangeRow, RateRow, WeekdayRow, LastdayRow,
         LastweekRow, CustomRow, RadioTypes
<1> DEFINE type  == TypeOf(i, t)
           value == IF type \in {"weekday", "lastweek"} THEN t.a ELSE {}
           radio == IF type \in Offers(i) THEN type ELSE "none"
           start == IF type = "range" THEN RangeStart(t) ELSE {}
           end   == IF type = "range" THEN RangeEnd(t) ELSE {}
           begin == IF type = "rate" THEN t.a ELSE {}
           rate  == IF type = "rate" THEN t.b ELSE {}
<1>6. TabContent(i, t) =
        [radio |-> radio, start |-> start, end |-> end, begin |-> begin, rate |-> rate,
         weekday |-> value, lastweek |-> value, boxes |-> CustomGrid(i, t)]
  BY DEF TabContent
<1>7. radio \in RadioTypes \cup {"none"}
  BY <1>5
<1>8. /\ start \in Number /\ end \in Number /\ begin \in Number /\ rate \in Number
      /\ value \in Number
  BY <1>1, <1>3 DEF Number
<1> HIDE DEF type, value, radio, start, end, begin, rate
<1> QED BY <1>4, <1>6, <1>7, <1>8 DEF Tab, Number

LEMMA ParseTabType ==
    ASSUME NEW i \in Tabs, NEW p \in Tab
    PROVE  ParseTab(i, p) \in Token
<1>1. /\ Every \in Token /\ Unspecified \in Token /\ Absent \in Token
      /\ LastDay \in Token
      /\ \A v, w \in Number : Tok("range", v, w) \in Token /\ Tok("rate", v, w) \in Token
      /\ \A v \in SUBSET Nat : Tok("list", v, {}) \in Token
      /\ \A v \in Number : /\ Tok("weekday", v, {}) \in Token
                           /\ Tok("last", v, {}) \in Token
  BY DEF Every, Unspecified, Absent, LastDay, Tok, Token, Number
<1>2. /\ p.start \in Number /\ p.end \in Number /\ p.begin \in Number
      /\ p.rate \in Number /\ p.weekday \in Number /\ p.lastweek \in Number
      /\ p.boxes \in SUBSET Nat
  BY DEF Tab, Number
<1> QED BY <1>1, <1>2 DEF ParseTab

(* A field that the picker can represent is shown so that parse reads the    *)
(* same field again.                                                         *)
LEMMA RoundTrip ==
    ASSUME NEW i \in Tabs, NEW t \in Token, Representable(i, t)
    PROVE  ParseTab(i, TabContent(i, t)) = t /\ t # Absent
<1>1. t = [kind |-> t.kind, a |-> t.a, b |-> t.b]
  BY DEF Token
<1>2. t # Absent
  BY DEF Representable, Absent, Tok
<1>3. CASE t.kind = "every" \/ (t.kind = "unspecified" /\ i \in 3..5)
  <2>1. t.a = {} /\ t.b = {}
    BY <1>3 DEF Token
  <2>2. TypeOf(i, t) = t.kind /\ t.kind \in Offers(i)
    BY <1>3 DEF TypeOf, Dashed, Offers, EveryRow, UnspecifiedRow
  <2>3. TabContent(i, t).radio = t.kind
    BY <2>2 DEF TabContent
  <2> QED BY <1>1, <1>2, <1>3, <2>1, <2>3 DEF ParseTab, Every, Unspecified, Tok
<1>4. CASE t.kind = "range" /\ ~Negative(t.a) /\ ~Negative(t.b)
  <2>1. TypeOf(i, t) = "range" /\ "range" \in Offers(i)
    BY <1>4 DEF TypeOf, Dashed, Offers, RangeRow
  <2>2. RangeStart(t) = t.a /\ RangeEnd(t) = t.b
    BY <1>4 DEF RangeStart, RangeEnd
  <2>3. /\ TabContent(i, t).radio = "range"
        /\ TabContent(i, t).start = t.a /\ TabContent(i, t).end = t.b
    BY <2>1, <2>2 DEF TabContent
  <2> QED BY <1>1, <1>2, <1>4, <2>3 DEF ParseTab, Tok
<1>5. CASE t.kind = "rate" /\ i < 6 /\ ~Negative(t.a) /\ ~Negative(t.b)
  <2>1. TypeOf(i, t) = "rate" /\ "rate" \in Offers(i)
    BY <1>5 DEF TypeOf, Dashed, Offers, RateRow
  <2>2. /\ TabContent(i, t).radio = "rate"
        /\ TabContent(i, t).begin = t.a /\ TabContent(i, t).rate = t.b
    BY <2>1 DEF TabContent
  <2> QED BY <1>1, <1>2, <1>5, <2>2 DEF ParseTab, Tok
<1>6. CASE t.kind = "list" /\ i < 6 /\ t.a # {} /\ t.a \subseteq Low[i]..High[i]
  <2>1. TypeOf(i, t) = "custom" /\ "custom" \in Offers(i)
    BY <1>6 DEF TypeOf, Dashed, Offers, CustomRow, Tabs
  <2>2. CustomGrid(i, t) = t.a /\ t.b = {}
    BY <1>6, <2>1 DEF CustomGrid, Tabs, Token
  <2>3. TabContent(i, t).radio = "custom" /\ TabContent(i, t).boxes = t.a
    BY <2>1, <2>2 DEF TabContent
  <2> QED BY <1>1, <1>2, <1>6, <2>2, <2>3 DEF ParseTab, Tok
<1>7. CASE t.kind = "weekday" /\ i = 3 /\ ~Negative(t.a)
  <2>1. t.b = {} /\ ~Negative(t.b)
    BY <1>7 DEF Token, Negative
  <2>2. TypeOf(i, t) = "weekday" /\ "weekday" \in Offers(i)
    BY <1>7, <2>1 DEF TypeOf, Dashed, Offers, WeekdayRow
  <2>3. TabContent(i, t).radio = "weekday" /\ TabContent(i, t).weekday = t.a
    BY <2>2 DEF TabContent
  <2> QED BY <1>1, <1>2, <1>7, <2>1, <2>3 DEF ParseTab, Tok
<1>8. CASE t.kind = "last" /\ i = 5 /\ ~Negative(t.a)
  <2>1. t.b = {} /\ ~Negative(t.b)
    BY <1>8 DEF Token, Negative
  <2>2. TypeOf(i, t) = "lastweek" /\ "lastweek" \in Offers(i)
    BY <1>8, <2>1 DEF TypeOf, Dashed, Offers, LastweekRow
  <2>3. TabContent(i, t).radio = "lastweek" /\ TabContent(i, t).lastweek = t.a
    BY <2>2 DEF TabContent
  <2> QED BY <1>1, <1>2, <1>8, <2>1, <2>3 DEF ParseTab, Tok
<1>9. CASE t.kind = "last" /\ i = 3 /\ t.a = {}
  <2>1. t.b = {} /\ ~Negative(t.b) /\ ~Negative(t.a)
    BY <1>9 DEF Token, Negative
  <2>2. TypeOf(i, t) = "lastday" /\ "lastday" \in Offers(i)
    BY <1>9, <2>1 DEF TypeOf, Dashed, Offers, LastdayRow
  <2>3. TabContent(i, t).radio = "lastday"
    BY <2>2 DEF TabContent
  <2> QED BY <1>1, <1>2, <1>9, <2>1, <2>3 DEF ParseTab, LastDay, Tok
<1> QED BY <1>3, <1>4, <1>5, <1>6, <1>7, <1>8, <1>9 DEF Representable

LEMMA RadioDefaultsType ==
    ASSUME NEW i \in Tabs, NEW tab \in Tab, NEW type
    PROVE  RadioDefaults(i, tab, type) \in Tab
<1>1. /\ \A v \in Number, n \in Int : OrElse(v, n) \in Number
      /\ \A v \in SUBSET Nat, n \in Nat : OrElse(v, n) \in SUBSET Nat
  BY DEF OrElse, Number
<1>2. Low[i] \in Nat
  BY DEF Low
<1>3. /\ tab.start \in Number /\ tab.end \in Number /\ tab.begin \in Number
      /\ tab.rate \in Number /\ tab.weekday \in Number /\ tab.lastweek \in Number
      /\ tab.boxes \in SUBSET Nat
  BY DEF Tab, Number
<1>4. \A v, w \in Number : /\ [tab EXCEPT !.start = v, !.end = w] \in Tab
                           /\ [tab EXCEPT !.begin = v, !.rate = w] \in Tab
                           /\ [tab EXCEPT !.weekday = v] \in Tab
                           /\ [tab EXCEPT !.lastweek = v] \in Tab
  BY DEF Tab, Number
<1>6. \A v \in SUBSET Nat : [tab EXCEPT !.boxes = v] \in Tab
  BY DEF Tab
<1>5. /\ OrElse(tab.start, 0) \in Number /\ OrElse(tab.end, 2) \in Number
      /\ OrElse(tab.begin, 0) \in Number /\ OrElse(tab.rate, 2) \in Number
      /\ OrElse(tab.boxes, Low[i]) \in SUBSET Nat
      /\ OrElse(tab.weekday, 1) \in Number /\ OrElse(tab.lastweek, 1) \in Number
  BY <1>1, <1>2, <1>3
<1> QED BY <1>4, <1>5, <1>6 DEF RadioDefaults

-----------------------------------------------------------------------------
(* What parse and checkCron do to the pair of options.cron and the input.    *)

Crons    == [Tabs -> Token]
Panels   == [Tabs -> Tab]
Pair(c, e) == [cron |-> c, input |-> e]
InStep(c, e) == Len(e) = Len(Joined(c)) => e = Joined(c)
Led(c, e)    == e[1] \in {Zero, c[0]} \/ LacksSeconds(c, e)

LEMMA ParsedType ==
    ASSUME NEW p \in Panels
    PROVE  Parsed(p) \in Crons /\ \A i \in Tabs : Parsed(p)[i] = ParseTab(i, p[i])
  BY ParseTabType DEF Parsed, Panels, Crons

LEMMA ExpressionFacts ==
    ASSUME NEW p \in Panels
    PROVE  /\ Expression(p) \in Expr
           /\ \A i \in Tabs : ParseTab(i, p[i]) # Absent => Has(Expression(p), ParseTab(i, p[i]))
           /\ ParseTab(0, p[0]) # Absent =>
                Expression(p) # <<>> /\ Expression(p)[1] = ParseTab(0, p[0])
           /\ Expression(p) = <<>> => \A i \in Tabs : ParseTab(i, p[i]) = Absent
<1>1. Expression(p) = Joined(Parsed(p)) /\ Parsed(p) \in Crons /\ 0 \in Tabs
  BY ParsedType DEF Expression, Tabs
<1>2. /\ Expression(p) \in Expr
      /\ \A i \in Tabs : ParseTab(i, p[i]) # Absent => Has(Expression(p), ParseTab(i, p[i]))
      /\ ParseTab(0, p[0]) # Absent =>
           Expression(p) # <<>> /\ Expression(p)[1] = ParseTab(0, p[0])
  BY <1>1, JoinedFacts, ParsedType DEF Expr, Crons
<1>3. ASSUME Expression(p) = <<>>, NEW i \in Tabs
      PROVE  ParseTab(i, p[i]) = Absent
  BY <1>2, <1>3 DEF Has
<1> QED BY <1>2, <1>3

(* The panel says of options.cron, and of the expression, the same.          *)
LEMMA AbsorbFacts ==
    ASSUME NEW c \in Crons, NEW p \in Panels
    PROVE  /\ Absorb(c, p) \in Crons
           /\ InStep(Absorb(c, p), Expression(p))
           /\ Led(Absorb(c, p), Expression(p))
           /\ Absorb(Absorb(c, p), p) = Absorb(c, p)
           /\ Expression(p) = <<>> => Absorb(c, p) = c
<1>1. Absorb(c, p) \in Crons
  BY ParseTabType DEF Absorb, Crons, Panels
<1>2. \A i \in Tabs : Parsed(p)[i] = Absorb(c, p)[i] \/ Parsed(p)[i] = Absent
  BY ParsedType DEF Absorb
<1>3. InStep(Absorb(c, p), Expression(p))
  BY <1>1, <1>2, ParsedType, EqualLengths DEF InStep, Expression, Crons
<1>4. Absorb(Absorb(c, p), p) = Absorb(c, p)
  BY DEF Absorb
<1>5. Expression(p) = <<>> => Absorb(c, p) = c
  BY ExpressionFacts DEF Absorb, Crons
<1>6. Led(Absorb(c, p), Expression(p))
  <2>1. 0 \in Tabs
    BY DEF Tabs
  <2>2. CASE ParseTab(0, p[0]) # Absent
    BY <2>1, <2>2, ExpressionFacts DEF Led, Absorb
  <2>3. CASE ParseTab(0, p[0]) = Absent
    <3> DEFINE S == {i \in Tabs : ParseTab(i, p[i]) # Absent}
    <3>1. S \in SUBSET (Tabs \ {0})
      BY <2>3
    <3>2. Parsed(p) = [i \in Tabs |-> IF i \in S THEN Absorb(c, p)[i] ELSE Absent]
      BY DEF Parsed, Absorb
    <3> HIDE DEF S
    <3> QED BY <3>1, <3>2 DEF Led, LacksSeconds, Expression
  <2> QED BY <2>2, <2>3
<1> QED BY <1>1, <1>3, <1>4, <1>5, <1>6

LEMMA CheckCronIs ==
    ASSUME NEW c, NEW e, NEW p
    PROVE  CheckCron(Pair(c, e), p) =
             Pair(Absorb(c, p), IF Expression(p) # <<>> THEN Expression(p) ELSE e)
  BY DEF CheckCron, SetValue, Pair

\* A picker whose two parts have their types, are in step, and whose input
\* begins with the seconds if they contribute to it.
Sound(s) == /\ s = Pair(s.cron, s.input)
            /\ s.cron \in Crons /\ s.input \in Expr
            /\ InStep(s.cron, s.input)
            /\ Led(s.cron, s.input)

\* The seconds of a picker in whose first tab nothing was chosen.
Second(s) == /\ s.cron[0] \in {Zero, Every}
             /\ s.input # <<>> /\ s.input[1] \in {Zero, s.cron[0]}
Shows(p, s) == ParseTab(0, p[0]) = s.cron[0]

LEMMA CheckCronSound ==
    ASSUME NEW s, Sound(s), NEW p \in Panels
    PROVE  /\ Sound(CheckCron(s, p))
           /\ Second(s) /\ Shows(p, s) => /\ Second(CheckCron(s, p))
                                          /\ CheckCron(s, p).cron[0] = s.cron[0]
<1> DEFINE c == Absorb(s.cron, p)
           e == IF Expression(p) # <<>> THEN Expression(p) ELSE s.input
<1>1. CheckCron(s, p) = Pair(c, e)
  BY CheckCronIs DEF Sound
<1>2. c \in Crons /\ e \in Expr
  BY AbsorbFacts, ExpressionFacts DEF Sound
<1>3. InStep(c, e) /\ Led(c, e)
  <2>1. CASE Expression(p) # <<>>
    BY <2>1, AbsorbFacts DEF Sound
  <2>2. CASE Expression(p) = <<>>
    BY <2>2, AbsorbFacts DEF Sound
  <2> QED BY <2>1, <2>2
<1>4. ASSUME Second(s), Shows(p, s)
      PROVE  c[0] = s.cron[0] /\ e # <<>> /\ e[1] = s.cron[0]
  <2>1. 0 \in Tabs /\ s.cron[0] # Absent
    BY <1>4 DEF Tabs, Second, Zero, Every, Absent, Tok
  <2> QED BY <1>4, <2>1, ExpressionFacts DEF Shows, Absorb
<1> HIDE DEF c, e
<1>5. Pair(c, e).cron = c /\ Pair(c, e).input = e
  BY DEF Pair
<1> QED BY <1>1, <1>2, <1>3, <1>4, <1>5 DEF Sound, Second

LEMMA RemoveSound ==
    ASSUME NEW s, Sound(s), NEW p, p # <<>> => p \in Panels
    PROVE  /\ Sound(Remove(s, p))
           /\ Second(s) /\ (p # <<>> => Shows(p, s)) =>
                Second(Remove(s, p)) /\ Remove(s, p).cron[0] = s.cron[0]
  BY CheckCronSound DEF Remove

LEMMA PanelType ==
    ASSUME NEW c \in Crons
    PROVE  /\ Panel(c) \in Panels /\ Panel(c) # <<>>
           /\ c[0] \in {Zero, Every} => ParseTab(0, Panel(c)[0]) = c[0]
<1>1. Panel(c) \in Panels
  BY TabContentType DEF Panel, Panels, Crons
<1>2. ASSUME c[0] \in {Zero, Every} PROVE ParseTab(0, Panel(c)[0]) = c[0]
  <2>1. 0 \in Tabs /\ Low[0] = 0 /\ High[0] = 59
    BY DEF Tabs, Low, High
  <2>2. Representable(0, c[0])
    BY <1>2, <2>1 DEF Representable, Zero, Every, Tok
  <2>3. Panel(c)[0] = TabContent(0, c[0]) /\ c[0] \in Token
    BY <2>1 DEF Panel, Crons
  <2> QED BY <2>1, <2>2, <2>3, RoundTrip
<1> QED BY <1>1, <1>2, PanelIsOpen

LEMMA RenderSound ==
    ASSUME NEW s, Sound(s), NEW p, p # <<>> => p \in Panels
    PROVE  /\ Sound(Render(s, p))
           /\ Second(s) /\ (p # <<>> => Shows(p, s)) =>
                Second(Render(s, p)) /\ Shows(Panel(s.cron), Render(s, p))
<1>1. Panel(s.cron) \in Panels
  BY PanelType DEF Sound
<1>2. Sound(Remove(s, p)) /\ Sound(Render(s, p))
  BY <1>1, RemoveSound, CheckCronSound DEF Render
<1>3. ASSUME Second(s), p # <<>> => Shows(p, s)
      PROVE  Second(Render(s, p)) /\ Shows(Panel(s.cron), Render(s, p))
  <2>1. Second(Remove(s, p)) /\ Remove(s, p).cron[0] = s.cron[0]
    BY <1>3, RemoveSound
  <2>2. ParseTab(0, Panel(s.cron)[0]) = s.cron[0]
    BY <1>3, PanelType DEF Second, Sound
  <2>3. Shows(Panel(s.cron), Remove(s, p))
    BY <2>1, <2>2 DEF Shows
  <2>4. /\ Second(Render(s, p))
        /\ Render(s, p).cron[0] = Remove(s, p).cron[0]
    BY <1>1, <1>2, <2>1, <2>3, CheckCronSound DEF Render
  <2> QED BY <2>1, <2>2, <2>4 DEF Shows
<1> QED BY <1>2, <1>3

(* The confirm button: the expression is written twice, and options.cron is  *)
(* what it was after the first parse.                                        *)
LEMMA ConfirmIs ==
    ASSUME NEW c \in Crons, NEW in, NEW f, NEW p \in Panels
    PROVE  LET called == SetValue([Pair(c, in) EXCEPT !.cron = Absorb(c, p)], f)
           IN p # <<>> => Remove(SetValue(called, Expression(p)), p) =
                            Pair(Absorb(c, p), Expression(p))
<1> DEFINE d == Absorb(c, p)
           e == Expression(p)
<1>1. [Pair(c, in) EXCEPT !.cron = d] = Pair(d, in)
  BY DEF Pair
<1>2. Absorb(d, p) = d
  BY AbsorbFacts
<1>3. CheckCron(Pair(d, e), p) = Pair(Absorb(d, p), IF e # <<>> THEN e ELSE e)
  BY CheckCronIs
<1> HIDE DEF d, e
<1>4. SetValue(SetValue(Pair(d, in), f), e) = Pair(d, e)
  <2>1. \A x, y, z : SetValue(Pair(x, y), z) = Pair(x, z)
    BY DEF SetValue, Pair
  <2> QED BY <2>1
<1>5. CheckCron(Pair(d, e), p) = Pair(d, e)
  BY <1>2, <1>3
<1>6. p # <<>> => Remove(Pair(d, e), p) = Pair(d, e)
  BY <1>5 DEF Remove
<1>7. p # <<>> => Remove(SetValue(SetValue([Pair(c, in) EXCEPT !.cron = d], f), e), p)
                    = Pair(d, e)
  BY <1>1, <1>4, <1>6
<1> QED BY <1>7 DEF d, e

-----------------------------------------------------------------------------
(* The inductive invariant.                                                  *)

\* The form shows the stored schedule until its picker has arrived.
LoadingIsStored == phase = "loading" => input = stored

\* Nobody has chosen seconds: they are the page's 0 or the picker's "*".
Untouched == 0 \notin EditTabs \/ edits = 0
SecondsUntouched ==
  phase = "ready" /\ Untouched =>
    Second(Picker) /\ (panel # <<>> => Shows(panel, Picker))

\* The input starts with the seconds, unless they contribute nothing to it.
LedBySeconds == phase = "ready" => Led(cron, input)

PickerInv == /\ TypeOK /\ WholeInputIsCron /\ LoadingIsStored
             /\ SecondsUntouched /\ LedBySeconds

LEMMA ConstantTypes ==
  /\ Every \in Token /\ Unspecified \in Token /\ Absent \in Token /\ Zero \in Token
  /\ DefaultCron \in Crons /\ <<>> \in Expr
<1>1. Every \in Token /\ Unspecified \in Token /\ Absent \in Token /\ Zero \in Token
  BY DEF Every, Unspecified, Absent, Zero, Tok, Token
<1> QED BY <1>1 DEF DefaultCron, Crons, Tabs, Expr

LEMMA PickerSound ==
    ASSUME TypeOK, WholeInputIsCron, LedBySeconds, phase = "ready"
    PROVE  Sound(Picker) /\ (panel # <<>> => panel \in Panels)
  BY DEF TypeOK, WholeInputIsCron, Whole, LedBySeconds, Sound, Picker, Pair, InStep, Crons,
         Panels

(* The value that the page gives the picker has at least as many fields as   *)
(* options.cron takes from it.                                               *)
LEMMA InitPickerFacts ==
    ASSUME NEW e \in Expr,
           NEW c, c = IF Len(Cron5to7(e)) >= 6
                        THEN [i \in Tabs |-> IF i < 6 THEN Cron5to7(e)[i + 1] ELSE Absent]
                        ELSE DefaultCron
    PROVE  /\ Cron5to7(e) \in Expr /\ c \in Crons
           /\ InStep(c, Cron5to7(e))
           /\ Second(Pair(c, Cron5to7(e)))
<1> DEFINE v == Cron5to7(e)
<1> USE ConstantTypes
<1>1. /\ v \in Seq(Token) /\ v # <<>> /\ v[1] = Zero
  <2>1. CASE e = <<>>
    BY <2>1 DEF Cron5to7
  <2>2. CASE e # <<>>
    <3> DEFINE tail == IF Len(e) = 6 THEN <<>> ELSE <<Every>>
    <3>1. tail \in Seq(Token) /\ e \in Seq(Token) /\ <<Zero>> \in Seq(Token)
      BY DEF Expr
    <3>2. v = (<<Zero>> \o e) \o tail
      BY <2>2 DEF Cron5to7
    <3> HIDE DEF tail
    <3>3. <<Zero>> \o e \in Seq(Token) /\ Len(<<Zero>> \o e) >= 1
            /\ (<<Zero>> \o e)[1] = Zero
      BY <3>1
    <3> HIDE DEF v
    <3> QED BY <3>1, <3>2, <3>3
  <2> QED BY <2>1, <2>2
<1> HIDE DEF v
<1>2. CASE Len(v) >= 6
  <2>1. c = [i \in Tabs |-> IF i < 6 THEN v[i + 1] ELSE Absent]
    BY <1>2 DEF v
  <2>2. c \in Crons
    BY <1>1, <1>2, <2>1 DEF Crons, Tabs
  <2>3. /\ c[0] = v[1] /\ c[1] = v[2] /\ c[2] = v[3] /\ c[3] = v[4] /\ c[4] = v[5]
        /\ c[5] = v[6] /\ c[6] = Absent
    BY <2>1 DEF Tabs
  <2>4. ASSUME Len(v) = Len(Joined(c)) PROVE v = Joined(c)
    <3>1. /\ Weight(c[0]) \in {0, 1} /\ Weight(c[1]) \in {0, 1} /\ Weight(c[2]) \in {0, 1}
          /\ Weight(c[3]) \in {0, 1} /\ Weight(c[4]) \in {0, 1} /\ Weight(c[5]) \in {0, 1}
      BY DEF Weight
    <3>2. Weight(c[6]) = 0
      BY <2>3 DEF Weight
    <3>3. Len(Joined(c)) = Weight(c[0]) + Weight(c[1]) + Weight(c[2]) + Weight(c[3])
                             + Weight(c[4]) + Weight(c[5]) + Weight(c[6])
      BY <2>2, JoinedFacts DEF Crons
    <3>4. /\ Len(v) = 6
          /\ Weight(c[0]) = 1 /\ Weight(c[1]) = 1 /\ Weight(c[2]) = 1
          /\ Weight(c[3]) = 1 /\ Weight(c[4]) = 1 /\ Weight(c[5]) = 1
      <4>1. Len(v) \in Nat
        BY <1>1
      <4>2. \A n \in Nat, w0, w1, w2, w3, w4, w5 \in {0, 1} :
              n >= 6 /\ n = w0 + w1 + w2 + w3 + w4 + w5 + 0 =>
                n = 6 /\ w0 = 1 /\ w1 = 1 /\ w2 = 1 /\ w3 = 1 /\ w4 = 1 /\ w5 = 1
        OBVIOUS
      <4>3. Len(v) = Weight(c[0]) + Weight(c[1]) + Weight(c[2]) + Weight(c[3])
                       + Weight(c[4]) + Weight(c[5]) + 0
        BY <2>4, <3>2, <3>3
      <4> QED BY <1>2, <3>1, <4>1, <4>2, <4>3
    <3>5. /\ c[0] # Absent /\ c[1] # Absent /\ c[2] # Absent /\ c[3] # Absent
          /\ c[4] # Absent /\ c[5] # Absent
      BY <3>4 DEF Weight
    <3>6. Joined(c) = <<v[1]>> \o <<v[2]>> \o <<v[3]>> \o <<v[4]>> \o <<v[5]>> \o <<v[6]>>
                        \o <<>>
      BY <2>3, <3>5 DEF Joined, Field
    <3>7. Joined(c) = <<v[1], v[2], v[3], v[4], v[5], v[6]>>
      BY <3>6
    <3>8. v = <<v[1], v[2], v[3], v[4], v[5], v[6]>>
      BY <1>1, <3>4
    <3> QED BY <3>7, <3>8
  <2> QED BY <1>1, <2>2, <2>3, <2>4 DEF v, InStep, Second, Pair, Expr
<1>3. CASE ~(Len(v) >= 6)
  <2>1. c = DefaultCron
    BY <1>3 DEF v
  <2>2. /\ c[0] = Every /\ c[1] = Every /\ c[2] = Every /\ c[3] = Every /\ c[4] = Every
        /\ c[5] = Unspecified /\ c[6] = Absent
    BY <2>1 DEF DefaultCron, Tabs
  <2>3. Weight(Every) = 1 /\ Weight(Unspecified) = 1 /\ Weight(Absent) = 0
    BY DEF Weight, Every, Unspecified, Absent, Tok
  <2>4. Len(Joined(c)) = 6
    <3>1. c \in [Tabs -> Token]
      BY <2>1 DEF Crons
    <3>2. Len(Joined(c)) = Weight(c[0]) + Weight(c[1]) + Weight(c[2]) + Weight(c[3])
                             + Weight(c[4]) + Weight(c[5]) + Weight(c[6])
      BY <3>1, JoinedFacts
    <3>3. Len(Joined(c)) = 1 + 1 + 1 + 1 + 1 + 1 + 0
      BY <2>2, <2>3, <3>2
    <3> QED BY <3>3
  <2> QED BY <1>1, <1>3, <2>1, <2>2, <2>4 DEF v, InStep, Second, Pair, Expr
<1> QED BY <1>1, <1>2, <1>3

\* A step of the form that leaves the picker sound, with the panel q after it.
Resulting(s, q) == cron' = s.cron /\ input' = s.input /\ panel' = q

LEMMA ResultKeeps ==
    ASSUME PickerInv, UNCHANGED <<stored, phase>>, phase = "ready",
           NEW s, Sound(s), NEW q, Resulting(s, q), q = <<>> \/ q \in Panels,
           Untouched' => Second(s) /\ (q # <<>> => Shows(q, s)),
           sent' = <<>> \/ sent' = sent \/ sent' = <<input>>,
           edits' \in 0..MaxEdits, saves' \in 0..MaxSaves
    PROVE  PickerInv'
<1>1. s = Pair(s.cron, s.input) /\ s.cron \in Crons /\ s.input \in Expr
        /\ InStep(s.cron, s.input) /\ Led(s.cron, s.input)
  BY DEF Sound
<1>2. TypeOK'
  BY <1>1 DEF PickerInv, TypeOK, Resulting, Crons, Panels
<1>3. WholeInputIsCron'
  BY <1>1 DEF WholeInputIsCron, Whole, Resulting, InStep
<1>4. LoadingIsStored'
  BY DEF LoadingIsStored
<1>5. SecondsUntouched'
  BY DEF SecondsUntouched, Picker, Second, Shows, Resulting
<1>6. LedBySeconds'
  BY <1>1 DEF LedBySeconds, Resulting, Led, LacksSeconds
<1> QED BY <1>2, <1>3, <1>4, <1>5, <1>6 DEF PickerInv

(* A choice in a tab other than the first leaves what the first one shows.   *)
LEMMA EditKeeps ==
    ASSUME PickerInv, NEW i \in EditTabs, NEW tab \in Tab, Edit(i, tab)
    PROVE  PickerInv'
<1> USE PickerAssumption
<1>1. phase = "ready" /\ panel # <<>> /\ panel \in Panels
  BY DEF Edit, PickerInv, TypeOK, Panels
<1>2. Sound(Picker) /\ UNCHANGED <<stored, sent, phase, input, cron, saves>>
  BY <1>1, PickerSound DEF Edit, PickerInv
<1> DEFINE q == [panel EXCEPT ![i] = tab]
<1>3. q \in Panels /\ panel' = q
  BY <1>1 DEF Edit, Panels, Tabs
<1>4. Untouched' => Second(Picker) /\ Shows(q, Picker)
  <2>1. i \in Tabs /\ 0 \in Tabs /\ (0 \notin EditTabs => i # 0)
    BY DEF Tabs
  <2>2. 0 \notin EditTabs => q[0] = panel[0]
    BY <1>1, <2>1 DEF Panels
  <2>3. Untouched' => 0 \notin EditTabs
    BY DEF Untouched, Edit, PickerInv, TypeOK
  <2> QED BY <1>1, <2>2, <2>3 DEF PickerInv, SecondsUntouched, Untouched, Shows
<1> HIDE DEF q
<1>5. Resulting(Picker, q)
  BY <1>2, <1>3 DEF Resulting, Picker
<1>6. edits' \in 0..MaxEdits /\ saves' \in 0..MaxSaves
  BY <1>2 DEF Edit, PickerInv, TypeOK
<1> QED BY <1>1, <1>2, <1>3, <1>4, <1>5, <1>6, ResultKeeps

LEMMA UserEditKeeps == PickerInv /\ UserEdit => PickerInv'
<1> USE PickerAssumption
<1> SUFFICES ASSUME PickerInv, NEW i \in EditTabs,
                    \/ \E type \in RadioTypes : ChooseRadio(i, type)
                    \/ \E v \in Typed : TypeNumber(i, v)
                    \/ \E n \in Boxes(i) : ToggleBox(i, n)
             PROVE  PickerInv'
  BY DEF UserEdit
<1>1. i \in Tabs /\ Low[i] \in Nat
  BY DEF Tabs, Low
<1>2. panel # <<>> => panel[i] \in Tab
  BY <1>1 DEF PickerInv, TypeOK
<1>3. CASE \E type \in RadioTypes : ChooseRadio(i, type)
  <2>1. PICK type \in RadioTypes : ChooseRadio(i, type)
    BY <1>3
  <2> DEFINE tab == [panel[i] EXCEPT !.radio = type]
  <2>2. panel # <<>> /\ Edit(i, RadioDefaults(i, tab, type))
    BY <2>1 DEF ChooseRadio
  <2>3. tab \in Tab
    BY <1>2, <2>2 DEF Tab
  <2> HIDE DEF tab
  <2>4. RadioDefaults(i, tab, type) \in Tab
    BY <1>1, <2>3, RadioDefaultsType
  <2> QED BY <2>2, <2>4, EditKeeps
<1>4. CASE \E v \in Typed : TypeNumber(i, v)
  <2>1. PICK v \in Typed : TypeNumber(i, v)
    BY <1>4
  <2> DEFINE tab == panel[i]
  <2>2. panel # <<>> /\ tab \in Tab /\ v \in Number
    BY <1>2, <2>1 DEF TypeNumber, Number
  <2>3. /\ [tab EXCEPT !.start = v] \in Tab /\ [tab EXCEPT !.end = v] \in Tab
        /\ [tab EXCEPT !.begin = v] \in Tab /\ [tab EXCEPT !.rate = v] \in Tab
        /\ [tab EXCEPT !.weekday = v] \in Tab /\ [tab EXCEPT !.lastweek = v] \in Tab
    BY <2>2 DEF Tab, Number
  <2>4. \/ Edit(i, [tab EXCEPT !.start = v]) \/ Edit(i, [tab EXCEPT !.end = v])
        \/ Edit(i, [tab EXCEPT !.begin = v]) \/ Edit(i, [tab EXCEPT !.rate = v])
        \/ Edit(i, [tab EXCEPT !.weekday = v]) \/ Edit(i, [tab EXCEPT !.lastweek = v])
    BY <2>1 DEF TypeNumber
  <2> HIDE DEF tab
  <2> QED BY <2>3, <2>4, EditKeeps
<1>5. CASE \E n \in Boxes(i) : ToggleBox(i, n)
  <2>1. PICK n \in Boxes(i) : ToggleBox(i, n)
    BY <1>5
  <2> DEFINE boxes == panel[i].boxes
             new == IF n \in boxes THEN boxes \ {n} ELSE boxes \cup {n}
             tab == [panel[i] EXCEPT !.boxes = new]
  <2>2. panel # <<>> /\ Edit(i, tab)
    BY <2>1 DEF ToggleBox
  <2>3. boxes \subseteq Nat /\ n \in Nat
    <3>1. n \in Low[i]..High[i]
      BY <2>1 DEF ToggleBox
    <3> QED BY <1>1, <1>2, <2>2, <3>1 DEF Tab
  <2>4. new \subseteq Nat
    BY <2>3
  <2> HIDE DEF new
  <2>5. tab \in Tab
    BY <1>2, <2>2, <2>4 DEF Tab
  <2> HIDE DEF tab
  <2> QED BY <2>2, <2>5, EditKeeps
<1> QED BY <1>3, <1>4, <1>5

LEMMA InvInit == Init => PickerInv
<1> USE PickerAssumption, ConstantTypes
<1> QED BY DEF Init, PickerInv, TypeOK, WholeInputIsCron, LoadingIsStored,
               SecondsUntouched, LedBySeconds, Expr, Crons

(* The picker's own steps: every one is a sound result.                      *)
LEMMA PanelStepKeeps ==
    PickerInv /\ (ClickInput \/ ClickGear \/ ClickOutside \/ Confirm) => PickerInv'
<1> SUFFICES ASSUME PickerInv, ClickInput \/ ClickGear \/ ClickOutside \/ Confirm
             PROVE  PickerInv'
  OBVIOUS
<1>1. phase = "ready" /\ UNCHANGED <<stored, sent, phase, edits, saves>>
  BY DEF ClickInput, ClickGear, ClickOutside, Confirm
<1>2. edits' \in 0..MaxEdits /\ saves' \in 0..MaxSaves /\ (Untouched' => Untouched)
  BY <1>1 DEF PickerInv, TypeOK, Untouched
<1>3. /\ Sound(Picker) /\ (panel # <<>> => panel \in Panels)
      /\ Picker.cron = cron /\ Picker.input = input /\ cron \in Crons
  <2>1. Sound(Picker) /\ (panel # <<>> => panel \in Panels)
    BY <1>1, PickerSound DEF PickerInv
  <2> QED BY <2>1 DEF Picker, Sound
<1>4. Untouched => Second(Picker) /\ (panel # <<>> => Shows(panel, Picker))
  BY <1>1 DEF PickerInv, SecondsUntouched
<1> DEFINE shown == Panel(cron)
           rendered == Render(Picker, panel)
<1>5. /\ Sound(rendered) /\ shown \in Panels
      /\ Untouched => Second(rendered) /\ Shows(shown, rendered)
  BY <1>3, <1>4, RenderSound, PanelType
<1>6. CASE ClickInput
  <2>1. Resulting(rendered, shown)
    BY <1>6 DEF ClickInput, Becomes, Resulting
  <2> HIDE DEF rendered, shown
  <2> QED BY <1>1, <1>2, <1>5, <2>1, ResultKeeps
<1>7. CASE ClickGear
  <2> DEFINE s == Remove(rendered, shown)
  <2>1. Resulting(s, <<>>)
    BY <1>7 DEF ClickGear, Becomes, Resulting
  <2> HIDE DEF rendered, shown
  <2>2. Sound(s) /\ (Untouched => Second(s))
    BY <1>5, RemoveSound
  <2> HIDE DEF s
  <2> QED BY <1>1, <1>2, <2>1, <2>2, ResultKeeps
<1>8. CASE ClickOutside
  <2> DEFINE s == Remove(Picker, panel)
  <2>1. Resulting(s, <<>>)
    BY <1>8 DEF ClickOutside, Becomes, Resulting
  <2>2. Sound(s) /\ (Untouched => Second(s))
    BY <1>3, <1>4, RemoveSound
  <2> HIDE DEF s
  <2> QED BY <1>1, <1>2, <2>1, <2>2, ResultKeeps
<1>9. CASE Confirm
  <2> DEFINE c == Absorb(cron, panel)
             e == Expression(panel)
  <2>1. panel \in Panels /\ panel # <<>> /\ Picker = Pair(cron, input)
    BY <1>3, <1>9 DEF Confirm, Picker, Pair
  <2>2. Becomes(Remove(SetValue(SetValue([Picker EXCEPT !.cron = c], Cron7to5(e)), e), panel))
          /\ panel' = <<>>
    BY <1>9 DEF Confirm
  <2>3. Becomes(Pair(c, e))
    BY <1>3, <2>1, <2>2, ConfirmIs
  <2>4. Resulting(Pair(c, e), <<>>)
    BY <2>2, <2>3 DEF Becomes, Resulting
  <2>5. Sound(Pair(c, e))
    <3>1. c \in Crons /\ e \in Expr /\ InStep(c, e) /\ Led(c, e)
      BY <1>3, <2>1, AbsorbFacts, ExpressionFacts
    <3> HIDE DEF c, e
    <3> QED BY <3>1 DEF Sound, Pair
  <2>6. Untouched => Second(Pair(c, e))
    <3> SUFFICES ASSUME Untouched PROVE Second(Pair(c, e))
      OBVIOUS
    <3>1. ParseTab(0, panel[0]) = cron[0] /\ cron[0] \in {Zero, Every}
      BY <1>3, <1>4, <2>1 DEF Shows, Second
    <3>2. cron[0] # Absent /\ 0 \in Tabs
      BY <3>1 DEF Zero, Every, Absent, Tok, Tabs
    <3>3. c[0] = cron[0] /\ e # <<>> /\ e[1] = cron[0]
      BY <2>1, <3>1, <3>2, ExpressionFacts DEF Absorb
    <3> HIDE DEF c, e
    <3> QED BY <3>1, <3>3 DEF Second, Pair
  <2> HIDE DEF c, e
  <2> QED BY <1>1, <1>2, <2>4, <2>5, <2>6, ResultKeeps
<1> QED BY <1>6, <1>7, <1>8, <1>9

LEMMA SaveKeeps == PickerInv /\ ClickSave => PickerInv'
<1> SUFFICES ASSUME PickerInv, ClickSave PROVE PickerInv'
  OBVIOUS
<1>1. /\ phase # "closed" /\ sent' = <<input>> /\ panel' = <<>>
      /\ UNCHANGED <<stored, phase, edits>>
      /\ Becomes(Remove(Picker, panel))
      /\ saves < MaxSaves /\ saves' = saves + 1
  BY DEF ClickSave
<1>2. edits' \in 0..MaxEdits /\ saves' \in 0..MaxSaves /\ (Untouched' => Untouched)
  BY <1>1, PickerAssumption DEF PickerInv, TypeOK, Untouched
<1>3. CASE phase = "ready"
  <2>1. Sound(Picker) /\ (panel # <<>> => panel \in Panels)
    BY <1>3, PickerSound DEF PickerInv
  <2>2. Untouched => Second(Picker) /\ (panel # <<>> => Shows(panel, Picker))
    BY <1>3 DEF PickerInv, SecondsUntouched
  <2> DEFINE s == Remove(Picker, panel)
  <2>3. Sound(s) /\ (Untouched => Second(s))
    BY <2>1, <2>2, RemoveSound
  <2>4. Resulting(s, <<>>)
    BY <1>1 DEF Becomes, Resulting
  <2> HIDE DEF s
  <2> QED BY <1>1, <1>2, <1>3, <2>3, <2>4, ResultKeeps
<1>4. CASE phase # "ready"
  <2>1. phase = "loading" /\ panel = <<>>
    BY <1>1, <1>4 DEF PickerInv, TypeOK
  <2>2. UNCHANGED <<cron, input>>
    BY <1>1, <2>1 DEF Remove, Becomes, Picker
  <2> QED BY <1>1, <1>2, <2>1, <2>2
          DEF PickerInv, TypeOK, WholeInputIsCron, LoadingIsStored, SecondsUntouched,
              LedBySeconds
<1> QED BY <1>3, <1>4

LEMMA FormStepKeeps ==
    PickerInv /\ (OpenForm \/ InitPicker \/ Accepted \/ Refused \/ Cancel) => PickerInv'
<1> USE ConstantTypes
<1> SUFFICES ASSUME PickerInv,
                    OpenForm \/ InitPicker \/ Accepted \/ Refused \/ Cancel
             PROVE  PickerInv'
  OBVIOUS
<1>1. CASE OpenForm
  BY <1>1 DEF OpenForm, PickerInv, TypeOK, WholeInputIsCron, LoadingIsStored,
              SecondsUntouched, LedBySeconds
<1>2. CASE InitPicker
  <2> DEFINE v == Cron5to7(input)
             c == IF Len(v) >= 6
                    THEN [i \in Tabs |-> IF i < 6 THEN v[i + 1] ELSE Absent]
                    ELSE DefaultCron
  <2>1. /\ phase = "loading" /\ phase' = "ready" /\ input' = v /\ cron' = c
        /\ UNCHANGED <<stored, sent, panel, edits, saves>>
    BY <1>2 DEF InitPicker
  <2>2. v \in Expr /\ c \in Crons /\ InStep(c, v) /\ Second(Pair(c, v))
    BY InitPickerFacts DEF PickerInv, TypeOK
  <2> HIDE DEF v, c
  <2>3. panel = <<>>
    BY <2>1 DEF PickerInv, TypeOK
  <2>4. TypeOK'
    BY <2>1, <2>2, <2>3 DEF PickerInv, TypeOK, Crons
  <2>5. WholeInputIsCron'
    BY <2>1, <2>2 DEF WholeInputIsCron, Whole, InStep
  <2>6. SecondsUntouched'
    BY <2>1, <2>2, <2>3 DEF SecondsUntouched, Second, Pair, Picker
  <2>7. LoadingIsStored'
    BY <2>1 DEF LoadingIsStored
  <2>8. LedBySeconds'
    BY <2>1, <2>2 DEF LedBySeconds, Led, Second, Pair
  <2> QED BY <2>4, <2>5, <2>6, <2>7, <2>8 DEF PickerInv
<1>3. CASE Accepted
  <2>1. Head(sent) \in Expr
    BY <1>3 DEF Accepted, PickerInv, TypeOK
  <2> QED BY <1>3, <2>1 DEF Accepted, Gone, PickerInv, TypeOK, WholeInputIsCron,
                            LoadingIsStored, SecondsUntouched, LedBySeconds, Crons
<1>4. CASE Refused
  BY <1>4 DEF Refused, PickerInv, TypeOK, WholeInputIsCron, Whole, LoadingIsStored,
              SecondsUntouched, Untouched, LedBySeconds, Picker
<1>5. CASE Cancel
  BY <1>5 DEF Cancel, Gone, PickerInv, TypeOK, WholeInputIsCron, LoadingIsStored,
              SecondsUntouched, LedBySeconds, Crons
<1> QED BY <1>1, <1>2, <1>3, <1>4, <1>5

LEMMA Invariance == Spec => []PickerInv
<1>1. PickerInv /\ [Next]_vars => PickerInv'
  <2> SUFFICES ASSUME PickerInv, [Next]_vars PROVE PickerInv'
    OBVIOUS
  <2>1. CASE UNCHANGED vars
    BY <2>1 DEF vars, PickerInv, TypeOK, WholeInputIsCron, Whole, LoadingIsStored,
                SecondsUntouched, Untouched, LedBySeconds, Led, LacksSeconds, Picker
  <2> QED BY <2>1, FormStepKeeps, PanelStepKeeps, UserEditKeeps, SaveKeeps DEF Next
<1> QED BY <1>1, InvInit, PTL DEF Spec

(* The form, the picker and its panel keep their types, for any schedules    *)
(* that the server has stored and any numbers typed.                         *)
THEOREM TypeCorrect == Spec => []TypeOK
<1>1. PickerInv => TypeOK
  BY DEF PickerInv
<1> QED BY <1>1, Invariance, PTL

(* Whatever is opened, chosen, confirmed or clicked away, the input and      *)
(* options.cron agree field by field when the input has all fields, with a   *)
(* panel open too.                                                           *)
THEOREM InputIsCron == Spec => []WholeInputIsCron
<1>1. PickerInv => WholeInputIsCron
  BY DEF PickerInv
<1> QED BY <1>1, Invariance, PTL

(* What the first parse of a new panel leaves, and that a second one, which  *)
(* the click on the gear adds, leaves the same.                              *)
LEMMA CheckCronShows ==
    ASSUME NEW s, Sound(s), NEW c \in Crons, NEW i \in Tabs, Representable(i, c[i])
    PROVE  /\ CheckCron(s, Panel(c)).cron[i] = c[i]
           /\ Has(CheckCron(s, Panel(c)).input, c[i])
<1> DEFINE p == Panel(c)
<1>1. p \in Panels /\ p[i] = TabContent(i, c[i]) /\ c[i] \in Token
  BY PanelType DEF Panel, Crons
<1>2. ParseTab(i, p[i]) = c[i] /\ c[i] # Absent
  BY <1>1, RoundTrip
<1> HIDE DEF p
<1>3. Has(Expression(p), c[i]) /\ Expression(p) \in Expr
  BY <1>1, <1>2, ExpressionFacts
<1>4. Expression(p) # <<>>
  BY <1>3 DEF Has
<1>5. CheckCron(s, p) = Pair(Absorb(s.cron, p), Expression(p))
  BY <1>4, CheckCronIs DEF Sound
<1>6. Absorb(s.cron, p)[i] = c[i]
  BY <1>2 DEF Absorb
<1>7. CheckCron(s, p).cron[i] = c[i] /\ Has(CheckCron(s, p).input, c[i])
  BY <1>3, <1>5, <1>6 DEF Pair
<1> QED BY <1>7 DEF p

(* Opening the panel changes no field that the picker can represent, be it   *)
(* by a click on the input or on the gear, and with a panel open or not.     *)
THEOREM OpeningKeeps == Spec => OpeningKeepsFields
<1> DEFINE Goal == ClickInput \/ ClickGear =>
                     \A i \in Tabs : Representable(i, cron[i]) =>
                       /\ cron'[i] = cron[i]
                       /\ \E k \in DOMAIN input' : input'[k] = cron[i]
<1>1. ASSUME PickerInv, PickerInv', Next PROVE Goal
  <2> SUFFICES ASSUME ClickInput \/ ClickGear, NEW i \in Tabs, Representable(i, cron[i])
               PROVE  cron'[i] = cron[i] /\ Has(input', cron[i]) /\ input' \in Expr
    BY DEF Has, Expr
  <2>1. phase = "ready" /\ input' \in Expr
    BY <1>1 DEF ClickInput, ClickGear, PickerInv, TypeOK
  <2>2. Sound(Picker) /\ (panel # <<>> => panel \in Panels)
    BY <1>1, <2>1, PickerSound DEF PickerInv
  <2>3. Picker.cron = cron /\ cron \in Crons
    BY <2>2 DEF Picker, Sound
  <2> DEFINE removed  == Remove(Picker, panel)
             shown    == Panel(cron)
             rendered == CheckCron(removed, shown)
  <2>4. Sound(removed) /\ Sound(rendered) /\ Render(Picker, panel) = rendered
    BY <2>2, <2>3, RemoveSound, RenderSound DEF Render
  <2>5. rendered.cron[i] = cron[i] /\ Has(rendered.input, cron[i])
    BY <2>3, <2>4, CheckCronShows
  <2>6. CASE ClickInput
    <3>1. cron' = rendered.cron /\ input' = rendered.input
      BY <2>4, <2>6 DEF ClickInput, Becomes
    <3> QED BY <2>1, <2>5, <3>1
  <2>7. CASE ClickGear
    <3> DEFINE s == CheckCron(rendered, shown)
    <3>1. Remove(rendered, shown) = s
      BY PanelIsOpen DEF Remove
    <3>2. cron' = s.cron /\ input' = s.input
      BY <2>4, <2>7, <3>1 DEF ClickGear, Becomes
    <3>3. s.cron[i] = cron[i] /\ Has(s.input, cron[i])
      BY <2>3, <2>4, CheckCronShows
    <3> QED BY <2>1, <3>2, <3>3
  <2> QED BY <2>6, <2>7
<1>2. PickerInv /\ PickerInv' /\ [Next]_vars => [Goal]_vars
  BY <1>1
<1>3. [][Goal]_vars => OpeningKeepsFields
  BY PTL DEF OpeningKeepsFields
<1> QED BY <1>2, <1>3, Invariance, PTL DEF Spec

(* An accepted schedule that the form sends after the picker has arrived     *)
(* begins with the seconds, unless a choice in the panel has cleared them.   *)
THEOREM RunnableIsMisread == Spec => RunnableOnlyUntouchedOrMisread
<1> DEFINE Origin(e) == \/ phase = "loading" /\ e = stored
                        \/ phase = "ready" /\ e[1] \in {Zero, cron[0]}
                        \/ phase = "ready" /\ 0 \in EditTabs /\ edits > 0
                             /\ LacksSeconds(cron, e)
           Goal == sent' # <<>> /\ sent = <<>> /\ FromCrontab(Head(sent')) =>
                     Origin(Head(sent'))
<1>1. ASSUME PickerInv, Next PROVE Goal
  <2> SUFFICES ASSUME sent' # <<>>, sent = <<>> PROVE Origin(Head(sent'))
    OBVIOUS
  <2>1. ClickSave
    <3>1. UserEdit => UNCHANGED sent
      BY DEF UserEdit, ChooseRadio, TypeNumber, ToggleBox, Edit
    <3> QED BY <1>1, <3>1 DEF Next, OpenForm, InitPicker, ClickInput, ClickGear,
                             ClickOutside, Confirm, Accepted, Refused, Cancel
  <2>2. phase # "closed" /\ Head(sent') = input /\ phase \in {"closed", "loading", "ready"}
    BY <1>1, <2>1 DEF ClickSave, PickerInv, TypeOK
  <2>3. phase = "loading" => input = stored
    BY <1>1 DEF PickerInv, LoadingIsStored
  <2>4. phase = "ready" /\ Untouched => input[1] \in {Zero, cron[0]}
    BY <1>1 DEF PickerInv, SecondsUntouched, Second, Picker
  <2>5. phase = "ready" => input[1] \in {Zero, cron[0]} \/ LacksSeconds(cron, input)
    BY <1>1 DEF PickerInv, LedBySeconds, Led
  <2>6. ~Untouched => 0 \in EditTabs /\ edits > 0
    BY <1>1, PickerAssumption DEF Untouched, PickerInv, TypeOK
  <2> QED BY <2>2, <2>3, <2>4, <2>5, <2>6
<1>2. PickerInv /\ [Next]_vars => [Goal]_vars
  BY <1>1
<1>3. [][Goal]_vars => RunnableOnlyUntouchedOrMisread
  BY PTL DEF RunnableOnlyUntouchedOrMisread
<1> QED BY <1>2, <1>3, Invariance, PTL DEF Spec
=============================================================================
