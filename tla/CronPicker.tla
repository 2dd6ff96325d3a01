----------------------------- MODULE CronPicker -----------------------------
(***************************************************************************)
(* The schedule field of the policy form (templates/sync.html) and the     *)
(* cron picker behind it (static/layui_exts/cron.js; the copy in           *)
(* layui_exts/cron/ differs in the path of its stylesheet only).           *)
(*                                                                         *)
(* An expression is a sequence of tokens, one for each of its blank-       *)
(* separated fields.  A token is what the picker tells apart in a field:   *)
(* its kind and its numbers.  a and b are sets of at most one number, {}   *)
(* standing for a number field that is empty; a list has its numbers in a. *)
(*                                                                         *)
(*   every "*"           range  "a-b"     weekday "aW"    list "1,5,9"     *)
(*   unspecified "?"     rate   "a/b"     last    "aL"    name "MON"       *)
(*   everyRate "*/b"     step   "a-x/b"   absent  ""      wed  "WED"       *)
(*                                                                         *)
(* "WED" is the day name with a W in it.  Only the number fields of the    *)
(* picker let a negative number in, so a list or "*/b" has none.           *)
(***************************************************************************)
EXTENDS Integers, Sequences

CONSTANTS
  Schedules,  \* what policies.schedule may hold when the page is opened
  Typed,      \* what a user types into a number field: sets of 0 or 1 number
  EditTabs,   \* the tabs in which the user makes choices
  MaxEdits,   \* bound: choices in all panels together
  MaxSaves    \* bound: clicks on the form's save button

\* A token of each kind, and no numbers but those that its kind has.
Token ==
  [kind : {"every", "unspecified", "name", "wed", "absent"}, a : {{}}, b : {{}}]
    \cup [kind : {"list"}, a : SUBSET Nat, b : {{}}]
    \cup [kind : {"weekday", "last"}, a : SUBSET Int, b : {{}}]
    \cup [kind : {"everyRate"}, a : {{}}, b : SUBSET Nat]
    \cup [kind : {"range", "rate", "step"}, a : SUBSET Int, b : SUBSET Int]

ASSUME PickerAssumption ==
  /\ Schedules \subseteq Seq(Token)
  /\ Typed \subseteq SUBSET Int
  /\ \A v \in Typed : \A m, n \in v : m = n
  /\ EditTabs \subseteq 0..6
  /\ MaxEdits \in Nat
  /\ MaxSaves \in Nat

VARIABLES
  stored,  \* policies.schedule on the server; <<>> for none
  sent,    \* the save request under way: <<>> or <<expression>>
  phase,   \* the form: "closed", "loading" (its picker is), "ready"
  input,   \* the value of #policy-cron-input
  cron,    \* options.cron of the form's picker
  panel,   \* the open panel, tab by tab; <<>> when there is none
  edits,   \* choices made so far
  saves    \* clicks on the save button

vars == <<stored, sent, phase, input, cron, panel, edits, saves>>

-----------------------------------------------------------------------------
(* Tokens and expressions.                                                 *)

Tok(k, a, b) == [kind |-> k, a |-> a, b |-> b]
Every        == Tok("every", {}, {})
Unspecified  == Tok("unspecified", {}, {})
Absent       == Tok("absent", {}, {})
LastDay      == Tok("last", {}, {})
Zero         == Tok("list", {0}, {})

Negative(v) == \E n \in v : n < 0
Magnitude(v) == {-n : n \in v}

\* Class.prototype.config: the ranges of the seven tabs, seconds to years.
Tabs == 0..6
Low  == [i \in Tabs |-> IF i \in 3..5 THEN 1 ELSE 0]
High == [i \in Tabs |-> CASE i \in {0, 1} -> 59 [] i = 2 -> 23 [] i = 3 -> 31
                          [] i = 4 -> 12 [] i = 5 -> 7 [] OTHER -> -1]
DefaultCron == [i \in Tabs |-> CASE i = 5 -> Unspecified
                                 [] i = 6 -> Absent [] OTHER -> Every]

\* sync.html: between the five fields of the server and the picker's seven.
Cron5to7(e) ==
  IF e = <<>> THEN <<Zero, Every, Every, Every, Every, Unspecified, Every>>
  ELSE <<Zero>> \o e \o (IF Len(e) = 6 THEN <<>> ELSE <<Every>>)
Cron7to5(e) == IF Len(e) >= 6 THEN SubSeq(e, 2, 6) ELSE e

-----------------------------------------------------------------------------
(* A tab of the panel: the radio button that is checked, what the number   *)
(* fields of its rows hold, and the boxes that are checked.                *)

RadioTypes == {"every", "unspecified", "range", "rate", "weekday", "lastday",
               "lastweek", "custom"}
Number == SUBSET Int
Tab == [radio : RadioTypes \cup {"none"}, start : Number, end : Number,
        begin : Number, rate : Number, weekday : Number, lastweek : Number,
        boxes : SUBSET Nat]

\* The text of the token holds a dash.
Dashed(t) == \/ t.kind \in {"range", "step"}
             \/ t.kind \in {"rate", "weekday", "last"}
                  /\ (Negative(t.a) \/ Negative(t.b))

\* How the picker reads a field; "undefined" when none of its tests applies,
\* and then the first use of the result throws.
TypeOf(i, t) ==
  IF Dashed(t) THEN "range" ELSE
  CASE t.kind \in {"rate", "everyRate"}         -> "rate"
    [] t.kind = "list"                          -> "custom"
    [] t.kind \in {"weekday", "wed"}            -> "weekday"
    [] t.kind = "last" /\ i = 3 /\ t.a = {}     -> "lastday"
    [] t.kind = "last" /\ i = 5                 -> "lastweek"
    [] t.kind = "every"                         -> "every"
    [] t.kind \in {"unspecified", "absent"}     -> "unspecified"
    [] OTHER                                    -> "undefined"

\* What is before and after the first dash.  A number field drops a text that
\* is no number: "0-30/5" leaves 0 and nothing, "-1-5" nothing and 1.
RangeStart(t) ==
  IF t.kind \in {"range", "step"} /\ ~Negative(t.a) THEN t.a ELSE {}
RangeEnd(t) ==
  CASE t.kind = "range" /\ Negative(t.a)                    -> Magnitude(t.a)
    [] t.kind = "range" /\ ~Negative(t.a) /\ ~Negative(t.b) -> t.b
    [] t.kind = "rate" /\ ~Negative(t.a) /\ Negative(t.b)   -> Magnitude(t.b)
    [] OTHER                                                -> {}

\* The rows of a tab: the radio buttons it offers ...
EveryRow(i)       == {"every"}
UnspecifiedRow(i) == IF i >= 3 THEN {"unspecified"} ELSE {}
RangeRow(i)       == {"range"}
RateRow(i)        == IF i < 6 THEN {"rate"} ELSE {}
WeekdayRow(i)     == IF i = 3 THEN {"weekday"} ELSE {}
LastdayRow(i)     == IF i = 3 THEN {"lastday"} ELSE {}
LastweekRow(i)    == IF i = 5 THEN {"lastweek"} ELSE {}
CustomRow(i)      == IF i <= 5 THEN {"custom"} ELSE {}

Offers(i) == EveryRow(i) \cup UnspecifiedRow(i) \cup RangeRow(i) \cup RateRow(i)
  \cup WeekdayRow(i) \cup LastdayRow(i) \cup LastweekRow(i) \cup CustomRow(i)

\* Mutant of CustomGrid: the loop ends before the last box.
CustomGridShort(i, t) == IF i <= 5 /\ TypeOf(i, t) = "custom"
                           THEN t.a \cap (Low[i]..(High[i] - 1)) ELSE {}

\* ... and the boxes of its grid that are checked: the numbers within range.
CustomGrid(i, t) == IF i <= 5 /\ TypeOf(i, t) = "custom"
                      THEN t.a \cap (Low[i]..High[i]) ELSE {}

\* getTabContentChildElem: the tab made from a field of options.cron.
TabContent(i, t) ==
  LET type  == TypeOf(i, t)
      value == IF type \in {"weekday", "lastweek"} THEN t.a ELSE {}
  IN [radio    |-> IF type \in Offers(i) THEN type ELSE "none",
      start    |-> IF type = "range" THEN RangeStart(t) ELSE {},
      end      |-> IF type = "range" THEN RangeEnd(t) ELSE {},
      begin    |-> IF type = "rate" THEN t.a ELSE {},
      rate     |-> IF type = "rate" THEN t.b ELSE {},
      weekday  |-> value,
      lastweek |-> value,
      boxes    |-> CustomGrid(i, t)]

Panel(c) == [i \in Tabs |-> TabContent(i, c[i])]
Renderable(c) == \A i \in Tabs : TypeOf(i, c[i]) # "undefined"

-----------------------------------------------------------------------------
(* From the panel back to an expression.                                   *)

\* parse, one tab: the checked radio button decides.  A tab without one, a
\* grid without a checked box and unspecified years contribute no field.
ParseTab(i, p) ==
  CASE p.radio = "every"                      -> Every
    [] p.radio = "range"                      -> Tok("range", p.start, p.end)
    [] p.radio = "rate"                       -> Tok("rate", p.begin, p.rate)
    [] p.radio = "custom" /\ p.boxes # {}     -> Tok("list", p.boxes, {})
    [] p.radio = "weekday"                    -> Tok("weekday", p.weekday, {})
    [] p.radio = "lastday"                    -> LastDay
    [] p.radio = "lastweek"                   -> Tok("last", p.lastweek, {})
    [] p.radio = "unspecified" /\ i # 6       -> Unspecified
    [] OTHER                                  -> Absent

Field(t) == IF t = Absent THEN <<>> ELSE <<t>>
Joined(c) == Field(c[0]) \o Field(c[1]) \o Field(c[2]) \o Field(c[3])
               \o Field(c[4]) \o Field(c[5]) \o Field(c[6])
Parsed(p) == [i \in Tabs |-> ParseTab(i, p[i])]
Expression(p) == Joined(Parsed(p))

\* Mutant of Absorb: parse only returns the expression.
AbsorbNothing(c, p) == c

\* What parse leaves in options.cron: a missing field keeps its old value.
Absorb(c, p) ==
  [i \in Tabs |-> IF ParseTab(i, p[i]) = Absent THEN c[i] ELSE ParseTab(i, p[i])]

\* setValue, and checkCron: parse the panel, write the result if there is one.
\* s and the results are the pair of options.cron and the input's value.
SetValue(s, e) == [s EXCEPT !.input = e]
CheckCron(s, p) ==
  LET e == Expression(p)
      c == [s EXCEPT !.cron = Absorb(s.cron, p)]
  IN IF e # <<>> THEN SetValue(c, e) ELSE c

\* Mutant of Remove: the panel is closed unread.
RemoveUnread(s, p) == s

\* remove: checkCron on the open panel before it goes.
Remove(s, p) == IF p # <<>> THEN CheckCron(s, p) ELSE s

\* render: the new panel is made from options.cron first; then the previous
\* panel is removed, and checkCron reads the new one.
Render(s, previous) == CheckCron(Remove(s, previous), Panel(s.cron))

Picker == [cron |-> cron, input |-> input]
Becomes(s) == cron' = s.cron /\ input' = s.input

-----------------------------------------------------------------------------
(* The form.                                                               *)

Init ==
  /\ stored \in Schedules
  /\ sent = <<>> /\ phase = "closed" /\ input = <<>>
  /\ cron = DefaultCron /\ panel = <<>> /\ edits = 0 /\ saves = 0

\* The form closes.  A panel that is open then (it was opened again while the
\* request was under way) stays in document.body: without the input it belongs
\* to it writes to nothing, and it is treated as gone.
Gone == /\ phase' = "closed" /\ input' = <<>> /\ cron' = DefaultCron
        /\ panel' = <<>>

\* openPolicyForm: the input shows the stored schedule until the script and
\* the stylesheet of the picker have arrived.
OpenForm ==
  /\ phase = "closed" /\ sent = <<>> /\ saves < MaxSaves
  /\ phase' = "loading" /\ input' = stored
  /\ UNCHANGED <<stored, sent, cron, panel, edits, saves>>

\* Mutant of InitPicker: options.cron has no years, which the panel reads.
InitPickerNoYears ==
  /\ phase = "loading"
  /\ LET value == Cron5to7(input)
     IN input' = value /\ cron' = [i \in 0..5 |-> value[i + 1]]
  /\ phase' = "ready"
  /\ UNCHANGED <<stored, sent, panel, edits, saves>>

\* init: the picker's value goes into the input, its first six fields into
\* options.cron.
InitPicker ==
  /\ phase = "loading"
  /\ LET value == Cron5to7(input)
     IN /\ input' = value
        /\ cron' = IF Len(value) >= 6
                     THEN [i \in Tabs |-> IF i < 6 THEN value[i + 1] ELSE Absent]
                     ELSE DefaultCron
  /\ phase' = "ready"
  /\ UNCHANGED <<stored, sent, panel, edits, saves>>

\* A click on the input, whether a panel is open or not.
ClickInput ==
  /\ phase = "ready" /\ Renderable(cron)
  /\ UNCHANGED <<stored, sent, phase, edits, saves>>
  /\ panel' = Panel(cron)
  /\ Becomes(Render(Picker, panel))

\* A click on the gear: it clicks the input, and then goes on to the document,
\* whose handler removes the panel, the gear being neither input nor panel.
ClickGear ==
  /\ phase = "ready" /\ Renderable(cron)
  /\ UNCHANGED <<stored, sent, phase, edits, saves>>
  /\ panel' = <<>>
  /\ Becomes(Remove(Render(Picker, panel), Panel(cron)))

\* A click on anything else outside the panel.
ClickOutside ==
  /\ phase = "ready" /\ panel # <<>>
  /\ Becomes(Remove(Picker, panel))
  /\ panel' = <<>>
  /\ UNCHANGED <<stored, sent, phase, edits, saves>>

\* Mutant of Confirm: the page's callback has the last word.
ConfirmDoneLast ==
  /\ phase = "ready" /\ panel # <<>>
  /\ Becomes(SetValue(Remove(Picker, panel), Cron7to5(Expression(panel))))
  /\ panel' = <<>>
  /\ UNCHANGED <<stored, sent, phase, edits, saves>>

\* The confirm button: the page's done callback writes the five fields, then
\* setValue writes all of them, and remove does so once more.
Confirm ==
  /\ phase = "ready" /\ panel # <<>>
  /\ LET e      == Expression(panel)
         called == SetValue([Picker EXCEPT !.cron = Absorb(cron, panel)],
                            Cron7to5(e))
     IN Becomes(Remove(SetValue(called, e), panel))
  /\ panel' = <<>>
  /\ UNCHANGED <<stored, sent, phase, edits, saves>>

-----------------------------------------------------------------------------
(* Choices in the open panel.                                              *)

Edit(i, tab) ==
  /\ phase = "ready" /\ panel # <<>> /\ edits < MaxEdits
  /\ panel' = [panel EXCEPT ![i] = tab]
  /\ edits' = edits + 1
  /\ UNCHANGED <<stored, sent, phase, input, cron, saves>>

OrElse(v, n) == IF v = {} THEN {n} ELSE v

\* A radio button is clicked: empty number fields of its row get defaults,
\* an empty grid its first box.
RadioDefaults(i, tab, type) ==
  CASE type = "range"    -> [tab EXCEPT !.start = OrElse(@, 0), !.end = OrElse(@, 2)]
    [] type = "rate"     -> [tab EXCEPT !.begin = OrElse(@, 0), !.rate = OrElse(@, 2)]
    [] type = "custom"   -> [tab EXCEPT !.boxes = OrElse(@, Low[i])]
    [] type = "weekday"  -> [tab EXCEPT !.weekday = OrElse(@, 1)]
    [] type = "lastweek" -> [tab EXCEPT !.lastweek = OrElse(@, 1)]
    [] OTHER             -> tab

ChooseRadio(i, type) ==
  /\ panel # <<>> /\ type \in Offers(i)
  /\ Edit(i, RadioDefaults(i, [panel[i] EXCEPT !.radio = type], type))

\* A number is typed, or a box clicked, in the row that is chosen.
TypeNumber(i, v) ==
  /\ panel # <<>>
  /\ LET tab == panel[i]
     IN \/ tab.radio = "range"    /\ Edit(i, [tab EXCEPT !.start = v])
        \/ tab.radio = "range"    /\ Edit(i, [tab EXCEPT !.end = v])
        \/ tab.radio = "rate"     /\ Edit(i, [tab EXCEPT !.begin = v])
        \/ tab.radio = "rate"     /\ Edit(i, [tab EXCEPT !.rate = v])
        \/ tab.radio = "weekday"  /\ Edit(i, [tab EXCEPT !.weekday = v])
        \/ tab.radio = "lastweek" /\ Edit(i, [tab EXCEPT !.lastweek = v])

ToggleBox(i, n) ==
  /\ panel # <<>> /\ panel[i].radio = "custom" /\ n \in Low[i]..High[i]
  /\ Edit(i, [panel[i] EXCEPT !.boxes = IF n \in @ THEN @ \ {n} ELSE @ \cup {n}])

-----------------------------------------------------------------------------
(* Saving.                                                                 *)

\* The save button: the form's handler reads the input and sends it; after it
\* the click reaches the document, and an open panel is removed.
ClickSave ==
  /\ phase # "closed" /\ sent = <<>> /\ saves < MaxSaves
  /\ sent' = <<input>>
  /\ Becomes(Remove(Picker, panel))
  /\ panel' = <<>> /\ saves' = saves + 1
  /\ UNCHANGED <<stored, phase, edits>>

\* The server stores the schedule as it is; the form closes on the answer.
Accepted ==
  /\ sent # <<>>
  /\ stored' = Head(sent) /\ sent' = <<>>
  /\ Gone
  /\ UNCHANGED <<edits, saves>>

\* The server refuses (the policy or its source is gone): the form stays.
Refused ==
  /\ sent # <<>>
  /\ sent' = <<>>
  /\ UNCHANGED <<stored, phase, input, cron, panel, edits, saves>>

Cancel ==
  /\ phase # "closed"
  /\ Gone
  /\ UNCHANGED <<stored, sent, edits, saves>>

Boxes(i) == {Low[i], High[i]}
UserEdit ==
  \E i \in EditTabs : \/ \E type \in RadioTypes : ChooseRadio(i, type)
                      \/ \E v \in Typed : TypeNumber(i, v)
                      \/ \E n \in Boxes(i) : ToggleBox(i, n)

Next == \/ OpenForm \/ InitPicker
        \/ ClickInput \/ ClickGear \/ ClickOutside \/ Confirm
        \/ UserEdit
        \/ ClickSave \/ Accepted \/ Refused \/ Cancel

Spec == Init /\ [][Next]_vars

-----------------------------------------------------------------------------
(* What the scheduler makes of a schedule (external): from_crontab takes   *)
(* five fields, minute to day of week, each within its range.              *)

FieldLow  == <<0, 0, 1, 1, 0>>
FieldHigh == <<59, 23, 31, 12, 6>>
Within(k, v) == v # {} /\ v \subseteq FieldLow[k]..FieldHigh[k]

CrontabField(k, t) ==
  \/ t.kind = "every"
  \/ t.kind = "everyRate" /\ \A n \in t.b : n > 0
  \/ t.kind = "list" /\ Within(k, t.a)
  \/ t.kind = "step" /\ Within(k, t.a)
  \/ t.kind = "range" /\ Within(k, t.a) /\ Within(k, t.b)
       /\ \A m \in t.a, n \in t.b : m <= n
  \/ t.kind = "rate" /\ Within(k, t.a) /\ t.b # {} /\ \A n \in t.b : n > 0
  \/ t.kind \in {"name", "wed"} /\ k = 5

FromCrontab(e) == Len(e) = 5 /\ \A k \in 1..5 : CrontabField(k, e[k])

-----------------------------------------------------------------------------
(* Properties.                                                             *)

Expr == Seq(Token)

\* The types of the form, the picker and its panel.
TypeOK ==
  /\ stored \in Expr
  /\ sent = <<>> \/ (Len(sent) = 1 /\ sent[1] \in Expr)
  /\ phase \in {"closed", "loading", "ready"}
  /\ input \in Expr
  /\ cron \in [Tabs -> Token]
  /\ panel # <<>> => phase = "ready" /\ panel \in [Tabs -> Tab]
  /\ edits \in 0..MaxEdits
  /\ saves \in 0..MaxSaves

\* What the picker can show and write back: its own rows, within its ranges.
Representable(i, t) ==
  \/ t.kind = "every"
  \/ t.kind = "unspecified" /\ i \in 3..5
  \/ t.kind = "range" /\ ~Negative(t.a) /\ ~Negative(t.b)
  \/ t.kind = "rate" /\ i < 6 /\ ~Negative(t.a) /\ ~Negative(t.b)
  \/ t.kind = "list" /\ i < 6 /\ t.a # {} /\ t.a \subseteq Low[i]..High[i]
  \/ t.kind = "weekday" /\ i = 3 /\ ~Negative(t.a)
  \/ t.kind = "last" /\ i = 5 /\ ~Negative(t.a)
  \/ t.kind = "last" /\ i = 3 /\ t.a = {}

\* Every tab that has a value has it in the input.
Whole == Len(input) = Len(Joined(cron))

\* The input and options.cron are written separately, by init and on every
\* opening and closing of the panel.  They agree field by field all the same,
\* unless a tab contributed nothing.
WholeInputIsCron == phase = "ready" /\ Whole => input = Joined(cron)

\* However the panel closes (a click elsewhere, the confirm button, a save that
\* goes on to the document), the input shows all that was chosen in it, and
\* options.cron keeps it for the next opening.  The gear is the exception.
ClosingKeepsChoices ==
  [][panel # <<>> /\ panel' = <<>> /\ phase' = "ready" /\ ~ClickGear =>
       /\ Expression(panel) # <<>> => input' = Expression(panel)
       /\ \A i \in Tabs : ParseTab(i, panel[i]) # Absent =>
            cron'[i] = ParseTab(i, panel[i])]_vars

\* Opening the panel changes no field that the picker can represent: reading a
\* field into its rows and parsing them is the identity there.  If a panel is
\* open already, what was chosen in it is given up.
OpeningKeepsFields ==
  [][ClickInput \/ ClickGear =>
       \A i \in Tabs : Representable(i, cron[i]) =>
          /\ cron'[i] = cron[i]
          /\ \E k \in DOMAIN input' : input'[k] = cron[i]]_vars

\* The input is what the picker joins when its seconds contribute nothing.
LacksSeconds(c, e) ==
  \E S \in SUBSET (Tabs \ {0}) :
     e = Joined([i \in Tabs |-> IF i \in S THEN c[i] ELSE Absent])

\* Once the picker has arrived, the form sends a schedule that the scheduler
\* accepts in two cases only.  One is an accident: another tab contributed
\* nothing, or the stored schedule had three fields, five fields are left, and
\* the first, the seconds, is read as minute.  In the other, after a choice in
\* the panel, the seconds are what contributes nothing (their grid was cleared):
\* nobody else stores a schedule that runs at the times the picker shows.
RunnableOnlyUntouchedOrMisread ==
  [][sent' # <<>> /\ sent = <<>> /\ FromCrontab(Head(sent')) =>
       \/ phase = "loading" /\ Head(sent') = stored
       \/ phase = "ready" /\ Head(sent')[1] \in {Zero, cron[0]}
       \/ phase = "ready" /\ 0 \in EditTabs /\ edits > 0
            /\ LacksSeconds(cron, Head(sent'))]_vars

\* Every schedule that the form stores can be registered by the scheduler.
StoredIsRegistered == stored # <<>> => FromCrontab(stored)

=============================================================================
