-------------------------------- MODULE Desk --------------------------------
(* The main window over an office and its evidence database: what the       *)
(* workspace holds, what its controls show, and the forms it writes with.   *)
(* A window is one thread.  While one of its forms is open, or a handler    *)
(* runs, it takes no other event; other processes write at any time.        *)
(*                                                                          *)
(* "here" is the database of the office modelled; "elsewhere" is another,   *)
(* whose office cannot be opened.  Lists hold identifiers, 0 is no index.   *)
EXTENDS OfficeFile

CONSTANTS
  Shelf,       \* every case, in the order of the case list
  Filed,       \* every matter, in the order of the matter chooser
  DayOf,       \* the day of a setting
  Today,
  Elsewhere,   \* the cases of the other database, at first
  Names,       \* names somebody may act under
  MaxClicks    \* bound on the events of windows

ASSUME DeskAssumption ==
  /\ Cases \cup Elsewhere \subseteq Range(Shelf) /\ Shelf \in Seq(Range(Shelf))
  /\ Matters \subseteq Range(Filed) /\ Filed \in Seq(Range(Filed))
  /\ DOMAIN DayOf = Settings
  /\ None \notin Names /\ MaxClicks \in Nat

VARIABLES
  desk,        \* per window: the workspace and its controls
  elsewhere,   \* the cases of the other database
  users,       \* users of the office here
  clicks

deskVars == <<fileVars, desk, elsewhere, users, clicks>>
theRest == <<matters, calendar, doing, spent, records, written>>

Days == {Today} \cup Range(DayOf)
Click == clicks < MaxClicks /\ clicks' = clicks + 1
At(seq, i) == IF i \in DOMAIN seq THEN seq[i] ELSE None

\* The members of a set in the order of a sequence: the k-th has k - 1 before it.
InOrder(seq, set) ==
  LET found == {i \in DOMAIN seq : seq[i] \in set}
  IN [k \in 1..Cardinality(found) |->
        seq[CHOOSE i \in found : Cardinality({j \in found : j < i}) = k - 1]]
Place(seq, x) == SelectInSeq(seq, LAMBDA y : y = x)
First(seq) == IF seq = << >> THEN 0 ELSE 1

\* What a window may be doing: a stack of forms, the front one first.
Ready(w) == desk[w].running /\ desk[w].forms = << >>
Shows(w, form) == desk[w].running /\ desk[w].forms # << >> /\ Head(desk[w].forms) = form
Put(w, d) == desk' = [desk EXCEPT ![w] = d]

Held(at) == IF at = "here" THEN cases ELSE elsewhere
CaseList(held) == InOrder(Shelf, held)
Active(d) == At(d.list, d.active)

\* refresh_cases, then the selection its callers make when they find the case.
Relisted(d, held) ==
  LET list == CaseList(held) IN
  [d EXCEPT !.list = list,
            !.active = IF Active(d) \in Range(list) THEN Place(list, Active(d)) ELSE First(list)]
Selecting(d, c) == IF c \in Range(d.list) THEN [d EXCEPT !.active = Place(d.list, c)] ELSE d

\* refresh_case_combo and update_title
Captioned(d) == [d EXCEPT !.combo = d.list, !.chosen = d.active, !.title = Active(d)]

\* office_matters: without an office there are none.
MatterList(d, filed) == IF d.at = "here" THEN InOrder(Filed, filed) ELSE << >>

\* docket_day, in docket order.  Office reads it step by step.
DocketOf(day, table) == SetToSortSeq({s \in DOMAIN table : ~table[s].cancelled /\ DayOf[s] = day}, <)

\* Workspace::refresh_court, and what the window paints after it.
Loaded(d, table) == IF d.at = "here" THEN [d EXCEPT !.docket = DocketOf(d.day, table)] ELSE d
Painted(d) ==
  LET grid == IF d.at = "here" THEN d.docket ELSE << >> IN
  [d EXCEPT !.grid = grid, !.focus = First(grid), !.detail = At(grid, First(grid)),
            !.chooser = MatterList(d, DOMAIN matters)]
Showing(d, pane) ==
  LET shown == [d EXCEPT !.pane = pane, !.screen = pane]
  IN IF pane = "Court" THEN Painted(Loaded(shown, settings)) ELSE shown

\* Workspace::open.  Its controls are not part of it.
Opened(d, at) ==
  [d EXCEPT !.at = at, !.list = CaseList(Held(at)), !.active = First(CaseList(Held(at))),
            !.acting = None, !.pane = "Court", !.docket = << >>,
            !.day = IF at = "here" THEN Today ELSE None]

Closed ==
  [running |-> FALSE, at |-> "here", list |-> << >>, active |-> 0, combo |-> << >>, chosen |-> 0,
   title |-> None, chooser |-> << >>, pane |-> "Court", screen |-> "Court", day |-> None,
   docket |-> << >>, grid |-> << >>, focus |-> 0, detail |-> None,
   acting |-> None, label |-> None, forms |-> << >>]

DeskInit ==
  /\ FileInit
  /\ desk = [w \in Windows |-> Closed]
  /\ elsewhere = Elsewhere /\ users = {} /\ clicks = 0

\* wm_create: the Court pane first.
Start(w) ==
  /\ Click
  /\ ~desk[w].running /\ doing[w] = Idle
  /\ Put(w, Showing(Captioned(Opened([Closed EXCEPT !.running = TRUE], "here")), "Court"))
  /\ UNCHANGED <<cases, theRest, elsewhere, users>>

\* The case list.  Its handler borrows the workspace a second time while the
\* first borrow is alive: the window is gone before it shows the case.
ChooseCase(w, i) ==
  /\ Click
  /\ Ready(w) /\ desk[w].screen = "Office"
  /\ i \in DOMAIN desk[w].combo /\ i \in DOMAIN desk[w].list
  /\ Put(w, Closed)
  /\ UNCHANGED <<cases, theRest, elsewhere, users>>

\* Store::open_case: the case is committed with its first production.
AddCase(at, c) ==
  IF at = "here"
  THEN cases' = cases \cup {c} /\ UNCHANGED elsewhere
  ELSE elsewhere' = elsewhere \cup {c} /\ UNCHANGED cases

\* open_case_json: a case of whichever database is open.
OpenNewCase(w, c) ==
  /\ Click
  /\ Ready(w) /\ desk[w].screen = "Office"
  /\ c \notin cases \cup elsewhere
  /\ AddCase(desk[w].at, c)
  /\ Put(w, Captioned(Selecting(Relisted(desk[w], Held(desk[w].at) \cup {c}), c)))
  /\ UNCHANGED <<theRest, users>>

\* Mutant: the case list is not filled again.
ImportQuietly(w, c) ==
  /\ Click
  /\ Ready(w) /\ desk[w].screen = "Office"
  /\ c \in Held(desk[w].at)
  /\ Put(w, Selecting(Relisted(desk[w], Held(desk[w].at)), c))
  /\ UNCHANGED <<cases, theRest, elsewhere, users>>

\* import_json of a batch of a case the database holds.
Import(w, c) ==
  /\ Click
  /\ Ready(w) /\ desk[w].screen = "Office"
  /\ c \in Held(desk[w].at)
  /\ Put(w, Captioned(Selecting(Relisted(desk[w], Held(desk[w].at)), c)))
  /\ UNCHANGED <<cases, theRest, elsewhere, users>>

\* The matter chooser: its index is looked up in a list read afresh, and
\* select_matter looks for the case in the list the workspace holds.
SelectMatter(w, i) ==
  LET m == At(MatterList(desk[w], DOMAIN matters), i) IN
  /\ Click
  /\ Ready(w) /\ desk[w].screen = "Office"
  /\ i \in DOMAIN desk[w].chooser
  /\ m # None /\ matters[m].case \in Range(desk[w].list)
  /\ Put(w, Captioned(Selecting(desk[w], matters[m].case)))
  /\ UNCHANGED <<cases, theRest, elsewhere, users>>

ShowPane(w, pane) ==
  /\ Click
  /\ Ready(w)
  /\ Put(w, Showing(desk[w], pane))
  /\ UNCHANGED <<cases, theRest, elsewhere, users>>

\* The commands of the Court pane and its date box.
MoveDay(w, day) ==
  /\ Click
  /\ Ready(w) /\ desk[w].at = "here"
  /\ Put(w, Painted(Loaded([desk[w] EXCEPT !.day = day], settings)))
  /\ UNCHANGED <<cases, theRest, elsewhere, users>>

\* court_detail: the row is looked up in the docket the workspace holds.
FocusRow(w, i) ==
  /\ Click
  /\ Ready(w) /\ desk[w].screen = "Court"
  /\ i \in DOMAIN desk[w].grid
  /\ Put(w, [desk[w] EXCEPT !.focus = i, !.detail = At(desk[w].docket, i)])
  /\ UNCHANGED <<cases, theRest, elsewhere, users>>

\* The pane on screen, its grid, the matter chooser and the acting label stay.
\* While a job of the open file runs the click is refused and changes nothing;
\* the intake is no part of this module, so here none runs.
OpenDatabase(w, at) ==
  /\ Click
  /\ Ready(w)
  /\ Put(w, Captioned(Opened(desk[w], at)))
  /\ UNCHANGED <<cases, theRest, elsewhere, users>>

----------------------------------------------------------------------------
(* The office commands.  Each opens a form, after asking who is acting.     *)

Forms == {"acting", "client", "matter", "setting", "deadline", "note"}

\* Mutant: the form opens over the pane on screen.
CommandInPlace(w, form) ==
  /\ Click
  /\ Ready(w)
  /\ Put(w, [desk[w] EXCEPT
       !.forms = IF form # "acting" /\ @ = << >> /\ desk[w].acting = None
                 THEN <<"acting", form>> ELSE <<form>>])
  /\ UNCHANGED <<cases, theRest, elsewhere, users>>

OfficeCommand(w, form) ==
  LET d == IF desk[w].pane # "Office" THEN Showing(desk[w], "Office") ELSE desk[w] IN
  /\ Click
  /\ Ready(w)
  /\ Put(w, [d EXCEPT
       !.forms = IF form # "acting" /\ d.acting = None THEN <<"acting", form>> ELSE <<form>>])
  /\ UNCHANGED <<cases, theRest, elsewhere, users>>

\* set_acting_user: without an office nobody acts.
ActingAs(d, name) == IF d.at = "here" THEN [d EXCEPT !.acting = name] ELSE d

\* prompt_acting_user finds or creates the user, and the form that was asked for
\* opens only when somebody acts.
NameUser(w, name) ==
  LET d == ActingAs(desk[w], name) IN
  /\ Shows(w, "acting")
  /\ users' = IF d.at = "here" THEN users \cup {name} ELSE users
  /\ Put(w, [d EXCEPT !.label = d.acting,
                      !.forms = IF d.acting = None THEN << >> ELSE Tail(@)])
  /\ UNCHANGED <<cases, theRest, elsewhere, clicks>>

\* A form is closed; nobody was named, so a form behind it does not open.
CancelForm(w) ==
  /\ desk[w].running /\ desk[w].forms # << >> /\ doing[w] = Idle
  /\ Put(w, [desk[w] EXCEPT !.forms = << >>])
  /\ UNCHANGED <<cases, theRest, elsewhere, users, clicks>>

Done(w) == [desk[w] EXCEPT !.forms = << >>]
Kept == UNCHANGED <<elsewhere, users, clicks>>
OfTheOffice == Kept /\ UNCHANGED <<records, written>>

\* new_client looks for people the office may know, before it writes.
ClientForm(w) ==
  /\ Shows(w, "client")
  /\ \E draft \in Drafts : FillForm(w, draft)
  /\ Kept /\ UNCHANGED desk

\* prompt_possible_duplicates: the person at the window says whether to write;
\* "no" goes back to the form.
AnswerDuplicates(w) ==
  /\ Shows(w, "client")
  /\ \/ \E p \in People : CreateClient(w, p) /\ Put(w, Done(w))
     \/ Stop(w) /\ UNCHANGED <<records, written, desk>>
  /\ Kept

\* new_matter offers the cases the workspace lists.
Offered(d) == {"new", None} \cup Range(d.list)

MatterForm(w) ==
  /\ Shows(w, "matter")
  /\ \E client \in Clients, link \in Offered(desk[w]) : BeginOpen(w, client, link)
  /\ OfTheOffice /\ UNCHANGED desk

\* Workspace::open_matter.  The case, then the matter; when it fails, nothing
\* the window holds is read again.
OpenMatter(w) ==
  /\ Shows(w, "matter")
  /\ \/ \E c \in Cases \ elsewhere : OpenCase(w, c) /\ UNCHANGED desk
     \/ \E m \in Matters :
          /\ InsertMatter(w, m)
          /\ LET d == Loaded(Selecting(Relisted(Done(w), cases), doing[w].case), settings)
             IN Put(w, Captioned([d EXCEPT !.chooser = MatterList(d, DOMAIN matters \cup {m})]))
     \/ Stop(w) /\ Put(w, Done(w))
  /\ OfTheOffice

\* office_matters_of_client: what new_setting offers.
MattersOf(client) == {m \in DOMAIN matters : matters[m].client = client}

\* new_setting and schedule_setting: the day is loaded again, and not painted.
SettingForm(w) ==
  /\ Shows(w, "setting")
  /\ \E s \in Settings, client \in Clients : \E called \in SUBSET MattersOf(client) :
       Schedule(w, s, client, called)
  /\ Put(w, Loaded(Done(w), settings'))
  /\ OfTheOffice

DeadlineForm(w) ==
  /\ Shows(w, "deadline")
  /\ \E d \in Deadlines, m \in Range(MatterList(desk[w], DOMAIN matters)), due \in Dates :
       RecordDeadline(w, d, m, due)
  /\ Put(w, Loaded(Done(w), settings))
  /\ Kept

NoteForm(w) ==
  /\ Shows(w, "note")
  /\ \E n \in Notes, subject \in Subjects : WriteNote(w, n, subject)
  /\ Put(w, Done(w))
  /\ Kept

----------------------------------------------------------------------------
Other(w) ==
  /\ ~desk[w].running
  /\ \/ Step(w) /\ UNCHANGED <<records, written>>
     \/ FileStep(w)
  /\ Kept /\ UNCHANGED desk

DeskStep(w) ==
  \/ Start(w)
  \/ \E i \in 1..Len(Shelf) : ChooseCase(w, i)
  \/ \E c \in Cases : OpenNewCase(w, c)
  \/ \E c \in Range(Shelf) : Import(w, c)
  \/ \E i \in 1..Len(Filed) : SelectMatter(w, i)
  \/ \E pane \in {"Court", "Office"} : ShowPane(w, pane)
  \/ \E day \in Days : MoveDay(w, day)
  \/ \E i \in 1..Cardinality(Settings) : FocusRow(w, i)
  \/ \E at \in {"here", "elsewhere"} : OpenDatabase(w, at)
  \/ \E form \in Forms : OfficeCommand(w, form)
  \/ \E name \in Names : NameUser(w, name)
  \/ CancelForm(w)
  \/ ClientForm(w) \/ AnswerDuplicates(w)
  \/ MatterForm(w) \/ OpenMatter(w)
  \/ SettingForm(w) \/ DeadlineForm(w) \/ NoteForm(w)

DeskNext == \E w \in Windows : Other(w) \/ DeskStep(w)

DeskSpec == DeskInit /\ [][DeskNext]_deskVars

----------------------------------------------------------------------------
(* Properties.                                                              *)

\* Two open workspaces are told apart by their titles (update_title): whatever
\* opened, imported or switched last, the title, the case list and what is
\* selected in it are the case every read and write of the window goes to.
ShownCaseIsActive ==
  \A w \in Windows : desk[w].running =>
    LET d == desk[w] IN
    /\ d.combo = d.list /\ d.chosen = d.active
    /\ d.title = Active(d)
    /\ Range(d.list) \subseteq Held(d.at)
    /\ d.active = 0 => d.list = << >>

\* The detail box is about the setting under the cursor of the grid beside it,
\* although forms load the day again without painting it.
DetailIsOfTheRow ==
  \A w \in Windows :
    LET d == desk[w]
    IN d.running /\ d.screen = "Court" /\ d.detail # None => d.detail = At(d.grid, d.focus)

\* Office writes are attributed to whom the entry row names, a user of the
\* office that is open: nobody acts across a change of database.
ActingIsShown ==
  \A w \in Windows :
    LET d == desk[w] IN d.acting # None => d.label = d.acting /\ d.at = "here" /\ d.acting \in users

\* What the window shows is what its commands act on and whom they name.
ShowsWhatItActsOn == ShownCaseIsActive /\ ActingIsShown
=============================================================================
