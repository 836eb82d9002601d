------------------------------- MODULE Office -------------------------------
(* The office calendar beside the evidence: matters, the settings they are  *)
(* called on and the docket of a day.  Matters and settings are rows of     *)
(* office.sqlite, cases are rows of evidence.sqlite; no transaction spans   *)
(* the two files and no foreign key joins them.                             *)
(*                                                                          *)
(* Windows and command line are processes of their own.  Every statement is *)
(* a step, a flow of several statements may stop between any two of them,   *)
(* and the docket is read setting by setting and case by case while others  *)
(* write.                                                                   *)
EXTENDS Naturals, FiniteSets, FiniteSetsExt, Functions

CONSTANTS
  Windows,
  Clients,
  Matters,       \* identifiers of matters
  Cases,         \* identifiers of evidence cases, opened or not
  Settings,      \* identifiers of settings, numbers in docket order
  Calendars,     \* the rows the office may start with
  MaxCommands,   \* bound on commands
  None

MatterRows == [client : Clients, case : Cases \cup {None}, typed : BOOLEAN]
SettingRows == [client : Clients, cancelled : BOOLEAN]

\* A calendar the office may have left: the client of a setting is that of its
\* matters, and a case nobody typed was opened before the matter was written.
IsCalendar(r) ==
  /\ r.cases \subseteq Cases
  /\ DOMAIN r.matters \subseteq Matters /\ IsFiniteSet(DOMAIN r.matters)
  /\ DOMAIN r.settings \subseteq Settings /\ DOMAIN r.covers = DOMAIN r.settings
  /\ r.matters \in [DOMAIN r.matters -> MatterRows]
  /\ r.settings \in [DOMAIN r.settings -> SettingRows]
  /\ r.covers \in [DOMAIN r.covers -> SUBSET DOMAIN r.matters]
  /\ \A s \in DOMAIN r.covers :
       /\ r.covers[s] # {}
       /\ \A m \in r.covers[s] : r.matters[m].client = r.settings[s].client
  /\ \A m \in DOMAIN r.matters : r.matters[m].typed \/ r.matters[m].case \in r.cases \cup {None}

ASSUME ConstantsAssumption ==
  /\ Settings \subseteq Nat
  /\ \A r \in Calendars : IsCalendar(r)
  /\ MaxCommands \in Nat
  /\ None \notin Cases \cup Matters
  /\ "new" \notin Cases \cup {None}

VARIABLES
  cases,      \* evidence.sqlite: the cases opened
  matters,    \* per matter: its client, its case, and whether that was typed
  settings,   \* per setting: its client and whether it is cancelled
  covers,     \* appearance_matters: the matters of a setting
  doing,      \* per window: the flow it is in
  spent

vars == <<cases, matters, settings, covers, doing, spent>>
calendar == <<settings, covers>>

Idle == [op |-> "idle"]

Init ==
  /\ \E r \in Calendars :
       cases = r.cases /\ matters = r.matters /\ settings = r.settings /\ covers = r.covers
  /\ doing = [w \in Windows |-> Idle]
  /\ spent = 0

Spend == spent < MaxCommands /\ spent' = spent + 1
Become(w, flow) == doing' = [doing EXCEPT ![w] = flow]
AddRow(table, id, row) == [k \in DOMAIN table \cup {id} |-> IF k = id THEN row ELSE table[k]]

----------------------------------------------------------------------------
(* Matters.  open_matter opens the evidence case first, then the matter.    *)

\* The form asks for a new case, for none, or for one of the case list.
BeginOpen(w, client, link) ==
  /\ Spend
  /\ doing[w] = Idle
  /\ link \in {"new", None} \cup cases
  /\ Become(w, [op |-> "open", client |-> client, case |-> link])
  /\ UNCHANGED <<cases, matters, calendar>>

\* Mutant: the identifier is handed to the matter, the case is opened later.
OpenCaseLater(w, c) ==
  /\ doing[w].op = "open" /\ doing[w].case = "new"
  /\ c \notin cases
  /\ Become(w, [doing[w] EXCEPT !.case = c])
  /\ UNCHANGED <<cases, matters, calendar, spent>>

OpenCase(w, c) ==
  /\ doing[w].op = "open" /\ doing[w].case = "new"
  /\ c \notin cases
  /\ cases' = cases \cup {c}
  /\ Become(w, [doing[w] EXCEPT !.case = c])
  /\ UNCHANGED <<matters, calendar, spent>>

InsertMatter(w, m) ==
  /\ doing[w].op = "open" /\ doing[w].case # "new"
  /\ m \notin DOMAIN matters
  /\ matters' = AddRow(matters, m,
                  [client |-> doing[w].client, case |-> doing[w].case, typed |-> FALSE])
  /\ Become(w, Idle)
  /\ UNCHANGED <<cases, calendar, spent>>

\* link_evidence_case: the identifier is stored as given and never resolved.
LinkCase(w, m, c) ==
  /\ Spend
  /\ doing[w] = Idle
  /\ m \in DOMAIN matters
  /\ matters' = [matters EXCEPT ![m].case = c, ![m].typed = TRUE]
  /\ UNCHANGED <<cases, calendar, doing>>

----------------------------------------------------------------------------
(* Settings.  A matter never changes its client and a setting never its      *)
(* own, so what the calls check before they write still holds when they do. *)

Schedule(w, s, client, called) ==
  /\ Spend
  /\ doing[w] = Idle
  /\ s \notin DOMAIN settings
  /\ called # {} /\ called \subseteq DOMAIN matters
  /\ \A m \in called : matters[m].client = client
  /\ settings' = AddRow(settings, s, [client |-> client, cancelled |-> FALSE])
  /\ covers' = AddRow(covers, s, called)
  /\ UNCHANGED <<cases, matters, doing>>

LinkMatter(w, s, m) ==
  /\ Spend
  /\ doing[w] = Idle
  /\ s \in DOMAIN settings /\ m \in DOMAIN matters
  /\ matters[m].client = settings[s].client
  /\ covers' = [covers EXCEPT ![s] = @ \cup {m}]
  /\ UNCHANGED <<cases, matters, settings, doing>>

\* Mutant: without the trigger that keeps the last matter.
MayUnlinkAny(s, m) == m \in covers[s]

\* appearance_matters_keep_at_least_one
MayUnlink(s, m) == m \in covers[s] /\ covers[s] # {m}

UnlinkMatter(w, s, m) ==
  /\ Spend
  /\ doing[w] = Idle
  /\ s \in DOMAIN settings
  /\ MayUnlink(s, m)
  /\ covers' = [covers EXCEPT ![s] = @ \ {m}]
  /\ UNCHANGED <<cases, matters, settings, doing>>

Cancel(w, s) ==
  /\ Spend
  /\ doing[w] = Idle
  /\ s \in DOMAIN settings /\ ~settings[s].cancelled
  /\ settings' = [settings EXCEPT ![s].cancelled = TRUE]
  /\ UNCHANGED <<cases, matters, covers, doing>>

----------------------------------------------------------------------------
(* The docket.  docket_entries reads the settings of the day, then the      *)
(* matters of each; docket_row then asks the kernel for the standing of     *)
(* every case named, once per distinct case of a setting.                   *)

BeginDocket(w) ==
  /\ Spend
  /\ doing[w] = Idle
  /\ Become(w, [op |-> "docket", rows |-> << >>,
                entries |-> {s \in DOMAIN settings : ~settings[s].cancelled}])
  /\ UNCHANGED <<cases, matters, calendar>>

ReadLines(w) ==
  /\ doing[w].op = "docket" /\ doing[w].entries # {}
  /\ LET s == Min(doing[w].entries)
         lines == {[matter |-> m, case |-> matters[m].case] : m \in covers[s]}
     IN Become(w, [doing[w] EXCEPT
          !.entries = @ \ {s},
          !.rows = AddRow(@, s, [lines |-> lines, resolved |-> << >>, missing |-> 0])])
  /\ UNCHANGED <<cases, matters, calendar, spent>>

Naming(row, c) == {l \in row.lines : l.case = c}
Unasked(row) == {l.case : l \in row.lines} \ ({None} \cup DOMAIN row.resolved)

\* posture: the kernel holds the case or it does not.
Resolve(row, c) ==
  [row EXCEPT !.resolved = AddRow(@, c, c \in cases),
              !.missing = IF c \in cases THEN @ ELSE @ + Cardinality(Naming(row, c))]

AskKernel(w) ==
  /\ doing[w].op = "docket" /\ doing[w].entries = {}
  /\ \E s \in DOMAIN doing[w].rows :
       /\ \A earlier \in DOMAIN doing[w].rows : earlier < s => Unasked(doing[w].rows[earlier]) = {}
       /\ \E c \in Unasked(doing[w].rows[s]) :
            Become(w, [doing[w] EXCEPT !.rows[s] = Resolve(@, c)])
  /\ UNCHANGED <<cases, matters, calendar, spent>>

\* A flow ends, fails, or dies with its process; what it wrote stays.
Stop(w) ==
  /\ doing[w] # Idle
  /\ Become(w, Idle)
  /\ UNCHANGED <<cases, matters, calendar, spent>>

Step(w) ==
  \/ \E client \in Clients, link \in {"new", None} \cup Cases : BeginOpen(w, client, link)
  \/ \E c \in Cases : OpenCase(w, c)
  \/ \E m \in Matters : InsertMatter(w, m)
  \/ \E m \in Matters, c \in Cases : LinkCase(w, m, c)
  \/ \E s \in Settings, client \in Clients, called \in SUBSET Matters :
       Schedule(w, s, client, called)
  \/ \E s \in Settings, m \in Matters : LinkMatter(w, s, m) \/ UnlinkMatter(w, s, m)
  \/ \E s \in Settings : Cancel(w, s)
  \/ BeginDocket(w) \/ ReadLines(w) \/ AskKernel(w)
  \/ Stop(w)

Next == \E w \in Windows : Step(w)

Spec == Init /\ [][Next]_vars

----------------------------------------------------------------------------
(* Properties.                                                              *)

Lines == [matter : Matters, case : Cases \cup {None}]
DocketRows ==
  [lines : SUBSET Lines, resolved : UNION {[K -> BOOLEAN] : K \in SUBSET Cases}, missing : Nat]
OpenFlows == [op : {"open"}, client : Clients, case : Cases \cup {None, "new"}]
DocketFlows ==
  [op : {"docket"}, rows : UNION {[K -> DocketRows] : K \in SUBSET Settings}, entries : SUBSET Settings]

\* Rows hold what their columns may, a setting covers matters of the file, and
\* a flow carries what the next of its statements needs.
TypeOK ==
  /\ cases \subseteq Cases
  /\ DOMAIN matters \subseteq Matters /\ matters \in [DOMAIN matters -> MatterRows]
  /\ DOMAIN settings \subseteq Settings /\ settings \in [DOMAIN settings -> SettingRows]
  /\ covers \in [DOMAIN settings -> SUBSET DOMAIN matters]
  /\ doing = [w \in Windows |-> doing[w]]
  /\ \A w \in Windows : doing[w].op = "open" => doing[w] \in OpenFlows
  /\ \A w \in Windows : doing[w].op = "docket" => doing[w] \in DocketFlows
  /\ spent \in 0..MaxCommands

Reading == {w \in Windows : doing[w].op = "docket"}
Rows == UNION {{[setting |-> s, row |-> doing[w].rows[s]] : s \in DOMAIN doing[w].rows} :
                 w \in Reading}
Whole(row) == Unasked(row) = {}

\* Whatever others schedule, link, unlink and cancel meanwhile, a docket row is
\* about at least one matter, about matters of its own client only, and counts
\* every one of them once: without a case, with a posture, or with a case the
\* kernel does not hold (0002_calendar.sql and docket_row).
DocketIsWhole ==
  \A r \in Rows :
    LET row == r.row
        held == {l \in row.lines : l.case \in DOMAIN row.resolved /\ row.resolved[l.case]}
    IN /\ row.lines # {}
       /\ \A l \in row.lines : matters[l.matter].client = settings[r.setting].client
       /\ Whole(row) =>
            Cardinality(row.lines) =
              Cardinality(Naming(row, None)) + Cardinality(held) + row.missing

\* A docket reports a case the kernel does not hold only for a matter somebody
\* linked by hand: a matter opened together with its case never shows as a
\* broken link, however its two writes and the reads of the two files fall, and
\* wherever the flow stops (gui open_matter, docket_row).
BrokenLinksAreTyped ==
  \A r \in Rows : \A l \in r.row.lines :
    l.case \in DOMAIN r.row.resolved /\ ~r.row.resolved[l.case] => matters[l.matter].typed
=============================================================================
