---------------------------- MODULE OfficeProofs ----------------------------
(* What holds of an office of any size, with any number of windows and      *)
(* processes: the calendar, the file beside it and the main window.         *)
EXTENDS Desk, FiniteSetTheorems, WellFoundedInduction, TLAPS

----------------------------------------------------------------------------
(* What a step of the office may be: a statement about the calendar, one    *)
(* about the file, or an event of a window that opens cases at most.        *)

CalendarMoves == (\E w \in Windows : Step(w)) /\ UNCHANGED <<records, written>>
FileMoves == \E w \in Windows : FileStep(w)
CasesGrow == cases \subseteq cases' /\ cases' \subseteq Cases /\ UNCHANGED theRest

LEMMA InitTypes == Init => TypeOK
<1> SUFFICES ASSUME Init PROVE TypeOK
  OBVIOUS
<1>1. PICK r \in Calendars :
        cases = r.cases /\ matters = r.matters /\ settings = r.settings /\ covers = r.covers
  BY DEF Init
<1>2. IsCalendar(r)
  BY <1>1, ConstantsAssumption
<1>3. \A w \in Windows : doing[w].op = "idle"
  BY DEF Init, Idle
<1>4. doing = [w \in Windows |-> doing[w]] /\ spent \in 0 .. MaxCommands
  BY ConstantsAssumption DEF Init
<1>5. QED
  BY <1>1, <1>2, <1>3, <1>4 DEF IsCalendar, TypeOK

LEMMA DeskSteps ==
  ASSUME TypeOK, [DeskNext]_deskVars
  PROVE  CalendarMoves \/ FileMoves \/ CasesGrow
<1>1. CASE UNCHANGED deskVars
  <2>1. UNCHANGED theRest /\ cases' = cases
    BY <1>1 DEF deskVars, fileVars, vars, theRest, calendar, records
  <2>2. QED
    BY <2>1 DEF CasesGrow, TypeOK
<1>2. ASSUME NEW w \in Windows, Other(w)
      PROVE  CalendarMoves \/ FileMoves
  BY <1>2 DEF Other, CalendarMoves, FileMoves
<1>3. ASSUME NEW w \in Windows, DeskStep(w)
      PROVE  CalendarMoves \/ FileMoves \/ CasesGrow
  <2>1. ASSUME UNCHANGED <<cases, theRest>>
        PROVE  CasesGrow
    BY <2>1 DEF CasesGrow, TypeOK
  <2>2. ASSUME NEW c \in Cases, OpenNewCase(w, c)
        PROVE  CasesGrow
    BY <2>2 DEF OpenNewCase, AddCase, CasesGrow, TypeOK
  <2>3. ASSUME ClientForm(w)
        PROVE  FileMoves
    BY <2>3 DEF ClientForm, FileStep, FileMoves
  <2>4. ASSUME AnswerDuplicates(w)
        PROVE  CalendarMoves \/ FileMoves
    BY <2>4 DEF AnswerDuplicates, FileStep, Step, FileMoves, CalendarMoves
  <2>5. ASSUME MatterForm(w)
        PROVE  CalendarMoves
    <3>1. PICK client \in Clients, link \in Offered(desk[w]) : BeginOpen(w, client, link)
      BY <2>5 DEF MatterForm
    <3>2. link \in {"new", None} \cup Cases
      BY <3>1 DEF BeginOpen, TypeOK
    <3>3. Step(w)
      BY <3>1, <3>2 DEF Step
    <3>4. UNCHANGED <<records, written>>
      BY <2>5 DEF MatterForm, OfTheOffice
    <3>5. QED
      BY <3>3, <3>4 DEF CalendarMoves
  <2>6. ASSUME OpenMatter(w)
        PROVE  CalendarMoves
    <3>1. Step(w)
      BY <2>6 DEF OpenMatter, Step
    <3>2. UNCHANGED <<records, written>>
      BY <2>6 DEF OpenMatter, OfTheOffice
    <3>3. QED
      BY <3>1, <3>2 DEF CalendarMoves
  <2>7. ASSUME SettingForm(w)
        PROVE  CalendarMoves
    <3>1. PICK s \in Settings, client \in Clients : \E called \in SUBSET MattersOf(client) :
            Schedule(w, s, client, called)
      BY <2>7 DEF SettingForm
    <3>0. PICK called \in SUBSET MattersOf(client) : Schedule(w, s, client, called)
      BY <3>1
    <3>2. called \in SUBSET Matters
      BY DEF MattersOf, TypeOK
    <3>3. Step(w)
      BY <3>0, <3>2 DEF Step
    <3>4. UNCHANGED <<records, written>>
      BY <2>7 DEF SettingForm, OfTheOffice
    <3>5. QED
      BY <3>3, <3>4 DEF CalendarMoves
  <2>8. ASSUME DeadlineForm(w)
        PROVE  FileMoves
    <3>1. PICK d \in Deadlines, m \in Range(MatterList(desk[w], DOMAIN matters)), due \in Dates :
            RecordDeadline(w, d, m, due)
      BY <2>8 DEF DeadlineForm
    <3>2. m \in Matters
      BY <3>1 DEF RecordDeadline, TypeOK
    <3>3. FileStep(w)
      BY <3>1, <3>2 DEF FileStep
    <3>4. QED
      BY <3>3 DEF FileMoves
  <2>9. ASSUME NoteForm(w)
        PROVE  FileMoves
    BY <2>9 DEF NoteForm, FileStep, FileMoves
  <2>10. ASSUME Start(w) \/ (\E i \in 1 .. Len(Shelf) : ChooseCase(w, i))
                \/ (\E c \in Range(Shelf) : Import(w, c)) \/ (\E i \in 1 .. Len(Filed) : SelectMatter(w, i))
                \/ (\E pane \in {"Court", "Office"} : ShowPane(w, pane))
                \/ (\E day \in Days : MoveDay(w, day))
         PROVE  CasesGrow
    BY <2>1, <2>10 DEF Start, ChooseCase, Import, SelectMatter, ShowPane, MoveDay
  <2>11. ASSUME (\E i \in 1 .. Cardinality(Settings) : FocusRow(w, i))
                \/ (\E at \in {"here", "elsewhere"} : OpenDatabase(w, at))
                \/ (\E form \in Forms : OfficeCommand(w, form))
                \/ (\E name \in Names : NameUser(w, name)) \/ CancelForm(w)
         PROVE  CasesGrow
    BY <2>1, <2>11 DEF FocusRow, OpenDatabase, OfficeCommand, NameUser, CancelForm
  <2>12. QED
    BY <1>3, <2>2, <2>3, <2>4, <2>5, <2>6, <2>7, <2>8, <2>9, <2>10, <2>11 DEF DeskStep
<1>4. QED
  BY <1>1, <1>2, <1>3 DEF DeskNext

----------------------------------------------------------------------------
(* The invariant.  What a flow took from the tables is still so: clients    *)
(* of matters and settings never change, a typed link is never untyped, a   *)
(* case is never closed.                                                    *)

\* A setting covers matters of its client, and a case nobody typed is open.
CalendarStands ==
  /\ IsFiniteSet(DOMAIN matters)
  /\ \A s \in DOMAIN settings :
       covers[s] # {} /\ \A m \in covers[s] : matters[m].client = settings[s].client
  /\ \A m \in DOMAIN matters : matters[m].typed \/ matters[m].case \in cases \cup {None}

\* The lines of a row the kernel was asked about and whose case it does not hold.
Broken(row) == {l \in row.lines : l.case \in DOMAIN row.resolved /\ ~ row.resolved[l.case]}

RowStands(s, row) ==
  /\ row.lines # {} /\ IsFiniteSet(row.lines)
  /\ \A l \in row.lines :
       /\ l.matter \in DOMAIN matters
       /\ matters[l.matter].client = settings[s].client
       /\ matters[l.matter].typed \/ l.case \in cases \cup {None}
       /\ l \in Broken(row) => matters[l.matter].typed
  /\ row.missing = Cardinality(Broken(row))

FlowStands(w) ==
  /\ doing[w].op = "open" => doing[w].case \in cases \cup {None, "new"}
  /\ doing[w].op = "docket" =>
       /\ doing[w].entries \subseteq DOMAIN settings
       /\ DOMAIN doing[w].rows \subseteq DOMAIN settings
       /\ \A s \in DOMAIN doing[w].rows : RowStands(s, doing[w].rows[s])

FlowsStand == \A w \in Windows : FlowStands(w)

CalendarInv == TypeOK /\ CalendarStands /\ FlowsStand

----------------------------------------------------------------------------
(* Types.                                                                   *)

LEMMA LeastIsThere ==
  ASSUME NEW S, S \subseteq Nat, S # {}
  PROVE  \E n \in S : \A m \in S : n <= m
<1> DEFINE Less == OpToRel(<, Nat)
<1>1. IsWellFoundedOn(Less, Nat)
  BY NatLessThanWellFounded
<1>2. \A x, y \in Nat : x < y => <<x, y>> \in Less
  BY DEF OpToRel
<1> HIDE DEF Less
<1>3. PICK n \in S : \A m \in S : <<m, n>> \notin Less
  BY <1>1, WFMin
<1>4. ASSUME NEW m \in S PROVE n <= m
  <2>1. m \in Nat /\ n \in Nat
    BY Zenon
  <2>2. ~ (m < n)
    BY <1>2, <1>3, <2>1, Zenon
  <2>3. QED
    BY <2>1, <2>2
<1>5. QED
  BY <1>4

LEMMA LeastOfSet ==
  ASSUME NEW S, S \subseteq Nat, S # {}
  PROVE  Min(S) \in S /\ \A m \in S : Min(S) <= m
BY LeastIsThere DEF Min

LEMMA AddedRow ==
  ASSUME NEW table, NEW id, NEW row
  PROVE  /\ DOMAIN AddRow(table, id, row) = DOMAIN table \cup {id}
         /\ AddRow(table, id, row)[id] = row
         /\ \A k \in DOMAIN table : k # id => AddRow(table, id, row)[k] = table[k]
BY DEF AddRow

LEMMA AddedRowType ==
  ASSUME NEW table, NEW id, NEW row, NEW R, table \in [DOMAIN table -> R], row \in R
  PROVE  AddRow(table, id, row) \in [DOMAIN table \cup {id} -> R]
BY DEF AddRow

\* A file's records do not look at a window in a flow of the calendar.
FileFlows == {"idle", "form", "revise", "overdue", "listed", "week"}

LEMMA FileFrame ==
  ASSUME TypeOK, NEW w \in Windows, FileStep(w)
  PROVE  /\ UNCHANGED <<cases, matters, settings, covers, spent>>
         /\ doing' = [v \in Windows |-> doing'[v]]
         /\ \A v \in Windows : doing'[v] = doing[v] \/ doing'[v].op \in FileFlows
<1> USE DEF Calendar, calendar, FileFlows, Idle, Become
<1>1. doing = [v \in Windows |-> doing[v]]
  BY DEF TypeOK
<1>2. UNCHANGED <<cases, matters, settings, covers, spent>>
  BY DEF FileStep, FillForm, CreateClient, AddAlias, WriteNote, BeginRevise, InsertRevision,
         RecordDeadline, Satisfy, ReadOverdue, BeginWeek, ReadUpcoming, ReadDay
<1>3. ASSUME doing'[w].op \in FileFlows, doing' = [doing EXCEPT ![w] = doing'[w]]
      PROVE  /\ doing' = [v \in Windows |-> doing'[v]]
             /\ \A v \in Windows : doing'[v] = doing[v] \/ doing'[v].op \in FileFlows
  BY <1>1, <1>3
<1>4. ASSUME doing' = doing
      PROVE  /\ doing' = [v \in Windows |-> doing'[v]]
             /\ \A v \in Windows : doing'[v] = doing[v] \/ doing'[v].op \in FileFlows
  BY <1>1, <1>4
<1>5. CASE \E draft \in Drafts : FillForm(w, draft)
  <2>1. PICK draft \in Drafts : FillForm(w, draft)
    BY <1>5
  <2>2. doing'[w].op = "form" /\ doing' = [doing EXCEPT ![w] = doing'[w]]
    BY <1>1, <2>1 DEF FillForm
  <2>3. QED
    BY <1>2, <1>3, <2>2
<1>6. CASE \E p \in People : CreateClient(w, p)
  <2>1. PICK p \in People : CreateClient(w, p)
    BY <1>6
  <2>2. doing'[w].op = "idle" /\ doing' = [doing EXCEPT ![w] = doing'[w]]
    BY <1>1, <2>1 DEF CreateClient
  <2>3. QED
    BY <1>2, <1>3, <2>2
<1>7. CASE \E p \in People, name \in Aliases : AddAlias(w, p, name)
  BY <1>2, <1>4, <1>7 DEF AddAlias
<1>8. CASE \E n \in Notes, subject \in Subjects : WriteNote(w, n, subject)
  BY <1>2, <1>4, <1>8 DEF WriteNote
<1>9. CASE \E n \in Notes : BeginRevise(w, n) \/ InsertRevision(w, n)
  <2>1. PICK n \in Notes : BeginRevise(w, n) \/ InsertRevision(w, n)
    BY <1>9
  <2>2. CASE BeginRevise(w, n)
    <3>1. doing'[w].op = "revise" /\ doing' = [doing EXCEPT ![w] = doing'[w]]
      BY <1>1, <2>2 DEF BeginRevise
    <3>2. QED
      BY <1>2, <1>3, <3>1
  <2>3. CASE InsertRevision(w, n)
    <3>1. doing'[w].op = "idle" /\ doing' = [doing EXCEPT ![w] = doing'[w]]
      BY <1>1, <2>3 DEF InsertRevision
    <3>2. QED
      BY <1>2, <1>3, <3>1
  <2>4. QED
    BY <2>1, <2>2, <2>3
<1>10. CASE \E d \in Deadlines, m \in Matters, due \in Dates : RecordDeadline(w, d, m, due)
  BY <1>2, <1>4, <1>10 DEF RecordDeadline
<1>11. CASE \E d \in Deadlines : Satisfy(w, d)
  BY <1>2, <1>4, <1>11 DEF Satisfy
<1>12. CASE \E asOf \in Dates, within \in Spans : ReadOverdue(w, asOf, within)
  <2>1. PICK asOf \in Dates, within \in Spans : ReadOverdue(w, asOf, within)
    BY <1>12
  <2>2. doing'[w].op = "overdue" /\ doing' = [doing EXCEPT ![w] = doing'[w]]
    BY <1>1, <2>1 DEF ReadOverdue
  <2>3. QED
    BY <1>2, <1>3, <2>2
<1>13. CASE \E day \in Dates : BeginWeek(w, day)
  <2>1. PICK day \in Dates : BeginWeek(w, day)
    BY <1>13
  <2>2. doing'[w].op = "week" /\ doing' = [doing EXCEPT ![w] = doing'[w]]
    BY <1>1, <2>1 DEF BeginWeek
  <2>3. QED
    BY <1>2, <1>3, <2>2
<1>14. CASE ReadUpcoming(w)
  <2>1. doing'[w].op = "listed" /\ doing' = [doing EXCEPT ![w] = doing'[w]]
    BY <1>1, <1>14 DEF ReadUpcoming
  <2>2. QED
    BY <1>2, <1>3, <2>1
<1>15. CASE ReadDay(w)
  <2>1. doing'[w].op = "week" /\ doing' = [doing EXCEPT ![w] = doing'[w]]
    BY <1>1, <1>15 DEF ReadDay
  <2>2. QED
    BY <1>2, <1>3, <2>1
<1>16. QED
  BY <1>5, <1>6, <1>7, <1>8, <1>9, <1>10, <1>11, <1>12, <1>13, <1>14, <1>15 DEF FileStep

LEMMA FlowsType ==
  ASSUME TypeOK, NEW w \in Windows, NEW d, doing' = [doing EXCEPT ![w] = d],
         d.op = "open" => d \in OpenFlows, d.op = "docket" => d \in DocketFlows
  PROVE  /\ doing' = [v \in Windows |-> doing'[v]]
         /\ \A v \in Windows : doing'[v].op = "open" => doing'[v] \in OpenFlows
         /\ \A v \in Windows : doing'[v].op = "docket" => doing'[v] \in DocketFlows
BY DEF TypeOK

\* What the docket asks of the kernel.
LEMMA ResolvedRow ==
  ASSUME NEW row \in DocketRows, NEW c \in Cases, IsFiniteSet(row.lines)
  PROVE  /\ Resolve(row, c) \in DocketRows
         /\ Resolve(row, c).lines = row.lines
         /\ DOMAIN Resolve(row, c).resolved = DOMAIN row.resolved \cup {c}
         /\ Resolve(row, c).resolved[c] <=> c \in cases
         /\ \A d \in DOMAIN row.resolved : d # c => Resolve(row, c).resolved[d] = row.resolved[d]
         /\ Resolve(row, c).missing =
              IF c \in cases THEN row.missing ELSE row.missing + Cardinality(Naming(row, c))
         /\ Cardinality(Naming(row, c)) \in Nat
<1>1. PICK l, r, n : /\ row = [lines |-> l, resolved |-> r, missing |-> n]
                     /\ l \in SUBSET Lines /\ n \in Nat
                     /\ r \in UNION {[K -> BOOLEAN] : K \in SUBSET Cases}
  BY DEF DocketRows
<1>2. PICK K \in SUBSET Cases : r \in [K -> BOOLEAN]
  BY <1>1
<1>3. Naming(row, c) \in SUBSET row.lines
  BY DEF Naming
<1>4. Cardinality(Naming(row, c)) \in Nat
  BY <1>3, FS_Subset, FS_CardinalityType
<1>5. PICK b \in BOOLEAN : b <=> c \in cases
  OBVIOUS
<1>6. AddRow(r, c, b) \in [K \cup {c} -> BOOLEAN]
  BY <1>2, <1>5 DEF AddRow
<1>7. AddRow(r, c, b) \in UNION {[L -> BOOLEAN] : L \in SUBSET Cases}
  BY <1>6
<1> DEFINE m == IF c \in cases THEN n ELSE n + Cardinality(Naming(row, c))
<1>8. Resolve(row, c) = [lines |-> l, resolved |-> AddRow(r, c, b), missing |-> m]
  <2>1. CASE c \in cases
    <3>1. (c \in cases) = TRUE /\ b = TRUE
      BY <1>5, <2>1
    <3>2. Resolve(row, c) = [row EXCEPT !.resolved = AddRow(row.resolved, c, b), !.missing = row.missing]
      BY <2>1, <3>1 DEF Resolve
    <3>3. QED
      BY <1>1, <2>1, <3>2
  <2>2. CASE c \notin cases
    <3>1. (c \in cases) = FALSE /\ b = FALSE
      BY <1>5, <2>2
    <3>2. Resolve(row, c) = [row EXCEPT !.resolved = AddRow(row.resolved, c, b),
                                        !.missing = row.missing + Cardinality(Naming(row, c))]
      BY <2>2, <3>1 DEF Resolve
    <3>3. QED
      BY <1>1, <2>2, <3>2
  <2>3. QED
    BY <2>1, <2>2
<1>9. m \in Nat
  BY <1>1, <1>4
<1> HIDE DEF m
<1>10. Resolve(row, c) \in DocketRows
  BY <1>1, <1>7, <1>8, <1>9 DEF DocketRows
<1>11. /\ Resolve(row, c).lines = row.lines /\ row.resolved = r
       /\ Resolve(row, c).resolved = AddRow(r, c, b)
       /\ Resolve(row, c).missing = m /\ row.missing = n
  BY <1>1, <1>8
<1>12. /\ DOMAIN AddRow(r, c, b) = DOMAIN r \cup {c} /\ AddRow(r, c, b)[c] = b
       /\ \A d \in DOMAIN r : d # c => AddRow(r, c, b)[d] = r[d]
  BY DEF AddRow
<1>13. Resolve(row, c).resolved[c] <=> c \in cases
  <2>1. Resolve(row, c).resolved[c] = b
    BY <1>11, <1>12
  <2>2. QED
    BY <1>5, <2>1
<1>14. QED
  BY <1>4, <1>10, <1>11, <1>12, <1>13 DEF m

\* A step of the calendar by its kind, each with what it does to the flow.
LEMMA CalendarTypes ==
  ASSUME TypeOK, FlowsStand, NEW w \in Windows, Step(w)
  PROVE  TypeOK'
<1> USE DEF calendar, Spend
<1>1. doing = [v \in Windows |-> doing[v]] /\ spent \in 0 .. MaxCommands /\ MaxCommands \in Nat
  BY ConstantsAssumption DEF TypeOK
<1>2. ASSUME spent < MaxCommands, spent' = spent + 1
      PROVE  spent' \in 0 .. MaxCommands
  BY <1>1, <1>2
<1>3. ASSUME UNCHANGED doing
      PROVE  /\ doing' = [v \in Windows |-> doing'[v]]
             /\ \A v \in Windows : doing'[v].op = "open" => doing'[v] \in OpenFlows
             /\ \A v \in Windows : doing'[v].op = "docket" => doing'[v] \in DocketFlows
  BY <1>3 DEF TypeOK
<1>4. ASSUME doing' = [doing EXCEPT ![w] = doing'[w]],
             doing'[w].op = "open" => doing'[w] \in OpenFlows,
             doing'[w].op = "docket" => doing'[w] \in DocketFlows
      PROVE  /\ doing' = [v \in Windows |-> doing'[v]]
             /\ \A v \in Windows : doing'[v].op = "open" => doing'[v] \in OpenFlows
             /\ \A v \in Windows : doing'[v].op = "docket" => doing'[v] \in DocketFlows
  BY <1>4, FlowsType
<1>5. ASSUME doing' = [doing EXCEPT ![w] = Idle]
      PROVE  /\ doing' = [v \in Windows |-> doing'[v]]
             /\ \A v \in Windows : doing'[v].op = "open" => doing'[v] \in OpenFlows
             /\ \A v \in Windows : doing'[v].op = "docket" => doing'[v] \in DocketFlows
  BY <1>1, <1>4, <1>5 DEF Idle
<1>6. CASE \E client \in Clients, link \in {"new", None} \cup Cases : BeginOpen(w, client, link)
  <2>1. PICK client \in Clients, link \in {"new", None} \cup Cases : BeginOpen(w, client, link)
    BY <1>6
  <2>2. [op |-> "open", client |-> client, case |-> link] \in OpenFlows
    BY <2>1 DEF OpenFlows
  <2>3. doing' = [doing EXCEPT ![w] = doing'[w]] /\ doing'[w].op = "open" /\ doing'[w] \in OpenFlows
    BY <1>1, <2>1, <2>2 DEF BeginOpen, Become
  <2>4. QED
    BY <1>2, <1>4, <2>1, <2>3 DEF BeginOpen, TypeOK
<1>7. CASE \E c \in Cases : OpenCase(w, c)
  <2>1. PICK c \in Cases : OpenCase(w, c)
    BY <1>7
  <2>2. PICK client, link : client \in Clients /\ doing[w] = [op |-> "open", client |-> client, case |-> link]
    BY <2>1 DEF OpenCase, TypeOK, OpenFlows
  <2>0. [doing[w] EXCEPT !.case = c] = [op |-> "open", client |-> client, case |-> c]
    BY <2>2
  <2>3. doing' = [doing EXCEPT ![w] = [op |-> "open", client |-> client, case |-> c]]
    BY <2>0, <2>1 DEF OpenCase, Become
  <2>4. [op |-> "open", client |-> client, case |-> c] \in OpenFlows
    BY <2>2 DEF OpenFlows
  <2>5. doing' = [doing EXCEPT ![w] = doing'[w]] /\ doing'[w].op = "open" /\ doing'[w] \in OpenFlows
    BY <1>1, <2>3, <2>4
  <2>6. cases' \subseteq Cases /\ UNCHANGED <<matters, settings, covers, spent>>
    BY <2>1 DEF OpenCase, TypeOK
  <2>7. QED
    BY <1>4, <2>5, <2>6 DEF TypeOK
<1>8. CASE \E m \in Matters : InsertMatter(w, m)
  <2>1. PICK m \in Matters : InsertMatter(w, m)
    BY <1>8
  <2>2. PICK client \in Clients, link \in Cases \cup {None} :
          doing[w] = [op |-> "open", client |-> client, case |-> link]
    BY <2>1 DEF InsertMatter, TypeOK, OpenFlows
  <2> DEFINE row == [client |-> client, case |-> link, typed |-> FALSE]
  <2>3. row \in MatterRows
    BY <2>2 DEF MatterRows
  <2>4. matters' = AddRow(matters, m, row)
    BY <2>1, <2>2 DEF InsertMatter
  <2> HIDE DEF row
  <2>8. matters \in [DOMAIN matters -> MatterRows]
    BY DEF TypeOK
  <2>9. DOMAIN matters' = DOMAIN matters \cup {m}
    BY <2>4, AddedRow
  <2>10. AddRow(matters, m, row) \in [DOMAIN matters \cup {m} -> MatterRows]
    BY <2>3, <2>8, AddedRowType
  <2>5. DOMAIN matters' = DOMAIN matters \cup {m} /\ matters' \in [DOMAIN matters' -> MatterRows]
    BY <2>4, <2>9, <2>10
  <2>6. covers' \in [DOMAIN settings' -> SUBSET DOMAIN matters']
    BY <2>1, <2>5 DEF InsertMatter, TypeOK
  <2>7. QED
    BY <1>5, <2>1, <2>5, <2>6 DEF InsertMatter, Become, TypeOK
<1>9. CASE \E m \in Matters, c \in Cases : LinkCase(w, m, c)
  <2>1. PICK m \in Matters, c \in Cases : LinkCase(w, m, c)
    BY <1>9
  <2>2. PICK client, link, typed : client \in Clients /\ matters[m] = [client |-> client, case |-> link, typed |-> typed]
    BY <2>1 DEF LinkCase, TypeOK, MatterRows
  <2>3. /\ matters' = [k \in DOMAIN matters |-> matters'[k]]
        /\ \A k \in DOMAIN matters : k # m => matters'[k] = matters[k]
        /\ matters'[m] = [[matters[m] EXCEPT !.case = c] EXCEPT !.typed = TRUE]
    BY <2>1 DEF LinkCase
  <2>4. [client |-> client, case |-> c, typed |-> TRUE] \in MatterRows
    BY <2>2 DEF MatterRows
  <2>7. matters'[m] = [client |-> client, case |-> c, typed |-> TRUE]
    <3>1. matters'[m] = [f \in {"client", "case", "typed"} |-> matters'[m][f]]
      BY <2>2, <2>3
    <3>2. matters'[m].client = client /\ matters'[m].case = c /\ matters'[m].typed = TRUE
      BY <2>2, <2>3
    <3>3. QED
      BY <3>1, <3>2
  <2>5. DOMAIN matters' = DOMAIN matters /\ matters' \in [DOMAIN matters -> MatterRows]
    BY <2>1, <2>3, <2>4, <2>7 DEF LinkCase, TypeOK
  <2>6. QED
    BY <1>2, <1>3, <2>1, <2>5 DEF LinkCase, TypeOK
<1>10. CASE \E s \in Settings, client \in Clients, called \in SUBSET Matters : Schedule(w, s, client, called)
  <2>1. PICK s \in Settings, client \in Clients, called \in SUBSET Matters : Schedule(w, s, client, called)
    BY <1>10
  <2>2. [client |-> client, cancelled |-> FALSE] \in SettingRows
    BY DEF SettingRows
  <2>6. PICK row : row = [client |-> client, cancelled |-> FALSE]
    OBVIOUS
  <2>7. settings' = AddRow(settings, s, row) /\ row \in SettingRows
    BY <2>1, <2>2, <2>6 DEF Schedule
  <2>8. settings \in [DOMAIN settings -> SettingRows]
    BY DEF TypeOK
  <2>9. AddRow(settings, s, row) \in [DOMAIN settings \cup {s} -> SettingRows]
    BY <2>7, <2>8, AddedRowType
  <2>3. DOMAIN settings' = DOMAIN settings \cup {s} /\ settings' \in [DOMAIN settings' -> SettingRows]
    BY <2>7, <2>9, AddedRow
  <2>4. covers' \in [DOMAIN settings \cup {s} -> SUBSET DOMAIN matters]
    BY <2>1, AddedRowType DEF Schedule, TypeOK
  <2>5. QED
    BY <1>2, <1>3, <2>1, <2>3, <2>4 DEF Schedule, TypeOK
<1>11. CASE \E s \in Settings, m \in Matters : LinkMatter(w, s, m) \/ UnlinkMatter(w, s, m)
  <2>1. PICK s \in Settings, m \in Matters : LinkMatter(w, s, m) \/ UnlinkMatter(w, s, m)
    BY <1>11
  <2>2. covers' \in [DOMAIN settings -> SUBSET DOMAIN matters]
    BY <2>1 DEF LinkMatter, UnlinkMatter, TypeOK
  <2>3. QED
    BY <1>2, <1>3, <2>1, <2>2 DEF LinkMatter, UnlinkMatter, TypeOK
<1>12. CASE \E s \in Settings : Cancel(w, s)
  <2>1. PICK s \in Settings : Cancel(w, s)
    BY <1>12
  <2>2. PICK client, b : client \in Clients /\ settings[s] = [client |-> client, cancelled |-> b]
    BY <2>1 DEF Cancel, TypeOK, SettingRows
  <2>6. /\ settings' = [k \in DOMAIN settings |-> settings'[k]]
        /\ \A k \in DOMAIN settings : k # s => settings'[k] = settings[k]
        /\ settings'[s] = [settings[s] EXCEPT !.cancelled = TRUE]
    BY <2>1 DEF Cancel
  <2>7. settings'[s] = [f \in {"client", "cancelled"} |-> settings'[s][f]]
    BY <2>2, <2>6
  <2>8. settings'[s].client = client /\ settings'[s].cancelled = TRUE
    BY <2>2, <2>6
  <2>9. settings'[s] = [client |-> client, cancelled |-> TRUE]
    BY <2>7, <2>8
  <2>3. settings' = [settings EXCEPT ![s] = [client |-> client, cancelled |-> TRUE]]
    BY <2>6, <2>9
  <2>4. DOMAIN settings' = DOMAIN settings /\ settings' \in [DOMAIN settings -> SettingRows]
    BY <2>1, <2>3 DEF TypeOK, SettingRows, Cancel
  <2>5. QED
    BY <1>2, <1>3, <2>1, <2>4 DEF Cancel, TypeOK
<1>13. CASE BeginDocket(w)
  <2> DEFINE flow == [op |-> "docket", rows |-> << >>, entries |-> {s \in DOMAIN settings : ~settings[s].cancelled}]
  <2>1. << >> \in [{} -> DocketRows]
    OBVIOUS
  <2>2. << >> \in UNION {[K -> DocketRows] : K \in SUBSET Settings}
    BY <2>1
  <2>3. flow \in DocketFlows
    BY <2>2 DEF DocketFlows, TypeOK
  <2>4. doing' = [doing EXCEPT ![w] = flow]
    BY <1>13 DEF BeginDocket, Become
  <2>5. doing'[w] = flow /\ flow.op = "docket"
    BY <1>1, <2>4
  <2> HIDE DEF flow
  <2>6. QED
    BY <1>2, <1>4, <1>13, <2>3, <2>4, <2>5 DEF BeginDocket, TypeOK

<1>14. CASE ReadLines(w)
  <2> DEFINE s == Min(doing[w].entries)
             lines == {[matter |-> m, case |-> matters[m].case] : m \in covers[s]}
             row == [lines |-> lines, resolved |-> << >>, missing |-> 0]
  <2>1. PICK rows, entries :
          /\ doing[w] = [op |-> "docket", rows |-> rows, entries |-> entries]
          /\ rows \in UNION {[K -> DocketRows] : K \in SUBSET Settings} /\ entries \in SUBSET Settings
    BY <1>14 DEF ReadLines, TypeOK, DocketFlows
  <2>2. s \in entries /\ s \in Settings
    BY <1>14, <2>1, LeastOfSet, ConstantsAssumption DEF ReadLines
  <2>3. s \in DOMAIN settings
    BY <2>1, <2>2 DEF FlowsStand, FlowStands
  <2>4. \A m \in covers[s] : m \in Matters /\ matters[m].case \in Cases \cup {None}
    BY <2>3 DEF TypeOK, MatterRows
  <2>5. lines \in SUBSET Lines
    BY <2>4 DEF Lines
  <2>6. << >> \in UNION {[K -> BOOLEAN] : K \in SUBSET Cases}
    <3>1. << >> \in [{} -> BOOLEAN]
      OBVIOUS
    <3>2. QED
      BY <3>1
  <2> HIDE DEF lines
  <2>7. row \in DocketRows
    BY <2>5, <2>6 DEF DocketRows
  <2>8. doing' = [doing EXCEPT ![w] =
           [doing[w] EXCEPT !.entries = doing[w].entries \ {s}, !.rows = AddRow(doing[w].rows, s, row)]]
    BY <1>14 DEF ReadLines, Become, lines
  <2> HIDE DEF row, s
  <2>16. doing[w].entries = entries /\ doing[w].rows = rows
    BY <2>1
  <2> DEFINE flow == [doing[w] EXCEPT !.entries = entries \ {s}, !.rows = AddRow(rows, s, row)]
  <2>17. flow = [op |-> "docket", rows |-> AddRow(rows, s, row), entries |-> entries \ {s}]
    <3>1. flow = [f \in {"op", "rows", "entries"} |-> flow[f]]
      BY <2>1
    <3>2. flow.op = "docket" /\ flow.rows = AddRow(rows, s, row) /\ flow.entries = entries \ {s}
      BY <2>1
    <3> HIDE DEF flow
    <3>3. QED
      BY <3>1, <3>2
  <2>9. doing' = [doing EXCEPT ![w] =
           [op |-> "docket", rows |-> AddRow(rows, s, row), entries |-> entries \ {s}]]
    BY <2>8, <2>16, <2>17
  <2>10. PICK K \in SUBSET Settings : rows \in [K -> DocketRows]
    BY <2>1
  <2>11. AddRow(rows, s, row) \in [K \cup {s} -> DocketRows]
    BY <2>7, <2>10, AddedRowType
  <2>12. AddRow(rows, s, row) \in UNION {[L -> DocketRows] : L \in SUBSET Settings}
    BY <2>2, <2>11
  <2>13. [op |-> "docket", rows |-> AddRow(rows, s, row), entries |-> entries \ {s}] \in DocketFlows
    BY <2>1, <2>12 DEF DocketFlows
  <2>14. doing' = [doing EXCEPT ![w] = doing'[w]] /\ doing'[w].op = "docket" /\ doing'[w] \in DocketFlows
    BY <1>1, <2>9, <2>13
  <2>15. QED
    BY <1>4, <1>14, <2>14 DEF ReadLines, TypeOK
<1>15. CASE AskKernel(w)
  <2>1. PICK rows, entries :
          /\ doing[w] = [op |-> "docket", rows |-> rows, entries |-> entries]
          /\ rows \in UNION {[K -> DocketRows] : K \in SUBSET Settings} /\ entries \in SUBSET Settings
    BY <1>15 DEF AskKernel, TypeOK, DocketFlows
  <2>13. doing[w].rows = rows
    BY <2>1
  <2>2. PICK s \in DOMAIN doing[w].rows : \E c \in Unasked(doing[w].rows[s]) :
          doing' = [doing EXCEPT ![w] = [doing[w] EXCEPT !.rows[s] = Resolve(doing[w].rows[s], c)]]
    BY <1>15 DEF AskKernel, Become
  <2>12. PICK c \in Unasked(rows[s]) :
          doing' = [doing EXCEPT ![w] = [doing[w] EXCEPT !.rows[s] = Resolve(rows[s], c)]]
    BY <2>2, <2>13
  <2>3. PICK K \in SUBSET Settings : rows \in [K -> DocketRows]
    BY <2>1
  <2>4. rows[s] \in DocketRows /\ c \in Cases /\ IsFiniteSet(rows[s].lines)
    <3>1. rows[s] \in DocketRows /\ rows[s].lines \in SUBSET Lines
      BY <2>2, <2>3, <2>13 DEF DocketRows
    <3>2. c \in Cases
      BY <2>12, <3>1 DEF Unasked, Lines
    <3>3. QED
      BY <2>1, <3>1, <3>2 DEF FlowsStand, FlowStands, RowStands
  <2>5. Resolve(rows[s], c) \in DocketRows
    BY <2>4, ResolvedRow
  <2>6. [doing[w] EXCEPT !.rows[s] = Resolve(rows[s], c)]
          = [op |-> "docket", rows |-> [rows EXCEPT ![s] = Resolve(rows[s], c)], entries |-> entries]
    BY <2>1
  <2>7. [rows EXCEPT ![s] = Resolve(rows[s], c)] \in [K -> DocketRows]
    BY <2>3, <2>5
  <2>8. [rows EXCEPT ![s] = Resolve(rows[s], c)] \in UNION {[L -> DocketRows] : L \in SUBSET Settings}
    BY <2>7
  <2>9. [op |-> "docket", rows |-> [rows EXCEPT ![s] = Resolve(rows[s], c)], entries |-> entries] \in DocketFlows
    BY <2>1, <2>8 DEF DocketFlows
  <2>10. doing' = [doing EXCEPT ![w] = doing'[w]] /\ doing'[w].op = "docket" /\ doing'[w] \in DocketFlows
    BY <1>1, <2>12, <2>6, <2>9
  <2>11. QED
    BY <1>4, <1>15, <2>10 DEF AskKernel, TypeOK
<1>16. CASE Stop(w)
  BY <1>5, <1>16 DEF Stop, Become, TypeOK
<1>17. QED
  BY <1>6, <1>7, <1>8, <1>9, <1>10, <1>11, <1>12, <1>13, <1>14, <1>15, <1>16 DEF Step

----------------------------------------------------------------------------
(* The calendar.                                                            *)

\* No case is closed, and rows keep their client and that they were typed.
Keeps ==
  /\ cases \subseteq cases'
  /\ \A m \in DOMAIN matters :
       /\ m \in DOMAIN matters'
       /\ matters'[m].client = matters[m].client
       /\ matters[m].typed => matters'[m].typed
  /\ \A s \in DOMAIN settings :
       s \in DOMAIN settings' /\ settings'[s].client = settings[s].client

LEMMA RowKeeps ==
  ASSUME Keeps, NEW s \in DOMAIN settings, NEW row, RowStands(s, row)
  PROVE  RowStands(s, row)'
<1>1. row.lines # {} /\ IsFiniteSet(row.lines) /\ row.missing = Cardinality(Broken(row))
  BY DEF RowStands
<1>2. ASSUME NEW l \in row.lines
      PROVE  /\ l.matter \in DOMAIN matters'
             /\ matters'[l.matter].client = settings'[s].client
             /\ matters'[l.matter].typed \/ l.case \in cases' \cup {None}
             /\ l \in Broken(row) => matters'[l.matter].typed
  BY DEF RowStands, Keeps
<1>3. QED
  BY <1>1, <1>2 DEF RowStands, Broken

LEMMA FlowKeeps ==
  ASSUME Keeps, NEW w \in Windows, FlowStands(w), doing'[w] = doing[w]
  PROVE  FlowStands(w)'
<1>1. doing'[w].op = "open" => doing'[w].case \in cases' \cup {None, "new"}
  BY DEF FlowStands, Keeps
<1>2. ASSUME doing'[w].op = "docket"
      PROVE  /\ doing'[w].entries \subseteq DOMAIN settings'
             /\ DOMAIN doing'[w].rows \subseteq DOMAIN settings'
             /\ \A s \in DOMAIN doing'[w].rows : RowStands(s, doing[w].rows[s])'
  <2>1. /\ doing[w].entries \subseteq DOMAIN settings
        /\ DOMAIN doing[w].rows \subseteq DOMAIN settings
        /\ \A s \in DOMAIN doing[w].rows : RowStands(s, doing[w].rows[s])
    BY <1>2 DEF FlowStands
  <2>2. DOMAIN settings \subseteq DOMAIN settings'
    BY DEF Keeps
  <2>3. PICK rows : rows = doing[w].rows /\ rows = doing'[w].rows
    OBVIOUS
  <2>4. ASSUME NEW s \in DOMAIN rows
        PROVE  RowStands(s, rows[s])'
    BY <2>1, <2>3, RowKeeps
  <2>5. QED
    BY <2>1, <2>2, <2>3, <2>4
<1>3. QED
  BY <1>1, <1>2 DEF FlowStands

\* A window that is in neither flow.
LEMMA OtherFlow ==
  ASSUME NEW w \in Windows, doing'[w].op \notin {"open", "docket"}
  PROVE  FlowStands(w)'
BY DEF FlowStands

LEMMA InitCalendarInv == Init => CalendarInv
<1> SUFFICES ASSUME Init PROVE CalendarInv
  OBVIOUS
<1>1. PICK r \in Calendars :
        cases = r.cases /\ matters = r.matters /\ settings = r.settings /\ covers = r.covers
  BY DEF Init
<1>2. IsCalendar(r)
  BY <1>1, ConstantsAssumption
<1>3. CalendarStands
  BY <1>1, <1>2 DEF IsCalendar, CalendarStands
<1>4. FlowsStand
  BY DEF Init, Idle, FlowsStand, FlowStands
<1>5. QED
  BY <1>3, <1>4, InitTypes DEF CalendarInv

LEMMA KeptCalendar ==
  ASSUME CalendarInv, UNCHANGED <<matters, settings, covers, spent>>,
         cases \subseteq cases', cases' \subseteq Cases,
         doing' = [v \in Windows |-> doing'[v]],
         \A v \in Windows : doing'[v] = doing[v] \/ doing'[v].op \in FileFlows
  PROVE  CalendarInv'
<1>1. Keeps
  BY DEF Keeps
<1>2. CalendarStands'
  BY DEF CalendarInv, CalendarStands
<1>3. ASSUME NEW v \in Windows
      PROVE  FlowStands(v)'
  BY <1>1, FlowKeeps, OtherFlow DEF CalendarInv, FlowsStand, FileFlows
<1>4. TypeOK'
  BY DEF CalendarInv, TypeOK, FileFlows
<1>5. QED
  BY <1>2, <1>3, <1>4 DEF CalendarInv, FlowsStand

LEMMA CalendarKeeps ==
  ASSUME CalendarInv, NEW w \in Windows, Step(w)
  PROVE  Keeps /\ CalendarStands'
<1> USE DEF calendar
<1>1. TypeOK /\ CalendarStands
  BY DEF CalendarInv
<1>2. ASSUME cases \subseteq cases', UNCHANGED <<matters, settings, covers>>
      PROVE  Keeps /\ CalendarStands'
  BY <1>1, <1>2 DEF Keeps, CalendarStands
<1>3. CASE \/ \E client \in Clients, link \in {"new", None} \cup Cases : BeginOpen(w, client, link)
           \/ \E c \in Cases : OpenCase(w, c)
           \/ BeginDocket(w) \/ ReadLines(w) \/ AskKernel(w) \/ Stop(w)
  BY <1>2, <1>3 DEF BeginOpen, OpenCase, BeginDocket, ReadLines, AskKernel, Stop
<1>4. CASE \E m \in Matters : InsertMatter(w, m)
  <2>1. PICK m \in Matters : InsertMatter(w, m)
    BY <1>4
  <2>2. PICK row : /\ matters' = AddRow(matters, m, row) /\ m \notin DOMAIN matters
                   /\ row.case = doing[w].case /\ row.typed = FALSE
    BY <2>1 DEF InsertMatter
  <2>3. row.case \in cases \cup {None}
    BY <2>1, <2>2 DEF InsertMatter, CalendarInv, FlowsStand, FlowStands
  <2>4. /\ DOMAIN matters' = DOMAIN matters \cup {m} /\ matters'[m] = row
        /\ \A k \in DOMAIN matters : matters'[k] = matters[k]
    BY <2>2 DEF AddRow
  <2>5. IsFiniteSet(DOMAIN matters')
    BY <1>1, <2>4, FS_AddElement DEF CalendarStands
  <2>6. UNCHANGED <<cases, settings, covers>>
    BY <2>1 DEF InsertMatter
  <2>7. Keeps
    BY <2>4, <2>6 DEF Keeps
  <2>8. \A s \in DOMAIN settings' :
          covers'[s] # {} /\ \A n \in covers'[s] : matters'[n].client = settings'[s].client
    BY <1>1, <2>4, <2>6 DEF CalendarStands, TypeOK
  <2>9. QED
    BY <1>1, <2>3, <2>4, <2>5, <2>6, <2>7, <2>8 DEF CalendarStands
<1>5. CASE \E m \in Matters, c \in Cases : LinkCase(w, m, c)
  <2>1. PICK m \in Matters, c \in Cases : LinkCase(w, m, c)
    BY <1>5
  <2>2. /\ DOMAIN matters' = DOMAIN matters
        /\ \A k \in DOMAIN matters : k # m => matters'[k] = matters[k]
        /\ matters'[m] = [[matters[m] EXCEPT !.case = c] EXCEPT !.typed = TRUE]
    BY <2>1 DEF LinkCase
  <2>3. PICK client, link, typed : matters[m] = [client |-> client, case |-> link, typed |-> typed]
    BY <1>1, <2>1 DEF LinkCase, TypeOK, MatterRows
  <2>4. matters'[m].client = matters[m].client /\ matters'[m].typed = TRUE
    BY <2>2, <2>3
  <2>5. \A k \in DOMAIN matters : matters'[k].client = matters[k].client
    BY <2>2, <2>4
  <2>6. UNCHANGED <<cases, settings, covers>>
    BY <2>1 DEF LinkCase
  <2>7. Keeps
    BY <2>2, <2>4, <2>5, <2>6 DEF Keeps
  <2>8. \A s \in DOMAIN settings' :
          covers'[s] # {} /\ \A n \in covers'[s] : matters'[n].client = settings'[s].client
    BY <1>1, <2>5, <2>6 DEF CalendarStands, TypeOK
  <2>9. QED
    BY <1>1, <2>2, <2>4, <2>6, <2>7, <2>8 DEF CalendarStands
<1>6. CASE \E s \in Settings, client \in Clients, called \in SUBSET Matters : Schedule(w, s, client, called)
  <2>1. PICK s \in Settings, client \in Clients, called \in SUBSET Matters : Schedule(w, s, client, called)
    BY <1>6
  <2>2. PICK row : settings' = AddRow(settings, s, row) /\ row.client = client /\ s \notin DOMAIN settings
    BY <2>1 DEF Schedule
  <2>3. /\ DOMAIN settings' = DOMAIN settings \cup {s} /\ settings'[s].client = client
        /\ \A k \in DOMAIN settings : settings'[k] = settings[k]
    BY <2>2 DEF AddRow
  <2>4. covers'[s] = called /\ \A k \in DOMAIN settings : covers'[k] = covers[k]
    BY <1>1, <2>1, <2>2 DEF Schedule, TypeOK, AddRow
  <2>5. UNCHANGED <<cases, matters>>
    BY <2>1 DEF Schedule
  <2>6. Keeps
    BY <2>3, <2>5 DEF Keeps
  <2>7. called # {} /\ \A m \in called : matters[m].client = client
    BY <2>1 DEF Schedule
  <2>8. QED
    BY <1>1, <2>3, <2>4, <2>5, <2>6, <2>7 DEF CalendarStands
<1>7. CASE \E s \in Settings, m \in Matters : LinkMatter(w, s, m) \/ UnlinkMatter(w, s, m)
  <2>1. PICK s \in Settings, m \in Matters : LinkMatter(w, s, m) \/ UnlinkMatter(w, s, m)
    BY <1>7
  <2>2. UNCHANGED <<cases, matters, settings>>
    BY <2>1 DEF LinkMatter, UnlinkMatter
  <2>3. ASSUME NEW k \in DOMAIN settings
        PROVE  covers'[k] # {} /\ \A n \in covers'[k] : matters[n].client = settings[k].client
    <3>1. covers[k] # {} /\ \A n \in covers[k] : matters[n].client = settings[k].client
      BY <1>1 DEF CalendarStands
    <3>2. CASE LinkMatter(w, s, m)
      BY <1>1, <3>1, <3>2 DEF LinkMatter, TypeOK
    <3>3. CASE UnlinkMatter(w, s, m)
      BY <1>1, <3>1, <3>3 DEF UnlinkMatter, MayUnlink, TypeOK
    <3>4. QED
      BY <2>1, <3>2, <3>3
  <2>4. QED
    BY <1>1, <2>2, <2>3 DEF Keeps, CalendarStands
<1>8. CASE \E s \in Settings : Cancel(w, s)
  <2>1. PICK s \in Settings : Cancel(w, s)
    BY <1>8
  <2>2. /\ DOMAIN settings' = DOMAIN settings
        /\ \A k \in DOMAIN settings : k # s => settings'[k] = settings[k]
        /\ settings'[s] = [settings[s] EXCEPT !.cancelled = TRUE]
    BY <2>1 DEF Cancel
  <2>3. PICK client, b : settings[s] = [client |-> client, cancelled |-> b]
    BY <1>1, <2>1 DEF Cancel, TypeOK, SettingRows
  <2>4. \A k \in DOMAIN settings : settings'[k].client = settings[k].client
    BY <2>2, <2>3
  <2>5. UNCHANGED <<cases, matters, covers>>
    BY <2>1 DEF Cancel
  <2>6. QED
    BY <1>1, <2>2, <2>4, <2>5 DEF Keeps, CalendarStands
<1>9. QED
  BY <1>3, <1>4, <1>5, <1>6, <1>7, <1>8 DEF Step

LEMMA CalendarFlows ==
  ASSUME CalendarInv, NEW w \in Windows, Step(w)
  PROVE  FlowsStand'
<1> USE DEF calendar
<1>1. Keeps
  BY CalendarKeeps
<1>2. TypeOK /\ FlowsStand /\ doing = [v \in Windows |-> doing[v]]
  BY DEF CalendarInv, TypeOK
<1>3. ASSUME doing' = doing
      PROVE  FlowsStand'
  BY <1>1, <1>2, <1>3, FlowKeeps DEF FlowsStand
<1>4. ASSUME doing' = [doing EXCEPT ![w] = doing'[w]], FlowStands(w)'
      PROVE  FlowsStand'
  <2>1. ASSUME NEW v \in Windows
        PROVE  FlowStands(v)'
    <3>1. CASE v = w
      BY <1>4, <3>1
    <3>2. CASE v # w
      <4>1. doing'[v] = doing[v]
        BY <1>2, <1>4, <2>1, <3>2
      <4>2. QED
        BY <1>1, <1>2, <4>1, FlowKeeps DEF FlowsStand
    <3>3. QED
      BY <3>1, <3>2
  <2>2. QED
    BY <2>1 DEF FlowsStand
<1>5. ASSUME doing' = [doing EXCEPT ![w] = Idle]
      PROVE  FlowsStand'
  BY <1>2, <1>4, <1>5, OtherFlow DEF Idle
<1>6. CASE \E client \in Clients, link \in {"new", None} \cup Cases : BeginOpen(w, client, link)
  <2>1. PICK client, link : BeginOpen(w, client, link)
    BY <1>6
  <2>2. /\ doing' = [doing EXCEPT ![w] = doing'[w]]
        /\ doing'[w].op = "open" /\ doing'[w].case \in cases' \cup {None, "new"}
    BY <1>2, <2>1 DEF BeginOpen, Become
  <2>3. QED
    BY <1>4, <2>2 DEF FlowStands
<1>7. CASE \E c \in Cases : OpenCase(w, c)
  <2>1. PICK c \in Cases : OpenCase(w, c)
    BY <1>7
  <2>2. PICK client : doing[w] = [op |-> "open", client |-> client, case |-> "new"]
    BY <1>2, <2>1 DEF OpenCase, TypeOK, OpenFlows
  <2>3. [doing[w] EXCEPT !.case = c] = [op |-> "open", client |-> client, case |-> c]
    BY <2>2
  <2>4. /\ doing' = [doing EXCEPT ![w] = doing'[w]]
        /\ doing'[w] = [op |-> "open", client |-> client, case |-> c] /\ c \in cases'
    BY <1>2, <2>1, <2>3 DEF OpenCase, Become
  <2>5. QED
    BY <1>4, <2>4 DEF FlowStands
<1>8. CASE \E m \in Matters : InsertMatter(w, m)
  BY <1>5, <1>8 DEF InsertMatter, Become
<1>9. CASE \/ \E m \in Matters, c \in Cases : LinkCase(w, m, c)
           \/ \E s \in Settings, client \in Clients, called \in SUBSET Matters : Schedule(w, s, client, called)
           \/ \E s \in Settings, m \in Matters : LinkMatter(w, s, m) \/ UnlinkMatter(w, s, m)
           \/ \E s \in Settings : Cancel(w, s)
  BY <1>3, <1>9 DEF LinkCase, Schedule, LinkMatter, UnlinkMatter, Cancel
<1>10. CASE BeginDocket(w)
  <2>1. doing' = [doing EXCEPT ![w] =
           [op |-> "docket", rows |-> << >>, entries |-> {s \in DOMAIN settings : ~settings[s].cancelled}]]
    BY <1>10 DEF BeginDocket, Become
  <2>2. /\ doing' = [doing EXCEPT ![w] = doing'[w]] /\ doing'[w].op = "docket"
        /\ doing'[w].entries \subseteq DOMAIN settings /\ DOMAIN doing'[w].rows = {}
    BY <1>2, <2>1
  <2>3. DOMAIN settings \subseteq DOMAIN settings'
    BY <1>1 DEF Keeps
  <2>4. FlowStands(w)'
    BY <2>2, <2>3 DEF FlowStands
  <2>5. QED
    BY <1>4, <2>2, <2>4
<1>11. CASE ReadLines(w)
  <2>1. PICK rows, entries :
          /\ doing[w] = [op |-> "docket", rows |-> rows, entries |-> entries]
          /\ rows \in UNION {[K -> DocketRows] : K \in SUBSET Settings} /\ entries \in SUBSET Settings
    BY <1>2, <1>11 DEF ReadLines, TypeOK, DocketFlows
  <2>2. PICK s : s = Min(doing[w].entries)
    OBVIOUS
  <2>3. PICK lines : lines = {[matter |-> m, case |-> matters[m].case] : m \in covers[s]}
    OBVIOUS
  <2>4. PICK row : row = [lines |-> lines, resolved |-> << >>, missing |-> 0]
    OBVIOUS
  <2>5. s \in entries /\ s \in DOMAIN settings
    BY <1>2, <1>11, <2>1, <2>2, LeastOfSet, ConstantsAssumption DEF ReadLines, FlowsStand, FlowStands
  <2>6. /\ covers[s] # {} /\ covers[s] \subseteq DOMAIN matters /\ IsFiniteSet(covers[s])
        /\ \A m \in covers[s] : /\ matters[m].client = settings[s].client
                                /\ matters[m].typed \/ matters[m].case \in cases \cup {None}
    BY <1>2, <2>5, FS_Subset DEF CalendarInv, CalendarStands, TypeOK
  <2>7. IsFiniteSet(lines)
    <3> DEFINE f == [m \in covers[s] |-> [matter |-> m, case |-> matters[m].case]]
    <3>1. lines = {f[m] : m \in covers[s]}
      BY <2>3
    <3>2. f \in Surjection(covers[s], lines)
      BY <3>1 DEF Surjection
    <3>3. QED
      BY <2>6, <3>2, FS_Surjection
  <2>8. RowStands(s, row)
    <3>1. row.lines = lines /\ DOMAIN row.resolved = {} /\ row.missing = 0
      BY <2>4
    <3>2. Broken(row) = {}
      BY <3>1 DEF Broken
    <3>3. Cardinality(Broken(row)) = 0
      BY <3>2, FS_EmptySet
    <3>4. lines # {}
      BY <2>3, <2>6
    <3>5. ASSUME NEW l \in lines
          PROVE  /\ l.matter \in DOMAIN matters
                 /\ matters[l.matter].client = settings[s].client
                 /\ matters[l.matter].typed \/ l.case \in cases \cup {None}
      BY <2>3, <2>6
    <3>6. QED
      BY <2>7, <3>1, <3>2, <3>3, <3>4, <3>5 DEF RowStands
  <2>9. PICK flow :
          /\ flow = [doing[w] EXCEPT !.entries = entries \ {s}, !.rows = AddRow(rows, s, row)]
          /\ doing' = [doing EXCEPT ![w] = flow]
    <3>1. doing' = [doing EXCEPT ![w] =
             [doing[w] EXCEPT !.entries = doing[w].entries \ {s}, !.rows = AddRow(doing[w].rows, s, row)]]
      BY <1>11, <2>2, <2>3, <2>4 DEF ReadLines, Become
    <3>2. doing[w].entries = entries /\ doing[w].rows = rows
      BY <2>1
    <3>3. QED
      BY <3>1, <3>2
  <2>10. flow.op = "docket" /\ flow.entries = entries \ {s} /\ flow.rows = AddRow(rows, s, row)
    BY <2>1, <2>9
  <2>11. /\ doing' = [doing EXCEPT ![w] = doing'[w]] /\ doing'[w].op = "docket"
         /\ doing'[w].entries = entries \ {s} /\ doing'[w].rows = AddRow(rows, s, row)
    BY <1>2, <2>9, <2>10
  <2>12. /\ UNCHANGED settings
         /\ entries \subseteq DOMAIN settings /\ DOMAIN rows \subseteq DOMAIN settings
         /\ \A k \in DOMAIN rows : RowStands(k, rows[k])
    BY <1>2, <1>11, <2>1 DEF ReadLines, FlowsStand, FlowStands
  <2>13. PICK new : new = AddRow(rows, s, row)
    OBVIOUS
  <2>14. DOMAIN new \subseteq DOMAIN settings
    BY <2>5, <2>12, <2>13 DEF AddRow
  <2>15. ASSUME NEW k \in DOMAIN new
         PROVE  RowStands(k, new[k])'
    <3>1. RowStands(k, new[k])
      BY <2>8, <2>12, <2>13 DEF AddRow
    <3>2. QED
      BY <1>1, <2>14, <3>1, RowKeeps
  <2>16. FlowStands(w)'
    BY <2>11, <2>12, <2>13, <2>14, <2>15 DEF FlowStands
  <2>17. QED
    BY <1>4, <2>11, <2>16
<1>12. CASE AskKernel(w)
  <2>1. PICK rows, entries :
          /\ doing[w] = [op |-> "docket", rows |-> rows, entries |-> entries]
          /\ rows \in UNION {[K -> DocketRows] : K \in SUBSET Settings} /\ entries \in SUBSET Settings
    BY <1>2, <1>12 DEF AskKernel, TypeOK, DocketFlows
  <2>2. doing[w].rows = rows /\ doing[w].op = "docket" /\ doing[w].entries = entries
    BY <2>1
  <2>3. PICK s \in DOMAIN doing[w].rows : \E c \in Unasked(doing[w].rows[s]) :
          doing' = [doing EXCEPT ![w] = [doing[w] EXCEPT !.rows[s] = Resolve(doing[w].rows[s], c)]]
    BY <1>12 DEF AskKernel, Become
  <2>4. PICK c \in Unasked(rows[s]) :
          doing' = [doing EXCEPT ![w] = [doing[w] EXCEPT !.rows[s] = Resolve(rows[s], c)]]
    BY <2>2, <2>3
  <2>5. /\ UNCHANGED <<cases, matters, settings>>
        /\ entries \subseteq DOMAIN settings /\ DOMAIN rows \subseteq DOMAIN settings
        /\ \A k \in DOMAIN rows : RowStands(k, rows[k])
    BY <1>2, <1>12, <2>2 DEF AskKernel, FlowsStand, FlowStands
  <2>6. PICK K \in SUBSET Settings : rows \in [K -> DocketRows]
    BY <2>1
  <2>7. s \in K /\ rows[s] \in DocketRows
    BY <2>2, <2>3, <2>6
  <2>8. RowStands(s, rows[s]) /\ s \in DOMAIN settings
    BY <2>2, <2>3, <2>5
  <2>9. PICK old, row : old = rows[s] /\ row = Resolve(old, c)
    OBVIOUS
  <2>10. RowStands(s, row)
    <3>1. old \in DocketRows /\ RowStands(s, old) /\ IsFiniteSet(old.lines) /\ c \in Unasked(old)
      BY <2>4, <2>7, <2>8, <2>9 DEF RowStands
    <3>2. c \in Cases /\ c # None /\ c \notin DOMAIN old.resolved
      BY <3>1 DEF Unasked, DocketRows, Lines
    <3>3. /\ row.lines = old.lines /\ DOMAIN row.resolved = DOMAIN old.resolved \cup {c}
          /\ row.resolved[c] <=> c \in cases
          /\ \A d \in DOMAIN old.resolved : d # c => row.resolved[d] = old.resolved[d]
          /\ row.missing = IF c \in cases THEN old.missing ELSE old.missing + Cardinality(Naming(old, c))
      BY <2>9, <3>1, <3>2, ResolvedRow
    <3>4. Broken(row) = Broken(old) \cup {l \in Naming(old, c) : c \notin cases}
      BY <3>2, <3>3 DEF Broken, Naming
    <3>5. row.missing = Cardinality(Broken(row))
      <4>1. old.missing = Cardinality(Broken(old))
        BY <3>1 DEF RowStands
      <4>2. CASE c \in cases
        <5>1. Broken(row) = Broken(old)
          BY <3>4, <4>2
        <5>2. QED
          BY <3>3, <4>1, <4>2, <5>1
      <4>3. CASE c \notin cases
        <5>1. Broken(row) = Broken(old) \cup Naming(old, c) /\ Broken(old) \cap Naming(old, c) = {}
          BY <3>2, <3>4, <4>3 DEF Broken, Naming
        <5>2. IsFiniteSet(Broken(old)) /\ IsFiniteSet(Naming(old, c))
          BY <3>1, FS_Subset DEF Broken, Naming
        <5>3. Cardinality(Broken(old) \cap Naming(old, c)) = 0
          BY <5>1, FS_EmptySet
        <5>4. Cardinality(Broken(old)) \in Nat /\ Cardinality(Naming(old, c)) \in Nat
          BY <5>2, FS_CardinalityType
        <5>5. Cardinality(Broken(row)) = Cardinality(Broken(old)) + Cardinality(Naming(old, c)) - 0
          BY <5>1, <5>2, <5>3, FS_Union
        <5>6. QED
          BY <3>3, <4>1, <4>3, <5>4, <5>5
      <4>4. QED
        BY <4>2, <4>3
    <3>6. ASSUME NEW l \in row.lines
          PROVE  /\ l.matter \in DOMAIN matters
                 /\ matters[l.matter].client = settings[s].client
                 /\ matters[l.matter].typed \/ l.case \in cases \cup {None}
                 /\ l \in Broken(row) => matters[l.matter].typed
      BY <3>1, <3>2, <3>3, <3>4 DEF RowStands, Naming
    <3>7. QED
      BY <3>1, <3>3, <3>5, <3>6 DEF RowStands
  <2>11. PICK new : new = [rows EXCEPT ![s] = row]
    OBVIOUS
  <2>12. DOMAIN new = DOMAIN rows /\ \A k \in DOMAIN rows : new[k] = IF k = s THEN row ELSE rows[k]
    BY <2>11
  <2>13. PICK flow : flow = [doing[w] EXCEPT !.rows[s] = row] /\ doing' = [doing EXCEPT ![w] = flow]
    BY <2>4, <2>9
  <2>14. flow.op = "docket" /\ flow.entries = entries /\ flow.rows = new
    BY <2>1, <2>11, <2>13
  <2>15. /\ doing' = [doing EXCEPT ![w] = doing'[w]] /\ doing'[w].op = "docket"
         /\ doing'[w].entries = entries /\ doing'[w].rows = new
    BY <1>2, <2>13, <2>14
  <2>16. ASSUME NEW k \in DOMAIN new
         PROVE  RowStands(k, new[k])'
    <3>1. RowStands(k, new[k])
      BY <2>5, <2>10, <2>12
    <3>2. QED
      BY <1>1, <2>5, <2>12, <3>1, RowKeeps
  <2>17. FlowStands(w)'
    BY <2>5, <2>12, <2>15, <2>16 DEF FlowStands
  <2>18. QED
    BY <1>4, <2>15, <2>17
<1>13. CASE Stop(w)
  BY <1>5, <1>13 DEF Stop, Become
<1>14. QED
  BY <1>6, <1>7, <1>8, <1>9, <1>10, <1>11, <1>12, <1>13 DEF Step

LEMMA CalendarInvariant == CalendarInv /\ [DeskNext]_deskVars => CalendarInv'
<1> SUFFICES ASSUME CalendarInv, [DeskNext]_deskVars PROVE CalendarInv'
  OBVIOUS
<1>1. TypeOK
  BY DEF CalendarInv
<1>2. CASE CalendarMoves
  <2>1. PICK w \in Windows : Step(w)
    BY <1>2 DEF CalendarMoves
  <2>2. TypeOK'
    BY <2>1, CalendarTypes DEF CalendarInv
  <2>3. QED
    BY <2>1, <2>2, CalendarKeeps, CalendarFlows DEF CalendarInv
<1>3. CASE FileMoves
  <2>1. PICK w \in Windows : FileStep(w)
    BY <1>3 DEF FileMoves
  <2>2. cases \subseteq cases' /\ cases' \subseteq Cases
    BY <1>1, <2>1, FileFrame DEF TypeOK
  <2>3. QED
    BY <1>1, <2>1, <2>2, FileFrame, KeptCalendar
<1>4. CASE CasesGrow
  <2>1. doing' = doing /\ UNCHANGED <<matters, settings, covers, spent>>
    BY <1>4 DEF CasesGrow, theRest, calendar
  <2>2. doing' = [v \in Windows |-> doing'[v]]
    BY <1>1, <2>1 DEF TypeOK
  <2>3. QED
    BY <1>4, <2>1, <2>2, KeptCalendar DEF CasesGrow
<1>5. QED
  BY <1>1, <1>2, <1>3, <1>4, DeskSteps

LEMMA CalendarAlways == DeskSpec => []CalendarInv
<1>1. DeskInit => CalendarInv
  BY InitCalendarInv DEF DeskInit, FileInit
<1>2. QED
  BY <1>1, CalendarInvariant, PTL DEF DeskSpec

\* Every table of the calendar and every flow over it keeps its shape, whatever
\* other processes, the file and the windows do.
THEOREM TypeCorrect == DeskSpec => []TypeOK
<1>1. CalendarInv => TypeOK
  BY DEF CalendarInv
<1>2. QED
  BY <1>1, CalendarAlways, PTL

\* docket_row: however settings are made, linked, unlinked and cancelled while
\* a docket is read, its rows are about matters of one client, and count each
\* of them once.
THEOREM DocketIsWholeHolds == DeskSpec => []DocketIsWhole
<1>1. CalendarInv => DocketIsWhole
  <2> SUFFICES ASSUME CalendarInv, NEW r \in Rows
               PROVE  LET row == r.row
                          held == {l \in row.lines : l.case \in DOMAIN row.resolved /\ row.resolved[l.case]}
                      IN /\ row.lines # {}
                         /\ \A l \in row.lines : matters[l.matter].client = settings[r.setting].client
                         /\ Whole(row) =>
                              Cardinality(row.lines) =
                                Cardinality(Naming(row, None)) + Cardinality(held) + row.missing
    BY DEF DocketIsWhole
  <2>1. PICK w, s : /\ w \in Windows /\ doing[w].op = "docket" /\ s \in DOMAIN doing[w].rows
                    /\ r = [setting |-> s, row |-> doing[w].rows[s]]
    BY DEF Rows, Reading
  <2>2. PICK row : row = doing[w].rows[s] /\ r.row = row /\ r.setting = s
    BY <2>1
  <2>3. RowStands(s, row) /\ row \in DocketRows
    BY <2>1, <2>2 DEF CalendarInv, FlowsStand, FlowStands, TypeOK, DocketFlows
  <2> DEFINE held == {l \in row.lines : l.case \in DOMAIN row.resolved /\ row.resolved[l.case]}
             none == Naming(row, None)
  <2>4. ASSUME Whole(row)
        PROVE  Cardinality(row.lines) = Cardinality(none) + Cardinality(held) + row.missing
    <3>1. \A l \in row.lines : l.case = None \/ l.case \in DOMAIN row.resolved
      BY <2>4 DEF Whole, Unasked
    <3>2. None \notin DOMAIN row.resolved
      BY <2>3, ConstantsAssumption DEF DocketRows
    <3>3. row.lines = (none \cup held) \cup Broken(row)
      BY <3>1 DEF Naming, Broken
    <3>4. none \cap held = {} /\ (none \cup held) \cap Broken(row) = {}
      BY <3>2 DEF Naming, Broken
    <3>5. IsFiniteSet(none) /\ IsFiniteSet(held) /\ IsFiniteSet(Broken(row)) /\ IsFiniteSet(none \cup held)
      BY <2>3, FS_Subset, FS_Union DEF Naming, Broken, RowStands
    <3> HIDE DEF none, held
    <3>6. Cardinality(none \cup held) = Cardinality(none) + Cardinality(held)
      <4>1. Cardinality(none \cup held) =
              Cardinality(none) + Cardinality(held) - Cardinality(none \cap held)
        BY <3>5, FS_Union
      <4>2. Cardinality(none \cap held) = 0
        BY <3>4, FS_EmptySet
      <4>3. Cardinality(none) \in Nat /\ Cardinality(held) \in Nat
        BY <3>5, FS_CardinalityType
      <4>4. QED
        BY <4>1, <4>2, <4>3
    <3>7. Cardinality(row.lines) = Cardinality(none \cup held) + Cardinality(Broken(row))
      <4>1. Cardinality((none \cup held) \cup Broken(row)) =
              Cardinality(none \cup held) + Cardinality(Broken(row))
                - Cardinality((none \cup held) \cap Broken(row))
        BY <3>5, FS_Union
      <4>2. Cardinality((none \cup held) \cap Broken(row)) = 0
        BY <3>4, FS_EmptySet
      <4>3. Cardinality(none \cup held) \in Nat /\ Cardinality(Broken(row)) \in Nat
        BY <3>5, FS_CardinalityType
      <4>4. QED
        BY <3>3, <4>1, <4>2, <4>3
    <3>8. QED
      BY <2>3, <3>6, <3>7 DEF RowStands
  <2>5. row.lines # {} /\ \A l \in row.lines : matters[l.matter].client = settings[s].client
    BY <2>3 DEF RowStands
  <2>6. QED
    BY <2>2, <2>4, <2>5
<1>2. QED
  BY <1>1, CalendarAlways, PTL

\* open_matter: the case is committed before the matter that names it, so a
\* docket finds every case but one somebody typed.
THEOREM BrokenLinksAreTypedHolds == DeskSpec => []BrokenLinksAreTyped
<1>1. CalendarInv => BrokenLinksAreTyped
  <2> SUFFICES ASSUME CalendarInv, NEW r \in Rows, NEW l \in r.row.lines,
                      l.case \in DOMAIN r.row.resolved, ~ r.row.resolved[l.case]
               PROVE  matters[l.matter].typed
    BY DEF BrokenLinksAreTyped
  <2>1. PICK w, s : /\ w \in Windows /\ doing[w].op = "docket" /\ s \in DOMAIN doing[w].rows
                    /\ r = [setting |-> s, row |-> doing[w].rows[s]]
    BY DEF Rows, Reading
  <2>2. RowStands(s, r.row)
    BY <2>1 DEF CalendarInv, FlowsStand, FlowStands
  <2>3. QED
    BY <2>2 DEF RowStands, Broken
<1>2. QED
  BY <1>1, CalendarAlways, PTL

----------------------------------------------------------------------------
(* The file.                                                                *)

LEMMA CalendarFrame ==
  ASSUME TypeOK, NEW w \in Windows, Step(w)
  PROVE  \A v \in Windows : doing'[v] = doing[v] \/ doing'[v].op \in {"idle", "open", "docket"}
<1> USE DEF Become, Idle
<1>1. doing = [v \in Windows |-> doing[v]]
  BY DEF TypeOK
<1>2. ASSUME doing' = [doing EXCEPT ![w] = doing'[w]], doing'[w].op \in {"idle", "open", "docket"}
      PROVE  \A v \in Windows : doing'[v] = doing[v] \/ doing'[v].op \in {"idle", "open", "docket"}
  BY <1>1, <1>2
<1>3. CASE \E client \in Clients, link \in {"new", None} \cup Cases : BeginOpen(w, client, link)
  <2>1. PICK client, link : BeginOpen(w, client, link)
    BY <1>3
  <2>2. doing' = [doing EXCEPT ![w] = doing'[w]] /\ doing'[w].op = "open"
    BY <1>1, <2>1 DEF BeginOpen
  <2>3. QED
    BY <1>2, <2>2
<1>4. CASE \E c \in Cases : OpenCase(w, c)
  <2>1. PICK c \in Cases : OpenCase(w, c)
    BY <1>4
  <2>2. PICK client, link : doing[w] = [op |-> "open", client |-> client, case |-> link]
    BY <2>1 DEF OpenCase, TypeOK, OpenFlows
  <2>3. [doing[w] EXCEPT !.case = c].op = "open"
    BY <2>2
  <2>4. doing' = [doing EXCEPT ![w] = doing'[w]] /\ doing'[w].op = "open"
    BY <1>1, <2>1, <2>3 DEF OpenCase
  <2>5. QED
    BY <1>2, <2>4
<1>5. CASE (\E m \in Matters : InsertMatter(w, m)) \/ Stop(w)
  <2>1. doing' = [doing EXCEPT ![w] = [op |-> "idle"]]
    BY <1>5 DEF InsertMatter, Stop
  <2>2. QED
    BY <1>1, <2>1
<1>6. CASE \/ \E m \in Matters, c \in Cases : LinkCase(w, m, c)
           \/ \E s \in Settings, client \in Clients, called \in SUBSET Matters : Schedule(w, s, client, called)
           \/ \E s \in Settings, m \in Matters : LinkMatter(w, s, m) \/ UnlinkMatter(w, s, m)
           \/ \E s \in Settings : Cancel(w, s)
  BY <1>6 DEF LinkCase, Schedule, LinkMatter, UnlinkMatter, Cancel
<1>7. CASE BeginDocket(w)
  <2>1. doing' = [doing EXCEPT ![w] = doing'[w]] /\ doing'[w].op = "docket"
    BY <1>1, <1>7 DEF BeginDocket
  <2>2. QED
    BY <1>2, <2>1
<1>8. CASE ReadLines(w) \/ AskKernel(w)
  <2>1. PICK rows, entries : doing[w] = [op |-> "docket", rows |-> rows, entries |-> entries]
    BY <1>8 DEF ReadLines, AskKernel, TypeOK, DocketFlows
  <2>2. \E new, rest : \/ doing' = [doing EXCEPT ![w] = [doing[w] EXCEPT !.entries = rest, !.rows = new]]
                       \/ \E s : doing' = [doing EXCEPT ![w] = [doing[w] EXCEPT !.rows[s] = new]]
    <3>1. CASE ReadLines(w)
      <4>1. PICK s, row : doing' = [doing EXCEPT ![w] =
               [doing[w] EXCEPT !.entries = doing[w].entries \ {s}, !.rows = AddRow(doing[w].rows, s, row)]]
        BY <3>1 DEF ReadLines
      <4>2. QED
        BY <4>1
    <3>2. CASE AskKernel(w)
      BY <3>2 DEF AskKernel
    <3>3. QED
      BY <1>8, <3>1, <3>2
  <2>3. PICK new, rest : \/ doing' = [doing EXCEPT ![w] = [doing[w] EXCEPT !.entries = rest, !.rows = new]]
                         \/ \E s : doing' = [doing EXCEPT ![w] = [doing[w] EXCEPT !.rows[s] = new]]
    BY <2>2
  <2>4. [doing[w] EXCEPT !.entries = rest, !.rows = new].op = "docket"
    BY <2>1
  <2>5. \A s : [doing[w] EXCEPT !.rows[s] = new].op = "docket"
    BY <2>1
  <2>6. doing' = [doing EXCEPT ![w] = doing'[w]] /\ doing'[w].op = "docket"
    BY <1>1, <2>3, <2>4, <2>5
  <2>7. QED
    BY <1>2, <2>6
<1>9. QED
  BY <1>3, <1>4, <1>5, <1>6, <1>7, <1>8 DEF Step

\* What the search of the office is kept by: a record of the file is known to
\* the index by its identifier, and no other kind of record by the same one.
PersonShape ==
  \A p \in DOMAIN people : \E n, c, s : people[p] = [names |-> n, contacts |-> c, shown |-> s]

IndexStands ==
  /\ PersonShape
  /\ DOMAIN people \cup DOMAIN notes \subseteq DOMAIN documents
  /\ SearchKnowsEveryRecord

NotesStand ==
  /\ DOMAIN notes \subseteq Notes /\ IsFiniteSet(DOMAIN notes)
  /\ \A n \in DOMAIN notes : notes[n].version \in Nat \ {0}
  /\ AreChained(notes)
  /\ \A w \in Windows : doing[w].op = "revise" => doing[w].of \in DOMAIN notes

FileInv == CalendarInv /\ IndexStands /\ NotesStand

LEMMA InitFileInv == FileInit => FileInv
<1> SUFFICES ASSUME FileInit PROVE FileInv
  OBVIOUS
<1>1. CalendarInv /\ \A w \in Windows : doing[w].op = "idle"
  BY InitCalendarInv DEF FileInit, Init, Idle
<1>2. people = File.people /\ notes = File.notes
  BY DEF FileInit
<1>3. /\ DOMAIN documents = DOMAIN people \cup DOMAIN notes
      /\ \A p \in DOMAIN people : documents[p] = [kind |-> "client", terms |-> Terms(people[p])]
      /\ \A n \in DOMAIN notes : documents[n] = [kind |-> "note", terms |-> {n}]
  <2>1. DOMAIN people \cap DOMAIN notes = {}
    BY <1>2, FileAssumption
  <2>2. QED
    BY <1>2, <2>1 DEF FileInit, Indexed
<1>4. IndexStands
  <2>1. ASSUME NEW p \in DOMAIN people
        PROVE  \E n, c, s : people[p] = [names |-> n, contacts |-> c, shown |-> s]
    <3>1. File.people[p] = [names |-> File.people[p].names, contacts |-> File.people[p].contacts,
                            shown |-> File.people[p].shown]
      BY <1>2, <2>1, FileAssumption
    <3>2. QED
      BY <1>2, <3>1
  <2>2. PersonShape
    BY <2>1 DEF PersonShape
  <2>3. QED
    BY <1>3, <2>2 DEF IndexStands, SearchKnowsEveryRecord
<1>5. NotesStand
  BY <1>1, <1>2, FileAssumption DEF NotesStand
<1>6. QED
  BY <1>1, <1>4, <1>5 DEF FileInv

LEMMA KeptFile ==
  ASSUME IndexStands, NotesStand, UNCHANGED records,
         \A w \in Windows : doing'[w].op = "revise" => doing'[w] = doing[w]
  PROVE  IndexStands' /\ NotesStand'
<1>1. UNCHANGED <<people, notes, documents>>
  BY DEF records
<1>2. IndexStands'
  BY <1>1 DEF IndexStands, PersonShape, SearchKnowsEveryRecord, Terms
<1>3. NotesStand'
  BY <1>1 DEF NotesStand, AreChained
<1>4. QED
  BY <1>2, <1>3

\* create_client, add_alias: the document is written with the record.
LEMMA CreatedClient ==
  ASSUME IndexStands, NotesStand, NEW w \in Windows, NEW p \in People, CreateClient(w, p)
  PROVE  IndexStands' /\ UNCHANGED notes
<1> DEFINE person == [names |-> {doing[w].draft.name}, contacts |-> doing[w].draft.contacts,
                      shown |-> doing[w].shown]
<1>1. /\ people' = AddRow(people, p, person)
      /\ documents' = AddRow(documents, p, [kind |-> "client", terms |-> Terms(person)])
      /\ UNCHANGED notes /\ p \notin DOMAIN documents
  BY DEF CreateClient, IsFree
<1>2. \E n, c, s : person = [names |-> n, contacts |-> c, shown |-> s]
  OBVIOUS
<1> HIDE DEF person
<1>3. /\ DOMAIN people' = DOMAIN people \cup {p} /\ people'[p] = person
      /\ \A q \in DOMAIN people : q # p => people'[q] = people[q]
  BY <1>1 DEF AddRow
<1>4. /\ DOMAIN documents' = DOMAIN documents \cup {p}
      /\ documents'[p] = [kind |-> "client", terms |-> Terms(person)]
      /\ \A q \in DOMAIN documents : q # p => documents'[q] = documents[q]
  BY <1>1 DEF AddRow
<1>5. p \notin DOMAIN people \cup DOMAIN notes
  BY <1>1 DEF IndexStands
<1>6. PersonShape'
  <2> SUFFICES ASSUME NEW q \in DOMAIN people'
               PROVE  \E n, c, s : people'[q] = [names |-> n, contacts |-> c, shown |-> s]
    BY DEF PersonShape
  <2>1. CASE q = p
    BY <1>2, <1>3, <2>1
  <2>2. CASE q # p
    BY <1>3, <2>2 DEF IndexStands, PersonShape
  <2>3. QED
    BY <2>1, <2>2
<1>7. SearchKnowsEveryRecord'
  <2>1. ASSUME NEW q \in DOMAIN people'
        PROVE  documents'[q] = [kind |-> "client", terms |-> Terms(people'[q])]
    BY <1>3, <1>4, <1>5, <2>1 DEF IndexStands, SearchKnowsEveryRecord
  <2>2. ASSUME NEW n \in DOMAIN notes'
        PROVE  documents'[n] = [kind |-> "note", terms |-> {n}]
    BY <1>1, <1>4, <1>5, <2>2 DEF IndexStands, SearchKnowsEveryRecord
  <2>3. QED
    BY <2>1, <2>2 DEF SearchKnowsEveryRecord, Terms
<1>8. QED
  BY <1>1, <1>3, <1>4, <1>6, <1>7 DEF IndexStands

LEMMA AddedAlias ==
  ASSUME IndexStands, NotesStand, NEW w \in Windows, NEW p \in People, NEW name \in Aliases,
         AddAlias(w, p, name)
  PROVE  IndexStands' /\ UNCHANGED notes
<1>1. /\ p \in DOMAIN people /\ UNCHANGED notes
      /\ people' = [people EXCEPT ![p].names = @ \cup {name}]
      /\ documents' = [documents EXCEPT ![p].terms = @ \cup {name.word}]
  BY DEF AddAlias
<1>2. PICK n, c, s : people[p] = [names |-> n, contacts |-> c, shown |-> s]
  BY <1>1 DEF IndexStands, PersonShape
<1>3. /\ DOMAIN people' = DOMAIN people
      /\ people'[p] = [names |-> n \cup {name}, contacts |-> c, shown |-> s]
      /\ \A q \in DOMAIN people : q # p => people'[q] = people[q]
  BY <1>1, <1>2
<1>4. documents[p] = [kind |-> "client", terms |-> Terms(people[p])] /\ p \in DOMAIN documents
  BY <1>1 DEF IndexStands, SearchKnowsEveryRecord
<1>0. p \notin DOMAIN notes
  <2>1. [kind |-> "client", terms |-> Terms(people[p])] # [kind |-> "note", terms |-> {p}]
    OBVIOUS
  <2>2. QED
    BY <1>4, <2>1 DEF IndexStands, SearchKnowsEveryRecord
<1>5. /\ DOMAIN documents' = DOMAIN documents
      /\ documents'[p] = [kind |-> "client", terms |-> Terms(people[p]) \cup {name.word}]
      /\ \A q \in DOMAIN documents : q # p => documents'[q] = documents[q]
  BY <1>1, <1>4
<1>6. Terms(people'[p]) = Terms(people[p]) \cup {name.word}
  BY <1>2, <1>3 DEF Terms
<1>7. PersonShape'
  BY <1>3 DEF IndexStands, PersonShape
<1>8. SearchKnowsEveryRecord'
  <2>1. ASSUME NEW q \in DOMAIN people'
        PROVE  documents'[q] = [kind |-> "client", terms |-> Terms(people'[q])]
    BY <1>3, <1>5, <1>6, <2>1 DEF IndexStands, SearchKnowsEveryRecord
  <2>2. ASSUME NEW m \in DOMAIN notes'
        PROVE  documents'[m] = [kind |-> "note", terms |-> {m}]
    BY <1>0, <1>1, <1>5, <2>2 DEF IndexStands, SearchKnowsEveryRecord
  <2>3. QED
    BY <2>1, <2>2 DEF SearchKnowsEveryRecord, Terms
<1>9. QED
  BY <1>1, <1>3, <1>5, <1>7, <1>8 DEF IndexStands

LEMMA InsertedNote ==
  ASSUME IndexStands, NEW n, NEW note, InsertNote(n, note)
  PROVE  IndexStands'
<1>1. /\ n \notin DOMAIN documents /\ UNCHANGED people
      /\ notes' = AddRow(notes, n, note)
      /\ documents' = AddRow(documents, n, [kind |-> "note", terms |-> {n}])
  BY DEF InsertNote, IsFree
<1>2. DOMAIN notes' = DOMAIN notes \cup {n}
  BY <1>1 DEF AddRow
<1>3. /\ DOMAIN documents' = DOMAIN documents \cup {n}
      /\ documents'[n] = [kind |-> "note", terms |-> {n}]
      /\ \A q \in DOMAIN documents : q # n => documents'[q] = documents[q]
  BY <1>1 DEF AddRow
<1>4. SearchKnowsEveryRecord'
  <2>1. ASSUME NEW q \in DOMAIN people'
        PROVE  documents'[q] = [kind |-> "client", terms |-> Terms(people'[q])]
    BY <1>1, <1>3, <2>1 DEF IndexStands, SearchKnowsEveryRecord
  <2>2. ASSUME NEW m \in DOMAIN notes'
        PROVE  documents'[m] = [kind |-> "note", terms |-> {m}]
    BY <1>1, <1>2, <1>3, <2>2 DEF IndexStands, SearchKnowsEveryRecord
  <2>3. QED
    BY <2>1, <2>2 DEF SearchKnowsEveryRecord, Terms
<1>5. QED
  BY <1>1, <1>2, <1>3, <1>4 DEF IndexStands, PersonShape

\* idx_notes_supersedes: one note supersedes another, of the version before it.
LEMMA ChainedNote ==
  ASSUME NotesStand, NEW n \in Notes, NEW note, n \notin DOMAIN notes,
         notes' = AddRow(notes, n, note),
         \/ note.version = 1 /\ note.supersedes = {}
         \/ \E k \in DOMAIN notes : /\ note.supersedes = {k} /\ Successors(k) = {}
                                   /\ note.version = notes[k].version + 1
                                   /\ note.subject = notes[k].subject,
         \A w \in Windows : doing'[w].op = "revise" => doing'[w].of \in DOMAIN notes
  PROVE  NotesStand'
<1>1. /\ DOMAIN notes' = DOMAIN notes \cup {n} /\ notes'[n] = note
      /\ \A m \in DOMAIN notes : notes'[m] = notes[m] /\ m # n
  BY DEF AddRow
<1>2. DOMAIN notes' \subseteq Notes
  BY <1>1 DEF NotesStand
<1>3. IsFiniteSet(DOMAIN notes')
  BY <1>1, FS_AddElement DEF NotesStand
<1>4. \A m \in DOMAIN notes' : notes'[m].version \in Nat \ {0}
  BY <1>1 DEF NotesStand
<1>5. ASSUME NEW m \in DOMAIN notes'
      PROVE  \/ notes'[m].supersedes = {} /\ notes'[m].version = 1
             \/ \E k \in DOMAIN notes' : /\ notes'[m].supersedes = {k}
                                        /\ notes'[m].version = notes'[k].version + 1
                                        /\ notes'[m].subject = notes'[k].subject
  <2>1. CASE m = n
    BY <1>1, <2>1
  <2>2. CASE m \in DOMAIN notes
    BY <1>1, <2>2 DEF NotesStand, AreChained
  <2>3. QED
    BY <1>1, <2>1, <2>2
<1>6. ASSUME NEW m \in DOMAIN notes', NEW l \in DOMAIN notes', notes'[m].supersedes = notes'[l].supersedes
      PROVE  m = l \/ notes'[m].supersedes = {}
  <2>1. \A k \in DOMAIN notes : note.supersedes = notes[k].supersedes => note.supersedes = {}
    BY DEF Successors
  <2>2. CASE m \in DOMAIN notes /\ l \in DOMAIN notes
    BY <1>1, <1>6, <2>2 DEF NotesStand, AreChained
  <2>3. QED
    BY <1>1, <1>6, <2>1, <2>2
<1>7. \A w \in Windows : doing'[w].op = "revise" => doing'[w].of \in DOMAIN notes'
  BY <1>1
<1>8. QED
  BY <1>2, <1>3, <1>4, <1>5, <1>6, <1>7 DEF NotesStand, AreChained

LEMMA FileKeeps ==
  ASSUME TypeOK, IndexStands, NotesStand, NEW w \in Windows, FileStep(w)
  PROVE  IndexStands' /\ NotesStand'
<1> USE DEF Become, Idle
<1>1. doing = [v \in Windows |-> doing[v]]
  BY DEF TypeOK
<1>2. ASSUME UNCHANGED records, doing' = [doing EXCEPT ![w] = doing'[w]], doing'[w].op # "revise"
      PROVE  IndexStands' /\ NotesStand'
  <2>1. \A v \in Windows : doing'[v].op = "revise" => doing'[v] = doing[v]
    BY <1>1, <1>2
  <2>2. QED
    BY <1>2, <2>1, KeptFile
<1>3. ASSUME UNCHANGED <<doing, people, notes, documents>>
      PROVE  IndexStands' /\ NotesStand'
  <2>1. IndexStands'
    BY <1>3 DEF IndexStands, PersonShape, SearchKnowsEveryRecord, Terms
  <2>2. NotesStand'
    BY <1>3 DEF NotesStand, AreChained
  <2>3. QED
    BY <2>1, <2>2
<1>4. ASSUME UNCHANGED notes, \A v \in Windows : doing'[v].op = "revise" => doing'[v] = doing[v]
      PROVE  NotesStand'
  BY <1>4 DEF NotesStand, AreChained
<1>5. CASE \E draft \in Drafts : FillForm(w, draft)
  <2>1. PICK draft \in Drafts : FillForm(w, draft)
    BY <1>5
  <2>2. PICK shown : doing' = [doing EXCEPT ![w] = [op |-> "form", draft |-> draft, shown |-> shown]]
    BY <2>1 DEF FillForm
  <2>3. QED
    BY <1>1, <1>2, <2>1, <2>2 DEF FillForm
<1>6. CASE \E p \in People : CreateClient(w, p)
  <2>1. PICK p \in People : CreateClient(w, p)
    BY <1>6
  <2>2. doing' = [doing EXCEPT ![w] = [op |-> "idle"]]
    BY <2>1 DEF CreateClient
  <2>3. \A v \in Windows : doing'[v].op = "revise" => doing'[v] = doing[v]
    BY <1>1, <2>2
  <2>4. QED
    BY <1>4, <2>1, <2>3, CreatedClient
<1>7. CASE \E p \in People, name \in Aliases : AddAlias(w, p, name)
  <2>1. PICK p \in People, name \in Aliases : AddAlias(w, p, name)
    BY <1>7
  <2>2. doing' = doing
    BY <2>1 DEF AddAlias
  <2>3. QED
    BY <1>4, <2>1, <2>2, AddedAlias
<1>8. CASE \E n \in Notes, subject \in Subjects : WriteNote(w, n, subject)
  <2>1. PICK n \in Notes, subject \in Subjects : WriteNote(w, n, subject)
    BY <1>8
  <2> DEFINE note == [subject |-> subject, version |-> 1, supersedes |-> {}]
  <2>2. doing' = doing /\ InsertNote(n, note)
    BY <2>1 DEF WriteNote
  <2>3. note.version = 1 /\ note.supersedes = {}
    OBVIOUS
  <2> HIDE DEF note
  <2>4. n \notin DOMAIN notes /\ notes' = AddRow(notes, n, note)
    BY <2>2 DEF InsertNote
  <2>5. \A v \in Windows : doing'[v].op = "revise" => doing'[v].of \in DOMAIN notes
    BY <2>2 DEF NotesStand
  <2>6. NotesStand'
    BY <2>3, <2>4, <2>5, ChainedNote
  <2>7. QED
    BY <2>2, <2>6, InsertedNote
<1>9. CASE \E n \in Notes : BeginRevise(w, n)
  <2>1. PICK n \in Notes : BeginRevise(w, n)
    BY <1>9
  <2>2. /\ UNCHANGED records /\ n \in DOMAIN notes
        /\ doing' = [doing EXCEPT ![w] = [op |-> "revise", of |-> n]]
    BY <2>1 DEF BeginRevise
  <2>3. IndexStands'
    BY <2>2 DEF records, IndexStands, PersonShape, SearchKnowsEveryRecord, Terms
  <2>4. \A v \in Windows : doing'[v].op = "revise" => doing'[v].of \in DOMAIN notes
    BY <1>1, <2>2 DEF NotesStand
  <2>5. NotesStand'
    BY <2>2, <2>4 DEF records, NotesStand, AreChained
  <2>6. QED
    BY <2>3, <2>5
<1>10. CASE \E n \in Notes : InsertRevision(w, n)
  <2>1. PICK n \in Notes : InsertRevision(w, n)
    BY <1>10
  <2>2. PICK old : old = doing[w].of
    OBVIOUS
  <2>3. PICK note : note = [subject |-> notes[old].subject, version |-> notes[old].version + 1,
                            supersedes |-> {old}]
    OBVIOUS
  <2>4. /\ InsertNote(n, note) /\ Successors(old) = {}
        /\ doing[w].op = "revise" /\ doing' = [doing EXCEPT ![w] = [op |-> "idle"]]
    BY <2>1, <2>2, <2>3 DEF InsertRevision, MaySupersede
  <2>5. old \in DOMAIN notes
    BY <2>2, <2>4 DEF NotesStand
  <2>6. /\ note.supersedes = {old} /\ note.version = notes[old].version + 1
        /\ note.subject = notes[old].subject
    BY <2>3
  <2>7. n \notin DOMAIN notes /\ notes' = AddRow(notes, n, note)
    BY <2>4 DEF InsertNote
  <2>8. \A v \in Windows : doing'[v].op = "revise" => doing'[v].of \in DOMAIN notes
    BY <1>1, <2>4 DEF NotesStand
  <2>9. NotesStand'
    BY <2>4, <2>5, <2>6, <2>7, <2>8, ChainedNote
  <2>10. QED
    BY <2>4, <2>9, InsertedNote
<1>11. CASE \E d \in Deadlines, m \in Matters, due \in Dates : RecordDeadline(w, d, m, due)
  BY <1>3, <1>11 DEF RecordDeadline
<1>12. CASE \E d \in Deadlines : Satisfy(w, d)
  BY <1>3, <1>12 DEF Satisfy
<1>13. CASE \E asOf \in Dates, within \in Spans : ReadOverdue(w, asOf, within)
  <2>1. PICK asOf \in Dates, within \in Spans : ReadOverdue(w, asOf, within)
    BY <1>13
  <2>2. doing'[w].op = "overdue" /\ doing' = [doing EXCEPT ![w] = doing'[w]] /\ UNCHANGED records
    BY <1>1, <2>1 DEF ReadOverdue
  <2>3. QED
    BY <1>2, <2>2
<1>14. CASE \E day \in Dates : BeginWeek(w, day)
  <2>1. PICK day \in Dates : BeginWeek(w, day)
    BY <1>14
  <2>2. doing'[w].op = "week" /\ doing' = [doing EXCEPT ![w] = doing'[w]] /\ UNCHANGED records
    BY <1>1, <2>1 DEF BeginWeek
  <2>3. QED
    BY <1>2, <2>2
<1>15. CASE ReadUpcoming(w)
  <2>1. doing'[w].op = "listed" /\ doing' = [doing EXCEPT ![w] = doing'[w]] /\ UNCHANGED records
    BY <1>1, <1>15 DEF ReadUpcoming
  <2>2. QED
    BY <1>2, <2>1
<1>16. CASE ReadDay(w)
  <2>1. doing'[w].op = "week" /\ doing' = [doing EXCEPT ![w] = doing'[w]] /\ UNCHANGED records
    BY <1>1, <1>16 DEF ReadDay
  <2>2. QED
    BY <1>2, <2>1
<1>17. QED
  BY <1>5, <1>6, <1>7, <1>8, <1>9, <1>10, <1>11, <1>12, <1>13, <1>14, <1>15, <1>16 DEF FileStep

LEMMA FileInvariant == FileInv /\ [DeskNext]_deskVars => FileInv'
<1> SUFFICES ASSUME FileInv, [DeskNext]_deskVars PROVE FileInv'
  OBVIOUS
<1>1. TypeOK /\ IndexStands /\ NotesStand /\ CalendarInv'
  BY CalendarInvariant DEF FileInv, CalendarInv
<1>2. CASE CalendarMoves
  <2>1. PICK w \in Windows : Step(w) /\ UNCHANGED records
    BY <1>2 DEF CalendarMoves
  <2>2. \A v \in Windows : doing'[v].op = "revise" => doing'[v] = doing[v]
    BY <1>1, <2>1, CalendarFrame
  <2>3. QED
    BY <1>1, <2>1, <2>2, KeptFile DEF FileInv
<1>3. CASE FileMoves
  BY <1>1, <1>3, FileKeeps DEF FileMoves, FileInv
<1>4. CASE CasesGrow
  <2>1. UNCHANGED records /\ doing' = doing
    BY <1>4 DEF CasesGrow, theRest
  <2>2. QED
    BY <1>1, <2>1, KeptFile DEF FileInv
<1>5. QED
  BY <1>1, <1>2, <1>3, <1>4, DeskSteps

LEMMA FileAlways == DeskSpec => []FileInv
<1>1. DeskInit => FileInv
  BY InitFileInv DEF DeskInit
<1>2. QED
  BY <1>1, FileInvariant, PTL DEF DeskSpec

\* 0005_search.sql: the office search knows each client by every name and
\* number, and each version of a note, whoever writes what at once.
THEOREM SearchKnowsEveryRecordHolds == DeskSpec => []SearchKnowsEveryRecord
<1>1. FileInv => SearchKnowsEveryRecord
  BY DEF FileInv, IndexStands
<1>2. QED
  BY <1>1, FileAlways, PTL

----------------------------------------------------------------------------
(* Notes.  A trail leads from the first version of a note to one of its     *)
(* revisions; it is the only one, and it is what note_history walks back.   *)

IsTrail(t, n) ==
  /\ t \in Seq(DOMAIN notes) /\ t # << >> /\ t[Len(t)] = n
  /\ notes[t[1]].supersedes = {}
  /\ \A i \in 1 .. Len(t) - 1 : notes[t[i + 1]].supersedes = {t[i]}

LEMMA FirstTrail ==
  ASSUME NEW n \in DOMAIN notes, notes[n].supersedes = {}
  PROVE  IsTrail(<<n>>, n)
BY DEF IsTrail

LEMMA NextTrail ==
  ASSUME NEW n \in DOMAIN notes, NEW k, NEW t, IsTrail(t, k), notes[n].supersedes = {k}
  PROVE  IsTrail(Append(t, n), n)
<1>1. t \in Seq(DOMAIN notes) /\ Len(t) \in Nat \ {0} /\ t[Len(t)] = k
  BY DEF IsTrail
<1>2. /\ Append(t, n) \in Seq(DOMAIN notes) /\ Len(Append(t, n)) = Len(t) + 1
      /\ Append(t, n)[Len(t) + 1] = n
      /\ \A i \in 1 .. Len(t) : Append(t, n)[i] = t[i]
  BY <1>1
<1>3. QED
  BY <1>1, <1>2 DEF IsTrail

LEMMA SupersededNote ==
  ASSUME NotesStand, NEW n \in DOMAIN notes
  PROVE  \/ notes[n].supersedes = {} /\ notes[n].version = 1
         \/ \E k \in DOMAIN notes : /\ notes[n].supersedes = {k}
                                   /\ notes[k].version \in Nat \ {0}
                                   /\ notes[n].version = notes[k].version + 1
                                   /\ notes[n].subject = notes[k].subject
BY DEF NotesStand, AreChained

LEMMA NoteVersion ==
  ASSUME NotesStand, NEW n \in DOMAIN notes, NEW k \in DOMAIN notes, notes[n].supersedes = {k}
  PROVE  /\ notes[k].version \in Nat \ {0} /\ notes[n].version = notes[k].version + 1
         /\ notes[n].subject = notes[k].subject
BY SupersededNote

LEMMA TrailTells ==
  ASSUME NotesStand, NEW n, NEW t, IsTrail(t, n)
  PROVE  /\ n \in DOMAIN notes /\ notes[n].version = Len(t)
         /\ \A i \in 1 .. Len(t) : /\ t[i] \in DOMAIN notes /\ notes[t[i]].version = i
                                  /\ notes[t[i]].subject = notes[n].subject
<1>1. /\ t \in Seq(DOMAIN notes) /\ Len(t) \in Nat \ {0} /\ t[Len(t)] = n
      /\ \A i \in 1 .. Len(t) : t[i] \in DOMAIN notes
  BY DEF IsTrail
<1> DEFINE Wrong == {i \in 1 .. Len(t) : notes[t[i]].version # i \/ notes[t[i]].subject # notes[t[1]].subject}
<1>2. Wrong = {}
  <2> SUFFICES ASSUME Wrong # {} PROVE FALSE
    OBVIOUS
  <2>0. Wrong \subseteq Nat
    BY <1>1
  <2>1. PICK i \in Wrong : \A j \in Wrong : i <= j
    BY <2>0, LeastIsThere
  <2>2. i # 1
    BY <1>1, SupersededNote DEF IsTrail
  <2>3. i - 1 \in 1 .. Len(t) - 1 /\ i \in 2 .. Len(t)
    BY <1>1, <2>2
  <2>4. notes[t[i - 1]].version = i - 1 /\ notes[t[i - 1]].subject = notes[t[1]].subject
    BY <2>1, <2>3
  <2>5. notes[t[(i - 1) + 1]].supersedes = {t[i - 1]}
    BY <2>3 DEF IsTrail
  <2>6. (i - 1) + 1 = i
    BY <2>3
  <2>7. notes[t[i]].version = i /\ notes[t[i]].subject = notes[t[1]].subject
    BY <1>1, <2>3, <2>4, <2>5, <2>6, NoteVersion
  <2>8. QED
    BY <2>1, <2>7
<1>3. \A i \in 1 .. Len(t) : notes[t[i]].version = i /\ notes[t[i]].subject = notes[t[1]].subject
  BY <1>2
<1>4. QED
  BY <1>1, <1>3

LEMMA TrailIsOne ==
  ASSUME NotesStand, NEW n, NEW t, NEW u, IsTrail(t, n), IsTrail(u, n)
  PROVE  t = u
<1>1. /\ t \in Seq(DOMAIN notes) /\ u \in Seq(DOMAIN notes) /\ Len(t) = Len(u)
      /\ Len(t) \in Nat \ {0} /\ t[Len(t)] = u[Len(t)]
  <2>1. notes[n].version = Len(t) /\ notes[n].version = Len(u)
    BY TrailTells
  <2>2. QED
    BY <2>1 DEF IsTrail
<1> DEFINE Apart == {j \in 0 .. Len(t) - 1 : t[Len(t) - j] # u[Len(t) - j]}
<1>2. Apart = {}
  <2> SUFFICES ASSUME Apart # {} PROVE FALSE
    OBVIOUS
  <2>0. Apart \subseteq Nat
    BY <1>1
  <2>1. PICK j \in Apart : \A l \in Apart : j <= l
    BY <2>0, LeastIsThere
  <2>2. j # 0
    BY <1>1
  <2>3. j - 1 \in 0 .. Len(t) - 1 /\ Len(t) - j \in 1 .. Len(t) - 1
        /\ Len(t) - (j - 1) = (Len(t) - j) + 1
    BY <1>1, <2>2
  <2>4. t[(Len(t) - j) + 1] = u[(Len(t) - j) + 1]
    <3>0. j \in Nat /\ ~ (j <= j - 1)
      BY <2>0, <2>1
    <3>1. j - 1 \notin Apart
      BY <2>1, <3>0
    <3>2. t[Len(t) - (j - 1)] = u[Len(t) - (j - 1)]
      BY <2>3, <3>1
    <3>3. QED
      BY <2>3, <3>2
  <2>5. {t[Len(t) - j]} = {u[Len(t) - j]}
    BY <1>1, <2>3, <2>4 DEF IsTrail
  <2>6. QED
    BY <2>1, <2>5
<1>3. ASSUME NEW i \in 1 .. Len(t) PROVE t[i] = u[i]
  <2>1. Len(t) - i \in 0 .. Len(t) - 1 /\ Len(t) - (Len(t) - i) = i
    BY <1>1
  <2>2. QED
    BY <1>2, <2>1
<1>4. QED
  BY <1>1, <1>3

LEMMA TrailExists ==
  ASSUME NotesStand, NEW n \in DOMAIN notes
  PROVE  \E t : IsTrail(t, n)
<1> DEFINE Lost == {k \in DOMAIN notes : \A t : ~ IsTrail(t, k)}
           Versions == {notes[k].version : k \in Lost}
<1>1. Lost = {}
  <2> SUFFICES ASSUME Lost # {} PROVE FALSE
    OBVIOUS
  <2>1. Versions \subseteq Nat /\ Versions # {}
    BY DEF NotesStand
  <2>2. PICK v \in Versions : \A x \in Versions : v <= x
    BY <2>1, LeastIsThere
  <2>3. PICK m \in Lost : notes[m].version = v
    OBVIOUS
  <2>4. notes[m].supersedes # {}
    BY <2>3, FirstTrail
  <2>5. PICK k \in DOMAIN notes : /\ notes[m].supersedes = {k} /\ notes[k].version \in Nat \ {0}
                                  /\ notes[m].version = notes[k].version + 1
    BY <2>3, <2>4, SupersededNote
  <2>6. k \notin Lost
    BY <2>2, <2>3, <2>5
  <2>7. PICK t : IsTrail(t, k)
    BY <2>6
  <2>8. QED
    BY <2>3, <2>5, <2>7, NextTrail
<1>2. QED
  BY <1>1

\* The walk back of note_history ends, for every note there is.
LEMMA WalkBack ==
  ASSUME NotesStand
  PROVE  \A n \in DOMAIN notes : IsTrail(Back[n], n)
<1>1. DOMAIN notes \subseteq Notes
  BY DEF NotesStand
<1> DEFINE walk == [n \in Notes |-> IF n \notin DOMAIN notes THEN << >> ELSE CHOOSE t : IsTrail(t, n)]
<1>2. \A n \in DOMAIN notes : IsTrail(walk[n], n)
  BY <1>1, TrailExists
<1>3. \A n \in Notes \ DOMAIN notes : walk[n] = << >>
  OBVIOUS
<1>4. walk = [n \in Notes |-> walk[n]]
  OBVIOUS
<1> HIDE DEF walk
<1>5. ASSUME NEW n \in Notes
      PROVE  walk[n] = IF n \notin DOMAIN notes THEN << >>
                       ELSE IF notes[n].supersedes = {} THEN <<n>>
                       ELSE Append(walk[CHOOSE k \in notes[n].supersedes : TRUE], n)
  <2>1. CASE n \notin DOMAIN notes
    BY <1>3, <2>1
  <2>2. CASE n \in DOMAIN notes /\ notes[n].supersedes = {}
    BY <1>2, <2>2, FirstTrail, TrailIsOne
  <2>3. CASE n \in DOMAIN notes /\ notes[n].supersedes # {}
    <3>1. PICK k \in DOMAIN notes : notes[n].supersedes = {k}
      BY <2>3, SupersededNote
    <3>2. (CHOOSE l \in notes[n].supersedes : TRUE) = k
      BY <3>1
    <3>3. IsTrail(Append(walk[k], n), n)
      BY <1>2, <2>3, <3>1, NextTrail
    <3>4. walk[n] = Append(walk[k], n)
      BY <1>2, <2>3, <3>3, TrailIsOne
    <3>5. QED
      BY <2>3, <3>2, <3>4
  <2>4. QED
    BY <2>1, <2>2, <2>3
<1>6. walk = [n \in Notes |-> IF n \notin DOMAIN notes THEN << >>
                              ELSE IF notes[n].supersedes = {} THEN <<n>>
                              ELSE Append(walk[CHOOSE k \in notes[n].supersedes : TRUE], n)]
  BY <1>4, <1>5
<1>7. Back = [n \in Notes |-> IF n \notin DOMAIN notes THEN << >>
                              ELSE IF notes[n].supersedes = {} THEN <<n>>
                              ELSE Append(Back[CHOOSE k \in notes[n].supersedes : TRUE], n)]
  BY <1>6 DEF Back
<1> DEFINE Lost == {n \in DOMAIN notes : ~ IsTrail(Back[n], n)}
           Versions == {notes[n].version : n \in Lost}
<1>8. Lost = {}
  <2> SUFFICES ASSUME Lost # {} PROVE FALSE
    OBVIOUS
  <2>1. Versions \subseteq Nat /\ Versions # {}
    BY DEF NotesStand
  <2>2. PICK v \in Versions : \A x \in Versions : v <= x
    BY <2>1, LeastIsThere
  <2>3. PICK m \in Lost : notes[m].version = v
    OBVIOUS
  <2>4. notes[m].supersedes # {}
    BY <1>1, <1>7, <2>3, FirstTrail
  <2>5. PICK k \in DOMAIN notes : /\ notes[m].supersedes = {k} /\ notes[k].version \in Nat \ {0}
                                  /\ notes[m].version = notes[k].version + 1
    BY <2>3, <2>4, SupersededNote
  <2>6. IsTrail(Back[k], k)
    BY <2>2, <2>3, <2>5
  <2>7. Back[m] = Append(Back[k], m)
    <3>1. (CHOOSE l \in notes[m].supersedes : TRUE) = k
      BY <2>5
    <3>2. QED
      BY <1>1, <1>7, <2>4, <3>1
  <2>8. QED
    BY <2>3, <2>5, <2>6, <2>7, NextTrail
<1>9. QED
  BY <1>8

\* Two trails from one first version: the shorter is the start of the longer.
LEMMA TrailsAgree ==
  ASSUME NotesStand, NEW k, NEW l, NEW t, NEW u, IsTrail(t, k), IsTrail(u, l),
         t[1] = u[1], Len(t) <= Len(u), Successors(k) = {}
  PROVE  k = l
<1>1. /\ t \in Seq(DOMAIN notes) /\ u \in Seq(DOMAIN notes)
      /\ Len(t) \in Nat \ {0} /\ Len(u) \in Nat \ {0} /\ t[Len(t)] = k /\ u[Len(u)] = l
      /\ \A i \in 1 .. Len(u) : u[i] \in DOMAIN notes
      /\ \A i \in 1 .. Len(t) : t[i] \in DOMAIN notes
  BY DEF IsTrail
<1> DEFINE Apart == {i \in 1 .. Len(t) : t[i] # u[i]}
<1>2. Apart = {}
  <2> SUFFICES ASSUME Apart # {} PROVE FALSE
    OBVIOUS
  <2>0. Apart \subseteq Nat
    BY <1>1
  <2>1. PICK i \in Apart : \A j \in Apart : i <= j
    BY <2>0, LeastIsThere
  <2>2. i # 1
    BY <2>1
  <2>3. i - 1 \in 1 .. Len(t) - 1 /\ i - 1 \in 1 .. Len(u) - 1 /\ (i - 1) + 1 = i
    BY <1>1, <2>2
  <2>4. t[i - 1] = u[i - 1]
    BY <1>1, <2>1, <2>3
  <2>5. notes[t[(i - 1) + 1]].supersedes = {t[i - 1]} /\ notes[u[(i - 1) + 1]].supersedes = {u[i - 1]}
    BY <2>3 DEF IsTrail
  <2>6. notes[t[i]].supersedes = notes[u[i]].supersedes /\ notes[t[i]].supersedes # {}
    BY <2>3, <2>4, <2>5
  <2>7. t[i] \in DOMAIN notes /\ u[i] \in DOMAIN notes
    BY <1>1
  <2>8. t[i] = u[i]
    BY <2>6, <2>7 DEF NotesStand, AreChained
  <2>9. QED
    BY <2>1, <2>8
<1>3. u[Len(t)] = k
  BY <1>1, <1>2
<1>4. ~ (Len(t) < Len(u))
  <2> SUFFICES ASSUME Len(t) < Len(u) PROVE FALSE
    OBVIOUS
  <2>1. Len(t) \in 1 .. Len(u) - 1 /\ Len(t) + 1 \in 1 .. Len(u)
    BY <1>1
  <2>2. notes[u[Len(t) + 1]].supersedes = {u[Len(t)]} /\ u[Len(t) + 1] \in DOMAIN notes
    BY <1>1, <2>1 DEF IsTrail
  <2>3. u[Len(t) + 1] \in Successors(k)
    BY <1>3, <2>2 DEF Successors
  <2>4. QED
    BY <2>3
<1>5. Len(t) = Len(u)
  BY <1>1, <1>4
<1>6. QED
  BY <1>1, <1>3, <1>5

\* Among the revisions of one note there is a last one: they are finitely many.
LEMMA LastRevision ==
  ASSUME NotesStand, NEW Line, Line \subseteq DOMAIN notes, Line # {},
         \A k \in Line : Successors(k) \subseteq Line
  PROVE  \E k \in Line : Successors(k) = {}
<1> DEFINE After(k) == {m \in Line : notes[m].version > notes[k].version}
           Sizes == {Cardinality(After(k)) : k \in Line}
<1>1. \A k \in Line : IsFiniteSet(After(k)) /\ Cardinality(After(k)) \in Nat
  <2> SUFFICES ASSUME NEW k \in Line PROVE IsFiniteSet(After(k)) /\ Cardinality(After(k)) \in Nat
    OBVIOUS
  <2>1. IsFiniteSet(After(k))
    BY FS_Subset DEF NotesStand
  <2>2. QED
    BY <2>1, FS_CardinalityType
<1>2. Sizes \subseteq Nat /\ Sizes # {}
  BY <1>1
<1>3. PICK c \in Sizes : \A x \in Sizes : c <= x
  BY <1>2, LeastIsThere
<1>4. PICK k \in Line : Cardinality(After(k)) = c
  OBVIOUS
<1>5. ASSUME NEW m \in Successors(k) PROVE FALSE
  <2>1. m \in Line /\ m \in DOMAIN notes /\ notes[m].supersedes = {k}
    BY <1>4 DEF Successors
  <2>2. /\ notes[m].version = notes[k].version + 1 /\ notes[k].version \in Nat
        /\ \A l \in Line : notes[l].version \in Nat
    BY <1>4, <2>1, NoteVersion DEF NotesStand
  <2>3. After(m) \subseteq After(k)
    BY <1>4, <2>2
  <2>4. m \in After(k) /\ m \notin After(m)
    BY <2>1, <2>2
  <2>5. Cardinality(After(m)) <= Cardinality(After(k))
        /\ (Cardinality(After(m)) = Cardinality(After(k)) => After(m) = After(k))
    BY <1>1, <1>4, <2>3, FS_Subset
  <2>6. Cardinality(After(m)) \in Sizes
    BY <2>1
  <2>7. Cardinality(After(m)) # Cardinality(After(k))
    BY <2>4, <2>5
  <2>8. Cardinality(After(m)) \in Nat /\ Cardinality(After(k)) \in Nat
    BY <1>1, <1>4, <2>1
  <2> HIDE DEF After, Sizes
  <2>9. QED
    BY <1>3, <1>4, <2>5, <2>6, <2>7, <2>8
<1>6. QED
  BY <1>4, <1>5

\* revise_note and its unique index: however windows revise a note at once, its
\* versions stand in one line, counted from 1, and one of them is current.
THEOREM NotesStandOnceHolds == DeskSpec => []NotesStandOnce
<1>1. NotesStand => NotesStandOnce
  <2> SUFFICES ASSUME NotesStand, NEW n \in DOMAIN notes
               PROVE  /\ \A i \in DOMAIN Back[n] :
                           /\ notes[Back[n][i]].version = i
                           /\ notes[Back[n][i]].subject = notes[n].subject
                      /\ notes[n].version = 1 =>
                           Cardinality({k \in Current(notes[n].subject) : Head(Back[k]) = n}) = 1
    BY DEF NotesStandOnce
  <2>1. \A k \in DOMAIN notes : /\ IsTrail(Back[k], k) /\ DOMAIN Back[k] = 1 .. Len(Back[k])
                                /\ Len(Back[k]) \in Nat \ {0} /\ Head(Back[k]) = Back[k][1]
    <3>1. \A k \in DOMAIN notes : IsTrail(Back[k], k)
      BY WalkBack
    <3>2. QED
      BY <3>1 DEF IsTrail
  <2>2. \A i \in DOMAIN Back[n] : /\ notes[Back[n][i]].version = i
                                 /\ notes[Back[n][i]].subject = notes[n].subject
    BY <2>1, TrailTells
  <2>3. ASSUME notes[n].version = 1
        PROVE  Cardinality({k \in Current(notes[n].subject) : Head(Back[k]) = n}) = 1
    <3> DEFINE Line == {k \in DOMAIN notes : Head(Back[k]) = n}
    <3>1. notes[n].supersedes = {}
      BY <2>3, SupersededNote
    <3>2. n \in Line
      <4>1. Back[n] = <<n>>
        BY <2>1, <3>1, FirstTrail, TrailIsOne
      <4>2. QED
        BY <4>1
    <3>3. ASSUME NEW k \in Line, NEW m \in Successors(k) PROVE m \in Line
      <4>1. m \in DOMAIN notes /\ notes[m].supersedes = {k} /\ k \in DOMAIN notes
        BY DEF Successors
      <4>2. IsTrail(Append(Back[k], m), m)
        BY <2>1, <4>1, NextTrail
      <4>3. Back[m] = Append(Back[k], m)
        BY <2>1, <4>1, <4>2, TrailIsOne
      <4>4. Back[k] \in Seq(DOMAIN notes) /\ Len(Back[k]) \in Nat \ {0}
        BY <2>1, <4>1 DEF IsTrail
      <4>5. Back[m][1] = Back[k][1]
        BY <4>1, <4>3, <4>4
      <4>6. QED
        BY <2>1, <4>1, <4>5
    <3>4. PICK k \in Line : Successors(k) = {}
      <4>1. \A l \in Line : Successors(l) \subseteq Line
        BY <3>3
      <4>2. QED
        BY <3>2, <4>1, LastRevision
    <3>5. \A l \in Line : notes[l].subject = notes[n].subject
      <4> SUFFICES ASSUME NEW l \in Line PROVE notes[l].subject = notes[n].subject
        OBVIOUS
      <4>1. Back[l][1] = n /\ 1 \in 1 .. Len(Back[l]) /\ IsTrail(Back[l], l)
        BY <2>1
      <4>2. notes[Back[l][1]].subject = notes[l].subject
        BY <4>1, TrailTells
      <4>3. QED
        BY <4>1, <4>2
    <3>6. ASSUME NEW l \in Line, Successors(l) = {} PROVE l = k
      <4>1. /\ IsTrail(Back[k], k) /\ IsTrail(Back[l], l) /\ Back[k][1] = Back[l][1]
            /\ Len(Back[k]) \in Nat /\ Len(Back[l]) \in Nat
        BY <2>1
      <4>2. CASE Len(Back[k]) <= Len(Back[l])
        BY <3>4, <4>1, <4>2, TrailsAgree
      <4>3. CASE Len(Back[l]) <= Len(Back[k])
        BY <3>6, <4>1, <4>3, TrailsAgree
      <4>4. QED
        BY <4>1, <4>2, <4>3
    <3>7. {l \in Current(notes[n].subject) : Head(Back[l]) = n} = {k}
      BY <3>4, <3>5, <3>6 DEF Current
    <3>8. QED
      BY <3>7, FS_Singleton
  <2>4. QED
    BY <2>2, <2>3
<1>2. FileInv => NotesStandOnce
  BY <1>1 DEF FileInv
<1>3. QED
  BY <1>2, FileAlways, PTL

----------------------------------------------------------------------------
(* The window.  Its lists, what each handler leaves of the workspace and    *)
(* its controls, and what stands between two events.                        *)

LEMMA RanksAreTaken ==
  ASSUME NEW S, S \subseteq Nat, IsFiniteSet(S)
  PROVE  /\ Cardinality(S) \in Nat
         /\ \A k \in 0 .. Cardinality(S) - 1 : \E i \in S : Cardinality({j \in S : j < i}) = k
<1> DEFINE Ahead(i) == {j \in S : j < i}
           n == Cardinality(S)
           rank == [i \in S |-> Cardinality(Ahead(i))]
<1>1. n \in Nat
  BY FS_CardinalityType
<1>2. ASSUME NEW i \in S
      PROVE  /\ IsFiniteSet(Ahead(i)) /\ Cardinality(Ahead(i)) \in Nat
             /\ Cardinality(Ahead(i)) < n
  <2>1. Ahead(i) \in SUBSET S /\ i \notin Ahead(i)
    OBVIOUS
  <2> HIDE DEF Ahead
  <2>2. QED
    BY <1>1, <2>1, FS_Subset, FS_CardinalityType
<1>3. ASSUME NEW i \in S, NEW j \in S, i < j
      PROVE  Cardinality(Ahead(i)) < Cardinality(Ahead(j))
  <2>0. i \in Nat /\ j \in Nat /\ \A k \in S : k \in Nat
    OBVIOUS
  <2>1. Ahead(i) \in SUBSET Ahead(j) /\ i \in Ahead(j) /\ i \notin Ahead(i)
    <3>1. ~ (i < i)
      BY <2>0
    <3>2. \A k \in Nat : k < i => k < j
      BY <1>3, <2>0
    <3>3. QED
      BY <1>3, <2>0, <3>1, <3>2, Zenon
  <2>2. IsFiniteSet(Ahead(j)) /\ Cardinality(Ahead(j)) \in Nat
    BY <1>2
  <2> HIDE DEF Ahead
  <2>3. QED
    BY <2>1, <2>2, FS_Subset, FS_CardinalityType
<1>4. rank \in Injection(S, 0 .. n - 1)
  <2>1. \A i \in S : Cardinality(Ahead(i)) \in 0 .. n - 1
    BY <1>1, <1>2
  <2>2. rank \in [S -> 0 .. n - 1]
    BY <2>1
  <2>3. ASSUME NEW i \in S, NEW j \in S, i # j
        PROVE  Cardinality(Ahead(i)) # Cardinality(Ahead(j))
    <3>1. i < j \/ j < i
      BY <2>3
    <3>2. Cardinality(Ahead(i)) \in Nat /\ Cardinality(Ahead(j)) \in Nat
      BY <1>2
    <3> HIDE DEF Ahead
    <3>3. QED
      BY <1>3, <3>1, <3>2
  <2>4. IsInjective(rank)
    BY <2>3 DEF IsInjective
  <2>5. QED
    BY <2>2, <2>4 DEF Injection
<1>5. IsFiniteSet(0 .. n - 1) /\ Cardinality(0 .. n - 1) = n
  <2> HIDE DEF n
  <2>1. 0 \in Int /\ n - 1 \in Int
    BY <1>1
  <2>2. /\ IsFiniteSet(0 .. n - 1)
        /\ Cardinality(0 .. n - 1) = IF 0 > n - 1 THEN 0 ELSE (n - 1) - 0 + 1
    BY <2>1, FS_Interval
  <2>3. QED
    BY <1>1, <2>2
<1>6. rank \in Surjection(S, 0 .. n - 1)
  BY <1>4, <1>5, FS_Injection
<1>7. QED
  BY <1>1, <1>6 DEF Surjection

\* A list holds what was asked for and nothing else.
LEMMA OrderedList ==
  ASSUME NEW seq, seq \in Seq(Range(seq)), NEW set
  PROVE  InOrder(seq, set) \in Seq(set)
<1> DEFINE found == {i \in DOMAIN seq : seq[i] \in set}
           at(k) == CHOOSE i \in found : Cardinality({j \in found : j < i}) = k - 1
<1>1. Len(seq) \in Nat /\ DOMAIN seq = 1 .. Len(seq)
  OBVIOUS
<1>2. found \in SUBSET (1 .. Len(seq)) /\ found \subseteq Nat
  BY <1>1
<1>3. IsFiniteSet(found)
  <2> HIDE DEF found
  <2>1. IsFiniteSet(1 .. Len(seq))
    BY <1>1, FS_Interval
  <2>2. QED
    BY <1>2, <2>1, FS_Subset
<1>4. Cardinality(found) \in Nat
  BY <1>3, FS_CardinalityType
<1>5. ASSUME NEW k \in 1 .. Cardinality(found)
      PROVE  seq[at(k)] \in set
  <2>1. k - 1 \in 0 .. Cardinality(found) - 1
    BY <1>4
  <2>2. \E i \in found : Cardinality({j \in found : j < i}) = k - 1
    BY <1>2, <1>3, <2>1, RanksAreTaken
  <2>3. at(k) \in found
    BY <2>2
  <2>4. QED
    BY <2>3
<1>6. InOrder(seq, set) = [k \in 1 .. Cardinality(found) |-> seq[at(k)]]
  BY DEF InOrder
<1> HIDE DEF found, at
<1>7. QED
  BY <1>4, <1>5, <1>6

LEMMA PlaceInList ==
  ASSUME NEW list, NEW S, list \in Seq(S), NEW x \in Range(list)
  PROVE  Place(list, x) # 0
<1> DEFINE at == {i \in 1 .. Len(list) : list[i] = x}
<1>1. at \subseteq Nat /\ at # {} /\ 0 \notin at
  BY DEF Range
<1>2. Place(list, x) = Min(at)
  BY <1>1 DEF Place, SelectInSeq
<1> HIDE DEF at
<1>3. QED
  BY <1>1, <1>2, LeastOfSet

DeskFields ==
  {"running", "at", "list", "active", "combo", "chosen", "title", "chooser", "pane", "screen",
   "day", "docket", "grid", "focus", "detail", "acting", "label", "forms"}
IsDesk(d) == d = [f \in DeskFields |-> d[f]]

\* What a handler leaves of a workspace: everything but these.
SameBut(d, e, fields) == IsDesk(e) /\ \A f \in DeskFields \ fields : e[f] = d[f]

ListStands(d) == d.active = 0 => d.list = << >>

LEMMA RelistedDesk ==
  ASSUME NEW d, IsDesk(d), NEW held
  PROVE  /\ SameBut(d, Relisted(d, held), {"list", "active"})
         /\ Relisted(d, held).list \in Seq(held) /\ ListStands(Relisted(d, held))
<1> DEFINE list == CaseList(held)
           active == IF Active(d) \in Range(list) THEN Place(list, Active(d)) ELSE First(list)
<1>1. list \in Seq(held)
  BY OrderedList, DeskAssumption DEF CaseList
<1>2. active = 0 => list = << >>
  BY <1>1, PlaceInList DEF First
<1>3. Relisted(d, held) = [d EXCEPT !.list = list, !.active = active]
  BY DEF Relisted
<1> HIDE DEF list, active
<1>4. QED
  BY <1>1, <1>2, <1>3 DEF IsDesk, DeskFields, SameBut, ListStands

LEMMA SelectingDesk ==
  ASSUME NEW d, IsDesk(d), NEW S, d.list \in Seq(S), ListStands(d), NEW c
  PROVE  SameBut(d, Selecting(d, c), {"active"}) /\ ListStands(Selecting(d, c))
<1>1. CASE c \in Range(d.list)
  <2>1. PICK i : i = Place(d.list, c)
    OBVIOUS
  <2>2. i # 0
    BY <1>1, <2>1, PlaceInList
  <2>3. Selecting(d, c) = [d EXCEPT !.active = i]
    BY <1>1, <2>1 DEF Selecting
  <2>4. QED
    BY <2>2, <2>3 DEF IsDesk, DeskFields, SameBut, ListStands
<1>2. CASE c \notin Range(d.list)
  BY <1>2 DEF Selecting, SameBut
<1>3. QED
  BY <1>1, <1>2

LEMMA CaptionedDesk ==
  ASSUME NEW d, IsDesk(d)
  PROVE  /\ SameBut(d, Captioned(d), {"combo", "chosen", "title"})
         /\ Captioned(d).combo = d.list /\ Captioned(d).chosen = d.active
         /\ Captioned(d).title = Active(d)
<1>1. PICK t : t = Active(d)
  OBVIOUS
<1>2. Captioned(d) = [d EXCEPT !.combo = d.list, !.chosen = d.active, !.title = t]
  BY <1>1 DEF Captioned
<1>3. QED
  BY <1>1, <1>2 DEF IsDesk, DeskFields, SameBut

LEMMA LoadedDesk ==
  ASSUME NEW d, IsDesk(d), NEW table
  PROVE  /\ SameBut(d, Loaded(d, table), {"docket"})
         /\ d.at # "here" => Loaded(d, table).docket = d.docket
<1>1. PICK docket : docket = DocketOf(d.day, table)
  OBVIOUS
<1>2. Loaded(d, table) = IF d.at = "here" THEN [d EXCEPT !.docket = docket] ELSE d
  BY <1>1 DEF Loaded
<1>3. QED
  BY <1>2 DEF IsDesk, DeskFields, SameBut

LEMMA PaintedDesk ==
  ASSUME NEW d, IsDesk(d)
  PROVE  /\ SameBut(d, Painted(d), {"grid", "focus", "detail", "chooser"})
         /\ Painted(d).grid = IF d.at = "here" THEN d.docket ELSE << >>
         /\ Painted(d).detail = At(Painted(d).grid, Painted(d).focus)
<1>1. PICK grid : grid = IF d.at = "here" THEN d.docket ELSE << >>
  OBVIOUS
<1>2. PICK focus, chooser : focus = First(grid) /\ chooser = MatterList(d, DOMAIN matters)
  OBVIOUS
<1>3. PICK detail : detail = At(grid, focus)
  OBVIOUS
<1>4. Painted(d) = [d EXCEPT !.grid = grid, !.focus = focus, !.detail = detail, !.chooser = chooser]
  BY <1>1, <1>2, <1>3 DEF Painted
<1>5. SameBut(d, Painted(d), {"grid", "focus", "detail", "chooser"})
  BY <1>4 DEF IsDesk, DeskFields, SameBut
<1>6. Painted(d).grid = grid /\ Painted(d).focus = focus /\ Painted(d).detail = detail
  BY <1>4 DEF IsDesk, DeskFields
<1>7. QED
  BY <1>1, <1>3, <1>5, <1>6

\* A workspace on another database has no docket.
NoDocketElsewhere(d) == d.at # "here" => d.docket = << >>

LEMMA ShowingDesk ==
  ASSUME NEW d, IsDesk(d), NoDocketElsewhere(d), NEW pane \in {"Court", "Office"}
  PROVE  LET e == Showing(d, pane) IN
         /\ SameBut(d, e, {"pane", "screen", "docket", "grid", "focus", "detail", "chooser"})
         /\ e.pane = pane /\ e.screen = pane /\ NoDocketElsewhere(e)
         /\ pane = "Court" => e.docket = e.grid /\ e.detail = At(e.grid, e.focus)
<1>1. PICK shown : shown = [d EXCEPT !.pane = pane, !.screen = pane]
  OBVIOUS
<1>2. SameBut(d, shown, {"pane", "screen"}) /\ shown.pane = pane /\ shown.screen = pane
  BY <1>1 DEF IsDesk, DeskFields, SameBut
<1>3. PICK loaded : loaded = Loaded(shown, settings)
  OBVIOUS
<1>4. /\ SameBut(shown, loaded, {"docket"})
      /\ shown.at # "here" => loaded.docket = shown.docket
  BY <1>2, <1>3, LoadedDesk DEF SameBut
<1>5. PICK painted : painted = Painted(loaded)
  OBVIOUS
<1>6. /\ SameBut(loaded, painted, {"grid", "focus", "detail", "chooser"})
      /\ painted.grid = IF loaded.at = "here" THEN loaded.docket ELSE << >>
      /\ painted.detail = At(painted.grid, painted.focus)
  BY <1>4, <1>5, PaintedDesk DEF SameBut
<1>7. CASE pane = "Court"
  <2>1. Showing(d, pane) = painted
    BY <1>1, <1>3, <1>5, <1>7 DEF Showing
  <2>2. SameBut(d, painted, {"pane", "screen", "docket", "grid", "focus", "detail", "chooser"})
    BY <1>2, <1>4, <1>6 DEF SameBut, DeskFields
  <2>3. /\ painted.at = d.at /\ loaded.at = d.at /\ shown.at = d.at /\ shown.docket = d.docket
        /\ painted.docket = loaded.docket /\ painted.pane = pane /\ painted.screen = pane
    BY <1>2, <1>4, <1>6 DEF SameBut, DeskFields
  <2>4. QED
    BY <1>4, <1>6, <2>1, <2>2, <2>3 DEF NoDocketElsewhere
<1>8. CASE pane = "Office"
  <2>1. Showing(d, pane) = shown
    BY <1>1, <1>8 DEF Showing
  <2>2. shown.at = d.at /\ shown.docket = d.docket
    BY <1>2 DEF SameBut, DeskFields
  <2>3. QED
    BY <1>2, <1>8, <2>1, <2>2 DEF NoDocketElsewhere, SameBut
<1>9. QED
  BY <1>7, <1>8

LEMMA OpenedDesk ==
  ASSUME NEW d, IsDesk(d), NEW at
  PROVE  LET e == Opened(d, at) IN
         /\ SameBut(d, e, {"at", "list", "active", "acting", "pane", "docket", "day"})
         /\ e.at = at /\ e.list \in Seq(Held(at)) /\ ListStands(e)
         /\ e.acting = None /\ e.pane = "Court" /\ e.docket = << >>
<1>1. PICK list : list = CaseList(Held(at))
  OBVIOUS
<1>2. list \in Seq(Held(at))
  BY <1>1, OrderedList, DeskAssumption DEF CaseList
<1>3. PICK active, day : active = First(list) /\ day = IF at = "here" THEN Today ELSE None
  OBVIOUS
<1>4. active = 0 => list = << >>
  BY <1>3 DEF First
<1>5. Opened(d, at) = [d EXCEPT !.at = at, !.list = list, !.active = active, !.acting = None,
                                !.pane = "Court", !.docket = << >>, !.day = day]
  BY <1>1, <1>3 DEF Opened
<1>6. SameBut(d, Opened(d, at), {"at", "list", "active", "acting", "pane", "docket", "day"})
  BY <1>5 DEF IsDesk, DeskFields, SameBut
<1>7. /\ Opened(d, at).at = at /\ Opened(d, at).list = list /\ Opened(d, at).active = active
      /\ Opened(d, at).acting = None /\ Opened(d, at).pane = "Court" /\ Opened(d, at).docket = << >>
  BY <1>5 DEF IsDesk, DeskFields
<1>8. QED
  BY <1>2, <1>4, <1>6, <1>7 DEF ListStands

\* The invariant of the window.  Selections lie in the list of the database that
\* is open; a pane on screen shows the docket the workspace holds, until another
\* database is open; a form other than "acting" is open for somebody who acts.
ShowsCases(d, held) ==
  /\ d.combo = d.list /\ d.chosen = d.active /\ d.title = Active(d)
  /\ d.list \in Seq(held) /\ ListStands(d)

ShowsCourt(d) ==
  /\ NoDocketElsewhere(d)
  /\ d.pane = "Office" \/ d.forms # << >> => d.screen = "Office"
  /\ d.screen = "Court" => /\ d.docket \in {d.grid, << >>}
                           /\ d.detail # None => d.detail = At(d.grid, d.focus)

FormsStand(d) ==
  \/ d.forms = << >>
  \/ \E f \in Forms : d.forms = <<"acting", f>>
  \/ \E f \in Forms : d.forms = <<f>> /\ (f = "acting" \/ d.acting # None)

NamesUser(d, known) ==
  /\ d.acting # None => d.label = d.acting /\ d.at = "here" /\ d.acting \in known
  /\ FormsStand(d)

WindowStands(d, held, known) ==
  /\ IsDesk(d) /\ NamesUser(d, known)
  /\ d.running => ShowsCases(d, held) /\ ShowsCourt(d)

DeskInv ==
  /\ desk = [w \in Windows |-> desk[w]]
  /\ \A w \in Windows : WindowStands(desk[w], Held(desk[w].at), users)

LEMMA MoreHeld ==
  ASSUME NEW d, NEW held, NEW known, WindowStands(d, held, known),
         NEW more, held \subseteq more, NEW others, known \subseteq others
  PROVE  WindowStands(d, more, others)
<1>1. d.list \in Seq(held) => d.list \in Seq(more)
  OBVIOUS
<1>2. NamesUser(d, known) => NamesUser(d, others)
  BY DEF NamesUser
<1>3. QED
  BY <1>1, <1>2 DEF WindowStands, ShowsCases

LEMMA PutWindow ==
  ASSUME DeskInv, NEW w \in Windows, NEW d, desk' = [desk EXCEPT ![w] = d],
         cases \subseteq cases', elsewhere \subseteq elsewhere', users \subseteq users',
         WindowStands(d, Held(d.at)', users')
  PROVE  DeskInv'
<1>1. desk' = [v \in Windows |-> desk'[v]] /\ desk'[w] = d /\ \A v \in Windows : v # w => desk'[v] = desk[v]
  BY DEF DeskInv
<1>2. ASSUME NEW v \in Windows, v # w
      PROVE  WindowStands(desk[v], Held(desk[v].at)', users')
  <2>1. PICK e : e = desk[v]
    OBVIOUS
  <2>2. WindowStands(e, Held(e.at), users)
    BY <2>1 DEF DeskInv
  <2>3. Held(e.at) \subseteq IF e.at = "here" THEN cases' ELSE elsewhere'
    BY DEF Held
  <2>4. WindowStands(e, IF e.at = "here" THEN cases' ELSE elsewhere', users')
    BY <2>2, <2>3, MoreHeld
  <2>5. (IF e.at = "here" THEN cases' ELSE elsewhere') = IF desk'[v].at = "here" THEN cases' ELSE elsewhere'
    BY <1>1, <1>2, <2>1
  <2>6. QED
    BY <1>1, <1>2, <2>1, <2>4, <2>5 DEF Held
<1>3. QED
  BY <1>1, <1>2 DEF DeskInv

\* What of a window the lists of its cases have nothing to do with.
LEMMA CasesChanged ==
  ASSUME NEW d, NEW e, NEW known, NamesUser(d, known), ShowsCourt(d),
         SameBut(d, e, {"list", "active", "combo", "chosen", "title", "chooser"})
  PROVE  NamesUser(e, known) /\ ShowsCourt(e)
<1>1. /\ e.acting = d.acting /\ e.label = d.label /\ e.at = d.at /\ e.forms = d.forms
      /\ e.docket = d.docket /\ e.pane = d.pane /\ e.screen = d.screen /\ e.grid = d.grid
      /\ e.focus = d.focus /\ e.detail = d.detail
  BY DEF SameBut, DeskFields
<1>2. NamesUser(e, known)
  BY <1>1 DEF NamesUser, FormsStand
<1>3. ShowsCourt(e)
  BY <1>1 DEF ShowsCourt, NoDocketElsewhere
<1>4. QED
  BY <1>2, <1>3

\* The window shows the list and the selection the workspace has, at last.
LEMMA CaptionedWindow ==
  ASSUME NEW d, IsDesk(d), NEW held, d.list \in Seq(held), ListStands(d),
         NEW known, NamesUser(d, known), ShowsCourt(d)
  PROVE  WindowStands(Captioned(d), held, known)
<1>1. PICK e : e = Captioned(d)
  OBVIOUS
<1>2. /\ SameBut(d, e, {"combo", "chosen", "title"})
      /\ e.combo = d.list /\ e.chosen = d.active /\ e.title = Active(d)
  BY <1>1, CaptionedDesk
<1>3. SameBut(d, e, {"list", "active", "combo", "chosen", "title", "chooser"})
  BY <1>2 DEF SameBut
<1>4. NamesUser(e, known) /\ ShowsCourt(e)
  BY <1>3, CasesChanged
<1>5. e.list = d.list /\ e.active = d.active
  BY <1>2 DEF SameBut, DeskFields
<1>6. ShowsCases(e, held)
  BY <1>2, <1>5 DEF ShowsCases, ListStands, Active
<1>7. QED
  BY <1>1, <1>2, <1>4, <1>6 DEF WindowStands, SameBut

\* The list is read again, and a case selected when it is there.
LEMMA RefreshedWindow ==
  ASSUME NEW d, IsDesk(d), NEW known, NamesUser(d, known), ShowsCourt(d), NEW held, NEW c
  PROVE  WindowStands(Captioned(Selecting(Relisted(d, held), c)), held, known)
<1>1. PICK r : r = Relisted(d, held)
  OBVIOUS
<1>2. SameBut(d, r, {"list", "active"}) /\ r.list \in Seq(held) /\ ListStands(r)
  BY <1>1, RelistedDesk
<1>3. PICK e : e = Selecting(r, c)
  OBVIOUS
<1>4. SameBut(r, e, {"active"}) /\ ListStands(e)
  BY <1>2, <1>3, SelectingDesk DEF SameBut
<1>5. e.list = r.list
  BY <1>4 DEF SameBut, DeskFields
<1>6. SameBut(d, e, {"list", "active", "combo", "chosen", "title", "chooser"})
  BY <1>2, <1>4 DEF SameBut
<1>7. NamesUser(e, known) /\ ShowsCourt(e)
  BY <1>6, CasesChanged
<1>8. WindowStands(Captioned(e), held, known)
  BY <1>2, <1>4, <1>5, <1>7, CaptionedWindow DEF SameBut
<1>9. QED
  BY <1>1, <1>3, <1>8

LEMMA SelectedWindow ==
  ASSUME NEW d, NEW held, NEW known, WindowStands(d, held, known), d.running, NEW c
  PROVE  WindowStands(Captioned(Selecting(d, c)), held, known)
<1>1. PICK e : e = Selecting(d, c)
  OBVIOUS
<1>2. /\ IsDesk(d) /\ d.list \in Seq(held) /\ ListStands(d)
      /\ NamesUser(d, known) /\ ShowsCourt(d)
  BY DEF WindowStands, ShowsCases
<1>3. SameBut(d, e, {"active"}) /\ ListStands(e)
  BY <1>1, <1>2, SelectingDesk
<1>4. e.list = d.list
  BY <1>3 DEF SameBut, DeskFields
<1>5. SameBut(d, e, {"list", "active", "combo", "chosen", "title", "chooser"})
  BY <1>3 DEF SameBut
<1>6. NamesUser(e, known) /\ ShowsCourt(e)
  BY <1>2, <1>5, CasesChanged
<1>7. WindowStands(Captioned(e), held, known)
  BY <1>2, <1>3, <1>4, <1>6, CaptionedWindow DEF SameBut
<1>8. QED
  BY <1>1, <1>7

LEMMA RefreshedPlace ==
  ASSUME NEW d, IsDesk(d), NEW held, NEW c
  PROVE  Captioned(Selecting(Relisted(d, held), c)).at = d.at
<1>1. PICK r : r = Relisted(d, held)
  OBVIOUS
<1>2. SameBut(d, r, {"list", "active"}) /\ r.list \in Seq(held) /\ ListStands(r)
  BY <1>1, RelistedDesk
<1>3. PICK e : e = Selecting(r, c)
  OBVIOUS
<1>4. SameBut(r, e, {"active"})
  BY <1>2, <1>3, SelectingDesk DEF SameBut
<1>5. SameBut(e, Captioned(e), {"combo", "chosen", "title"})
  BY <1>4, CaptionedDesk DEF SameBut
<1>6. r.at = d.at /\ e.at = r.at /\ Captioned(e).at = e.at
  BY <1>2, <1>4, <1>5 DEF SameBut, DeskFields
<1>7. QED
  BY <1>1, <1>3, <1>6

LEMMA SelectedPlace ==
  ASSUME NEW d, IsDesk(d), NEW held, d.list \in Seq(held), ListStands(d), NEW c
  PROVE  Captioned(Selecting(d, c)).at = d.at
<1>1. PICK e : e = Selecting(d, c)
  OBVIOUS
<1>2. SameBut(d, e, {"active"})
  BY <1>1, SelectingDesk
<1>3. SameBut(e, Captioned(e), {"combo", "chosen", "title"})
  BY <1>2, CaptionedDesk DEF SameBut
<1>4. e.at = d.at /\ Captioned(e).at = e.at
  BY <1>2, <1>3 DEF SameBut, DeskFields
<1>5. QED
  BY <1>1, <1>4

\* The pane that is shown, and the commands of the Court pane.
LEMMA CourtChanged ==
  ASSUME NEW d, NEW held, NEW known, WindowStands(d, held, known), d.running, NEW e,
         SameBut(d, e, {"pane", "screen", "docket", "grid", "focus", "detail", "chooser", "day"}),
         ShowsCourt(e)
  PROVE  WindowStands(e, held, known)
<1>1. /\ e.acting = d.acting /\ e.label = d.label /\ e.at = d.at /\ e.forms = d.forms
      /\ e.combo = d.combo /\ e.list = d.list /\ e.chosen = d.chosen /\ e.active = d.active
      /\ e.title = d.title
  BY DEF SameBut, DeskFields
<1>2. NamesUser(e, known)
  BY <1>1 DEF WindowStands, NamesUser, FormsStand
<1>3. ShowsCases(e, held)
  BY <1>1 DEF WindowStands, ShowsCases, ListStands, Active
<1>4. QED
  BY <1>2, <1>3 DEF WindowStands, SameBut

LEMMA ShownWindow ==
  ASSUME NEW d, NEW held, NEW known, WindowStands(d, held, known), d.running,
         NEW pane \in {"Court", "Office"}, d.forms = << >>
  PROVE  LET e == Showing(d, pane)
         IN WindowStands(e, held, known) /\ e.screen = pane /\ e.forms = << >>
              /\ e.running = d.running /\ e.acting = d.acting /\ e.at = d.at
<1>1. PICK e : e = Showing(d, pane)
  OBVIOUS
<1>2. /\ SameBut(d, e, {"pane", "screen", "docket", "grid", "focus", "detail", "chooser"})
      /\ e.pane = pane /\ e.screen = pane /\ NoDocketElsewhere(e)
      /\ pane = "Court" => e.docket = e.grid /\ e.detail = At(e.grid, e.focus)
  BY <1>1, ShowingDesk DEF WindowStands, ShowsCourt
<1>3. e.forms = << >> /\ e.running = d.running /\ e.acting = d.acting /\ e.at = d.at
  BY <1>2 DEF SameBut, DeskFields
<1>4. ShowsCourt(e)
  BY <1>2, <1>3 DEF ShowsCourt
<1>5. SameBut(d, e, {"pane", "screen", "docket", "grid", "focus", "detail", "chooser", "day"})
  BY <1>2 DEF SameBut
<1>6. WindowStands(e, held, known)
  BY <1>4, <1>5, CourtChanged
<1>7. QED
  BY <1>1, <1>2, <1>3, <1>6

\* A form is done with, and what its command wrote may be loaded again.
LEMMA FormChanged ==
  ASSUME NEW d, NEW held, NEW known, WindowStands(d, held, known), NEW e,
         SameBut(d, e, {"forms"}), FormsStand(e), e.forms # << >> => d.screen = "Office"
  PROVE  WindowStands(e, held, known)
<1>1. /\ e.acting = d.acting /\ e.label = d.label /\ e.at = d.at /\ e.running = d.running
      /\ e.combo = d.combo /\ e.list = d.list /\ e.chosen = d.chosen /\ e.active = d.active
      /\ e.title = d.title /\ e.docket = d.docket /\ e.pane = d.pane /\ e.screen = d.screen
      /\ e.grid = d.grid /\ e.focus = d.focus /\ e.detail = d.detail
  BY DEF SameBut, DeskFields
<1>2. NamesUser(e, known)
  BY <1>1 DEF WindowStands, NamesUser
<1>3. d.running => ShowsCases(e, held)
  BY <1>1 DEF WindowStands, ShowsCases, ListStands, Active
<1>4. d.running => ShowsCourt(e)
  BY <1>1 DEF WindowStands, ShowsCourt, NoDocketElsewhere
<1>5. QED
  BY <1>1, <1>2, <1>3, <1>4 DEF WindowStands, SameBut

LEMMA DoneWindow ==
  ASSUME NEW d, NEW held, NEW known, WindowStands(d, held, known)
  PROVE  LET e == [d EXCEPT !.forms = << >>]
         IN WindowStands(e, held, known) /\ SameBut(d, e, {"forms"}) /\ e.forms = << >>
<1>1. PICK e : e = [d EXCEPT !.forms = << >>]
  OBVIOUS
<1>2. SameBut(d, e, {"forms"}) /\ e.forms = << >>
  BY <1>1 DEF WindowStands, IsDesk, DeskFields, SameBut
<1>3. WindowStands(e, held, known)
  BY <1>2, FormChanged DEF FormsStand
<1>4. QED
  BY <1>1, <1>2, <1>3

LEMMA LoadedWindow ==
  ASSUME NEW d, NEW held, NEW known, WindowStands(d, held, known), d.running, d.screen = "Office",
         NEW table
  PROVE  WindowStands(Loaded(d, table), held, known)
<1>1. PICK e : e = Loaded(d, table)
  OBVIOUS
<1>2. SameBut(d, e, {"docket"}) /\ (d.at # "here" => e.docket = d.docket)
  BY <1>1, LoadedDesk DEF WindowStands
<1>3. e.at = d.at /\ e.screen = d.screen
  BY <1>2 DEF SameBut, DeskFields
<1>4. ShowsCourt(e)
  BY <1>2, <1>3 DEF WindowStands, ShowsCourt, NoDocketElsewhere
<1>5. SameBut(d, e, {"pane", "screen", "docket", "grid", "focus", "detail", "chooser", "day"})
  BY <1>2 DEF SameBut
<1>6. QED
  BY <1>1, <1>4, <1>5, CourtChanged

LEMMA InitDeskInv == DeskInit => DeskInv
<1> SUFFICES ASSUME DeskInit PROVE DeskInv
  OBVIOUS
<1>1. desk = [w \in Windows |-> Closed]
  BY DEF DeskInit
<1>2. PICK d : d = Closed
  OBVIOUS
<1>3. IsDesk(d) /\ ~ d.running /\ d.acting = None /\ d.forms = << >>
  BY <1>2 DEF Closed, IsDesk, DeskFields
<1>4. \A held, known : WindowStands(d, held, known)
  BY <1>3 DEF WindowStands, NamesUser, FormsStand
<1>5. QED
  BY <1>1, <1>2, <1>4 DEF DeskInv

\* Cases are opened and never closed, in either database.
LEMMA CasesOnlyGrow ==
  ASSUME CalendarInv, [DeskNext]_deskVars
  PROVE  cases \subseteq cases'
<1>1. TypeOK
  BY DEF CalendarInv
<1>2. CASE CalendarMoves
  <2>1. PICK w \in Windows : Step(w)
    BY <1>2 DEF CalendarMoves
  <2>2. QED
    BY <2>1, CalendarKeeps DEF Keeps
<1>3. CASE FileMoves
  <2>1. PICK w \in Windows : FileStep(w)
    BY <1>3 DEF FileMoves
  <2>2. QED
    BY <1>1, <2>1, FileFrame
<1>4. CASE CasesGrow
  BY <1>4 DEF CasesGrow
<1>5. QED
  BY <1>1, <1>2, <1>3, <1>4, DeskSteps

\* The events of a window that is up and has no form open.
LEMMA ReadyEvents ==
  ASSUME DeskInv, NEW w \in Windows, cases \subseteq cases',
         \/ \E i \in 1 .. Len(Shelf) : ChooseCase(w, i)
         \/ \E c \in Cases : OpenNewCase(w, c)
         \/ \E c \in Range(Shelf) : Import(w, c)
         \/ \E i \in 1 .. Len(Filed) : SelectMatter(w, i)
         \/ \E pane \in {"Court", "Office"} : ShowPane(w, pane)
         \/ \E day \in Days : MoveDay(w, day)
         \/ \E i \in 1 .. Cardinality(Settings) : FocusRow(w, i)
         \/ \E at \in {"here", "elsewhere"} : OpenDatabase(w, at)
         \/ \E form \in Forms : OfficeCommand(w, form)
  PROVE  DeskInv'
<1> USE DEF Put
<1>1. PICK d, held : d = desk[w] /\ held = Held(d.at)
  OBVIOUS
<1>2. WindowStands(d, held, users) /\ IsDesk(d) /\ NamesUser(d, users)
  BY <1>1 DEF DeskInv, WindowStands
<1>3. d.running /\ d.forms = << >> /\ ShowsCases(d, held) /\ ShowsCourt(d)
  BY <1>1, <1>2 DEF WindowStands, Ready, ChooseCase, OpenNewCase, Import, SelectMatter, ShowPane, MoveDay,
                    FocusRow, OpenDatabase, OfficeCommand
<1>4. ASSUME NEW e, desk' = [desk EXCEPT ![w] = e], UNCHANGED <<cases, elsewhere, users>>,
             WindowStands(e, Held(e.at), users)
      PROVE  DeskInv'
  <2>1. Held(e.at)' = Held(e.at)
    BY <1>4 DEF Held
  <2>2. QED
    BY <1>4, <2>1, PutWindow
<1>5. CASE \E i \in 1 .. Len(Shelf) : ChooseCase(w, i)
  <2>1. PICK e : e = Closed
    OBVIOUS
  <2>2. IsDesk(e) /\ ~ e.running /\ e.acting = None /\ e.forms = << >>
    BY <2>1 DEF Closed, IsDesk, DeskFields
  <2>3. WindowStands(e, Held(e.at), users)
    BY <2>2 DEF WindowStands, NamesUser, FormsStand
  <2>4. QED
    BY <1>4, <1>5, <2>1, <2>3 DEF ChooseCase
<1>6. CASE \E c \in Cases : OpenNewCase(w, c)
  <2>1. PICK c \in Cases : OpenNewCase(w, c)
    BY <1>6
  <2>2. PICK e : e = Captioned(Selecting(Relisted(d, held \cup {c}), c))
    OBVIOUS
  <2>3. WindowStands(e, held \cup {c}, users) /\ e.at = d.at
    <3>1. WindowStands(e, held \cup {c}, users)
      BY <1>2, <1>3, <2>2, RefreshedWindow
    <3>2. e.at = d.at
      BY <1>2, <2>2, RefreshedPlace
    <3>3. QED
      BY <3>1, <3>2
  <2>4. desk' = [desk EXCEPT ![w] = e] /\ users' = users
    BY <1>1, <2>1, <2>2 DEF OpenNewCase
  <2>5. elsewhere \subseteq elsewhere' /\ Held(e.at)' = held \cup {c}
    BY <1>1, <2>1, <2>3 DEF OpenNewCase, AddCase, Held
  <2>6. QED
    BY <2>3, <2>4, <2>5, PutWindow
<1>7. CASE \E c \in Range(Shelf) : Import(w, c)
  <2>1. PICK c \in Range(Shelf) : Import(w, c)
    BY <1>7
  <2>2. PICK e : e = Captioned(Selecting(Relisted(d, held), c))
    OBVIOUS
  <2>3. WindowStands(e, held, users)
    BY <1>2, <1>3, <2>2, RefreshedWindow
  <2>4. e.at = d.at
    BY <1>2, <2>2, RefreshedPlace
  <2>5. QED
    BY <1>1, <1>4, <2>1, <2>2, <2>3, <2>4 DEF Import
<1>8. CASE \E i \in 1 .. Len(Filed) : SelectMatter(w, i)
  <2>1. PICK i \in 1 .. Len(Filed) : SelectMatter(w, i)
    BY <1>8
  <2>2. PICK c : c = matters[At(MatterList(d, DOMAIN matters), i)].case
    OBVIOUS
  <2>3. PICK e : e = Captioned(Selecting(d, c))
    OBVIOUS
  <2>4. desk' = [desk EXCEPT ![w] = e] /\ UNCHANGED <<cases, elsewhere, users>>
    BY <1>1, <2>1, <2>2, <2>3 DEF SelectMatter, theRest
  <2>5. WindowStands(e, held, users)
    BY <1>2, <1>3, <2>3, SelectedWindow
  <2>6. e.at = d.at
    BY <1>2, <1>3, <2>3, SelectedPlace DEF ShowsCases
  <2>7. QED
    BY <1>1, <1>4, <2>4, <2>5, <2>6
<1>9. CASE \E pane \in {"Court", "Office"} : ShowPane(w, pane)
  <2>1. PICK pane \in {"Court", "Office"} : ShowPane(w, pane)
    BY <1>9
  <2>2. PICK e : e = Showing(d, pane)
    OBVIOUS
  <2>3. WindowStands(e, held, users) /\ e.at = d.at
    BY <1>2, <1>3, <2>2, ShownWindow
  <2>4. QED
    BY <1>1, <1>4, <2>1, <2>2, <2>3 DEF ShowPane
<1>10. CASE \E day \in Days : MoveDay(w, day)
  <2>1. PICK day \in Days : MoveDay(w, day)
    BY <1>10
  <2>2. PICK dated : dated = [d EXCEPT !.day = day]
    OBVIOUS
  <2>3. SameBut(d, dated, {"day"})
    BY <1>2, <2>2 DEF IsDesk, DeskFields, SameBut
  <2>4. PICK loaded : loaded = Loaded(dated, settings)
    OBVIOUS
  <2>5. SameBut(dated, loaded, {"docket"})
    BY <2>3, <2>4, LoadedDesk DEF SameBut
  <2>6. PICK e : e = Painted(loaded)
    OBVIOUS
  <2>7. /\ SameBut(loaded, e, {"grid", "focus", "detail", "chooser"})
        /\ e.grid = IF loaded.at = "here" THEN loaded.docket ELSE << >>
        /\ e.detail = At(e.grid, e.focus)
    BY <2>5, <2>6, PaintedDesk DEF SameBut
  <2>8. /\ SameBut(d, e, {"pane", "screen", "docket", "grid", "focus", "detail", "chooser", "day"})
        /\ e.at = d.at /\ loaded.at = d.at /\ e.docket = loaded.docket /\ e.pane = d.pane
        /\ e.screen = d.screen /\ e.forms = d.forms
    BY <2>3, <2>5, <2>7 DEF SameBut, DeskFields
  <2>9. d.at = "here"
    BY <1>1, <2>1 DEF MoveDay
  <2>10. ShowsCourt(e)
    BY <1>3, <2>7, <2>8, <2>9 DEF ShowsCourt, NoDocketElsewhere
  <2>11. WindowStands(e, held, users)
    BY <1>2, <1>3, <2>8, <2>10, CourtChanged
  <2>12. QED
    BY <1>1, <1>4, <2>1, <2>2, <2>4, <2>6, <2>8, <2>11 DEF MoveDay
<1>11. CASE \E i \in 1 .. Cardinality(Settings) : FocusRow(w, i)
  <2>1. PICK i \in 1 .. Cardinality(Settings) : FocusRow(w, i)
    BY <1>11
  <2>2. PICK detail : detail = At(d.docket, i)
    OBVIOUS
  <2>3. PICK e : e = [d EXCEPT !.focus = i, !.detail = detail]
    OBVIOUS
  <2>4. SameBut(d, e, {"focus", "detail"}) /\ e.focus = i /\ e.detail = detail
    BY <1>2, <2>3 DEF IsDesk, DeskFields, SameBut
  <2>5. /\ SameBut(d, e, {"pane", "screen", "docket", "grid", "focus", "detail", "chooser", "day"})
        /\ e.at = d.at /\ e.docket = d.docket /\ e.grid = d.grid /\ e.pane = d.pane
        /\ e.screen = d.screen /\ e.forms = d.forms
    BY <2>4 DEF SameBut, DeskFields
  <2>6. d.docket = << >> => detail = None
    BY <2>2 DEF At
  <2>7. ShowsCourt(e)
    BY <1>3, <2>2, <2>4, <2>5, <2>6 DEF ShowsCourt, NoDocketElsewhere
  <2>8. WindowStands(e, held, users)
    BY <1>2, <1>3, <2>5, <2>7, CourtChanged
  <2>9. QED
    BY <1>1, <1>4, <2>1, <2>2, <2>3, <2>5, <2>8 DEF FocusRow
<1>12. CASE \E at \in {"here", "elsewhere"} : OpenDatabase(w, at)
  <2>1. PICK at \in {"here", "elsewhere"} : OpenDatabase(w, at)
    BY <1>12
  <2>2. PICK opened : opened = Opened(d, at)
    OBVIOUS
  <2>3. /\ SameBut(d, opened, {"at", "list", "active", "acting", "pane", "docket", "day"})
        /\ opened.at = at /\ opened.list \in Seq(Held(at)) /\ ListStands(opened)
        /\ opened.acting = None /\ opened.pane = "Court" /\ opened.docket = << >>
    BY <1>2, <2>2, OpenedDesk
  <2>4. opened.forms = << >> /\ opened.detail = d.detail /\ opened.grid = d.grid
        /\ opened.focus = d.focus /\ opened.screen = d.screen
    BY <1>3, <2>3 DEF SameBut, DeskFields
  <2>5. NamesUser(opened, users)
    BY <2>3, <2>4 DEF NamesUser, FormsStand
  <2>6. ShowsCourt(opened)
    BY <1>3, <2>3, <2>4 DEF ShowsCourt, NoDocketElsewhere
  <2>7. PICK e : e = Captioned(opened)
    OBVIOUS
  <2>8. WindowStands(e, Held(at), users)
    BY <2>3, <2>5, <2>6, <2>7, CaptionedWindow DEF SameBut
  <2>9. e.at = at
    BY <2>3, <2>7, CaptionedDesk DEF SameBut, DeskFields
  <2>10. QED
    BY <1>1, <1>4, <2>1, <2>2, <2>7, <2>8, <2>9 DEF OpenDatabase
<1>13. CASE \E form \in Forms : OfficeCommand(w, form)
  <2>1. PICK form \in Forms : OfficeCommand(w, form)
    BY <1>13
  <2>2. PICK shown : shown = IF d.pane # "Office" THEN Showing(d, "Office") ELSE d
    OBVIOUS
  <2>3. /\ WindowStands(shown, held, users) /\ shown.screen = "Office" /\ shown.forms = << >>
        /\ shown.running = d.running /\ shown.at = d.at
    BY <1>2, <1>3, <2>2, ShownWindow DEF ShowsCourt
  <2>4. PICK forms : forms = IF form # "acting" /\ shown.acting = None THEN <<"acting", form>> ELSE <<form>>
    OBVIOUS
  <2>5. PICK e : e = [shown EXCEPT !.forms = forms]
    OBVIOUS
  <2>6. SameBut(shown, e, {"forms"}) /\ e.forms = forms
    BY <2>3, <2>5 DEF WindowStands, IsDesk, DeskFields, SameBut
  <2>7. e.acting = shown.acting /\ e.at = d.at
    BY <2>3, <2>6 DEF SameBut, DeskFields
  <2>8. FormsStand(e)
    BY <2>4, <2>6, <2>7 DEF FormsStand
  <2>9. WindowStands(e, held, users)
    BY <2>3, <2>6, <2>8, FormChanged
  <2>10. QED
    BY <1>1, <1>4, <2>1, <2>2, <2>4, <2>5, <2>7, <2>9 DEF OfficeCommand
<1>14. QED
  BY <1>5, <1>6, <1>7, <1>8, <1>9, <1>10, <1>11, <1>12, <1>13

LEMMA StartEvent ==
  ASSUME DeskInv, NEW w \in Windows, cases \subseteq cases', Start(w)
  PROVE  DeskInv'
<1>1. PICK blank : blank = [Closed EXCEPT !.running = TRUE]
  OBVIOUS
<1>2. IsDesk(blank) /\ blank.forms = << >> /\ blank.screen = "Court" /\ blank.detail = None
  BY <1>1 DEF Closed, IsDesk, DeskFields
<1>3. PICK opened : opened = Opened(blank, "here")
  OBVIOUS
<1>4. /\ SameBut(blank, opened, {"at", "list", "active", "acting", "pane", "docket", "day"})
      /\ opened.at = "here" /\ opened.list \in Seq(Held("here")) /\ ListStands(opened)
      /\ opened.acting = None /\ opened.pane = "Court" /\ opened.docket = << >>
  BY <1>2, <1>3, OpenedDesk
<1>5. opened.forms = << >> /\ opened.screen = "Court" /\ opened.detail = None
  BY <1>2, <1>4 DEF SameBut, DeskFields
<1>6. NamesUser(opened, users) /\ ShowsCourt(opened)
  BY <1>4, <1>5 DEF NamesUser, FormsStand, ShowsCourt, NoDocketElsewhere
<1>7. PICK captioned : captioned = Captioned(opened)
  OBVIOUS
<1>8. WindowStands(captioned, Held("here"), users)
  BY <1>4, <1>6, <1>7, CaptionedWindow DEF SameBut
<1>9. SameBut(opened, captioned, {"combo", "chosen", "title"})
  BY <1>4, <1>7, CaptionedDesk DEF SameBut
<1>10. captioned.forms = << >> /\ captioned.at = "here" /\ captioned.running = opened.running
       /\ opened.running = blank.running
  BY <1>4, <1>5, <1>9 DEF SameBut, DeskFields
<1>11. blank.running
  BY <1>1 DEF Closed
<1>12. PICK e : e = Showing(captioned, "Court")
  OBVIOUS
<1>13. WindowStands(e, Held("here"), users) /\ e.at = "here"
  BY <1>8, <1>10, <1>11, <1>12, ShownWindow
<1>14. desk' = [desk EXCEPT ![w] = e] /\ UNCHANGED <<cases, elsewhere, users>>
  BY <1>1, <1>3, <1>7, <1>12 DEF Start, Put
<1>15. Held(e.at)' = Held("here")
  BY <1>13, <1>14 DEF Held
<1>16. QED
  BY <1>13, <1>14, <1>15, PutWindow

\* A form over a window: who acts is known, and the office here is open, unless
\* the form asks who acts.
LEMMA FormIsOpen ==
  ASSUME DeskInv, NEW w \in Windows, NEW form, Shows(w, form)
  PROVE  /\ desk[w].running /\ desk[w].screen = "Office"
         /\ form # "acting" => desk[w].acting # None /\ desk[w].at = "here"
<1>1. PICK d : d = desk[w]
  OBVIOUS
<1>2. d.running /\ d.forms # << >> /\ Head(d.forms) = form
  BY <1>1 DEF Shows
<1>3. NamesUser(d, users) /\ ShowsCourt(d)
  BY <1>1, <1>2 DEF DeskInv, WindowStands
<1>4. d.screen = "Office"
  BY <1>2, <1>3 DEF ShowsCourt
<1>5. ASSUME form # "acting" PROVE d.acting # None
  <2>1. PICK f \in Forms : d.forms = <<"acting", f>> \/ (d.forms = <<f>> /\ (f = "acting" \/ d.acting # None))
    BY <1>2, <1>3 DEF NamesUser, FormsStand
  <2>2. Head(<<"acting", f>>) = "acting" /\ Head(<<f>>) = f
    OBVIOUS
  <2>3. QED
    BY <1>2, <1>5, <2>1, <2>2
<1>6. QED
  BY <1>1, <1>2, <1>3, <1>4, <1>5 DEF NamesUser

LEMMA FormEvents ==
  ASSUME DeskInv, NEW w \in Windows, cases \subseteq cases',
         \/ \E name \in Names : NameUser(w, name)
         \/ CancelForm(w) \/ ClientForm(w) \/ AnswerDuplicates(w) \/ MatterForm(w) \/ OpenMatter(w)
         \/ SettingForm(w) \/ DeadlineForm(w) \/ NoteForm(w)
  PROVE  DeskInv'
<1> USE DEF Put
<1>1. PICK d : d = desk[w]
  OBVIOUS
<1>2. WindowStands(d, Held(d.at), users) /\ IsDesk(d) /\ NamesUser(d, users)
  BY <1>1 DEF DeskInv, WindowStands
<1>3. ASSUME NEW e, desk' = [desk EXCEPT ![w] = e], UNCHANGED <<elsewhere, users>>,
             WindowStands(e, Held(e.at), users)
      PROVE  DeskInv'
  <2>1. Held(e.at) \subseteq Held(e.at)'
    BY <1>3 DEF Held
  <2>2. PICK more : more = Held(e.at)'
    OBVIOUS
  <2>3. WindowStands(e, more, users)
    BY <1>3, <2>1, <2>2, MoreHeld
  <2>4. WindowStands(e, Held(e.at)', users')
    BY <1>3, <2>2, <2>3
  <2>5. QED
    BY <1>3, <2>4, PutWindow
<1>4. ASSUME UNCHANGED <<desk, elsewhere, users>>
      PROVE  DeskInv'
  <2>1. desk' = [desk EXCEPT ![w] = d]
    BY <1>1, <1>4 DEF DeskInv
  <2>2. QED
    BY <1>2, <1>3, <1>4, <2>1
<1>5. PICK done : done = [d EXCEPT !.forms = << >>]
  OBVIOUS
<1>6. WindowStands(done, Held(d.at), users) /\ SameBut(d, done, {"forms"}) /\ done.forms = << >>
  BY <1>2, <1>5, DoneWindow
<1>7. done.at = d.at /\ done.running = d.running /\ done.screen = d.screen
  BY <1>6 DEF SameBut, DeskFields
<1>8. ASSUME desk' = [desk EXCEPT ![w] = done], UNCHANGED <<elsewhere, users>>
      PROVE  DeskInv'
  BY <1>3, <1>6, <1>7, <1>8
<1>9. ASSUME NEW table, desk' = [desk EXCEPT ![w] = Loaded(done, table)], UNCHANGED <<elsewhere, users>>,
             d.running, d.screen = "Office"
      PROVE  DeskInv'
  <2>1. PICK e : e = Loaded(done, table)
    OBVIOUS
  <2>2. WindowStands(e, Held(d.at), users)
    BY <1>6, <1>7, <1>9, <2>1, LoadedWindow
  <2>3. SameBut(done, e, {"docket"})
    BY <1>6, <2>1, LoadedDesk DEF SameBut
  <2>4. e.at = d.at
    BY <1>7, <2>3 DEF SameBut, DeskFields
  <2>5. QED
    BY <1>3, <1>9, <2>1, <2>2, <2>4
<1>10. CASE \E name \in Names : NameUser(w, name)
  <2>1. PICK name \in Names : NameUser(w, name)
    BY <1>10
  <2>2. PICK known : known = IF d.at = "here" THEN users \cup {name} ELSE users
    OBVIOUS
  <2>3. PICK a : a = ActingAs(d, name)
    OBVIOUS
  <2>4. PICK forms : forms = IF a.acting = None THEN << >> ELSE Tail(a.forms)
    OBVIOUS
  <2>5. PICK e : e = [a EXCEPT !.label = a.acting, !.forms = forms]
    OBVIOUS
  <2>6. desk' = [desk EXCEPT ![w] = e] /\ users' = known /\ UNCHANGED <<cases, elsewhere>>
    <3>1. /\ UNCHANGED <<cases, elsewhere>>
          /\ users' = IF a.at = "here" THEN users \cup {name} ELSE users
          /\ desk' = [desk EXCEPT ![w] =
               [a EXCEPT !.label = a.acting, !.forms = IF a.acting = None THEN << >> ELSE Tail(a.forms)]]
      BY <1>1, <2>1, <2>3 DEF NameUser
    <3>2. a.at = d.at
      BY <1>2, <2>3 DEF ActingAs, IsDesk, DeskFields
    <3>3. QED
      BY <2>2, <2>4, <2>5, <3>1, <3>2
  <2>7. SameBut(d, a, {"acting"}) /\ a.acting = IF d.at = "here" THEN name ELSE d.acting
    BY <1>2, <2>3 DEF ActingAs, IsDesk, DeskFields, SameBut
  <2>8. SameBut(a, e, {"label", "forms"}) /\ e.label = a.acting /\ e.forms = forms
    BY <2>5, <2>7 DEF IsDesk, DeskFields, SameBut
  <2>9. /\ a.forms = d.forms /\ e.acting = a.acting /\ e.at = d.at /\ e.running = d.running
        /\ e.combo = d.combo /\ e.list = d.list /\ e.chosen = d.chosen /\ e.active = d.active
        /\ e.title = d.title /\ e.docket = d.docket /\ e.pane = d.pane /\ e.screen = d.screen
        /\ e.grid = d.grid /\ e.focus = d.focus /\ e.detail = d.detail
    BY <2>7, <2>8 DEF SameBut, DeskFields
  <2>10. d.running /\ d.screen = "Office" /\ d.forms # << >> /\ Head(d.forms) = "acting"
    BY <1>1, <2>1, FormIsOpen DEF NameUser, Shows
  <2>11. FormsStand(e)
    <3>1. CASE a.acting = None
      BY <2>4, <2>8, <3>1 DEF FormsStand
    <3>2. CASE a.acting # None
      <4>1. PICK f \in Forms : d.forms = <<"acting", f>> \/ d.forms = <<f>>
        BY <1>2, <2>10 DEF NamesUser, FormsStand
      <4>2. Tail(<<"acting", f>>) = <<f>> /\ Tail(<<f>>) = << >>
        OBVIOUS
      <4>3. forms = << >> \/ forms = <<f>>
        BY <2>4, <2>9, <3>2, <4>1, <4>2
      <4>4. QED
        BY <2>8, <2>9, <3>2, <4>3 DEF FormsStand
    <3>3. QED
      BY <3>1, <3>2
  <2>12. NamesUser(e, known)
    BY <1>2, <2>2, <2>7, <2>8, <2>9, <2>11 DEF NamesUser
  <2>13. ShowsCases(e, Held(e.at)) /\ ShowsCourt(e)
    BY <1>2, <2>9, <2>10 DEF WindowStands, ShowsCases, ListStands, Active, ShowsCourt, NoDocketElsewhere
  <2>14. WindowStands(e, Held(e.at), known)
    BY <2>8, <2>12, <2>13 DEF WindowStands, SameBut
  <2>15. Held(e.at)' = Held(e.at) /\ users \subseteq users'
    BY <2>2, <2>6 DEF Held
  <2>16. WindowStands(e, Held(e.at)', users')
    BY <2>6, <2>14, <2>15
  <2>17. QED
    BY <2>6, <2>15, <2>16, PutWindow
<1>11. CASE CancelForm(w)
  BY <1>1, <1>5, <1>8, <1>11 DEF CancelForm
<1>12. CASE ClientForm(w) \/ MatterForm(w)
  BY <1>4, <1>12 DEF ClientForm, MatterForm, OfTheOffice, Kept
<1>13. CASE AnswerDuplicates(w)
  BY <1>1, <1>4, <1>5, <1>8, <1>13 DEF AnswerDuplicates, Done, Kept
<1>14. CASE OpenMatter(w)
  <2>1. UNCHANGED <<elsewhere, users>>
    BY <1>14 DEF OpenMatter, OfTheOffice, Kept
  <2>2. d.running /\ d.screen = "Office" /\ d.at = "here"
    BY <1>1, <1>14, FormIsOpen DEF OpenMatter
  <2>3. CASE (\E c \in Cases \ elsewhere : OpenCase(w, c)) /\ UNCHANGED desk
    BY <1>4, <2>1, <2>3
  <2>4. CASE \E m \in Matters :
               LET l == Loaded(Selecting(Relisted(Done(w), cases), doing[w].case), settings)
               IN Put(w, Captioned([l EXCEPT !.chooser = MatterList(l, DOMAIN matters \cup {m})]))
    <3>1. PICK m \in Matters :
               LET l == Loaded(Selecting(Relisted(Done(w), cases), doing[w].case), settings)
               IN Put(w, Captioned([l EXCEPT !.chooser = MatterList(l, DOMAIN matters \cup {m})]))
      BY <2>4
    <3>2. PICK c, held : c = doing[w].case /\ held = cases
      OBVIOUS
    <3>3. PICK r : r = Relisted(done, held)
      OBVIOUS
    <3>4. SameBut(done, r, {"list", "active"}) /\ r.list \in Seq(held) /\ ListStands(r)
      BY <1>6, <3>3, RelistedDesk DEF SameBut
    <3>5. PICK s : s = Selecting(r, c)
      OBVIOUS
    <3>6. SameBut(r, s, {"active"}) /\ ListStands(s)
      BY <3>4, <3>5, SelectingDesk DEF SameBut
    <3>7. PICK l : l = Loaded(s, settings)
      OBVIOUS
    <3>8. SameBut(s, l, {"docket"})
      BY <3>6, <3>7, LoadedDesk DEF SameBut
    <3>9. PICK chooser : chooser = MatterList(l, DOMAIN matters \cup {m})
      OBVIOUS
    <3>10. PICK e : e = [l EXCEPT !.chooser = chooser]
      OBVIOUS
    <3>11. SameBut(l, e, {"chooser"})
      BY <3>8, <3>10 DEF IsDesk, DeskFields, SameBut
    <3>12. /\ e.list = r.list /\ e.active = s.active /\ s.list = r.list
           /\ e.acting = done.acting /\ e.label = done.label /\ e.at = done.at
           /\ e.forms = done.forms /\ e.pane = done.pane /\ e.screen = done.screen
      BY <3>4, <3>6, <3>8, <3>11 DEF SameBut, DeskFields
    <3>13. NamesUser(e, users)
      BY <1>6, <3>12 DEF WindowStands, NamesUser, FormsStand
    <3>14. e.at = "here" /\ e.screen = "Office" /\ ShowsCourt(e)
      BY <1>7, <2>2, <3>12 DEF ShowsCourt, NoDocketElsewhere
    <3>15. ListStands(e)
      BY <3>6, <3>12 DEF ListStands
    <3>16. PICK f : f = Captioned(e)
      OBVIOUS
    <3>17. WindowStands(f, held, users)
      BY <3>4, <3>11, <3>12, <3>13, <3>14, <3>15, <3>16, CaptionedWindow DEF SameBut
    <3>18. f.at = "here"
      BY <3>11, <3>14, <3>16, CaptionedDesk DEF SameBut, DeskFields
    <3>19. desk' = [desk EXCEPT ![w] = f]
      BY <1>1, <1>5, <3>1, <3>2, <3>3, <3>5, <3>7, <3>9, <3>10, <3>16 DEF Done
    <3>20. Held(f.at) = held
      BY <3>2, <3>18 DEF Held
    <3>21. QED
      BY <1>3, <2>1, <3>17, <3>19, <3>20
  <2>5. CASE Put(w, Done(w))
    BY <1>1, <1>5, <1>8, <2>1, <2>5 DEF Done
  <2>6. QED
    BY <1>14, <2>3, <2>4, <2>5 DEF OpenMatter
<1>15. CASE SettingForm(w)
  <2>1. PICK table : table = settings'
    OBVIOUS
  <2>2. d.running /\ d.screen = "Office"
    BY <1>1, <1>15, FormIsOpen DEF SettingForm
  <2>3. desk' = [desk EXCEPT ![w] = Loaded(done, table)] /\ UNCHANGED <<elsewhere, users>>
    BY <1>1, <1>5, <1>15, <2>1 DEF SettingForm, Done, OfTheOffice, Kept
  <2>4. QED
    BY <1>9, <2>2, <2>3
<1>16. CASE DeadlineForm(w)
  <2>1. d.running /\ d.screen = "Office"
    BY <1>1, <1>16, FormIsOpen DEF DeadlineForm
  <2>2. desk' = [desk EXCEPT ![w] = Loaded(done, settings)] /\ UNCHANGED <<elsewhere, users>>
    BY <1>1, <1>5, <1>16 DEF DeadlineForm, Done, Kept
  <2>3. QED
    BY <1>9, <2>1, <2>2
<1>17. CASE NoteForm(w)
  BY <1>1, <1>5, <1>8, <1>17 DEF NoteForm, Done, Kept
<1>18. QED
  BY <1>10, <1>11, <1>12, <1>13, <1>14, <1>15, <1>16, <1>17

LEMMA DeskInvariant == CalendarInv /\ DeskInv /\ [DeskNext]_deskVars => DeskInv'
<1> SUFFICES ASSUME CalendarInv, DeskInv, [DeskNext]_deskVars PROVE DeskInv'
  OBVIOUS
<1>1. cases \subseteq cases'
  BY CasesOnlyGrow
<1>2. ASSUME UNCHANGED <<desk, elsewhere, users>>
      PROVE  DeskInv'
  <2>1. ASSUME NEW w \in Windows
        PROVE  WindowStands(desk[w], Held(desk[w].at), users)'
    <3>1. PICK d : d = desk[w]
      OBVIOUS
    <3>2. WindowStands(d, Held(d.at), users)
      BY <3>1 DEF DeskInv
    <3>3. PICK more : more = Held(d.at)'
      OBVIOUS
    <3>4. Held(d.at) \subseteq more
      BY <1>1, <1>2, <3>3 DEF Held
    <3>5. WindowStands(d, more, users)
      BY <3>2, <3>4, MoreHeld
    <3>6. QED
      BY <1>2, <3>1, <3>3, <3>5
  <2>2. QED
    BY <1>2, <2>1 DEF DeskInv
<1>3. CASE UNCHANGED deskVars
  BY <1>2, <1>3 DEF deskVars
<1>4. ASSUME NEW w \in Windows, Other(w)
      PROVE  DeskInv'
  BY <1>2, <1>4 DEF Other, Kept
<1>5. ASSUME NEW w \in Windows, DeskStep(w)
      PROVE  DeskInv'
  BY <1>1, <1>5, StartEvent, ReadyEvents, FormEvents DEF DeskStep
<1>6. QED
  BY <1>3, <1>4, <1>5 DEF DeskNext

LEMMA DeskAlways == DeskSpec => []DeskInv
<1>1. DeskInit => DeskInv
  BY InitDeskInv
<1>2. QED
  BY <1>1, CalendarAlways, DeskInvariant, PTL DEF DeskSpec

\* update_title, refresh_case_combo, set_acting_user: whatever opened, imported
\* or switched last, in whichever database, what the window shows is what its
\* commands act on and whom they name.
THEOREM ShowsWhatItActsOnHolds == DeskSpec => []ShowsWhatItActsOn
<1>1. DeskInv => ShowsWhatItActsOn
  <2> SUFFICES ASSUME DeskInv PROVE ShownCaseIsActive /\ ActingIsShown
    BY DEF ShowsWhatItActsOn
  <2>1. \A w \in Windows : WindowStands(desk[w], Held(desk[w].at), users)
    BY DEF DeskInv
  <2>2. ASSUME NEW held, NEW list \in Seq(held) PROVE Range(list) \subseteq held
    BY DEF Range
  <2>3. ShownCaseIsActive
    BY <2>1, <2>2 DEF ShownCaseIsActive, WindowStands, ShowsCases, ListStands
  <2>4. ActingIsShown
    BY <2>1 DEF ActingIsShown, WindowStands, NamesUser
  <2>5. QED
    BY <2>3, <2>4
<1>2. QED
  BY <1>1, DeskAlways, PTL

\* court_detail: the detail box is about the row under the cursor, although forms
\* load the day again without painting it and another database may be opened.
THEOREM DetailIsOfTheRowHolds == DeskSpec => []DetailIsOfTheRow
<1>1. DeskInv => DetailIsOfTheRow
  BY DEF DeskInv, DetailIsOfTheRow, WindowStands, ShowsCourt
<1>2. QED
  BY <1>1, DeskAlways, PTL

----------------------------------------------------------------------------
(* The arithmetic of dates (CivilDate): days_from_epoch counts the days that *)
(* months of 28 to 31 days put between two dates, in eras of 400 years that  *)
(* begin in March, and from_days_since_epoch finds the one date with a       *)
(* count.  Ordinal counts the same days month by month.                      *)

\* A date of the calendar, in any year.
Dated(d) == d \in Int \X Int \X Int /\ IsDate(d)

\* The days of a year before a month, and before a year.
MonthStart(y, m) ==
  IF m <= 2 THEN 31 * (m - 1) ELSE (153 * (m - 3) + 2) \div 5 + 59 + (IF IsLeap(y) THEN 1 ELSE 0)
YearStart(y) == 365 * y + y \div 4 - y \div 100 + y \div 400

EarlierDays(y, m) == {x \in (1..12) \X (1..31) : x[1] < m /\ IsDate(<<y, x[1], x[2]>>)}

LEMMA MonthsLast ==
  ASSUME NEW y \in Int, NEW m \in 1 .. 12
  PROVE  /\ DaysInMonth(y, m) \in 28 .. 31 /\ MonthStart(y, m) \in 0 .. 335
         /\ m < 12 => MonthStart(y, m + 1) = MonthStart(y, m) + DaysInMonth(y, m)
         /\ MonthStart(y, 12) + 31 = 365 + (IF IsLeap(y) THEN 1 ELSE 0)
<1>1. /\ m = 1 \/ m = 2 \/ m = 3 \/ m = 4 \/ m = 5 \/ m = 6 \/ m = 7 \/ m = 8 \/ m = 9 \/ m = 10
         \/ m = 11 \/ m = 12
  OBVIOUS
<1>2. CASE IsLeap(y)
  BY <1>1, <1>2 DEF DaysInMonth, MonthStart
<1>3. CASE ~IsLeap(y)
  BY <1>1, <1>3 DEF DaysInMonth, MonthStart
<1>4. QED
  BY <1>2, <1>3

\* A month adds its days to those of the months before it.
LEMMA MonthAdds ==
  ASSUME NEW y \in Int, NEW m \in 1 .. 12
  PROVE  /\ IsFiniteSet(EarlierDays(y, m)) /\ Cardinality(EarlierDays(y, m)) \in Nat
         /\ Cardinality(EarlierDays(y, m + 1)) = Cardinality(EarlierDays(y, m)) + DaysInMonth(y, m)
<1> DEFINE month == {m} \X (1 .. DaysInMonth(y, m))
           year == (1 .. 12) \X (1 .. 31)
<1>1. DaysInMonth(y, m) \in 28 .. 31
  BY MonthsLast
<1>2. IsFiniteSet(EarlierDays(y, m))
  <2>1. IsFiniteSet(1 .. 12) /\ IsFiniteSet(1 .. 31)
    <3>1. \A k \in Nat : IsFiniteSet(1 .. k)
      BY FS_Interval
    <3>2. QED
      BY <3>1
  <2>2. IsFiniteSet(year)
    BY <2>1, FS_Product
  <2>3. EarlierDays(y, m) \subseteq year
    BY DEF EarlierDays
  <2>4. QED
    BY <2>2, <2>3, FS_Subset
<1>3. EarlierDays(y, m + 1) = EarlierDays(y, m) \cup month
  <2>1. ASSUME NEW x PROVE x \in EarlierDays(y, m + 1) <=> x \in EarlierDays(y, m) \/ x \in month
    <3>1. CASE x \in year
      <4>1. PICK a \in 1 .. 12, b \in 1 .. 31 : x = <<a, b>>
        BY <3>1
      <4>2. x \in EarlierDays(y, m) <=> a < m /\ b \in 1 .. DaysInMonth(y, a)
        BY <4>1 DEF EarlierDays, IsDate
      <4>3. x \in EarlierDays(y, m + 1) <=> a < m + 1 /\ b \in 1 .. DaysInMonth(y, a)
        BY <4>1 DEF EarlierDays, IsDate
      <4>4. x \in month <=> a = m /\ b \in 1 .. DaysInMonth(y, m)
        BY <4>1
      <4>5. a < m + 1 <=> a < m \/ a = m
        OBVIOUS
      <4>6. QED
        BY <4>2, <4>3, <4>4, <4>5
    <3>2. CASE x \notin year
      <4>1. x \notin month
        <5>1. \A b \in 1 .. DaysInMonth(y, m) : b \in 1 .. 31
          BY <1>1
        <5>2. QED
          BY <3>2, <5>1
      <4>2. QED
        BY <3>2, <4>1 DEF EarlierDays
    <3>3. QED
      BY <3>1, <3>2
  <2>2. QED
    BY <2>1
<1>4. EarlierDays(y, m) \cap month = {}
  BY DEF EarlierDays
<1>5. IsFiniteSet(month) /\ Cardinality(month) = DaysInMonth(y, m)
  <2>1. IsFiniteSet({m}) /\ Cardinality({m}) = 1
    BY FS_Singleton
  <2>2. IsFiniteSet(1 .. DaysInMonth(y, m)) /\ Cardinality(1 .. DaysInMonth(y, m)) = DaysInMonth(y, m)
    <3>1. \A k \in Nat \ {0} : IsFiniteSet(1 .. k) /\ Cardinality(1 .. k) = (k - 1) + 1
      BY FS_Interval
    <3>2. QED
      BY <1>1, <3>1
  <2>3. IsFiniteSet(month) /\ Cardinality(month) = 1 * DaysInMonth(y, m)
    BY <2>1, <2>2, FS_Product
  <2>4. QED
    BY <1>1, <2>3
<1>6. Cardinality(EarlierDays(y, m)) \in Nat
  BY <1>2, FS_CardinalityType
<1> HIDE DEF month
<1>7. Cardinality(EarlierDays(y, m) \cup month)
        = Cardinality(EarlierDays(y, m)) + Cardinality(month) - Cardinality(EarlierDays(y, m) \cap month)
  BY <1>2, <1>5, FS_Union
<1>8. Cardinality({}) = 0
  BY FS_EmptySet
<1>9. QED
  BY <1>1, <1>2, <1>3, <1>4, <1>5, <1>6, <1>7, <1>8

LEMMA DaysBeforeMonth ==
  ASSUME NEW y \in Int, NEW m \in 1 .. 12
  PROVE  Cardinality(EarlierDays(y, m)) = MonthStart(y, m)
<1> DEFINE Holds(k) == Cardinality(EarlierDays(y, k)) = MonthStart(y, k)
<1>1. Holds(1)
  <2>1. EarlierDays(y, 1) = {}
    BY DEF EarlierDays
  <2>2. QED
    BY <2>1, FS_EmptySet DEF MonthStart
<1>2. ASSUME NEW k \in 1 .. 11, Holds(k) PROVE Holds(k + 1)
  <2>1. k \in 1 .. 12 /\ k < 12
    OBVIOUS
  <2>2. MonthStart(y, k + 1) = MonthStart(y, k) + DaysInMonth(y, k)
    BY <2>1, MonthsLast
  <2>3. Cardinality(EarlierDays(y, k + 1)) = Cardinality(EarlierDays(y, k)) + DaysInMonth(y, k)
    BY <2>1, MonthAdds
  <2>4. QED
    BY <1>2, <2>2, <2>3
<1> HIDE DEF Holds
<1>3. Holds(2) /\ Holds(3) /\ Holds(4) /\ Holds(5) /\ Holds(6) /\ Holds(7)
  <2>1. Holds(2)
    BY <1>1, <1>2, 1 + 1 = 2
  <2>2. Holds(3)
    BY <1>2, <2>1, 2 + 1 = 3
  <2>3. Holds(4)
    BY <1>2, <2>2, 3 + 1 = 4
  <2>4. Holds(5)
    BY <1>2, <2>3, 4 + 1 = 5
  <2>5. Holds(6)
    BY <1>2, <2>4, 5 + 1 = 6
  <2>6. Holds(7)
    BY <1>2, <2>5, 6 + 1 = 7
  <2>7. QED
    BY <2>1, <2>2, <2>3, <2>4, <2>5, <2>6
<1>4. Holds(8) /\ Holds(9) /\ Holds(10) /\ Holds(11) /\ Holds(12)
  <2>1. Holds(8)
    BY <1>2, <1>3, 7 + 1 = 8
  <2>2. Holds(9)
    BY <1>2, <2>1, 8 + 1 = 9
  <2>3. Holds(10)
    BY <1>2, <2>2, 9 + 1 = 10
  <2>4. Holds(11)
    BY <1>2, <2>3, 10 + 1 = 11
  <2>5. Holds(12)
    BY <1>2, <2>4, 11 + 1 = 12
  <2>6. QED
    BY <2>1, <2>2, <2>3, <2>4, <2>5
<1>5. m = 1 \/ m = 2 \/ m = 3 \/ m = 4 \/ m = 5 \/ m = 6 \/ m = 7 \/ m = 8 \/ m = 9 \/ m = 10
      \/ m = 11 \/ m = 12
  OBVIOUS
<1>6. QED
  BY <1>1, <1>3, <1>4, <1>5 DEF Holds

LEMMA ErasRoundDown ==
  ASSUME NEW n \in Int
  PROVE  EraOf(n, 400) = n \div 400 /\ EraOf(n, DaysPerEra) = n \div 146097
BY DEF EraOf, Quotient, DaysPerEra

\* A year has 365 days, or 366.
LEMMA LeapYear ==
  ASSUME NEW y \in Int
  PROVE  YearStart(y) = YearStart(y - 1) + 365 + (IF IsLeap(y) THEN 1 ELSE 0)
<1>1. y \div 4 = (y - 1) \div 4 + (IF y % 4 = 0 THEN 1 ELSE 0)
  OBVIOUS
<1>2. y \div 100 = (y - 1) \div 100 + (IF y % 100 = 0 THEN 1 ELSE 0)
  OBVIOUS
<1>3. y \div 400 = (y - 1) \div 400 + (IF y % 400 = 0 THEN 1 ELSE 0)
  OBVIOUS
<1>4. (y % 400 = 0 => y % 100 = 0) /\ (y % 100 = 0 => y % 4 = 0)
  OBVIOUS
<1>5. /\ y \div 4 \in Int /\ y \div 100 \in Int /\ y \div 400 \in Int
      /\ (y - 1) \div 4 \in Int /\ (y - 1) \div 100 \in Int /\ (y - 1) \div 400 \in Int
  OBVIOUS
<1>6. QED
  BY <1>1, <1>2, <1>3, <1>4, <1>5 DEF YearStart, IsLeap

\* A year of an era, and the days of the eras before it.
InEra(y, e, r) == e \in Int /\ r \in 0 .. 399 /\ y = 400 * e + r

LEMMA YearOfEra ==
  ASSUME NEW y, NEW e, NEW r, InEra(y, e, r)
  PROVE  YearStart(y) = 146097 * e + 365 * r + r \div 4 - r \div 100
<1>0. e \in Int /\ r \in 0 .. 399 /\ y = 400 * e + r
  BY DEF InEra
<1>1. y \div 4 = 100 * e + r \div 4
  BY <1>0
<1>2. y \div 100 = 4 * e + r \div 100
  BY <1>0
<1>3. y \div 400 = e
  BY <1>0
<1>4. r \div 4 \in Int /\ r \div 100 \in Int
  BY <1>0
<1>5. QED
  BY <1>0, <1>1, <1>2, <1>3, <1>4 DEF YearStart

\* days_from_epoch counts years and months.
LEMMA EpochCounts ==
  ASSUME NEW y \in Int, NEW m \in 1 .. 12, NEW k \in Int
  PROVE  DaysFromEpoch(<<y, m, k>>) = YearStart(y - 1) + MonthStart(y, m) + k - 719163
<1> DEFINE year == IF m <= 2 THEN y - 1 ELSE y
           e == year \div 400
           r == year - 400 * e
           month == m + (IF m > 2 THEN -3 ELSE 9)
<1>1. year \in Int /\ e \in Int /\ r \in 0 .. 399 /\ year = 400 * e + r
  OBVIOUS
<1>2. EraOf(year, 400) = e
  BY <1>1, ErasRoundDown
<1>3. DaysFromEpoch(<<y, m, k>>)
        = e * 146097 + (r * 365 + r \div 4 - r \div 100 + ((153 * month + 2) \div 5 + k - 1)) - 719468
  <2>1. year - e * 400 = r
    BY <1>1
  <2> HIDE DEF e, r
  <2>2. QED
    BY <1>2, <2>1 DEF DaysFromEpoch, DayOfEra, DaysPerEra, DaysFromEpochToMarch
<1>4. YearStart(year) = 146097 * e + 365 * r + r \div 4 - r \div 100
  <2> HIDE DEF e, r, year
  <2>1. InEra(year, e, r)
    BY <1>1 DEF InEra
  <2>2. QED
    BY <2>1, YearOfEra
<1>5. YearStart(year) \in Int /\ r \div 4 \in Int /\ r \div 100 \in Int
  <2> HIDE DEF e, r, year
  <2>1. QED
    BY <1>1, <1>4
<1>6. YearStart(y) \in Int /\ YearStart(y - 1) \in Int
  BY DEF YearStart
<1>7. IF m <= 2 THEN (153 * month + 2) \div 5 = MonthStart(y, m) + 306
      ELSE MonthStart(y, m) = (153 * month + 2) \div 5 + 59 + (IF IsLeap(y) THEN 1 ELSE 0)
  <2>1. m <= 2 => m = 1 \/ m = 2
    OBVIOUS
  <2>2. m > 2 => m + (-3) = m - 3
    OBVIOUS
  <2>3. QED
    BY <2>1, <2>2 DEF MonthStart
<1>8. MonthStart(y, m) \in Int
  <2>1. MonthStart(y, m) \in 0 .. 335
    BY MonthsLast
  <2>2. QED
    BY <2>1
<1>9. YearStart(y) = YearStart(y - 1) + 365 + (IF IsLeap(y) THEN 1 ELSE 0)
  BY LeapYear
<1>10. (153 * month + 2) \div 5 \in Int
  OBVIOUS
<1> DEFINE past == (153 * month + 2) \div 5
<1>11. DaysFromEpoch(<<y, m, k>>) = YearStart(year) + past + k - 719469 /\ past \in Int
  <2> HIDE DEF e, r, year, month
  <2>1. QED
    BY <1>1, <1>3, <1>4, <1>5, <1>10
<1>12. IF m <= 2 THEN past = MonthStart(y, m) + 306
       ELSE MonthStart(y, m) = past + 59 + (IF IsLeap(y) THEN 1 ELSE 0)
  BY <1>7
<1> HIDE DEF past
<1>13. QED
  BY <1>6, <1>8, <1>9, <1>11, <1>12

\* So does Ordinal, and 719163 days separate the two.
LEMMA OrdinalCounts ==
  ASSUME NEW y \in Int, NEW m \in 1 .. 12, NEW k \in Int
  PROVE  /\ Ordinal(<<y, m, k>>) = YearStart(y - 1) + MonthStart(y, m) + k
         /\ Ordinal(<<y, m, k>>) \in Int
         /\ DaysFromEpoch(<<y, m, k>>) = Ordinal(<<y, m, k>>) - 719163
<1>1. Cardinality(EarlierDays(y, m)) = MonthStart(y, m) /\ MonthStart(y, m) \in Int
  <2>1. MonthStart(y, m) \in 0 .. 335
    BY MonthsLast
  <2>2. QED
    BY <2>1, DaysBeforeMonth
<1>2. Ordinal(<<y, m, k>>)
        = 365 * (y - 1) + (y - 1) \div 4 - (y - 1) \div 100 + (y - 1) \div 400
            + Cardinality(EarlierDays(y, m)) + k
  BY DEF Ordinal, EarlierDays
<1>3. YearStart(y - 1) = 365 * (y - 1) + (y - 1) \div 4 - (y - 1) \div 100 + (y - 1) \div 400
      /\ YearStart(y - 1) \in Int
  BY DEF YearStart
<1>4. QED
  BY <1>1, <1>2, <1>3, EpochCounts

LEMMA DivideAgain ==
  ASSUME NEW n \in Int, NEW k \in Int
  PROVE  /\ 365 * k <= n /\ n < 365 * k + 365 => n \div 365 = k
         /\ 1460 * k <= n /\ n < 1460 * k + 1460 => n \div 1460 = k
         /\ 1461 * k <= n /\ n < 1461 * k + 1461 => n \div 1461 = k
         /\ 36524 * k <= n /\ n < 36524 * k + 36524 => n \div 36524 = k
         /\ 4 * k <= n /\ n < 4 * k + 4 => n \div 4 = k
         /\ 100 * k <= n /\ n < 100 * k + 100 => n \div 100 = k
OBVIOUS

\* A year of an era that starts in March, and one of its days.
LiesIn(year, t) ==
  /\ year \in Int /\ 0 <= year /\ year < 400 /\ t \in Int /\ 0 <= t /\ t <= 365
  /\ t = 365 => (year + 1) % 4 = 0 /\ ((year + 1) % 100 # 0 \/ year + 1 = 400)

\* from_days_since_epoch: the year of an era in which a day of it lies, and the
\* day of that year.
LEMMA YearOfDay ==
  ASSUME NEW day \in Int, 0 <= day, day < 146097
  PROVE  \E year \in Int, t \in Int :
           YearInEra(day) = year /\ DayInYear(day, year) = t /\ LiesIn(year, t)
<1>1. \E c \in 0 .. 3, a \in Int :
        day = 36524 * c + a /\ 0 <= a /\ a <= 36524 /\ (a = 36524 => c = 3)
  <2>1. CASE day = 146096
    <3>1. 3 \in 0 .. 3 /\ 36524 \in Int /\ day = 36524 * 3 + 36524
      BY <2>1
    <3>2. QED
      BY <3>1
  <2>2. CASE day # 146096
    <3>1. PICK k \in Int : k = day \div 36524
      OBVIOUS
    <3>2. k \in 0 .. 3 /\ 36524 * k <= day /\ day < 36524 * k + 36524
      BY <2>2, <3>1
    <3>3. day - 36524 * k \in Int /\ day = 36524 * k + (day - 36524 * k)
      OBVIOUS
    <3>4. QED
      BY <3>2, <3>3
  <2>3. QED
    BY <2>1, <2>2
<1>2. PICK c \in 0 .. 3, a \in Int :
        day = 36524 * c + a /\ 0 <= a /\ a <= 36524 /\ (a = 36524 => c = 3)
  BY <1>1
<1>3. \E last \in 0 .. 1 : day \div 36524 = c + last /\ day \div 146096 = last
  <2>1. CASE day = 146096
    BY <1>2, <2>1
  <2>2. CASE day # 146096
    <3>1. a < 36524
      BY <1>2, <2>2
    <3>2. day \div 36524 = c
      BY <1>2, <3>1, DivideAgain
    <3>3. day \div 146096 = 0
      BY <2>2
    <3>4. QED
      BY <3>2, <3>3
  <2>3. QED
    BY <2>1, <2>2
<1>4. PICK last \in 0 .. 1 : day \div 36524 = c + last /\ day \div 146096 = last
  BY <1>3
<1>5. \E q \in 0 .. 24, b \in Int : a = 1461 * q + b /\ 0 <= b /\ b <= 1460
  <2>1. PICK k \in Int : k = a \div 1461
    OBVIOUS
  <2>2. k \in 0 .. 24 /\ 1461 * k <= a /\ a < 1461 * k + 1461
    BY <1>2, <2>1
  <2>3. a - 1461 * k \in Int /\ a = 1461 * k + (a - 1461 * k)
    OBVIOUS
  <2>4. QED
    BY <2>2, <2>3
<1>6. PICK q \in 0 .. 24, b \in Int : a = 1461 * q + b /\ 0 <= b /\ b <= 1460
  BY <1>5
<1>7. \E s \in 0 .. 3, u \in Int : b = 365 * s + u /\ 0 <= u /\ u <= 365 /\ (u = 365 => s = 3 /\ b = 1460)
  <2>1. CASE b = 1460
    <3>1. 3 \in 0 .. 3 /\ 365 \in Int /\ b = 365 * 3 + 365
      BY <2>1
    <3>2. QED
      BY <2>1, <3>1
  <2>2. CASE b # 1460
    <3>1. PICK k \in Int : k = b \div 365
      OBVIOUS
    <3>2. k \in 0 .. 3 /\ 365 * k <= b /\ b < 365 * k + 365
      BY <1>6, <2>2, <3>1
    <3>3. b - 365 * k \in Int /\ b = 365 * k + (b - 365 * k) /\ b - 365 * k # 365
      BY <3>2
    <3>4. QED
      BY <3>2, <3>3
  <2>3. QED
    BY <2>1, <2>2
<1>8. PICK s \in 0 .. 3, u \in Int : b = 365 * s + u /\ 0 <= u /\ u <= 365 /\ (u = 365 => s = 3 /\ b = 1460)
  BY <1>7
<1>9. \E x \in 0 .. 1 : day \div 1460 = 25 * c + q + x /\ 0 <= u - x /\ u - x < 365
  <2>1. CASE 24 * c + q + b >= 1460
    <3>1. day \div 1460 = 25 * c + q + 1
      <4>1. 1460 * (25 * c + q + 1) <= day /\ day < 1460 * (25 * c + q + 1) + 1460
        BY <1>2, <1>6, <2>1
      <4>2. 25 * c + q + 1 \in Int /\ day \in Int
        OBVIOUS
      <4>3. QED
        BY <4>1, <4>2, DivideAgain
    <3>2. 0 <= u - 1 /\ u - 1 < 365
      BY <1>8, <2>1
    <3>3. QED
      BY <3>1, <3>2
  <2>2. CASE 24 * c + q + b < 1460
    <3>1. day \div 1460 = 25 * c + q + 0
      <4>1. 1460 * (25 * c + q + 0) <= day /\ day < 1460 * (25 * c + q + 0) + 1460
        BY <1>2, <1>6, <2>2
      <4>2. 25 * c + q + 0 \in Int /\ day \in Int
        OBVIOUS
      <4>3. QED
        BY <4>1, <4>2, DivideAgain
    <3>2. 0 <= u - 0 /\ u - 0 < 365
      BY <1>8, <2>2
    <3>3. QED
      BY <3>1, <3>2
  <2>3. QED
    BY <2>1, <2>2
<1>10. PICK x \in 0 .. 1 : day \div 1460 = 25 * c + q + x /\ 0 <= u - x /\ u - x < 365
  BY <1>9
<1>11. PICK r \in Int : r = 100 * c + 4 * q + s /\ 0 <= r /\ r < 400
  OBVIOUS
<1>12. day - day \div 1460 + day \div 36524 - day \div 146096 = 365 * r + (u - x)
  BY <1>2, <1>4, <1>6, <1>8, <1>10, <1>11
<1>13. (365 * r + (u - x)) \div 365 = r
  <2>1. 365 * r <= 365 * r + (u - x) /\ 365 * r + (u - x) < 365 * r + 365 /\ 365 * r + (u - x) \in Int /\ r \in Int
    BY <1>10
  <2>2. QED
    BY <2>1, DivideAgain
<1>14. r \div 4 = 25 * c + q /\ r \div 100 = c
  <2>1. 4 * (25 * c + q) <= r /\ r < 4 * (25 * c + q) + 4 /\ r \in Int /\ 25 * c + q \in Int
    BY <1>11
  <2>2. 100 * c <= r /\ r < 100 * c + 100 /\ c \in Int
    BY <1>11
  <2>3. r \div 4 = 25 * c + q
    BY <2>1, DivideAgain
  <2>4. r \div 100 = c
    BY <2>1, <2>2, DivideAgain
  <2>5. QED
    BY <2>3, <2>4
<1>15. day - (365 * r + r \div 4 - r \div 100) = u
  BY <1>2, <1>6, <1>8, <1>11, <1>14
<1>16. u = 365 => (r + 1) % 4 = 0 /\ ((r + 1) % 100 # 0 \/ r + 1 = 400)
  <2> SUFFICES ASSUME u = 365 PROVE (r + 1) % 4 = 0 /\ ((r + 1) % 100 # 0 \/ r + 1 = 400)
    OBVIOUS
  <2>1. r + 1 = 100 * c + 4 * (q + 1) /\ b = 1460
    BY <1>8, <1>11
  <2>2. q = 24 => c = 3
    BY <1>2, <1>6, <2>1
  <2>3. (r + 1) % 4 = 0
    BY <2>1
  <2>4. CASE q = 24
    BY <2>1, <2>2, <2>3, <2>4
  <2>5. CASE q # 24
    <3>1. 4 <= 4 * (q + 1) /\ 4 * (q + 1) <= 96
      BY <2>5
    <3>2. (r + 1) % 100 = 4 * (q + 1)
      BY <2>1, <3>1
    <3>3. QED
      BY <2>3, <3>1, <3>2
  <2>6. QED
    BY <2>4, <2>5
<1>17. YearInEra(day) = r /\ DayInYear(day, r) = u
  <2>1. YearInEra(day) = r
    BY <1>12, <1>13 DEF YearInEra
  <2>2. DayInYear(day, r) = u
    BY <1>15 DEF DayInYear
  <2>3. QED
    BY <2>1, <2>2
<1>18. LiesIn(r, u)
  BY <1>8, <1>11, <1>16 DEF LiesIn
<1>19. QED
  BY <1>17, <1>18

\* The month, counted from March, in which a day of such a year lies.
LEMMA MonthOfDay ==
  ASSUME NEW t \in Int, 0 <= t, t <= 365
  PROVE  \E month \in 0 .. 11, past \in Int :
           /\ MonthInYear(t) = month /\ (153 * month + 2) \div 5 = past
           /\ 0 <= t - past /\ t - past <= 30
           /\ month \in {1, 3, 6, 8} => t - past <= 29
           /\ month = 11 => t - past <= 27 \/ (t - past = 28 /\ t = 365)
<1>1. PICK month \in Int : month = (5 * t + 2) \div 153
  OBVIOUS
<1>2. 153 * month <= 5 * t + 2 /\ 5 * t + 2 < 153 * month + 153
  BY <1>1
<1>3. month \in 0 .. 11
  BY <1>2
<1>4. PICK past \in Int : past = (153 * month + 2) \div 5
  OBVIOUS
<1>5. 5 * past <= 153 * month + 2 /\ 153 * month + 2 < 5 * past + 5
  BY <1>4
<1>6. /\ 0 <= t - past /\ t - past <= 30
      /\ month \in {1, 3, 6, 8} => t - past <= 29
      /\ month = 11 => t - past <= 27 \/ (t - past = 28 /\ t = 365)
  <2>1. month = 0 \/ month = 1 \/ month = 2 \/ month = 3 \/ month = 4 \/ month = 5
        \/ month = 6 \/ month = 7 \/ month = 8 \/ month = 9 \/ month = 10 \/ month = 11
    BY <1>3
  <2>2. QED
    BY <1>2, <1>5, <2>1
<1>7. MonthInYear(t) = month
  BY <1>1 DEF MonthInYear
<1>8. QED
  BY <1>3, <1>4, <1>6, <1>7

\* The months of a year that starts in March are those of the calendar.
LEMMA MarchMonth ==
  ASSUME NEW month \in 0 .. 11, NEW y \in Int
  PROVE  \E civil \in 1 .. 12 :
           /\ civil = (IF month < 10 THEN month + 3 ELSE month - 9) /\ (civil <= 2 <=> month >= 10)
           /\ (civil = 2 <=> month = 11)
           /\ civil \in {4, 6, 9, 11} <=> month \in {1, 3, 6, 8}
           /\ MonthStart(y, civil) =
                IF civil <= 2 THEN (153 * month + 2) \div 5 - 306
                ELSE (153 * month + 2) \div 5 + 59 + (IF IsLeap(y) THEN 1 ELSE 0)
<1>1. month = 0 \/ month = 1 \/ month = 2 \/ month = 3 \/ month = 4 \/ month = 5
      \/ month = 6 \/ month = 7 \/ month = 8 \/ month = 9 \/ month = 10 \/ month = 11
  OBVIOUS
<1>2. PICK civil \in 1 .. 12 : civil = (IF month < 10 THEN month + 3 ELSE month - 9)
  BY <1>1
<1>3. /\ civil <= 2 <=> month >= 10
      /\ (civil = 2 <=> month = 11)
      /\ civil \in {4, 6, 9, 11} <=> month \in {1, 3, 6, 8}
  BY <1>1, <1>2
<1>4. MonthStart(y, civil) =
        IF civil <= 2 THEN (153 * month + 2) \div 5 - 306
        ELSE (153 * month + 2) \div 5 + 59 + (IF IsLeap(y) THEN 1 ELSE 0)
  <2>1. CASE month < 10
    <3>1. civil = month + 3 /\ ~(civil <= 2) /\ civil - 3 = month
      BY <1>2, <2>1
    <3>2. QED
      BY <3>1 DEF MonthStart
  <2>2. CASE ~(month < 10)
    <3>1. (month = 10 /\ civil = 1) \/ (month = 11 /\ civil = 2)
      BY <1>1, <1>2, <2>2
    <3>2. QED
      BY <3>1 DEF MonthStart
  <2>3. QED
    BY <2>1, <2>2
<1>5. QED
  BY <1>2, <1>3, <1>4

\* from_days_since_epoch returns the date that days_from_epoch counts back.
LEMMA DayHasDate ==
  ASSUME NEW n \in Int
  PROVE  \E y \in Int, m \in 1 .. 12, k \in 1 .. 31 :
           /\ FromDaysSinceEpoch(n) = <<y, m, k>> /\ k <= DaysInMonth(y, m)
           /\ DaysFromEpoch(<<y, m, k>>) = n
<1>1. PICK shifted \in Int : shifted = n + 719468
  OBVIOUS
<1>2. PICK e \in Int : e = shifted \div 146097
  OBVIOUS
<1>3. PICK day \in Int : day = shifted - e * 146097 /\ 0 <= day /\ day < 146097
  BY <1>2
<1>4. EraOf(shifted, DaysPerEra) = e
  BY <1>2, ErasRoundDown
<1>5. PICK year \in Int, t \in Int :
        YearInEra(day) = year /\ DayInYear(day, year) = t /\ LiesIn(year, t)
  BY <1>3, YearOfDay
<1>5a. 0 <= year /\ year < 400 /\ 0 <= t /\ t <= 365
  BY <1>5 DEF LiesIn
<1>6. PICK month \in 0 .. 11, past \in Int :
        /\ MonthInYear(t) = month /\ (153 * month + 2) \div 5 = past
        /\ 0 <= t - past /\ t - past <= 30
        /\ month \in {1, 3, 6, 8} => t - past <= 29
        /\ month = 11 => t - past <= 27 \/ (t - past = 28 /\ t = 365)
  BY <1>5a, MonthOfDay
<1>7. PICK civil \in 1 .. 12 : civil = (IF month < 10 THEN month + 3 ELSE month - 9)
  BY MarchMonth
<1>8. PICK y \in Int : y = year + e * 400 + (IF civil <= 2 THEN 1 ELSE 0)
  OBVIOUS
<1>9. PICK k \in 1 .. 31 : k = t - past + 1
  BY <1>6
<1>10. FromDaysSinceEpoch(n) = <<y, civil, k>>
  <2>1. n + DaysFromEpochToMarch = shifted /\ shifted - e * DaysPerEra = day
    BY <1>1, <1>3 DEF DaysFromEpochToMarch, DaysPerEra
  <2>2. QED
    BY <1>4, <1>5, <1>6, <1>7, <1>8, <1>9, <2>1 DEF FromDaysSinceEpoch
<1>11. /\ (civil <= 2 <=> month >= 10)
       /\ (civil = 2 <=> month = 11)
       /\ civil \in {4, 6, 9, 11} <=> month \in {1, 3, 6, 8}
       /\ MonthStart(y, civil) =
            IF civil <= 2 THEN past - 306 ELSE past + 59 + (IF IsLeap(y) THEN 1 ELSE 0)
  BY <1>6, <1>7, MarchMonth
<1>12. k <= DaysInMonth(y, civil)
  <2>1. CASE civil = 2 /\ k = 29
    <3>1. t = 365
      BY <1>6, <1>9, <1>11, <2>1
    <3>2. (year + 1) % 4 = 0 /\ ((year + 1) % 100 # 0 \/ year + 1 = 400)
      BY <1>5, <3>1 DEF LiesIn
    <3>3. y = (year + 1) + 400 * e
      BY <1>8, <2>1
    <3>4. y % 4 = 0 /\ (y % 100 # 0 \/ y % 400 = 0)
      <4>1. y % 4 = (year + 1) % 4
        BY <3>3
      <4>2. y % 100 = (year + 1) % 100
        BY <3>3
      <4>3. year + 1 = 400 => y % 400 = 0
        BY <3>3
      <4>4. QED
        BY <3>2, <4>1, <4>2, <4>3
    <3>5. IsLeap(y)
      BY <3>4 DEF IsLeap
    <3>6. QED
      BY <2>1, <3>5 DEF DaysInMonth
  <2>2. CASE civil = 2 /\ k # 29
    <3>1. k <= 28
      BY <1>6, <1>9, <1>11, <2>2
    <3>2. DaysInMonth(y, civil) = 28 \/ DaysInMonth(y, civil) = 29
      BY <2>2 DEF DaysInMonth
    <3>3. QED
      BY <3>1, <3>2
  <2>3. CASE civil \in {4, 6, 9, 11}
    <3>1. k <= 30
      BY <1>6, <1>9, <1>11, <2>3
    <3>2. QED
      BY <2>3, <3>1 DEF DaysInMonth
  <2>4. CASE civil # 2 /\ civil \notin {4, 6, 9, 11}
    BY <2>4 DEF DaysInMonth
  <2>5. QED
    BY <2>1, <2>2, <2>3, <2>4
<1>13. DaysFromEpoch(<<y, civil, k>>) = n
  <2>1. PICK march \in Int : march = year + e * 400
    OBVIOUS
  <2>2. YearStart(march) = 146097 * e + 365 * year + year \div 4 - year \div 100
    <3>1. InEra(march, e, year)
      BY <1>5a, <2>1 DEF InEra
    <3>2. QED
      BY <3>1, YearOfEra
  <2>3. YearStart(march) = 146097 * e + day - t /\ YearStart(march) \in Int
    <3>1. year \div 4 \in Int /\ year \div 100 \in Int
      OBVIOUS
    <3>2. day - (365 * year + year \div 4 - year \div 100) = t
      BY <1>5 DEF DayInYear
    <3>3. QED
      BY <2>2, <3>1, <3>2
  <2>4. DaysFromEpoch(<<y, civil, k>>) = YearStart(y - 1) + MonthStart(y, civil) + k - 719163
    BY EpochCounts
  <2>5. CASE civil <= 2
    <3>1. y - 1 = march
      BY <1>8, <2>1, <2>5
    <3>2. DaysFromEpoch(<<y, civil, k>>) = (146097 * e + day - t) + (past - 306) + (t - past + 1) - 719163
      BY <1>9, <1>11, <2>3, <2>4, <2>5, <3>1
    <3>3. QED
      BY <1>1, <1>3, <3>2
  <2>6. CASE ~(civil <= 2)
    <3>1. y = march
      BY <1>8, <2>1, <2>6
    <3>2. PICK leap \in 0 .. 1 : leap = (IF IsLeap(y) THEN 1 ELSE 0)
      OBVIOUS
    <3>3. YearStart(y) = YearStart(y - 1) + 365 + leap /\ YearStart(y - 1) \in Int
      <4>1. YearStart(y - 1) \in Int
        BY DEF YearStart
      <4>2. QED
        BY <3>2, <4>1, LeapYear
    <3>4. YearStart(y - 1) = (146097 * e + day - t) - 365 - leap
      BY <2>3, <3>1, <3>3
    <3>5. MonthStart(y, civil) = past + 59 + leap
      BY <1>11, <2>6, <3>2
    <3>6. DaysFromEpoch(<<y, civil, k>>)
            = ((146097 * e + day - t) - 365 - leap) + (past + 59 + leap) + (t - past + 1) - 719163
      BY <1>9, <2>4, <3>4, <3>5
    <3>7. QED
      BY <1>1, <1>3, <3>6
  <2>7. QED
    BY <2>5, <2>6
<1>14. QED
  BY <1>10, <1>12, <1>13

LEMMA DatedParts ==
  ASSUME NEW d, Dated(d)
  PROVE  \E y \in Int, m \in 1 .. 12, k \in 1 .. 31 : d = <<y, m, k>> /\ k <= DaysInMonth(y, m)
<1>1. d = <<d[1], d[2], d[3]>> /\ d[1] \in Int /\ d[2] \in 1 .. 12 /\ d[3] \in 1 .. DaysInMonth(d[1], d[2])
  BY DEF Dated, IsDate
<1>2. DaysInMonth(d[1], d[2]) \in 28 .. 31
  BY <1>1, MonthsLast
<1>3. d[3] \in 1 .. 31 /\ d[3] <= DaysInMonth(d[1], d[2])
  BY <1>1, <1>2
<1>4. QED
  BY <1>1, <1>3

LEMMA OrdinalMeasures ==
  ASSUME NEW d, Dated(d)
  PROVE  Ordinal(d) \in Int /\ DaysFromEpoch(d) = Ordinal(d) - 719163
<1>1. PICK y \in Int, m \in 1 .. 12, k \in 1 .. 31 : d = <<y, m, k>> /\ k <= DaysInMonth(y, m)
  BY DatedParts
<1>2. k \in Int
  OBVIOUS
<1>3. QED
  BY <1>1, <1>2, OrdinalCounts

LEMMA DaysAreCounted ==
  ASSUME NEW a, Dated(a), NEW b, Dated(b)
  PROVE  DaysUntil(a, b) = Ordinal(b) - Ordinal(a)
<1>1. /\ Ordinal(a) \in Int /\ DaysFromEpoch(a) = Ordinal(a) - 719163
      /\ Ordinal(b) \in Int /\ DaysFromEpoch(b) = Ordinal(b) - 719163
  BY OrdinalMeasures
<1>2. QED
  BY <1>1 DEF DaysUntil

LEMMA DaysAreAdded ==
  ASSUME NEW d, Dated(d), NEW k \in Int
  PROVE  Dated(AddDays(d, k)) /\ Ordinal(AddDays(d, k)) = Ordinal(d) + k
<1>1. Ordinal(d) \in Int /\ DaysFromEpoch(d) = Ordinal(d) - 719163
  BY OrdinalMeasures
<1>2. PICK n \in Int : n = DaysFromEpoch(d) + k
  BY <1>1
<1>3. PICK y \in Int, m \in 1 .. 12, j \in 1 .. 31 :
        FromDaysSinceEpoch(n) = <<y, m, j>> /\ j <= DaysInMonth(y, m) /\ DaysFromEpoch(<<y, m, j>>) = n
  BY DayHasDate
<1>4. Dated(<<y, m, j>>)
  <2>1. DaysInMonth(y, m) \in 28 .. 31
    BY MonthsLast
  <2>2. m \in Int /\ j \in Int /\ j \in 1 .. DaysInMonth(y, m)
    BY <1>3, <2>1
  <2>3. QED
    BY <2>2 DEF Dated, IsDate
<1>5. AddDays(d, k) = <<y, m, j>>
  BY <1>2, <1>3 DEF AddDays
<1>6. Ordinal(<<y, m, j>>) \in Int /\ DaysFromEpoch(<<y, m, j>>) = Ordinal(<<y, m, j>>) - 719163
  BY <1>4, OrdinalMeasures
<1>7. QED
  BY <1>1, <1>2, <1>3, <1>4, <1>5, <1>6

\* Rust's remainder of a negative count is negative; eleven make it positive.
LEMMA WeekdayCounts ==
  ASSUME NEW d, Dated(d)
  PROVE  Weekday(d) = Ordinal(d) % 7
<1>1. PICK o \in Int : o = Ordinal(d) /\ DaysFromEpoch(d) = o - 719163
  BY OrdinalMeasures
<1>2. PICK n \in Int : n = o - 719163
  OBVIOUS
<1>3. PICK r \in Int : r = Remainder(n, 7)
  BY DEF Remainder, Quotient
<1>4. r \in -6 .. 6 /\ r % 7 = n % 7
  BY <1>3 DEF Remainder, Quotient
<1>5. Remainder(r + 11, 7) = (r + 11) % 7
  BY <1>4 DEF Remainder, Quotient
<1>6. (r + 11) % 7 = o % 7
  <2>1. (r + 11) % 7 = (n + 11) % 7
    BY <1>4
  <2>2. n + 11 = o + 7 * (-102736)
    BY <1>2
  <2>3. QED
    BY <2>1, <2>2
<1>7. QED
  BY <1>1, <1>2, <1>3, <1>5, <1>6 DEF Weekday

LEMMA WeeksBeginOnMonday ==
  ASSUME NEW d, Dated(d)
  PROVE  /\ Dated(WeekStart(d)) /\ Ordinal(WeekStart(d)) % 7 = 1
         /\ Ordinal(WeekStart(d)) <= Ordinal(d) /\ Ordinal(d) <= Ordinal(WeekStart(d)) + 6
         /\ Dated(WeekEnd(d)) /\ Ordinal(WeekEnd(d)) = Ordinal(WeekStart(d)) + 6
<1>1. PICK o \in Int : o = Ordinal(d)
  BY OrdinalMeasures
<1>2. Weekday(d) = o % 7
  BY <1>1, WeekdayCounts
<1>3. PICK k \in 0 .. 6 : k = DaysSinceMonday(d) /\ (o - k) % 7 = 1
  <2>1. CASE o % 7 = 0
    BY <1>2, <2>1 DEF DaysSinceMonday
  <2>2. CASE o % 7 # 0
    <3>1. DaysSinceMonday(d) = (o % 7) - 1
      BY <1>2, <2>2 DEF DaysSinceMonday
    <3>2. (o % 7) - 1 \in 0 .. 6 /\ (o - ((o % 7) - 1)) % 7 = 1
      BY <2>2
    <3>3. QED
      BY <3>1, <3>2
  <2>3. QED
    BY <2>1, <2>2
<1>4. Dated(WeekStart(d)) /\ Ordinal(WeekStart(d)) = o - k
  <2>1. -k \in Int
    OBVIOUS
  <2>2. Dated(AddDays(d, -k)) /\ Ordinal(AddDays(d, -k)) = o + (-k)
    BY <1>1, <2>1, DaysAreAdded
  <2>3. WeekStart(d) = AddDays(d, -k)
    BY <1>3 DEF WeekStart
  <2>4. QED
    BY <2>2, <2>3
<1>5. Dated(WeekEnd(d)) /\ Ordinal(WeekEnd(d)) = (o - k) + 6
  BY <1>4, DaysAreAdded DEF WeekEnd
<1>6. QED
  BY <1>1, <1>3, <1>4, <1>5

\* Dates in one order have their counts in that order.
LEMMA YearsAdd ==
  ASSUME NEW y \in Int, NEW z \in Int, y <= z
  PROVE  YearStart(y) \in Int /\ YearStart(z) \in Int /\ YearStart(y) <= YearStart(z)
<1>1. y \div 4 <= z \div 4 /\ y \div 4 \in Int /\ z \div 4 \in Int
  OBVIOUS
<1>2. y \div 400 <= z \div 400 /\ y \div 400 \in Int /\ z \div 400 \in Int
  OBVIOUS
<1>3. z \div 100 - y \div 100 <= 365 * (z - y) /\ y \div 100 \in Int /\ z \div 100 \in Int
  OBVIOUS
<1>4. QED
  BY <1>1, <1>2, <1>3 DEF YearStart

LEMMA MonthsAdd ==
  ASSUME NEW y \in Int, NEW m \in 1 .. 12, NEW n \in 1 .. 12, m < n
  PROVE  MonthStart(y, m) + DaysInMonth(y, m) <= MonthStart(y, n)
<1>1. PICK leap \in 0 .. 1 : leap = (IF IsLeap(y) THEN 1 ELSE 0)
  OBVIOUS
<1>2. MonthStart(y, m + 1) = MonthStart(y, m) + DaysInMonth(y, m)
  BY MonthsLast
<1>3. MonthStart(y, m + 1) <= MonthStart(y, n)
  BY <1>1 DEF MonthStart
<1>4. QED
  BY <1>2, <1>3

\* Before compares dates field by field; so do their days.
Earlier(y, m, k, z, n, j) == y < z \/ (y = z /\ m < n) \/ (y = z /\ m = n /\ k < j)

LEMMA BeforeIsEarlier ==
  ASSUME NEW y, NEW m, NEW k, NEW z, NEW n, NEW j
  PROVE  Before(<<y, m, k>>, <<z, n, j>>) <=> Earlier(y, m, k, z, n, j)
<1> DEFINE a == <<y, m, k>>
           b == <<z, n, j>>
           Differ(i) == a[i] < b[i] /\ \A h \in 1 .. (i - 1) : a[h] = b[h]
<1>1. DOMAIN a = 1 .. 3 /\ a[1] = y /\ a[2] = m /\ a[3] = k /\ b[1] = z /\ b[2] = n /\ b[3] = j
  OBVIOUS
<1>2. Before(a, b) <=> Differ(1) \/ Differ(2) \/ Differ(3)
  <2>1. \A i \in 1 .. 3 : i = 1 \/ i = 2 \/ i = 3
    OBVIOUS
  <2>2. 1 \in 1 .. 3 /\ 2 \in 1 .. 3 /\ 3 \in 1 .. 3
    OBVIOUS
  <2>3. Before(a, b) <=> \E i \in 1 .. 3 : Differ(i)
    BY <1>1 DEF Before
  <2> HIDE DEF Differ
  <2>4. QED
    BY <2>1, <2>2, <2>3
<1>3. Differ(1) <=> y < z
  BY <1>1
<1>4. Differ(2) <=> y = z /\ m < n
  <2>1. \A h \in 1 .. (2 - 1) : h = 1
    OBVIOUS
  <2>2. 1 \in 1 .. (2 - 1)
    OBVIOUS
  <2> HIDE DEF a, b
  <2>3. QED
    BY <1>1, <2>1, <2>2
<1>5. Differ(3) <=> y = z /\ m = n /\ k < j
  <2>1. \A h \in 1 .. (3 - 1) : h = 1 \/ h = 2
    OBVIOUS
  <2>2. 1 \in 1 .. (3 - 1) /\ 2 \in 1 .. (3 - 1)
    OBVIOUS
  <2> HIDE DEF a, b
  <2>3. QED
    BY <1>1, <2>1, <2>2
<1> HIDE DEF Differ
<1>6. QED
  BY <1>2, <1>3, <1>4, <1>5 DEF Earlier

LEMMA EarlierCounts ==
  ASSUME NEW y \in Int, NEW m \in 1 .. 12, NEW k \in 1 .. 31, k <= DaysInMonth(y, m),
         NEW z \in Int, NEW n \in 1 .. 12, NEW j \in 1 .. 31,
         Earlier(y, m, k, z, n, j)
  PROVE  Ordinal(<<y, m, k>>) < Ordinal(<<z, n, j>>)
<1>1. /\ k \in Int /\ j \in Int /\ m \in Int /\ n \in Int
      /\ Ordinal(<<y, m, k>>) = YearStart(y - 1) + MonthStart(y, m) + k
      /\ Ordinal(<<z, n, j>>) = YearStart(z - 1) + MonthStart(z, n) + j
  BY OrdinalCounts
<1>2. /\ MonthStart(y, m) \in Int /\ DaysInMonth(y, m) \in Int
      /\ MonthStart(z, n) \in Int /\ 0 <= MonthStart(z, n) /\ MonthStart(y, 12) \in Int
  <2>1. MonthStart(y, m) \in 0 .. 335 /\ DaysInMonth(y, m) \in 28 .. 31
    BY MonthsLast
  <2>2. MonthStart(z, n) \in 0 .. 335
    BY MonthsLast
  <2>3. 12 \in 1 .. 12
    OBVIOUS
  <2>4. MonthStart(y, 12) \in 0 .. 335
    BY <2>3, MonthsLast
  <2>5. QED
    BY <2>1, <2>2, <2>4
<1>3. YearStart(y - 1) \in Int /\ YearStart(y) \in Int /\ YearStart(z - 1) \in Int
  BY DEF YearStart
<1>4. CASE y < z
  <2>1. YearStart(y) <= YearStart(z - 1)
    BY <1>4, YearsAdd
  <2>2. PICK leap \in 0 .. 1 : leap = (IF IsLeap(y) THEN 1 ELSE 0)
    OBVIOUS
  <2>3. YearStart(y) = YearStart(y - 1) + 365 + leap
    BY <2>2, LeapYear
  <2>4. MonthStart(y, m) + DaysInMonth(y, m) <= 365 + leap
    <3>1. MonthStart(y, 12) + 31 = 365 + leap
      BY <2>2, MonthsLast
    <3>2. CASE m = 12
      <4>1. DaysInMonth(y, m) \in 28 .. 31
        BY MonthsLast
      <4>2. QED
        BY <1>2, <3>1, <3>2, <4>1
    <3>3. CASE m # 12
      <4>1. m < 12 /\ 12 \in 1 .. 12
        BY <3>3
      <4>2. MonthStart(y, m) + DaysInMonth(y, m) <= MonthStart(y, 12)
        BY <4>1, MonthsAdd
      <4>3. QED
        BY <1>2, <3>1, <4>2
    <3>4. QED
      BY <3>2, <3>3
  <2>5. QED
    BY <1>1, <1>2, <1>3, <2>1, <2>3, <2>4
<1>5. CASE y = z /\ m < n
  <2>1. MonthStart(y, m) + DaysInMonth(y, m) <= MonthStart(y, n)
    BY <1>5, MonthsAdd
  <2>2. QED
    BY <1>1, <1>2, <1>3, <1>5, <2>1
<1>6. CASE y = z /\ m = n /\ k < j
  BY <1>1, <1>2, <1>3, <1>6
<1>7. QED
  BY <1>4, <1>5, <1>6 DEF Earlier

\* An earlier date is one with a lower number, and no two have one number.
LEMMA DatesAreOrdered ==
  ASSUME NEW a, Dated(a), NEW b, Dated(b)
  PROVE  /\ Before(a, b) <=> Ordinal(a) < Ordinal(b)
         /\ a = b <=> Ordinal(a) = Ordinal(b)
<1>1. PICK y \in Int, m \in 1 .. 12, k \in 1 .. 31 : a = <<y, m, k>> /\ k <= DaysInMonth(y, m)
  BY DatedParts
<1>2. PICK z \in Int, n \in 1 .. 12, j \in 1 .. 31 : b = <<z, n, j>> /\ j <= DaysInMonth(z, n)
  BY DatedParts
<1>3. Ordinal(a) \in Int /\ Ordinal(b) \in Int
  BY OrdinalMeasures
<1>4. Earlier(y, m, k, z, n, j) => Ordinal(a) < Ordinal(b)
  BY <1>1, <1>2, EarlierCounts
<1>5. Earlier(z, n, j, y, m, k) => Ordinal(b) < Ordinal(a)
  BY <1>1, <1>2, EarlierCounts
<1>6. Earlier(y, m, k, z, n, j) \/ Earlier(z, n, j, y, m, k) \/ (y = z /\ m = n /\ k = j)
  BY DEF Earlier
<1>7. (y = z /\ m = n /\ k = j) => a = b
  BY <1>1, <1>2
<1>8. Before(a, b) <=> Earlier(y, m, k, z, n, j)
  BY <1>1, <1>2, BeforeIsEarlier
<1>9. QED
  BY <1>3, <1>4, <1>5, <1>6, <1>7, <1>8

\* CivilDate::add_days, days_until, week_start: of any two dates of any years,
\* the days counted between them lead from one to the other and to no third,
\* and a week begins on the last Monday, whatever leap years and ends of
\* centuries lie between.
THEOREM DatesAreNumbered ==
  ASSUME NEW a, Dated(a), NEW b, Dated(b), NEW k \in Int
  PROVE  /\ Dated(AddDays(a, k)) /\ DaysUntil(a, AddDays(a, k)) = k
         /\ AddDays(a, DaysUntil(a, b)) = b
         /\ Before(a, b) <=> DaysUntil(a, b) > 0
         /\ Dated(WeekStart(a)) /\ Weekday(WeekStart(a)) = 1 /\ DaysUntil(WeekStart(a), a) \in 0 .. 6
<1>1. Ordinal(a) \in Int /\ Ordinal(b) \in Int
  BY OrdinalMeasures
<1>2. Dated(AddDays(a, k)) /\ Ordinal(AddDays(a, k)) = Ordinal(a) + k
  BY DaysAreAdded
<1>3. DaysUntil(a, AddDays(a, k)) = k
  BY <1>1, <1>2, DaysAreCounted
<1>4. PICK n \in Int : n = DaysUntil(a, b) /\ n = Ordinal(b) - Ordinal(a)
  BY <1>1, DaysAreCounted
<1>5. AddDays(a, n) = b
  <2>1. Dated(AddDays(a, n)) /\ Ordinal(AddDays(a, n)) = Ordinal(a) + n
    BY DaysAreAdded
  <2>2. Ordinal(AddDays(a, n)) = Ordinal(b)
    BY <1>1, <1>4, <2>1
  <2>3. QED
    BY <2>1, <2>2, DatesAreOrdered
<1>6. Before(a, b) <=> n > 0
  BY <1>1, <1>4, DatesAreOrdered
<1>7. PICK start : start = WeekStart(a)
  OBVIOUS
<1>8. PICK monday \in Int : /\ monday = Ordinal(start) /\ monday % 7 = 1 /\ Dated(start)
                            /\ monday <= Ordinal(a) /\ Ordinal(a) <= monday + 6
  BY <1>7, WeeksBeginOnMonday, OrdinalMeasures
<1>9. Weekday(start) = 1
  BY <1>8, WeekdayCounts
<1>10. DaysUntil(start, a) = Ordinal(a) - Ordinal(start)
  BY <1>8, DaysAreCounted
<1>11. DaysUntil(start, a) \in 0 .. 6
  BY <1>1, <1>8, <1>10
<1>12. QED
  BY <1>2, <1>3, <1>4, <1>5, <1>6, <1>7, <1>8, <1>9, <1>11

\* Dates are compared as text, and a year has four digits.
Written(d) == Dated(d) /\ d[1] <= 9999

LEMMA TextIsOrdered ==
  ASSUME NEW a, Written(a), NEW b, Written(b)
  PROVE  TextBefore(a, b) <=> Ordinal(a) < Ordinal(b)
<1>0. Dated(a) /\ Dated(b) /\ a[1] <= 9999 /\ b[1] <= 9999
  BY DEF Written
<1>1. PICK y \in Int, m \in 1 .. 12, k \in 1 .. 31 : a = <<y, m, k>> /\ k <= DaysInMonth(y, m)
  BY <1>0, DatedParts
<1>2. PICK z \in Int, n \in 1 .. 12, j \in 1 .. 31 : b = <<z, n, j>> /\ j <= DaysInMonth(z, n)
  BY <1>0, DatedParts
<1>3. Text(a) = <<y, 0, m, k>> /\ Text(b) = <<z, 0, n, j>>
  BY <1>0, <1>1, <1>2 DEF Text
<1>4. TextBefore(a, b) <=> Earlier(y, m, k, z, n, j)
  <2> DEFINE s == <<y, 0, m, k>>
             t == <<z, 0, n, j>>
             Differ(i) == s[i] < t[i] /\ \A h \in 1 .. (i - 1) : s[h] = t[h]
  <2>1. /\ DOMAIN s = 1 .. 4 /\ s[1] = y /\ s[2] = 0 /\ s[3] = m /\ s[4] = k
        /\ t[1] = z /\ t[2] = 0 /\ t[3] = n /\ t[4] = j
    OBVIOUS
  <2>2. TextBefore(a, b) <=> Differ(1) \/ Differ(2) \/ Differ(3) \/ Differ(4)
    <3>1. \A i \in 1 .. 4 : i = 1 \/ i = 2 \/ i = 3 \/ i = 4
      OBVIOUS
    <3>2. 1 \in 1 .. 4 /\ 2 \in 1 .. 4 /\ 3 \in 1 .. 4 /\ 4 \in 1 .. 4
      OBVIOUS
    <3>3. TextBefore(a, b) <=> \E i \in 1 .. 4 : Differ(i)
      BY <1>3, <2>1 DEF TextBefore, Before
    <3> HIDE DEF Differ
    <3>4. QED
      BY <3>1, <3>2, <3>3
  <2> HIDE DEF s, t
  <2>3. Differ(1) <=> y < z
    BY <2>1
  <2>4. ~Differ(2)
    BY <2>1
  <2>5. Differ(3) <=> y = z /\ m < n
    <3>1. \A h \in 1 .. (3 - 1) : h = 1 \/ h = 2
      OBVIOUS
    <3>2. 1 \in 1 .. (3 - 1) /\ 2 \in 1 .. (3 - 1)
      OBVIOUS
    <3>3. QED
      BY <2>1, <3>1, <3>2
  <2>6. Differ(4) <=> y = z /\ m = n /\ k < j
    <3>1. \A h \in 1 .. (4 - 1) : h = 1 \/ h = 2 \/ h = 3
      OBVIOUS
    <3>2. 1 \in 1 .. (4 - 1) /\ 2 \in 1 .. (4 - 1) /\ 3 \in 1 .. (4 - 1)
      OBVIOUS
    <3>3. QED
      BY <2>1, <3>1, <3>2
  <2> HIDE DEF Differ
  <2>7. QED
    BY <2>2, <2>3, <2>4, <2>5, <2>6 DEF Earlier
<1>5. Before(a, b) <=> Earlier(y, m, k, z, n, j)
  BY <1>1, <1>2, BeforeIsEarlier
<1>6. QED
  BY <1>0, <1>4, <1>5, DatesAreOrdered

----------------------------------------------------------------------------
(* The deadlines' invariant.  A deadline is never removed and its date never *)
(* changes, so what a list or a week has said of it stays true.             *)

\* A deadline has a date of four digits' year.
DeadlinesStand ==
  /\ DOMAIN deadlines \subseteq Deadlines
  /\ \A d \in DOMAIN deadlines :
       /\ deadlines[d] = [matter |-> deadlines[d].matter, due |-> deadlines[d].due,
                          met |-> deadlines[d].met]
       /\ Written(deadlines[d].due)

\* The days left of a deadline on a day.
Left(d, asOf) == Ordinal(deadlines[d].due) - Ordinal(asOf)

\* What stands in a half of a list, and what may not be missing from it.
PastStands(q) ==
  /\ q.asOf \in Dates /\ q.within \in Spans /\ q.owed \subseteq DOMAIN deadlines
  /\ \A x \in q.overdue : /\ x.deadline \in DOMAIN deadlines
                          /\ x.days = Left(x.deadline, q.asOf) /\ x.days < 0
  /\ \A d \in q.owed : Left(d, q.asOf) < 0 => \E x \in q.overdue : x.deadline = d
ComingStands(q) ==
  /\ \A x \in q.upcoming : /\ x.deadline \in DOMAIN deadlines
                           /\ x.days = Left(x.deadline, q.asOf) /\ x.days \in 0 .. q.within
  /\ \A d \in q.owed : Left(d, q.asOf) \in 0 .. q.within => \E x \in q.upcoming : x.deadline = d

\* A week so far: its days in order, and on each what is owed and due then.
DayRows == [date : Int \X Int \X Int, due : SUBSET Deadlines]
WeekStands(q) ==
  /\ q.of \in Dates /\ q.owed \subseteq DOMAIN deadlines
  /\ q.days \in Seq(DayRows) /\ Len(q.days) <= 7
  /\ Dated(q.next) /\ Ordinal(q.next) = Ordinal(WeekStart(q.of)) + Len(q.days)
  /\ \A i \in 1 .. Len(q.days) :
       /\ Dated(q.days[i].date) /\ Ordinal(q.days[i].date) = Ordinal(WeekStart(q.of)) + (i - 1)
       /\ \A d \in q.owed : q.days[i].date = deadlines[d].due <=> d \in q.days[i].due

ReadingStands(q) ==
  /\ q.op \in {"overdue", "listed"} => PastStands(q)
  /\ q.op = "listed" => ComingStands(q)
  /\ q.op = "week" => WeekStands(q)

OwedInv == DeadlinesStand /\ \A w \in Windows : ReadingStands(doing[w])

\* A date that anybody enters or asks about has a year of four digits, and so
\* has the last day anybody looks ahead to.
FourDigits ==
  /\ \A d \in DOMAIN File.deadlines : File.deadlines[d].due[1] <= 9999
  /\ \A d \in Dates : d[1] <= 9999 /\ \A s \in Spans : AddDays(d, s)[1] <= 9999

LEMMA DatesAreWritten ==
  ASSUME FourDigits, NEW d \in Dates
  PROVE  Written(d) /\ \A s \in Spans : s \in Nat /\ Written(AddDays(d, s))
<1>1. Dated(d)
  BY FileAssumption DEF Dated
<1>2. ASSUME NEW s \in Spans PROVE s \in Nat /\ Written(AddDays(d, s))
  <2>1. s \in Nat /\ s \in Int
    BY FileAssumption
  <2>2. Dated(AddDays(d, s))
    BY <1>1, <2>1, DaysAreAdded
  <2>3. QED
    BY <2>1, <2>2 DEF FourDigits, Written
<1>3. QED
  BY <1>1, <1>2 DEF FourDigits, Written

\* What every step does with the deadlines.
DeadlinesKept ==
  /\ DOMAIN deadlines \subseteq DOMAIN deadlines'
  /\ \A d \in DOMAIN deadlines : deadlines'[d].due = deadlines[d].due

LEMMA LeftIsKept ==
  ASSUME DeadlinesKept, NEW d \in DOMAIN deadlines, NEW asOf
  PROVE  d \in DOMAIN deadlines' /\ Left(d, asOf)' = Left(d, asOf)
BY DEF DeadlinesKept, Left

LEMMA ReadingIsKept ==
  ASSUME DeadlinesKept, NEW q, ReadingStands(q)
  PROVE  ReadingStands(q)'
<1>1. \A d \in DOMAIN deadlines : \A asOf : d \in DOMAIN deadlines' /\ Left(d, asOf)' = Left(d, asOf)
  BY LeftIsKept
<1>2. q.op \in {"overdue", "listed"} => PastStands(q)'
  <2> SUFFICES ASSUME PastStands(q) PROVE PastStands(q)'
    BY DEF ReadingStands
  <2>1. q.asOf \in Dates /\ q.within \in Spans /\ q.owed \subseteq DOMAIN deadlines
    BY DEF PastStands
  <2>2. ASSUME NEW x \in q.overdue
        PROVE  /\ x.deadline \in DOMAIN deadlines'
               /\ x.days = Left(x.deadline, q.asOf)' /\ x.days < 0
    BY <1>1 DEF PastStands
  <2>3. ASSUME NEW d \in q.owed, Left(d, q.asOf)' < 0
        PROVE  \E x \in q.overdue : x.deadline = d
    BY <1>1, <2>1, <2>3 DEF PastStands
  <2>4. q.owed \subseteq DOMAIN deadlines'
    BY <1>1, <2>1
  <2>5. QED
    BY <2>1, <2>2, <2>3, <2>4 DEF PastStands
<1>3. q.op = "listed" => ComingStands(q)'
  <2> SUFFICES ASSUME PastStands(q), ComingStands(q) PROVE ComingStands(q)'
    BY DEF ReadingStands
  <2>1. q.owed \subseteq DOMAIN deadlines
    BY DEF PastStands
  <2>2. ASSUME NEW x \in q.upcoming
        PROVE  /\ x.deadline \in DOMAIN deadlines'
               /\ x.days = Left(x.deadline, q.asOf)' /\ x.days \in 0 .. q.within
    BY <1>1 DEF ComingStands
  <2>3. ASSUME NEW d \in q.owed, Left(d, q.asOf)' \in 0 .. q.within
        PROVE  \E x \in q.upcoming : x.deadline = d
    BY <1>1, <2>1, <2>3 DEF ComingStands
  <2>4. QED
    BY <2>2, <2>3 DEF ComingStands
<1>4. q.op = "week" => WeekStands(q)'
  <2> SUFFICES ASSUME WeekStands(q) PROVE WeekStands(q)'
    BY DEF ReadingStands
  <2>1. q.owed \subseteq DOMAIN deadlines /\ q.owed \subseteq DOMAIN deadlines'
    BY <1>1 DEF WeekStands
  <2>2. \A d \in q.owed : deadlines'[d].due = deadlines[d].due
    BY <2>1 DEF DeadlinesKept
  <2>3. QED
    BY <2>1, <2>2 DEF WeekStands
<1>5. QED
  BY <1>2, <1>3, <1>4 DEF ReadingStands

\* Whatever else a step does, it keeps what was read if it keeps the deadlines.
LEMMA OwedIsKept ==
  ASSUME OwedInv, DeadlinesKept, DeadlinesStand',
         \A v \in Windows : doing'[v] = doing[v] \/ \E q : q = doing'[v] /\ ReadingStands(q)'
  PROVE  OwedInv'
<1>1. ASSUME NEW v \in Windows PROVE ReadingStands(doing[v])'
  <2>1. PICK q : q = doing'[v]
    OBVIOUS
  <2>2. ReadingStands(q)'
    <3>1. CASE doing'[v] = doing[v]
      <4>1. ReadingStands(q)
        BY <2>1, <3>1 DEF OwedInv
      <4>2. QED
        BY <4>1, ReadingIsKept
    <3>2. CASE \E p : p = doing'[v] /\ ReadingStands(p)'
      BY <2>1, <3>2
    <3>3. QED
      BY <3>1, <3>2
  <2>3. QED
    BY <2>1, <2>2
<1>2. QED
  BY <1>1 DEF OwedInv

LEMMA ListedStand ==
  ASSUME DeadlinesStand, NEW asOf, Dated(asOf), NEW found, found \subseteq DOMAIN deadlines
  PROVE  /\ \A x \in Listed(found, asOf) : x.deadline \in found /\ x.days = Left(x.deadline, asOf)
         /\ \A d \in found : \E x \in Listed(found, asOf) : x.deadline = d
<1>1. ASSUME NEW d \in found PROVE DaysUntil(asOf, deadlines[d].due) = Left(d, asOf)
  <2>1. Dated(deadlines[d].due)
    BY DEF DeadlinesStand, Written
  <2>2. QED
    BY <2>1, DaysAreCounted DEF Left
<1>2. ASSUME NEW x \in Listed(found, asOf)
      PROVE  x.deadline \in found /\ x.days = Left(x.deadline, asOf)
  <2>1. PICK d \in found : x = [deadline |-> d, days |-> DaysUntil(asOf, deadlines[d].due)]
    BY DEF Listed
  <2>2. QED
    BY <1>1, <2>1
<1>3. ASSUME NEW d \in found PROVE \E x \in Listed(found, asOf) : x.deadline = d
  <2> DEFINE row == [deadline |-> d, days |-> DaysUntil(asOf, deadlines[d].due)]
  <2>1. row \in Listed(found, asOf)
    BY DEF Listed
  <2>2. row.deadline = d
    OBVIOUS
  <2>3. QED
    BY <2>1, <2>2
<1>4. QED
  BY <1>2, <1>3

LEMMA OverdueIsRead ==
  ASSUME DeadlinesStand, FourDigits, NEW asOf \in Dates, NEW within \in Spans, NEW q,
         q = [op |-> "overdue", asOf |-> asOf, within |-> within, owed |-> Owed,
              overdue |-> Listed({d \in Owed : TextBefore(deadlines[d].due, asOf)}, asOf)]
  PROVE  ReadingStands(q)
<1> DEFINE found == {d \in Owed : TextBefore(deadlines[d].due, asOf)}
<1>1. Owed \subseteq DOMAIN deadlines /\ found \subseteq DOMAIN deadlines
  BY DEF Owed
<1>2. Written(asOf) /\ Dated(asOf)
  BY DatesAreWritten DEF Written
<1>3. ASSUME NEW d \in Owed
      PROVE  /\ Left(d, asOf) \in Int
             /\ d \in found <=> Left(d, asOf) < 0
  <2>1. Written(deadlines[d].due) /\ Dated(deadlines[d].due)
    BY <1>1 DEF DeadlinesStand, Written
  <2>2. TextBefore(deadlines[d].due, asOf) <=> Ordinal(deadlines[d].due) < Ordinal(asOf)
    BY <1>2, <2>1, TextIsOrdered
  <2>3. Ordinal(deadlines[d].due) \in Int /\ Ordinal(asOf) \in Int
    BY <1>2, <2>1, OrdinalMeasures
  <2>4. QED
    BY <2>2, <2>3 DEF Left
<1>4. /\ q.op = "overdue" /\ q.asOf = asOf /\ q.within = within /\ q.owed = Owed
      /\ q.overdue = Listed(found, asOf)
  OBVIOUS
<1>5. found \subseteq Owed
  OBVIOUS
<1> HIDE DEF found
<1>6. /\ \A x \in Listed(found, asOf) : x.deadline \in found /\ x.days = Left(x.deadline, asOf)
      /\ \A d \in found : \E x \in Listed(found, asOf) : x.deadline = d
  BY <1>1, <1>2, ListedStand
<1>7. PastStands(q)
  <2>1. ASSUME NEW x \in q.overdue
        PROVE  /\ x.deadline \in DOMAIN deadlines
               /\ x.days = Left(x.deadline, q.asOf) /\ x.days < 0
    <3>1. x.deadline \in found /\ x.days = Left(x.deadline, asOf)
      BY <1>4, <1>6
    <3>2. Left(x.deadline, asOf) < 0
      BY <1>3, <1>5, <3>1
    <3>3. QED
      BY <1>1, <1>4, <3>1, <3>2
  <2>2. ASSUME NEW d \in q.owed, Left(d, q.asOf) < 0
        PROVE  \E x \in q.overdue : x.deadline = d
    BY <1>3, <1>4, <1>6, <2>2
  <2>3. QED
    BY <1>1, <1>4, <2>1, <2>2 DEF PastStands
<1>8. QED
  BY <1>4, <1>7 DEF ReadingStands

LEMMA UpcomingIsRead ==
  ASSUME DeadlinesStand, FourDigits, NEW p, p.op = "overdue", ReadingStands(p), NEW q,
         q = [op |-> "listed", asOf |-> p.asOf, within |-> p.within,
              owed |-> p.owed \cap Owed, overdue |-> p.overdue,
              upcoming |-> Listed({d \in Owed : /\ ~TextBefore(deadlines[d].due, p.asOf)
                                               /\ ~TextBefore(AddDays(p.asOf, p.within), deadlines[d].due)},
                                  p.asOf)]
  PROVE  ReadingStands(q)
<1> DEFINE horizon == AddDays(p.asOf, p.within)
           found == {d \in Owed : /\ ~TextBefore(deadlines[d].due, p.asOf)
                                  /\ ~TextBefore(horizon, deadlines[d].due)}
<1>1. PastStands(p) /\ p.asOf \in Dates /\ p.within \in Spans
  BY DEF ReadingStands, PastStands
<1>2. Owed \subseteq DOMAIN deadlines /\ found \subseteq DOMAIN deadlines
  BY DEF Owed
<1>3. /\ Written(p.asOf) /\ Dated(p.asOf) /\ p.within \in Int
      /\ Written(horizon) /\ Dated(horizon) /\ Ordinal(horizon) = Ordinal(p.asOf) + p.within
  <2>1. Written(p.asOf) /\ p.within \in Nat /\ Written(horizon)
    BY <1>1, DatesAreWritten
  <2>2. Dated(p.asOf) /\ p.within \in Int
    BY <2>1 DEF Written
  <2>3. QED
    BY <2>1, <2>2, DaysAreAdded DEF Written
<1> HIDE DEF horizon
<1>4. ASSUME NEW d \in Owed
      PROVE  d \in found <=> Left(d, p.asOf) \in 0 .. p.within
  <2>1. Written(deadlines[d].due) /\ Dated(deadlines[d].due)
    BY <1>2 DEF DeadlinesStand, Written
  <2>2. TextBefore(deadlines[d].due, p.asOf) <=> Ordinal(deadlines[d].due) < Ordinal(p.asOf)
    BY <1>3, <2>1, TextIsOrdered
  <2>3. TextBefore(horizon, deadlines[d].due) <=> Ordinal(horizon) < Ordinal(deadlines[d].due)
    BY <1>3, <2>1, TextIsOrdered
  <2>4. Ordinal(deadlines[d].due) \in Int /\ Ordinal(p.asOf) \in Int
    BY <1>3, <2>1, OrdinalMeasures
  <2>5. d \in found <=> /\ ~TextBefore(deadlines[d].due, p.asOf)
                        /\ ~TextBefore(horizon, deadlines[d].due)
    OBVIOUS
  <2> HIDE DEF found
  <2>6. Left(d, p.asOf) \in 0 .. p.within <=>
          ~(Ordinal(deadlines[d].due) < Ordinal(p.asOf)) /\ ~(Ordinal(horizon) < Ordinal(deadlines[d].due))
    BY <1>3, <2>4 DEF Left
  <2>7. QED
    BY <2>2, <2>3, <2>5, <2>6
<1>5. /\ q.op = "listed" /\ q.asOf = p.asOf /\ q.within = p.within /\ q.owed = p.owed \cap Owed
      /\ q.overdue = p.overdue /\ q.upcoming = Listed(found, p.asOf)
  BY DEF horizon
<1>6. found \subseteq Owed
  OBVIOUS
<1> HIDE DEF found
<1>7. /\ \A x \in Listed(found, p.asOf) : x.deadline \in found /\ x.days = Left(x.deadline, p.asOf)
      /\ \A d \in found : \E x \in Listed(found, p.asOf) : x.deadline = d
  BY <1>2, <1>3, ListedStand
<1>8. PastStands(q)
  BY <1>1, <1>5 DEF PastStands
<1>9. ComingStands(q)
  <2>1. ASSUME NEW x \in q.upcoming
        PROVE  /\ x.deadline \in DOMAIN deadlines
               /\ x.days = Left(x.deadline, q.asOf) /\ x.days \in 0 .. q.within
    <3>1. x.deadline \in found /\ x.days = Left(x.deadline, p.asOf)
      BY <1>5, <1>7
    <3>2. Left(x.deadline, p.asOf) \in 0 .. p.within
      BY <1>4, <1>6, <3>1
    <3>3. QED
      BY <1>2, <1>5, <3>1, <3>2
  <2>2. ASSUME NEW d \in q.owed, Left(d, q.asOf) \in 0 .. q.within
        PROVE  \E x \in q.upcoming : x.deadline = d
    <3>1. d \in Owed /\ Left(d, p.asOf) \in 0 .. p.within
      BY <1>5, <2>2
    <3>2. QED
      BY <1>4, <1>5, <1>7, <3>1
  <2>3. QED
    BY <2>1, <2>2 DEF ComingStands
<1>10. QED
  BY <1>5, <1>8, <1>9 DEF ReadingStands

LEMMA WeekIsBegun ==
  ASSUME DeadlinesStand, FourDigits, NEW day \in Dates, NEW q,
         q = [op |-> "week", of |-> day, next |-> WeekStart(day), days |-> << >>, owed |-> Owed]
  PROVE  ReadingStands(q)
<1>1. Dated(day)
  BY DatesAreWritten DEF Written
<1>2. Dated(WeekStart(day)) /\ Ordinal(WeekStart(day)) \in Int
  BY <1>1, WeeksBeginOnMonday, OrdinalMeasures
<1>3. /\ q.op = "week" /\ q.of = day /\ q.next = WeekStart(day) /\ q.days = << >> /\ q.owed = Owed
  OBVIOUS
<1>4. << >> \in Seq(DayRows) /\ Len(<< >>) = 0
  OBVIOUS
<1>5. Owed \subseteq DOMAIN deadlines
  BY DEF Owed
<1>6. \A i \in 1 .. 0 : FALSE
  OBVIOUS
<1>7. WeekStands(q)
  BY <1>2, <1>3, <1>4, <1>5, <1>6 DEF WeekStands
<1>8. QED
  BY <1>3, <1>7 DEF ReadingStands

LEMMA DayIsRead ==
  ASSUME DeadlinesStand, FourDigits, NEW p, p.op = "week", ReadingStands(p),
         ~Before(WeekEnd(p.of), p.next), NEW q,
         q = [op |-> "week", of |-> p.of, next |-> AddDays(p.next, 1),
              days |-> Append(p.days, [date |-> p.next, due |-> {d \in Owed : deadlines[d].due = p.next}]),
              owed |-> p.owed \cap Owed]
  PROVE  ReadingStands(q)
<1>1. WeekStands(p)
  BY DEF ReadingStands
<1>2. PICK monday \in Int : monday = Ordinal(WeekStart(p.of)) /\ Ordinal(WeekEnd(p.of)) = monday + 6
           /\ Dated(WeekEnd(p.of))
  <2>1. Dated(p.of)
    BY <1>1, DatesAreWritten DEF WeekStands, Written
  <2>2. QED
    BY <2>1, WeeksBeginOnMonday, OrdinalMeasures
<1>3. PICK n \in Nat : n = Len(p.days)
  BY <1>1 DEF WeekStands
<1>4. Dated(p.next) /\ Ordinal(p.next) = monday + n
  BY <1>1, <1>2, <1>3 DEF WeekStands
<1>5. n <= 6
  <2>1. ~(Ordinal(WeekEnd(p.of)) < Ordinal(p.next))
    BY <1>2, <1>4, DatesAreOrdered
  <2>2. QED
    BY <1>2, <1>4, <2>1
<1>6. Dated(AddDays(p.next, 1)) /\ Ordinal(AddDays(p.next, 1)) = monday + (n + 1)
  <2>1. Dated(AddDays(p.next, 1)) /\ Ordinal(AddDays(p.next, 1)) = Ordinal(p.next) + 1
    BY <1>4, DaysAreAdded
  <2>2. QED
    BY <1>4, <2>1
<1> DEFINE due == {d \in Owed : deadlines[d].due = p.next}
           row == [date |-> p.next, due |-> due]
<1>7. Owed \subseteq DOMAIN deadlines /\ due \subseteq Deadlines
  BY DEF Owed, DeadlinesStand
<1>8. row \in DayRows /\ row.date = p.next /\ row.due = due
  BY <1>4, <1>7 DEF DayRows, Dated
<1>9. /\ q.op = "week" /\ q.of = p.of /\ q.next = AddDays(p.next, 1)
      /\ q.days = Append(p.days, row) /\ q.owed = p.owed \cap Owed
  OBVIOUS
<1>10. \A d \in Owed : p.next = deadlines[d].due <=> d \in due
  OBVIOUS
<1> HIDE DEF row, due
<1>11. /\ q.days \in Seq(DayRows) /\ Len(q.days) = n + 1 /\ q.days[n + 1] = row
       /\ \A i \in 1 .. n : q.days[i] = p.days[i]
  <2>1. p.days \in Seq(DayRows)
    BY <1>1 DEF WeekStands
  <2>2. Append(p.days, row) \in Seq(DayRows)
    BY <1>8, <2>1
  <2>3. Len(Append(p.days, row)) = n + 1
    BY <1>3, <2>1
  <2>4. Append(p.days, row)[n + 1] = row /\ \A i \in 1 .. n : Append(p.days, row)[i] = p.days[i]
    BY <1>3, <2>1
  <2>5. QED
    BY <1>9, <2>2, <2>3, <2>4
<1>12. ASSUME NEW i \in 1 .. (n + 1)
       PROVE  /\ Dated(q.days[i].date) /\ Ordinal(q.days[i].date) = monday + (i - 1)
              /\ \A d \in q.owed : q.days[i].date = deadlines[d].due <=> d \in q.days[i].due
  <2>1. CASE i = n + 1
    <3>1. q.days[i].date = p.next /\ q.days[i].due = due /\ i - 1 = n
      BY <1>8, <1>11, <2>1
    <3>2. QED
      BY <1>4, <1>9, <1>10, <3>1
  <2>2. CASE i # n + 1
    <3>1. i \in 1 .. n /\ i \in 1 .. Len(p.days) /\ q.days[i] = p.days[i]
      BY <1>3, <1>11, <2>2
    <3>2. QED
      BY <1>1, <1>2, <1>9, <3>1 DEF WeekStands
  <2>3. QED
    BY <2>1, <2>2
<1>13. q.of \in Dates /\ q.owed \subseteq DOMAIN deadlines
  BY <1>1, <1>7, <1>9 DEF WeekStands
<1>14. WeekStands(q)
  <2>1. Len(q.days) <= 7 /\ Len(q.days) = n + 1
    BY <1>5, <1>11
  <2>2. Dated(q.next) /\ Ordinal(q.next) = Ordinal(WeekStart(q.of)) + Len(q.days)
    BY <1>2, <1>6, <1>9, <2>1
  <2>3. QED
    BY <1>2, <1>9, <1>11, <1>12, <1>13, <2>1, <2>2 DEF WeekStands
<1>15. QED
  BY <1>9, <1>14 DEF ReadingStands

LEMMA InitOwedInv ==
  ASSUME FourDigits
  PROVE  DeskInit => OwedInv
<1> SUFFICES ASSUME DeskInit PROVE OwedInv
  OBVIOUS
<1>1. deadlines = File.deadlines /\ \A w \in Windows : doing[w].op = "idle"
  BY DEF DeskInit, FileInit, Init, Idle
<1>2. DeadlinesStand
  BY <1>1, FileAssumption DEF FourDigits, DeadlinesStand, Written, Dated
<1>3. QED
  BY <1>1, <1>2 DEF OwedInv, ReadingStands

\* A step that leaves the deadlines alone keeps them, and what is known of them.
LEMMA SameDeadlines ==
  ASSUME DeadlinesStand, deadlines' = deadlines
  PROVE  DeadlinesKept /\ DeadlinesStand'
<1>1. DeadlinesKept
  BY DEF DeadlinesKept
<1>2. DeadlinesStand'
  BY DEF DeadlinesStand
<1>3. QED
  BY <1>1, <1>2

LEMMA OwedKeeps ==
  ASSUME FourDigits, TypeOK, OwedInv, NEW w \in Windows, FileStep(w)
  PROVE  OwedInv'
<1> USE DEF Become, Idle
<1>0. DeadlinesStand /\ \A v \in Windows : ReadingStands(doing[v])
  BY DEF OwedInv
<1>1. doing = [v \in Windows |-> doing[v]]
  BY DEF TypeOK
<1>2. ASSUME deadlines' = deadlines, NEW q, doing' = [doing EXCEPT ![w] = q], ReadingStands(q)
      PROVE  OwedInv'
  <2>1. DeadlinesKept /\ DeadlinesStand'
    BY <1>0, <1>2, SameDeadlines
  <2>2. ReadingStands(q)'
    BY <1>2, <2>1, ReadingIsKept
  <2>3. \A v \in Windows : doing'[v] = doing[v] \/ doing'[v] = q
    BY <1>1, <1>2
  <2>4. QED
    BY <2>1, <2>2, <2>3, OwedIsKept
<1>3. ASSUME NEW q, q.op \in {"idle", "form", "revise"}
      PROVE  ReadingStands(q)
  BY <1>3 DEF ReadingStands
<1>4. ASSUME doing' = doing, DeadlinesKept, DeadlinesStand'
      PROVE  OwedInv'
  BY <1>4, OwedIsKept
<1>5. CASE \E draft \in Drafts : FillForm(w, draft)
  <2>1. PICK draft \in Drafts : FillForm(w, draft)
    BY <1>5
  <2>2. PICK shown : doing' = [doing EXCEPT ![w] = [op |-> "form", draft |-> draft, shown |-> shown]]
    BY <2>1 DEF FillForm
  <2>3. PICK q : q = [op |-> "form", draft |-> draft, shown |-> shown]
    OBVIOUS
  <2>4. deadlines' = deadlines
    BY <2>1 DEF FillForm, records
  <2>5. ReadingStands(q)
    BY <1>3, <2>3
  <2>6. QED
    BY <1>2, <2>2, <2>3, <2>4, <2>5
<1>6. CASE \E p \in People : CreateClient(w, p)
  <2>1. PICK p \in People : CreateClient(w, p)
    BY <1>6
  <2>2. doing' = [doing EXCEPT ![w] = [op |-> "idle"]] /\ deadlines' = deadlines
    BY <2>1 DEF CreateClient
  <2>3. PICK q : q = [op |-> "idle"]
    OBVIOUS
  <2>4. ReadingStands(q)
    BY <1>3, <2>3
  <2>5. QED
    BY <1>2, <2>2, <2>3, <2>4
<1>7. CASE \/ \E p \in People, name \in Aliases : AddAlias(w, p, name)
           \/ \E n \in Notes, subject \in Subjects : WriteNote(w, n, subject)
  <2>1. doing' = doing /\ deadlines' = deadlines
    BY <1>7 DEF AddAlias, WriteNote, InsertNote
  <2>2. QED
    BY <1>0, <1>4, <2>1, SameDeadlines
<1>8. CASE \E n \in Notes : BeginRevise(w, n) \/ InsertRevision(w, n)
  <2>1. PICK n \in Notes : BeginRevise(w, n) \/ InsertRevision(w, n)
    BY <1>8
  <2>2. deadlines' = deadlines
    BY <2>1 DEF BeginRevise, InsertRevision, InsertNote, records
  <2>3. CASE BeginRevise(w, n)
    <3>1. PICK q : q = [op |-> "revise", of |-> n]
      OBVIOUS
    <3>2. doing' = [doing EXCEPT ![w] = q]
      BY <2>3, <3>1 DEF BeginRevise
    <3>3. ReadingStands(q)
      BY <1>3, <3>1
    <3>4. QED
      BY <1>2, <2>2, <3>2, <3>3
  <2>4. CASE InsertRevision(w, n)
    <3>1. PICK q : q = [op |-> "idle"]
      OBVIOUS
    <3>2. doing' = [doing EXCEPT ![w] = q]
      BY <2>4, <3>1 DEF InsertRevision
    <3>3. ReadingStands(q)
      BY <1>3, <3>1
    <3>4. QED
      BY <1>2, <2>2, <3>2, <3>3
  <2>5. QED
    BY <2>1, <2>3, <2>4
<1>9. CASE \E d \in Deadlines, m \in Matters, due \in Dates : RecordDeadline(w, d, m, due)
  <2>1. PICK d \in Deadlines, m \in Matters, due \in Dates : RecordDeadline(w, d, m, due)
    BY <1>9
  <2>2. PICK row : row = [matter |-> m, due |-> due, met |-> FALSE]
    OBVIOUS
  <2>3. d \notin DOMAIN deadlines /\ deadlines' = AddRow(deadlines, d, row) /\ doing' = doing
    BY <2>1, <2>2 DEF RecordDeadline
  <2>4. /\ DOMAIN deadlines' = DOMAIN deadlines \cup {d} /\ deadlines'[d] = row
        /\ \A k \in DOMAIN deadlines : deadlines'[k] = deadlines[k]
    <3>1. PICK table : table = deadlines
      OBVIOUS
    <3>2. /\ DOMAIN AddRow(table, d, row) = DOMAIN table \cup {d}
          /\ AddRow(table, d, row)[d] = row
          /\ \A k \in DOMAIN table : k # d => AddRow(table, d, row)[k] = table[k]
      BY DEF AddRow
    <3>3. QED
      BY <2>3, <3>1, <3>2
  <2>5. DeadlinesKept
    BY <2>4 DEF DeadlinesKept
  <2>6. row = [matter |-> row.matter, due |-> row.due, met |-> row.met] /\ Written(row.due)
    BY <2>2, DatesAreWritten
  <2>7. DeadlinesStand'
    BY <1>0, <2>4, <2>6 DEF DeadlinesStand
  <2>8. QED
    BY <1>4, <2>3, <2>5, <2>7
<1>10. CASE \E d \in Deadlines : Satisfy(w, d)
  <2>1. PICK d \in Deadlines : Satisfy(w, d)
    BY <1>10
  <2>2. d \in DOMAIN deadlines /\ deadlines' = [deadlines EXCEPT ![d].met = TRUE] /\ doing' = doing
    BY <2>1 DEF Satisfy
  <2>3. /\ DOMAIN deadlines' = DOMAIN deadlines
        /\ deadlines'[d] = [deadlines[d] EXCEPT !.met = TRUE]
        /\ \A k \in DOMAIN deadlines : k # d => deadlines'[k] = deadlines[k]
    BY <2>2
  <2>4. PICK m, due, met : deadlines[d] = [matter |-> m, due |-> due, met |-> met]
    BY <1>0, <2>2 DEF DeadlinesStand
  <2>5. deadlines'[d] = [matter |-> m, due |-> due, met |-> TRUE] /\ deadlines[d].due = due
    <3>1. PICK r : r = deadlines[d]
      OBVIOUS
    <3>2. r = [matter |-> m, due |-> due, met |-> met] /\ deadlines'[d] = [r EXCEPT !.met = TRUE]
      BY <2>3, <2>4, <3>1
    <3>3. [r EXCEPT !.met = TRUE] = [matter |-> m, due |-> due, met |-> TRUE] /\ r.due = due
      BY <3>2
    <3>4. QED
      BY <3>1, <3>2, <3>3
  <2>6. DeadlinesKept
    BY <2>3, <2>5 DEF DeadlinesKept
  <2>7. DeadlinesStand'
    <3>1. ASSUME NEW k \in DOMAIN deadlines'
          PROVE  /\ deadlines'[k] = [matter |-> deadlines'[k].matter, due |-> deadlines'[k].due,
                                     met |-> deadlines'[k].met]
                 /\ Written(deadlines'[k].due)
      <4>1. CASE k = d
        <5>1. Written(due)
          BY <1>0, <2>2, <2>5 DEF DeadlinesStand
        <5>2. QED
          BY <2>5, <4>1, <5>1
      <4>2. CASE k # d
        BY <1>0, <2>3, <3>1, <4>2 DEF DeadlinesStand
      <4>3. QED
        BY <4>1, <4>2
    <3>2. QED
      BY <1>0, <2>3, <3>1 DEF DeadlinesStand
  <2>8. QED
    BY <1>4, <2>2, <2>6, <2>7
<1>11. CASE \E asOf \in Dates, within \in Spans : ReadOverdue(w, asOf, within)
  <2>1. PICK asOf \in Dates, within \in Spans : ReadOverdue(w, asOf, within)
    BY <1>11
  <2>2. PICK q : q = [op |-> "overdue", asOf |-> asOf, within |-> within, owed |-> Owed,
                      overdue |-> Listed({d \in Owed : TextBefore(deadlines[d].due, asOf)}, asOf)]
    OBVIOUS
  <2>3. doing' = [doing EXCEPT ![w] = q] /\ deadlines' = deadlines
    BY <2>1, <2>2 DEF ReadOverdue, records
  <2>4. ReadingStands(q)
    BY <1>0, <2>2, OverdueIsRead
  <2>5. QED
    BY <1>2, <2>3, <2>4
<1>12. CASE \E day \in Dates : BeginWeek(w, day)
  <2>1. PICK day \in Dates : BeginWeek(w, day)
    BY <1>12
  <2>2. PICK q : q = [op |-> "week", of |-> day, next |-> WeekStart(day), days |-> << >>, owed |-> Owed]
    OBVIOUS
  <2>3. doing' = [doing EXCEPT ![w] = q] /\ deadlines' = deadlines
    BY <2>1, <2>2 DEF BeginWeek, records
  <2>4. ReadingStands(q)
    BY <1>0, <2>2, WeekIsBegun
  <2>5. QED
    BY <1>2, <2>3, <2>4
<1>13. CASE ReadUpcoming(w)
  <2>1. PICK p : p = doing[w]
    OBVIOUS
  <2>2. PICK q : q = [op |-> "listed", asOf |-> p.asOf, within |-> p.within,
              owed |-> p.owed \cap Owed, overdue |-> p.overdue,
              upcoming |-> Listed({d \in Owed : /\ ~TextBefore(deadlines[d].due, p.asOf)
                                               /\ ~TextBefore(AddDays(p.asOf, p.within), deadlines[d].due)},
                                  p.asOf)]
    OBVIOUS
  <2>3. doing' = [doing EXCEPT ![w] = q] /\ deadlines' = deadlines /\ p.op = "overdue"
    BY <1>13, <2>1, <2>2 DEF ReadUpcoming, records
  <2>4. ReadingStands(p)
    BY <1>0, <2>1
  <2>5. ReadingStands(q)
    BY <1>0, <2>2, <2>3, <2>4, UpcomingIsRead
  <2>6. QED
    BY <1>2, <2>3, <2>5
<1>14. CASE ReadDay(w)
  <2>1. PICK p : p = doing[w]
    OBVIOUS
  <2>2. PICK q : q = [op |-> "week", of |-> p.of, next |-> AddDays(p.next, 1),
              days |-> Append(p.days, [date |-> p.next, due |-> {d \in Owed : deadlines[d].due = p.next}]),
              owed |-> p.owed \cap Owed]
    OBVIOUS
  <2>3. /\ doing' = [doing EXCEPT ![w] = q] /\ deadlines' = deadlines
        /\ p.op = "week" /\ ~Before(WeekEnd(p.of), p.next)
    BY <1>14, <2>1, <2>2 DEF ReadDay, records
  <2>4. ReadingStands(p)
    BY <1>0, <2>1
  <2>5. ReadingStands(q)
    BY <1>0, <2>2, <2>3, <2>4, DayIsRead
  <2>6. QED
    BY <1>2, <2>3, <2>5
<1>15. QED
  BY <1>5, <1>6, <1>7, <1>8, <1>9, <1>10, <1>11, <1>12, <1>13, <1>14 DEF FileStep

LEMMA OwedInvariant ==
  ASSUME FourDigits
  PROVE  CalendarInv /\ OwedInv /\ [DeskNext]_deskVars => OwedInv'
<1> SUFFICES ASSUME CalendarInv, OwedInv, [DeskNext]_deskVars PROVE OwedInv'
  OBVIOUS
<1>1. TypeOK /\ DeadlinesStand
  BY DEF CalendarInv, OwedInv
<1>2. CASE CalendarMoves
  <2>1. PICK w \in Windows : Step(w) /\ deadlines' = deadlines
    BY <1>2 DEF CalendarMoves, records
  <2>2. DeadlinesKept /\ DeadlinesStand'
    BY <1>1, <2>1, SameDeadlines
  <2>3. ASSUME NEW v \in Windows
        PROVE  doing'[v] = doing[v] \/ \E q : q = doing'[v] /\ ReadingStands(q)'
    <3>1. PICK q : q = doing'[v]
      OBVIOUS
    <3>2. q.op \in {"idle", "open", "docket"} => ReadingStands(q)'
      BY DEF ReadingStands
    <3>3. doing'[v] = doing[v] \/ q.op \in {"idle", "open", "docket"}
      BY <1>1, <2>1, <3>1, CalendarFrame
    <3>4. QED
      BY <3>1, <3>2, <3>3
  <2>4. QED
    BY <2>2, <2>3, OwedIsKept
<1>3. CASE FileMoves
  BY <1>1, <1>3, OwedKeeps DEF FileMoves
<1>4. CASE CasesGrow
  <2>1. deadlines' = deadlines /\ doing' = doing
    BY <1>4 DEF CasesGrow, theRest, records
  <2>2. QED
    BY <1>1, <2>1, SameDeadlines, OwedIsKept
<1>5. QED
  BY <1>1, <1>2, <1>3, <1>4, DeskSteps

LEMMA OwedAlways ==
  ASSUME FourDigits
  PROVE  DeskSpec => []OwedInv
<1>1. DeskInit => OwedInv
  BY InitOwedInv
<1>2. CalendarInv /\ OwedInv /\ [DeskNext]_deskVars => OwedInv'
  BY OwedInvariant
<1>3. QED
  BY <1>1, <1>2, CalendarAlways, PTL DEF DeskSpec

LEMMA OwedListed == OwedInv => OwedIsListed
<1> SUFFICES ASSUME OwedInv, NEW w \in Windows, doing[w].op = "listed",
                    NEW q, q = doing[w]
             PROVE  /\ {x.deadline : x \in q.overdue} \cap {x.deadline : x \in q.upcoming} = {}
                    /\ \A x \in q.overdue : x.days = Left(x.deadline, q.asOf) /\ x.days < 0
                    /\ \A x \in q.upcoming : x.days = Left(x.deadline, q.asOf) /\ x.days \in 0 .. q.within
                    /\ {d \in q.owed : Left(d, q.asOf) <= q.within}
                         \subseteq {x.deadline : x \in q.overdue} \cup {x.deadline : x \in q.upcoming}
  BY DEF OwedIsListed, Left
<1>1. PastStands(q) /\ ComingStands(q) /\ DeadlinesStand
  BY DEF OwedInv, ReadingStands
<1>2. /\ \A x \in q.overdue : x.days = Left(x.deadline, q.asOf) /\ x.days < 0
      /\ \A x \in q.upcoming : x.days = Left(x.deadline, q.asOf) /\ x.days \in 0 .. q.within
  BY <1>1 DEF PastStands, ComingStands
<1>3. q.within \in Nat /\ Dated(q.asOf) /\ q.owed \subseteq DOMAIN deadlines
  BY <1>1, FileAssumption DEF PastStands, Dated
<1>4. ASSUME NEW x \in q.overdue, NEW y \in q.upcoming
      PROVE  x.deadline # y.deadline
  <2>1. x.days < 0 /\ y.days \in 0 .. q.within
    BY <1>2
  <2>2. ~(y.days < 0)
    BY <1>3, <2>1
  <2>3. x.days = Left(x.deadline, q.asOf) /\ y.days = Left(y.deadline, q.asOf)
    BY <1>2
  <2>4. QED
    BY <2>1, <2>2, <2>3
<1>5. ASSUME NEW d \in q.owed, Left(d, q.asOf) <= q.within
      PROVE  (\E x \in q.overdue : x.deadline = d) \/ (\E x \in q.upcoming : x.deadline = d)
  <2>1. Dated(deadlines[d].due)
    BY <1>1, <1>3 DEF DeadlinesStand, Written
  <2>2. Ordinal(deadlines[d].due) \in Int /\ Ordinal(q.asOf) \in Int
    BY <1>3, <2>1, OrdinalMeasures
  <2>3. Left(d, q.asOf) < 0 \/ Left(d, q.asOf) \in 0 .. q.within
    BY <1>3, <1>5, <2>2 DEF Left
  <2>4. QED
    BY <1>1, <2>3 DEF PastStands, ComingStands
<1>6. QED
  BY <1>2, <1>4, <1>5

LEMMA WeekListed ==
  ASSUME FourDigits
  PROVE  OwedInv => WeekIsWhole
<1> SUFFICES ASSUME OwedInv, NEW w \in Windows, doing[w].op = "week",
                    NEW q, q = doing[w], Before(WeekEnd(q.of), q.next)
             PROVE  /\ Len(q.days) = 7
                    /\ Ordinal(q.days[1].date) % 7 = 1
                    /\ \A i \in 2 .. 7 : Ordinal(q.days[i].date) = Ordinal(q.days[i - 1].date) + 1
                    /\ Ordinal(q.of) \in Ordinal(q.days[1].date) .. Ordinal(q.days[7].date)
                    /\ \A d \in q.owed : \A i \in 1 .. 7 :
                         Ordinal(q.days[i].date) = Ordinal(deadlines[d].due) <=> d \in q.days[i].due
  BY DEF WeekIsWhole
<1>1. WeekStands(q) /\ DeadlinesStand
  BY DEF OwedInv, ReadingStands
<1>2. Dated(q.of)
  BY <1>1, FileAssumption DEF WeekStands, Dated
<1>3. PICK monday \in Int, of \in Int :
        /\ monday = Ordinal(WeekStart(q.of)) /\ of = Ordinal(q.of) /\ monday % 7 = 1
        /\ monday <= of /\ of <= monday + 6
        /\ Dated(WeekEnd(q.of)) /\ Ordinal(WeekEnd(q.of)) = monday + 6
  BY <1>2, WeeksBeginOnMonday, OrdinalMeasures
<1>4. PICK n \in Nat : n = Len(q.days) /\ n <= 7
  BY <1>1 DEF WeekStands
<1>5. Dated(q.next) /\ Ordinal(q.next) = monday + n
  BY <1>1, <1>3, <1>4 DEF WeekStands
<1>6. n = 7
  <2>1. Ordinal(WeekEnd(q.of)) < Ordinal(q.next)
    BY <1>3, <1>5, DatesAreOrdered
  <2>2. monday + 6 < monday + n
    BY <1>3, <1>5, <2>1
  <2>3. n > 6
    BY <2>2
  <2>4. n \in Nat /\ n <= 7
    BY <1>4
  <2>5. QED
    BY <2>3, <2>4
<1>7. ASSUME NEW i \in 1 .. 7
      PROVE  /\ Dated(q.days[i].date) /\ Ordinal(q.days[i].date) = monday + (i - 1)
             /\ \A d \in q.owed : q.days[i].date = deadlines[d].due <=> d \in q.days[i].due
  <2>1. i \in 1 .. Len(q.days)
    BY <1>4, <1>6
  <2>2. QED
    BY <1>1, <1>3, <2>1 DEF WeekStands
<1>8. ASSUME NEW i \in 1 .. 7, NEW d \in q.owed
      PROVE  Ordinal(q.days[i].date) = Ordinal(deadlines[d].due) <=> d \in q.days[i].due
  <2>1. Dated(q.days[i].date) /\ Dated(deadlines[d].due)
    <3>1. d \in DOMAIN deadlines
      BY <1>1 DEF WeekStands
    <3>2. QED
      BY <1>1, <1>7, <3>1 DEF DeadlinesStand, Written
  <2>2. q.days[i].date = deadlines[d].due <=> Ordinal(q.days[i].date) = Ordinal(deadlines[d].due)
    BY <2>1, DatesAreOrdered
  <2>3. QED
    BY <1>7, <2>2
<1>9. Ordinal(q.days[1].date) = monday /\ Ordinal(q.days[7].date) = monday + 6
  <2>1. 1 \in 1 .. 7 /\ 7 \in 1 .. 7
    OBVIOUS
  <2>2. Ordinal(q.days[1].date) = monday + (1 - 1) /\ Ordinal(q.days[7].date) = monday + (7 - 1)
    BY <1>7, <2>1
  <2>3. QED
    BY <2>2
<1>10. ASSUME NEW i \in 2 .. 7
       PROVE  Ordinal(q.days[i].date) = Ordinal(q.days[i - 1].date) + 1
  <2>1. i \in 1 .. 7 /\ i - 1 \in 1 .. 7
    OBVIOUS
  <2>2. Ordinal(q.days[i].date) = monday + (i - 1) /\ Ordinal(q.days[i - 1].date) = monday + ((i - 1) - 1)
    BY <1>7, <2>1
  <2>3. QED
    BY <2>2
<1>11. QED
  BY <1>3, <1>4, <1>6, <1>8, <1>9, <1>10

\* upcoming_deadlines, docket_week: nobody's deadline is overlooked, repeated
\* or misplaced in a list or in a week that is read by several queries, while
\* other windows record and meet deadlines between them; in every calendar of
\* four-digit years.
THEOREM DeadlinesAreListedHolds ==
  ASSUME FourDigits
  PROVE  DeskSpec => []DeadlinesAreListed
<1>1. OwedInv => DeadlinesAreListed
  BY OwedListed, WeekListed DEF DeadlinesAreListed
<1>2. QED
  BY <1>1, OwedAlways, PTL

=============================================================================
