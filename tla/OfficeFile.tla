----------------------------- MODULE OfficeFile -----------------------------
(* The rest of the office's file beside its calendar: people with the names *)
(* and numbers they are known by, notes and their revisions, and deadlines. *)
(* Matters and settings are those of Office; a window is in one flow at a   *)
(* time, of the calendar or of the file.                                    *)
(*                                                                          *)
(* A name is [word, first]: the word without its case, and what the first   *)
(* letter is: "small", "capital", or a capital outside ASCII ("accent").     *)
(* A contact is [value, digits], without digits ("") when nobody dials it.  *)
EXTENDS Office, CivilDate, SequencesExt

CONSTANTS
  Drafts,        \* what is typed into the client form: [name, contacts]
  Aliases,       \* names added later
  People,        \* identifiers of client records
  Notes,         \* identifiers of notes
  Deadlines,     \* identifiers of deadlines
  Dates, Spans,  \* dates entered or asked about, days looked ahead
  File,          \* the records the office starts with
  MaxWrites,     \* bound on commands about the file
  MayFailToAsk   \* can the look for known people fail?

\* Notes as they are written: the first of its subject, or the next version of
\* one that nothing else supersedes.
AreChained(table) ==
  /\ \A n \in DOMAIN table :
       \/ table[n].supersedes = {} /\ table[n].version = 1
       \/ \E k \in DOMAIN table : /\ table[n].supersedes = {k}
                                 /\ table[n].version = table[k].version + 1
                                 /\ table[n].subject = table[k].subject
  /\ \A n, m \in DOMAIN table :
       table[n].supersedes = table[m].supersedes => n = m \/ table[n].supersedes = {}

ASSUME FileAssumption ==
  /\ Clients \subseteq People
  /\ DOMAIN File.people \subseteq People
  /\ \A p \in DOMAIN File.people :
       File.people[p] = [names |-> File.people[p].names, contacts |-> File.people[p].contacts,
                         shown |-> File.people[p].shown]
  /\ DOMAIN File.notes \subseteq Notes /\ IsFiniteSet(DOMAIN File.notes)
  /\ \A n \in DOMAIN File.notes : File.notes[n].version \in Nat \ {0}
  /\ AreChained(File.notes)
  /\ DOMAIN File.people \cap DOMAIN File.notes = {}
  /\ DOMAIN File.deadlines \subseteq Deadlines
  /\ \A d \in DOMAIN File.deadlines :
       /\ File.deadlines[d] = [matter |-> File.deadlines[d].matter, due |-> File.deadlines[d].due,
                               met |-> File.deadlines[d].met]
       /\ File.deadlines[d].due \in Int \X Int \X Int /\ IsDate(File.deadlines[d].due)
       /\ File.deadlines[d].met \in BOOLEAN
  /\ \A d \in Dates : d \in Int \X Int \X Int /\ IsDate(d)
  /\ Spans \subseteq Nat /\ MaxWrites \in Nat /\ MayFailToAsk \in BOOLEAN

VARIABLES
  people,      \* clients, client_aliases, client_contacts
  notes,       \* per note: its subject, version and the note it supersedes
  deadlines,   \* per deadline: its matter, its date, whether it is met
  documents,   \* search_documents: what the office search looks through
  written

records == <<people, notes, deadlines, documents>>
fileVars == <<vars, records, written>>

Write == written < MaxWrites /\ written' = written + 1
Calendar == UNCHANGED <<cases, matters, calendar, spent>>

Terms(person) ==
  {n.word : n \in person.names} \cup {c.value : c \in person.contacts}
    \cup {c.digits : c \in person.contacts}

Indexed(file) ==
  [id \in DOMAIN file.people \cup DOMAIN file.notes |->
     IF id \in DOMAIN file.people THEN [kind |-> "client", terms |-> Terms(file.people[id])]
     ELSE [kind |-> "note", terms |-> {id}]]

FileInit ==
  /\ Init
  /\ people = File.people /\ notes = File.notes /\ deadlines = File.deadlines
  /\ documents = Indexed(File)
  /\ written = 0

\* Mutant: a document is replaced by the next one with its identifier.
IsFreeAnyway(id) == TRUE

\* The primary key of search_documents is the identifier of the record alone,
\* so a record of another kind already using it refuses the insert.
IsFree(id) == id \notin DOMAIN documents

----------------------------------------------------------------------------
(* Clients.  The form looks for people the office may already know, shows   *)
(* them, and writes when its user says so.                                  *)

\* to_lowercase of Rust, and lower() of SQLite, which knows ASCII only.
Lowered(name) == [name EXCEPT !.first = "small"]
SqlLowered(name) == IF name.first = "accent" THEN name ELSE Lowered(name)

SharesName(person, name) == \E n \in person.names : SqlLowered(n) = Lowered(name)
SharesContact(person, contacts) ==
  \E c \in person.contacts, d \in contacts :
    c.value = d.value \/ (d.digits # "" /\ c.digits = d.digits)

PossibleDuplicates(draft) ==
  {p \in DOMAIN people :
     SharesName(people[p], draft.name) \/ SharesContact(people[p], draft.contacts)}

\* A look that fails shows nobody.
FillForm(w, draft) ==
  /\ Write
  /\ doing[w] = Idle
  /\ \E shown \in {PossibleDuplicates(draft)} \cup (IF MayFailToAsk THEN {{}} ELSE {}) :
       Become(w, [op |-> "form", draft |-> draft, shown |-> shown])
  /\ Calendar /\ UNCHANGED records

\* create_client: the person with their aliases and contacts, one transaction.
CreateClient(w, p) ==
  LET person == [names |-> {doing[w].draft.name}, contacts |-> doing[w].draft.contacts,
                 shown |-> doing[w].shown]
  IN /\ doing[w].op = "form"
     /\ p \notin DOMAIN people /\ IsFree(p)
     /\ people' = AddRow(people, p, person)
     /\ documents' = AddRow(documents, p, [kind |-> "client", terms |-> Terms(person)])
     /\ Become(w, Idle)
     /\ Calendar /\ UNCHANGED <<notes, deadlines, written>>

AddAlias(w, p, name) ==
  /\ Write
  /\ doing[w] = Idle
  /\ p \in DOMAIN people /\ name \notin people[p].names
  /\ people' = [people EXCEPT ![p].names = @ \cup {name}]
  /\ documents' = [documents EXCEPT ![p].terms = @ \cup {name.word}]
  /\ Calendar /\ UNCHANGED <<doing, notes, deadlines>>

----------------------------------------------------------------------------
(* Notes.  A row is never changed; a revision supersedes one.               *)

Subjects == {<<"client", p>> : p \in DOMAIN people} \cup {<<"matter", m>> : m \in DOMAIN matters}
              \cup {<<"setting", s>> : s \in DOMAIN settings}

InsertNote(n, note) ==
  /\ n \notin DOMAIN notes /\ IsFree(n)
  /\ notes' = AddRow(notes, n, note)
  /\ documents' = AddRow(documents, n, [kind |-> "note", terms |-> {n}])
  /\ UNCHANGED <<people, deadlines>>

WriteNote(w, n, subject) ==
  /\ Write
  /\ doing[w] = Idle
  /\ subject \in Subjects
  /\ InsertNote(n, [subject |-> subject, version |-> 1, supersedes |-> {}])
  /\ Calendar /\ UNCHANGED doing

Successors(n) == {k \in DOMAIN notes : notes[k].supersedes = {n}}

\* revise_note reads the note, and looks for a successor, before it writes.
BeginRevise(w, n) ==
  /\ Write
  /\ doing[w] = Idle
  /\ n \in DOMAIN notes /\ Successors(n) = {}
  /\ Become(w, [op |-> "revise", of |-> n])
  /\ Calendar /\ UNCHANGED records

\* Mutant: no unique index on the note superseded.
SupersedesAny(n) == TRUE

\* idx_notes_supersedes
MaySupersede(n) == Successors(n) = {}

InsertRevision(w, n) ==
  LET old == doing[w].of IN
  /\ doing[w].op = "revise"
  /\ MaySupersede(old)
  /\ InsertNote(n, [subject |-> notes[old].subject, version |-> notes[old].version + 1,
                    supersedes |-> {old}])
  /\ Become(w, Idle)
  /\ Calendar /\ UNCHANGED written

\* notes_for: the versions nobody superseded.
Current(subject) == {n \in DOMAIN notes : notes[n].subject = subject /\ Successors(n) = {}}

\* note_history walks back to the first version.
Back[n \in Notes] ==
  IF n \notin DOMAIN notes THEN << >>
  ELSE IF notes[n].supersedes = {} THEN <<n>>
  ELSE Append(Back[CHOOSE k \in notes[n].supersedes : TRUE], n)
----------------------------------------------------------------------------
(* Deadlines.  A list, or a week, is read by several queries in a row.      *)

RecordDeadline(w, d, m, due) ==
  /\ Write
  /\ doing[w] = Idle
  /\ d \notin DOMAIN deadlines /\ m \in DOMAIN matters
  /\ deadlines' = AddRow(deadlines, d, [matter |-> m, due |-> due, met |-> FALSE])
  /\ Calendar /\ UNCHANGED <<doing, people, notes, documents>>

Satisfy(w, d) ==
  /\ Write
  /\ doing[w] = Idle
  /\ d \in DOMAIN deadlines
  /\ deadlines' = [deadlines EXCEPT ![d].met = TRUE]
  /\ Calendar /\ UNCHANGED <<doing, people, notes, documents>>

Owed == {d \in DOMAIN deadlines : ~deadlines[d].met}
Listed(found, asOf) == {[deadline |-> d, days |-> DaysUntil(asOf, deadlines[d].due)] : d \in found}

\* upcoming_deadlines: first what is past, ...
ReadOverdue(w, asOf, within) ==
  /\ Write
  /\ doing[w] = Idle
  /\ Become(w, [op |-> "overdue", asOf |-> asOf, within |-> within, owed |-> Owed,
                overdue |-> Listed({d \in Owed : TextBefore(deadlines[d].due, asOf)}, asOf)])
  /\ Calendar /\ UNCHANGED records

\* ... then what is coming, up to the horizon.
ReadUpcoming(w) ==
  LET horizon == AddDays(doing[w].asOf, doing[w].within)
      found == {d \in Owed : /\ ~TextBefore(deadlines[d].due, doing[w].asOf)
                             /\ ~TextBefore(horizon, deadlines[d].due)}
  IN /\ doing[w].op = "overdue"
     /\ Become(w, [op |-> "listed", asOf |-> doing[w].asOf, within |-> doing[w].within,
                   owed |-> doing[w].owed \cap Owed, overdue |-> doing[w].overdue,
                   upcoming |-> Listed(found, doing[w].asOf)])
     /\ Calendar /\ UNCHANGED <<records, written>>

BeginWeek(w, day) ==
  /\ Write
  /\ doing[w] = Idle
  /\ Become(w, [op |-> "week", of |-> day, next |-> WeekStart(day), days |-> << >>, owed |-> Owed])
  /\ Calendar /\ UNCHANGED records

\* docket_range reads day after day, up to the end of the week.
ReadDay(w) ==
  LET day == doing[w].next IN
  /\ doing[w].op = "week" /\ ~Before(WeekEnd(doing[w].of), day)
  /\ Become(w, [op |-> "week", of |-> doing[w].of, next |-> AddDays(day, 1),
                days |-> Append(doing[w].days, [date |-> day, due |-> {d \in Owed : deadlines[d].due = day}]),
                owed |-> doing[w].owed \cap Owed])
  /\ Calendar /\ UNCHANGED <<records, written>>

----------------------------------------------------------------------------
FileStep(w) ==
  \/ \E draft \in Drafts : FillForm(w, draft)
  \/ \E p \in People : CreateClient(w, p)
  \/ \E p \in People, name \in Aliases : AddAlias(w, p, name)
  \/ \E n \in Notes, subject \in Subjects : WriteNote(w, n, subject)
  \/ \E n \in Notes : BeginRevise(w, n) \/ InsertRevision(w, n)
  \/ \E d \in Deadlines, m \in Matters, due \in Dates : RecordDeadline(w, d, m, due)
  \/ \E d \in Deadlines : Satisfy(w, d)
  \/ \E asOf \in Dates, within \in Spans : ReadOverdue(w, asOf, within)
  \/ \E day \in Dates : BeginWeek(w, day)
  \/ ReadUpcoming(w) \/ ReadDay(w)

FileNext ==
  \/ Next /\ UNCHANGED <<records, written>>
  \/ \E w \in Windows : FileStep(w)

FileSpec == FileInit /\ [][FileNext]_fileVars

----------------------------------------------------------------------------
(* Properties.                                                              *)

\* The search index agrees with the file whoever writes what: each client and
\* each note, every version of it, is found by all its words and as what it is
\* (0005_search.sql: "the index cannot disagree with the records").
SearchKnowsEveryRecord ==
  /\ \A p \in DOMAIN people : documents[p] = [kind |-> "client", terms |-> Terms(people[p])]
  /\ \A n \in DOMAIN notes : documents[n] = [kind |-> "note", terms |-> {n}]

\* However windows revise one note at once, its versions form one line on one
\* subject, numbered without a gap, and exactly one of them is current.
NotesStandOnce ==
  \A n \in DOMAIN notes :
    /\ \A i \in DOMAIN Back[n] :
         notes[Back[n][i]].version = i /\ notes[Back[n][i]].subject = notes[n].subject
    /\ notes[n].version = 1 =>
         Cardinality({k \in Current(notes[n].subject) : Head(Back[k]) = n}) = 1

\* The days of the proleptic calendar counted one by one from 0001-01-01, a Monday.
Ordinal(date) ==
  LET y == date[1] - 1
      before == {x \in (1..12) \X (1..31) : x[1] < date[2] /\ IsDate(<<date[1], x[1], x[2]>>)}
  IN 365 * y + y \div 4 - y \div 100 + y \div 400 + Cardinality(before) + date[3]

\* A list of what is owed misses nothing and repeats nothing, although it is
\* read in two queries: every deadline not met meanwhile that is due by the last
\* day looked at stands in one of its halves, with the days left or gone by.
OwedIsListed ==
  \A w \in Windows : doing[w].op = "listed" =>
    LET list == doing[w]
        left(d) == Ordinal(deadlines[d].due) - Ordinal(list.asOf)
        past == {x.deadline : x \in list.overdue}
        coming == {x.deadline : x \in list.upcoming}
    IN /\ past \cap coming = {}
       /\ \A x \in list.overdue : x.days = left(x.deadline) /\ x.days < 0
       /\ \A x \in list.upcoming : x.days = left(x.deadline) /\ x.days \in 0..list.within
       /\ {d \in list.owed : left(d) <= list.within} \subseteq past \cup coming

\* A week of the docket runs from a Monday over seven days, the day asked for
\* among them, and shows every deadline not met meanwhile on its day.
WeekIsWhole ==
  \A w \in Windows : doing[w].op = "week" =>
    LET week == doing[w]
        day(i) == Ordinal(week.days[i].date)
    IN Before(WeekEnd(week.of), week.next) =>
         /\ Len(week.days) = 7
         /\ day(1) % 7 = 1 /\ \A i \in 2..7 : day(i) = day(i - 1) + 1
         /\ Ordinal(week.of) \in day(1)..day(7)
         /\ \A d \in week.owed : \A i \in 1..7 :
              day(i) = Ordinal(deadlines[d].due) <=> d \in week.days[i].due

\* deadlines, docket_week: whether it is looked for in the list of what is owed
\* or in the week it is due, nobody's deadline is overlooked or misplaced, while
\* other windows record and meet deadlines between the queries.
DeadlinesAreListed == OwedIsListed /\ WeekIsWhole

\* The form asks before it writes somebody the office knows.  It does not hold:
\* two windows may write one person at once, a name with an accented capital is
\* not found even by itself, and a look that fails shows nobody.
KnownPeopleAreShown ==
  \A p, q \in DOMAIN people : p # q =>
    \/ {Lowered(n) : n \in people[p].names} \cap {Lowered(n) : n \in people[q].names} = {}
    \/ q \in people[p].shown \/ p \in people[q].shown

\* The office search finds notes as they stand.  It does not hold: a version
\* that was superseded keeps its document.
SearchFindsCurrentNotes ==
  \A n \in DOMAIN notes : n \in DOMAIN documents => n \in Current(notes[n].subject)
=============================================================================
