------------------------------- MODULE Sweep --------------------------------
(* The keyboard session over one original: a cursor and a mark that are     *)
(* places in rows read some time ago, a column, and what the next key will  *)
(* be taken for.  A key that writes changes the session twice: at once, and *)
(* when its version is in the file and the rows have been read again; a key *)
(* that is refused leaves what it had changed at once.  Meanwhile reviewers *)
(* in other windows reject passages, which then leave the rows.             *)
EXTENDS Interpretation

CONSTANTS
  Columns,    \* the columns of this sweep, some of "form", "speaker",
              \* "attributed", "stance", "time", "location", "basis"
  Letters,    \* per column entered by letters: the letters and their values
  People,     \* the entities offered by @
  Pages,      \* per passage: its page
  MaxKeys     \* bound on the keys pressed

ASSUME SweepAssumption ==
  /\ DOMAIN Letters \subseteq Columns \cap {"form", "stance", "basis"}
  /\ DOMAIN Pages = Passage
  /\ MaxKeys \in Nat

VARIABLES
  session,  \* per process: its session, or None
  hoped,    \* per process: the session there will be when its call is written
  keys      \* how many keys have been pressed (keystrokes, of all sessions)

sweepVars == <<session, hoped, keys>>

SweepInit ==
  /\ session = [w \in Processes |-> None]
  /\ hoped = [w \in Processes |-> None]
  /\ keys = 0

----------------------------------------------------------------------------
(* Places.  The first row is 1; a session over no rows stands at 1 too.     *)

Within(n, shown) == Max({1, Min({n, Len(shown)})})

\* Mutant: the cursor is left where it was when the rows are read again.
LandsAnywhere(s, shown) == s

\* refresh_enrichment and the move after it.
Lands(s, shown) == [s EXCEPT !.cursor = Within(@, shown)]

Selected(w) == rows[w][session[w].cursor]
Here(w) == session[w].cursor \in DOMAIN rows[w]

\* EnrichmentPassage::needs, has_candidate.  Columns no reading keeps here may
\* need a value or not.
MayNeed(row, column) ==
  column \in Fields => Effective(row, column).value = None
MustNeed(row, column) == column \in Fields /\ Effective(row, column).value = None

\* move_to_work: the nearest row that way with work on it.
WorkAhead(w, i) ==
  LET s == session[w]
      between == IF i > s.cursor THEN (s.cursor + 1)..(i - 1) ELSE (i + 1)..(s.cursor - 1)
  IN  /\ i # s.cursor
      /\ ShowsCandidate(rows[w][i]) \/ MayNeed(rows[w][i], s.column)
      /\ \A j \in between :
           ~ShowsCandidate(rows[w][j]) /\ ~MustNeed(rows[w][j], s.column)

\* range_indices: from the mark, to the end of the page, or one row.
RangeOf(s, shown, shift) ==
  IF s.mark # 0
  THEN <<Min({s.mark, s.cursor}), Within(Max({s.mark, s.cursor}), shown)>>
  ELSE IF shift
  THEN <<s.cursor,
         Max({j \in s.cursor..Len(shown) : \A i \in s.cursor..j :
                Pages[shown[i].passage] = Pages[shown[s.cursor].passage]})>>
  ELSE <<s.cursor, s.cursor>>

----------------------------------------------------------------------------
(* Keys.                                                                    *)

\* with_enrichment and the first lines of enrichment_key: every key is
\* counted and forgets what the one before it asked for.
Press(w) ==
  /\ session[w] # None
  /\ doing[w] = Idle
  /\ keys < MaxKeys
  /\ keys' = keys + 1

Forgetful(w) == [session[w] EXCEPT !.pending = None]

Becomes(w, s) == session' = [session EXCEPT ![w] = s]

\* A key that only moves or asks.
Moves(w, s) ==
  /\ Press(w)
  /\ Becomes(w, s)
  /\ UNCHANGED <<vars, hoped>>

\* A key that writes: `at once` is what stays if it is refused.
Writes(w, atOnce, written) ==
  /\ Press(w)
  /\ Becomes(w, atOnce)
  /\ hoped' = [hoped EXCEPT ![w] = IF doing'[w] = Idle THEN None ELSE written]

\* What the session is after a version of row i was written.
Past(s, i) == [s EXCEPT !.cursor = i + 1]

\* A value on some rows, remembered when it is in the file; columns that no
\* reading keeps here repeat the row.
Values(w, range, value, s) ==
  /\ IF value.field \in Fields THEN Enter(w, range[1], range[2], value)
     ELSE /\ Key(w, [i \in 1..(range[2] - range[1] + 1) |->
                       Snapshot(rows[w][range[1] + i - 1])])
          /\ UNCHANGED Records
  /\ Writes(w, s, Past([s EXCEPT !.last = value], range[2]))

\* open_enrichment
OpenSession(w) ==
  /\ doing[w] = Idle
  /\ Read # <<>>
  /\ keys < MaxKeys
  /\ keys' = keys + 1
  /\ OpenSweep(w)
  /\ Becomes(w, [column |-> "form", cursor |-> 1, mark |-> 0, marked |-> None,
                 last |-> None, basis |-> FALSE, pending |-> None, command |-> FALSE])
  /\ UNCHANGED hoped

\* move_by
StepRow(w) ==
  \E by \in {-1, 1} :
    Moves(w, [Forgetful(w) EXCEPT !.cursor = Within(@ + by, rows[w])])

\* J and K
WalkToWork(w) ==
  \E i \in DOMAIN rows[w] :
    WorkAhead(w, i) /\ Moves(w, [Forgetful(w) EXCEPT !.cursor = i])

\* enrichment_select: a click or a find.
SelectRow(w) ==
  \E i \in DOMAIN rows[w] : Moves(w, [Forgetful(w) EXCEPT !.cursor = i])

\* F2 to F8
SwitchColumn(w) ==
  \E column \in Columns : Moves(w, [Forgetful(w) EXCEPT !.column = column])

Escape(w) == Moves(w, [Forgetful(w) EXCEPT !.command = TRUE])

MarkRow(w) ==
  Moves(w, [Forgetful(w) EXCEPT
              !.mark = session[w].cursor,
              !.marked = IF Here(w) THEN Selected(w).passage ELSE None])

\* @, t, s and /
Ask(w) ==
  \E what \in {"entity", "time", "span", "search"} :
    Moves(w, [Forgetful(w) EXCEPT !.pending = what])

\* A key that answers with an error, or a submission that nothing asked for or
\* that lacks what it needs.  Only a value with no row to go to has used up the
\* mark by then.
Mistype(w) ==
  \/ Moves(w, Forgetful(w))
  \/ Moves(w, session[w])
  \/ ~Here(w) /\ Moves(w, [Forgetful(w) EXCEPT !.mark = 0, !.marked = None])

\* The letters that are commands before they are values: in lower case always,
\* and u once Esc was pressed.
CommandLetters == {"j", "k", "v", "x", "n", "t", "s", "g", "p"}
IsCommand(s, letter) ==
  letter \in CommandLetters \/ (letter = "u" /\ s.command)

\* A letter of the column, over the mark, to the end of the page, or here.
TypeLetter(w) ==
  LET s == session[w]
  IN  /\ s.column \in DOMAIN Letters
      /\ Here(w)
      /\ \E letter \in DOMAIN Letters[s.column], shift \in BOOLEAN :
           /\ IF shift THEN letter \notin {"j", "k"} ELSE ~IsCommand(s, letter)
           /\ Values(w, RangeOf(s, rows[w], shift),
                     [field |-> s.column, value |-> Letters[s.column][letter]],
                     [Forgetful(w) EXCEPT !.mark = 0, !.marked = None])

\* .
Repeat(w) ==
  /\ Here(w)
  /\ session[w].last # None
  /\ Values(w, <<session[w].cursor, session[w].cursor>>, session[w].last, Forgetful(w))

\* n: the passage stays in the rows, which are not chosen by materiality.
Boilerplate(w) ==
  /\ Here(w)
  /\ Values(w, <<session[w].cursor, session[w].cursor>>,
            [field |-> "materiality", value |-> "boilerplate"], Forgetful(w))

\* Enter and x
AnswerCandidate(w) ==
  /\ Here(w)
  /\ Accept(w, session[w].cursor) \/ Reject(w, session[w].cursor)
  /\ Writes(w, Forgetful(w), Past(Forgetful(w), session[w].cursor))

\* p
TieToParent(w) ==
  /\ Here(w)
  /\ SetParent(w, session[w].cursor)
  /\ Writes(w, Forgetful(w), Past(Forgetful(w), session[w].cursor))

\* u after Esc; the row stays selected.
UndoRow(w) ==
  /\ session[w].command
  /\ Here(w)
  /\ Undo(w, session[w].cursor)
  /\ Writes(w, Forgetful(w), [Forgetful(w) EXCEPT !.command = FALSE])

\* g: a group is no version of a passage, and the rows are not read again.
GroupWithNext(w) ==
  /\ session[w].cursor + 1 \in DOMAIN rows[w]
  /\ Write(w, <<>>, Then(Idle, Idle))
  /\ UNCHANGED Records
  /\ Press(w)
  /\ Becomes(w, Forgetful(w))
  /\ UNCHANGED hoped

\* enrichment_submit_entity: asked for once, whether it is written or not.
SubmitEntity(w) ==
  /\ session[w].pending = "entity"
  /\ session[w].column \in {"speaker", "attributed", "location"}
  /\ Here(w)
  /\ \E who \in People :
       Values(w, <<session[w].cursor, session[w].cursor>>,
              [field |-> session[w].column, value |-> who], Forgetful(w))

\* enrichment_submit_location, which waits for nothing.
SubmitLocation(w) ==
  /\ session[w].column = "location"
  /\ Here(w)
  /\ Values(w, <<session[w].cursor, session[w].cursor>>,
            [field |-> "location", value |-> "text"], Forgetful(w))

\* enrichment_submit_time: a normalized time needs a basis, its own or the
\* last one given, and the basis is kept before the time is written.
SubmitTime(w) ==
  /\ session[w].pending = "time"
  /\ Here(w)
  /\ \E kind \in {"asserted", "with basis", "kept basis"} :
       LET asked == [session[w] EXCEPT !.basis = @ \/ kind = "with basis"]
       IN  /\ kind = "kept basis" => session[w].basis
           /\ Key(w, <<Snapshot(Selected(w))>>)
           /\ UNCHANGED Records
           /\ Writes(w, asked, Past([asked EXCEPT !.pending = None], asked.cursor))

\* enrichment_submit_span: a version of part of the passage, which no row shows.
SubmitSpan(w) ==
  /\ session[w].pending = "span"
  /\ Here(w)
  /\ Key(w, <<>>)
  /\ UNCHANGED Records
  /\ Writes(w, session[w], Forgetful(w))

----------------------------------------------------------------------------
(* What becomes of a key that writes, and other people.                     *)

SessionRefresh(w) ==
  /\ Refresh(w)
  /\ Becomes(w, Lands(hoped[w], rows'[w]))
  /\ hoped' = [hoped EXCEPT ![w] = None]
  /\ UNCHANGED keys

KeyIsCommitted(w) == Commit(w) /\ UNCHANGED sweepVars

KeyIsRefused(w) ==
  /\ Refuse(w)
  /\ hoped' = [hoped EXCEPT ![w] = None]
  /\ UNCHANGED <<session, keys>>

\* A reviewer rejects what was extracted (another window: this one is modal).
Withhold(w, p) ==
  /\ doing[w] = Idle
  /\ p \notin withheld
  /\ withheld' = withheld \cup {p}
  /\ moved' = [x \in Processes |->
                 IF x = w \/ doing[x] = Idle THEN moved[x] ELSE [run |-> TRUE, read |-> TRUE]]
  /\ UNCHANGED <<readings, profiles, rows, doing, sweepVars>>

SweepNext ==
  \/ \E w \in Processes :
       \/ OpenSession(w)
       \/ /\ session[w] # None
          /\ \/ StepRow(w) \/ WalkToWork(w) \/ SelectRow(w) \/ SwitchColumn(w)
             \/ Escape(w) \/ MarkRow(w) \/ Ask(w) \/ Mistype(w)
             \/ TypeLetter(w) \/ Repeat(w) \/ Boilerplate(w)
             \/ AnswerCandidate(w) \/ TieToParent(w) \/ UndoRow(w) \/ GroupWithNext(w)
             \/ SubmitEntity(w) \/ SubmitLocation(w) \/ SubmitTime(w) \/ SubmitSpan(w)
       \/ SessionRefresh(w) \/ KeyIsCommitted(w) \/ KeyIsRefused(w)
  \/ \E w \in Processes, p \in Passage : session[w] = None /\ Withhold(w, p)

----------------------------------------------------------------------------
(* Properties.                                                              *)

\* The value `.` repeats is one this file was given: a value whose key was
\* refused is not entered behind the reviewer's back on the next passage.
RepeatsWhatWasWritten ==
  \A w \in Processes :
    session[w] # None /\ session[w].last # None /\ session[w].last.field \in Fields =>
      \E v \in DOMAIN readings :
        readings[v].value[session[w].last.field] = session[w].last.value

\* While there are rows the cursor is on one of them, whatever was rejected
\* while the key was under way: every index a key uses exists.
CursorIsOnARow ==
  \A w \in Processes :
    session[w] # None => session[w].cursor = Within(session[w].cursor, rows[w])

\* A range that is being written is one stretch of the passages of the
\* original as the rows showed them, in their order, none of them twice.
StretchesAreWhole ==
  \A w \in Processes :
    session[w] # None /\ doing[w].op = "append" /\ hoped[w] # None =>
      LET batch == doing[w].batch
      IN  /\ batch = <<>> => session[w].pending = "span"
          /\ \A i, j \in DOMAIN batch :
               i < j => \E a, b \in DOMAIN rows[w] :
                 /\ a < b
                 /\ b = a + (j - i) \/ batch[j].parent # 0
                 /\ rows[w][a].passage = batch[i].passage
                 /\ rows[w][b].passage = batch[j].passage

\* docs/enrichment.md: mark here, move, apply to the range.  It does not hold:
\* the mark is a place, and the rows move under it.
MarkKeepsItsPassage ==
  \A w \in Processes :
    session[w] # None /\ session[w].marked # None =>
      /\ session[w].mark \in DOMAIN rows[w]
      /\ rows[w][session[w].mark].passage = session[w].marked

\* key_sheet: each letter listed for a column enters its value.  It does not
\* hold: s and t of the basis column are commands.
SheetIsTrue ==
  \A column \in DOMAIN Letters : DOMAIN Letters[column] \cap CommandLetters = {}

SessionFollowsTheFile == RepeatsWhatWasWritten /\ CursorIsOnARow /\ StretchesAreWhole
=============================================================================
