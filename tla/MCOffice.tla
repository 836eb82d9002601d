------------------------------ MODULE MCOffice ------------------------------
(* A small office for TLC: one client called on two matters that share a    *)
(* case, and another client with a matter of their own.                     *)
EXTENDS Desk

CONSTANTS w1, w2, none

MCRow(client, case) == [client |-> client, case |-> case, typed |-> FALSE]

MCCalendars ==
  {[cases |-> {"k1"},
    matters |-> [m1 |-> MCRow("ann", "k1"), m2 |-> MCRow("ann", "k1")],
    settings |-> <<[client |-> "ann", cancelled |-> FALSE]>>,
    covers |-> << {"m1", "m2"} >>],
   [cases |-> {},
    matters |-> [m1 |-> MCRow("ann", none), m2 |-> MCRow("bob", none)],
    settings |-> <<[client |-> "ann", cancelled |-> FALSE]>>,
    covers |-> << {"m1"} >>],
   [cases |-> {"k1"},
    matters |-> [m1 |-> MCRow("ann", "k1"), m2 |-> MCRow("bob", none)],
    settings |-> 2 :> [client |-> "ann", cancelled |-> FALSE],
    covers |-> 2 :> {"m1"}]}

MCName(word, first) == [word |-> word, first |-> first]
MCPhone == [value |-> "(555) 010-2030", digits |-> "5550102030"]
MCPerson(name, contacts) == [names |-> {name}, contacts |-> contacts, shown |-> {}]

\* An identifier may be typed, so a note may be given that of a client.
MCFile ==
  [people |-> [ann |-> MCPerson(MCName("diaz", "capital"), {MCPhone}),
               bob |-> MCPerson(MCName("roy", "small"), {})],
   notes |-> [n1 |-> [subject |-> <<"client", "ann">>, version |-> 1, supersedes |-> {}]],
   deadlines |-> [d1 |-> [matter |-> "m1", due |-> <<1969, 12, 29>>, met |-> FALSE]]]
MCDrafts ==
  {[name |-> MCName("diaz", "small"), contacts |-> {}],
   [name |-> MCName("elan", "accent"), contacts |-> {[value |-> "555-010-2030", digits |-> "5550102030"]}]}
MCAliases == {MCName("dee", "capital")}
MCDates == {<<2028, 2, 29>>, <<1969, 12, 26>>, <<2100, 2, 28>>}

MCShelf == <<"k9", "k2", "k1">>
MCFiled == <<"m3", "m1", "m2">>
MCDays == <<"monday", "monday">>

\* The calendar by itself, the file by itself, a little of both, and windows:
\* commands and events left for each.
MCBudgets == {<<MaxCommands, 0, 0>>, <<0, MaxWrites, 0>>, <<2, 1, 0>>, <<1, 0, MaxClicks>>,
              <<0, 1, MaxClicks - 1>>}
MCInit ==
  /\ \E b \in MCBudgets :
       /\ spent = MaxCommands - b[1] /\ written = MaxWrites - b[2] /\ clicks = MaxClicks - b[3]
       /\ \E r \in Calendars :
            /\ b[3] > 0 <=> 2 \in DOMAIN r.settings
            /\ cases = r.cases /\ matters = r.matters
            /\ settings = r.settings /\ covers = r.covers
  /\ doing = [w \in Windows |-> Idle]
  /\ people = File.people /\ notes = File.notes /\ deadlines = File.deadlines
  /\ documents = Indexed(File)
  /\ desk = [w \in Windows |-> Closed]
  /\ elsewhere = Elsewhere /\ users = {}
MCSpec == MCInit /\ [][DeskNext]_deskVars

Symmetries == Permutations({w1, w2})
=============================================================================
