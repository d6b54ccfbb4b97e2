------------------------------- MODULE Clinic -------------------------------
(***************************************************************************)
(* The database of SQL/BD_project and the pages of its web application     *)
(* that change it.  A page is a process that executes its statements one   *)
(* after another and then commits, whatever happened (web/app.cgi); the    *)
(* transactions of several pages interleave as PostgreSQL lets them under  *)
(* READ COMMITTED: a statement sees what is committed and what its own     *)
(* transaction wrote, and waits for the locks of the others.  Tables are   *)
(* reduced to their keys and the columns a constraint is about.            *)
(***************************************************************************)
EXTENDS Naturals, Sequences

CONSTANTS
  Sessions,       \* pages being served at once
  Doctors, Patients, Specialties,
  Consultas,      \* consultations, of a doctor and a patient: no page changes them
  Analyses, Sales,
  Populations,    \* what the tables may have been loaded with
  Bounds,         \* the sets of pages one of which is asked for in a behaviour
  Absent,         \* in place of a row that is not there
  Null

Row == ({"medico"} \X Doctors) \cup ({"prescricao"} \X Consultas)
       \cup ({"venda_farmacia"} \X Sales) \cup ({"analise"} \X Analyses)
       \cup ({"prescricao_venda"} \X (Consultas \X Sales))

Medico  == [especialidade : Specialties]
Analise == [especialidade : Specialties, num_cedula : Doctors \cup {Null},
            num_doente : Patients \cup {Null}]
Empty   == <<>>  \* the rows whose other columns are left out

ASSUME ClinicAssumption ==
  /\ Consultas \subseteq Doctors \X Patients
  /\ Absent \notin Medico \cup Analise \cup {Empty}
  /\ Bounds \subseteq SUBSET {"iedmedico", "iedprescricao", "iedanalise", "vendasprescricao",
                              "vendassemprescricao"}

-----------------------------------------------------------------------------
\* The pages: sequences of statements.

Insert(row, value)  == [op |-> "insert", row |-> row, value |-> value]
Update(row, fields) == [op |-> "update", row |-> row, value |-> fields]
Delete(row)         == [op |-> "delete", row |-> row, value |-> Empty]

iedmedico ==
  {<<stmt>> : stmt \in
     UNION {{Insert(<<"medico", d>>, m), Update(<<"medico", d>>, m), Delete(<<"medico", d>>)} :
            d \in Doctors, m \in Medico}}

iedprescricao ==
  UNION {{<<Insert(<<"prescricao", c>>, Empty)>>, <<Delete(<<"prescricao", c>>)>>} :
         c \in Consultas}

\* An edit has an UPDATE for each column that was filled in.
EditAnalise(n, e, d, p) ==
  (IF e = Null THEN <<>> ELSE <<Update(<<"analise", n>>, [especialidade |-> e])>>)
  \o (IF d = Null THEN <<>> ELSE <<Update(<<"analise", n>>, [num_cedula |-> d])>>)
  \o (IF p = Null THEN <<>> ELSE <<Update(<<"analise", n>>, [num_doente |-> p])>>)

iedanalise ==
  {<<Insert(<<"analise", n>>, a)>> : n \in Analyses, a \in Analise}
  \cup {<<Delete(<<"analise", n>>)>> : n \in Analyses}
  \cup {EditAnalise(n, e, d, p) : n \in Analyses, e \in Specialties \cup {Null},
          d \in Doctors \cup {Null}, p \in Patients \cup {Null}}

SellPrescribed(v, c) ==
  <<Insert(<<"venda_farmacia", v>>, Empty), Insert(<<"prescricao_venda", <<c, v>>>>, Empty)>>

vendasprescricao == {SellPrescribed(v, c) : v \in Sales, c \in Consultas}

vendassemprescricao == {<<Insert(<<"venda_farmacia", v>>, Empty)>> : v \in Sales}

Served(route) ==
  CASE route = "iedmedico"     -> iedmedico
    [] route = "iedprescricao" -> iedprescricao
    [] route = "iedanalise"    -> iedanalise
    [] route = "vendasprescricao"    -> vendasprescricao
    [] route = "vendassemprescricao" -> vendassemprescricao

Pages(routes) == (UNION {Served(route) : route \in routes}) \ {<<>>}

-----------------------------------------------------------------------------
\* The constraints.

\* Mutation: sales without a foreign key to prescriptions.
ParentsSaleOnly(row) ==
  IF row[1] = "prescricao_venda" THEN {<<"venda_farmacia", row[2][2]>>} ELSE {}

\* Foreign keys of a row to rows that pages change.
Parents(row) ==
  IF row[1] = "prescricao_venda"
  THEN {<<"prescricao", row[2][1]>>, <<"venda_farmacia", row[2][2]>>}
  ELSE {}

Linked(a) == a.num_cedula # Null /\ a.num_doente # Null

\* Mutation: the specialty is compared with that of any doctor.
ri_analise_any(view, a) ==
  Linked(a) => \E d \in Doctors : /\ view[<<"medico", d>>] # Absent
                                  /\ view[<<"medico", d>>].especialidade = a.especialidade

ri_analise_proc(view, a) ==
  Linked(a) => LET doctor == view[<<"medico", a.num_cedula>>] IN
               doctor # Absent => doctor.especialidade = a.especialidade

ri_analise_aux(a) == (a.num_cedula = Null) <=> (a.num_doente = Null)

\* What schema.sql asks of a row.
Fits(row, value) ==
  \/ row[1] = "medico" /\ value \in Medico
  \/ row[1] = "analise" /\ value \in Analise /\ ri_analise_aux(value)
  \/ row[1] \notin {"medico", "analise"} /\ value = Empty

Referred(view, row, value) ==
  /\ \A parent \in Parents(row) : view[parent] # Absent
  /\ row[1] = "analise" /\ Linked(value) => <<value.num_cedula, value.num_doente>> \in Consultas

MayHold(view, row, value) ==
  /\ Referred(view, row, value)
  /\ row[1] = "analise" => ri_analise_aux(value) /\ ri_analise_proc(view, value)

MayGo(view, row) ==
  /\ \A child \in Row : view[child] # Absent => row \notin Parents(child)
  /\ row[1] = "medico" => \A c \in Consultas : c[1] # row[2]

\* The tables are loaded before the triggers are there: what breaks their rule
\* goes in, as long as the keys, the checks and the foreign keys hold.
ASSUME PopulationsAssumption ==
  \A table \in Populations :
    /\ DOMAIN table = Row
    /\ \A c \in Consultas : table[<<"medico", c[1]>>] # Absent
    /\ \A r \in Row : table[r] # Absent => Fits(r, table[r]) /\ Referred(table, r, table[r])

-----------------------------------------------------------------------------
VARIABLES
  db,       \* what is committed: the row, or Absent
  request,  \* the page each session serves
  next,     \* and the statement it comes to
  mine,     \* what its transaction has written: a function of some rows
  offered,  \* bound: the pages asked for in this behaviour
  overtaken,  \* history: doctors edited since the session last wrote
  sold        \* history: sales that a page made with a prescription

sessionVars == <<request, next, mine>>
histVars    == <<overtaken, sold>>
vars == <<db, sessionVars, offered, histVars>>

Idle(s) == request[s] = <<>>

Written(s) == DOMAIN mine[s]

View(s) == [r \in Row |-> IF r \in Written(s) THEN mine[s][r] ELSE db[r]]

TypeOK ==
  /\ DOMAIN db = Row
  /\ \A r \in Row : db[r] # Absent => Fits(r, db[r])
  /\ request \in [Sessions -> Pages(offered) \cup {<<>>}]
  /\ DOMAIN next = Sessions /\ DOMAIN mine = Sessions
  /\ \A s \in Sessions : next[s] \in 1 .. Len(request[s]) + 1 /\ Written(s) \subseteq Row
  /\ overtaken \in [Sessions -> SUBSET Doctors] /\ sold \subseteq Sales /\ offered \in Bounds

\* Whatever was loaded, as populate.sql loads analyses of another specialty than
\* their doctor's and a sale of two prescriptions.
Init ==
  /\ db \in Populations
  /\ request = [s \in Sessions |-> <<>>]
  /\ next = [s \in Sessions |-> 1]
  /\ mine = [s \in Sessions |-> <<>>]
  /\ overtaken = [s \in Sessions |-> {}] /\ sold = {}
  /\ offered \in Bounds

-----------------------------------------------------------------------------
\* The pages at work.

\* The locks: a statement waits for another transaction that wrote its row, or
\* deleted one its row refers to; a deletion also for one whose row refers to it.
\* An UPDATE or a DELETE does not see a row that is inserted and not committed.
Blocked(s, stmt) ==
  \E t \in Sessions \ {s} :
    \/ stmt.row \in Written(t) /\ (stmt.op = "insert" \/ db[stmt.row] # Absent)
    \/ stmt.op # "delete" /\ \E parent \in Parents(stmt.row) \cap Written(t) :
                               mine[t][parent] = Absent
    \/ stmt.op = "delete" /\ \E child \in Written(t) : stmt.row \in Parents(child)

\* A GET with the form's fields in its URL.  The same one comes again when the
\* user reloads the page.
Get(s) ==
  /\ Idle(s)
  /\ \E page \in Pages(offered) : request' = [request EXCEPT ![s] = page]
  /\ next' = [next EXCEPT ![s] = 1]
  /\ UNCHANGED <<db, mine, offered, histVars>>

Stmt(s) == request[s][next[s]]

Current(s) == next[s] <= Len(request[s]) /\ ~Blocked(s, Stmt(s))

Changed(old, fields) ==
  [f \in DOMAIN old |-> IF f \in DOMAIN fields THEN fields[f] ELSE old[f]]

Write(s, row, value) ==
  /\ mine' = [mine EXCEPT ![s] = [r \in Written(s) \cup {row} |->
                                    IF r = row THEN value ELSE mine[s][r]]]
  /\ overtaken' = [overtaken EXCEPT ![s] = {}]

\* An UPDATE or a DELETE of a row that is not there has no effect and no error.
Execute(s) ==
  LET view == View(s)
      stmt == Stmt(s)
      row  == stmt.row
      old  == view[row]
  IN /\ Current(s)
     /\ next' = [next EXCEPT ![s] = @ + 1]
     /\ \/ /\ stmt.op = "insert" /\ old = Absent
           /\ MayHold(view, row, stmt.value)
           /\ Write(s, row, stmt.value)
        \/ /\ stmt.op = "update" /\ old # Absent
           /\ MayHold(view, row, Changed(old, stmt.value))
           /\ Write(s, row, Changed(old, stmt.value))
        \/ /\ stmt.op = "delete" /\ old # Absent
           /\ MayGo(view, row)
           /\ Write(s, row, Absent)
        \/ /\ stmt.op # "insert" /\ old = Absent
           /\ UNCHANGED <<mine, overtaken>>
     /\ UNCHANGED <<db, request, offered, sold>>

\* Mutation: a statement that fails is rolled back alone.
FailAlone(s) ==
  LET view == View(s)
      stmt == Stmt(s)
      row  == stmt.row
      old  == view[row]
  IN /\ Current(s)
     /\ \/ stmt.op = "insert" /\ (old # Absent \/ ~MayHold(view, row, stmt.value))
        \/ stmt.op = "update" /\ old # Absent /\ ~MayHold(view, row, Changed(old, stmt.value))
        \/ stmt.op = "delete" /\ old # Absent /\ ~MayGo(view, row)
     /\ next' = [next EXCEPT ![s] = @ + 1]
     /\ UNCHANGED <<db, request, mine, offered, histVars>>

\* An error ends the transaction, and the exception the statements.
Fail(s) ==
  LET view == View(s)
      stmt == Stmt(s)
      row  == stmt.row
      old  == view[row]
  IN /\ Current(s)
     /\ \/ stmt.op = "insert" /\ (old # Absent \/ ~MayHold(view, row, stmt.value))
        \/ stmt.op = "update" /\ old # Absent /\ ~MayHold(view, row, Changed(old, stmt.value))
        \/ stmt.op = "delete" /\ old # Absent /\ ~MayGo(view, row)
     /\ request' = [request EXCEPT ![s] = <<>>]
     /\ next' = [next EXCEPT ![s] = 1]
     /\ mine' = [mine EXCEPT ![s] = <<>>]
     /\ overtaken' = [overtaken EXCEPT ![s] = {}]
     /\ UNCHANGED <<db, offered, sold>>

\* The doctors that s edits are news to the sessions that have written.
Overtake(s) ==
  [t \in Sessions |->
     IF t = s \/ Written(t) = {} THEN {}
     ELSE overtaken[t] \cup {d \in Doctors : db[<<"medico", d>>] # View(s)[<<"medico", d>>]}]

\* Mutation: each statement is committed as soon as it is executed.
CommitEach(s) ==
  /\ ~Idle(s) /\ next[s] > 1
  /\ db' = View(s)
  /\ mine' = [mine EXCEPT ![s] = <<>>]
  /\ IF next[s] > Len(request[s])
     THEN request' = [request EXCEPT ![s] = <<>>] /\ next' = [next EXCEPT ![s] = 1]
     ELSE UNCHANGED <<request, next>>
  /\ overtaken' = Overtake(s)
  /\ sold' = sold \cup (IF request[s] \in vendasprescricao THEN {request[s][1].row[2]} ELSE {})
  /\ UNCHANGED offered

\* finally: the page commits.
Commit(s) ==
  /\ ~Idle(s) /\ next[s] > Len(request[s])
  /\ db' = View(s)
  /\ request' = [request EXCEPT ![s] = <<>>]
  /\ next' = [next EXCEPT ![s] = 1]
  /\ mine' = [mine EXCEPT ![s] = <<>>]
  /\ overtaken' = Overtake(s)
  /\ sold' = sold \cup (IF request[s] \in vendasprescricao THEN {request[s][1].row[2]} ELSE {})
  /\ UNCHANGED offered

Next == \E s \in Sessions : Get(s) \/ Execute(s) \/ Fail(s) \/ Commit(s)

Spec == Init /\ [][Next]_vars

-----------------------------------------------------------------------------
\* Properties.

There(r) == db[r] # Absent

\* A sale that a page makes with a prescription is recorded with that one alone,
\* or not at all, however often the page is loaded and whatever is sold meanwhile.
\* And what is committed refers to what is committed, although a page checks it
\* long before: no prescription goes while a sale of it comes.  Columns hold what
\* they are declared to.
SaleIsWhole ==
  /\ TypeOK
  /\ \A v \in Sales :
       LET used == {c \in Consultas : There(<<"prescricao_venda", <<c, v>>>>)} IN
       /\ v \in sold => There(<<"venda_farmacia", v>>) /\ \E c \in Consultas : used = {c}
       /\ \A c \in used : There(<<"prescricao", c>>) /\ There(<<"venda_farmacia", v>>)

\* An edit of an analysis leaves no column out once it has changed one: what is
\* committed is a last part of its statements, all of them unless the analysis
\* was not there yet for the first.
EditIsWhole ==
  [][\A s \in Sessions, n \in Analyses :
       LET row   == <<"analise", n>>
           edits == {i \in 1 .. Len(request[s]) : request[s][i].op = "update"}
           done(i) == db'[row] = Changed(db'[row], request[s][i].value)
           left(i) == \A f \in DOMAIN request[s][i].value : db'[row][f] = db[row][f]
       IN Commit(s) /\ row \in Written(s) /\ edits # {}
          => \E k \in edits : \A i \in edits : IF i >= k THEN done(i) ELSE left(i)]_vars

Mismatch(n) ==
  LET a == db[<<"analise", n>>] IN
  /\ a # Absent /\ Linked(a)
  /\ db[<<"medico", a.num_cedula>>].especialidade # a.especialidade

Commits(s, row) == Commit(s) /\ row \in Written(s)

\* "especialidade does not match especialidade on medico" (RI.sql:33) comes to be
\* so of an analysis linked to a consultation, or is so of one that is written
\* again, in two ways only: its doctor is edited, which nothing checks, or was
\* edited by another page after the last statement of the one that commits the
\* analysis.  Those of an edit before it are each checked against the row as it
\* is then.  What was loaded with another specialty may stay.
MismatchesExplained ==
  [][\A n \in Analyses :
       LET row == <<"analise", n>>
           d   == db'[row].num_cedula
       IN Mismatch(n)' =>
            \/ \E s \in Sessions : Commits(s, row) /\ d \in overtaken[s]
            \/ \E s \in Sessions : Commits(s, <<"medico", d>>)
            \/ Mismatch(n) /\ \A s \in Sessions : ~Commits(s, row)]_vars
=============================================================================
