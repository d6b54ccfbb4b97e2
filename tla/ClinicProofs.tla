---------------------------- MODULE ClinicProofs ----------------------------
(***************************************************************************)
(* Theorems about Clinic, for any sets of sessions, doctors, patients,     *)
(* consultations, analyses and sales, and any pages asked for together.    *)
(***************************************************************************)
EXTENDS Clinic, SequenceTheorems, TLAPS

USE ClinicAssumption

-----------------------------------------------------------------------------
\* The pages: what their statements are.

\* The columns an UPDATE of an analysis may change.
Column(fields) ==
  \/ \E e \in Specialties : fields = [especialidade |-> e]
  \/ \E d \in Doctors : fields = [num_cedula |-> d]
  \/ \E p \in Patients : fields = [num_doente |-> p]

\* A page of one statement, which is not about a sale made with a prescription.
Single(page) ==
  /\ Len(page) = 1
  /\ \/ \E d \in Doctors, m \in Medico :
          page[1] \in {Insert(<<"medico", d>>, m), Update(<<"medico", d>>, m), Delete(<<"medico", d>>)}
     \/ \E c \in Consultas :
          page[1] \in {Insert(<<"prescricao", c>>, Empty), Delete(<<"prescricao", c>>)}
     \/ \E n \in Analyses, a \in Analise : page[1] = Insert(<<"analise", n>>, a)
     \/ \E n \in Analyses : page[1] = Delete(<<"analise", n>>)
     \/ \E v \in Sales : page[1] = Insert(<<"venda_farmacia", v>>, Empty)

\* The edit of an analysis: no column twice.
Edit(page) ==
  /\ page # <<>>
  /\ \E n \in Analyses : \A i \in 1 .. Len(page) :
       /\ page[i].op = "update" /\ page[i].row = <<"analise", n>> /\ Column(page[i].value)
       /\ \A j \in 1 .. Len(page) :
            j # i => DOMAIN page[i].value \cap DOMAIN page[j].value = {}

\* A sale with a prescription.
Prescribed(page) ==
  \E v \in Sales, c \in Consultas : page = SellPrescribed(v, c)


LEMMA TwoStatements ==
  ASSUME NEW x, NEW y
  PROVE  <<x>> \o <<y>> = <<x, y>>
<1> DEFINE S == {x, y}
<1>1. <<x>> \in Seq(S) /\ <<y>> \in Seq(S) /\ <<x, y>> \in Seq(S)
  OBVIOUS
<1>2. <<x>> \o <<y>> \in Seq(S) /\ Len(<<x>> \o <<y>>) = 2
  BY <1>1, ConcatProperties
<1>3. \A i \in 1 .. 2 : (<<x>> \o <<y>>)[i] = <<x, y>>[i]
  BY <1>1, ConcatProperties
<1>4. Len(<<x, y>>) = 2
  OBVIOUS
<1> HIDE DEF S
<1>. QED
  BY <1>1, <1>2, <1>3, <1>4, SeqEqual

LEMMA ThreeStatements ==
  ASSUME NEW x, NEW y, NEW z
  PROVE  <<x, y>> \o <<z>> = <<x, y, z>>
<1> DEFINE S == {x, y, z}
<1>1. <<x, y>> \in Seq(S) /\ <<z>> \in Seq(S) /\ <<x, y, z>> \in Seq(S)
  OBVIOUS
<1>2. <<x, y>> \o <<z>> \in Seq(S) /\ Len(<<x, y>> \o <<z>>) = 3
  BY <1>1, ConcatProperties
<1>3. \A i \in 1 .. 3 : (<<x, y>> \o <<z>>)[i] = <<x, y, z>>[i]
  BY <1>1, ConcatProperties
<1>4. Len(<<x, y, z>>) = 3
  OBVIOUS
<1> HIDE DEF S
<1>. QED
  BY <1>1, <1>2, <1>3, <1>4, SeqEqual

\* The three parts of an edit, put together.
LEMMA ThreeParts ==
  ASSUME NEW x, NEW y, NEW z
  PROVE  /\ <<>> \o <<>> \o <<>> = <<>>
         /\ <<x>> \o <<>> \o <<>> = <<x>>
         /\ <<>> \o <<y>> \o <<>> = <<y>>
         /\ <<>> \o <<>> \o <<z>> = <<z>>
         /\ <<x>> \o <<y>> \o <<>> = <<x, y>>
         /\ <<x>> \o <<>> \o <<z>> = <<x, z>>
         /\ <<>> \o <<y>> \o <<z>> = <<y, z>>
         /\ <<x>> \o <<y>> \o <<z>> = <<x, y, z>>
<1>1. /\ <<x>> \in Seq({x, y, z}) /\ <<y>> \in Seq({x, y, z}) /\ <<z>> \in Seq({x, y, z})
      /\ <<>> \in Seq({x, y, z}) /\ <<x, y>> \in Seq({x, y, z})
  OBVIOUS
<1>2. \A s \in {<<>>, <<x>>, <<y>>, <<z>>, <<x, y>>} : s \o <<>> = s /\ <<>> \o s = s
  BY <1>1, ConcatEmptySeq
<1>. QED
  BY <1>2, TwoStatements, ThreeStatements

LEMMA EditShape ==
  ASSUME NEW n \in Analyses, NEW e \in Specialties \cup {Null}, NEW d \in Doctors \cup {Null},
         NEW p \in Patients \cup {Null}, EditAnalise(n, e, d, p) # <<>>
  PROVE  Edit(EditAnalise(n, e, d, p)) /\ Len(EditAnalise(n, e, d, p)) \in 1 .. 3
<1> DEFINE E == Update(<<"analise", n>>, [especialidade |-> e])
           D == Update(<<"analise", n>>, [num_cedula |-> d])
           P == Update(<<"analise", n>>, [num_doente |-> p])
           page == EditAnalise(n, e, d, p)
           Is(stmt) == /\ stmt.op = "update" /\ stmt.row = <<"analise", n>>
                       /\ Column(stmt.value)
<1>1. /\ e # Null => Is(E)
      /\ d # Null => Is(D)
      /\ p # Null => Is(P)
  BY DEF Update, Column
<1>2. /\ DOMAIN E.value \cap DOMAIN D.value = {} /\ DOMAIN D.value \cap DOMAIN E.value = {}
      /\ DOMAIN E.value \cap DOMAIN P.value = {} /\ DOMAIN P.value \cap DOMAIN E.value = {}
      /\ DOMAIN D.value \cap DOMAIN P.value = {} /\ DOMAIN P.value \cap DOMAIN D.value = {}
  BY DEF Update
<1>3. page = (IF e = Null THEN <<>> ELSE <<E>>) \o (IF d = Null THEN <<>> ELSE <<D>>)
               \o (IF p = Null THEN <<>> ELSE <<P>>)
  BY DEF EditAnalise
<1> HIDE DEF E, D, P
<1>4. /\ \/ e # Null /\ d = Null /\ p = Null /\ page = <<E>>
         \/ e = Null /\ d # Null /\ p = Null /\ page = <<D>>
         \/ e = Null /\ d = Null /\ p # Null /\ page = <<P>>
         \/ e # Null /\ d # Null /\ p = Null /\ page = <<E, D>>
         \/ e # Null /\ d = Null /\ p # Null /\ page = <<E, P>>
         \/ e = Null /\ d # Null /\ p # Null /\ page = <<D, P>>
         \/ e # Null /\ d # Null /\ p # Null /\ page = <<E, D, P>>
  <2>1. page = <<>> => FALSE
    OBVIOUS
  <2>2. /\ <<>> \o <<>> \o <<>> = <<>>
        /\ <<E>> \o <<>> \o <<>> = <<E>>
        /\ <<>> \o <<D>> \o <<>> = <<D>>
        /\ <<>> \o <<>> \o <<P>> = <<P>>
        /\ <<E>> \o <<D>> \o <<>> = <<E, D>>
        /\ <<E>> \o <<>> \o <<P>> = <<E, P>>
        /\ <<>> \o <<D>> \o <<P>> = <<D, P>>
        /\ <<E>> \o <<D>> \o <<P>> = <<E, D, P>>
    BY ThreeParts
  <2> HIDE DEF page
  <2>. QED
    BY <1>3, <2>1, <2>2, Zenon
<1> HIDE DEF page
<1>5. Len(page) \in 1 .. 3 /\ page # <<>>
  BY <1>4
<1>6. \A i \in 1 .. Len(page) : Is(page[i])
  <2> HIDE DEF Is
  <2>. QED  BY <1>1, <1>4
<1>7. \A i, j \in 1 .. Len(page) : j # i => DOMAIN page[i].value \cap DOMAIN page[j].value = {}
  BY <1>2, <1>4
<1>. QED
  BY <1>5, <1>6, <1>7 DEF Edit, page

\* A page is of one of three kinds, whatever is asked for.
LEMMA PageKinds ==
  ASSUME NEW routes \in Bounds, NEW page \in Pages(routes)
  PROVE  /\ Len(page) \in 1 .. 3
         /\ Single(page) \/ Edit(page) \/ Prescribed(page)
<1>1. PICK route \in routes : page \in Served(route)
  BY DEF Pages
<1>2. page # <<>>
  BY DEF Pages
<1>3. route \in {"iedmedico", "iedprescricao", "iedanalise", "vendasprescricao",
                 "vendassemprescricao"}
  OBVIOUS
<1> DEFINE Goal == Len(page) \in 1 .. 3 /\ (Single(page) \/ Edit(page) \/ Prescribed(page))
<1>4. ASSUME NEW stmt, page = <<stmt>>, Single(<<stmt>>)
      PROVE  Goal
  BY <1>4
<1>5. CASE route = "iedmedico"
  <2>1. page \in iedmedico
    BY <1>1, <1>5 DEF Served
  <2>2. PICK d \in Doctors, m \in Medico :
          \E stmt \in {Insert(<<"medico", d>>, m), Update(<<"medico", d>>, m), Delete(<<"medico", d>>)} :
            page = <<stmt>>
    BY <2>1 DEF iedmedico
  <2>3. PICK stmt \in {Insert(<<"medico", d>>, m), Update(<<"medico", d>>, m), Delete(<<"medico", d>>)} :
          page = <<stmt>>
    BY <2>2
  <2>4. Single(<<stmt>>)
    BY <2>3 DEF Single
  <2>. QED
    BY <1>4, <2>3, <2>4
<1>6. CASE route = "iedprescricao"
  <2>1. page \in iedprescricao
    BY <1>1, <1>6 DEF Served
  <2>2. PICK c \in Consultas :
          page \in {<<Insert(<<"prescricao", c>>, Empty)>>, <<Delete(<<"prescricao", c>>)>>}
    BY <2>1 DEF iedprescricao
  <2>3. PICK stmt \in {Insert(<<"prescricao", c>>, Empty), Delete(<<"prescricao", c>>)} : page = <<stmt>>
    BY <2>2
  <2>4. Single(<<stmt>>)
    BY <2>3 DEF Single
  <2>. QED
    BY <1>4, <2>3, <2>4
<1>7. CASE route = "iedanalise"
  <2>1. CASE \E n \in Analyses, a \in Analise : page = <<Insert(<<"analise", n>>, a)>>
    BY <1>4, <2>1 DEF Single
  <2>2. CASE \E n \in Analyses : page = <<Delete(<<"analise", n>>)>>
    BY <1>4, <2>2 DEF Single
  <2>3. CASE \E n \in Analyses, e \in Specialties \cup {Null}, d \in Doctors \cup {Null},
                p \in Patients \cup {Null} : page = EditAnalise(n, e, d, p)
    BY <1>2, <2>3, EditShape
  <2>4. page \in iedanalise
    BY <1>1, <1>7 DEF Served
  <2>. QED
    BY <2>1, <2>2, <2>3, <2>4, SMT DEF iedanalise
<1>8. CASE route = "vendasprescricao"
  <2>1. Served(route) = vendasprescricao
    BY <1>8 DEF Served
  <2>2. \E v \in Sales, c \in Consultas : page = SellPrescribed(v, c)
    BY <1>1, <2>1 DEF vendasprescricao
  <2>. QED
    BY <2>2 DEF Prescribed, SellPrescribed
<1>9. CASE route = "vendassemprescricao"
  BY <1>1, <1>4, <1>9 DEF Served, vendassemprescricao, Single
<1>. QED
  BY <1>3, <1>5, <1>6, <1>7, <1>8, <1>9

\* What a statement of a page may be.
Statement(stmt) ==
  \/ \E d \in Doctors :
       /\ stmt.row = <<"medico", d>>
       /\ \/ stmt.op \in {"insert", "update"} /\ stmt.value \in Medico
          \/ stmt.op = "delete"
  \/ \E c \in Consultas :
       /\ stmt.row = <<"prescricao", c>>
       /\ \/ stmt.op = "insert" /\ stmt.value = Empty
          \/ stmt.op = "delete"
  \/ \E n \in Analyses :
       /\ stmt.row = <<"analise", n>>
       /\ \/ stmt.op = "insert" /\ stmt.value \in Analise
          \/ stmt.op = "update" /\ Column(stmt.value)
          \/ stmt.op = "delete"
  \/ \E v \in Sales :
       stmt.row = <<"venda_farmacia", v>> /\ stmt.op = "insert" /\ stmt.value = Empty
  \/ \E v \in Sales, c \in Consultas :
       stmt.row = <<"prescricao_venda", <<c, v>>>> /\ stmt.op = "insert" /\ stmt.value = Empty

LEMMA Statements ==
  ASSUME NEW routes \in Bounds, NEW page \in Pages(routes), NEW i \in 1 .. Len(page)
  PROVE  Statement(page[i])
<1>1. Len(page) \in 1 .. 3 /\ (Single(page) \/ Edit(page) \/ Prescribed(page))
  BY PageKinds
<1>2. CASE Single(page)
  <2>1. i = 1
    BY <1>2 DEF Single
  <2>2. CASE \E d \in Doctors, m \in Medico :
               page[1] \in {Insert(<<"medico", d>>, m), Update(<<"medico", d>>, m), Delete(<<"medico", d>>)}
    BY <2>1, <2>2 DEF Statement, Insert, Update, Delete
  <2>3. CASE \E c \in Consultas :
               page[1] \in {Insert(<<"prescricao", c>>, Empty), Delete(<<"prescricao", c>>)}
    BY <2>1, <2>3 DEF Statement, Insert, Delete
  <2>4. CASE \E n \in Analyses, a \in Analise : page[1] = Insert(<<"analise", n>>, a)
    BY <2>1, <2>4 DEF Statement, Insert
  <2>5. CASE \E n \in Analyses : page[1] = Delete(<<"analise", n>>)
    BY <2>1, <2>5 DEF Statement, Delete
  <2>6. CASE \E v \in Sales : page[1] = Insert(<<"venda_farmacia", v>>, Empty)
    BY <2>1, <2>6 DEF Statement, Insert
  <2>. QED
    BY <1>2, <2>2, <2>3, <2>4, <2>5, <2>6 DEF Single
<1>3. CASE Edit(page)
  BY <1>3 DEF Edit, Statement
<1>4. CASE Prescribed(page)
  <2>1. PICK v \in Sales, c \in Consultas : page = SellPrescribed(v, c)
    BY <1>4 DEF Prescribed
  <2>2. i \in 1 .. 2
    BY <2>1 DEF SellPrescribed
  <2>3. /\ page[1] = Insert(<<"venda_farmacia", v>>, Empty)
        /\ page[2] = Insert(<<"prescricao_venda", <<c, v>>>>, Empty)
    BY <2>1 DEF SellPrescribed
  <2>. QED
    BY <2>2, <2>3 DEF Statement, Insert
<1>. QED
  BY <1>1, <1>2, <1>3, <1>4

LEMMA StatementRow ==
  ASSUME NEW stmt, Statement(stmt)
  PROVE  stmt.row \in Row /\ stmt.op \in {"insert", "update", "delete"}
<1>1. /\ \A d \in Doctors : <<"medico", d>> \in Row
      /\ \A c \in Consultas : <<"prescricao", c>> \in Row
      /\ \A n \in Analyses : <<"analise", n>> \in Row
      /\ \A v \in Sales : <<"venda_farmacia", v>> \in Row
      /\ \A v \in Sales, c \in Consultas : <<"prescricao_venda", <<c, v>>>> \in Row
  BY DEF Row
<1>2. stmt.op \in {"insert", "update", "delete"}
  BY DEF Statement
<1>3. \/ \E d \in Doctors : stmt.row = <<"medico", d>>
      \/ \E c \in Consultas : stmt.row = <<"prescricao", c>>
      \/ \E n \in Analyses : stmt.row = <<"analise", n>>
      \/ \E v \in Sales : stmt.row = <<"venda_farmacia", v>>
      \/ \E v \in Sales, c \in Consultas : stmt.row = <<"prescricao_venda", <<c, v>>>>
  BY Zenon DEF Statement
<1>4. stmt.row \in Row
  <2>1. CASE \E d \in Doctors : stmt.row = <<"medico", d>>
    BY <1>1, <2>1
  <2>2. CASE \E c \in Consultas : stmt.row = <<"prescricao", c>>
    BY <1>1, <2>2
  <2>3. CASE \E n \in Analyses : stmt.row = <<"analise", n>>
    BY <1>1, <2>3
  <2>4. CASE \E v \in Sales : stmt.row = <<"venda_farmacia", v>>
    BY <1>1, <2>4
  <2>5. CASE \E v \in Sales, c \in Consultas : stmt.row = <<"prescricao_venda", <<c, v>>>>
    BY <1>1, <2>5
  <2>. QED
    BY <1>3, <2>1, <2>2, <2>3, <2>4, <2>5
<1>. QED
  BY <1>2, <1>4

\* The tables a row may be of.
LEMMA RowKinds ==
  ASSUME NEW r \in Row
  PROVE  \/ \E d \in Doctors : r = <<"medico", d>>
         \/ \E c \in Consultas : r = <<"prescricao", c>>
         \/ \E v \in Sales : r = <<"venda_farmacia", v>>
         \/ \E n \in Analyses : r = <<"analise", n>>
         \/ \E c \in Consultas, v \in Sales : r = <<"prescricao_venda", <<c, v>>>>
BY DEF Row

-----------------------------------------------------------------------------
\* The values of the columns.

LEMMA MedicoChanged ==
  ASSUME NEW old \in Medico, NEW fields \in Medico
  PROVE  Changed(old, fields) = fields
BY DEF Changed, Medico

\* An UPDATE sets its column and keeps the others.
LEMMA AnaliseChanged ==
  ASSUME NEW old \in Analise, NEW fields, Column(fields)
  PROVE  /\ Changed(old, fields) \in Analise
         /\ DOMAIN fields \subseteq {"especialidade", "num_cedula", "num_doente"}
         /\ \A f \in {"especialidade", "num_cedula", "num_doente"} :
              Changed(old, fields)[f] = IF f \in DOMAIN fields THEN fields[f] ELSE old[f]
<1>1. DOMAIN old = {"especialidade", "num_cedula", "num_doente"}
  BY DEF Analise
<1>2. CASE \E e \in Specialties : fields = [especialidade |-> e]
  <2>1. PICK e \in Specialties : fields = [especialidade |-> e]
    BY <1>2
  <2>2. Changed(old, fields) = [especialidade |-> e, num_cedula |-> old.num_cedula,
                                num_doente |-> old.num_doente]
    BY <1>1, <2>1 DEF Changed
  <2>. QED
    BY <2>1, <2>2 DEF Analise
<1>3. CASE \E d \in Doctors : fields = [num_cedula |-> d]
  <2>1. PICK d \in Doctors : fields = [num_cedula |-> d]
    BY <1>3
  <2>2. Changed(old, fields) = [especialidade |-> old.especialidade, num_cedula |-> d,
                                num_doente |-> old.num_doente]
    BY <1>1, <2>1 DEF Changed
  <2>. QED
    BY <2>1, <2>2 DEF Analise
<1>4. CASE \E p \in Patients : fields = [num_doente |-> p]
  <2>1. PICK p \in Patients : fields = [num_doente |-> p]
    BY <1>4
  <2>2. Changed(old, fields) = [especialidade |-> old.especialidade, num_cedula |-> old.num_cedula,
                                num_doente |-> p]
    BY <1>1, <2>1 DEF Changed
  <2>. QED
    BY <2>1, <2>2 DEF Analise
<1>. QED
  BY <1>2, <1>3, <1>4 DEF Column

-----------------------------------------------------------------------------
\* The inductive invariant.

\* What a transaction has written is of the statements it has executed, and fits.
MineInv ==
  \A s \in Sessions : \A r \in Written(s) :
    /\ mine[s][r] # Absent => Fits(r, mine[s][r])
    /\ \E i \in 1 .. Len(request[s]) : i < next[s] /\ r = request[s][i].row

\* Two transactions never wrote the same row.
LockInv ==
  \A s, t \in Sessions : s # t => Written(s) \cap Written(t) = {}

Medica(d)     == <<"medico", d>>
AnaliseRow(n) == <<"analise", n>>

\* A doctor who has given a consultation is there.
DoctorInv ==
  \A c \in Consultas :
    /\ db[Medica(c[1])] # Absent
    /\ \A s \in Sessions : Medica(c[1]) \in Written(s) => mine[s][Medica(c[1])] # Absent

\* What the trigger has tested of a linked analysis that a page is writing, unless
\* the doctor was edited since.
TestedBy(a, table, changed) ==
  Linked(a) =>
    /\ <<a.num_cedula, a.num_doente>> \in Consultas
    /\ a.num_cedula \notin changed => table[Medica(a.num_cedula)].especialidade = a.especialidade

TestedInv ==
  \A s \in Sessions, n \in Analyses :
    LET row == AnaliseRow(n) IN
    row \in Written(s) /\ mine[s][row] # Absent => TestedBy(mine[s][row], db, overtaken[s])

Sale(v)       == <<"venda_farmacia", v>>
SaleOf(c, v)  == <<"prescricao_venda", <<c, v>>>>
Prescricao(c) == <<"prescricao", c>>

\* A page that sells with a prescription writes both rows, the sale first, and
\* the sale is new; no other page writes the second.
Selling(s, v, c) ==
  /\ Sale(v) \in Written(s) => db[Sale(v)] = Absent /\ mine[s][Sale(v)] # Absent
  /\ SaleOf(c, v) \in Written(s)
       => mine[s][SaleOf(c, v)] # Absent /\ request[s] = SellPrescribed(v, c) /\ next[s] = 3
  /\ request[s] = SellPrescribed(v, c)
       => /\ (next[s] > 1 => Sale(v) \in Written(s))
          /\ (next[s] > 2 => SaleOf(c, v) \in Written(s))

SellingInv ==
  \A s \in Sessions, v \in Sales, c \in Consultas : Selling(s, v, c)

\* A prescription that is sold, or about to be, is there, and nobody deletes it.
Due(v, c) == db[SaleOf(c, v)] # Absent \/ \E s \in Sessions : SaleOf(c, v) \in Written(s)

Kept(c) ==
  /\ db[Prescricao(c)] # Absent
  /\ \A t \in Sessions : Prescricao(c) \in Written(t) => mine[t][Prescricao(c)] # Absent

SoldInv ==
  \A v \in Sales, c \in Consultas :
    /\ Due(v, c) => Kept(c)
    /\ db[SaleOf(c, v)] # Absent => db[Sale(v)] # Absent

\* A sale recorded in sold is there with one prescription.
OnceInv ==
  \A v \in sold :
    /\ db[Sale(v)] # Absent
    /\ \E c \in Consultas : db[SaleOf(c, v)] # Absent
    /\ \A c, d \in Consultas :
         db[SaleOf(c, v)] # Absent /\ db[SaleOf(d, v)] # Absent => c = d

\* How far an edit has come: from its k-th statement on, those executed are done.
Done(a, page, i) == a = Changed(a, page[i].value)
Left(a, b, page, i) == \A f \in DOMAIN page[i].value : a[f] = b[f]

EditInv ==
  \A s \in Sessions, n \in Analyses :
    LET row == AnaliseRow(n) IN
    row \in Written(s) /\ Edit(request[s]) =>
      /\ db[row] \in Analise /\ mine[s][row] \in Analise
      /\ \E k \in 1 .. Len(request[s]) :
           /\ k < next[s]
           /\ \A i \in 1 .. Len(request[s]) :
                i < next[s] => IF i >= k THEN Done(mine[s][row], request[s], i)
                                         ELSE Left(mine[s][row], db[row], request[s], i)

IInv == /\ TypeOK /\ MineInv /\ LockInv /\ DoctorInv /\ TestedInv
        /\ SellingInv /\ SoldInv /\ OnceInv /\ EditInv

-----------------------------------------------------------------------------
\* The steps.

Wrote(s, row, value) ==
  /\ DOMAIN mine' = Sessions
  /\ Written(s)' = Written(s) \cup {row}
  /\ mine'[s][row] = value
  /\ \A r \in Written(s) : r # row => mine'[s][r] = mine[s][r]
  /\ \A t \in Sessions : t # s => mine'[t] = mine[t]
  /\ overtaken' = [overtaken EXCEPT ![s] = {}]

LEMMA WriteEffect ==
  ASSUME TypeOK, NEW s \in Sessions, NEW row, NEW value, Write(s, row, value)
  PROVE  Wrote(s, row, value)
<1>1. DOMAIN mine = Sessions
  BY DEF TypeOK
<1>2. mine'[s] = [r \in Written(s) \cup {row} |-> IF r = row THEN value ELSE mine[s][r]]
  BY <1>1 DEF Write
<1>3. DOMAIN mine' = Sessions /\ \A t \in Sessions : t # s => mine'[t] = mine[t]
  BY <1>1 DEF Write
<1>. QED
  BY <1>2, <1>3 DEF Wrote, Written, Write

\* A transaction begins.
Begun(s) ==
  /\ Idle(s) /\ next[s] = 1
  /\ \E page \in Pages(offered) : request' = [request EXCEPT ![s] = page]
  /\ next' = [next EXCEPT ![s] = 1]
  /\ UNCHANGED <<db, mine, offered, overtaken, sold>>

\* A statement is executed, on what the transaction sees.
Advanced(s) ==
  /\ next[s] \in 1 .. Len(request[s])
  /\ Stmt(s).row \in Row
  /\ ~Blocked(s, Stmt(s))
  /\ next' = [next EXCEPT ![s] = @ + 1]
  /\ UNCHANGED <<db, request, offered, sold>>

Executed(s, row, value) ==
  LET view == View(s)
      stmt == Stmt(s)
  IN /\ Advanced(s)
     /\ row = stmt.row
     /\ Wrote(s, row, value)
     /\ \/ /\ stmt.op = "insert" /\ view[row] = Absent
           /\ MayHold(view, row, value) /\ value = stmt.value
        \/ /\ stmt.op = "update" /\ view[row] # Absent
           /\ MayHold(view, row, value) /\ value = Changed(view[row], stmt.value)
        \/ /\ stmt.op = "delete" /\ view[row] # Absent
           /\ MayGo(view, row) /\ value = Absent

\* It is of a row that is not there.
Skipped(s) ==
  /\ Advanced(s)
  /\ Stmt(s).op # "insert" /\ View(s)[Stmt(s).row] = Absent
  /\ UNCHANGED <<mine, overtaken>>

\* A transaction ends, with db as its view or as it was.
Ended(s) ==
  /\ request' = [request EXCEPT ![s] = <<>>]
  /\ next' = [next EXCEPT ![s] = 1]
  /\ mine' = [mine EXCEPT ![s] = <<>>]
  /\ UNCHANGED offered
  /\ \/ UNCHANGED <<db, sold>> /\ overtaken' = [overtaken EXCEPT ![s] = {}]
     \/ Commit(s)

LEMMA Steps ==
  ASSUME TypeOK, [Next]_vars
  PROVE  \/ UNCHANGED vars
         \/ \E s \in Sessions :
              \/ Begun(s)
              \/ Skipped(s)
              \/ \E row, value : Executed(s, row, value)
              \/ Ended(s)
<1>1. SUFFICES ASSUME NEW s \in Sessions, Get(s) \/ Execute(s) \/ Fail(s) \/ Commit(s)
               PROVE  \/ Begun(s)
                      \/ Skipped(s)
              \/ \E row, value : Executed(s, row, value)
                      \/ Ended(s)
  BY DEF Next
<1>2. CASE Get(s)
  <2>1. next[s] = 1
    BY <1>2 DEF TypeOK, Get, Idle
  <2>. QED
    BY <1>2, <2>1 DEF Get, Begun, histVars
<1>3. CASE Execute(s)
  <2> DEFINE stmt == Stmt(s)
             row  == stmt.row
             view == View(s)
             old  == view[row]
  <2>1. next[s] \in 1 .. Len(request[s])
    <3>1. request[s] \in Pages(offered) \cup {<<>>} /\ next[s] \in 1 .. Len(request[s]) + 1
      BY DEF TypeOK
    <3>2. Len(request[s]) \in Nat
      BY <3>1, PageKinds DEF TypeOK
    <3>. QED
      BY <1>3, <3>1, <3>2 DEF Execute, Current
  <2>2. request[s] \in Pages(offered)
    BY <2>1 DEF TypeOK
  <2>3. Statement(stmt)
    BY <2>1, <2>2, Statements DEF TypeOK, Stmt
  <2>4. row \in Row
    BY <2>3, StatementRow
  <2>5. /\ ~Blocked(s, stmt)
        /\ next' = [next EXCEPT ![s] = @ + 1]
        /\ UNCHANGED <<db, request, offered, sold>>
    BY <1>3 DEF Execute, Current, histVars
  <2>6. \/ stmt.op = "insert" /\ old = Absent /\ MayHold(view, row, stmt.value)
           /\ Write(s, row, stmt.value)
        \/ stmt.op = "update" /\ old # Absent /\ MayHold(view, row, Changed(old, stmt.value))
           /\ Write(s, row, Changed(old, stmt.value))
        \/ stmt.op = "delete" /\ old # Absent /\ MayGo(view, row) /\ Write(s, row, Absent)
        \/ stmt.op # "insert" /\ old = Absent /\ UNCHANGED <<mine, overtaken>>
    BY <1>3 DEF Execute
  <2>7. Advanced(s)
    BY <2>1, <2>4, <2>5 DEF Advanced
  <2>8. Skipped(s) \/ \E value : Executed(s, row, value)
    BY <2>6, <2>7, WriteEffect DEF Executed, Skipped
  <2>. QED
    BY <2>8
<1>4. CASE Fail(s)
  BY <1>4 DEF Fail, Ended, histVars
<1>5. CASE Commit(s)
  BY <1>5 DEF Commit, Ended
<1>. QED
  BY <1>1, <1>2, <1>3, <1>4, <1>5

\* A transaction sees what fits, and writes what fits.
LEMMA ViewFits ==
  ASSUME TypeOK, MineInv, NEW s \in Sessions, NEW r \in Row, View(s)[r] # Absent
  PROVE  Fits(r, View(s)[r])
<1>1. View(s)[r] = IF r \in Written(s) THEN mine[s][r] ELSE db[r]
  BY DEF View
<1>2. db[r] # Absent => Fits(r, db[r])
  BY DEF TypeOK, Fits, ri_analise_aux
<1>. QED
  BY <1>1, <1>2 DEF MineInv

LEMMA WrittenFits ==
  ASSUME TypeOK, MineInv, NEW s \in Sessions, NEW row, NEW value, Executed(s, row, value),
         value # Absent
  PROVE  Fits(row, value)
<1> DEFINE stmt == Stmt(s)
           view == View(s)
<1>1. request[s] \in Pages(offered) /\ next[s] \in 1 .. Len(request[s]) /\ offered \in Bounds
  BY DEF TypeOK, Executed, Advanced
<1>2. Statement(stmt)
  BY <1>1, Statements DEF Stmt
<1>3. row = stmt.row /\ row \in Row
  BY DEF Executed, Advanced
<1>4. CASE stmt.op = "insert" /\ MayHold(view, row, value) /\ value = stmt.value
  BY <1>2, <1>3, <1>4 DEF Statement, Fits, MayHold, Referred
<1>5. CASE stmt.op = "update" /\ view[row] # Absent /\ MayHold(view, row, value)
           /\ value = Changed(view[row], stmt.value)
  <2>1. Fits(row, view[row])
    BY <1>3, <1>5, ViewFits
  <2>2. CASE \E d \in Doctors : row = <<"medico", d>> /\ stmt.value \in Medico
    BY <1>5, <2>1, <2>2, MedicoChanged DEF Fits
  <2>3. CASE \E n \in Analyses : row = <<"analise", n>> /\ Column(stmt.value)
    <3>1. row[1] = "analise"
      BY <2>3
    <3>2. Changed(view[row], stmt.value) \in Analise
      BY <2>1, <2>3, <3>1, AnaliseChanged DEF Fits
    <3>. QED
      BY <1>5, <3>1, <3>2 DEF Fits, MayHold
  <2>. QED
    BY <1>2, <1>3, <1>5, <2>2, <2>3 DEF Statement
<1>6. stmt.op = "delete" => value = Absent
  BY DEF Executed
<1>. QED
  BY <1>4, <1>5, <1>6 DEF Executed

DbTyped ==
  DOMAIN db = Row /\ \A r \in Row : db[r] # Absent => Fits(r, db[r])

SessionsTyped ==
  /\ request \in [Sessions -> Pages(offered) \cup {<<>>}]
  /\ DOMAIN next = Sessions /\ DOMAIN mine = Sessions
  /\ \A s \in Sessions : next[s] \in 1 .. Len(request[s]) + 1 /\ Written(s) \subseteq Row
  /\ offered \in Bounds

HistoryTyped == overtaken \in [Sessions -> SUBSET Doctors] /\ sold \subseteq Sales

LEMMA TypeParts ==
  TypeOK <=> DbTyped /\ SessionsTyped /\ HistoryTyped
BY DEF TypeOK, DbTyped, SessionsTyped, HistoryTyped

LEMMA PageLength ==
  ASSUME SessionsTyped, NEW s \in Sessions
  PROVE  Len(request[s]) \in 0 .. 3 /\ (request[s] # <<>> => Len(request[s]) > 0)
<1>1. CASE request[s] = <<>>
  BY <1>1
<1>2. CASE request[s] \in Pages(offered)
  BY <1>2, PageKinds DEF SessionsTyped
<1>. QED
  BY <1>1, <1>2 DEF SessionsTyped

\* A session that is idle has written nothing.
LEMMA IdleWrites ==
  ASSUME SessionsTyped, MineInv, NEW s \in Sessions, Idle(s) \/ next[s] = 1
  PROVE  Written(s) = {}
<1>1. CASE next[s] = 1
  BY <1>1, PageLength DEF MineInv
<1>2. CASE Idle(s)
  BY <1>2 DEF MineInv, Idle
<1>. QED
  BY <1>1, <1>2

LEMMA TypeStep ==
  ASSUME TypeOK, MineInv, [Next]_vars
  PROVE  TypeOK' /\ MineInv'
<1>1. DbTyped /\ SessionsTyped /\ HistoryTyped
  BY TypeParts
<1>2. CASE UNCHANGED vars
  BY <1>2 DEF TypeOK, MineInv, vars, sessionVars, histVars, Written
<1>3. SUFFICES ASSUME NEW s \in Sessions,
                      \/ Begun(s)
                      \/ Skipped(s)
                      \/ \E row, value : Executed(s, row, value)
                      \/ Ended(s)
               PROVE  DbTyped' /\ SessionsTyped' /\ HistoryTyped' /\ MineInv'
  <2>1. (TypeOK <=> DbTyped /\ SessionsTyped /\ HistoryTyped)'
    BY TypeParts, PTL
  <2>. QED
    BY <1>2, <2>1, Steps
<1>4. CASE Begun(s)
  <2>1. PICK page \in Pages(offered) : request' = [request EXCEPT ![s] = page]
    BY <1>4 DEF Begun
  <2>2. Len(page) \in 1 .. 3
    BY <1>1, PageKinds DEF SessionsTyped
  <2>3. Written(s) = {}
    BY <1>1, <1>4, IdleWrites DEF Begun
  <2>4. \A t \in Sessions : Written(t)' = Written(t)
    BY <1>4 DEF Begun, Written
  <2>5. SessionsTyped'
    BY <1>1, <1>4, <2>1, <2>2, <2>4 DEF Begun, SessionsTyped
  <2>6. MineInv'
    <3>1. \A t \in Sessions : t # s => request'[t] = request[t] /\ next'[t] = next[t]
      BY <1>1, <1>4, <2>1 DEF Begun, SessionsTyped
    <3>. QED
      BY <1>4, <2>3, <2>4, <3>1 DEF MineInv, Begun
  <2>. QED
    BY <1>1, <1>4, <2>5, <2>6 DEF DbTyped, HistoryTyped, Begun
<1>5. CASE Advanced(s) /\ UNCHANGED <<mine, overtaken>>
  <2>1. \A t \in Sessions : Written(t)' = Written(t)
    BY <1>5 DEF Written
  <2>2. \A t \in Sessions : next'[t] = IF t = s THEN next[s] + 1 ELSE next[t]
    BY <1>1, <1>5 DEF Advanced, SessionsTyped
  <2>3. SessionsTyped'
    BY <1>1, <1>5, <2>1, <2>2, PageLength DEF Advanced, SessionsTyped
  <2>4. MineInv'
    BY <1>1, <1>5, <2>1, <2>2 DEF MineInv, Advanced, SessionsTyped
  <2>. QED
    BY <1>1, <1>5, <2>3, <2>4 DEF DbTyped, HistoryTyped, Advanced
<1>6. ASSUME NEW row, NEW value, Executed(s, row, value)
      PROVE  DbTyped' /\ SessionsTyped' /\ HistoryTyped' /\ MineInv'
  <2>1. Advanced(s) /\ Wrote(s, row, value) /\ row = Stmt(s).row /\ row \in Row
    BY <1>6 DEF Executed, Advanced
  <2>2. \A t \in Sessions : next'[t] = IF t = s THEN next[s] + 1 ELSE next[t]
    BY <1>1, <2>1 DEF Advanced, SessionsTyped
  <2>3. \A t \in Sessions : t # s => Written(t)' = Written(t) /\ mine'[t] = mine[t]
    BY <2>1 DEF Wrote, Written
  <2>4. SessionsTyped'
    BY <1>1, <2>1, <2>2, <2>3, PageLength DEF Advanced, SessionsTyped, Wrote
  <2>5. ASSUME NEW t \in Sessions, NEW r \in Written(t)'
        PROVE  /\ mine'[t][r] # Absent => Fits(r, mine'[t][r])
               /\ \E i \in 1 .. Len(request'[t]) : i < next'[t] /\ r = request'[t][i].row
    <3>1. CASE t # s
      BY <2>1, <2>2, <2>3, <2>5, <3>1 DEF MineInv, Advanced
    <3>2. CASE t = s /\ r # row
      <4>1. r \in Written(s) /\ mine'[s][r] = mine[s][r]
        BY <2>1, <2>5, <3>2 DEF Wrote
      <4>2. PICK i \in 1 .. Len(request[s]) : i < next[s] /\ r = request[s][i].row
        BY <4>1 DEF MineInv
      <4>3. i < next'[s] /\ request' = request
        BY <1>1, <2>1, <2>2, <4>2 DEF Advanced, SessionsTyped
      <4>. QED
        BY <3>2, <4>1, <4>2, <4>3 DEF MineInv
    <3>3. CASE t = s /\ r = row
      <4>1. mine'[s][r] = value
        BY <2>1, <3>3 DEF Wrote
      <4>2. next[s] \in 1 .. Len(request[s]) /\ next[s] < next'[s] /\ request' = request
        BY <1>1, <2>1, <2>2, PageLength DEF Advanced, SessionsTyped
      <4>3. r = request[s][next[s]].row
        BY <2>1, <3>3 DEF Stmt
      <4>4. value # Absent => Fits(row, value)
        BY <1>6, WrittenFits
      <4>. QED
        BY <3>3, <4>1, <4>2, <4>3, <4>4
    <3>. QED
      BY <3>1, <3>2, <3>3
  <2>. QED
    BY <1>1, <2>1, <2>4, <2>5 DEF DbTyped, MineInv, Advanced, HistoryTyped, Wrote
<1>7. ASSUME Ended(s)
      PROVE  DbTyped' /\ SessionsTyped' /\ HistoryTyped' /\ MineInv'
  <2>1. /\ request'[s] = <<>> /\ next'[s] = 1 /\ mine'[s] = <<>>
        /\ \A t \in Sessions : t # s => request'[t] = request[t] /\ next'[t] = next[t] /\ mine'[t] = mine[t]
        /\ DOMAIN next' = Sessions /\ DOMAIN mine' = Sessions
    BY <1>1, <1>7 DEF Ended, SessionsTyped
  <2>2. Written(s)' = {} /\ \A t \in Sessions : t # s => Written(t)' = Written(t)
    BY <2>1 DEF Written
  <2>3. SessionsTyped'
    BY <1>1, <1>7, <2>1, <2>2 DEF Ended, SessionsTyped
  <2>4. MineInv'
    BY <1>1, <2>1, <2>2 DEF MineInv
  <2>5. DbTyped'
    <3>1. CASE UNCHANGED db
      BY <1>1, <3>1 DEF DbTyped
    <3>2. CASE Commit(s)
      <4>1. db' = View(s)
        BY <3>2 DEF Commit
      <4>2. DOMAIN db' = Row
        BY <4>1 DEF View
      <4>. QED
        BY <4>1, <4>2, ViewFits DEF DbTyped
    <3>. QED
      BY <1>7, <3>1, <3>2 DEF Ended
  <2>6. overtaken' \in [Sessions -> SUBSET Doctors]
    BY <1>1, <1>7 DEF Ended, Commit, Overtake, HistoryTyped
  <2>7. sold' \subseteq Sales
    <3>1. request[s] \in vendasprescricao => request[s][1].row[2] \in Sales
      BY DEF vendasprescricao, SellPrescribed, Insert
    <3>. QED
      BY <1>1, <1>7, <3>1 DEF Ended, Commit, HistoryTyped
  <2>. QED
    BY <2>3, <2>4, <2>5, <2>6, <2>7 DEF HistoryTyped
<1>. QED
  BY <1>1, <1>3, <1>4, <1>5, <1>6, <1>7 DEF Skipped

\* What the steps do to each session.
LEMMA BegunEffect ==
  ASSUME TypeOK, MineInv, NEW s \in Sessions, Begun(s)
  PROVE  /\ UNCHANGED <<db, mine, overtaken, sold>>
         /\ \A t \in Sessions : Written(t)' = Written(t)
         /\ \A t \in Sessions : t # s => request'[t] = request[t] /\ next'[t] = next[t]
         /\ Written(s) = {} /\ next'[s] = 1
<1>1. SessionsTyped
  BY TypeParts
<1>. QED
  BY <1>1, IdleWrites DEF Begun, SessionsTyped, Written

LEMMA SkippedEffect ==
  ASSUME TypeOK, NEW s \in Sessions, Skipped(s)
  PROVE  /\ UNCHANGED <<db, mine, request, overtaken, sold>>
         /\ \A t \in Sessions : Written(t)' = Written(t)
         /\ \A t \in Sessions : next'[t] = IF t = s THEN next[s] + 1 ELSE next[t]
         /\ next[s] \in 1 .. Len(request[s])
         /\ Stmt(s).op # "insert" /\ View(s)[Stmt(s).row] = Absent
<1>1. SessionsTyped
  BY TypeParts
<1>. QED
  BY <1>1 DEF Skipped, Advanced, SessionsTyped, Written

LEMMA ExecutedEffect ==
  ASSUME TypeOK, NEW s \in Sessions, NEW row, NEW value, Executed(s, row, value)
  PROVE  /\ UNCHANGED <<db, request, sold>>
         /\ overtaken' = [overtaken EXCEPT ![s] = {}]
         /\ row = Stmt(s).row /\ row \in Row
         /\ \A t \in Sessions : t # s => Written(t)' = Written(t) /\ mine'[t] = mine[t]
         /\ Written(s)' = Written(s) \cup {row}
         /\ \A r \in Written(s)' : mine'[s][r] = IF r = row THEN value ELSE mine[s][r]
         /\ \A t \in Sessions : next'[t] = IF t = s THEN next[s] + 1 ELSE next[t]
         /\ next[s] \in 1 .. Len(request[s])
<1>1. SessionsTyped
  BY TypeParts
<1>2. Advanced(s) /\ Wrote(s, row, value) /\ row = Stmt(s).row
  BY DEF Executed
<1>. QED
  BY <1>1, <1>2 DEF Advanced, Wrote, SessionsTyped, Written

\* What it writes nobody else has written: an INSERT waits for whoever has, and
\* an UPDATE or a DELETE for whoever has written a row that is there.
LEMMA ExecutedAlone ==
  ASSUME LockInv, NEW s \in Sessions, NEW row, NEW value, Executed(s, row, value),
         NEW t \in Sessions \ {s}
  PROVE  row \notin Written(t)
<1>1. SUFFICES ASSUME row \in Written(t)
               PROVE  FALSE
  OBVIOUS
<1>2. row \in Row /\ row = Stmt(s).row /\ ~Blocked(s, Stmt(s))
  BY DEF Executed, Advanced
<1>3. Stmt(s).op # "insert" /\ db[row] = Absent
  BY <1>1, <1>2 DEF Blocked
<1>4. row \notin Written(s)
  BY <1>1 DEF LockInv
<1>. QED
  BY <1>2, <1>3, <1>4 DEF Executed, View

LEMMA EndedEffect ==
  ASSUME TypeOK, NEW s \in Sessions, Ended(s)
  PROVE  /\ request'[s] = <<>> /\ next'[s] = 1 /\ Written(s)' = {}
         /\ \A t \in Sessions : t # s => /\ request'[t] = request[t] /\ next'[t] = next[t]
                                         /\ mine'[t] = mine[t] /\ Written(t)' = Written(t)
         /\ \/ /\ UNCHANGED <<db, sold>>
               /\ \A t \in Sessions : t # s => overtaken'[t] = overtaken[t]
            \/ /\ \A r \in Row : db'[r] = IF r \in Written(s) THEN mine[s][r] ELSE db[r]
               /\ \A t \in Sessions : t # s /\ Written(t) # {} =>
                    /\ overtaken[t] \subseteq overtaken'[t]
                    /\ \A d \in Doctors : d \notin overtaken'[t] => db'[Medica(d)] = db[Medica(d)]
               /\ request[s] # <<>> /\ next[s] > Len(request[s])
               /\ sold' = sold \cup (IF request[s] \in vendasprescricao
                                     THEN {request[s][1].row[2]} ELSE {})
<1>1. SessionsTyped
  BY TypeParts
<1>2. /\ request'[s] = <<>> /\ next'[s] = 1 /\ mine'[s] = <<>>
      /\ \A t \in Sessions : t # s => request'[t] = request[t] /\ next'[t] = next[t] /\ mine'[t] = mine[t]
  BY <1>1 DEF Ended, SessionsTyped
<1>3. CASE UNCHANGED <<db, sold>> /\ overtaken' = [overtaken EXCEPT ![s] = {}]
  <2>1. \A t \in Sessions : t # s => overtaken'[t] = overtaken[t]
    BY <1>3, TypeParts DEF HistoryTyped
  <2>. QED
    BY <1>2, <1>3, <2>1 DEF Written
<1>4. CASE Commit(s)
  <2>1. \A r \in Row : db'[r] = IF r \in Written(s) THEN mine[s][r] ELSE db[r]
    BY <1>4 DEF Commit, View
  <2>2. ASSUME NEW t \in Sessions, t # s, Written(t) # {}
        PROVE  /\ overtaken[t] \subseteq overtaken'[t]
               /\ \A d \in Doctors : d \notin overtaken'[t] => db'[Medica(d)] = db[Medica(d)]
    <3>1. db' = View(s) /\ overtaken' = Overtake(s)
      BY <1>4 DEF Commit
    <3>2. overtaken'[t] = overtaken[t] \cup {d \in Doctors : db[Medica(d)] # View(s)[Medica(d)]}
      BY <2>2, <3>1 DEF Overtake, Medica
    <3>. QED
      BY <3>1, <3>2
  <2>. QED
    BY <1>2, <1>4, <2>1, <2>2 DEF Commit, Idle, Written
<1>. QED
  BY <1>3, <1>4 DEF Ended

LEMMA LockStep ==
  ASSUME TypeOK, MineInv, LockInv, [Next]_vars
  PROVE  LockInv'
<1>1. CASE UNCHANGED vars
  BY <1>1 DEF LockInv, vars, sessionVars, Written
<1>2. ASSUME NEW s \in Sessions, Begun(s) \/ Skipped(s)
      PROVE  LockInv'
  BY <1>2, BegunEffect, SkippedEffect DEF LockInv
<1>3. ASSUME NEW s \in Sessions, NEW row, NEW value, Executed(s, row, value)
      PROVE  LockInv'
  BY <1>3, ExecutedEffect, ExecutedAlone DEF LockInv
<1>4. ASSUME NEW s \in Sessions, Ended(s)
      PROVE  LockInv'
  BY <1>4, EndedEffect DEF LockInv
<1>. QED
  BY <1>1, <1>2, <1>3, <1>4, Steps

LEMMA DoctorStep ==
  ASSUME TypeOK, MineInv, DoctorInv, [Next]_vars
  PROVE  DoctorInv'
<1>1. CASE UNCHANGED vars
  BY <1>1 DEF DoctorInv, vars, sessionVars, Written
<1>2. ASSUME NEW s \in Sessions, Begun(s) \/ Skipped(s)
      PROVE  DoctorInv'
  BY <1>2, BegunEffect, SkippedEffect DEF DoctorInv
<1>3. ASSUME NEW s \in Sessions, NEW row, NEW value, Executed(s, row, value),
             NEW c \in Consultas, row = Medica(c[1])
      PROVE  value # Absent
  <2> USE DEF Medica
  <2>1. CASE MayGo(View(s), row)
    BY <1>3, <2>1 DEF MayGo
  <2>2. CASE MayHold(View(s), row, value) /\ value = Stmt(s).value /\ Stmt(s).op = "insert"
    <3>1. Statement(Stmt(s))
      BY <1>3, ExecutedEffect, Statements DEF TypeOK, Stmt
    <3>2. Stmt(s).value \in Medico
      BY <1>3, <2>2, <3>1, ExecutedEffect DEF Statement
    <3>. QED
      BY <2>2, <3>2
  <2>3. CASE Stmt(s).op = "update" /\ View(s)[row] # Absent /\ value = Changed(View(s)[row], Stmt(s).value)
    <3>1. Statement(Stmt(s))
      BY <1>3, ExecutedEffect, Statements DEF TypeOK, Stmt
    <3>2. Stmt(s).value \in Medico
      BY <1>3, <2>3, <3>1, ExecutedEffect DEF Statement
    <3>3. View(s)[row] \in Medico
      BY <1>3, <2>3, ViewFits, ExecutedEffect DEF Fits
    <3>. QED
      BY <2>3, <3>2, <3>3, MedicoChanged
  <2>. QED
    BY <1>3, <2>1, <2>2, <2>3 DEF Executed
<1>4. ASSUME NEW s \in Sessions, NEW row, NEW value, Executed(s, row, value)
      PROVE  DoctorInv'
  BY <1>3, <1>4, ExecutedEffect DEF DoctorInv
<1>5. ASSUME NEW s \in Sessions, Ended(s)
      PROVE  DoctorInv'
  <2>1. \A c \in Consultas : Medica(c[1]) \in Row
    BY DEF Row, Medica
  <2>. QED
    BY <1>5, <2>1, EndedEffect DEF DoctorInv
<1>. QED
  BY <1>1, <1>2, <1>4, <1>5, Steps

\* No transaction writes both a doctor and an analysis.
LEMMA OneTable ==
  ASSUME TypeOK, MineInv, NEW s \in Sessions, NEW i \in 1 .. Len(request[s]),
         request[s][i].row[1] = "analise", NEW d \in Doctors
  PROVE  Medica(d) \notin Written(s)
<1>1. request[s] \in Pages(offered)
  BY DEF TypeOK
<1>2. Single(request[s]) \/ Edit(request[s]) \/ Prescribed(request[s])
  BY <1>1, PageKinds DEF TypeOK
<1>3. \A j \in 1 .. Len(request[s]) : request[s][j].row # Medica(d)
  <2> USE DEF Medica
  <2>1. CASE Single(request[s])
    BY <2>1 DEF Single
  <2>2. CASE Edit(request[s])
    BY <2>2 DEF Edit
  <2>3. CASE Prescribed(request[s])
    BY <2>3 DEF Prescribed, SellPrescribed, Insert
  <2>. QED
    BY <1>2, <2>1, <2>2, <2>3
<1>. QED
  BY <1>3 DEF MineInv

LEMMA RowsAreRows ==
  /\ \A d \in Doctors : Medica(d) \in Row
  /\ \A n \in Analyses : AnaliseRow(n) \in Row
  /\ \A c \in Consultas : Prescricao(c) \in Row
  /\ \A v \in Sales : Sale(v) \in Row
  /\ \A v \in Sales, c \in Consultas : SaleOf(c, v) \in Row
BY DEF Row, Medica, AnaliseRow, Prescricao, Sale, SaleOf

LEMMA TestedStays ==
  ASSUME NEW a, NEW table, NEW changed, NEW newTable, NEW newChanged,
         TestedBy(a, table, changed), changed \subseteq newChanged,
         \A d \in Doctors : d \notin newChanged => newTable[Medica(d)] = table[Medica(d)]
  PROVE  TestedBy(a, newTable, newChanged)
<1>1. \A x, y : <<x, y>> \in Consultas => x \in Doctors
  OBVIOUS
<1>. QED
  BY <1>1 DEF TestedBy

\* A page that writes an analysis writes no other row.
LEMMA OneAnalysis ==
  ASSUME TypeOK, MineInv, NEW s \in Sessions, NEW row, NEW value, Executed(s, row, value),
         NEW n \in Analyses, AnaliseRow(n) \in Written(s)
  PROVE  row = AnaliseRow(n)
<1>1. PICK i \in 1 .. Len(request[s]) : AnaliseRow(n) = request[s][i].row
  BY DEF MineInv
<1>2. /\ request[s] \in Pages(offered) /\ offered \in Bounds
      /\ next[s] \in 1 .. Len(request[s]) /\ request[s][next[s]].row = row
  <2>1. next[s] \in 1 .. Len(request[s]) /\ row = Stmt(s).row
    BY DEF Executed, Advanced
  <2>. QED
    BY <2>1 DEF TypeOK, Stmt
<1>3. Single(request[s]) \/ Edit(request[s]) \/ Prescribed(request[s])
  BY <1>2, PageKinds
<1>4. CASE Single(request[s])
  BY <1>1, <1>2, <1>4 DEF Single
<1>5. CASE Edit(request[s])
  BY <1>1, <1>2, <1>5 DEF Edit
<1>6. ~Prescribed(request[s])
  <2>1. SUFFICES ASSUME NEW v \in Sales, NEW c \in Consultas, request[s] = SellPrescribed(v, c)
                 PROVE  FALSE
    BY DEF Prescribed
  <2>2. /\ request[s][1].row = <<"venda_farmacia", v>>
        /\ request[s][2].row = <<"prescricao_venda", <<c, v>>>>
        /\ i \in 1 .. 2
    BY <2>1 DEF SellPrescribed, Insert
  <2>. QED
    BY <1>1, <2>2 DEF AnaliseRow
<1>. QED
  BY <1>3, <1>4, <1>5, <1>6

LEMMA TestedStep ==
  ASSUME TypeOK, MineInv, DoctorInv, TestedInv, [Next]_vars
  PROVE  TestedInv'
<1>1. CASE UNCHANGED vars
  BY <1>1 DEF TestedInv, vars, sessionVars, histVars, Written
<1>2. ASSUME NEW s \in Sessions, Begun(s) \/ Skipped(s)
      PROVE  TestedInv'
  BY <1>2, BegunEffect, SkippedEffect DEF TestedInv
<1>3. ASSUME NEW s \in Sessions, NEW n \in Analyses, NEW value,
             Executed(s, AnaliseRow(n), value), value # Absent
      PROVE  TestedBy(value, db, {})
  <2>1. MayHold(View(s), AnaliseRow(n), value)
    BY <1>3 DEF Executed
  <2>2. /\ ri_analise_proc(View(s), value)
        /\ Linked(value) => <<value.num_cedula, value.num_doente>> \in Consultas
    BY <2>1 DEF MayHold, Referred, AnaliseRow
  <2>3. ASSUME Linked(value)
        PROVE  db[Medica(value.num_cedula)].especialidade = value.especialidade
    <3> DEFINE d == value.num_cedula
               c == <<value.num_cedula, value.num_doente>>
    <3>1. c \in Consultas /\ d \in Doctors /\ c[1] = d
      BY <2>2, <2>3
    <3>2. next[s] \in 1 .. Len(request[s]) /\ request[s][next[s]].row = AnaliseRow(n)
      BY <1>3, ExecutedEffect DEF Stmt
    <3>3. Medica(d) \notin Written(s)
      BY <3>1, <3>2, OneTable DEF AnaliseRow
    <3>4. View(s)[Medica(d)] = db[Medica(d)]
      BY <3>1, <3>3, RowsAreRows DEF View
    <3>5. db[Medica(d)] # Absent
      BY <3>1 DEF DoctorInv
    <3>. QED
      BY <2>2, <2>3, <3>4, <3>5 DEF ri_analise_proc, Medica
  <2>. QED
    BY <2>2, <2>3 DEF TestedBy
<1>4. ASSUME NEW s \in Sessions, NEW row, NEW value, Executed(s, row, value)
      PROVE  TestedInv'
  <2>1. SUFFICES ASSUME NEW t \in Sessions, NEW n \in Analyses,
                        AnaliseRow(n) \in Written(t)', mine'[t][AnaliseRow(n)] # Absent
                 PROVE  TestedBy(mine'[t][AnaliseRow(n)], db, overtaken'[t])
    BY <1>4, ExecutedEffect DEF TestedInv
  <2>2. overtaken' = [r \in Sessions |-> IF r = s THEN {} ELSE overtaken[r]]
    BY <1>4, ExecutedEffect, TypeParts DEF HistoryTyped
  <2>3. CASE t # s
    <3>1. /\ mine'[t] = mine[t] /\ Written(t)' = Written(t)
          /\ overtaken'[t] = overtaken[t]
      BY <1>4, <2>2, <2>3, ExecutedEffect
    <3>. QED
      BY <2>1, <3>1 DEF TestedInv
  <2>4. CASE t = s
    <3>1. row = AnaliseRow(n)
      BY <1>4, <2>1, <2>4, ExecutedEffect, OneAnalysis
    <3>2. mine'[s][row] = value
      BY <1>4, ExecutedEffect
    <3>3. TestedBy(value, db, {})
      BY <1>3, <1>4, <2>1, <2>4, <3>1, <3>2
    <3>. QED
      BY <2>2, <2>4, <3>1, <3>2, <3>3
  <2>. QED
    BY <2>3, <2>4
<1>5. ASSUME NEW s \in Sessions, Ended(s)
      PROVE  TestedInv'
  <2>1. SUFFICES ASSUME NEW t \in Sessions, NEW n \in Analyses,
                        AnaliseRow(n) \in Written(t)', mine'[t][AnaliseRow(n)] # Absent
                 PROVE  TestedBy(mine'[t][AnaliseRow(n)], db', overtaken'[t])
    BY DEF TestedInv
  <2>2. t # s /\ mine'[t] = mine[t] /\ Written(t)' = Written(t)
    BY <1>5, <2>1, EndedEffect
  <2>3. TestedBy(mine[t][AnaliseRow(n)], db, overtaken[t])
    BY <2>1, <2>2 DEF TestedInv
  <2>4. CASE db' = db /\ overtaken'[t] = overtaken[t]
    BY <2>2, <2>3, <2>4
  <2>5. CASE /\ overtaken[t] \subseteq overtaken'[t]
             /\ \A d \in Doctors : d \notin overtaken'[t] => db'[Medica(d)] = db[Medica(d)]
    BY <2>2, <2>3, <2>5, TestedStays
  <2>. QED
    BY <1>5, <2>1, <2>2, <2>4, <2>5, EndedEffect
<1>. QED
  BY <1>1, <1>2, <1>4, <1>5, Steps

\* Rows of different tables, or with different keys, are different rows.
LEMMA RowsDiffer ==
  /\ \A v \in Sales, w \in Sales : Sale(v) = Sale(w) => v = w
  /\ \A v, w \in Sales, c, d \in Consultas : SaleOf(c, v) = SaleOf(d, w) => c = d /\ v = w
  /\ \A v, w \in Sales, c, d \in Consultas :
       /\ Sale(v) # SaleOf(c, w) /\ Sale(v) # Prescricao(d) /\ SaleOf(c, v) # Prescricao(d)
       /\ \A m \in Doctors : Medica(m) \notin {Sale(v), SaleOf(c, v), Prescricao(c)}
       /\ \A n \in Analyses : AnaliseRow(n) \notin {Sale(v), SaleOf(c, v), Prescricao(c)}
BY DEF Sale, SaleOf, Prescricao, Medica, AnaliseRow

LEMMA StatementParts ==
  ASSUME NEW row, NEW value
  PROVE  /\ Insert(row, value).op = "insert" /\ Insert(row, value).row = row
         /\ Update(row, value).op = "update" /\ Update(row, value).row = row
         /\ Delete(row).op = "delete" /\ Delete(row).row = row
BY DEF Insert, Update, Delete

LEMMA SellingStatements ==
  ASSUME NEW v, NEW c
  PROVE  /\ Len(SellPrescribed(v, c)) = 2 /\ SellPrescribed(v, c) # <<>>
         /\ SellPrescribed(v, c)[1].op = "insert" /\ SellPrescribed(v, c)[1].row = Sale(v)
         /\ SellPrescribed(v, c)[2].op = "insert" /\ SellPrescribed(v, c)[2].row = SaleOf(c, v)
<1>1. /\ Len(SellPrescribed(v, c)) = 2 /\ SellPrescribed(v, c) # <<>>
      /\ SellPrescribed(v, c)[1] = Insert(Sale(v), Empty)
      /\ SellPrescribed(v, c)[2] = Insert(SaleOf(c, v), Empty)
  BY DEF SellPrescribed, Sale, SaleOf
<1>. QED
  BY <1>1, StatementParts

LEMMA SaleStatement ==
  ASSUME NEW stmt, Statement(stmt), NEW v \in Sales, NEW c \in Consultas,
         stmt.row = Sale(v) \/ stmt.row = SaleOf(c, v)
  PROVE  stmt.op = "insert" /\ stmt.value = Empty
BY DEF Statement, Sale, SaleOf

LEMMA SellingPage ==
  ASSUME NEW routes \in Bounds, NEW page \in Pages(routes), NEW i \in 1 .. Len(page),
         NEW v \in Sales, NEW c \in Consultas, page[i].row = SaleOf(c, v)
  PROVE  i = 2 /\ page = SellPrescribed(v, c)
<1>1. Len(page) \in 1 .. 3 /\ (Single(page) \/ Edit(page) \/ Prescribed(page))
  BY PageKinds
<1>2. ~Single(page)
  <2>1. SUFFICES ASSUME Single(page)
                 PROVE  FALSE
    OBVIOUS
  <2>2. page[1].row = SaleOf(c, v)
    BY <2>1 DEF Single
  <2>3. page[1].row[1] = "prescricao_venda"
    BY <2>2 DEF SaleOf
  <2>4. page[1].row[1] \in {"medico", "prescricao", "analise", "venda_farmacia"}
    <3>1. CASE \E d \in Doctors, m \in Medico :
                 page[1] \in {Insert(<<"medico", d>>, m), Update(<<"medico", d>>, m), Delete(<<"medico", d>>)}
      BY <3>1, StatementParts
    <3>2. CASE \E d \in Consultas :
                 page[1] \in {Insert(<<"prescricao", d>>, Empty), Delete(<<"prescricao", d>>)}
      BY <3>2, StatementParts
    <3>3. CASE \E n \in Analyses, a \in Analise : page[1] = Insert(<<"analise", n>>, a)
      BY <3>3, StatementParts
    <3>4. CASE \E n \in Analyses : page[1] = Delete(<<"analise", n>>)
      BY <3>4, StatementParts
    <3>5. CASE \E w \in Sales : page[1] = Insert(<<"venda_farmacia", w>>, Empty)
      BY <3>5, StatementParts
    <3>. QED
      BY <2>1, <3>1, <3>2, <3>3, <3>4, <3>5 DEF Single
  <2>. QED
    BY <2>3, <2>4
<1>3. ~Edit(page)
  BY DEF Edit, SaleOf
<1>4. PICK w \in Sales, d \in Consultas : page = SellPrescribed(w, d)
  BY <1>1, <1>2, <1>3 DEF Prescribed
<1>5. i \in 1 .. 2
  BY <1>4, SellingStatements
<1>6. i # 1
  <2>1. SUFFICES Sale(w) # SaleOf(c, v)
    BY <1>4, SellingStatements
  <2>. QED
    BY RowsDiffer
<1>7. SaleOf(d, w) = SaleOf(c, v)
  BY <1>4, <1>5, <1>6, SellingStatements
<1>. QED
  BY <1>4, <1>5, <1>6, <1>7, RowsDiffer

LEMMA EmptyIsThere == Empty # Absent
OBVIOUS

LEMMA SellingStep ==
  ASSUME TypeOK, MineInv, LockInv, SellingInv, [Next]_vars
  PROVE  SellingInv'
<1>1. SUFFICES ASSUME NEW t \in Sessions, NEW v \in Sales, NEW c \in Consultas
               PROVE  Selling(t, v, c)'
  BY DEF SellingInv
<1>2. Selling(t, v, c)
  BY DEF SellingInv
<1>3. CASE UNCHANGED vars
  BY <1>2, <1>3 DEF Selling, vars, sessionVars, Written
<1>4. ASSUME NEW s \in Sessions, Begun(s)
      PROVE  Selling(t, v, c)'
  <2>1. CASE t = s
    BY <1>4, <2>1, BegunEffect DEF Selling
  <2>2. CASE t # s
    BY <1>2, <1>4, <2>2, BegunEffect DEF Selling
  <2>. QED
    BY <2>1, <2>2
<1>5. ASSUME NEW s \in Sessions, next[s] \in 1 .. Len(request[s])
      PROVE  /\ request[s] \in Pages(offered) /\ Len(request[s]) \in 1 .. 3
             /\ offered \in Bounds /\ Statement(Stmt(s))
  BY <1>5, PageKinds, Statements DEF TypeOK, Stmt
<1>6. ASSUME NEW s \in Sessions, Skipped(s)
      PROVE  Selling(t, v, c)'
  <2>1. next[s] \in 1 .. Len(request[s]) /\ Stmt(s).op # "insert"
    BY <1>6, SkippedEffect
  <2>2. request[s] # SellPrescribed(v, c)
    <3>1. SUFFICES ASSUME request[s] = SellPrescribed(v, c)
                   PROVE  FALSE
      OBVIOUS
    <3>2. next[s] \in 1 .. 2
      BY <2>1, <3>1, SellingStatements
    <3>. QED
      BY <2>1, <3>1, <3>2, SellingStatements DEF Stmt
  <2>. QED
    BY <1>2, <1>6, <2>2, SkippedEffect DEF Selling
<1>7. ASSUME NEW s \in Sessions, NEW row, NEW value, Executed(s, row, value)
      PROVE  Selling(t, v, c)'
  <2>1. CASE t # s
    BY <1>2, <1>7, <2>1, ExecutedEffect DEF Selling
  <2>2. CASE t = s
    <3>1. /\ next[s] \in 1 .. Len(request[s]) /\ row = request[s][next[s]].row
          /\ next'[s] = next[s] + 1 /\ request' = request /\ db' = db
          /\ request[s] \in Pages(offered) /\ Len(request[s]) \in 1 .. 3
          /\ offered \in Bounds /\ Statement(Stmt(s)) /\ Stmt(s).row = row
      BY <1>5, <1>7, ExecutedEffect DEF Stmt
    <3>2. row \in {Sale(v), SaleOf(c, v)} => value # Absent /\ View(s)[row] = Absent
      <4>1. SUFFICES ASSUME row \in {Sale(v), SaleOf(c, v)}
                     PROVE  value # Absent /\ View(s)[row] = Absent
        OBVIOUS
      <4>2. Stmt(s).op = "insert" /\ Stmt(s).value = Empty
        BY <3>1, <4>1, SaleStatement
      <4>. QED
        BY <1>7, <4>2, EmptyIsThere DEF Executed
    <3>3. Sale(v) \in Written(s)' => db'[Sale(v)] = Absent /\ mine'[s][Sale(v)] # Absent
      <4>1. CASE row = Sale(v)
        <5>1. View(s)[Sale(v)] = Absent => db[Sale(v)] = Absent
          BY <1>2, <2>2, RowsAreRows DEF View, Selling
        <5>. QED
          BY <1>7, <3>1, <3>2, <4>1, <5>1, ExecutedEffect
      <4>2. CASE row # Sale(v)
        BY <1>2, <1>7, <2>2, <3>1, <4>2, ExecutedEffect DEF Selling
      <4>. QED
        BY <4>1, <4>2
    <3>4. SaleOf(c, v) \in Written(s)'
            => mine'[s][SaleOf(c, v)] # Absent /\ request'[s] = SellPrescribed(v, c) /\ next'[s] = 3
      <4>1. CASE row = SaleOf(c, v)
        <5>1. next[s] = 2 /\ request[s] = SellPrescribed(v, c)
          <6>1. request[s][next[s]].row = SaleOf(c, v)
            BY <3>1, <4>1
          <6>2. /\ request[s] \in Pages(offered) /\ offered \in Bounds
                /\ next[s] \in 1 .. Len(request[s])
            BY <3>1
          <6>. QED
            BY <6>1, <6>2, SellingPage
        <5>. QED
          BY <1>7, <3>1, <3>2, <4>1, <5>1, ExecutedEffect
      <4>2. CASE row # SaleOf(c, v)
        <5>1. SaleOf(c, v) \notin Written(s)
          <6>1. SUFFICES ASSUME SaleOf(c, v) \in Written(s)
                         PROVE  FALSE
            OBVIOUS
          <6>2. request[s] = SellPrescribed(v, c) /\ next[s] = 3
            BY <1>2, <2>2, <6>1 DEF Selling
          <6>. QED
            BY <3>1, <6>2, SellingStatements
        <5>. QED
          BY <1>7, <4>2, <5>1, ExecutedEffect
      <4>. QED
        BY <4>1, <4>2
    <3>5. request'[s] = SellPrescribed(v, c)
            => /\ (next'[s] > 1 => Sale(v) \in Written(s)')
               /\ (next'[s] > 2 => SaleOf(c, v) \in Written(s)')
      <4>1. SUFFICES ASSUME request[s] = SellPrescribed(v, c)
                     PROVE  Sale(v) \in Written(s)' /\ (next[s] > 1 => SaleOf(c, v) \in Written(s)')
        BY <3>1
      <4>2. next[s] \in 1 .. 2
        BY <3>1, <4>1, SellingStatements
      <4>3. next[s] = 1 => row = Sale(v)
        BY <3>1, <4>1, SellingStatements
      <4>4. next[s] = 2 => row = SaleOf(c, v) /\ Sale(v) \in Written(s)
        BY <1>2, <2>2, <3>1, <4>1, SellingStatements DEF Selling
      <4>. QED
        BY <1>7, <4>2, <4>3, <4>4, ExecutedEffect
    <3>. QED
      BY <2>2, <3>3, <3>4, <3>5 DEF Selling
  <2>. QED
    BY <2>1, <2>2
<1>8. ASSUME NEW s \in Sessions, Ended(s)
      PROVE  Selling(t, v, c)'
  <2>1. CASE t = s
    BY <1>8, <2>1, EndedEffect, SellingStatements DEF Selling
  <2>2. CASE t # s
    <3>1. Sale(v) \in Written(t) => db'[Sale(v)] = db[Sale(v)]
      BY <1>8, <2>2, EndedEffect, RowsAreRows DEF LockInv
    <3>. QED
      BY <1>2, <1>8, <2>2, <3>1, EndedEffect DEF Selling
  <2>. QED
    BY <2>1, <2>2
<1>. QED
  BY <1>3, <1>4, <1>6, <1>7, <1>8, Steps

LEMMA ParentsOfSale ==
  ASSUME NEW v \in Sales, NEW c \in Consultas
  PROVE  Parents(SaleOf(c, v)) = {Prescricao(c), Sale(v)}
BY DEF Parents, SaleOf, Prescricao, Sale

LEMMA PrescricaoStatement ==
  ASSUME NEW stmt, Statement(stmt), NEW c \in Consultas, stmt.row = Prescricao(c)
  PROVE  stmt.op = "delete" \/ (stmt.op = "insert" /\ stmt.value = Empty)
BY DEF Statement, Prescricao

\* What a transaction about to execute a statement is doing.
LEMMA AtStatement ==
  ASSUME TypeOK, NEW s \in Sessions, NEW row, NEW value, Executed(s, row, value)
  PROVE  /\ Statement(Stmt(s)) /\ Stmt(s).row = row
         /\ request[s] \in Pages(offered) /\ offered \in Bounds
         /\ next[s] \in 1 .. Len(request[s]) /\ request[s][next[s]].row = row
         /\ ~Blocked(s, Stmt(s))
<1>1. next[s] \in 1 .. Len(request[s]) /\ row = Stmt(s).row /\ ~Blocked(s, Stmt(s))
  BY DEF Executed, Advanced
<1>2. request[s] \in Pages(offered) /\ offered \in Bounds
  BY <1>1 DEF TypeOK
<1>3. Statement(Stmt(s))
  BY <1>1, <1>2, Statements DEF Stmt
<1>. QED
  BY <1>1, <1>2, <1>3 DEF Stmt

\* A prescription that is due stays: it cannot be deleted.
LEMMA KeptStep ==
  ASSUME TypeOK, MineInv, SellingInv, [Next]_vars,
         NEW v \in Sales, NEW c \in Consultas, Due(v, c), Kept(c)
  PROVE  Kept(c)'
<1>1. CASE UNCHANGED vars
  BY <1>1 DEF Kept, vars, sessionVars, Written
<1>2. ASSUME NEW s \in Sessions, Begun(s) \/ Skipped(s)
      PROVE  Kept(c)'
  BY <1>2, BegunEffect, SkippedEffect DEF Kept
<1>3. ASSUME NEW s \in Sessions, NEW value, Executed(s, Prescricao(c), value)
      PROVE  value # Absent
  <2>1. Statement(Stmt(s)) /\ Stmt(s).row = Prescricao(c) /\ ~Blocked(s, Stmt(s))
    BY <1>3, AtStatement
  <2>2. ~(Stmt(s).op = "delete" /\ MayGo(View(s), Prescricao(c)))
    <3>1. SUFFICES ASSUME Stmt(s).op = "delete", MayGo(View(s), Prescricao(c))
                   PROVE  FALSE
      OBVIOUS
    <3>2. Prescricao(c) \in Parents(SaleOf(c, v)) /\ SaleOf(c, v) \in Row
      BY ParentsOfSale, RowsAreRows
    <3>3. \A t \in Sessions \ {s} : SaleOf(c, v) \notin Written(t)
      BY <2>1, <3>1, <3>2 DEF Blocked
    <3>4. View(s)[SaleOf(c, v)] = Absent
      BY <3>1, <3>2 DEF MayGo
    <3>5. View(s)[SaleOf(c, v)] = IF SaleOf(c, v) \in Written(s) THEN mine[s][SaleOf(c, v)]
                                                                ELSE db[SaleOf(c, v)]
      BY <3>2 DEF View
    <3>6. SaleOf(c, v) \in Written(s) => mine[s][SaleOf(c, v)] # Absent
      BY DEF SellingInv, Selling
    <3>. QED
      BY <3>3, <3>4, <3>5, <3>6 DEF Due
  <2>3. Stmt(s).op = "delete" \/ (Stmt(s).op = "insert" /\ Stmt(s).value = Empty)
    BY <2>1, PrescricaoStatement
  <2>. QED
    BY <1>3, <2>2, <2>3, EmptyIsThere DEF Executed
<1>4. ASSUME NEW s \in Sessions, NEW row, NEW value, Executed(s, row, value)
      PROVE  Kept(c)'
  BY <1>3, <1>4, ExecutedEffect DEF Kept
<1>5. ASSUME NEW s \in Sessions, Ended(s)
      PROVE  Kept(c)'
  BY <1>5, EndedEffect, RowsAreRows DEF Kept
<1>. QED
  BY <1>1, <1>2, <1>4, <1>5, Steps

\* A sale of a prescription that goes, or is being deleted, is never begun.
LEMMA DueStep ==
  ASSUME TypeOK, MineInv, SellingInv, [Next]_vars,
         NEW v \in Sales, NEW c \in Consultas, Due(v, c)', ~Due(v, c)
  PROVE  Kept(c)'
<1>1. CASE UNCHANGED vars
  BY <1>1 DEF Due, vars, sessionVars, Written
<1>2. ASSUME NEW s \in Sessions, Begun(s) \/ Skipped(s)
      PROVE  FALSE
  BY <1>2, BegunEffect, SkippedEffect DEF Due
<1>3. ASSUME NEW s \in Sessions, NEW value, Executed(s, SaleOf(c, v), value)
      PROVE  Kept(c)'
  <2>1. Statement(Stmt(s)) /\ Stmt(s).row = SaleOf(c, v) /\ ~Blocked(s, Stmt(s))
    BY <1>3, AtStatement
  <2>2. Stmt(s).op = "insert"
    BY <2>1, SaleStatement
  <2>3. View(s)[Prescricao(c)] # Absent
    <3>1. MayHold(View(s), SaleOf(c, v), value)
      BY <1>3, <2>2 DEF Executed
    <3>. QED
      BY <3>1, ParentsOfSale DEF MayHold, Referred
  <2>4. \A t \in Sessions \ {s} : Prescricao(c) \in Written(t) => mine[t][Prescricao(c)] # Absent
    BY <2>1, <2>2, ParentsOfSale DEF Blocked
  <2>5. Prescricao(c) \notin Written(s)
    <3>1. SUFFICES ASSUME Prescricao(c) \in Written(s)
                   PROVE  FALSE
      OBVIOUS
    <3>2. PICK i \in 1 .. Len(request[s]) : Prescricao(c) = request[s][i].row
      BY <3>1 DEF MineInv
    <3>3. request[s] = SellPrescribed(v, c)
      BY <1>3, AtStatement, SellingPage
    <3>4. i \in 1 .. 2
      BY <3>2, <3>3, SellingStatements
    <3>5. request[s][i].row \in {Sale(v), SaleOf(c, v)}
      BY <3>3, <3>4, SellingStatements
    <3>. QED
      BY <3>2, <3>5, RowsDiffer
  <2>6. db[Prescricao(c)] # Absent
    BY <2>3, <2>5, RowsAreRows DEF View
  <2>. QED
    BY <1>3, <2>4, <2>5, <2>6, ExecutedEffect, RowsDiffer DEF Kept
<1>4. ASSUME NEW s \in Sessions, NEW row, NEW value, Executed(s, row, value)
      PROVE  Kept(c)'
  <2>1. row = SaleOf(c, v)
    BY <1>4, ExecutedEffect DEF Due
  <2>. QED
    BY <1>3, <1>4, <2>1
<1>5. ASSUME NEW s \in Sessions, Ended(s)
      PROVE  FALSE
  BY <1>5, EndedEffect, RowsAreRows DEF Due
<1>. QED
  BY <1>1, <1>2, <1>4, <1>5, Steps

LEMMA SoldStep ==
  ASSUME TypeOK, MineInv, SellingInv, SoldInv, [Next]_vars
  PROVE  SoldInv'
<1>1. SUFFICES ASSUME NEW v \in Sales, NEW c \in Consultas
               PROVE  /\ Due(v, c)' => Kept(c)'
                      /\ db'[SaleOf(c, v)] # Absent => db'[Sale(v)] # Absent
  BY DEF SoldInv
<1>2. Due(v, c) => Kept(c)
  BY DEF SoldInv
<1>3. Due(v, c)' => Kept(c)'
  BY <1>2, KeptStep, DueStep
<1>4. UNCHANGED db => (db'[SaleOf(c, v)] # Absent => db'[Sale(v)] # Absent)
  BY DEF SoldInv
<1>5. ASSUME NEW s \in Sessions, Ended(s)
      PROVE  db'[SaleOf(c, v)] # Absent => db'[Sale(v)] # Absent
  <2>1. Selling(s, v, c)
    BY DEF SellingInv
  <2>2. SaleOf(c, v) \in Written(s) => Sale(v) \in Written(s)
    BY <2>1 DEF Selling
  <2>. QED
    BY <1>4, <1>5, <2>1, <2>2, EndedEffect, RowsAreRows DEF Selling, SoldInv
<1>6. UNCHANGED db \/ \E s \in Sessions : Ended(s)
  BY Steps, BegunEffect, SkippedEffect, ExecutedEffect DEF vars
<1>. QED
  BY <1>3, <1>4, <1>5, <1>6

LEMMA OnceStep ==
  ASSUME TypeOK, MineInv, SellingInv, SoldInv, OnceInv, [Next]_vars
  PROVE  OnceInv'
<1>1. CASE UNCHANGED <<db, sold>>
  BY <1>1 DEF OnceInv
<1>2. ASSUME NEW s \in Sessions, Ended(s)
      PROVE  OnceInv'
  <2>1. CASE UNCHANGED <<db, sold>>
    BY <1>1, <2>1
  <2>2. CASE /\ \A r \in Row : db'[r] = IF r \in Written(s) THEN mine[s][r] ELSE db[r]
             /\ request[s] # <<>> /\ next[s] > Len(request[s])
             /\ sold' = sold \cup (IF request[s] \in vendasprescricao
                                   THEN {request[s][1].row[2]} ELSE {})
    <3>1. \A v \in Sales, c \in Consultas : Selling(s, v, c)
      BY DEF SellingInv
    <3>2. \A v \in Sales, c \in Consultas :
            /\ db[SaleOf(c, v)] # Absent => db'[SaleOf(c, v)] # Absent
            /\ db[Sale(v)] # Absent => db'[Sale(v)] # Absent
      BY <2>2, <3>1, RowsAreRows DEF Selling
    <3>3. ASSUME NEW v \in Sales, v \in sold \/ db[Sale(v)] = Absent,
                 NEW c \in Consultas, NEW d \in Consultas,
                 db'[SaleOf(c, v)] # Absent, db'[SaleOf(d, v)] # Absent
          PROVE  c = d
      <4>1. \A e \in Consultas : db'[SaleOf(e, v)] # Absent /\ SaleOf(e, v) \notin Written(s)
                                   => db[SaleOf(e, v)] # Absent
        BY <2>2, RowsAreRows
      <4>2. \A e \in Consultas : SaleOf(e, v) \in Written(s) =>
              /\ request[s] = SellPrescribed(v, e)
              /\ db[Sale(v)] = Absent
        BY <3>1 DEF Selling
      <4>3. CASE SaleOf(c, v) \in Written(s) /\ SaleOf(d, v) \in Written(s)
        <5>1. SaleOf(c, v) = SaleOf(d, v)
          BY <4>2, <4>3, SellingStatements
        <5>. QED
          BY <5>1, RowsDiffer
      <4>4. CASE SaleOf(c, v) \notin Written(s) /\ SaleOf(d, v) \notin Written(s)
        BY <3>3, <4>1, <4>4 DEF OnceInv, SoldInv
      <4>5. CASE SaleOf(c, v) \in Written(s) /\ SaleOf(d, v) \notin Written(s)
        BY <3>3, <4>1, <4>2, <4>5 DEF SoldInv
      <4>6. CASE SaleOf(c, v) \notin Written(s) /\ SaleOf(d, v) \in Written(s)
        BY <3>3, <4>1, <4>2, <4>6 DEF SoldInv
      <4>. QED
        BY <4>3, <4>4, <4>5, <4>6
    <3>4. ASSUME NEW v \in sold', v \notin sold
          PROVE  /\ db[Sale(v)] = Absent /\ v \in Sales
                 /\ db'[Sale(v)] # Absent /\ \E c \in Consultas : db'[SaleOf(c, v)] # Absent
      <4>1. request[s] \in vendasprescricao /\ v = request[s][1].row[2]
        BY <2>2, <3>4
      <4>2. PICK w \in Sales, c \in Consultas : request[s] = SellPrescribed(w, c)
        BY <4>1 DEF vendasprescricao
      <4>3. v = w
        BY <4>1, <4>2, SellingStatements DEF Sale
      <4>4. next[s] > 2
        <5>1. Len(request[s]) = 2
          BY <4>2, SellingStatements
        <5>2. next[s] > Len(request[s])
          BY <2>2
        <5>. QED
          BY <5>1, <5>2
      <4>5. /\ Sale(v) \in Written(s) /\ mine[s][Sale(v)] # Absent /\ db[Sale(v)] = Absent
            /\ SaleOf(c, v) \in Written(s) /\ mine[s][SaleOf(c, v)] # Absent
        <5>1. next[s] \in Nat /\ next[s] > 1
          <6>1. next[s] \in 1 .. Len(request[s]) + 1 /\ Len(request[s]) = 2
            BY <4>2, SellingStatements DEF TypeOK
          <6>. QED
            BY <4>4, <6>1
        <5>2. Selling(s, v, c)
          BY <3>1, <4>3
        <5>. QED
          BY <4>2, <4>3, <4>4, <5>1, <5>2 DEF Selling
      <4>. QED
        BY <2>2, <4>3, <4>5, RowsAreRows
    <3>5. ASSUME NEW v \in sold
          PROVE  db'[Sale(v)] # Absent /\ \E c \in Consultas : db'[SaleOf(c, v)] # Absent
      <4>1. v \in Sales
        BY DEF TypeOK
      <4>. QED
        BY <3>2, <4>1 DEF OnceInv
    <3>6. sold \subseteq Sales
      BY DEF TypeOK
    <3>. QED
      BY <3>3, <3>4, <3>5, <3>6 DEF OnceInv
  <2>. QED
    BY <1>2, <2>1, <2>2, EndedEffect
<1>3. UNCHANGED <<db, sold>> \/ \E s \in Sessions : Ended(s)
  BY Steps, BegunEffect, SkippedEffect, ExecutedEffect DEF vars, histVars
<1>. QED
  BY <1>1, <1>2, <1>3

\* The statements of an edit, when one of them has written the analysis n.
EditOf(page, n) ==
  \A i \in 1 .. Len(page) :
    /\ page[i].op = "update" /\ page[i].row = AnaliseRow(n) /\ Column(page[i].value)
    /\ \A j \in 1 .. Len(page) : j # i => DOMAIN page[i].value \cap DOMAIN page[j].value = {}

LEMMA EditPage ==
  ASSUME NEW page, Edit(page), NEW n \in Analyses, NEW i \in 1 .. Len(page),
         page[i].row = AnaliseRow(n)
  PROVE  EditOf(page, n)
<1>1. PICK m \in Analyses : \A j \in 1 .. Len(page) :
        /\ page[j].op = "update" /\ page[j].row = <<"analise", m>> /\ Column(page[j].value)
        /\ \A k \in 1 .. Len(page) :
             k # j => DOMAIN page[j].value \cap DOMAIN page[k].value = {}
  BY DEF Edit
<1>2. m = n
  BY <1>1 DEF AnaliseRow
<1>. QED
  BY <1>1, <1>2 DEF EditOf, AnaliseRow

\* An UPDATE does what it says, and nothing to what another UPDATE is about.
LEMMA UpdateDone ==
  ASSUME NEW old \in Analise, NEW fields, Column(fields)
  PROVE  Changed(Changed(old, fields), fields) = Changed(old, fields)
BY AnaliseChanged DEF Changed

LEMMA UpdateApart ==
  ASSUME NEW old \in Analise, NEW fields, Column(fields), NEW others, Column(others),
         DOMAIN fields \cap DOMAIN others = {}
  PROVE  /\ old = Changed(old, others) => Changed(old, fields) = Changed(Changed(old, fields), others)
         /\ \A f \in DOMAIN others : Changed(old, fields)[f] = old[f]
<1> DEFINE C == {"especialidade", "num_cedula", "num_doente"}
           new == Changed(old, fields)
<1>1. /\ new \in Analise /\ DOMAIN others \subseteq C
      /\ \A f \in C : new[f] = IF f \in DOMAIN fields THEN fields[f] ELSE old[f]
  BY AnaliseChanged
<1>2. \A a \in Analise : Changed(a, others) \in Analise
        /\ \A f \in C : Changed(a, others)[f] = IF f \in DOMAIN others THEN others[f] ELSE a[f]
  BY AnaliseChanged
<1>3. \A a \in Analise : DOMAIN a = C /\ a = [f \in C |-> a[f]]
  BY DEF Analise
<1> HIDE DEF C, new
<1>4. \A f \in DOMAIN others : new[f] = old[f]
  BY <1>1
<1>5. ASSUME old = Changed(old, others)
      PROVE  new = Changed(new, others)
  <2>1. \A f \in C : new[f] = Changed(new, others)[f]
    BY <1>1, <1>2, <1>4, <1>5
  <2>2. new = [f \in C |-> new[f]] /\ Changed(new, others) = [f \in C |-> Changed(new, others)[f]]
    BY <1>1, <1>2, <1>3
  <2>. QED
    BY <2>1, <2>2
<1>. QED
  BY <1>4, <1>5 DEF new

\* How far an edit has come with the analysis n.
EditAt(page, at, old, new) ==
  /\ old \in Analise /\ new \in Analise
  /\ \E k \in 1 .. Len(page) :
       /\ k < at
       /\ \A i \in 1 .. Len(page) :
            i < at => IF i >= k THEN Done(new, page, i) ELSE Left(new, old, page, i)

LEMMA EditFirst ==
  ASSUME NEW page, Len(page) \in Nat, NEW n \in Analyses, EditOf(page, n), NEW at \in 1 .. Len(page),
         NEW old \in Analise
  PROVE  EditAt(page, at + 1, old, Changed(old, page[at].value))
<1> DEFINE new == Changed(old, page[at].value)
<1>1. \A i \in 1 .. Len(page) : Column(page[i].value)
  BY DEF EditOf
<1>2. new \in Analise
  BY <1>1, AnaliseChanged
<1>3. Done(new, page, at)
  BY <1>1, UpdateDone DEF Done
<1>4. \A i \in 1 .. Len(page) : i # at => Left(new, old, page, i)
  BY <1>1, UpdateApart DEF EditOf, Left
<1> HIDE DEF new
<1>. QED
  BY <1>2, <1>3, <1>4 DEF EditAt, new

LEMMA EditNext ==
  ASSUME NEW page, Len(page) \in Nat, NEW n \in Analyses, EditOf(page, n), NEW at \in 1 .. Len(page),
         NEW old, NEW mid, EditAt(page, at, old, mid)
  PROVE  EditAt(page, at + 1, old, Changed(mid, page[at].value))
<1> DEFINE new == Changed(mid, page[at].value)
<1>1. \A i \in 1 .. Len(page) : Column(page[i].value)
  BY DEF EditOf
<1>2. old \in Analise /\ mid \in Analise /\ new \in Analise
  BY <1>1, AnaliseChanged DEF EditAt
<1>3. Done(new, page, at)
  BY <1>1, <1>2, UpdateDone DEF Done
<1>4. \A i \in 1 .. Len(page) : i # at =>
        /\ Done(mid, page, i) => Done(new, page, i)
        /\ Left(new, mid, page, i)
  BY <1>1, <1>2, UpdateApart DEF EditOf, Left, Done
<1>5. \A i \in 1 .. Len(page) : i # at /\ Left(mid, old, page, i) => Left(new, old, page, i)
  BY <1>4 DEF Left
<1>6. PICK k \in 1 .. Len(page) :
        /\ k < at
        /\ \A i \in 1 .. Len(page) :
             i < at => IF i >= k THEN Done(mid, page, i) ELSE Left(mid, old, page, i)
  BY DEF EditAt
<1> HIDE DEF new
<1>7. \A i \in 1 .. Len(page) :
        i < at + 1 => IF i >= k THEN Done(new, page, i) ELSE Left(new, old, page, i)
  BY <1>3, <1>4, <1>5, <1>6
<1>. QED
  BY <1>2, <1>6, <1>7 DEF EditAt, new

LEMMA EditStep ==
  ASSUME TypeOK, MineInv, LockInv, EditInv, [Next]_vars
  PROVE  EditInv'
<1>1. CASE UNCHANGED vars
  BY <1>1 DEF EditInv, vars, sessionVars, Written
<1>2. SUFFICES ASSUME NEW t \in Sessions, NEW n \in Analyses,
                      AnaliseRow(n) \in Written(t)', Edit(request'[t]),
                      NEW s \in Sessions,
                      \/ Begun(s)
                      \/ Skipped(s)
                      \/ \E row, value : Executed(s, row, value)
                      \/ Ended(s)
               PROVE  EditAt(request'[t], next'[t], db'[AnaliseRow(n)], mine'[t][AnaliseRow(n)])
  BY <1>1, Steps DEF EditInv, EditAt
<1> DEFINE row == AnaliseRow(n)
<1>3. row \in Written(t) /\ Edit(request[t])
        => EditAt(request[t], next[t], db[row], mine[t][row])
  BY DEF EditInv, EditAt
<1>4. row \in Row
  BY RowsAreRows
<1>5. CASE t # s
  <2>1. request'[t] = request[t] /\ next'[t] = next[t] /\ mine'[t] = mine[t] /\ Written(t)' = Written(t)
    BY <1>2, <1>5, BegunEffect, SkippedEffect, ExecutedEffect, EndedEffect
  <2>2. db'[row] = db[row]
    <3>1. row \notin Written(s)
      BY <1>2, <1>5, <2>1 DEF LockInv
    <3>. QED
      BY <1>2, <1>4, <3>1, BegunEffect, SkippedEffect, ExecutedEffect, EndedEffect
  <2>. QED
    BY <1>2, <1>3, <2>1, <2>2
<1>6. CASE t = s /\ (Begun(s) \/ Ended(s))
  BY <1>2, <1>6, BegunEffect, EndedEffect
<1>7. ASSUME t = s, next[s] \in 1 .. Len(request[s]), request' = request,
             Stmt(s).row = row \/ row \in Written(s)
      PROVE  /\ Edit(request[s]) /\ EditOf(request[s], n) /\ Len(request[s]) \in Nat
             /\ Stmt(s).row = row /\ Stmt(s).op = "update"
  <2>1. \E i \in 1 .. Len(request[s]) : request[s][i].row = row
    BY <1>7 DEF MineInv, Stmt
  <2>2. EditOf(request[s], n)
    BY <1>2, <1>7, <2>1, EditPage
  <2>3. Len(request[s]) \in Nat
    BY PageLength, TypeParts
  <2>. QED
    BY <1>2, <1>7, <2>2, <2>3 DEF EditOf, Stmt
<1>8. CASE t = s /\ Skipped(s)
  <2>1. row \in Written(s) /\ next[s] \in 1 .. Len(request[s]) /\ request' = request
    BY <1>2, <1>8, SkippedEffect
  <2>2. Stmt(s).row = row /\ EditAt(request[s], next[s], db[row], mine[s][row])
    BY <1>3, <1>7, <1>8, <2>1
  <2>3. View(s)[row] = mine[s][row]
    BY <1>4, <2>1 DEF View
  <2>. QED
    BY <1>8, <2>2, <2>3, SkippedEffect DEF EditAt, Analise
<1>9. ASSUME t = s, NEW r, NEW value, Executed(s, r, value)
      PROVE  EditAt(request'[t], next'[t], db'[row], mine'[t][row])
  <2>1. /\ next[s] \in 1 .. Len(request[s]) /\ request' = request /\ db' = db /\ r = Stmt(s).row
        /\ next'[s] = next[s] + 1
    BY <1>9, ExecutedEffect
  <2>2. /\ Edit(request[s]) /\ EditOf(request[s], n) /\ Len(request[s]) \in Nat
        /\ r = row /\ Stmt(s).op = "update"
    <3>1. r = row \/ row \in Written(s)
      BY <1>2, <1>9, ExecutedEffect
    <3>. QED
      BY <1>7, <1>9, <2>1, <3>1
  <2>3. /\ View(s)[row] # Absent
        /\ mine'[s][row] = Changed(View(s)[row], request[s][next[s]].value)
    <3>1. View(s)[r] # Absent /\ value = Changed(View(s)[r], Stmt(s).value)
      BY <1>9, <2>2 DEF Executed
    <3>2. mine'[s][r] = value
      BY <1>9, ExecutedEffect
    <3>. QED
      BY <2>2, <3>1, <3>2 DEF Stmt
  <2>4. View(s)[row] = IF row \in Written(s) THEN mine[s][row] ELSE db[row]
    BY <1>4 DEF View
  <2>5. View(s)[row] \in Analise
    BY <1>4, <2>3, ViewFits DEF Fits, AnaliseRow
  <2>6. CASE row \in Written(s)
    <3>1. EditAt(request[s], next[s], db[row], mine[s][row])
      BY <1>3, <1>9, <2>2, <2>6
    <3>2. EditAt(request[s], next[s] + 1, db[row], Changed(mine[s][row], request[s][next[s]].value))
      BY <2>1, <2>2, <3>1, EditNext
    <3>. QED
      BY <1>9, <2>1, <2>3, <2>4, <2>6, <3>2
  <2>7. CASE row \notin Written(s)
    <3>1. EditAt(request[s], next[s] + 1, db[row], Changed(db[row], request[s][next[s]].value))
      BY <2>1, <2>2, <2>4, <2>5, <2>7, EditFirst
    <3>. QED
      BY <1>9, <2>1, <2>3, <2>4, <2>7, <3>1
  <2>. QED
    BY <2>6, <2>7
<1>. QED
  BY <1>2, <1>5, <1>6, <1>8, <1>9

-----------------------------------------------------------------------------
\* The invariant holds of every behaviour.

LEMMA Begins ==
  ASSUME Init
  PROVE  IInv
<1>1. /\ DOMAIN db = Row
      /\ \A c \in Consultas : db[Medica(c[1])] # Absent
      /\ \A r \in Row : db[r] # Absent => Fits(r, db[r]) /\ Referred(db, r, db[r])
  BY PopulationsAssumption DEF Init, Medica
<1>2. /\ request = [s \in Sessions |-> <<>>] /\ next = [s \in Sessions |-> 1]
      /\ mine = [s \in Sessions |-> <<>>] /\ overtaken = [s \in Sessions |-> {}]
      /\ sold = {} /\ offered \in Bounds
  BY DEF Init
<1>3. \A s \in Sessions : Written(s) = {} /\ request[s] = <<>> /\ next[s] = 1
  <2>1. DOMAIN <<>> = {}
    OBVIOUS
  <2>. QED
    BY <1>2, <2>1 DEF Written
<1>4. TypeOK
  <2>1. DbTyped
    BY <1>1 DEF DbTyped
  <2>2. SessionsTyped
    BY <1>2, <1>3 DEF SessionsTyped
  <2>3. HistoryTyped
    BY <1>2 DEF HistoryTyped
  <2>. QED
    BY <2>1, <2>2, <2>3, TypeParts
<1>5. MineInv /\ LockInv /\ EditInv /\ DoctorInv /\ TestedInv
  BY <1>1, <1>3 DEF MineInv, LockInv, EditInv, DoctorInv, TestedInv
<1>6. SellingInv
  BY <1>3, SellingStatements DEF SellingInv, Selling
<1>7. SoldInv
  <2>1. SUFFICES ASSUME NEW v \in Sales, NEW c \in Consultas, db[SaleOf(c, v)] # Absent
                 PROVE  db[Prescricao(c)] # Absent /\ db[Sale(v)] # Absent
    BY <1>3 DEF SoldInv, Due, Kept
  <2>2. Referred(db, SaleOf(c, v), db[SaleOf(c, v)])
    BY <1>1, <2>1, RowsAreRows
  <2>3. \A parent \in Parents(SaleOf(c, v)) : db[parent] # Absent
    BY <2>2 DEF Referred
  <2>. QED
    BY <2>3, ParentsOfSale
<1>8. OnceInv
  BY <1>2 DEF OnceInv
<1>. QED
  BY <1>4, <1>5, <1>6, <1>7, <1>8 DEF IInv

LEMMA Continues ==
  ASSUME IInv, [Next]_vars
  PROVE  IInv'
BY TypeStep, LockStep, DoctorStep, TestedStep, SellingStep, SoldStep, OnceStep, EditStep DEF IInv

LEMMA Always == Spec => []IInv
BY Begins, Continues, PTL DEF Spec

\* The tables hold rows of their columns, and an analysis has a doctor if and
\* only if it has a patient (ri_analise_aux of RI.sql).
THEOREM TypeCorrect == Spec => []TypeOK
<1>1. IInv => TypeOK
  BY DEF IInv
<1>. QED
  BY <1>1, Always, PTL

\* What MismatchesExplained says of a step and analysis n.
Explained(n) ==
  LET row == <<"analise", n>>
      d   == db'[row].num_cedula
  IN Mismatch(n)' =>
       \/ \E s \in Sessions : Commits(s, row) /\ d \in overtaken[s]
       \/ \E s \in Sessions : Commits(s, <<"medico", d>>)
       \/ Mismatch(n) /\ \A s \in Sessions : ~Commits(s, row)

\* From whatever was loaded, and whatever the pages do together, what is committed
\* of an analysis linked to a consultation has the specialty of its doctor, but
\* for the edits of that doctor that nothing checks: the trigger's test outlives
\* the statement that made it.
THEOREM MismatchesAreExplained == Spec => MismatchesExplained
<1>1. ASSUME IInv, [Next]_vars, NEW n \in Analyses
      PROVE  Explained(n)
  <2> DEFINE row == AnaliseRow(n)
             a   == db'[row]
             d   == a.num_cedula
  <2>1. SUFFICES ASSUME Mismatch(n)'
                 PROVE  \/ \E s \in Sessions : Commits(s, row) /\ d \in overtaken[s]
                        \/ \E s \in Sessions : Commits(s, Medica(d))
                        \/ Mismatch(n) /\ \A s \in Sessions : ~Commits(s, row)
    BY DEF Explained, AnaliseRow, Medica
  <2>2. /\ a # Absent /\ Linked(a)
        /\ db'[Medica(d)].especialidade # a.especialidade
    BY <2>1 DEF Mismatch, AnaliseRow, Medica
  <2>3. d \in Doctors
    <3>1. DbTyped'
      BY <1>1, TypeStep, TypeParts, PTL DEF IInv
    <3>2. Fits(row, a)
      BY <2>2, <3>1, RowsAreRows DEF DbTyped
    <3>. QED
      BY <2>2, <3>2 DEF Fits, Linked, Analise, AnaliseRow
  <2>4. ASSUME NEW s \in Sessions, Commits(s, row)
        PROVE  d \in overtaken[s]
    <3>1. db' = View(s) /\ row \in Written(s)
      BY <2>4 DEF Commits, Commit
    <3>2. Medica(d) \notin Written(s)
      <4>1. PICK i \in 1 .. Len(request[s]) : row = request[s][i].row
        BY <1>1, <3>1 DEF IInv, MineInv
      <4>. QED
        BY <1>1, <2>3, <4>1, OneTable DEF IInv, AnaliseRow
    <3>3. a = mine[s][row] /\ db'[Medica(d)] = db[Medica(d)]
      BY <2>3, <3>1, <3>2, RowsAreRows DEF View
    <3>4. TestedBy(a, db, overtaken[s])
      BY <1>1, <2>2, <3>1, <3>3 DEF IInv, TestedInv
    <3>. QED
      BY <2>2, <3>3, <3>4 DEF TestedBy
  <2>5. ASSUME \A s \in Sessions : ~Commits(s, row) /\ ~Commits(s, Medica(d))
        PROVE  Mismatch(n)
    <3>1. db'[row] = db[row] /\ db'[Medica(d)] = db[Medica(d)]
      <4>1. CASE UNCHANGED db
        BY <4>1
      <4>2. ASSUME NEW s \in Sessions, Commit(s)
            PROVE  db'[row] = db[row] /\ db'[Medica(d)] = db[Medica(d)]
        <5>1. db' = View(s) /\ row \notin Written(s) /\ Medica(d) \notin Written(s)
          BY <2>5, <4>2 DEF Commits, Commit
        <5>. QED
          BY <2>3, <5>1, RowsAreRows DEF View
      <4>3. UNCHANGED db \/ \E s \in Sessions : Commit(s)
        BY <1>1 DEF Next, Get, Execute, Fail, vars
      <4>. QED
        BY <4>1, <4>2, <4>3
    <3>. QED
      BY <2>2, <3>1 DEF Mismatch, AnaliseRow, Medica
  <2>. QED
    BY <2>4, <2>5
<1>2. IInv /\ [Next]_vars => [\A n \in Analyses : Explained(n)]_vars
  BY <1>1, Zenon
<1>. QED
  BY <1>2, Always, PTL DEF MismatchesExplained, Explained, Spec

\* From whatever was loaded, a sale that a page makes with a prescription is there
\* with that one and no other, and what is sold refers to rows that are there,
\* however pages overlap.
THEOREM SalesAreWhole == Spec => []SaleIsWhole
<1>1. IInv => SaleIsWhole
  <2>1. SUFFICES ASSUME TypeOK, SoldInv, OnceInv
                 PROVE  SaleIsWhole
    BY DEF IInv
  <2>2. ASSUME NEW v \in Sales
        PROVE  LET used == {c \in Consultas : There(SaleOf(c, v))} IN
               /\ v \in sold => There(Sale(v)) /\ \E c \in Consultas : used = {c}
               /\ \A c \in used : There(Prescricao(c)) /\ There(Sale(v))
    <3> DEFINE used == {c \in Consultas : There(SaleOf(c, v))}
    <3>1. \A c \in used : There(Prescricao(c)) /\ There(Sale(v))
      BY <2>1 DEF SoldInv, Due, Kept, There
    <3>2. ASSUME v \in sold
          PROVE  There(Sale(v)) /\ \E c \in Consultas : used = {c}
      <4>1. PICK c \in Consultas : db[SaleOf(c, v)] # Absent
        BY <2>1, <3>2 DEF OnceInv
      <4>2. used = {c}
        BY <2>1, <3>2, <4>1 DEF OnceInv, There
      <4>. QED
        BY <2>1, <3>2, <4>2 DEF OnceInv, There
    <3>. QED
      BY <3>1, <3>2
  <2>. QED
    BY <2>1, <2>2 DEF SaleIsWhole, Sale, SaleOf, Prescricao
<1>. QED
  BY <1>1, Always, PTL

\* What EditIsWhole says of a step of session s and analysis n.
Whole(s, n) ==
  LET row   == <<"analise", n>>
      all   == {i \in 1 .. Len(request[s]) : request[s][i].op = "update"}
      done(i) == db'[row] = Changed(db'[row], request[s][i].value)
      left(i) == \A f \in DOMAIN request[s][i].value : db'[row][f] = db[row][f]
  IN Commit(s) /\ row \in Written(s) /\ all # {}
     => \E k \in all : \A i \in all : IF i >= k THEN done(i) ELSE left(i)

\* What an edit of an analysis commits is a last part of its UPDATEs, whatever
\* the pages it overlaps with commit meanwhile.
THEOREM EditsAreWhole == Spec => EditIsWhole
<1> DEFINE edits(s) == {i \in 1 .. Len(request[s]) : request[s][i].op = "update"}
<1>1. ASSUME IInv, NEW s \in Sessions, NEW n \in Analyses, Commit(s),
             AnaliseRow(n) \in Written(s), edits(s) # {}
      PROVE  \E k \in edits(s) : \A i \in edits(s) :
               IF i >= k THEN db'[AnaliseRow(n)] = Changed(db'[AnaliseRow(n)], request[s][i].value)
               ELSE \A f \in DOMAIN request[s][i].value : db'[AnaliseRow(n)][f] = db[AnaliseRow(n)][f]
  <2> DEFINE row == AnaliseRow(n)
             page == request[s]
  <2>1. PICK j \in 1 .. Len(page) : row = page[j].row
    BY <1>1 DEF IInv, MineInv
  <2>2. page \in Pages(offered) /\ offered \in Bounds /\ Len(page) \in 1 .. 3
    <3>1. page \in Pages(offered) /\ offered \in Bounds
      BY <1>1 DEF IInv, TypeOK, Commit, Idle
    <3>. QED
      BY <3>1, PageKinds
  <2>3. ~Single(page)
    <3>1. SUFFICES ASSUME Single(page)
                   PROVE  FALSE
      OBVIOUS
    <3>2. j = 1 /\ page[1].op = "update"
      BY <1>1, <2>1, <3>1 DEF Single
    <3>3. page[1].row = <<"analise", n>>
      BY <2>1, <3>2 DEF AnaliseRow
    <3>4. page[1].op # "insert" /\ page[1].op # "delete"
      BY <3>2
    <3>5. \A r, v : page[1] # Insert(r, v) /\ page[1] # Delete(r)
      BY <3>4, StatementParts
    <3>8. ~\E d \in Doctors, m \in Medico :
            page[1] \in {Insert(<<"medico", d>>, m), Update(<<"medico", d>>, m), Delete(<<"medico", d>>)}
      BY <3>3 DEF Insert, Update, Delete
    <3>. QED
      BY <3>1, <3>5, <3>8, Zenon DEF Single
  <2>4. ~Prescribed(page)
    <3>1. SUFFICES ASSUME NEW v \in Sales, NEW c \in Consultas, page = SellPrescribed(v, c)
                   PROVE  FALSE
      BY DEF Prescribed
    <3>2. j \in 1 .. 2 /\ row \in {Sale(v), SaleOf(c, v)}
      BY <2>1, <3>1, SellingStatements
    <3>. QED
      BY <3>2, RowsDiffer
  <2>5. Edit(page)
    BY <2>2, <2>3, <2>4, PageKinds
  <2>6. edits(s) = 1 .. Len(page)
    BY <2>5 DEF Edit
  <2>7. next[s] > Len(page) /\ next[s] \in Nat
    BY <1>1, <2>2 DEF IInv, TypeOK, Commit
  <2>8. db'[row] = mine[s][row]
    BY <1>1, RowsAreRows DEF Commit, View
  <2>9. PICK k \in 1 .. Len(page) :
          /\ k < next[s]
          /\ \A i \in 1 .. Len(page) :
               i < next[s] => IF i >= k THEN Done(mine[s][row], page, i)
                              ELSE Left(mine[s][row], db[row], page, i)
    BY <1>1, <2>5 DEF IInv, EditInv
  <2>10. \A i \in 1 .. Len(page) : i < next[s]
    BY <2>2, <2>7
  <2>11. \A i \in 1 .. Len(page) :
           IF i >= k THEN db'[row] = Changed(db'[row], page[i].value)
           ELSE \A f \in DOMAIN page[i].value : db'[row][f] = db[row][f]
    <3>1. \A i \in 1 .. Len(page) : IF i >= k THEN Done(mine[s][row], page, i)
                                    ELSE Left(mine[s][row], db[row], page, i)
      BY <2>9, <2>10
    <3>. QED
      BY <2>8, <3>1 DEF Done, Left
  <2> HIDE DEF edits, row
  <2>. QED
    BY <2>6, <2>11, Zenon DEF row
<1> HIDE DEF edits
<1>2. ASSUME IInv, NEW s \in Sessions, NEW n \in Analyses
      PROVE  Whole(s, n)
  <2>1. CASE Commit(s) /\ AnaliseRow(n) \in Written(s) /\ edits(s) # {}
    <3>1. PICK k \in edits(s) : \A i \in edits(s) :
            IF i >= k THEN db'[AnaliseRow(n)] = Changed(db'[AnaliseRow(n)], request[s][i].value)
            ELSE \A f \in DOMAIN request[s][i].value : db'[AnaliseRow(n)][f] = db[AnaliseRow(n)][f]
      BY <1>1, <1>2, <2>1, Zenon
    <3>. QED
      BY <3>1 DEF Whole, AnaliseRow, edits
  <2>2. CASE ~(Commit(s) /\ AnaliseRow(n) \in Written(s) /\ edits(s) # {})
    BY <2>2 DEF Whole, AnaliseRow, edits
  <2>. QED
    BY <2>1, <2>2
<1>3. IInv /\ [Next]_vars =>
        [\A s \in Sessions, n \in Analyses : Whole(s, n)]_vars
  BY <1>2, Zenon
<1>. QED
  BY <1>3, Always, PTL DEF EditIsWhole, Whole, Spec
=============================================================================
