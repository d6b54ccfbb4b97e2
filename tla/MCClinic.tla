------------------------------ MODULE MCClinic ------------------------------
(***************************************************************************)
(* An instance of Clinic for TLC: who has consulted whom, what the tables  *)
(* are loaded with, and what is asked for.                                 *)
(***************************************************************************)
EXTENDS Clinic

CONSTANTS d1, d2, p1, n1, v1, heart, eyes

\* One patient has been to both doctors.
ConsultedBoth == {<<d1, p1>>, <<d2, p1>>}

\* Doctors of one specialty, with those of rows that are there.
Loaded(specialty, rows) ==
  [r \in Row |-> CASE r[1] = "medico"  -> [especialidade |-> specialty]
                   [] r \notin rows    -> Absent
                   [] r[1] = "analise" -> [especialidade |-> heart, num_cedula |-> d1,
                                           num_doente |-> p1]
                   [] OTHER            -> Empty]

SoldTwice == {<<"venda_farmacia", v1>>}
             \cup {<<"prescricao", c>> : c \in ConsultedBoth}
             \cup {<<"prescricao_venda", <<c, v1>>>> : c \in ConsultedBoth}

\* Doctors alone; an analysis of another specialty than its doctor's, as those of
\* populate.sql:852; and a sale of two prescriptions, as that of populate.sql:1079.
SomePopulations ==
  {Loaded(heart, {}), Loaded(eyes, {<<"analise", n1>>}), Loaded(heart, SoldTwice)}

\* Doctors and analyses, or prescriptions and sales: no constraint is about both.
Counters == {{"iedmedico", "iedanalise"},
             {"iedprescricao", "vendasprescricao", "vendassemprescricao"}}
=============================================================================
