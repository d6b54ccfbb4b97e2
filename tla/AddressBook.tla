---------------------------- MODULE AddressBook ----------------------------
(***************************************************************************)
(* What C/IAED_project.c promises: a book of contacts in the order they    *)
(* were added, at most one for each name, with six commands, each answered *)
(* from the book alone.  ContactBook implements it.                        *)
(***************************************************************************)
EXTENDS Naturals, Sequences, SequencesExt, FiniteSets

CONSTANTS Names, Locals, Domains

VARIABLES
  open,      \* has the program not ended?
  contacts,  \* the book
  reply      \* the lines the last command printed

vars == <<open, contacts, reply>>

Emails  == [local : Locals, dominio : Domains]
Contact == [nome : Names, local : Locals, dominio : Domains]

ContactOf(n, e) == [nome |-> n, local |-> e.local, dominio |-> e.dominio]

Exists(n) == \E i \in DOMAIN contacts : contacts[i].nome = n

Error(message) == <<[error |-> message]>>

Init == open = TRUE /\ contacts = <<>> /\ reply = <<>>

Add(n, e) ==
  \/ /\ ~Exists(n)
     /\ contacts' = Append(contacts, ContactOf(n, e))
     /\ reply' = <<>>
  \/ /\ Exists(n)
     /\ reply' = Error("Nome existente.")
     /\ UNCHANGED contacts

Delete(n) ==
  \/ \E i \in DOMAIN contacts :
       /\ contacts[i].nome = n
       /\ contacts' = RemoveAt(contacts, i)
       /\ reply' = <<>>
  \/ /\ ~Exists(n)
     /\ reply' = Error("Nome inexistente.")
     /\ UNCHANGED contacts

Change(n, e) ==
  /\ contacts' = [i \in DOMAIN contacts |->
                    IF contacts[i].nome = n THEN ContactOf(n, e) ELSE contacts[i]]
  /\ reply' = IF Exists(n) THEN <<>> ELSE Error("Nome inexistente.")

Find(n) ==
  /\ \/ \E i \in DOMAIN contacts : contacts[i].nome = n /\ reply' = <<contacts[i]>>
     \/ ~Exists(n) /\ reply' = Error("Nome inexistente.")
  /\ UNCHANGED contacts

List == reply' = contacts /\ UNCHANGED contacts

Count(d) ==
  /\ reply' = <<[num_oc |-> Cardinality({i \in DOMAIN contacts :
                                           contacts[i].dominio = d})]>>
  /\ UNCHANGED contacts

Command ==
  /\ open /\ UNCHANGED open
  /\ \/ \E n \in Names, e \in Emails : Add(n, e) \/ Change(n, e)
     \/ \E n \in Names : Delete(n) \/ Find(n)
     \/ \E d \in Domains : Count(d)
     \/ List

Exit == open /\ open' = FALSE /\ contacts' = <<>> /\ reply' = <<>>

Next == Command \/ Exit

Spec == Init /\ [][Next]_vars
=============================================================================
