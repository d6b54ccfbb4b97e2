---------------------------- MODULE ContactBook ----------------------------
(***************************************************************************)
(* C/IAED_project.c: a contact book kept in three structures at once.  A   *)
(* doubly linked list holds the contacts in the order they were added; a   *)
(* hash table of doubly linked chains finds a contact by name; a list of   *)
(* domains counts the contacts of each.  One command is one action.        *)
(*                                                                         *)
(* A contact, its node of the list and its node of a chain are allocated   *)
(* and freed together and point at each other for as long as they live:    *)
(* one element of Nodes stands for the three.  Lengths of strings, and     *)
(* with them the sizes of buffers, are left out, as is the phone number,   *)
(* which no command changes.                                               *)
(***************************************************************************)
EXTENDS Naturals, Sequences, SequencesExt, FiniteSets

CONSTANTS
  Names, Locals, Domains,
  Nodes,      \* places malloc may return
  Keys,       \* indices of the hash table
  calc_key,   \* the hash function
  NULL

Emails   == [local : Locals, dominio : Domains]
Contacto == [nome : Names, local : Locals, dominio : Domains]
Pointers == Nodes \cup {NULL}

\* malloc never fails: there are no more contacts at once than names.
ASSUME ContactBookAssumption ==
  /\ IsFiniteSet(Nodes) /\ IsFiniteSet(Names) /\ Cardinality(Nodes) >= Cardinality(Names)
  /\ calc_key \in [Names -> Keys]
  /\ NULL \notin Nodes \cup Contacto

VARIABLES
  running,
  p_c,             \* node -> its contact, or NULL if the node is not allocated
  head, tail, next, prev,   \* the list
  heads, hnext, hprev,      \* the chains
  domains,         \* the list of domains: a sequence of [dominio, num_oc]
  reply            \* the lines the last command printed

list   == <<head, tail, next, prev>>
chains == <<heads, hnext, hprev>>
vars   == <<running, p_c, list, chains, domains, reply>>

TypeOK ==
  /\ running \in BOOLEAN
  /\ p_c \in [Nodes -> Contacto \cup {NULL}]
  /\ {head, tail} \subseteq Pointers
  /\ {next, prev, hnext, hprev} \subseteq [Nodes -> Pointers]
  /\ heads \in [Keys -> Pointers]
  /\ domains \in Seq([dominio : Domains, num_oc : Nat])

Nowhere == [x \in Nodes |-> NULL]

Init ==
  /\ running = TRUE
  /\ p_c = Nowhere
  /\ head = NULL /\ tail = NULL /\ next = Nowhere /\ prev = Nowhere
  /\ heads = [k \in Keys |-> NULL] /\ hnext = Nowhere /\ hprev = Nowhere
  /\ domains = <<>>
  /\ reply = <<>>

-----------------------------------------------------------------------------
\* Walking and changing linked lists.

\* Where a loop from start along step is after 0, 1, ... turns.
Turns(start, step) ==
  LET after == [x \in Pointers |-> IF x = NULL THEN NULL ELSE step[x]]
      at[k \in 0 .. Cardinality(Nodes)] == IF k = 0 THEN start ELSE after[at[k - 1]]
  IN at

\* The nodes it visits, in order.
Walk(start, step) ==
  LET at  == Turns(start, step)
      len == Cardinality({k \in 0 .. Cardinality(Nodes) : at[k] # NULL})
  IN [k \in 1 .. len |-> at[k - 1]]

\* The first contact of that name in the chain of its key.
nome_existe(n) ==
  LET chain == Walk(heads[calc_key[n]], hnext)
      hits  == {i \in DOMAIN chain : p_c[chain[i]] # NULL /\ p_c[chain[i]].nome = n}
  IN IF hits = {} THEN NULL ELSE chain[CHOOSE i \in hits : \A j \in hits : i <= j]

\* Mutation: the neighbour is not told.
BypassNothing(step, back, x) == [step EXCEPT ![x] = NULL]

\* step without x: its predecessor, if it has one, points to its successor.
\* (A pointer of a freed node is NULL here; the code never reads it again.)
Bypass(step, back, x) ==
  [y \in Nodes |-> IF y = x THEN NULL ELSE IF y = back[x] THEN step[x] ELSE step[y]]

DomainAt(entries, d) == SelectInSeq(entries, LAMBDA entry : entry.dominio = d)

\* Mutation: a known domain gets another entry.
CountedAgain(entries, d) == <<[dominio |-> d, num_oc |-> 1]>> \o entries

\* One contact more in domain d.
Counted(entries, d) ==
  IF \E i \in DOMAIN entries : entries[i].dominio = d
  THEN [entries EXCEPT ![DomainAt(entries, d)].num_oc = @ + 1]
  ELSE <<[dominio |-> d, num_oc |-> 1]>> \o entries

\* One contact less in domain d.  The entry stays when its count comes to zero.
Uncounted(entries, d) ==
  IF \E i \in DOMAIN entries : entries[i].dominio = d /\ entries[i].num_oc # 0
  THEN [entries EXCEPT ![DomainAt(entries, d)].num_oc = @ - 1]
  ELSE entries

Error(message) == <<[error |-> message]>>

-----------------------------------------------------------------------------
\* The commands.

\* cria_contacto: new nodes at the end of the list and of the chain.
cria_contacto(n, e) ==
  LET x     == CHOOSE y \in Nodes : p_c[y] = NULL
      key   == calc_key[n]
      chain == Walk(heads[key], hnext)
  IN /\ p_c' = [p_c EXCEPT ![x] =
                  [nome |-> n, local |-> e.local, dominio |-> e.dominio]]
     /\ domains' = Counted(domains, e.dominio)
     /\ head' = IF head = NULL THEN x ELSE head
     /\ tail' = x
     /\ next' = IF head = NULL THEN next ELSE [next EXCEPT ![tail] = x]
     /\ prev' = IF head = NULL THEN prev ELSE [prev EXCEPT ![x] = tail]
     /\ IF chain = <<>>
        THEN heads' = [heads EXCEPT ![key] = x] /\ UNCHANGED <<hnext, hprev>>
        ELSE /\ hnext' = [hnext EXCEPT ![Last(chain)] = x]
             /\ hprev' = [hprev EXCEPT ![x] = Last(chain)]
             /\ UNCHANGED heads

Adiciona_Contacto(n, e) ==
  /\ running
  /\ \/ /\ nome_existe(n) = NULL
        /\ cria_contacto(n, e)
        /\ reply' = <<>>
     \/ /\ nome_existe(n) # NULL
        /\ reply' = Error("Nome existente.")
        /\ UNCHANGED <<p_c, list, chains, domains>>
  /\ UNCHANGED running

Lista_Contactos ==
  /\ running
  /\ LET walk == Walk(head, next) IN reply' = [i \in DOMAIN walk |-> p_c[walk[i]]]
  /\ UNCHANGED <<running, p_c, list, chains, domains>>

Procura_Contacto(n) ==
  /\ running
  /\ reply' = IF nome_existe(n) # NULL THEN <<p_c[nome_existe(n)]>>
                                       ELSE Error("Nome inexistente.")
  /\ UNCHANGED <<running, p_c, list, chains, domains>>

\* Mutation: the branch of the last node leaves tail where it is.
UnlinkKeepingTail(x) ==
  /\ next' = Bypass(next, prev, x)
  /\ prev' = Bypass(prev, next, x)
  /\ head' = IF prev[x] = NULL THEN next[x] ELSE head
  /\ UNCHANGED tail

\* The four branches of Apaga_Contacto on whether prev and next are NULL.
Unlink(x) ==
  /\ next' = Bypass(next, prev, x)
  /\ prev' = Bypass(prev, next, x)
  /\ head' = IF prev[x] = NULL THEN next[x] ELSE head
  /\ tail' = IF next[x] = NULL THEN prev[x] ELSE tail

\* And the four on the chain, which has no tail.
UnlinkFromChain(x, key) ==
  /\ hnext' = Bypass(hnext, hprev, x)
  /\ hprev' = Bypass(hprev, hnext, x)
  /\ heads' = IF hprev[x] = NULL THEN [heads EXCEPT ![key] = hnext[x]] ELSE heads

Apaga_Contacto(n) ==
  LET x == nome_existe(n) IN
  /\ running
  /\ \/ /\ x # NULL
        /\ domains' = Uncounted(domains, p_c[x].dominio)
        /\ p_c' = [p_c EXCEPT ![x] = NULL]
        /\ Unlink(x)
        /\ UnlinkFromChain(x, calc_key[n])
        /\ reply' = <<>>
     \/ /\ x = NULL
        /\ reply' = Error("Nome inexistente.")
        /\ UNCHANGED <<p_c, list, chains, domains>>
  /\ UNCHANGED running

\* Mutation: the domain before the change is not uncounted.
AlteraKeepingCount(n, e) ==
  LET x == nome_existe(n) IN
  /\ running
  /\ \/ /\ x # NULL
        /\ domains' = Counted(domains, e.dominio)
        /\ p_c' = [p_c EXCEPT ![x].local = e.local, ![x].dominio = e.dominio]
        /\ reply' = <<>>
     \/ /\ x = NULL
        /\ reply' = Error("Nome inexistente.")
        /\ UNCHANGED <<p_c, domains>>
  /\ UNCHANGED <<running, list, chains>>

Altera_email(n, e) ==
  LET x == nome_existe(n) IN
  /\ running
  /\ \/ /\ x # NULL
        /\ domains' = Counted(Uncounted(domains, p_c[x].dominio), e.dominio)
        /\ p_c' = [p_c EXCEPT ![x].local = e.local, ![x].dominio = e.dominio]
        /\ reply' = <<>>
     \/ /\ x = NULL
        /\ reply' = Error("Nome inexistente.")
        /\ UNCHANGED <<p_c, domains>>
  /\ UNCHANGED <<running, list, chains>>

Num_Ocorrencias(d) ==
  /\ running
  /\ reply' = <<[num_oc |-> IF DomainAt(domains, d) = 0 THEN 0
                            ELSE domains[DomainAt(domains, d)].num_oc]>>
  /\ UNCHANGED <<running, p_c, list, chains, domains>>

\* Command x: Liberta_mem frees what it comes to by the list.
Liberta_mem ==
  /\ running
  /\ running' = FALSE
  /\ LET freed == ToSet(Walk(head, next))
     IN p_c' = [x \in Nodes |-> IF x \in freed THEN NULL ELSE p_c[x]]
  /\ head' = NULL /\ tail' = NULL /\ next' = Nowhere /\ prev' = Nowhere
  /\ heads' = [k \in Keys |-> NULL] /\ hnext' = Nowhere /\ hprev' = Nowhere
  /\ domains' = <<>>
  /\ reply' = <<>>

Next ==
  \/ \E n \in Names, e \in Emails : Adiciona_Contacto(n, e) \/ Altera_email(n, e)
  \/ \E n \in Names : Procura_Contacto(n) \/ Apaga_Contacto(n)
  \/ \E d \in Domains : Num_Ocorrencias(d)
  \/ Lista_Contactos
  \/ Liberta_mem

Spec == Init /\ [][Next]_vars

-----------------------------------------------------------------------------
\* Properties.

Allocated == {x \in Nodes : p_c[x] # NULL}

\* A walk along step is a doubly linked list of exactly the nodes of a set.
Linked(walk, back, nodes) ==
  /\ ToSet(walk) = nodes
  /\ IsInjective(walk)
  /\ \A i \in DOMAIN walk : back[walk[i]] = IF i = 1 THEN NULL ELSE walk[i - 1]

\* After any sequence of insertions and of deletions at either end and in the
\* middle, the list goes through every contact that is not freed, and no freed
\* one, once in each direction, and tail is its last node.
ListIntact ==
  LET walk == Walk(head, next)
  IN /\ Linked(walk, prev, Allocated)
     /\ tail = IF walk = <<>> THEN NULL ELSE Last(walk)

\* The chain of each key holds the contacts whose names have that key.
ChainsIntact ==
  \A k \in Keys :
    Linked(Walk(heads[k], hnext), hprev,
           {x \in Allocated : calc_key[p_c[x].nome] = k})

\* The list of domains has no domain twice and counts the contacts of each,
\* through additions, deletions and changes of e-mail.
DomainCounts ==
  /\ \A i, j \in DOMAIN domains : domains[i].dominio = domains[j].dominio => i = j
  /\ \A d \in Domains :
       Cardinality({x \in Allocated : p_c[x].dominio = d})
         = IF DomainAt(domains, d) = 0 THEN 0 ELSE domains[DomainAt(domains, d)].num_oc

\* List, hash chains and domains are whole, and agree on which contacts there
\* are.
StructuresIntact == TypeOK /\ ListIntact /\ ChainsIntact /\ DomainCounts

\* The book as the list has it.
Contacts == LET walk == Walk(head, next) IN [i \in DOMAIN walk |-> p_c[walk[i]]]

Book == INSTANCE AddressBook WITH open <- running, contacts <- Contacts

\* The program is an address book: the three structures together answer every
\* command as one list of contacts would.
ImplementsAddressBook == Book!Spec
=============================================================================
