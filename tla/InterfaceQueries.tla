-------------------------- MODULE InterfaceQueries --------------------------
(***************************************************************************)
(* What clients read of the interfaces: get_interfaces, interface_count,   *)
(* first_interface and single_interface of                                 *)
(* bubble_core/src/api/api_registry_api.rs, under the read lock.  The hash *)
(* map is iterated in an order nobody chooses.                             *)
(***************************************************************************)
EXTENDS InterfaceRegistry, SequencesExt

CONSTANT NoInterface

Compatible(v) == {k \in Keys : Caret(v, k)}

\* The handles of all compatible entries, for every order of the entries.
Handles(v) ==
  {FlattenSeq([n \in DOMAIN order |-> inner_interfaces[order[n]]]) :
     order \in SetToSeqs(Compatible(v))}

\* The first handle of every id stays.
GetInterfaces(handles) ==
  FoldLeft(LAMBDA unique, i :
             IF \E n \in DOMAIN unique : unique[n].id = i.id THEN unique
             ELSE Append(unique, i),
           <<>>, handles)

InterfaceCount(handles) == Len(GetInterfaces(handles))

Greatest(v) == CHOOSE k \in Compatible(v) : \A l \in Compatible(v) : Leq(l, k)

\* The first instance of the greatest compatible entry, if that has one.
FirstInterface(v) ==
  IF Compatible(v) = {} \/ inner_interfaces[Greatest(v)] = <<>> THEN NoInterface
  ELSE Head(inner_interfaces[Greatest(v)])

\* One pass: a known id is passed over, a second new one ends the search.
SingleInterface(handles) ==
  LET Look(found, i) ==
        IF i.id \in found.seen THEN found
        ELSE [seen |-> found.seen \cup {i.id},
              unique |-> IF found.seen = {} THEN i ELSE NoInterface]
  IN FoldLeft(Look, [seen |-> {}, unique |-> NoInterface], handles).unique

-----------------------------------------------------------------------------
(* Properties *)

Ided(handles) == {i.id : i \in ToSet(GetInterfaces(handles))}

\* The ids of what the three queries for v answer with.
Answered(v, handles) ==
  Ided(handles) \cup {i.id : i \in {SingleInterface(handles), FirstInterface(v)} \ {NoInterface}}

ListedTwice(v, id) ==
  \E k \in Compatible(v) : \E m, n \in DOMAIN inner_interfaces[k] :
    m # n /\ inner_interfaces[k][m].id = id /\ inner_interfaces[k][n].id = id


\* The answer of first_interface does not change under a client but for three
\* reasons: a greater compatible version gets its entry, the instance's id is
\* removed for a requirement that the entry satisfies, or all is shut down.
FirstStays ==
  [][\A v \in Versions :
       FirstInterface(v) # NoInterface /\ FirstInterface(v)' # FirstInterface(v) =>
         \/ \E w \in Versions, id \in Ids :
              /\ AddInterface(w, id)
              /\ w \notin Keys /\ Caret(v, w)
              /\ \A k \in Compatible(v) : Leq(k, w)
         \/ \E from \in Versions :
              RemoveInterface(from, FirstInterface(v).id) /\ Caret(from, Greatest(v))
         \/ ShutdownInterfaces]_interfacesVars
=============================================================================
