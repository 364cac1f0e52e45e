------------------------------ MODULE MCParts ------------------------------
(***************************************************************************)
(* The smaller parts side by side, for TLC: the tick loop, the dispatchers *)
(* and the interfaces.  They share nothing, so a behaviour is one of one   *)
(* part, chosen at the start.                                              *)
(***************************************************************************)
EXTENDS TickLoop, Dispatchers, InterfaceQueries

\* Three versions that satisfy one another in turn, and one apart.
SomeVersions == {V(1, 2, 3), V(1, 2, 4), V(1, 3, 0), V(2, 0, 0)}

VARIABLE part

partsVars == <<part, vars, dispatchersVars, interfacesVars>>

PartsInit ==
  /\ part \in {"ticks", "dispatchers", "interfaces"}
  /\ Init /\ DispatchersInit /\ InterfacesInit

OfTicks == part = "ticks" /\ UNCHANGED <<part, dispatchersVars, interfacesVars>>
OfDispatchers == part = "dispatchers" /\ UNCHANGED <<part, vars, interfacesVars>>
OfInterfaces == part = "interfaces" /\ UNCHANGED <<part, vars, dispatchersVars>>

PartsNext ==
  \/ Next /\ OfTicks
  \/ DispatchersNext /\ OfDispatchers
  \/ InterfacesNext /\ OfInterfaces

\* The fairness of each part, for the behaviours that are about it.
PartsSpec ==
  /\ PartsInit /\ [][PartsNext]_partsVars
  /\ WF_partsVars(Thread /\ OfTicks)
  /\ \A i \in Ticks : WF_partsVars(Task(i) /\ OfTicks)
  /\ \A c \in Callers : WF_partsVars(Step(c) /\ OfDispatchers)
  /\ \A k \in Kinds : WF_partsVars(Run(k) /\ OfDispatchers)

\* The types of the variables of each part.
TypesOK == TypeOK /\ DispatchersType /\ InterfacesType
=============================================================================
