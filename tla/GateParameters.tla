---------------------------- MODULE GateParameters ----------------------------
(* The parameters of the listener and its worker gate, and what is assumed of *)
(* them: shared by RequestGate and the process it is a part of.               *)
EXTENDS Naturals, FiniteSets

CONSTANTS Conns,       \* client connections
          MaxWorkers,  \* MAX_REQUEST_WORKERS
          NoConn       \* the serving thread holds no connection

ASSUME WorkersAssumption == MaxWorkers \in Nat \ {0}
ASSUME NoConnAssumption == NoConn \notin Conns
ASSUME ConnsFinite == IsFiniteSet(Conns)
=============================================================================
