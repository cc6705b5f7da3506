---------------------------- MODULE MCLiveStudy ----------------------------
(* Instances of LiveStudy: two buses, a branch with and one without a limit. *)
EXTENDS LiveStudy

Edit(element, form, mw) == [key |-> [element |-> element, form |-> form], mw |-> mw]

\* Both keys of a bus, a bus without loads, a branch with and one without a
\* stated limit, and a branch that is out of service.
MCEdits ==
  {Edit("b1", "id", -3), Edit("b1", "id", 2), Edit("b1", "uid", 2), Edit("b2", "id", 2),
   Edit("l1", "uid", -1), Edit("l2", "id", -3), Edit("out", "id", 2)}
MCGeneration == [b \in {"b1", "b2"} |-> IF b = "b1" THEN 0 ELSE 4]

MCNetwork ==
  [loads |-> [b \in {"b1", "b2"} |-> IF b = "b1" THEN <<1, 1>> ELSE <<>>],
   rate |-> [l \in {"l1", "l2", "out"} |-> IF l = "l2" THEN 0 ELSE 2],
   located |-> FALSE]

\* A network with a history that a former session left, and an AC power flow
\* instance whose injections are its own.
MCSources ==
  {[kind |-> "network", of |-> None, net |-> MCNetwork, spec |-> None,
    history |-> <<<<"parse", 0>>, <<"edit", 2>>>>],
   [kind |-> "instance", of |-> "acpf", net |-> MCNetwork,
    spec |-> [b \in {"b1", "b2"} |-> IF b = "b1" THEN -3 ELSE 0],
    history |-> <<>>]}
=============================================================================
