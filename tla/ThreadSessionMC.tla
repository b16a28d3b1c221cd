--------------------------- MODULE ThreadSessionMC ---------------------------
(* One thread over many turns, hours apart: the handoff row, its clock and   *)
(* the phone window, with just enough of the graph to reach them.            *)
EXTENDS ThreadSession

T(promise, ask, price) == [promise |-> promise, ask |-> ask, price |-> price]

MCDrafts == {T(FALSE, FALSE, "none"), T(FALSE, TRUE, "listed")}

MCCallLists == {<<"capture_lead">>, <<"handoff_to_human", "retrieve_kb">>}

MCUpdates == {{"sdt"}}

MCInitialStages == {"moi"}
=============================================================================
