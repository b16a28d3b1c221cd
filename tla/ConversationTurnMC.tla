------------------------- MODULE ConversationTurnMC -------------------------
(* One thread, turn after turn, with small sets of what the LLM may answer. *)
EXTENDS ConversationTurn

T(promise, ask, price) == [promise |-> promise, ask |-> ask, price |-> price]

\* A plain answer, a forbidden promise, a phone ask and a wrong price.
MCDrafts == {T(FALSE, FALSE, "listed"), T(TRUE, FALSE, "none"),
             T(FALSE, TRUE, "wrong")}

\* Each tool alone and the orders in which two of them disturb each other.
MCCallLists == {<<"capture_lead">>, <<"retrieve_kb">>,
                <<"handoff_to_human", "book_trial">>,
                <<"book_trial", "handoff_to_human", "handoff_to_human">>,
                <<"handoff_to_human", "retrieve_kb">>, <<"unsupported">>}

MCUpdates == {{"lop", "tinh_trang"}, {"sdt"}}

MCInitialStages == {"", "v1_dang_tu_van"}
=============================================================================
