---------------------------- MODULE MCCallRecords ----------------------------
(***************************************************************************)
(* Instances of CallRecords for TLC, and what the documentation says of the *)
(* records and the code does not do.                                        *)
(***************************************************************************)
EXTENDS CallRecords

CONSTANTS promo, support  \* two flows

\* An outbound call asking for a flow and a callback, to an agent that has
\* another flow; an inbound call to an agent whose flow transfers it; an
\* outbound call that asks for nothing.
Campaign == [outbound |-> TRUE, flow_id |-> promo, callback |-> TRUE,
             agent_flow |-> support, transfers |-> FALSE, routed |-> TRUE]
Inbound  == [outbound |-> FALSE, flow_id |-> NoFlow, callback |-> FALSE,
             agent_flow |-> support, transfers |-> TRUE, routed |-> FALSE]
Plain    == [Campaign EXCEPT !.flow_id = NoFlow, !.callback = FALSE]

AllCalls == {Campaign, Inbound, Plain}
OneCampaign == {Campaign}

\* outbound.py:179: "Mark the pre-created record as failed so it doesn't stay as
\* 'pending'."
FailedIsNotPending ==
  req \in REQUEST_FAILURES => row = NoRow \/ row.end_reason # "pending"
=============================================================================
