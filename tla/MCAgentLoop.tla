----------------------------- MODULE MCAgentLoop -----------------------------
(* Small instances of AgentLoop: which responses the provider may give.     *)
EXTENDS AgentLoop

Ok(cs) == [stop |-> "ok", text |-> TRUE, calls |-> cs]

(* Every way a response can end, and the calls whose bookkeeping differs.   *)
TurnResponses ==
    {Ok(cs) : cs \in {<<>>, <<"read", "read">>, <<"read", "check">>, <<"unknown", "unknown">>,
                      <<"exit">>}}
    \cup [stop : {"max_tokens"}, text : BOOLEAN, calls : {<<"read">>}]
    \cup {[stop |-> "bad", text |-> TRUE, calls |-> <<>>]}

(* Writes, checks and waivers, alone and in the two orders that race: the   *)
(* waiver given in the response of the write, the write after its check;    *)
(* ExitPlanMode, which ends a run after writes of its earlier turns.        *)
GateResponses ==
    {Ok(cs) : cs \in {<<>>, <<"write">>, <<"check">>, <<"write", "waive">>,
                      <<"exit">>}}

(* One response for each way a turn can go on or end.                       *)
EndingResponses ==
    {Ok(cs) : cs \in {<<>>, <<"write">>, <<"agent">>, <<"unknown">>}}
    \cup [stop : {"max_tokens"}, text : BOOLEAN, calls : {<<>>}]

(* Exclusive calls only: a Bash command and a file write.                   *)
ExclusiveResponses == {Ok(cs) : cs \in {<<>>, <<"check">>, <<"write">>}}
==============================================================================
