----------------------------- MODULE MCRecall -----------------------------
(* A small memory: one of this session, one of another session of the agent, *)
(* one of the user, and a new one that may replace the session's.            *)
EXTENDS Recall, TLC

CONSTANTS mine, past, user, new

MCScope == mine :> "session" @@ past :> "past" @@ user :> "user" @@ new :> "session"
MCImportance == mine :> 5 @@ past :> 5 @@ user :> 7 @@ new :> 6
MCRequests ==
    {[lanes |-> {"session"}, time |-> "past"], [lanes |-> {"session", "agent"}, time |-> "none"],
     [lanes |-> Lane, time |-> "none"], [lanes |-> Lane, time |-> "past"]}
MCStored == {mine, past, user}
=============================================================================
