-------------------------------- MODULE Episode -------------------------------
(***************************************************************************)
(* What a driver of the environment promises: the agent works on the       *)
(* database and talks to the customer until the environment says the       *)
(* episode is done.  That step judges the work once; afterwards nothing    *)
(* changes.  An episode cut short by a limit stays open, a failure.        *)
(***************************************************************************)
CONSTANTS
    EnvCalls,         \* the calls an agent can make
    Transfer,         \* the one that ends an episode
    Outputs,          \* what the customer is to be told
    Invoke(_, _),     \* Invoke(d, call): the database d after a call
    Matches(_, _)     \* Matches(d, told): the task is solved

VARIABLES
    db,        \* what the agent's calls made of the database
    told,      \* the outputs the agent has told the customer
    outcome    \* "open", or the verdict on a finished episode

Init == db = {} /\ told = {} /\ outcome = "open"

Verdict(d, t) == IF Matches(d, t) THEN "success" ELSE "failure"

\* One call of a tool: the transfer to a human agent ends the episode.
Call ==
    /\ outcome = "open"
    /\ \E call \in EnvCalls :
         /\ db' = Invoke(db, call)
         /\ outcome' = IF call = Transfer THEN Verdict(db, told) ELSE "open"
    /\ UNCHANGED told

\* One answer to the customer, who may end the conversation.
Answer ==
    /\ outcome = "open"
    /\ told' \in SUBSET Outputs
    /\ told \subseteq told'
    /\ outcome' \in {"open", Verdict(db, told')}
    /\ UNCHANGED db

Next == Call \/ Answer

EpisodeSpec == Init /\ [][Next]_<<db, told, outcome>>
===============================================================================
