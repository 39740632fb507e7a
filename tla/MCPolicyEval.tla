------------------------------ MODULE MCPolicyEval -----------------------------
\* Two tasks in an order that is not that of their ids, and fewer workers than
\* jobs, so that results arrive out of order and jobs wait.
EXTENDS PolicyEval

MCTaskIds == <<3, 1>>
MCOneTask == <<3>>
===============================================================================
