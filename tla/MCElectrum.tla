----------------------------- MODULE MCElectrum -----------------------------
EXTENDS Electrum

AllRequests == {<<"other">>, <<"headers">>} \cup {"subscribe", "unsubscribe", "broadcast"} \X Scripts

\* One connection and two requests and changes, two connections that share a request, or one
\* connection with no deadline but its age.
OneOrTwo == {[accepts |-> 1, requests |-> 2, changes |-> 2, deadlines |-> {"write_timeout"}],
             [accepts |-> 2, requests |-> 1, changes |-> 0, deadlines |-> {"write_timeout"}],
             [accepts |-> 1, requests |-> 1, changes |-> 1, deadlines |-> {"conn_max_age"}]}
==============================================================================
