--------------------------- MODULE MCEmergencyStop ---------------------------
(* EmergencyStop with the values its model checking runs need.              *)
EXTENDS EmergencyStop, TLC

CONSTANTS c1, c2, o1, o2

OneCall == {c1}
TwoCalls == {c1, c2}
OneOperator == {o1}
TwoOperators == {o1, o2}

\* What the deployed processes do: nobody asks the root helper to pause.
MCWiredNext ==
    \/ \E o \in Operators : Control(o)
    \/ \E c \in Calls : Route(c) \/ Guard(c)
    \/ GatewayRestarts \/ \E s \in Sides : BrokerRestarts(s)

\* No process restarts and no request of the controller to the session is
\* lost: what is left is the order in which things happen.
MCDelivered ==
    \A o \in Operators :
        op'[o] = "idle" =>
            /\ op[o] = "tellPause" => bPaused'["session"]
            /\ op[o] = "tellResume" => ~bPaused'["session"]
MCReliableNext ==
    /\ \/ \E o \in Operators : Control(o)
       \/ \E c \in Calls : Route(c) \/ Guard(c)
    /\ MCDelivered
MCReliable == StopInit /\ [][MCReliableNext]_stopVars
=============================================================================
