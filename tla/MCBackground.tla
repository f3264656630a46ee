---------------------------- MODULE MCBackground ----------------------------
(* What goes on behind the screens: a phone or a browser in front of the    *)
(* server's refresh tokens, or the WhatsApp queue.  A behaviour belongs to  *)
(* one of the three, which share nothing.                                   *)
EXTENDS PhoneClient, WebClient, WhatsappQueue, TLC

CONSTANTS number, meta    \* a society that sends through its number, one through Meta
MCThrough == number :> "number" @@ meta :> "meta"

VARIABLE part
vars == <<serverVars, phoneVars, webVars, queueVars, part>>

Init ==
    /\ part \in {"phone", "browser", "queue"}
    /\ ServerInit /\ PhoneInit /\ WebInit /\ QueueInit
    /\ pushKey = (part = "phone")
    /\ part = "queue" /\ deployed = Servers => gatewayUp /\ canSend = Societies
    /\ part # "queue" => gatewayUp /\ canSend = {} /\ deployed = Servers

\* Bound: two servers begin with everyone able to send, and meet a disturbance with one
\* message queued; one server begins and goes on as it likes.
TwoWithOne == Cardinality(deployed) = 1 \/ disturbances' = 0 \/ Len(outbox') <= 1

Step ==
    /\ \/ part = "phone" /\ PhoneNext /\ UNCHANGED <<webVars, queueVars>>
       \/ part = "browser" /\ WebNext /\ UNCHANGED <<phoneVars, queueVars>>
       \/ part = "queue" /\ QueueNext /\ TwoWithOne /\ UNCHANGED <<serverVars, phoneVars, webVars>>
    /\ UNCHANGED part

\* An idle phone and an empty queue enable nothing that is fair, so the fairness of one part
\* asks nothing of a behaviour of another.
BackgroundSpec == Init /\ [][Step]_vars /\ PhoneFairness /\ QueueFairness

TypeOK == ServerTypeOK /\ PhoneTypeOK /\ WebTypeOK /\ QueueTypeOK
=============================================================================
