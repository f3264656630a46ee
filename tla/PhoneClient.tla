---------------------------- MODULE PhoneClient ----------------------------
(* The mobile app's HTTP client: the interceptor that turns a 401 into one  *)
(* refresh shared by every request that met one, and the logout it calls    *)
(* when the refresh fails.  All of it runs on one thread; a step ends where *)
(* the code awaits.  The server is RefreshTokens.                           *)
EXTENDS RefreshTokens

CONSTANTS Requests,     \* the screens' requests, one use each
          Logouts,      \* bound: logout routines running at one time
          Unreliable    \* whether a refresh can time out or lose its answer

ASSUME CallersAssumption ==
    Requests \cup Logouts \subseteq Callers /\ Requests \cap Logouts = {} /\ Unreliable \in BOOLEAN

VARIABLES store,        \* the two keys of the secure store, 0 when absent
          pushKey,      \* the push token kept in the app's storage
          registered,   \* the push token as the server has it
          refreshing,   \* isRefreshing
          failedQueue,  \* the requests waiting for the refresh
          http,         \* each request's and each logout's call to the API
          routine,      \* where each logout routine is
          disturbed     \* history: the network, the server or the user ended the session

phoneVars == <<store, pushKey, registered, refreshing, failedQueue, http, routine, disturbed>>

Actors == Requests \cup Logouts
Idle == [pc |-> "idle", tok |-> 0, retry |-> FALSE, body |-> 0]
Http == [pc : {"idle", "sent", "queued", "lead", "posted", "stored", "clearing", "ok", "failed"},
         tok : 0 .. MaxTokens, retry : BOOLEAN, body : 0 .. MaxTokens]
Waiting == {"sent", "queued", "lead", "posted", "stored", "clearing"}

PhoneInit ==
    /\ store = [access |-> 1, refresh |-> 1]
    /\ pushKey \in BOOLEAN
    /\ registered = pushKey
    /\ refreshing = FALSE
    /\ failedQueue = {}
    /\ http = [a \in Actors |-> Idle]
    /\ routine = [l \in Logouts |-> "off"]
    /\ disturbed = FALSE

\* The request interceptor attaches whatever access token the store holds now.
Sending(a, retry, body) == [pc |-> "sent", tok |-> store.access, retry |-> retry, body |-> body]

Send(r) ==
    /\ r \in Requests
    /\ http[r].pc = "idle"
    /\ store.access # 0
    /\ http' = [http EXCEPT ![r] = Sending(r, FALSE, 0)]
    /\ UNCHANGED <<serverVars, store, pushKey, registered, refreshing, failedQueue, routine, disturbed>>

\* What an accepted request does at the server: a logout revokes the token in its body, a
\* delete forgets the push token, a screen's request changes nothing modelled here.
Effect(a) ==
    /\ IF a \in Logouts /\ routine[a] = "posting" THEN Revoke(http[a].body) ELSE UNCHANGED tokens
    /\ registered' = (registered /\ ~(a \in Logouts /\ routine[a] = "deleting"))
    /\ UNCHANGED <<calls, ends>>

Succeed(a) ==
    /\ http[a].pc = "sent"
    /\ Accepted(http[a].tok)
    /\ Effect(a)
    /\ http' = [http EXCEPT ![a].pc = "ok"]
    /\ UNCHANGED <<store, pushKey, refreshing, failedQueue, routine, disturbed>>

\* A 401 reaches the response interceptor while nobody checks whether a refresh is running.
RefusedAlone(a) ==
    /\ http[a].pc = "sent"
    /\ ~Accepted(http[a].tok)
    /\ http' = [http EXCEPT ![a].pc = IF http[a].retry THEN "failed" ELSE "lead",
                            ![a].retry = TRUE]
    /\ refreshing' = (refreshing \/ ~http[a].retry)
    /\ UNCHANGED <<serverVars, store, pushKey, registered, failedQueue, routine, disturbed>>

\* A 401 reaches the response interceptor: a retried request fails, one that finds a
\* refresh running waits for it, any other leads a refresh.
Refused(a) ==
    /\ http[a].pc = "sent"
    /\ ~Accepted(http[a].tok)
    /\ \/ /\ http[a].retry
          /\ http' = [http EXCEPT ![a].pc = "failed"]
          /\ UNCHANGED <<refreshing, failedQueue>>
       \/ /\ ~http[a].retry /\ refreshing
          /\ http' = [http EXCEPT ![a].pc = "queued", ![a].retry = TRUE]
          /\ failedQueue' = failedQueue \cup {a}
          /\ UNCHANGED refreshing
       \/ /\ ~http[a].retry /\ ~refreshing
          /\ http' = [http EXCEPT ![a].pc = "lead", ![a].retry = TRUE]
          /\ refreshing' = TRUE
          /\ UNCHANGED failedQueue
    /\ UNCHANGED <<serverVars, store, pushKey, registered, routine, disturbed>>

\* The catch block up to its first await: everyone in the queue is rejected.
RejectAll(a) ==
    /\ http' = [x \in Actors |->
                  IF x \in failedQueue THEN [http[x] EXCEPT !.pc = "failed"]
                  ELSE IF x = a THEN [http[x] EXCEPT !.pc = "clearing"] ELSE http[x]]
    /\ failedQueue' = {}

\* The leader reads the refresh token and posts it; without one the refresh fails here.
LeadPost(a) ==
    /\ http[a].pc = "lead"
    /\ \/ /\ store.refresh # 0
          /\ Present(a, store.refresh)
          /\ http' = [http EXCEPT ![a].pc = "posted"]
          /\ UNCHANGED failedQueue
       \/ /\ store.refresh = 0
          /\ RejectAll(a)
          /\ UNCHANGED calls
    /\ UNCHANGED <<tokens, ends, store, pushKey, registered, refreshing, routine, disturbed>>

\* The answer arrives: the new pair is stored.
LeadStore(a) ==
    /\ http[a].pc = "posted"
    /\ calls[a].st = "rotated"
    /\ store' = [access |-> calls[a].new, refresh |-> calls[a].new]
    /\ Hangup(a)
    /\ http' = [http EXCEPT ![a].pc = "stored"]
    /\ UNCHANGED <<tokens, ends, pushKey, registered, refreshing, failedQueue, routine, disturbed>>

\* The same when the queue is forgotten.
LeadResumeAlone(a) ==
    /\ http[a].pc = "stored"
    /\ http' = [http EXCEPT ![a] = Sending(a, TRUE, http[a].body)]
    /\ failedQueue' = {}
    /\ refreshing' = FALSE
    /\ UNCHANGED <<serverVars, store, pushKey, registered, routine, disturbed>>

\* Once stored: the queue is let go, the leader's own request is sent again, and the
\* finally block opens the way for the next refresh.
LeadResume(a) ==
    /\ http[a].pc = "stored"
    /\ http' = [x \in Actors |-> IF x \in failedQueue \cup {a}
                                 THEN Sending(x, TRUE, http[x].body) ELSE http[x]]
    /\ failedQueue' = {}
    /\ refreshing' = FALSE
    /\ UNCHANGED <<serverVars, store, pushKey, registered, routine, disturbed>>

\* The refresh was refused, or timed out: whatever the server did, the client gives up.
LeadFail(a) ==
    /\ http[a].pc = "posted"
    /\ \/ calls[a].st = "refused" /\ Hangup(a) /\ UNCHANGED disturbed
       \/ Unreliable /\ UNCHANGED calls /\ disturbed' = TRUE
    /\ RejectAll(a)
    /\ UNCHANGED <<tokens, ends, store, pushKey, registered, refreshing, routine>>

\* An answer nobody waits for any more.
DropAnswer(a) ==
    /\ Answered(a)
    /\ http[a].pc # "posted"
    /\ Hangup(a)
    /\ UNCHANGED <<tokens, ends, phoneVars>>

\* A logout routine, as far as its first await; when all slots run, the one asked for is
\* left out (bound).
StartRoutine ==
    \/ \E l \in Logouts : /\ routine[l] = "off" /\ calls[l].st = "none"
                          /\ routine' = [routine EXCEPT ![l] = "starting"]
    \/ /\ \A l \in Logouts : routine[l] # "off" \/ calls[l].st # "none"
       /\ UNCHANGED routine

\* After clearTokens: the logout callback runs, unawaited, and the finally block follows.
LeadClear(a) ==
    /\ http[a].pc = "clearing"
    /\ store' = [access |-> 0, refresh |-> 0]
    /\ StartRoutine
    /\ http' = [http EXCEPT ![a].pc = "failed"]
    /\ refreshing' = FALSE
    /\ UNCHANGED <<serverVars, pushKey, registered, failedQueue, disturbed>>

-----------------------------------------------------------------------------
(* The logout of the app's sign-in context.                                *)

Settled(l) == http[l].pc \in {"ok", "failed"}

UserLogout ==
    /\ store.access # 0
    /\ \A l \in Logouts : routine[l] = "off" /\ calls[l].st = "none"
    /\ StartRoutine
    /\ disturbed' = TRUE
    /\ UNCHANGED <<serverVars, store, pushKey, registered, refreshing, failedQueue, http>>

\* authApi.logout: only with a refresh token is there a call to make.
LogoutPost(l) ==
    /\ routine[l] = "starting"
    /\ IF store.refresh # 0
       THEN /\ routine' = [routine EXCEPT ![l] = "posting"]
            /\ http' = [http EXCEPT ![l] = Sending(l, FALSE, store.refresh)]
       ELSE /\ routine' = [routine EXCEPT ![l] = "unregister"]
            /\ UNCHANGED http
    /\ UNCHANGED <<serverVars, store, pushKey, registered, refreshing, failedQueue, disturbed>>

\* Best effort: the call's outcome is ignored.
LogoutPosted(l) ==
    /\ routine[l] = "posting"
    /\ Settled(l)
    /\ routine' = [routine EXCEPT ![l] = "unregister"]
    /\ UNCHANGED <<serverVars, store, pushKey, registered, refreshing, failedQueue, http, disturbed>>

\* unregisterPushNotifications: only a phone that holds a push token has a call to make.
LogoutUnregister(l) ==
    /\ routine[l] = "unregister"
    /\ IF pushKey
       THEN /\ routine' = [routine EXCEPT ![l] = "deleting"]
            /\ http' = [http EXCEPT ![l] = Sending(l, FALSE, 0)]
       ELSE /\ routine' = [routine EXCEPT ![l] = "clear"]
            /\ UNCHANGED http
    /\ UNCHANGED <<serverVars, store, pushKey, registered, refreshing, failedQueue, disturbed>>

\* The push token is forgotten only when the server took the delete; a failure is ignored.
LogoutUnregistered(l) ==
    /\ routine[l] = "deleting"
    /\ Settled(l)
    /\ pushKey' = (pushKey /\ http[l].pc # "ok")
    /\ routine' = [routine EXCEPT ![l] = "clear"]
    /\ UNCHANGED <<serverVars, store, registered, refreshing, failedQueue, http, disturbed>>

LogoutClear(l) ==
    /\ routine[l] = "clear"
    /\ store' = [access |-> 0, refresh |-> 0]
    /\ routine' = [routine EXCEPT ![l] = "off"]
    /\ http' = [http EXCEPT ![l] = Idle]
    /\ UNCHANGED <<serverVars, pushKey, registered, refreshing, failedQueue, disturbed>>

Routine(l) == LogoutPost(l) \/ LogoutPosted(l) \/ LogoutUnregister(l)
                \/ LogoutUnregistered(l) \/ LogoutClear(l)

-----------------------------------------------------------------------------
\* What the phone, the server and the network do once asked.
Answer(a) == Succeed(a) \/ Refused(a)
Refresh(a) == LeadPost(a) \/ LeadStore(a) \/ LeadResume(a) \/ LeadFail(a) \/ LeadClear(a)
ServerStep(a) == (Check(a) \/ Rotate(a)) /\ UNCHANGED phoneVars

\* The access token expires, the account ends its sessions from another device, or they come
\* to an end by themselves.  The last token of the bound does not expire, so no refresh is
\* asked beyond the bound.
World ==
    \/ \E t \in Minted : t < MaxTokens /\ Expire(t) /\ UNCHANGED phoneVars
    \/ (EndSessions \/ Lapse) /\ disturbed' = TRUE
          /\ UNCHANGED <<store, pushKey, registered, refreshing, failedQueue, http, routine>>

PhoneNext ==
    \/ \E r \in Requests : Send(r)
    \/ \E a \in Actors : Answer(a) \/ Refresh(a) \/ ServerStep(a) \/ DropAnswer(a)
    \/ UserLogout
    \/ \E l \in Logouts : Routine(l)
    \/ World

\* Every call is answered and the app's own code runs on; the user and the clock need not.
PhoneFairness ==
    /\ \A a \in Actors : /\ WF_<<serverVars, phoneVars>>(Answer(a))
                         /\ WF_<<serverVars, phoneVars>>(Refresh(a))
                         /\ WF_<<serverVars, phoneVars>>(ServerStep(a))
                         /\ WF_<<serverVars, phoneVars>>(DropAnswer(a))
    /\ \A l \in Logouts : WF_<<serverVars, phoneVars>>(Routine(l))

PhoneSpec == ServerInit /\ PhoneInit /\ [][PhoneNext]_<<serverVars, phoneVars>> /\ PhoneFairness

-----------------------------------------------------------------------------
PhoneTypeOK ==
    /\ store \in [access : 0 .. MaxTokens, refresh : 0 .. MaxTokens]
    /\ pushKey \in BOOLEAN /\ registered \in BOOLEAN /\ refreshing \in BOOLEAN
    /\ failedQueue = {a \in Actors : http[a].pc = "queued"}
    /\ http \in [Actors -> Http]
    /\ routine \in [Logouts -> {"off", "starting", "posting", "unregister", "deleting", "clear"}]
    /\ disturbed \in BOOLEAN

\* A phone whose session nobody ended and whose answers all arrive never presents a spent
\* refresh token and is never signed out, however many of its requests meet an expired
\* access token at once or late.
SessionSurvives ==
    ~disturbed =>
        /\ \A a \in Actors : http[a].pc # "clearing" /\ calls[a].st # "refused"
        /\ store.refresh # 0

\* The server is not left sending alerts to a phone whose own record of them is gone.
PushKeptInStep == ~pushKey => ~registered

\* Every request that was sent is answered or rejected, also when the refresh it waits for
\* fails, but for one that met its 401 after a failed refresh rejected the queue and before
\* the finally block: it joins a queue nobody will look at until the next refresh.  That
\* takes a session that was ended or an answer that was lost.
LeftBehind(r) == http[r].pc = "queued" /\ ~refreshing /\ disturbed
RequestsSettle ==
    \A r \in Requests : http[r].pc \in Waiting ~> (http[r].pc \notin Waiting \/ LeftBehind(r))

\* Signing out comes to an end: a failed refresh calls the logout, and the logout's own
\* requests, sent with nothing left to send, do not call it again and again.
SignOutsEnd == <>[](\A l \in Logouts : routine[l] # "starting")
=============================================================================
