----------------------------- MODULE WebClient -----------------------------
(* The web app's server side: each request of a page goes through it with   *)
(* the browser's cookies, and may rotate the refresh token on its own, with *)
(* nothing shared between two requests but the browser's cookies, which     *)
(* each answer sets or deletes when it arrives.                             *)
EXTENDS RefreshTokens

CONSTANTS Pages,        \* the requests a page has open, used again and again
          Outages       \* whether the API may answer a rotation with an error of its own

ASSUME PagesAssumption == Pages \subseteq Callers /\ Outages \in BOOLEAN

VARIABLES cookies,      \* the browser's two token cookies, 0 when absent
          visit         \* each request on its way through the web server

webVars == <<cookies, visit>>

AtRest == [pc |-> "idle", access |-> 0, refresh |-> 0, new |-> 0, status |-> 0]
Visit == [pc : {"idle", "first", "rotating", "second", "arriving"},
          access : 0 .. MaxTokens, refresh : 0 .. MaxTokens, new : 0 .. MaxTokens,
          status : {0, 200, 401}]

WebInit ==
    /\ cookies = [access |-> 1, refresh |-> 1]
    /\ visit = [w \in Pages |-> AtRest]

\* The browser sends the cookies it has now.
Begin(w) ==
    /\ visit[w].pc = "idle"
    /\ cookies.refresh # 0
    /\ visit' = [visit EXCEPT ![w] = [AtRest EXCEPT !.pc = "first",
                    !.access = cookies.access, !.refresh = cookies.refresh]]
    /\ UNCHANGED <<serverVars, cookies>>

\* The first attempt: anything but a 401 goes back as it is, a 401 tries one rotation.
First(w) ==
    /\ visit[w].pc = "first"
    /\ IF Accepted(visit[w].access)
       THEN /\ visit' = [visit EXCEPT ![w].pc = "arriving", ![w].status = 200]
            /\ UNCHANGED calls
       ELSE /\ visit' = [visit EXCEPT ![w].pc = "rotating", ![w].status = 401]
            /\ Present(w, visit[w].refresh)
    /\ UNCHANGED <<tokens, ends, cookies>>

\* callBackendRefresh's result: a new pair to try again with, or null.
Rotated(w) ==
    /\ visit[w].pc = "rotating"
    /\ Answered(w)
    /\ Hangup(w)
    /\ visit' = [visit EXCEPT ![w].pc = IF calls[w].st = "rotated" THEN "second" ELSE "arriving",
                              ![w].new = calls[w].new]
    /\ UNCHANGED <<tokens, ends, cookies>>

\* Any other answer is null as well: the API was too busy (429) or failed (5xx), before or
\* after it rotated the token.
RotateFails(w) ==
    /\ Outages
    /\ visit[w].pc = "rotating"
    /\ calls[w].st # "none"
    /\ Hangup(w)
    /\ visit' = [visit EXCEPT ![w].pc = "arriving"]
    /\ UNCHANGED <<tokens, ends, cookies>>

\* The one retry, with the access token of the new pair.
Second(w) ==
    /\ visit[w].pc = "second"
    /\ \E answer \in {200, 401} :
          /\ answer = 200 <=> Accepted(visit[w].new)
          /\ visit' = [visit EXCEPT ![w].pc = "arriving", ![w].status = answer]
    /\ UNCHANGED <<serverVars, cookies>>

\* applyTokenRotation, as the browser sees it when the answer arrives: the new pair, or
\* after a 401 with a refresh token sent, no cookies at all.
Arrive(w) ==
    /\ visit[w].pc = "arriving"
    /\ LET v == visit[w] IN
       cookies' = IF v.new # 0 THEN [access |-> v.new, refresh |-> v.new]
                  ELSE IF v.status = 401 /\ v.refresh # 0 THEN [access |-> 0, refresh |-> 0]
                  ELSE cookies
    /\ visit' = [visit EXCEPT ![w] = AtRest]
    /\ UNCHANGED serverVars

\* The web server fails or the tab is closed before the answer arrives: the cookies stay
\* as they were, whatever was rotated.
LoseAnswer(w) ==
    /\ visit[w].pc = "arriving"
    /\ visit' = [visit EXCEPT ![w] = AtRest]
    /\ UNCHANGED <<serverVars, cookies>>

\* The logout route revokes the token of the cookie it was sent, if the API still accepts
\* the access token, and deletes the cookies whatever the API said.
WebLogout ==
    /\ cookies.refresh # 0
    /\ IF Accepted(cookies.access) THEN Revoke(cookies.refresh) ELSE UNCHANGED tokens
    /\ cookies' = [access |-> 0, refresh |-> 0]
    /\ UNCHANGED <<calls, ends, visit>>

\* Signing in again: a session of its own.
WebLogin ==
    /\ cookies.refresh = 0
    /\ Issue
    /\ cookies' = [access |-> Last + 1, refresh |-> Last + 1]
    /\ UNCHANGED <<calls, ends, visit>>

\* The last token of the bound does not expire, so no rotation is asked beyond the bound.
WebNext ==
    \/ \E w \in Pages : Begin(w) \/ First(w) \/ Rotated(w) \/ RotateFails(w)
                          \/ Second(w) \/ Arrive(w) \/ LoseAnswer(w)
    \/ \E w \in Pages : (Check(w) \/ Rotate(w)) /\ UNCHANGED webVars
    \/ WebLogout \/ WebLogin
    \/ \E t \in Minted : t < MaxTokens /\ Expire(t) /\ UNCHANGED webVars
    \/ (EndSessions \/ Lapse) /\ UNCHANGED webVars

WebSpec == ServerInit /\ WebInit /\ [][WebNext]_<<serverVars, webVars>>

-----------------------------------------------------------------------------
WebTypeOK ==
    /\ cookies \in [access : 0 .. MaxTokens, refresh : 0 .. MaxTokens]
    /\ visit \in [Pages -> Visit]

\* The sign-in a token descends from.
SignIn == LET root[t \in Minted] == IF tokens[t].parent = 0 THEN t ELSE root[tokens[t].parent]
          IN root
SameSignIn(t, u) == t # 0 /\ u # 0 /\ SignIn[t] = SignIn[u]

\* Answers arrive in any order, each carrying the cookies it was given: none of them puts
\* an older refresh token of the same sign-in back into the browser.
CookieNeverStepsBack ==
    [][SameSignIn(cookies.refresh, cookies'.refresh) => cookies'.refresh >= cookies.refresh]_cookies

\* applyTokenRotation deletes the cookies "so the client redirects to login instead of
\* looping on a refresh token that will never work": the token it deletes is never one of
\* the same sign-in that still works, even if the API has no outage (in which a single request
\* is enough to delete a good one).
OnlyDeadTokensDeleted ==
    [][\A w \in Pages :
         /\ visit[w].pc = "arriving" /\ visit'[w].pc = "idle"
         /\ SameSignIn(visit[w].refresh, cookies.refresh)
         /\ cookies'.refresh = 0
         => ~Good(cookies.refresh)]_webVars
=============================================================================
