--------------------------- MODULE RefreshTokens ---------------------------
(* The refresh tokens of one account, as the API server keeps them, and the *)
(* calls that rotate them.  A refresh is two steps of the server: a lookup  *)
(* outside the transaction, and the transaction that claims the row and     *)
(* creates its successor.  The access token signed with a refresh token has *)
(* the same number; it cannot be revoked and only expires.                  *)
EXTENDS Naturals, Sequences, FiniteSets

CONSTANTS Callers,      \* whoever may have one refresh call open
          MaxTokens,    \* bound: tokens minted in a behaviour
          Ends          \* bound: how often sessions are ended, or come to an end by themselves

ASSUME TokensAssumption == MaxTokens \in Nat \ {0} /\ Ends \in Nat

VARIABLES tokens,       \* the rows, in the order they were created
          calls,        \* the refresh call of each caller
          ends          \* how often that was so far

serverVars == <<tokens, calls, ends>>

\* expired is of the access token; lapsed is of the row, past its expiresAt or of a user who
\* is not active any more.
Token == [parent : 0 .. MaxTokens, revoked : BOOLEAN, expired : BOOLEAN, lapsed : BOOLEAN]
NoCall == [st |-> "none", tok |-> 0, new |-> 0]
Call == [st : {"none", "sent", "checked", "rotated", "refused"},
         tok : 0 .. MaxTokens, new : 0 .. MaxTokens]

Fresh(parent) == [parent |-> parent, revoked |-> FALSE, expired |-> FALSE, lapsed |-> FALSE]
Minted == DOMAIN tokens
Last == Len(tokens)
Good(t) == t \in Minted /\ ~tokens[t].revoked /\ ~tokens[t].lapsed

ServerInit ==
    /\ tokens = <<Fresh(0)>>
    /\ calls = [c \in Callers |-> NoCall]
    /\ ends = 0

\* The strategy's and the guard's answer to a request that carries access token t.
Accepted(t) == t \in Minted /\ ~tokens[t].expired

\* generateTokens, reached from login, select-society, register and join: a session of
\* its own, whatever others are open.
Issue ==
    /\ Last < MaxTokens
    /\ tokens' = Append(tokens, Fresh(0))

Present(c, t) ==
    /\ calls[c].st = "none"
    /\ calls' = [calls EXCEPT ![c] = [st |-> "sent", tok |-> t, new |-> 0]]

\* The lookup: a token that is revoked or has lapsed (or was never issued) is refused at
\* once.
Check(c) ==
    /\ calls[c].st = "sent"
    /\ calls' = [calls EXCEPT ![c].st = IF Good(calls[c].tok) THEN "checked" ELSE "refused"]
    /\ UNCHANGED <<tokens, ends>>

\* The same with the claim's condition left out: the fault the comment above the
\* transaction warns of.
RotateUnclaimed(c) ==
    /\ calls[c].st = "checked"
    /\ Last < MaxTokens
    /\ tokens' = Append([tokens EXCEPT ![calls[c].tok].revoked = TRUE],
                        Fresh(calls[c].tok))
    /\ calls' = [calls EXCEPT ![c].st = "rotated", ![c].new = Last + 1]
    /\ UNCHANGED ends

\* The transaction: claim the row while it is unrevoked, and create its successor.  Whether
\* the row has lapsed since is not asked again.
Rotate(c) ==
    /\ calls[c].st = "checked"
    /\ LET t == calls[c].tok IN
       \/ /\ ~tokens[t].revoked
          /\ Last < MaxTokens
          /\ tokens' = Append([tokens EXCEPT ![t].revoked = TRUE], Fresh(t))
          /\ calls' = [calls EXCEPT ![c].st = "rotated", ![c].new = Last + 1]
       \/ /\ tokens[t].revoked
          /\ calls' = [calls EXCEPT ![c].st = "refused"]
          /\ UNCHANGED tokens
    /\ UNCHANGED ends

Answered(c) == calls[c].st \in {"rotated", "refused"}
Hangup(c) == calls' = [calls EXCEPT ![c] = NoCall]

\* logout: the row named by the body, revoked or not.
Revoke(t) == tokens' = IF t \in Minted THEN [tokens EXCEPT ![t].revoked = TRUE] ELSE tokens

\* changePassword, resetPassword: every row of the account.
EndSessions ==
    /\ ends < Ends
    /\ ends' = ends + 1
    /\ tokens' = [t \in Minted |-> [tokens[t] EXCEPT !.revoked = TRUE]]
    /\ UNCHANGED calls

\* A row's week is over, long after its access token's fifteen minutes; or the user is
\* deactivated, and every row is refused.  (So are the access tokens then; here they expire.)
\* A revoked row is refused as it is.
Lapse ==
    /\ ends < Ends
    /\ ends' = ends + 1
    /\ \E old \in {{t \in Minted : Good(t)}}
                  \cup {{t} : t \in {u \in Minted : Good(u) /\ tokens[u].expired}} :
          tokens' = [t \in Minted |-> [tokens[t] EXCEPT !.lapsed = @ \/ t \in old]]
    /\ UNCHANGED calls

\* Fifteen minutes pass.
Expire(t) ==
    /\ t \in Minted
    /\ ~tokens[t].expired
    /\ tokens' = [tokens EXCEPT ![t].expired = TRUE]
    /\ UNCHANGED <<calls, ends>>

Server == \E c \in Callers : Check(c) \/ Rotate(c)

\* The server on its own, with callers that may present anything at any time, and calls that may
\* fail at any step.
Next ==
    \/ Server
    \/ Issue /\ UNCHANGED <<calls, ends>>
    \/ \E c \in Callers, t \in 0 .. MaxTokens : Present(c, t) /\ UNCHANGED <<tokens, ends>>
    \/ \E c \in Callers : calls[c].st # "none" /\ Hangup(c) /\ UNCHANGED <<tokens, ends>>
    \/ \E t \in Minted : Revoke(t) /\ UNCHANGED <<calls, ends>>
    \/ EndSessions \/ Lapse
    \/ \E t \in Minted : Expire(t)

Spec == ServerInit /\ [][Next]_serverVars

-----------------------------------------------------------------------------
ServerTypeOK ==
    /\ tokens \in Seq(Token)
    /\ Last \in 1 .. MaxTokens
    /\ calls \in [Callers -> Call]
    /\ ends \in 0 .. Ends

\* One refresh token never becomes two sessions: however many calls present it, whether
\* they overlap or come late, at most one of them minted a successor.
OneSuccessor ==
    \A t, u \in Minted : tokens[t].parent # 0 /\ tokens[t].parent = tokens[u].parent => t = u

\* A token that was rotated is never alive beside its successor, so each sign-in has at
\* most one token that still works.
RotatedIsRevoked ==
    \A t \in Minted : tokens[t].parent # 0 =>
        tokens[t].parent \in 1 .. t - 1 /\ tokens[tokens[t].parent].revoked
=============================================================================
