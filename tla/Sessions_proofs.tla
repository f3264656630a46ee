-------------------------- MODULE Sessions_proofs --------------------------
(***************************************************************************)
(* What rotation promises for any number of callers, tokens and ends of    *)
(* session: one refresh token never becomes two sessions.  The phone and   *)
(* the browser implement the server's specification: hiding the client,    *)
(* each of their steps is a step of the server or no step of it, and what  *)
(* is shown of the server holds with either client in front of it.  Then   *)
(* what each client promises of its own: the phone keeps a session that    *)
(* nothing ended, and the browser's cookies never step back.               *)
(***************************************************************************)
EXTENDS PhoneClient, WebClient, Summation_proofs

-----------------------------------------------------------------------------
(* The server.                                                             *)

\* What a call that passed the lookup holds is a row.
CheckedIsMinted == \A c \in Callers : calls[c].st = "checked" => calls[c].tok \in Minted

IInv == ServerTypeOK /\ RotatedIsRevoked /\ OneSuccessor /\ CheckedIsMinted

-----------------------------------------------------------------------------
(* The two ways the rows ever change.                                      *)

\* Rows are marked: none is added, none changes its parent, none is revived.
Marking ==
    /\ tokens' \in Seq(Token) /\ Len(tokens') = Len(tokens)
    /\ \A t \in Minted : /\ tokens'[t].parent = tokens[t].parent
                         /\ tokens[t].revoked => tokens'[t].revoked

\* A row is added at the end, a root or the child of a row it revokes.
Growing(parent) ==
    /\ tokens' \in Seq(Token) /\ Len(tokens') = Len(tokens) + 1 /\ Len(tokens) < MaxTokens
    /\ tokens'[Len(tokens) + 1].parent = parent
    /\ \A t \in Minted : /\ tokens'[t].parent = tokens[t].parent
                         /\ tokens[t].revoked => tokens'[t].revoked
    /\ parent # 0 => parent \in Minted /\ ~tokens[parent].revoked /\ tokens'[parent].revoked

LEMMA MintedIsRange == ASSUME ServerTypeOK PROVE Minted = 1 .. Len(tokens) /\ Len(tokens) \in Nat
  BY DEF ServerTypeOK, Minted

\* Writing one row leaves the others and the length.
LEMMA OneRowWritten ==
    ASSUME NEW seq \in Seq(Token), NEW t \in 1 .. Len(seq), NEW row \in Token
    PROVE  LET written == [seq EXCEPT ![t] = row]
           IN  /\ written \in Seq(Token) /\ Len(written) = Len(seq) /\ written[t] = row
               /\ \A u \in 1 .. Len(seq) : u # t => written[u] = seq[u]
  OBVIOUS

\* A marked row is a row, with the parent it had, and stays revoked.
LEMMA MarkedRow ==
    ASSUME NEW row \in Token
    PROVE  \A marked \in {[row EXCEPT !.revoked = TRUE], [row EXCEPT !.expired = TRUE]} :
              marked \in Token /\ marked.parent = row.parent /\ (row.revoked => marked.revoked)
  BY DEF Token

\* So is a row that lapsed, or did not.
LEMMA LapsedRow ==
    ASSUME NEW row \in Token, NEW late
    PROVE  LET marked == [row EXCEPT !.lapsed = @ \/ late]
           IN  marked \in Token /\ marked.parent = row.parent /\ marked.revoked = row.revoked
  BY DEF Token

\* Marking rows keeps what is said of the rows.
LEMMA MarkingSafe ==
    ASSUME IInv, Marking
    PROVE  tokens' \in Seq(Token) /\ Last' \in 1 .. MaxTokens
           /\ Minted' = Minted /\ RotatedIsRevoked' /\ OneSuccessor'
  <1>1. Minted = 1 .. Len(tokens) /\ Minted' = 1 .. Len(tokens)
    BY DEF IInv, ServerTypeOK, Marking, Minted
  <1>2. RotatedIsRevoked'
    <2> SUFFICES ASSUME NEW t \in Minted, tokens'[t].parent # 0
                 PROVE  tokens'[t].parent \in 1 .. t - 1 /\ tokens'[tokens'[t].parent].revoked
      BY <1>1 DEF RotatedIsRevoked
    <2>1. tokens[t].parent \in 1 .. t - 1 /\ tokens[tokens[t].parent].revoked
      BY DEF IInv, RotatedIsRevoked, Marking
    <2>2. tokens[t].parent \in Minted
      BY <1>1, <2>1 DEF IInv, ServerTypeOK
    <2> QED
      BY <2>1, <2>2 DEF Marking
  <1>3. OneSuccessor'
    BY <1>1 DEF IInv, OneSuccessor, Marking
  <1> QED
    BY <1>1, <1>2, <1>3 DEF IInv, ServerTypeOK, Marking, Last

\* A row added keeps what is said of the rows: its parent was unrevoked, so it had no child.
LEMMA GrowingSafe ==
    ASSUME IInv, NEW parent \in Nat, Growing(parent)
    PROVE  tokens' \in Seq(Token) /\ Last' \in 1 .. MaxTokens
           /\ Minted \subseteq Minted' /\ RotatedIsRevoked' /\ OneSuccessor'
  <1> DEFINE new == Len(tokens) + 1
  <1>1. Minted = 1 .. Len(tokens) /\ Minted' = 1 .. new /\ Len(tokens) \in Nat
    BY DEF IInv, ServerTypeOK, Growing, Minted
  <1>2. RotatedIsRevoked'
    <2> SUFFICES ASSUME NEW t \in 1 .. new, tokens'[t].parent # 0
                 PROVE  tokens'[t].parent \in 1 .. t - 1 /\ tokens'[tokens'[t].parent].revoked
      BY <1>1 DEF RotatedIsRevoked
    <2>1. CASE t = new
      BY <1>1, <2>1 DEF Growing
    <2>2. CASE t \in Minted
      <3>1. tokens[t].parent \in 1 .. t - 1 /\ tokens[tokens[t].parent].revoked
        BY <2>2 DEF IInv, RotatedIsRevoked, Growing
      <3>2. tokens[t].parent \in Minted
        BY <1>1, <2>2, <3>1
      <3> QED
        BY <2>2, <3>1, <3>2 DEF Growing
    <2> QED
      BY <1>1, <2>1, <2>2
  <1>3. OneSuccessor'
    <2> SUFFICES ASSUME NEW t \in 1 .. new, NEW u \in 1 .. new,
                        tokens'[t].parent # 0, tokens'[t].parent = tokens'[u].parent
                 PROVE  t = u
      BY <1>1 DEF OneSuccessor
    <2>1. ASSUME NEW v \in Minted, tokens[v].parent = parent PROVE parent = 0
      BY <2>1 DEF IInv, RotatedIsRevoked, Growing
    <2>2. CASE t \in Minted /\ u \in Minted
      BY <2>2 DEF IInv, OneSuccessor, Growing
    <2>3. CASE t = new /\ u # new
      BY <1>1, <2>1, <2>3 DEF Growing
    <2>4. CASE t # new /\ u = new
      BY <1>1, <2>1, <2>4 DEF Growing
    <2> QED
      BY <1>1, <2>2, <2>3, <2>4
  <1>4. Len(tokens') \in 1 .. MaxTokens
    BY <1>1, TokensAssumption DEF Growing
  <1> QED
    BY <1>1, <1>2, <1>3, <1>4 DEF Growing, Last

-----------------------------------------------------------------------------
(* Which action changes the rows in which way.                             *)

LEMMA IssueGrows == ASSUME IInv, Issue PROVE Growing(0)
  <1>1. Fresh(0) \in Token
    BY TokensAssumption DEF Fresh, Token
  <1> QED
    BY <1>1 DEF IInv, ServerTypeOK, Issue, Growing, Last, Minted, Fresh

LEMMA RotateGrows ==
    ASSUME IInv, NEW c \in Callers, Rotate(c), tokens' # tokens
    PROVE  Growing(calls[c].tok) /\ calls' = [calls EXCEPT ![c].st = "rotated", ![c].new = Last + 1]
  <1> DEFINE t == calls[c].tok
             marked == [tokens EXCEPT ![t].revoked = TRUE]
  <1>1. t \in Minted /\ ~tokens[t].revoked /\ Last < MaxTokens /\ tokens' = Append(marked, Fresh(t))
        /\ calls' = [calls EXCEPT ![c].st = "rotated", ![c].new = Last + 1]
    BY DEF IInv, CheckedIsMinted, Rotate
  <1>2. t \in 0 .. MaxTokens
    BY DEF IInv, ServerTypeOK, Call
  <1>3. Fresh(t) \in Token
    BY <1>2 DEF Fresh, Token
  <1>4. marked \in Seq(Token) /\ Len(marked) = Len(tokens)
    <2>1. t \in 1 .. Len(tokens) /\ tokens \in Seq(Token) /\ tokens[t] \in Token
      BY <1>1, MintedIsRange DEF IInv, ServerTypeOK
    <2>2. [tokens[t] EXCEPT !.revoked = TRUE] \in Token
      BY <2>1, MarkedRow
    <2>3. marked = [tokens EXCEPT ![t] = [tokens[t] EXCEPT !.revoked = TRUE]]
      OBVIOUS
    <2> QED
      BY <2>1, <2>2, <2>3, OneRowWritten
  <1>5. \A u \in Minted : /\ marked[u].parent = tokens[u].parent
                          /\ tokens[u].revoked => marked[u].revoked
    BY <1>1 DEF IInv, ServerTypeOK, Minted, Token
  <1>6. marked[t].revoked
    <2>1. t \in DOMAIN tokens /\ tokens[t] \in Token
      BY <1>1, MintedIsRange DEF IInv, ServerTypeOK, Minted
    <2>2. marked[t] = [tokens[t] EXCEPT !.revoked = TRUE]
      BY <2>1
    <2> QED
      BY <2>1, <2>2 DEF Token
  <1>7. Minted = 1 .. Len(tokens)
    BY MintedIsRange DEF IInv
  <1> HIDE DEF marked
  <1>8. tokens' \in Seq(Token) /\ Len(tokens') = Len(tokens) + 1
        /\ tokens'[Len(tokens) + 1] = Fresh(t) /\ \A u \in 1 .. Len(tokens) : tokens'[u] = marked[u]
    BY <1>1, <1>3, <1>4
  <1> QED
    BY <1>1, <1>5, <1>6, <1>7, <1>8 DEF Growing, Fresh, Last

\* The rows are marked by a logout, by the end of every session, and by time.
LEMMA OthersMark ==
    ASSUME IInv, \/ \E t \in Minted : Revoke(t) \/ Expire(t)
                 \/ EndSessions
                 \/ Lapse
                 \/ UNCHANGED tokens
    PROVE  Marking
  <1>0. Minted = 1 .. Len(tokens) /\ Len(tokens) \in Nat /\ tokens \in Seq(Token)
    BY MintedIsRange DEF IInv, ServerTypeOK
  <1>5. ASSUME NEW t \in Minted, NEW row \in {[tokens[t] EXCEPT !.revoked = TRUE],
                                              [tokens[t] EXCEPT !.expired = TRUE]},
               tokens' = [tokens EXCEPT ![t] = row]
        PROVE  Marking
    <2>0. tokens[t] \in Token
      BY <1>0
    <2>1. row \in Token /\ row.parent = tokens[t].parent /\ (tokens[t].revoked => row.revoked)
      BY <2>0, MarkedRow
    <2>2. /\ tokens' \in Seq(Token) /\ Len(tokens') = Len(tokens) /\ tokens'[t] = row
          /\ \A u \in 1 .. Len(tokens) : u # t => tokens'[u] = tokens[u]
      BY <1>0, <1>5, <2>1, OneRowWritten
    <2> QED
      BY <1>0, <2>1, <2>2 DEF Marking
  <1>1. ASSUME NEW t \in Minted, Revoke(t) PROVE Marking
    BY <1>1, <1>5 DEF Revoke
  <1>2. ASSUME NEW t \in Minted, Expire(t) PROVE Marking
    BY <1>2, <1>5 DEF Expire
  <1>3. ASSUME EndSessions PROVE Marking
    <2>1. \A t \in Minted : LET row == [tokens[t] EXCEPT !.revoked = TRUE]
                            IN row \in Token /\ row.parent = tokens[t].parent /\ row.revoked
      <3> SUFFICES ASSUME NEW t \in Minted
                   PROVE  LET row == [tokens[t] EXCEPT !.revoked = TRUE]
                          IN row \in Token /\ row.parent = tokens[t].parent /\ row.revoked
        OBVIOUS
      <3>1. tokens[t] \in Token
        BY <1>0
      <3> QED
        BY <3>1 DEF Token
    <2>2. tokens' = [t \in 1 .. Len(tokens) |-> [tokens[t] EXCEPT !.revoked = TRUE]]
      BY <1>0, <1>3 DEF EndSessions
    <2>3. tokens' \in Seq(Token) /\ Len(tokens') = Len(tokens)
      BY <1>0, <2>1, <2>2
    <2> QED
      BY <1>0, <2>1, <2>2, <2>3 DEF Marking
  <1>4. ASSUME UNCHANGED tokens PROVE Marking
    BY <1>0, <1>4 DEF Marking
  <1>6. ASSUME Lapse PROVE Marking
    <2>1. PICK old : tokens' = [t \in 1 .. Len(tokens) |-> [tokens[t] EXCEPT !.lapsed = @ \/ t \in old]]
      BY <1>0, <1>6 DEF Lapse
    <2>2. ASSUME NEW t \in 1 .. Len(tokens)
          PROVE  LET row == [tokens[t] EXCEPT !.lapsed = @ \/ t \in old]
                 IN row \in Token /\ row.parent = tokens[t].parent /\ row.revoked = tokens[t].revoked
      <3>1. tokens[t] \in Token
        BY <1>0
      <3> QED
        BY <3>1, LapsedRow
    <2>3. tokens' \in Seq(Token) /\ Len(tokens') = Len(tokens)
      BY <1>0, <2>1, <2>2
    <2> QED
      BY <1>0, <2>1, <2>2, <2>3 DEF Marking
  <1> QED
    BY <1>1, <1>2, <1>3, <1>4, <1>6

-----------------------------------------------------------------------------
LEMMA InitSafe == ServerInit => IInv
  <1> SUFFICES ASSUME ServerInit PROVE IInv
    OBVIOUS
  <1>1. Fresh(0) \in Token
    BY TokensAssumption DEF Fresh, Token
  <1>2. tokens \in Seq(Token) /\ Len(tokens) = 1 /\ tokens[1] = Fresh(0)
    BY <1>1 DEF ServerInit
  <1>3. Minted = {1}
    BY <1>2 DEF Minted
  <1>4. NoCall \in Call
    BY TokensAssumption DEF NoCall, Call
  <1> QED
    BY <1>2, <1>3, <1>4, TokensAssumption
    DEF ServerInit, IInv, ServerTypeOK, RotatedIsRevoked, OneSuccessor, CheckedIsMinted,
        Fresh, Last, NoCall

\* Every step keeps the invariant.  Callers only ever hold what they were given.
LEMMA NextSafe == IInv /\ [Next]_serverVars => IInv'
  <1> SUFFICES ASSUME IInv, [Next]_serverVars PROVE IInv'
    OBVIOUS
  <1>0. Minted = 1 .. Len(tokens) /\ Len(tokens) \in Nat /\ Len(tokens) <= MaxTokens
        /\ calls \in [Callers -> Call] /\ ends \in 0 .. Ends /\ MaxTokens \in Nat /\ Ends \in Nat
    BY MintedIsRange, TokensAssumption DEF IInv, ServerTypeOK, Last
  <1>1. ASSUME Marking, calls' \in [Callers -> Call], CheckedIsMinted', ends' \in 0 .. Ends
        PROVE  IInv'
    BY <1>1, MarkingSafe DEF IInv, ServerTypeOK
  <1>2. ASSUME UNCHANGED calls, Minted \subseteq Minted' PROVE calls' \in [Callers -> Call] /\ CheckedIsMinted'
    BY <1>0, <1>2 DEF IInv, CheckedIsMinted
  <1>3. ASSUME NEW c \in Callers, Check(c) PROVE IInv'
    <2>1. Marking /\ UNCHANGED Minted
      BY <1>3, OthersMark DEF Check, Minted
    <2>2. calls' \in [Callers -> Call]
      BY <1>0, <1>3 DEF Check, Call
    <2>3. CheckedIsMinted'
      BY <1>0, <1>3, <2>1 DEF IInv, CheckedIsMinted, Check, Call, Good
    <2> QED
      BY <1>0, <1>1, <1>3, <2>1, <2>2, <2>3 DEF Check
  <1>4. ASSUME NEW c \in Callers, Rotate(c) PROVE IInv'
    <2>1. CASE tokens' = tokens
      <3>1. calls' = [calls EXCEPT ![c].st = "refused"] \/ calls' = [calls EXCEPT ![c].st = "rotated", ![c].new = Last + 1]
        BY <1>4 DEF Rotate
      <3>2. calls' \in [Callers -> Call]
        <4>2. Last < MaxTokens => Last + 1 \in 0 .. MaxTokens
          BY <1>0 DEF Last
        <4>3. Last < MaxTokens \/ calls' = [calls EXCEPT ![c].st = "refused"]
          BY <1>4 DEF Rotate
        <4>4. CASE Last < MaxTokens
          BY <1>0, <3>1, <4>2, <4>4 DEF Call
        <4>5. CASE calls' = [calls EXCEPT ![c].st = "refused"]
          BY <1>0, <4>5 DEF Call
        <4> QED
          BY <4>3, <4>4, <4>5
      <3>3. CheckedIsMinted'
        BY <1>0, <2>1, <3>1 DEF IInv, CheckedIsMinted, Minted, Call
      <3> QED
        BY <1>0, <1>1, <1>4, <2>1, <3>2, <3>3, OthersMark DEF Rotate
    <2>2. CASE tokens' # tokens
      <3>1. Growing(calls[c].tok) /\ calls' = [calls EXCEPT ![c].st = "rotated", ![c].new = Last + 1]
        BY <1>4, <2>2, RotateGrows
      <3>2. calls[c].tok \in Nat
        BY <1>0 DEF Call
      <3>3. tokens' \in Seq(Token) /\ Last' \in 1 .. MaxTokens
            /\ Minted \subseteq Minted' /\ RotatedIsRevoked' /\ OneSuccessor'
        BY <3>1, <3>2, GrowingSafe
      <3>4. Last + 1 \in 0 .. MaxTokens
        BY <1>0, <3>1 DEF Growing, Last
      <3>5. calls' \in [Callers -> Call]
        BY <1>0, <3>1, <3>4 DEF Call
      <3>6. CheckedIsMinted'
        BY <1>0, <3>1, <3>3 DEF IInv, CheckedIsMinted, Call
      <3> QED
        BY <1>0, <1>4, <3>3, <3>5, <3>6 DEF IInv, ServerTypeOK, Rotate
    <2> QED
      BY <2>1, <2>2
  <1>5. ASSUME Issue, UNCHANGED <<calls, ends>> PROVE IInv'
    <2>1. tokens' \in Seq(Token) /\ Last' \in 1 .. MaxTokens
          /\ Minted \subseteq Minted' /\ RotatedIsRevoked' /\ OneSuccessor'
      BY <1>5, IssueGrows, GrowingSafe
    <2> QED
      BY <1>0, <1>2, <1>5, <2>1 DEF IInv, ServerTypeOK
  <1>6. ASSUME NEW c \in Callers, NEW t \in 0 .. MaxTokens, Present(c, t), UNCHANGED <<tokens, ends>> PROVE IInv'
    <2>2. calls' \in [Callers -> Call] /\ CheckedIsMinted'
      BY <1>0, <1>6 DEF IInv, CheckedIsMinted, Present, Call, Minted
    <2> QED
      BY <1>0, <1>1, <1>6, <2>2, OthersMark
  <1>7. ASSUME NEW c \in Callers, Hangup(c), UNCHANGED <<tokens, ends>> PROVE IInv'
    <2>1. NoCall \in Call
      BY <1>0 DEF NoCall, Call
    <2>2. calls' \in [Callers -> Call] /\ CheckedIsMinted'
      BY <1>0, <1>7, <2>1 DEF IInv, CheckedIsMinted, Hangup, NoCall, Minted
    <2> QED
      BY <1>0, <1>1, <1>7, <2>2, OthersMark
  <1>8. ASSUME NEW t \in Minted, Revoke(t) \/ Expire(t), UNCHANGED <<calls, ends>> PROVE IInv'
    <2>1. Marking
      BY <1>8, OthersMark
    <2> QED
      BY <1>0, <1>1, <1>2, <1>8, <2>1, MarkingSafe
  <1>9. ASSUME EndSessions \/ Lapse PROVE IInv'
    <2>1. Marking
      BY <1>9, OthersMark
    <2>2. ends' \in 0 .. Ends /\ UNCHANGED calls
      BY <1>0, <1>9 DEF EndSessions, Lapse
    <2> QED
      BY <1>1, <1>2, <2>1, <2>2, MarkingSafe
  <1>10. ASSUME UNCHANGED serverVars PROVE IInv'
    <2>1. UNCHANGED <<tokens, calls, ends>>
      BY <1>10 DEF serverVars
    <2> QED
      BY <1>0, <1>1, <1>2, <2>1, OthersMark DEF Minted
  <1> QED
    BY <1>3, <1>4, <1>5, <1>6, <1>7, <1>8, <1>9, <1>10 DEF Next, Server, Expire

-----------------------------------------------------------------------------
\* AuthService's rows and calls keep their types for any number of callers and tokens.
THEOREM ServerTypeCorrect == Spec => []ServerTypeOK
  BY InitSafe, NextSafe, PTL DEF Spec, IInv

\* refresh: however many calls present a token, together or late, and whatever is revoked
\* meanwhile, at most one successor is minted.
THEOREM RotationMintsOne == Spec => []OneSuccessor
  BY InitSafe, NextSafe, PTL DEF Spec, IInv

\* refresh: a token that has a successor is revoked, so no sign-in has two that work.
THEOREM RotatedTokensDie == Spec => []RotatedIsRevoked
  BY InitSafe, NextSafe, PTL DEF Spec, IInv

-----------------------------------------------------------------------------
(* The clients.                                                            *)

\* What the clients hold are numbers of tokens.
PhoneHolds == ServerTypeOK /\ store \in [access : 0 .. MaxTokens, refresh : 0 .. MaxTokens]
WebHolds == /\ ServerTypeOK
            /\ cookies \in [access : 0 .. MaxTokens, refresh : 0 .. MaxTokens]
            /\ visit \in [Pages -> Visit]

LEMMA CallTyped == ASSUME ServerTypeOK, NEW c \in Callers PROVE calls[c] \in Call
  BY DEF ServerTypeOK

\* The phone's steps, as the server sees them.
LEMMA PhoneStep ==
    ASSUME PhoneHolds, [PhoneNext]_<<serverVars, phoneVars>>
    PROVE  [Next]_serverVars
  <1>0. Actors \subseteq Callers
    BY CallersAssumption DEF Actors
  <1> USE DEF serverVars, phoneVars
  <1>1. CASE UNCHANGED serverVars
    BY <1>1
  <1>2. ASSUME NEW a \in Actors, Answer(a) PROVE [Next]_serverVars
    <2>1. UNCHANGED <<calls, ends>> /\ (UNCHANGED tokens \/ \E t \in Minted : Revoke(t))
      BY <1>2 DEF Answer, Succeed, Effect, Refused, Revoke
    <2> QED
      BY <2>1 DEF Next
  <1>3. ASSUME NEW a \in Actors, Refresh(a) PROVE [Next]_serverVars
    <2>1. CASE LeadPost(a)
      <3>1. store.refresh \in 0 .. MaxTokens
        BY DEF PhoneHolds
      <3> QED
        BY <1>0, <2>1, <3>1 DEF LeadPost, Next
    <2>2. CASE LeadStore(a)
      BY <1>0, <2>2 DEF LeadStore, Next, Answered
    <2>3. CASE LeadFail(a)
      BY <1>0, <2>3 DEF LeadFail, Next, Answered
    <2>4. CASE LeadResume(a) \/ LeadClear(a)
      BY <2>4 DEF LeadResume, LeadClear
    <2> QED
      BY <1>3, <2>1, <2>2, <2>3, <2>4 DEF Refresh
  <1>4. ASSUME NEW a \in Actors, ServerStep(a) PROVE [Next]_serverVars
    BY <1>0, <1>4 DEF ServerStep, Next, Server
  <1>5. ASSUME NEW a \in Actors, DropAnswer(a) PROVE [Next]_serverVars
    BY <1>0, <1>5 DEF DropAnswer, Next, Answered
  <1>6. ASSUME World PROVE [Next]_serverVars
    BY <1>6 DEF World, Next
  <1>7. ASSUME NEW l \in Logouts, Routine(l) PROVE [Next]_serverVars
    BY <1>7 DEF Routine, LogoutPost, LogoutPosted, LogoutUnregister, LogoutUnregistered, LogoutClear
  <1>8. ASSUME (\E r \in Requests : Send(r)) \/ UserLogout PROVE [Next]_serverVars
    BY <1>8 DEF Send, UserLogout
  <1> QED
    BY <1>1, <1>2, <1>3, <1>4, <1>5, <1>6, <1>7, <1>8 DEF PhoneNext

LEMMA PhoneKeepsHolding ==
    ASSUME PhoneHolds, ServerTypeOK', [PhoneNext]_<<serverVars, phoneVars>>
    PROVE  PhoneHolds'
  <1>0. Actors \subseteq Callers /\ MaxTokens \in Nat
    BY CallersAssumption, TokensAssumption DEF Actors
  <1>1. ASSUME NEW a \in Actors, LeadStore(a)
        PROVE  store' \in [access : 0 .. MaxTokens, refresh : 0 .. MaxTokens]
    BY <1>0, <1>1, CallTyped DEF PhoneHolds, LeadStore, Call
  <1>2. ASSUME (\E a \in Actors : LeadClear(a)) \/ \E l \in Logouts : LogoutClear(l)
        PROVE  store' \in [access : 0 .. MaxTokens, refresh : 0 .. MaxTokens]
    BY <1>0, <1>2 DEF LeadClear, LogoutClear
  <1>3. \/ \E a \in Actors : LeadStore(a)
        \/ (\E a \in Actors : LeadClear(a)) \/ \E l \in Logouts : LogoutClear(l)
        \/ UNCHANGED store
    BY DEF PhoneNext, Send, Answer, Succeed, Refused, Refresh, LeadPost, LeadResume, LeadFail, ServerStep,
       DropAnswer, UserLogout, Routine, LogoutPost, LogoutPosted, LogoutUnregister, LogoutUnregistered,
       World, phoneVars, serverVars
  <1> QED
    BY <1>1, <1>2, <1>3 DEF PhoneHolds

LEMMA WebStep ==
    ASSUME WebHolds, [WebNext]_<<serverVars, webVars>>
    PROVE  [Next]_serverVars
  <1>0. Pages \subseteq Callers
    BY PagesAssumption
  <1> USE DEF serverVars, webVars
  <1>1. ASSUME NEW w \in Pages, First(w) PROVE [Next]_serverVars
    <2>1. visit[w].refresh \in 0 .. MaxTokens
      BY DEF WebHolds, Visit
    <2> QED
      BY <1>0, <1>1, <2>1 DEF First, Next
  <1>2. ASSUME NEW w \in Pages, Rotated(w) \/ RotateFails(w) PROVE [Next]_serverVars
    BY <1>0, <1>2 DEF Rotated, RotateFails, Next, Answered
  <1>3. ASSUME NEW w \in Pages, Check(w) \/ Rotate(w) PROVE [Next]_serverVars
    BY <1>0, <1>3 DEF Next, Server
  <1>4. ASSUME WebLogout PROVE [Next]_serverVars
    <2>1. UNCHANGED <<calls, ends>> /\ (UNCHANGED tokens \/ \E t \in Minted : Revoke(t))
      BY <1>4 DEF WebLogout, Revoke
    <2> QED
      BY <2>1 DEF Next
  <1>5. ASSUME WebLogin PROVE [Next]_serverVars
    BY <1>5 DEF WebLogin, Next
  <1>6. ASSUME EndSessions \/ Lapse \/ \E t \in Minted : Expire(t) PROVE [Next]_serverVars
    BY <1>6 DEF Next
  <1>7. ASSUME NEW w \in Pages, Begin(w) \/ Second(w) \/ Arrive(w) \/ LoseAnswer(w) PROVE [Next]_serverVars
    BY <1>7 DEF Begin, Second, Arrive, LoseAnswer
  <1>8. CASE UNCHANGED <<serverVars, webVars>>
    BY <1>8
  <1> QED
    BY <1>1, <1>2, <1>3, <1>4, <1>5, <1>6, <1>7, <1>8 DEF WebNext

LEMMA WebKeepsHolding ==
    ASSUME WebHolds, ServerTypeOK', [WebNext]_<<serverVars, webVars>>
    PROVE  WebHolds'
  <1> DEFINE Pair == [access : 0 .. MaxTokens, refresh : 0 .. MaxTokens]
  <1>0. Pages \subseteq Callers /\ MaxTokens \in Nat /\ AtRest \in Visit
    BY PagesAssumption, TokensAssumption DEF AtRest, Visit
  <1>1. ASSUME UNCHANGED cookies PROVE cookies' \in Pair
    BY <1>1 DEF WebHolds
  <1>2. ASSUME UNCHANGED visit PROVE visit' \in [Pages -> Visit]
    BY <1>2 DEF WebHolds
  <1>3. ASSUME NEW w \in Pages, Begin(w) PROVE cookies' \in Pair /\ visit' \in [Pages -> Visit]
    BY <1>0, <1>3 DEF WebHolds, Begin, Visit, AtRest
  <1>4. ASSUME NEW w \in Pages, First(w) PROVE cookies' \in Pair /\ visit' \in [Pages -> Visit]
    BY <1>0, <1>4 DEF WebHolds, First, Visit
  <1>5. ASSUME NEW w \in Pages, Rotated(w) PROVE cookies' \in Pair /\ visit' \in [Pages -> Visit]
    <2>1. calls[w].new \in 0 .. MaxTokens
      BY <1>0, CallTyped DEF WebHolds, Call
    <2>2. \/ visit' = [visit EXCEPT ![w].pc = "second", ![w].new = calls[w].new]
          \/ visit' = [visit EXCEPT ![w].pc = "arriving", ![w].new = calls[w].new]
      BY <1>5 DEF Rotated
    <2>3. visit' \in [Pages -> Visit]
      BY <2>1, <2>2 DEF WebHolds, Visit
    <2> QED
      BY <1>1, <1>5, <2>3 DEF Rotated
  <1>6. ASSUME NEW w \in Pages, Second(w) PROVE cookies' \in Pair /\ visit' \in [Pages -> Visit]
    <2>1. \/ visit' = [visit EXCEPT ![w].pc = "arriving", ![w].status = 200]
          \/ visit' = [visit EXCEPT ![w].pc = "arriving", ![w].status = 401]
      BY <1>6 DEF Second
    <2>2. visit' \in [Pages -> Visit]
      BY <2>1 DEF WebHolds, Visit
    <2> QED
      BY <1>1, <1>6, <2>2 DEF Second
  <1>7. ASSUME NEW w \in Pages, Arrive(w) PROVE cookies' \in Pair /\ visit' \in [Pages -> Visit]
    <2>1. visit[w].new \in 0 .. MaxTokens
      BY DEF WebHolds, Visit
    <2>2. cookies' \in Pair
      BY <1>0, <1>7, <2>1 DEF WebHolds, Arrive
    <2>3. visit' \in [Pages -> Visit]
      BY <1>0, <1>7 DEF WebHolds, Arrive
    <2> QED
      BY <2>2, <2>3
  <1>8. ASSUME NEW w \in Pages, LoseAnswer(w) PROVE cookies' \in Pair /\ visit' \in [Pages -> Visit]
    BY <1>0, <1>8 DEF WebHolds, LoseAnswer
  <1>9. ASSUME WebLogout PROVE cookies' \in Pair /\ visit' \in [Pages -> Visit]
    BY <1>0, <1>2, <1>9 DEF WebLogout
  <1>10. ASSUME WebLogin PROVE cookies' \in Pair /\ visit' \in [Pages -> Visit]
    <2>1. Last + 1 \in 0 .. MaxTokens
      BY <1>0, <1>10 DEF WebHolds, ServerTypeOK, WebLogin, Issue
    <2> QED
      BY <1>2, <1>10, <2>1 DEF WebLogin
  <1>11. ASSUME UNCHANGED webVars PROVE cookies' \in Pair /\ visit' \in [Pages -> Visit]
    BY <1>1, <1>2, <1>11 DEF webVars
  <1>13. ASSUME NEW w \in Pages, RotateFails(w) PROVE cookies' \in Pair /\ visit' \in [Pages -> Visit]
    BY <1>0, <1>1, <1>13 DEF WebHolds, RotateFails, Visit
  <1>12. cookies' \in Pair /\ visit' \in [Pages -> Visit]
    BY <1>3, <1>4, <1>5, <1>6, <1>7, <1>8, <1>9, <1>10, <1>11, <1>13 DEF WebNext
  <1> QED
    BY <1>12 DEF WebHolds

-----------------------------------------------------------------------------
\* A phone with any number of requests and logouts under way, on a bad network or a good
\* one, does nothing to the rows that the server's own specification does not allow.
THEOREM PhoneImplements == PhoneSpec => Spec
  <1>1. ServerInit /\ PhoneInit => IInv /\ PhoneHolds
    <2>1. 1 \in 0 .. MaxTokens
      BY TokensAssumption
    <2> QED
      BY <2>1, InitSafe DEF PhoneInit, PhoneHolds, IInv
  <1>2. IInv /\ PhoneHolds /\ [PhoneNext]_<<serverVars, phoneVars>> => [Next]_serverVars /\ IInv' /\ PhoneHolds'
    <2> SUFFICES ASSUME IInv, PhoneHolds, [PhoneNext]_<<serverVars, phoneVars>>
                 PROVE  [Next]_serverVars /\ IInv' /\ PhoneHolds'
      OBVIOUS
    <2>1. [Next]_serverVars
      BY PhoneStep
    <2>2. IInv'
      BY <2>1, NextSafe
    <2> QED
      BY <2>1, <2>2, PhoneKeepsHolding DEF IInv
  <1> QED
    BY <1>1, <1>2, PTL DEF PhoneSpec, Spec

LEMMA WebStarts == ServerInit /\ WebInit => IInv /\ WebHolds
  <1>1. 1 \in 0 .. MaxTokens /\ AtRest \in Visit
    BY TokensAssumption DEF AtRest, Visit
  <1> QED
    BY <1>1, InitSafe DEF WebInit, WebHolds, IInv

LEMMA WebGoesOn ==
    ASSUME IInv, WebHolds, [WebNext]_<<serverVars, webVars>>
    PROVE  [Next]_serverVars /\ IInv' /\ WebHolds'
  <1>1. [Next]_serverVars
    BY WebStep
  <1>2. IInv'
    BY <1>1, NextSafe
  <1> QED
    BY <1>1, <1>2, WebKeepsHolding DEF IInv

\* The same for a browser with any number of pages.
THEOREM WebImplements == WebSpec => Spec
  BY WebStarts, WebGoesOn, PTL DEF WebSpec, Spec

\* The browser's cookies and what its requests carry are numbers of tokens.
THEOREM WebTypeCorrect == WebSpec => []WebTypeOK
  <1>1. WebHolds => WebTypeOK
    BY DEF WebHolds, WebTypeOK
  <1> QED
    BY <1>1, WebStarts, WebGoesOn, PTL DEF WebSpec

\* AuthService.refresh behind the app and behind the web server: one successor for each
\* token, however the client's requests overlap.
THEOREM ClientsMintOne == PhoneSpec \/ WebSpec => []OneSuccessor
  BY PhoneImplements, WebImplements, RotationMintsOne, PTL

-----------------------------------------------------------------------------
(* The phone that nobody disturbs.                                         *)

\* A request that leads a refresh, up to the pair it stores.
Leads(a) == http[a].pc \in {"lead", "posted", "stored"}
Alive(t) == t \in Minted /\ ~tokens[t].revoked /\ ~tokens[t].lapsed

\* No logout runs and no refresh has failed; at most one request leads a refresh.
Undisturbed ==
    /\ \A l \in Logouts : routine[l] = "off"
    /\ \A a \in Actors : http[a].pc # "clearing"
    /\ \A a \in Actors : Leads(a) => refreshing
    /\ \A a, b \in Actors : Leads(a) /\ Leads(b) => a = b

\* Only the leader has a call open; what it presented is what the store holds, and
\* whatever the store or the answer on its way holds still works.
Answering(a) ==
    \/ calls[a].st \in {"sent", "checked"} /\ calls[a].tok = store.refresh
    \/ calls[a].st = "rotated" /\ Alive(calls[a].new)
CallsSound ==
    /\ \A a \in Actors : calls[a].st # "none" => http[a].pc = "posted"
    /\ \A a \in Actors : http[a].pc = "posted" => Answering(a)
    /\ (\A a \in Actors : calls[a].st # "rotated") => Alive(store.refresh)
    /\ store.refresh # 0

Surviving == ~disturbed => Undisturbed /\ CallsSound
PhoneInv == /\ PhoneHolds /\ Surviving
            /\ disturbed \in BOOLEAN /\ http \in [Actors -> Http] /\ routine = [l \in Logouts |-> routine[l]]

\* A request sent with the access token of the store.
LEMMA SendingTyped ==
    ASSUME PhoneHolds, NEW a, NEW retry \in BOOLEAN, NEW body \in 0 .. MaxTokens
    PROVE  Sending(a, retry, body) \in Http /\ Sending(a, retry, body).pc = "sent"
  BY DEF PhoneHolds, Sending, Http

LEMMA HttpTyped ==
    ASSUME PhoneInv, [PhoneNext]_<<serverVars, phoneVars>>
    PROVE  http' \in [Actors -> Http] /\ routine' = [l \in Logouts |-> routine'[l]] /\ disturbed' \in BOOLEAN
  <1>0. /\ http \in [Actors -> Http] /\ PhoneHolds /\ Idle \in Http
        /\ store.access \in 0 .. MaxTokens /\ store.refresh \in 0 .. MaxTokens /\ 0 \in 0 .. MaxTokens
        /\ Requests \subseteq Actors /\ Logouts \subseteq Actors
    BY TokensAssumption DEF PhoneInv, PhoneHolds, Idle, Http, Actors
  <1>1. ASSUME NEW a \in Actors, NEW pc \in {"ok", "failed", "queued", "lead", "posted", "stored", "clearing"}
        PROVE  /\ [http[a] EXCEPT !.pc = pc] \in Http
               /\ [http[a] EXCEPT !.pc = pc, !.retry = TRUE] \in Http
    BY <1>0 DEF Http
  <1>2. ASSUME NEW a \in Actors, Answer(a) PROVE http' \in [Actors -> Http]
    <2>1. CASE Succeed(a)
      BY <1>0, <1>1, <2>1 DEF Succeed
    <2>2. CASE Refused(a)
      BY <1>0, <1>1, <2>2 DEF Refused
    <2> QED
      BY <1>2, <2>1, <2>2 DEF Answer
  <1>3. ASSUME NEW a \in Actors, RejectAll(a) PROVE http' \in [Actors -> Http]
    BY <1>0, <1>1, <1>3 DEF RejectAll
  <1>4. ASSUME NEW a \in Actors, Refresh(a) PROVE http' \in [Actors -> Http]
    <2>1. CASE LeadPost(a)
      BY <1>0, <1>1, <1>3, <2>1 DEF LeadPost
    <2>2. CASE LeadStore(a)
      BY <1>0, <1>1, <2>2 DEF LeadStore
    <2>3. CASE LeadResume(a)
      <3>1. \A x \in Actors : Sending(x, TRUE, http[x].body) \in Http
        BY <1>0, SendingTyped DEF Http
      <3> QED
        BY <1>0, <2>3, <3>1 DEF LeadResume
    <2>4. CASE LeadFail(a)
      BY <1>3, <2>4 DEF LeadFail
    <2>5. CASE LeadClear(a)
      BY <1>0, <1>1, <2>5 DEF LeadClear
    <2> QED
      BY <1>4, <2>1, <2>2, <2>3, <2>4, <2>5 DEF Refresh
  <1>5. ASSUME NEW l \in Logouts, Routine(l) PROVE http' \in [Actors -> Http]
    <2>1. Sending(l, FALSE, store.refresh) \in Http /\ Sending(l, FALSE, 0) \in Http
      BY <1>0, SendingTyped
    <2> QED
      BY <1>0, <1>5, <2>1
      DEF Routine, LogoutPost, LogoutPosted, LogoutUnregister, LogoutUnregistered, LogoutClear
  <1>6. ASSUME NEW r \in Requests, Send(r) PROVE http' \in [Actors -> Http]
    <2>1. Sending(r, FALSE, 0) \in Http
      BY <1>0, SendingTyped
    <2> QED
      BY <1>0, <1>6, <2>1 DEF Send
  <1>7. http' \in [Actors -> Http]
    <2>1. CASE UNCHANGED http
      BY <1>0, <2>1
    <2>2. \/ \E a \in Actors : Answer(a) \/ Refresh(a)
          \/ \E l \in Logouts : Routine(l)
          \/ \E r \in Requests : Send(r)
          \/ UNCHANGED http
      BY DEF PhoneNext, ServerStep, DropAnswer, UserLogout, World, phoneVars, serverVars
    <2> QED
      BY <1>2, <1>4, <1>5, <1>6, <2>1, <2>2
  <1>8. routine' = [l \in Logouts |-> routine'[l]]
    <2>1. ASSUME StartRoutine PROVE routine' = [l \in Logouts |-> routine'[l]]
      BY <2>1 DEF StartRoutine, PhoneInv
    <2>2. ASSUME NEW l \in Logouts, Routine(l) PROVE routine' = [k \in Logouts |-> routine'[k]]
      BY <2>2 DEF Routine, LogoutPost, LogoutPosted, LogoutUnregister, LogoutUnregistered, LogoutClear, PhoneInv
    <2>3. \/ StartRoutine \/ (\E l \in Logouts : Routine(l)) \/ UNCHANGED routine
      BY DEF PhoneNext, Send, Answer, Succeed, Refused, Refresh, LeadPost, LeadStore, LeadResume, LeadFail,
         LeadClear, ServerStep, DropAnswer, UserLogout, World, phoneVars, serverVars
    <2> QED
      BY <2>1, <2>2, <2>3 DEF PhoneInv
  <1>9. disturbed' \in BOOLEAN
    BY DEF PhoneInv, PhoneNext, Send, Answer, Succeed, Refused, Refresh, LeadPost, LeadStore, LeadResume, LeadFail,
       LeadClear, ServerStep, DropAnswer, UserLogout, World, phoneVars, serverVars,
       Routine, LogoutPost, LogoutPosted, LogoutUnregister, LogoutUnregistered, LogoutClear
  <1> QED
    BY <1>7, <1>8, <1>9

\* A phone that is undisturbed was so before.
LEMMA StaysDisturbed ==
    ASSUME PhoneInv, [PhoneNext]_<<serverVars, phoneVars>>, ~disturbed'
    PROVE  ~disturbed
  BY DEF PhoneInv, PhoneNext, Send, Answer, Succeed, Refused, Refresh, LeadPost, LeadStore, LeadResume, LeadFail,
     LeadClear, ServerStep, DropAnswer, UserLogout, World, phoneVars, serverVars,
     Routine, LogoutPost, LogoutPosted, LogoutUnregister, LogoutUnregistered, LogoutClear

LEMMA SurvivingKept ==
    ASSUME PhoneInv, PhoneHolds', [PhoneNext]_<<serverVars, phoneVars>>
    PROVE  Surviving'
  <1> SUFFICES ASSUME ~disturbed' PROVE Undisturbed' /\ CallsSound'
    BY DEF Surviving
  <1>0. /\ ~disturbed /\ Undisturbed /\ CallsSound
        /\ http \in [Actors -> Http] /\ calls \in [Callers -> Call] /\ Actors \subseteq Callers
        /\ tokens \in Seq(Token) /\ Minted = 1 .. Len(tokens) /\ Len(tokens) \in Nat
        /\ Requests \subseteq Actors /\ Logouts \subseteq Actors
    BY StaysDisturbed, MintedIsRange, CallersAssumption DEF PhoneInv, PhoneHolds, Surviving, ServerTypeOK, Actors
  \* A step that moves one request, or some, to where no refresh is led.
  <1>1. ASSUME UNCHANGED <<tokens, calls, store, routine>>, refreshing' = refreshing,
               \A a \in Actors : http'[a].pc # "clearing"
                                 /\ (Leads(a)' \/ Leads(a) => http'[a].pc = http[a].pc)
        PROVE  Undisturbed' /\ CallsSound'
    <2>1. \A a \in Actors : Leads(a)' <=> Leads(a)
      BY <1>1 DEF Leads
    <2>2. \A a \in Actors : (http'[a].pc = "posted") <=> (http[a].pc = "posted")
      BY <1>1 DEF Leads
    <2>3. \A t : Alive(t)' <=> Alive(t)
      BY <1>1 DEF Alive, Minted
    <2>4. \A a \in Actors : Answering(a)' <=> Answering(a)
      BY <1>1, <2>3 DEF Answering
    <2>5. Undisturbed'
      BY <1>0, <1>1, <2>1 DEF Undisturbed
    <2> QED
      BY <1>0, <1>1, <2>2, <2>3, <2>4, <2>5 DEF CallsSound
  <1>2. ASSUME NEW r \in Requests, Send(r) PROVE Undisturbed' /\ CallsSound'
    BY <1>0, <1>1, <1>2 DEF Send, Sending, Leads, Undisturbed, serverVars
  <1>3. ASSUME NEW a \in Actors, Succeed(a) PROVE Undisturbed' /\ CallsSound'
    <2>1. UNCHANGED tokens
      BY <1>0, <1>3 DEF Succeed, Effect, Undisturbed
    <2>2. \A x \in Actors : http'[x].pc = IF x = a THEN "ok" ELSE http[x].pc
      BY <1>0, <1>3 DEF Succeed
    <2> QED
      BY <1>0, <1>1, <1>3, <2>1, <2>2 DEF Succeed, Effect, Leads, Undisturbed
  <1>4. ASSUME NEW a \in Actors, Refused(a) PROVE Undisturbed' /\ CallsSound'
    <2>1. CASE http[a].retry \/ refreshing
      <3>1. http[a].pc = "sent" /\ \A x \in Actors : x # a => http'[x] = http[x]
        BY <1>0, <1>4, <2>1 DEF Refused
      <3>2. http'[a].pc \in {"failed", "queued"}
        <4>1. CASE http[a].retry
          <5>1. http' = [http EXCEPT ![a].pc = "failed"]
            BY <1>4, <4>1 DEF Refused
          <5> QED
            BY <1>0, <5>1 DEF Http
        <4>2. CASE ~http[a].retry
          <5>1. http' = [http EXCEPT ![a].pc = "queued", ![a].retry = TRUE]
            BY <1>4, <2>1, <4>2 DEF Refused
          <5> QED
            BY <1>0, <5>1 DEF Http
        <4> QED
          BY <4>1, <4>2
      <3>3. \A x \in Actors : \/ x # a /\ http'[x] = http[x]
                              \/ x = a /\ http[x].pc = "sent" /\ http'[x].pc \in {"failed", "queued"}
        BY <3>1, <3>2
      <3>4. UNCHANGED <<tokens, calls, store, routine, refreshing>>
        BY <1>4, <2>1 DEF Refused, serverVars
      <3> QED
        BY <1>0, <1>1, <3>3, <3>4 DEF Leads, Undisturbed
    <2>2. CASE ~http[a].retry /\ ~refreshing
      <3>1. http[a].pc = "sent" /\ http' = [http EXCEPT ![a].pc = "lead", ![a].retry = TRUE]
        BY <1>4, <2>2 DEF Refused
      <3>2. http'[a].pc = "lead" /\ \A x \in Actors : x # a => http'[x] = http[x]
        BY <1>0, <3>1 DEF Http
      <3>3. \A x \in Actors : \/ x # a /\ http'[x] = http[x]
                              \/ x = a /\ http[x].pc = "sent" /\ http'[x].pc = "lead"
        BY <3>1, <3>2
      <3>4. UNCHANGED <<tokens, calls, store, routine>> /\ refreshing'
        BY <1>4, <2>2 DEF Refused, serverVars
      <3>5. \A x \in Actors : ~Leads(x)
        BY <1>0, <2>2 DEF Undisturbed
      <3>6. Undisturbed'
        BY <1>0, <3>3, <3>4, <3>5 DEF Undisturbed, Leads
      <3>7. \A x \in Actors : calls[x].st = "none" /\ http'[x].pc # "posted"
        BY <1>0, <3>3, <3>5 DEF CallsSound, Leads
      <3> QED
        BY <1>0, <3>4, <3>6, <3>7 DEF CallsSound, Alive, Minted
    <2> QED
      BY <2>1, <2>2
  <1>5. ASSUME NEW a \in Actors, LeadPost(a) PROVE Undisturbed' /\ CallsSound'
    <2>1. /\ Present(a, store.refresh) /\ http[a].pc = "lead"
          /\ http' = [http EXCEPT ![a].pc = "posted"]
          /\ UNCHANGED <<tokens, store, routine, refreshing>>
      BY <1>0, <1>5 DEF LeadPost, CallsSound
    <2>2. \A x \in Actors : x # a => http'[x] = http[x] /\ calls'[x] = calls[x]
      BY <1>0, <2>1 DEF Present
    <2>3. http'[a].pc = "posted" /\ calls'[a].st = "sent" /\ calls'[a].tok = store.refresh
      BY <1>0, <2>1 DEF Present
    <2>4. \A x \in Actors : x # a => ~Leads(x) /\ calls[x].st = "none"
      BY <1>0, <2>1 DEF Undisturbed, CallsSound, Leads
    <2>5. Undisturbed'
      BY <1>0, <2>1, <2>2, <2>3, <2>4 DEF Undisturbed, Leads
    <2>6. \A x \in Actors : calls[x].st # "rotated"
      BY <1>0, <2>1 DEF CallsSound, Undisturbed, Leads
    <2> QED
      BY <1>0, <2>1, <2>2, <2>3, <2>4, <2>5, <2>6 DEF CallsSound, Answering, Alive, Minted, Leads
  <1>6. ASSUME NEW a \in Actors, LeadStore(a) PROVE Undisturbed' /\ CallsSound'
    <2>1. /\ http[a].pc = "posted" /\ calls[a].st = "rotated"
          /\ store'.refresh = calls[a].new
          /\ calls' = [calls EXCEPT ![a] = NoCall]
          /\ http' = [http EXCEPT ![a].pc = "stored"]
          /\ UNCHANGED <<tokens, routine, refreshing>>
      BY <1>6 DEF LeadStore, Hangup
    <2>2. \A x \in Actors : x # a => http'[x] = http[x] /\ calls'[x] = calls[x]
      BY <1>0, <2>1
    <2>3. http'[a].pc = "stored" /\ calls'[a].st = "none"
      BY <1>0, <2>1 DEF NoCall
    <2>4. \A x \in Actors : x # a => ~Leads(x) /\ calls[x].st = "none"
      BY <1>0, <2>1 DEF Undisturbed, CallsSound, Leads
    <2>5. Undisturbed'
      BY <1>0, <2>1, <2>2, <2>3, <2>4 DEF Undisturbed, Leads
    <2>6. Alive(calls[a].new) /\ calls[a].new # 0
      BY <1>0, <2>1 DEF CallsSound, Answering, Alive
    <2> QED
      BY <1>0, <2>1, <2>2, <2>3, <2>4, <2>5, <2>6 DEF CallsSound, Alive, Minted, Leads
  <1>7. ASSUME NEW a \in Actors, LeadResume(a) PROVE Undisturbed' /\ CallsSound'
    <2>1. /\ http[a].pc = "stored" /\ http'[a].pc = "sent"
          /\ \A x \in Actors : http'[x] = http[x] \/ http'[x].pc = "sent"
          /\ UNCHANGED <<tokens, calls, store, routine>>
      BY <1>7 DEF LeadResume, Sending, serverVars
    <2>2. \A x \in Actors : x # a => ~Leads(x)
      BY <1>0, <2>1 DEF Undisturbed, Leads
    <2>3. \A x \in Actors : ~Leads(x)' /\ http'[x].pc # "clearing"
      BY <1>0, <2>1, <2>2 DEF Undisturbed, Leads
    <2>4. \A x \in Actors : calls[x].st = "none"
      BY <1>0, <2>1, <2>2 DEF CallsSound, Leads
    <2>5. Undisturbed'
      BY <1>0, <2>1, <2>3 DEF Undisturbed
    <2> QED
      BY <1>0, <2>1, <2>3, <2>4, <2>5 DEF CallsSound, Alive, Minted, Leads
  <1>8. ASSUME NEW a \in Actors, ServerStep(a) PROVE Undisturbed' /\ CallsSound'
    <2>1. UNCHANGED phoneVars /\ Undisturbed'
      BY <1>0, <1>8 DEF ServerStep, phoneVars, Undisturbed, Leads
    <2>2. calls[a].st \in {"sent", "checked"} /\ calls[a] \in Call
      BY <1>0, <1>8 DEF ServerStep, Check, Rotate
    <2>3. http[a].pc = "posted" /\ calls[a].tok = store.refresh
      BY <1>0, <2>2 DEF CallsSound, Answering
    <2>4. \A x \in Actors : x # a => http[x].pc # "posted" /\ calls[x].st = "none"
      BY <1>0, <2>3 DEF Undisturbed, CallsSound, Leads
    <2>5. Alive(store.refresh) /\ store.refresh # 0
      BY <1>0, <2>2, <2>4 DEF CallsSound
    <2>6. CASE Check(a)
      <3>1. calls' = [calls EXCEPT ![a].st = "checked"] /\ UNCHANGED tokens
        BY <2>3, <2>5, <2>6 DEF Check, Alive, Good
      <3>2. \A x \in Actors : x # a => calls'[x] = calls[x]
        BY <1>0, <3>1
      <3>3. calls'[a].st = "checked" /\ calls'[a].tok = calls[a].tok
        BY <1>0, <2>2, <3>1 DEF Call
      <3> QED
        BY <2>1, <2>3, <2>4, <2>5, <3>1, <3>2, <3>3 DEF CallsSound, Answering, Alive, Minted, phoneVars
    <2>7. CASE Rotate(a)
      <3> DEFINE marked == [tokens EXCEPT ![store.refresh].revoked = TRUE]
      <3>1. /\ tokens' = Append(marked, Fresh(store.refresh))
            /\ calls' = [calls EXCEPT ![a].st = "rotated", ![a].new = Last + 1]
        BY <2>3, <2>5, <2>7 DEF Rotate, Alive
      <3>2. \A x \in Actors : x # a => calls'[x] = calls[x]
        BY <1>0, <3>1
      <3>3. calls'[a].st = "rotated" /\ calls'[a].new = Len(tokens) + 1
        BY <1>0, <2>2, <3>1 DEF Call, Last
      <3>4. marked \in Seq(Token) /\ Len(marked) = Len(tokens)
        <4>1. store.refresh \in 1 .. Len(tokens)
          BY <1>0, <2>5 DEF Alive
        <4>2. tokens[store.refresh] \in Token
          BY <1>0, <4>1
        <4>3. [tokens[store.refresh] EXCEPT !.revoked = TRUE] \in Token
          BY <4>2, MarkedRow
        <4> QED
          BY <1>0, <4>1, <4>3, OneRowWritten
      <3>5. Fresh(store.refresh) \in Token /\ Fresh(store.refresh).revoked = FALSE
            /\ Fresh(store.refresh).lapsed = FALSE
        BY <2>1 DEF Fresh, Token, PhoneInv, PhoneHolds
      <3> HIDE DEF marked
      <3>6. Len(tokens) + 1 \in DOMAIN tokens' /\ tokens'[Len(tokens) + 1] = Fresh(store.refresh)
        BY <1>0, <3>1, <3>4, <3>5
      <3>7. Alive(calls[a].new)'
        BY <3>3, <3>5, <3>6 DEF Alive, Minted
      <3> QED
        BY <2>1, <2>3, <2>4, <2>5, <3>2, <3>3, <3>7 DEF CallsSound, Answering, phoneVars
    <2> QED
      BY <1>8, <2>6, <2>7 DEF ServerStep
  <1>9. ASSUME World PROVE Undisturbed' /\ CallsSound'
    <2>1. PICK t \in Minted : Expire(t) /\ UNCHANGED phoneVars
      BY <1>9 DEF World
    <2>2. UNCHANGED calls /\ tokens' = [tokens EXCEPT ![t].expired = TRUE]
      BY <2>1 DEF Expire
    <2>3. \A u : Alive(u)' <=> Alive(u)
      <3>1. \A u \in Minted : tokens'[u].revoked = tokens[u].revoked /\ tokens'[u].lapsed = tokens[u].lapsed
        BY <1>0, <2>2 DEF Token
      <3>2. Minted' = Minted
        BY <1>0, <2>2 DEF Minted
      <3> QED
        BY <3>1, <3>2 DEF Alive
    <2>4. \A x \in Actors : Answering(x)' <=> Answering(x)
      BY <2>1, <2>2, <2>3 DEF Answering, phoneVars
    <2> QED
      BY <1>0, <2>1, <2>2, <2>3, <2>4 DEF Undisturbed, CallsSound, Leads, phoneVars
  <1>10. ASSUME NEW a \in Actors PROVE ~LeadFail(a) /\ ~LeadClear(a) /\ ~DropAnswer(a)
    BY <1>0 DEF LeadFail, LeadClear, DropAnswer, Answered, Undisturbed, CallsSound, Answering
  <1>11. ASSUME NEW l \in Logouts PROVE ~Routine(l)
    BY <1>0 DEF Routine, LogoutPost, LogoutPosted, LogoutUnregister, LogoutUnregistered, LogoutClear, Undisturbed
  <1>12. ~UserLogout
    BY DEF UserLogout
  <1>13. CASE UNCHANGED <<serverVars, phoneVars>>
    BY <1>0, <1>1, <1>13 DEF serverVars, phoneVars, Leads, Undisturbed
  <1> QED
    BY <1>2, <1>3, <1>4, <1>5, <1>6, <1>7, <1>8, <1>9, <1>10, <1>11, <1>12, <1>13
    DEF PhoneNext, Answer, Refresh

-----------------------------------------------------------------------------
(* The queue behind a refresh.                                             *)

\* A logout routine that has no call to wait for has none under way.
RoutinesAtRest ==
    \A l \in Logouts : routine[l] \notin {"posting", "deleting"} => http[l].pc \notin Waiting

\* The queue is exactly who waits, wherever the routines are.
QueueFits == failedQueue = {a \in Actors : http[a].pc = "queued"} /\ RoutinesAtRest

LEMMA QueueKept ==
    ASSUME PhoneInv, PhoneTypeOK, QueueFits, [PhoneNext]_<<serverVars, phoneVars>>
    PROVE  QueueFits'
  <1>0. /\ http \in [Actors -> Http] /\ Requests \subseteq Actors /\ Logouts \subseteq Actors
        /\ Requests \cap Logouts = {}
        /\ failedQueue = {a \in Actors : http[a].pc = "queued"} /\ RoutinesAtRest
        /\ routine \in [Logouts -> {"off", "starting", "posting", "unregister", "deleting", "clear"}]
    BY CallersAssumption DEF PhoneTypeOK, QueueFits, Actors
  <1> USE DEF RoutinesAtRest, Waiting
  \* Requests go on, none of them into the queue or out of it.
  <1>1. ASSUME UNCHANGED failedQueue, \A a \in Actors : http'[a].pc = "queued" <=> http[a].pc = "queued",
               RoutinesAtRest'
        PROVE  QueueFits'
    BY <1>0, <1>1 DEF QueueFits
  <1>2. ASSUME UNCHANGED routine, \A a \in Logouts : http'[a].pc \in Waiting => http[a].pc \in Waiting
        PROVE  RoutinesAtRest'
    BY <1>0, <1>2
  <1>3. ASSUME NEW r \in Requests, Send(r) PROVE QueueFits'
    <2>1. \A a \in Actors : http'[a] = IF a = r THEN Sending(r, FALSE, 0) ELSE http[a]
      BY <1>0, <1>3 DEF Send
    <2>2. Sending(r, FALSE, 0).pc = "sent" /\ http[r].pc = "idle" /\ r \notin Logouts
      BY <1>0, <1>3 DEF Send, Sending
    <2>3. UNCHANGED <<routine, failedQueue>>
      BY <1>3 DEF Send
    <2> QED
      BY <1>0, <1>1, <1>2, <2>1, <2>2, <2>3
  <1>4. ASSUME NEW a \in Actors, Answer(a) PROVE QueueFits'
    <2>1. UNCHANGED routine /\ http[a].pc = "sent"
      BY <1>4 DEF Answer, Succeed, Refused
    <2>2. /\ \A x \in Actors \ {a} : http'[x] = http[x]
          /\ \/ http'[a].pc \in {"ok", "failed", "lead"} /\ UNCHANGED failedQueue
             \/ http'[a].pc = "queued" /\ failedQueue' = failedQueue \cup {a}
      <3>1. http[a] \in Http
        BY <1>0
      <3>2. CASE Succeed(a)
        BY <1>0, <3>1, <3>2 DEF Succeed, Http
      <3>3. CASE Refused(a)
        BY <1>0, <3>1, <3>3 DEF Refused, Http
      <3> QED
        BY <1>4, <3>2, <3>3 DEF Answer
    <2>3. RoutinesAtRest'
      BY <1>0, <1>2, <2>1, <2>2
    <2>4. CASE http'[a].pc \in {"ok", "failed", "lead"} /\ UNCHANGED failedQueue
      BY <1>1, <2>1, <2>2, <2>3, <2>4
    <2>5. CASE http'[a].pc = "queued" /\ failedQueue' = failedQueue \cup {a}
      BY <1>0, <2>2, <2>3, <2>5 DEF QueueFits
    <2> QED
      BY <2>2, <2>4, <2>5
  <1>5. ASSUME NEW a \in Actors, http[a].pc \in {"lead", "posted"}, RejectAll(a), UNCHANGED routine PROVE QueueFits'
    <2>1. /\ a \notin failedQueue /\ failedQueue' = {}
          /\ \A x \in Actors : http'[x].pc = IF x \in failedQueue THEN "failed"
                                             ELSE IF x = a THEN "clearing" ELSE http[x].pc
      BY <1>0, <1>5 DEF RejectAll, Http
    <2>2. RoutinesAtRest'
      BY <1>0, <1>2, <1>5, <2>1
    <2> QED
      BY <1>0, <2>1, <2>2 DEF QueueFits
  <1>6. ASSUME NEW a \in Actors, Refresh(a) PROVE QueueFits'
    <2>1. CASE (LeadPost(a) /\ store.refresh = 0) \/ LeadFail(a)
      BY <1>5, <2>1 DEF LeadPost, LeadFail
    <2>2. CASE (LeadPost(a) /\ store.refresh # 0) \/ LeadStore(a)
      <3>1. /\ UNCHANGED <<routine, failedQueue>> /\ http[a].pc \in {"lead", "posted"}
            /\ http[a] \in Http
            /\ \/ http' = [http EXCEPT ![a].pc = "posted"]
               \/ http' = [http EXCEPT ![a].pc = "stored"]
        BY <1>0, <2>2 DEF LeadPost, LeadStore
      <3>2. http'[a].pc \in {"posted", "stored"} /\ \A x \in Actors \ {a} : http'[x] = http[x]
        BY <1>0, <3>1 DEF Http
      <3>3. RoutinesAtRest'
        BY <1>0, <1>2, <3>1, <3>2
      <3> QED
        BY <1>1, <3>1, <3>2, <3>3
    <2>3. CASE LeadResume(a)
      <3>1. /\ UNCHANGED routine /\ http[a].pc = "stored" /\ failedQueue' = {}
            /\ \A x \in Actors : http'[x] = IF x \in failedQueue \cup {a}
                                            THEN Sending(x, TRUE, http[x].body) ELSE http[x]
        BY <2>3 DEF LeadResume
      <3>2. \A x \in Actors : Sending(x, TRUE, http[x].body).pc = "sent"
        BY DEF Sending
      <3>3. RoutinesAtRest'
        BY <1>0, <1>2, <3>1, <3>2
      <3>4. \A x \in Actors : http'[x].pc # "queued"
        <4>1. ASSUME NEW x \in Actors PROVE http'[x].pc # "queued"
          <5>1. CASE x \in failedQueue \cup {a}
            BY <3>1, <3>2, <5>1
          <5>2. CASE x \notin failedQueue \cup {a}
            BY <1>0, <3>1, <5>2
          <5> QED
            BY <5>1, <5>2
        <4> QED
          BY <4>1
      <3> QED
        BY <3>1, <3>3, <3>4 DEF QueueFits
    <2>4. CASE LeadClear(a)
      <3>1. /\ UNCHANGED failedQueue /\ http[a].pc = "clearing" /\ StartRoutine
            /\ \A x \in Actors : http'[x].pc = IF x = a THEN "failed" ELSE http[x].pc
        BY <1>0, <2>4 DEF LeadClear, Http
      <3>2. \A l \in Logouts : routine'[l] = routine[l] \/ routine[l] = "off"
        BY <1>0, <3>1 DEF StartRoutine
      <3>3. RoutinesAtRest'
        BY <1>0, <3>1, <3>2
      <3> QED
        BY <1>1, <3>1, <3>3
    <2> QED
      BY <1>6, <2>1, <2>2, <2>3, <2>4 DEF Refresh
  <1>7. ASSUME NEW l \in Logouts, Routine(l) PROVE QueueFits'
    <2>1. UNCHANGED failedQueue
      BY <1>7 DEF Routine, LogoutPost, LogoutPosted, LogoutUnregister, LogoutUnregistered, LogoutClear
    <2>2. /\ \A x \in Actors \ {l} : http'[x] = http[x]
          /\ \A k \in Logouts \ {l} : routine'[k] = routine[k]
      BY <1>0, <1>7 DEF Routine, LogoutPost, LogoutPosted, LogoutUnregister, LogoutUnregistered, LogoutClear
    <2>3. CASE LogoutPost(l) \/ LogoutUnregister(l)
      <3>1. /\ routine[l] \in {"starting", "unregister"}
            /\ \/ http'[l].pc = "sent" /\ routine'[l] \in {"posting", "deleting"}
               \/ http'[l] = http[l]
        BY <1>0, <2>3 DEF LogoutPost, LogoutUnregister, Sending
      <3>2. RoutinesAtRest'
        BY <1>0, <2>2, <3>1
      <3>3. http[l].pc \notin Waiting /\ http'[l].pc # "queued"
        BY <1>0, <3>1
      <3> QED
        BY <1>1, <2>1, <2>2, <3>2, <3>3
    <2>4. CASE LogoutPosted(l) \/ LogoutUnregistered(l)
      <3>1. http[l].pc \in {"ok", "failed"} /\ UNCHANGED http
        BY <2>4 DEF LogoutPosted, LogoutUnregistered, Settled
      <3>2. RoutinesAtRest'
        BY <1>0, <2>2, <3>1
      <3> QED
        BY <1>1, <2>1, <3>1, <3>2
    <2>5. CASE LogoutClear(l)
      <3>1. http'[l].pc = "idle" /\ http[l].pc \notin Waiting
        BY <1>0, <2>5 DEF LogoutClear, Idle
      <3>2. RoutinesAtRest'
        BY <1>0, <2>2, <3>1
      <3> QED
        BY <1>1, <2>1, <2>2, <3>1, <3>2
    <2> QED
      BY <1>7, <2>3, <2>4, <2>5 DEF Routine
  <1>8. ASSUME UNCHANGED <<http, failedQueue>>, StartRoutine \/ UNCHANGED routine PROVE QueueFits'
    <2>1. \A l \in Logouts : routine'[l] = routine[l] \/ routine[l] = "off"
      BY <1>0, <1>8 DEF StartRoutine
    <2> QED
      BY <1>0, <1>1, <1>8, <2>1
  <1>9. ASSUME UserLogout \/ World \/ (\E a \in Actors : ServerStep(a) \/ DropAnswer(a))
               \/ UNCHANGED <<serverVars, phoneVars>>
        PROVE  QueueFits'
    BY <1>8, <1>9 DEF UserLogout, World, ServerStep, DropAnswer, phoneVars
  <1> QED
    BY <1>3, <1>4, <1>6, <1>7, <1>9 DEF PhoneNext

LEMMA PhoneTypeKept ==
    ASSUME PhoneInv, PhoneTypeOK, QueueFits, PhoneHolds', [PhoneNext]_<<serverVars, phoneVars>>
    PROVE  PhoneTypeOK' /\ QueueFits'
  <1>1. http' \in [Actors -> Http] /\ disturbed' \in BOOLEAN
    BY HttpTyped
  <1>2. QueueFits'
    BY QueueKept
  <1>3. pushKey' \in BOOLEAN /\ registered' \in BOOLEAN /\ refreshing' \in BOOLEAN
    BY DEF PhoneTypeOK, PhoneNext, Send, Answer, Succeed, Effect, Refused, Refresh, LeadPost, LeadStore, LeadResume,
       LeadFail, LeadClear, ServerStep, DropAnswer, UserLogout, World, phoneVars, serverVars,
       Routine, LogoutPost, LogoutPosted, LogoutUnregister, LogoutUnregistered, LogoutClear
  <1>4. routine' \in [Logouts -> {"off", "starting", "posting", "unregister", "deleting", "clear"}]
    <2>1. ASSUME StartRoutine
          PROVE  routine' \in [Logouts -> {"off", "starting", "posting", "unregister", "deleting", "clear"}]
      BY <2>1 DEF StartRoutine, PhoneTypeOK
    <2>2. ASSUME NEW l \in Logouts, Routine(l)
          PROVE  routine' \in [Logouts -> {"off", "starting", "posting", "unregister", "deleting", "clear"}]
      BY <2>2 DEF Routine, LogoutPost, LogoutPosted, LogoutUnregister, LogoutUnregistered, LogoutClear, PhoneTypeOK
    <2>3. \/ StartRoutine \/ (\E l \in Logouts : Routine(l)) \/ UNCHANGED routine
      BY DEF PhoneNext, Send, Answer, Succeed, Refused, Refresh, LeadPost, LeadStore, LeadResume, LeadFail,
         LeadClear, ServerStep, DropAnswer, UserLogout, World, phoneVars, serverVars
    <2> QED
      BY <2>1, <2>2, <2>3 DEF PhoneTypeOK
  <1> QED
    BY <1>1, <1>2, <1>3, <1>4 DEF PhoneTypeOK, PhoneHolds, QueueFits

LEMMA PhoneStarts == ServerInit /\ PhoneInit => IInv /\ PhoneInv /\ PhoneTypeOK /\ QueueFits
  <1> SUFFICES ASSUME ServerInit, PhoneInit PROVE IInv /\ PhoneInv /\ PhoneTypeOK /\ QueueFits
    OBVIOUS
  <1>1. 1 \in 0 .. MaxTokens /\ 0 \in 0 .. MaxTokens
    BY TokensAssumption
  <1>2. IInv /\ PhoneHolds
    BY <1>1, InitSafe DEF PhoneInit, PhoneHolds, IInv
  <1>3. http \in [Actors -> Http] /\ disturbed \in BOOLEAN /\ routine = [l \in Logouts |-> routine[l]]
    BY <1>1 DEF PhoneInit, Idle, Http
  <1>4. Undisturbed
    BY DEF PhoneInit, Idle, Undisturbed, Leads
  <1>5. Alive(1)
    BY DEF ServerInit, Alive, Minted, Fresh
  <1>6. \A a \in Actors : http[a].pc = "idle" /\ calls[a].st = "none"
    BY CallersAssumption DEF PhoneInit, ServerInit, Idle, NoCall, Actors
  <1>7. CallsSound
    BY <1>5, <1>6 DEF CallsSound, PhoneInit
  <1>8. PhoneTypeOK /\ QueueFits
    BY <1>2, <1>3, <1>6 DEF PhoneInit, PhoneHolds, PhoneTypeOK, QueueFits, RoutinesAtRest, Actors, Waiting
  <1> QED
    BY <1>2, <1>3, <1>4, <1>7, <1>8 DEF PhoneInv, Surviving

LEMMA PhoneGoesOn ==
    ASSUME IInv, PhoneInv, PhoneTypeOK, QueueFits, [PhoneNext]_<<serverVars, phoneVars>>
    PROVE  IInv' /\ PhoneInv' /\ PhoneTypeOK' /\ QueueFits'
  <1>1. PhoneHolds
    BY DEF PhoneInv
  <1>2. IInv'
    BY <1>1, PhoneStep, NextSafe
  <1>3. PhoneHolds'
    BY <1>1, <1>2, PhoneKeepsHolding DEF IInv
  <1> QED
    BY <1>2, <1>3, HttpTyped, SurvivingKept, PhoneTypeKept DEF PhoneInv

\* However many requests of the phone meet an expired access token, at once or late, and
\* however long an answer takes: as long as none is lost and nobody ends the session, no
\* refresh is refused and the phone keeps a token that works.
THEOREM PhoneStaysSignedIn == PhoneSpec => []SessionSurvives
  <1>1. PhoneInv => SessionSurvives
    BY DEF PhoneInv, Surviving, Undisturbed, CallsSound, Answering, SessionSurvives
  <1> QED
    BY <1>1, PhoneStarts, PhoneGoesOn, PTL DEF PhoneSpec

\* The phone's variables keep their types, and the queue of a refresh is exactly who waits: no
\* request waits for a refresh that will not answer it, whatever fails and whoever signs out.
THEOREM PhoneTypeCorrect == PhoneSpec => []PhoneTypeOK
  BY PhoneStarts, PhoneGoesOn, PTL DEF PhoneSpec

-----------------------------------------------------------------------------
(* The browser's cookies.                                                  *)

Rooted(root) == root = [t \in Minted |-> IF tokens[t].parent = 0 THEN t ELSE root[tokens[t].parent]]

LEMMA SignInUnfolded == SignIn = CHOOSE root : Rooted(root)
  BY DEF SignIn, Rooted

\* Row by row, each token's sign-in is found: parents come before their children.
LEMMA SignInIs == ASSUME IInv PROVE Rooted(SignIn)
  <1> DEFINE Upward(r, n) == \A t \in 1 .. n : r[t] = IF tokens[t].parent = 0 THEN t ELSE r[tokens[t].parent]
             N == {n \in Nat : n <= Len(tokens) => \E r \in [1 .. n -> Nat] : Upward(r, n)}
  <1>0. /\ Minted = 1 .. Len(tokens) /\ Len(tokens) \in Nat
        /\ \A t \in Minted : tokens[t].parent # 0 => tokens[t].parent \in 1 .. t - 1
    BY MintedIsRange DEF IInv, RotatedIsRevoked
  <1>1. 0 \in N
    <2>1. [t \in 1 .. 0 |-> 0] \in [1 .. 0 -> Nat] /\ Upward([t \in 1 .. 0 |-> 0], 0)
      OBVIOUS
    <2> QED
      BY <2>1
  <1>2. ASSUME NEW n \in Nat, n \in N PROVE n + 1 \in N
    <2> SUFFICES ASSUME n + 1 <= Len(tokens) PROVE \E r \in [1 .. n + 1 -> Nat] : Upward(r, n + 1)
      OBVIOUS
    <2>1. PICK r \in [1 .. n -> Nat] : Upward(r, n)
      BY <1>0, <1>2
    <2> DEFINE p == tokens[n + 1].parent
               s == [t \in 1 .. n + 1 |-> IF t = n + 1 THEN IF p = 0 THEN n + 1 ELSE r[p] ELSE r[t]]
    <2>2. p # 0 => p \in 1 .. n
      BY <1>0
    <2>3. s \in [1 .. n + 1 -> Nat]
      BY <2>1, <2>2
    <2>4. \A t \in 1 .. n : s[t] = r[t]
      OBVIOUS
    <2>5. s[n + 1] = IF p = 0 THEN n + 1 ELSE s[p]
      BY <2>2, <2>4
    <2>6. ASSUME NEW t \in 1 .. n PROVE s[t] = IF tokens[t].parent = 0 THEN t ELSE s[tokens[t].parent]
      <3>1. tokens[t].parent # 0 => tokens[t].parent \in 1 .. n
        BY <1>0
      <3> HIDE DEF s
      <3> QED
        BY <2>1, <2>4, <3>1
    <2> HIDE DEF s
    <2>7. Upward(s, n + 1)
      BY <2>5, <2>6
    <2> QED
      BY <2>3, <2>7
  <1>3. Len(tokens) \in N
    <2> HIDE DEF N
    <2> QED
      BY <1>0, <1>1, <1>2, NatSetInduction
  <1>4. PICK r \in [Minted -> Nat] : Upward(r, Len(tokens))
    BY <1>0, <1>3
  <1>5. Rooted(r)
    BY <1>0, <1>4 DEF Rooted
  <1> QED
    BY <1>5, SignInUnfolded

\* A token that is not the last of its sign-in has been rotated.
LEMMA RotatedOn ==
    ASSUME IInv, NEW a \in Minted, NEW b \in Minted, a < b, SignIn[a] = SignIn[b]
    PROVE  \E c \in Minted : tokens[c].parent = a
  <1> DEFINE S == SignIn
             Heir(t, u) == \E c \in Minted : tokens[c].parent = t /\ c <= u
             N == {n \in Nat : \A u \in Minted : u <= n =>
                      /\ S[u] \in Nat /\ S[u] <= u
                      /\ \A t \in Minted : t < u /\ S[t] = S[u] => Heir(t, u)}
  <1>0. /\ Minted = 1 .. Len(tokens) /\ Len(tokens) \in Nat
        /\ \A t \in Minted : tokens[t].parent # 0 => tokens[t].parent \in 1 .. t - 1
        /\ \A t, u \in Minted : tokens[t].parent # 0 /\ tokens[t].parent = tokens[u].parent => t = u
        /\ \A t \in Minted : S[t] = IF tokens[t].parent = 0 THEN t ELSE S[tokens[t].parent]
    BY MintedIsRange, SignInIs DEF IInv, RotatedIsRevoked, OneSuccessor, Rooted
  <1> HIDE DEF S
  <1>1. 0 \in N
    BY <1>0
  <1>2. ASSUME NEW n \in Nat, n \in N PROVE n + 1 \in N
    <2> SUFFICES ASSUME n + 1 \in Minted
                 PROVE  /\ S[n + 1] \in Nat /\ S[n + 1] <= n + 1
                        /\ \A t \in Minted : t < n + 1 /\ S[t] = S[n + 1] => Heir(t, n + 1)
      <3>1. \A u \in Minted : u <= n + 1 => u <= n \/ u = n + 1
        BY <1>0
      <3> QED
        BY <1>2, <3>1
    <2> DEFINE p == tokens[n + 1].parent
    <2>1. p # 0 => p \in Minted /\ p <= n /\ S[n + 1] = S[p]
      BY <1>0
    <2>2. p = 0 => S[n + 1] = n + 1
      BY <1>0
    <2> HIDE DEF p
    <2>3. S[n + 1] \in Nat /\ S[n + 1] <= n + 1
      <3>1. CASE p = 0
        BY <2>2, <3>1
      <3>2. CASE p # 0
        <4>1. p \in Nat /\ p <= n /\ S[p] \in Nat /\ S[p] <= p /\ S[n + 1] = S[p]
          BY <1>0, <1>2, <2>1, <3>2
        <4> QED
          BY <4>1
      <3> QED
        BY <3>1, <3>2
    <2>4. ASSUME NEW t \in Minted, t < n + 1, S[t] = S[n + 1] PROVE Heir(t, n + 1)
      <3>0. t <= n /\ t \in Nat /\ S[t] <= t /\ S[t] \in Nat
        BY <1>0, <1>2, <2>4
      <3>1. p # 0 /\ p \in Minted /\ p <= n /\ S[t] = S[p] /\ p \in Nat
        BY <1>0, <2>1, <2>2, <2>4, <3>0
      <3>2. CASE p = t
        BY <3>2 DEF p
      <3>3. CASE t < p
        <4>1. PICK c \in Minted : tokens[c].parent = t /\ c <= p
          BY <1>2, <3>1, <3>3
        <4> QED
          BY <1>0, <3>1, <4>1
      <3>4. CASE p < t
        <4>1. PICK c \in Minted : tokens[c].parent = p /\ c <= t
          BY <1>2, <3>0, <3>1, <3>4
        <4>2. c = n + 1
          BY <1>0, <3>1, <4>1 DEF p
        <4> QED
          BY <3>0, <4>1, <4>2
      <3>5. p = t \/ t < p \/ p < t
        BY <3>0, <3>1
      <3> QED
        BY <3>2, <3>3, <3>4, <3>5, Zenon
    <2> QED
      BY <2>3, <2>4
  <1>3. Nat \subseteq N
    <2> HIDE DEF N
    <2> QED
      BY <1>1, <1>2, NatSetInduction
  <1>4. a \in Nat /\ b \in Nat /\ b <= b /\ S[a] = S[b]
    BY <1>0 DEF S
  <1> QED
    BY <1>3, <1>4

\* A token on its way to the browser: minted for request w and not yet in the cookies.
Carries(w, n) ==
    /\ n # 0
    /\ \/ visit[w].new = n
       \/ calls[w].st = "rotated" /\ calls[w].new = n

\* A request's call and its new token belong to the stage it is at, and what it presents
\* was minted.
Staged ==
    /\ \A w \in Pages : /\ calls[w].st # "none" => visit[w].pc = "rotating"
                        /\ visit[w].new # 0 => visit[w].pc \in {"second", "arriving"}
                        /\ calls[w].st # "rotated" => calls[w].new = 0
                        /\ {visit[w].refresh, calls[w].tok} \subseteq Minted \cup {0}
    /\ cookies.refresh \in Minted \cup {0}

\* Nobody has seen a token that is on its way, so it has no successor yet.
Unseen(w, n) ==
    /\ n \in Minted /\ n # cookies.refresh
    /\ \A t \in Minted : tokens[t].parent # n
    /\ \A x \in Pages : visit[x].refresh # n /\ calls[x].tok # n /\ (Carries(x, n) => x = w)
CarriedUnseen == \A w \in Pages : \A n \in Minted : Carries(w, n) => Unseen(w, n)
CarriedMinted == \A w \in Pages : visit[w].new \in Minted \cup {0} /\ calls[w].new \in Minted \cup {0}

WebInv == IInv /\ WebHolds /\ Staged /\ CarriedMinted /\ CarriedUnseen

LEMMA WebFacts ==
    ASSUME WebInv
    PROVE  /\ Minted = 1 .. Len(tokens) /\ Len(tokens) \in Nat /\ tokens \in Seq(Token)
           /\ visit \in [Pages -> Visit] /\ calls \in [Callers -> Call] /\ Pages \subseteq Callers
           /\ \A w \in Pages : visit[w] \in Visit /\ calls[w] \in Call
  BY MintedIsRange, PagesAssumption DEF WebInv, IInv, WebHolds, ServerTypeOK

\* What no token, cookie or request comes to hold or carry anew stays as it is said.
LEMMA NothingNew ==
    ASSUME WebInv, Minted' = Minted, \A t \in Minted : tokens'[t].parent = tokens[t].parent,
           cookies'.refresh \in {cookies.refresh, 0},
           \A w \in Pages : /\ visit'[w].refresh \in {visit[w].refresh, 0, cookies.refresh}
                            /\ calls'[w].tok \in {calls[w].tok, 0, visit[w].refresh}
                            /\ visit'[w].new \in {visit[w].new, 0, calls[w].new}
                            /\ calls'[w].new \in {calls[w].new, 0}
                            /\ \A n \in Minted : Carries(w, n)' => Carries(w, n)
    PROVE  /\ CarriedUnseen' /\ CarriedMinted' /\ cookies'.refresh \in Minted' \cup {0}
           /\ \A w \in Pages : {visit'[w].refresh, calls'[w].tok} \subseteq Minted' \cup {0}
  <1>1. CarriedMinted' /\ cookies'.refresh \in Minted' \cup {0}
    BY DEF WebInv, CarriedMinted, Staged
  <1>2. ASSUME NEW w \in Pages PROVE {visit'[w].refresh, calls'[w].tok} \subseteq Minted' \cup {0}
    BY DEF WebInv, Staged
  <1>3. ASSUME NEW w \in Pages, NEW n \in Minted, Carries(w, n)' PROVE Unseen(w, n)'
    <2>1. Unseen(w, n) /\ n # 0
      BY <1>3 DEF WebInv, CarriedUnseen, Carries
    <2>2. n \in Minted' /\ n # cookies'.refresh
      BY <2>1 DEF Unseen
    <2>3. \A t \in Minted' : tokens'[t].parent # n
      BY <2>1 DEF Unseen
    <2>4. ASSUME NEW x \in Pages
          PROVE  visit'[x].refresh # n /\ calls'[x].tok # n /\ (Carries(x, n)' => x = w)
      BY <2>1 DEF Unseen
    <2> QED
      BY <2>2, <2>3, <2>4 DEF Unseen
  <1> QED
    BY <1>1, <1>2, <1>3 DEF CarriedUnseen

\* A request moves on: it takes up the cookies, presents its token, or takes the answer.
Moves(w) ==
    /\ UNCHANGED tokens /\ cookies'.refresh \in {cookies.refresh, 0}
    /\ \A x \in Pages \ {w} : visit'[x] = visit[x] /\ calls'[x] = calls[x]
    /\ visit'[w].refresh \in {visit[w].refresh, 0, cookies.refresh}
    /\ calls'[w].tok \in {calls[w].tok, 0, visit[w].refresh}
    /\ \/ visit'[w].new \in {visit[w].new, 0}
       \/ calls[w].st = "rotated" /\ visit'[w].new = calls[w].new
    /\ calls'[w].new \in {calls[w].new, 0}
    /\ calls'[w].st = "rotated" => calls[w].st = "rotated"
    /\ calls'[w].st # "none" => visit'[w].pc = "rotating"
    /\ visit'[w].new # 0 => visit'[w].pc \in {"second", "arriving"}
    /\ calls'[w].st # "rotated" => calls'[w].new = 0

LEMMA MovesSafe ==
    ASSUME WebInv, NEW w \in Pages, Moves(w)
    PROVE  Staged' /\ CarriedMinted' /\ CarriedUnseen'
  <1>1. Minted' = Minted /\ (\A t \in Minted : tokens'[t].parent = tokens[t].parent)
        /\ cookies'.refresh \in {cookies.refresh, 0}
    BY DEF Moves, Minted
  <1>2. ASSUME NEW x \in Pages
        PROVE  /\ visit'[x].refresh \in {visit[x].refresh, 0, cookies.refresh}
               /\ calls'[x].tok \in {calls[x].tok, 0, visit[x].refresh}
               /\ visit'[x].new \in {visit[x].new, 0, calls[x].new}
               /\ calls'[x].new \in {calls[x].new, 0}
    BY DEF Moves
  <1>3. ASSUME NEW x \in Pages, NEW n \in Minted, Carries(x, n)' PROVE Carries(x, n)
    BY <1>3 DEF Moves, Carries
  <1>4. /\ CarriedUnseen' /\ CarriedMinted' /\ cookies'.refresh \in Minted' \cup {0}
        /\ \A x \in Pages : {visit'[x].refresh, calls'[x].tok} \subseteq Minted' \cup {0}
    BY <1>1, <1>2, <1>3, NothingNew
  <1>5. ASSUME NEW x \in Pages
        PROVE  /\ calls'[x].st # "none" => visit'[x].pc = "rotating"
               /\ visit'[x].new # 0 => visit'[x].pc \in {"second", "arriving"}
               /\ calls'[x].st # "rotated" => calls'[x].new = 0
    BY DEF Moves, WebInv, Staged
  <1>6. Staged'
    BY <1>4, <1>5 DEF Staged
  <1> QED
    BY <1>4, <1>6

\* A step of a request that hands over no new token.
Ordinary(w) ==
    \/ Begin(w) \/ First(w) \/ Rotated(w) \/ RotateFails(w) \/ Second(w) \/ LoseAnswer(w)
    \/ Check(w) /\ UNCHANGED webVars
    \/ Arrive(w) /\ visit[w].new = 0

LEMMA RequestMoves == ASSUME WebInv, NEW w \in Pages, Ordinary(w) PROVE Moves(w)
  <1>0. /\ visit \in [Pages -> Visit] /\ calls \in [Callers -> Call] /\ w \in Callers
        /\ visit[w] \in Visit /\ calls[w] \in Call
        /\ calls[w].st # "none" => visit[w].pc = "rotating"
        /\ visit[w].new # 0 => visit[w].pc \in {"second", "arriving"}
        /\ calls[w].st # "rotated" => calls[w].new = 0
    BY WebFacts DEF WebInv, Staged
  <1>1. CASE Begin(w)
    <2> DEFINE begun == [AtRest EXCEPT !.pc = "first", !.access = cookies.access, !.refresh = cookies.refresh]
    <2>0. begun.refresh = cookies.refresh /\ begun.new = 0
      BY DEF AtRest
    <2> HIDE DEF begun
    <2>1. visit' = [visit EXCEPT ![w] = begun] /\ visit[w].pc = "idle" /\ UNCHANGED <<tokens, calls, cookies>>
      BY <1>1 DEF Begin, serverVars, begun
    <2>2. visit'[w] = begun /\ \A x \in Pages \ {w} : visit'[x] = visit[x]
      BY <1>0, <2>1
    <2> QED
      BY <1>0, <2>0, <2>1, <2>2 DEF Moves
  <1>2. CASE First(w)
    <2>1. UNCHANGED <<tokens, cookies>> /\ visit[w].pc = "first"
      BY <1>2 DEF First
    <2>2. CASE Accepted(visit[w].access)
      <3>1. visit' = [visit EXCEPT ![w].pc = "arriving", ![w].status = 200] /\ UNCHANGED calls
        BY <1>2, <2>2 DEF First
      <3>2. /\ visit'[w].pc = "arriving" /\ visit'[w].refresh = visit[w].refresh /\ visit'[w].new = visit[w].new
            /\ \A x \in Pages \ {w} : visit'[x] = visit[x]
        BY <1>0, <3>1 DEF Visit
      <3> QED
        BY <1>0, <2>1, <3>1, <3>2 DEF Moves
    <2>3. CASE ~Accepted(visit[w].access)
      <3>1. /\ visit' = [visit EXCEPT ![w].pc = "rotating", ![w].status = 401]
            /\ calls' = [calls EXCEPT ![w] = [st |-> "sent", tok |-> visit[w].refresh, new |-> 0]]
        BY <1>2, <2>3 DEF First, Present
      <3>2. /\ visit'[w].pc = "rotating" /\ visit'[w].refresh = visit[w].refresh /\ visit'[w].new = visit[w].new
            /\ \A x \in Pages \ {w} : visit'[x] = visit[x]
        BY <1>0, <3>1 DEF Visit
      <3>3. /\ calls'[w] = [st |-> "sent", tok |-> visit[w].refresh, new |-> 0]
            /\ \A x \in Pages \ {w} : calls'[x] = calls[x]
        BY <1>0, <3>1, PagesAssumption
      <3> QED
        BY <1>0, <2>1, <3>2, <3>3 DEF Moves
    <2> QED
      BY <2>2, <2>3
  <1>3. CASE Rotated(w)
    <2>1. /\ UNCHANGED <<tokens, cookies>> /\ visit[w].pc = "rotating"
          /\ calls' = [calls EXCEPT ![w] = NoCall]
      BY <1>3 DEF Rotated, Hangup
    <2>2. PICK pc \in {"second", "arriving"} : visit' = [visit EXCEPT ![w].pc = pc, ![w].new = calls[w].new]
      BY <1>3 DEF Rotated
    <2>3. /\ visit'[w].pc = pc /\ visit'[w].refresh = visit[w].refresh /\ visit'[w].new = calls[w].new
          /\ \A x \in Pages \ {w} : visit'[x] = visit[x]
      BY <1>0, <2>2 DEF Visit
    <2>4. calls'[w] = NoCall /\ \A x \in Pages \ {w} : calls'[x] = calls[x]
      BY <1>0, <2>1, PagesAssumption
    <2> QED
      BY <1>0, <2>1, <2>3, <2>4 DEF Moves, NoCall
  <1>7. CASE RotateFails(w)
    <2>1. /\ UNCHANGED <<tokens, cookies>> /\ visit[w].pc = "rotating"
          /\ calls' = [calls EXCEPT ![w] = NoCall] /\ visit' = [visit EXCEPT ![w].pc = "arriving"]
      BY <1>7 DEF RotateFails, Hangup
    <2>2. /\ visit'[w].pc = "arriving" /\ visit'[w].refresh = visit[w].refresh /\ visit'[w].new = visit[w].new
          /\ \A x \in Pages \ {w} : visit'[x] = visit[x]
      BY <1>0, <2>1 DEF Visit
    <2>3. calls'[w] = NoCall /\ \A x \in Pages \ {w} : calls'[x] = calls[x]
      BY <1>0, <2>1, PagesAssumption
    <2> QED
      BY <1>0, <2>1, <2>2, <2>3 DEF Moves, NoCall
  <1>4. CASE Second(w)
    <2>1. UNCHANGED <<tokens, calls, cookies>> /\ visit[w].pc = "second"
      BY <1>4 DEF Second, serverVars
    <2>2. PICK answer \in {200, 401} : visit' = [visit EXCEPT ![w].pc = "arriving", ![w].status = answer]
      BY <1>4 DEF Second
    <2>3. /\ visit'[w].pc = "arriving" /\ visit'[w].refresh = visit[w].refresh /\ visit'[w].new = visit[w].new
          /\ \A x \in Pages \ {w} : visit'[x] = visit[x]
      BY <1>0, <2>2 DEF Visit
    <2> QED
      BY <1>0, <2>1, <2>3 DEF Moves
  <1>5. CASE LoseAnswer(w) \/ (Arrive(w) /\ visit[w].new = 0)
    <2>1. /\ UNCHANGED <<tokens, calls>> /\ visit[w].pc = "arriving" /\ visit' = [visit EXCEPT ![w] = AtRest]
          /\ cookies'.refresh \in {cookies.refresh, 0}
      BY <1>5 DEF LoseAnswer, Arrive, serverVars
    <2>2. visit'[w] = AtRest /\ \A x \in Pages \ {w} : visit'[x] = visit[x]
      BY <1>0, <2>1
    <2> QED
      BY <1>0, <2>1, <2>2 DEF Moves, AtRest
  <1>6. CASE Check(w) /\ UNCHANGED webVars
    <2>1. UNCHANGED <<tokens, cookies, visit>> /\ calls[w].st = "sent"
      BY <1>6 DEF Check, webVars
    <2>2. PICK st \in {"checked", "refused"} : calls' = [calls EXCEPT ![w].st = st]
      BY <1>6 DEF Check
    <2>3. /\ calls'[w].st = st /\ calls'[w].tok = calls[w].tok /\ calls'[w].new = calls[w].new
          /\ \A x \in Pages \ {w} : calls'[x] = calls[x]
      BY <1>0, <2>2, PagesAssumption DEF Call
    <2> QED
      BY <1>0, <2>1, <2>3 DEF Moves
  <1> QED
    BY <1>1, <1>2, <1>3, <1>4, <1>5, <1>6, <1>7 DEF Ordinary

\* Rows are marked and nothing else: no parent changes.
LEMMA MarksSafe ==
    ASSUME WebInv, Marking, UNCHANGED <<calls, visit>>, cookies'.refresh \in {cookies.refresh, 0}
    PROVE  Staged' /\ CarriedMinted' /\ CarriedUnseen'
  <1>1. Minted' = Minted /\ \A t \in Minted : tokens'[t].parent = tokens[t].parent
    BY WebFacts DEF Marking, Minted
  <1>2. \A x \in Pages : \A n \in Minted : Carries(x, n)' => Carries(x, n)
    BY DEF Carries
  <1>3. /\ CarriedUnseen' /\ CarriedMinted' /\ cookies'.refresh \in Minted' \cup {0}
        /\ \A x \in Pages : {visit'[x].refresh, calls'[x].tok} \subseteq Minted' \cup {0}
    BY <1>1, <1>2, NothingNew
  <1>4. Staged'
    BY <1>3 DEF WebInv, Staged
  <1> QED
    BY <1>3, <1>4

\* The rotation: the new row is the child of the one presented, which nobody carries.
LEMMA RotateCarries ==
    ASSUME WebInv, NEW w \in Pages, Rotate(w), UNCHANGED webVars
    PROVE  Staged' /\ CarriedMinted' /\ CarriedUnseen'
  <1>a. PICK t, new : t = calls[w].tok /\ new = Len(tokens) + 1
    OBVIOUS
  <1>0. /\ Minted = 1 .. Len(tokens) /\ Len(tokens) \in Nat /\ tokens \in Seq(Token)
        /\ visit \in [Pages -> Visit] /\ calls \in [Callers -> Call] /\ Pages \subseteq Callers
        /\ visit[w] \in Visit /\ calls[w] \in Call /\ IInv
        /\ UNCHANGED <<cookies, visit>> /\ calls[w].st = "checked"
    BY WebFacts DEF WebInv, Rotate, webVars
  <1>1. visit[w].pc = "rotating" /\ visit[w].new = 0 /\ calls[w].new = 0
    BY <1>0 DEF WebInv, Staged
  <1>2. CASE tokens[t].revoked
    <2>1. calls' = [calls EXCEPT ![w].st = "refused"] /\ UNCHANGED tokens
      BY <1>2, <1>a DEF Rotate
    <2>2. /\ calls'[w].st = "refused" /\ calls'[w].tok = t /\ calls'[w].new = 0
          /\ \A x \in Pages \ {w} : calls'[x] = calls[x]
      BY <1>0, <1>a, <1>1, <2>1 DEF Call
    <2>3. Moves(w)
      BY <1>0, <1>a, <1>1, <2>1, <2>2 DEF Moves
    <2> QED
      BY <2>3, MovesSafe
  <1>3. CASE ~tokens[t].revoked
    <2>1. tokens' # tokens
      <3> DEFINE marked == [tokens EXCEPT ![t].revoked = TRUE]
      <3>1. tokens' = Append(marked, Fresh(t))
        BY <1>3, <1>a DEF Rotate
      <3>2. DOMAIN marked = 1 .. Len(tokens) /\ Len(marked) = Len(tokens)
        BY <1>0
      <3> HIDE DEF marked
      <3>3. DOMAIN tokens' = 1 .. (Len(tokens) + 1)
        BY <1>0, <3>1, <3>2
      <3> QED
        BY <1>0, <3>3
    <2>2. Growing(t) /\ calls' = [calls EXCEPT ![w].st = "rotated", ![w].new = Last + 1]
      BY <1>0, <1>a, <2>1, RotateGrows
    <2>3. /\ Minted' = 1 .. new /\ tokens'[new].parent = t
          /\ \A u \in Minted : tokens'[u].parent = tokens[u].parent
      BY <1>0, <1>a, <2>2 DEF Growing, Minted
    <2>4. /\ calls'[w].st = "rotated" /\ calls'[w].tok = t /\ calls'[w].new = new
          /\ \A x \in Pages \ {w} : calls'[x] = calls[x]
      BY <1>0, <1>a, <2>2 DEF Call, Last
    <2>5. \A u \in Minted : tokens[u].parent # 0 => tokens[u].parent \in Minted
      BY <1>0 DEF IInv, RotatedIsRevoked
    <2>6. Minted \subseteq Minted' /\ new \in Minted' /\ new \notin Minted /\ new # 0 /\ t \in Minted \cup {0}
      BY <1>0, <1>a, <2>3 DEF WebInv, Staged
    <2>7. ASSUME NEW x \in Pages
          PROVE  /\ {visit'[x].refresh, calls'[x].tok} \subseteq Minted \cup {0}
                 /\ visit'[x].new \in Minted \cup {0}
                 /\ x # w => calls'[x].new \in Minted \cup {0}
                 /\ calls'[x].st # "none" => visit'[x].pc = "rotating"
                 /\ visit'[x].new # 0 => visit'[x].pc \in {"second", "arriving"}
                 /\ calls'[x].st # "rotated" => calls'[x].new = 0
      BY <1>0, <1>a, <1>1, <2>4 DEF WebInv, Staged, CarriedMinted
    <2>8. cookies'.refresh \in Minted \cup {0}
      BY <1>0 DEF WebInv, Staged
    <2>9. Staged' /\ CarriedMinted'
      BY <2>4, <2>6, <2>7, <2>8 DEF Staged, CarriedMinted
    <2>10. ASSUME NEW x \in Pages, NEW n \in Minted', Carries(x, n)'
           PROVE  \/ x = w /\ n = new
                  \/ x # w /\ n \in Minted /\ Carries(x, n)
      BY <1>0, <1>1, <2>4, <2>7, <2>10 DEF Carries
    <2>11. Unseen(w, new)'
      <3>1. new \in Minted' /\ new # cookies'.refresh
        BY <2>6, <2>8
      <3>2. ASSUME NEW u \in Minted' PROVE tokens'[u].parent # new
        <4>1. u \in Minted \/ u = new
          BY <1>0, <1>a, <2>3
        <4> QED
          BY <2>3, <2>5, <2>6, <4>1
      <3>3. ASSUME NEW x \in Pages
            PROVE  visit'[x].refresh # new /\ calls'[x].tok # new /\ (Carries(x, new)' => x = w)
        BY <2>6, <2>7, <2>10
      <3> QED
        BY <3>1, <3>2, <3>3 DEF Unseen
    <2>12. ASSUME NEW x \in Pages, NEW n \in Minted, x # w, Carries(x, n) PROVE Unseen(x, n)'
      <3>1. Unseen(x, n) /\ n # new
        BY <2>6, <2>12 DEF WebInv, CarriedUnseen
      <3>2. n \in Minted' /\ n # cookies'.refresh
        BY <1>0, <2>6, <3>1 DEF Unseen
      <3>3. ASSUME NEW u \in Minted' PROVE tokens'[u].parent # n
        <4>1. u \in Minted \/ u = new
          BY <1>0, <1>a, <2>3
        <4> QED
          BY <1>a, <2>3, <3>1, <4>1 DEF Unseen
      <3>4. ASSUME NEW y \in Pages
            PROVE  visit'[y].refresh # n /\ calls'[y].tok # n /\ (Carries(y, n)' => y = x)
        <4>1. visit'[y].refresh = visit[y].refresh /\ calls'[y].tok = calls[y].tok
          BY <1>0, <1>a, <2>4
        <4>2. Carries(y, n)' => Carries(y, n)
          BY <2>6, <2>10, <3>1
        <4> QED
          BY <3>1, <4>1, <4>2 DEF Unseen
      <3> QED
        BY <3>2, <3>3, <3>4 DEF Unseen
    <2>13. ASSUME NEW x \in Pages, NEW n \in Minted', Carries(x, n)' PROVE Unseen(x, n)'
      BY <2>10, <2>11, <2>12, <2>13
    <2> QED
      BY <2>9, <2>13 DEF CarriedUnseen
  <1> QED
    BY <1>2, <1>3

\* The answer with a new pair: the browser has seen the token, and no other request has it.
LEMMA ArriveCarries ==
    ASSUME WebInv, NEW w \in Pages, Arrive(w), visit[w].new # 0
    PROVE  Staged' /\ CarriedMinted' /\ CarriedUnseen'
  <1> DEFINE new == visit[w].new
  <1>0. /\ visit \in [Pages -> Visit] /\ visit[w].pc = "arriving" /\ calls[w].st # "rotated" /\ new \in Minted
        /\ UNCHANGED <<tokens, calls>> /\ cookies'.refresh = new /\ visit' = [visit EXCEPT ![w] = AtRest]
        /\ Minted' = Minted
    BY WebFacts DEF WebInv, Staged, CarriedMinted, Arrive, serverVars, Minted
  <1>1. visit'[w] = AtRest /\ \A x \in Pages \ {w} : visit'[x] = visit[x]
    BY <1>0
  <1>2. \A x \in Pages : visit'[x] = visit[x] \/ visit'[x] = AtRest
    BY <1>1
  <1> HIDE DEF new
  <1>3. Staged' /\ CarriedMinted'
    BY <1>0, <1>1, <1>2 DEF WebInv, Staged, CarriedMinted, AtRest
  <1>4. ASSUME NEW x \in Pages, NEW n \in Minted, Carries(x, n)' PROVE x # w /\ Carries(x, n)
    BY <1>0, <1>1, <1>4 DEF Carries, AtRest
  <1>5. Carries(w, new) /\ Unseen(w, new) /\ new # 0
    BY <1>0 DEF Carries, WebInv, CarriedUnseen, new
  <1>6. ASSUME NEW x \in Pages, NEW n \in Minted, Carries(x, n)' PROVE Unseen(x, n)'
    <2>1. x # w /\ Carries(x, n) /\ Unseen(x, n) /\ n # 0
      BY <1>4, <1>6 DEF WebInv, CarriedUnseen, Carries
    <2>2. n # new
      BY <1>5, <2>1 DEF Unseen
    <2>3. n \in Minted' /\ n # cookies'.refresh /\ \A u \in Minted' : tokens'[u].parent # n
      BY <1>0, <2>1, <2>2 DEF Unseen
    <2>4. ASSUME NEW y \in Pages
          PROVE  visit'[y].refresh # n /\ calls'[y].tok # n /\ (Carries(y, n)' => y = x)
      <3>1. visit'[y].refresh # n
        BY <1>2, <2>1 DEF Unseen, AtRest
      <3>2. Carries(y, n)' => Carries(y, n)
        BY <1>4
      <3> QED
        BY <1>0, <2>1, <3>1, <3>2 DEF Unseen
    <2> QED
      BY <2>3, <2>4 DEF Unseen
  <1>7. CarriedUnseen'
    BY <1>0, <1>6 DEF CarriedUnseen
  <1> QED
    BY <1>3, <1>7

\* Signing in again: a row nobody had before.
LEMMA LoginCarries ==
    ASSUME WebInv, WebLogin
    PROVE  Staged' /\ CarriedMinted' /\ CarriedUnseen'
  <1> DEFINE new == Len(tokens) + 1
  <1>0. /\ Minted = 1 .. Len(tokens) /\ Len(tokens) \in Nat /\ IInv /\ Issue
        /\ UNCHANGED <<calls, visit>> /\ cookies'.refresh = new
    BY WebFacts DEF WebInv, WebLogin, Last
  <1>1. Growing(0)
    BY <1>0, IssueGrows
  <1>2. /\ Minted' = 1 .. new /\ tokens'[new].parent = 0 /\ Minted \subseteq Minted'
        /\ new \in Minted' /\ new \notin Minted /\ \A u \in Minted' : u \in Minted \/ u = new
        /\ \A u \in Minted : tokens'[u].parent = tokens[u].parent
    BY <1>0, <1>1 DEF Growing, Minted
  <1> HIDE DEF new
  <1>3. Staged' /\ CarriedMinted'
    BY <1>0, <1>2 DEF WebInv, Staged, CarriedMinted
  <1>4. ASSUME NEW x \in Pages, NEW n \in Minted', Carries(x, n)' PROVE Unseen(x, n)'
    <2>1. Carries(x, n) /\ n \in Minted /\ n # 0
      BY <1>0, <1>4 DEF Carries, WebInv, CarriedMinted
    <2>2. Unseen(x, n)
      BY <2>1 DEF WebInv, CarriedUnseen
    <2>3. n \in Minted' /\ n # cookies'.refresh
      BY <1>0, <1>2, <2>1
    <2>4. ASSUME NEW u \in Minted' PROVE tokens'[u].parent # n
      BY <1>2, <2>1, <2>2 DEF Unseen
    <2>5. ASSUME NEW y \in Pages
          PROVE  visit'[y].refresh # n /\ calls'[y].tok # n /\ (Carries(y, n)' => y = x)
      BY <1>0, <2>2 DEF Unseen, Carries
    <2> QED
      BY <2>3, <2>4, <2>5 DEF Unseen
  <1> QED
    BY <1>3, <1>4 DEF CarriedUnseen

LEMMA WebInvStarts == ServerInit /\ WebInit => WebInv
  <1> SUFFICES ASSUME ServerInit, WebInit PROVE WebInv
    OBVIOUS
  <1>1. IInv
    BY InitSafe
  <1>2. WebHolds
    <2>1. 1 \in 0 .. MaxTokens /\ AtRest \in Visit
      BY TokensAssumption DEF AtRest, Visit
    <2> QED
      BY <1>1, <2>1 DEF WebInit, WebHolds, IInv
  <1>3. \A w \in Pages : visit[w] = AtRest /\ calls[w] = NoCall
    BY PagesAssumption DEF ServerInit, WebInit
  <1>4. Minted = {1} /\ cookies.refresh = 1
    BY DEF ServerInit, WebInit, Minted
  <1>5. Staged /\ CarriedMinted /\ CarriedUnseen
    BY <1>3, <1>4 DEF Staged, CarriedMinted, CarriedUnseen, Carries, AtRest, NoCall
  <1> QED
    BY <1>1, <1>2, <1>5 DEF WebInv

LEMMA WebInvKept == WebInv /\ [WebNext]_<<serverVars, webVars>> => WebInv'
  <1> SUFFICES ASSUME WebInv, [WebNext]_<<serverVars, webVars>> PROVE WebInv'
    OBVIOUS
  <1>1. IInv /\ WebHolds
    BY DEF WebInv
  <1>2. [Next]_serverVars
    BY <1>1, WebStep
  <1>3. IInv'
    BY <1>1, <1>2, NextSafe
  <1>10. WebHolds'
    BY <1>1, <1>3, WebKeepsHolding DEF IInv
  <1> SUFFICES Staged' /\ CarriedMinted' /\ CarriedUnseen'
    BY <1>3, <1>10 DEF WebInv
  <1>4. ASSUME NEW w \in Pages,
               Begin(w) \/ First(w) \/ Rotated(w) \/ RotateFails(w) \/ Second(w) \/ Arrive(w) \/ LoseAnswer(w)
        PROVE  Staged' /\ CarriedMinted' /\ CarriedUnseen'
    <2>1. Ordinary(w) \/ (Arrive(w) /\ visit[w].new # 0)
      BY <1>4 DEF Ordinary
    <2> QED
      BY <2>1, RequestMoves, MovesSafe, ArriveCarries
  <1>5. ASSUME NEW w \in Pages, Check(w) \/ Rotate(w), UNCHANGED webVars
        PROVE  Staged' /\ CarriedMinted' /\ CarriedUnseen'
    BY <1>5, RequestMoves, MovesSafe, RotateCarries DEF Ordinary
  <1>6. CASE WebLogout
    <2>1. UNCHANGED <<calls, visit>> /\ cookies'.refresh = 0
      BY <1>6 DEF WebLogout
    <2>2. (\E t \in Minted : Revoke(t) \/ Expire(t)) \/ EndSessions \/ UNCHANGED tokens
      BY <1>6 DEF WebLogout, Revoke
    <2>3. Marking
      BY <1>1, <2>2, OthersMark
    <2> QED
      BY <2>1, <2>3, MarksSafe
  <1>7. CASE WebLogin
    BY <1>7, LoginCarries
  <1>8. ASSUME EndSessions \/ Lapse \/ (\E t \in Minted : Expire(t)), UNCHANGED webVars
        PROVE  Staged' /\ CarriedMinted' /\ CarriedUnseen'
    <2>1. Marking
      BY <1>1, <1>8, OthersMark
    <2>2. UNCHANGED <<calls, visit, cookies>>
      BY <1>8 DEF EndSessions, Lapse, Expire, webVars
    <2> QED
      BY <2>1, <2>2, MarksSafe
  <1>9. CASE UNCHANGED <<serverVars, webVars>>
    <2>1. Marking
      BY <1>1, <1>9, OthersMark DEF serverVars
    <2> QED
      BY <1>9, <2>1, MarksSafe DEF webVars, serverVars
  <1> QED
    BY <1>4, <1>5, <1>6, <1>7, <1>8, <1>9 DEF WebNext

\* An answer never puts into the browser a token older than one of the same sign-in it has,
\* in whatever order the answers of its requests arrive: the token an answer carries was
\* given to nobody else, so it is the last of its sign-in, and any older one was rotated.
THEOREM CookieStepsOn == WebSpec => CookieNeverStepsBack
  <1> DEFINE Onward == SameSignIn(cookies.refresh, cookies'.refresh) => cookies'.refresh >= cookies.refresh
  <1>1. ASSUME WebInv, [WebNext]_<<serverVars, webVars>>, cookies' # cookies PROVE Onward
    <2>0. cookies.refresh \in Minted \cup {0} /\ Minted \subseteq Nat /\ IInv
      BY <1>1, WebFacts DEF WebInv, Staged
    <2>1. ASSUME NEW w \in Pages, Arrive(w), visit[w].new # 0 PROVE Onward
      <3> SUFFICES ASSUME SameSignIn(cookies.refresh, cookies'.refresh) PROVE cookies'.refresh >= cookies.refresh
        OBVIOUS
      <3>1. PICK old, new : old = cookies.refresh /\ new = visit[w].new
        OBVIOUS
      <3>2. cookies'.refresh = new /\ Carries(w, new) /\ new \in Minted
        BY <1>1, <2>1, <3>1 DEF Arrive, Carries, WebInv, CarriedMinted
      <3>3. \A c \in Minted : tokens[c].parent # new
        BY <1>1, <3>2 DEF WebInv, CarriedUnseen, Unseen
      <3>4. old \in Minted /\ SignIn[old] = SignIn[new]
        BY <2>0, <3>1, <3>2 DEF SameSignIn
      <3>5. ~(new < old)
        BY <2>0, <3>2, <3>3, <3>4, RotatedOn
      <3>6. new >= old
        BY <2>0, <3>2, <3>4, <3>5
      <3> QED
        BY <3>1, <3>2, <3>6
    <2>2. ASSUME NEW w \in Pages, Arrive(w), visit[w].new = 0 PROVE Onward
      <3>1. cookies'.refresh = 0
        BY <1>1, <2>2 DEF Arrive
      <3> QED
        BY <3>1 DEF SameSignIn
    <2>3. WebLogout \/ WebLogin => Onward
      BY DEF WebLogout, WebLogin, SameSignIn
    <2> QED
      BY <1>1, <2>1, <2>2, <2>3 DEF WebNext, webVars, Begin, First, Rotated, RotateFails, Second, LoseAnswer
  <1>2. WebInv /\ [WebNext]_<<serverVars, webVars>> => [Onward]_cookies
    BY <1>1
  <1> QED
    BY <1>2, WebInvStarts, WebInvKept, PTL DEF WebSpec, CookieNeverStepsBack
=============================================================================
