--------------------------- MODULE SessionsProofs ---------------------------
(***************************************************************************)
(* Refresh tokens are one-time tokens: Sessions implements TokenRotation;  *)
(* and no refresh of a customer who does not sign out is refused; for any  *)
(* number of tabs, requests, session rows and token pairs.                 *)
(*                                                                         *)
(* Rotate may write the heir of a token long after ConsumeRefreshToken     *)
(* retired it. What makes it the only heir is that at most one request is  *)
(* between the two for each token, which is no property of one step: the   *)
(* invariant below says it.                                                *)
(***************************************************************************)
EXTENDS Sessions, FiniteSetTheorems, TLAPS

Spent(p) == pair[p].token \in {"revoked", "deleted"}
NoHeir(p) == \A q \in Pairs : pair[q].parent # p

\* A refresh that consumed its token and has not been answered.
Exchanging(c) == call[c].kind = "refresh" /\ call[c].at \in {"consumed", "opened"}

Sound(c) ==
    /\ call[c].pair \in Issued \cup {0}
    /\ call[c].kind = "refresh" => call[c].pair # 0
    /\ call[c].kind \in SignIns /\ call[c].at = "opened" => call[c].row \in Rows

TabsHoldIssued == \A t \in Tabs : tab[t].access \in Issued \cup {0} /\ tab[t].refresh \in Issued \cup {0}
ExchangesOfSpent == \A c \in Calls : Exchanging(c) => Spent(call[c].pair) /\ NoHeir(call[c].pair)
ExchangesDiffer == \A c, d \in Calls : Exchanging(c) /\ Exchanging(d) /\ call[c].pair = call[d].pair => c = d
HeirsOfSpent == \A q \in Pairs : pair[q].parent # 0 => Spent(pair[q].parent)

IInv ==
    /\ STypeOK
    /\ \A c \in Calls : Sound(c)
    /\ TabsHoldIssued
    /\ ExchangesOfSpent
    /\ ExchangesDiffer
    /\ HeirsOfSpent

LEMMA ZeroIsNoPair == 0 \notin Pairs
  BY SessionsAssumption DEF Pairs

LEMMA InitInv == Init => IInv
<1> SUFFICES ASSUME Init PROVE IInv
  OBVIOUS
<1> USE SessionsAssumption
<1>1. NoCall \in CallStates
  BY DEF NoCall, CallStates, Kinds, Places
<1>2. STypeOK
  BY <1>1 DEF Init, STypeOK, PairDocs, TabStates, SignedOut
<1>3. \A c \in Calls : call[c] = NoCall
  BY DEF Init
<1>4. \A p \in Pairs : pair[p] = NoPair
  BY DEF Init
<1>5. \A c \in Calls : Sound(c) /\ ~Exchanging(c)
  BY <1>3 DEF Sound, Exchanging, NoCall, SignIns
<1>6. TabsHoldIssued
  BY DEF Init, TabsHoldIssued, SignedOut
<1>7. HeirsOfSpent
  BY <1>4 DEF HeirsOfSpent, NoPair
<1> QED
  BY <1>2, <1>5, <1>6, <1>7 DEF IInv, ExchangesOfSpent, ExchangesDiffer

-----------------------------------------------------------------------------
(* What steps do to the requests                                           *)

LEMMA RequestIs ==
  ASSUME NEW k \in Kinds, NEW t \in Tabs \cup {NoTab}, NEW p \in Pairs \cup {0}
  PROVE  /\ Request(k, t, p) \in CallStates
         /\ Request(k, t, p).kind = k
         /\ Request(k, t, p).at = "sent"
         /\ Request(k, t, p).pair = p
  BY DEF Request, NoCall, CallStates, Kinds, Places

LEMMA NoCallIs == NoCall \in CallStates /\ NoCall.kind = "none" /\ NoCall.at = "idle" /\ NoCall.pair = 0
  BY DEF NoCall, CallStates, Kinds, Places

LEMMA ReplyEffect ==
  ASSUME STypeOK, NEW c \in Calls, NEW a \in Places, Reply(c, a)
  PROVE  /\ call' \in [Calls -> CallStates]
         /\ \A d \in Calls :
              /\ call'[d].kind = call[d].kind
              /\ call'[d].pair = call[d].pair
              /\ call'[d].tab = call[d].tab
              /\ call'[d].row = call[d].row
              /\ call'[d].at = IF d = c THEN a ELSE call[d].at
<1>1. call \in [Calls -> CallStates]
  BY DEF STypeOK
<1>2. call' = [call EXCEPT ![c].at = a]
  BY DEF Reply
<1> QED
  BY <1>1, <1>2 DEF CallStates

\* A step that leaves the tokens alone keeps the invariant when every request
\* it changes is sound and none starts to exchange a token.
LEMMA Quiet ==
  ASSUME IInv, STypeOK', pair' = pair, TabsHoldIssued',
         \A c \in Calls : Sound(c)',
         \A c \in Calls : Exchanging(c)' => Exchanging(c) /\ call'[c].pair = call[c].pair
  PROVE  IInv'
<1>1. \A p : (Spent(p)' <=> Spent(p)) /\ (NoHeir(p)' <=> NoHeir(p))
  BY DEF Spent, NoHeir
<1>2. ExchangesOfSpent'
  BY <1>1 DEF IInv, ExchangesOfSpent
<1>3. ExchangesDiffer'
  BY DEF IInv, ExchangesDiffer
<1>4. HeirsOfSpent'
  BY <1>1 DEF IInv, HeirsOfSpent
<1> QED
  BY <1>2, <1>3, <1>4 DEF IInv

\* The answer to a request, or its next place in the API.
LEMMA QuietReply ==
  ASSUME IInv, NEW c \in Calls, NEW a \in Places, Reply(c, a), pair' = pair, tab' = tab, STypeOK',
         call[c].kind \in SignIns => a # "opened",
         call[c].kind = "refresh" /\ a \in {"consumed", "opened"} => Exchanging(c)
  PROVE  IInv'
<1>1. \A d \in Calls :
        /\ call'[d].kind = call[d].kind
        /\ call'[d].pair = call[d].pair
        /\ call'[d].row = call[d].row
        /\ call'[d].at = IF d = c THEN a ELSE call[d].at
  BY ReplyEffect DEF IInv
<1>2. Issued' = Issued
  BY DEF Issued
<1>3. \A d \in Calls : Sound(d)'
  BY <1>1, <1>2 DEF IInv, Sound
<1>4. \A d \in Calls : Exchanging(d)' => Exchanging(d) /\ call'[d].pair = call[d].pair
  BY <1>1 DEF Exchanging
<1>5. TabsHoldIssued'
  BY <1>2 DEF IInv, TabsHoldIssued
<1> QED
  BY <1>3, <1>4, <1>5, Quiet

\* Each request is as it was, or was forgotten, or is a new one of a pair the tab
\* knows, or has moved to a place where it exchanges nothing.
Harmless(d) ==
    \/ call'[d] = call[d]
    \/ /\ call'[d].pair \in Issued \cup {0}
       /\ call'[d].kind = "refresh" => call'[d].pair # 0
       /\ call'[d].at \notin {"consumed", "opened"}
    \/ /\ call'[d].kind = call[d].kind /\ call'[d].at = call[d].at
       /\ call'[d].pair = call[d].pair /\ call'[d].row = call[d].row

LEMMA QuietClient ==
  ASSUME IInv, STypeOK', pair' = pair, TabsHoldIssued', \A d \in Calls : Harmless(d)
  PROVE  IInv'
<1>1. Issued' = Issued
  BY DEF Issued
<1>2. \A d \in Calls : Sound(d)'
  BY <1>1 DEF IInv, Sound, Harmless
<1>3. \A d \in Calls : Exchanging(d)' => Exchanging(d) /\ call'[d].pair = call[d].pair
  BY DEF Exchanging, Harmless
<1> QED
  BY <1>2, <1>3, Quiet

-----------------------------------------------------------------------------
(* The steps of the API that leave the tokens alone                        *)

LEMMA ServerQuiet ==
  ASSUME IInv, NEW c \in Calls,
         \/ FindAccount(c) \/ CheckEmail(c) \/ CreateAccount(c)
         \/ CheckSession(c) \/ Authenticate(c) \/ Serve(c) \/ StepUp(c) \/ DeleteAccount(c) \/ RevokeSession(c)
  PROVE  IInv'
<1> USE DEF IInv, STypeOK, server, Places, Answers, SignIns, Guarded
<1>1. CASE FindAccount(c)
  <2>1. PICK a \in {"admitted", "denied"} : Reply(c, a)
    BY <1>1 DEF FindAccount
  <2> QED BY <1>1, <2>1, ReplyEffect, QuietReply DEF FindAccount
<1>2. CASE CheckEmail(c)
  <2>1. PICK a \in {"unregistered", "denied"} : Reply(c, a)
    BY <1>2 DEF CheckEmail
  <2> QED BY <1>2, <2>1, ReplyEffect, QuietReply DEF CheckEmail
<1>3. CASE CreateAccount(c)
  <2>1. PICK a \in {"admitted", "denied"} : Reply(c, a)
    BY <1>3 DEF CreateAccount
  <2> QED BY <1>3, <2>1, ReplyEffect, QuietReply DEF CreateAccount
<1>4. CASE CheckSession(c)
  <2>1. PICK a \in {"opened", "denied"} : Reply(c, a)
    BY <1>4 DEF CheckSession
  <2> QED BY <1>4, <2>1, ReplyEffect, QuietReply DEF CheckSession, Exchanging
<1>5. CASE Authenticate(c)
  <2>1. PICK a \in {"admitted", "denied"} : Reply(c, a)
    BY <1>5 DEF Authenticate
  <2> QED BY <1>5, <2>1, ReplyEffect, QuietReply DEF Authenticate
<1>6. CASE Serve(c)
  BY <1>6, ReplyEffect, QuietReply DEF Serve
<1>7. CASE StepUp(c)
  <2>1. PICK a \in {"opened", "failed"} : Reply(c, a)
    BY <1>7 DEF StepUp
  <2> QED BY <1>7, <2>1, ReplyEffect, QuietReply DEF StepUp
<1>8. CASE DeleteAccount(c)
  BY <1>8, ReplyEffect, QuietReply DEF DeleteAccount
<1>9. CASE RevokeSession(c)
  BY <1>9, ReplyEffect, QuietReply DEF RevokeSession
<1> QED
  BY <1>1, <1>2, <1>3, <1>4, <1>5, <1>6, <1>7, <1>8, <1>9

\* A step that moves a sign-in to a place with a row.
LEMMA SignInQuiet ==
  ASSUME IInv, NEW c \in Calls, FindRow(c) \/ TrackSession(c)
  PROVE  IInv'
<1> USE DEF IInv, STypeOK, server
<1>1. PICK a \in {"found", "opened"}, s \in Rows \cup {0} :
        /\ call' = [call EXCEPT ![c].at = a, ![c].row = s]
        /\ a = "opened" => s \in Rows
  BY DEF FindRow, TrackSession
<1>2. /\ call[c].kind \in SignIns
      /\ pair' = pair /\ tab' = tab /\ account' = account /\ expired' = expired /\ cut' = cut /\ left' = left
  BY DEF FindRow, TrackSession
<1>3. session' \in [Rows -> {"none", "open", "revoked"}]
  BY DEF FindRow, TrackSession
<1>4. /\ call' \in [Calls -> CallStates]
      /\ \A d \in Calls : d # c => call'[d] = call[d]
      /\ call'[c].kind = call[c].kind /\ call'[c].pair = call[c].pair
      /\ call'[c].at = a /\ call'[c].row = s
  BY <1>1 DEF CallStates, Places
<1>5. STypeOK'
  BY <1>2, <1>3, <1>4
<1>6. Issued' = Issued
  BY <1>2 DEF Issued
<1>7. TabsHoldIssued'
  BY <1>2, <1>6 DEF TabsHoldIssued
<1>8. \A d \in Calls : Sound(d)'
  BY <1>1, <1>2, <1>4, <1>6 DEF Sound
<1>9. \A d \in Calls : Exchanging(d)' => Exchanging(d) /\ call'[d].pair = call[d].pair
  BY <1>2, <1>4 DEF Exchanging, SignIns
<1> QED
  BY <1>2, <1>5, <1>7, <1>8, <1>9, Quiet

-----------------------------------------------------------------------------
(* The steps of the API that change a token                                *)

LEMMA TokenSpent ==
  ASSUME IInv, NEW p \in Issued, NEW v \in {"revoked", "deleted"},
         pair' = [pair EXCEPT ![p].token = v]
  PROVE  /\ pair' \in [Pairs -> PairDocs]
         /\ Issued' = Issued
         /\ Spent(p)'
         /\ \A q \in Pairs : Spent(q) => Spent(q)'
         /\ \A q \in Pairs : NoHeir(q)' <=> NoHeir(q)
         /\ HeirsOfSpent'
<1>1. p \in Pairs /\ pair[p].token # "none" /\ pair \in [Pairs -> PairDocs]
  BY DEF Issued, IInv, STypeOK
<1>2. pair[p] \in [row : Rows, parent : Pairs \cup {0}, token : {"active", "revoked", "deleted"}]
  BY <1>1 DEF PairDocs, NoPair
<1>3. /\ pair' \in [Pairs -> PairDocs]
      /\ pair'[p].token = v
      /\ \A q \in Pairs : q # p => pair'[q] = pair[q]
      /\ \A q \in Pairs : pair'[q].parent = pair[q].parent
  BY <1>1, <1>2 DEF PairDocs
<1>4. Issued' = Issued
  BY <1>1, <1>3 DEF Issued
<1>5. Spent(p)' /\ \A q \in Pairs : Spent(q) => Spent(q)'
  BY <1>1, <1>3 DEF Spent
<1>6. \A q \in Pairs : NoHeir(q)' <=> NoHeir(q)
  BY <1>3 DEF NoHeir
<1>7. \A q \in Pairs : pair[q].parent \in Pairs \cup {0}
  BY <1>1 DEF PairDocs, NoPair
<1>8. HeirsOfSpent'
  BY <1>3, <1>5, <1>7 DEF IInv, HeirsOfSpent, Spent
<1> QED
  BY <1>3, <1>4, <1>5, <1>6, <1>8

\* A request may begin to exchange a token only if the token was active: nobody
\* else exchanges it then, and it has no heir.
LEMMA ConsumeInv ==
  ASSUME IInv, NEW c \in Calls, ConsumeRefreshToken(c)
  PROVE  IInv'
<1>1. PICK p \in Issued : call[c].pair = p /\ call[c].kind = "refresh" /\ call[c].at = "sent"
  BY DEF ConsumeRefreshToken, Arrived, IInv, Sound
<1>2. UNCHANGED <<account, session, expired, tab, cut, left>>
  BY DEF ConsumeRefreshToken
<1>3. CASE pair[p].token = "active"
  <2>1. pair' = [pair EXCEPT ![p].token = "revoked"] /\ Reply(c, "consumed")
    BY <1>1, <1>3 DEF ConsumeRefreshToken
  <2>2. /\ pair' \in [Pairs -> PairDocs]
        /\ Issued' = Issued
        /\ Spent(p)'
        /\ \A q \in Pairs : Spent(q) => Spent(q)'
        /\ \A q \in Pairs : NoHeir(q)' <=> NoHeir(q)
        /\ HeirsOfSpent'
    BY <1>1, <2>1, TokenSpent
  <2>3. /\ call' \in [Calls -> CallStates]
        /\ \A d \in Calls :
             /\ call'[d].kind = call[d].kind
             /\ call'[d].pair = call[d].pair
             /\ call'[d].row = call[d].row
             /\ call'[d].at = IF d = c THEN "consumed" ELSE call[d].at
    BY <2>1, ReplyEffect DEF IInv, Places
  <2>4. STypeOK'
    BY <1>2, <2>2, <2>3 DEF IInv, STypeOK
  <2>5. p \in Pairs /\ NoHeir(p) /\ ~Spent(p)
    BY <1>1, <1>3, ZeroIsNoPair DEF NoHeir, IInv, HeirsOfSpent, Spent, Issued
  <2>6. \A d \in Calls : Sound(d)'
    BY <2>2, <2>3 DEF IInv, Sound
  <2>7. TabsHoldIssued'
    BY <1>2, <2>2 DEF IInv, TabsHoldIssued
  <2>8. \A d \in Calls : Exchanging(d)' => d = c \/ Exchanging(d)
    BY <2>3 DEF Exchanging
  <2>9. \A d \in Calls : Exchanging(d) =>
          /\ call[d].pair # p /\ call[d].pair \in Pairs
          /\ Spent(call[d].pair) /\ NoHeir(call[d].pair)
    BY <2>5 DEF IInv, ExchangesOfSpent, Sound, Exchanging, Issued
  <2>10. ExchangesOfSpent'
    <3> SUFFICES ASSUME NEW d \in Calls, Exchanging(d)'
                 PROVE  (Spent(call[d].pair) /\ NoHeir(call[d].pair))'
      BY DEF ExchangesOfSpent
    <3>1. /\ call'[d].pair \in Pairs
          /\ NoHeir(call[d].pair)
          /\ call[d].pair = p \/ Spent(call[d].pair)
      BY <1>1, <2>3, <2>5, <2>8, <2>9
    <3> DEFINE q == call[d].pair
    <3>2. q \in Pairs /\ call'[d].pair = q
      BY <2>3, <3>1
    <3>3. pair'[q].token \in {"revoked", "deleted"}
      BY <2>2, <3>1, <3>2 DEF Spent
    <3>4. \A r \in Pairs : pair'[r].parent # q
      BY <2>2, <3>1, <3>2 DEF NoHeir
    <3> QED BY <3>2, <3>3, <3>4 DEF Spent, NoHeir
  <2>11. ExchangesDiffer'
    BY <1>1, <2>3, <2>8, <2>9 DEF IInv, ExchangesDiffer
  <2> QED BY <2>2, <2>4, <2>6, <2>7, <2>10, <2>11 DEF IInv
<1>4. CASE pair[p].token # "active"
  <2>1. pair' = pair /\ Reply(c, "denied")
    BY <1>1, <1>4 DEF ConsumeRefreshToken
  <2> QED BY <1>1, <1>2, <2>1, ReplyEffect, QuietReply DEF IInv, STypeOK, Places, Answers, SignIns
<1> QED BY <1>3, <1>4

LEMMA DeleteInv ==
  ASSUME IInv, NEW c \in Calls, DeleteRefreshToken(c)
  PROVE  IInv'
<1> DEFINE p == call[c].pair
<1>1. /\ call[c].kind = "logout"
      /\ pair' = [pair EXCEPT ![p].token = "deleted"]
      /\ Reply(c, "found")
      /\ UNCHANGED <<account, session, expired, tab, cut, left>>
  BY DEF DeleteRefreshToken
<1>2. p \in Issued \cup {0}
  BY DEF IInv, Sound
<1>3. /\ call' \in [Calls -> CallStates]
      /\ \A d \in Calls :
           /\ call'[d].kind = call[d].kind
           /\ call'[d].pair = call[d].pair
           /\ call'[d].row = call[d].row
           /\ call'[d].at = IF d = c THEN "found" ELSE call[d].at
  BY <1>1, ReplyEffect DEF IInv, Places
<1>4. CASE p = 0
  <2>1. pair' = pair
    BY <1>1, <1>4, ZeroIsNoPair DEF IInv, STypeOK
  <2> QED BY <1>1, <1>3, <2>1, QuietReply DEF IInv, STypeOK, Places, SignIns
<1>5. CASE p \in Issued
  <2>1. /\ pair' \in [Pairs -> PairDocs]
        /\ Issued' = Issued
        /\ \A q \in Pairs : Spent(q) => Spent(q)'
        /\ \A q \in Pairs : NoHeir(q)' <=> NoHeir(q)
        /\ HeirsOfSpent'
    BY <1>1, <1>5, TokenSpent
  <2>2. STypeOK'
    BY <1>1, <1>3, <2>1 DEF IInv, STypeOK
  <2>3. \A d \in Calls : Sound(d)'
    BY <1>1, <1>3, <2>1 DEF IInv, Sound, SignIns
  <2>4. TabsHoldIssued'
    BY <1>1, <2>1 DEF IInv, TabsHoldIssued
  <2>5. \A d \in Calls : Exchanging(d)' => Exchanging(d)
    BY <1>1, <1>3 DEF Exchanging
  <2>6. \A d \in Calls : Exchanging(d) =>
          call[d].pair \in Pairs /\ Spent(call[d].pair) /\ NoHeir(call[d].pair)
    BY DEF IInv, ExchangesOfSpent, Sound, Exchanging, Issued
  <2>7. ExchangesOfSpent'
    <3> SUFFICES ASSUME NEW d \in Calls, Exchanging(d)'
                 PROVE  (Spent(call[d].pair) /\ NoHeir(call[d].pair))'
      BY DEF ExchangesOfSpent
    <3> DEFINE q == call[d].pair
    <3>1. q \in Pairs /\ call'[d].pair = q /\ Spent(q) /\ NoHeir(q)
      BY <1>3, <2>5, <2>6
    <3>2. pair'[q].token \in {"revoked", "deleted"} /\ \A r \in Pairs : pair'[r].parent # q
      BY <2>1, <3>1 DEF Spent, NoHeir
    <3> QED BY <3>1, <3>2 DEF Spent, NoHeir
  <2>8. ExchangesDiffer'
    BY <1>3, <2>5 DEF IInv, ExchangesDiffer
  <2> QED BY <2>1, <2>2, <2>3, <2>4, <2>7, <2>8 DEF IInv
<1> QED BY <1>2, <1>4, <1>5

\* A pair is issued to a sign-in, or to the one request that exchanges its parent.
LEMMA IssueInv ==
  ASSUME IInv, NEW c \in Calls, NEW s \in Rows, NEW parent \in Pairs \cup {0},
         IssuePair(c, s, parent), UNCHANGED <<account, session, expired, tab, cut, left>>,
         parent # 0 => Exchanging(c) /\ call[c].pair = parent
  PROVE  IInv'
<1>1. PICK p \in Pairs \ Issued :
        /\ pair' = [pair EXCEPT ![p] = [row |-> s, parent |-> parent, token |-> "active"]]
        /\ call' = [call EXCEPT ![c].at = "ok", ![c].pair = p]
  BY DEF IssuePair
<1>2. /\ pair' \in [Pairs -> PairDocs]
      /\ pair'[p] = [row |-> s, parent |-> parent, token |-> "active"]
      /\ \A q \in Pairs : q # p => pair'[q] = pair[q]
      /\ pair[p].token = "none"
  BY <1>1 DEF IInv, STypeOK, PairDocs, Issued
<1>3. /\ call' \in [Calls -> CallStates]
      /\ \A d \in Calls : d # c => call'[d] = call[d]
      /\ call'[c].at = "ok" /\ call'[c].pair = p
      /\ call'[c].kind = call[c].kind /\ call'[c].row = call[c].row
  <2> DEFINE moved == [call[c] EXCEPT !.at = "ok", !.pair = p]
  <2>1. call \in [Calls -> CallStates]
    BY DEF IInv, STypeOK
  <2>2. /\ moved \in CallStates /\ moved.at = "ok" /\ moved.pair = p
        /\ moved.kind = call[c].kind /\ moved.row = call[c].row
    BY <2>1 DEF CallStates, Places, Answers
  <2>3. call' = [call EXCEPT ![c] = moved]
    BY <1>1
  <2> HIDE DEF moved
  <2> QED BY <2>1, <2>2, <2>3
<1>4. STypeOK'
  BY <1>2, <1>3 DEF IInv, STypeOK
<1>5. Issued' = Issued \cup {p}
  BY <1>1, <1>2 DEF Issued
<1>6. \A d \in Calls : Sound(d)'
  BY <1>1, <1>3, <1>5, ZeroIsNoPair DEF IInv, Sound
<1>7. TabsHoldIssued'
  BY <1>5 DEF IInv, TabsHoldIssued
<1>8. parent # 0 => parent \in Pairs /\ Spent(parent) /\ NoHeir(parent)
  BY DEF IInv, ExchangesOfSpent
<1>9. \A d \in Calls : Exchanging(d)' => d # c /\ Exchanging(d) /\ call'[d].pair = call[d].pair
  BY <1>3 DEF Exchanging
<1>10. \A d \in Calls : Exchanging(d) =>
         call[d].pair \in Pairs /\ Spent(call[d].pair) /\ NoHeir(call[d].pair)
  BY DEF IInv, ExchangesOfSpent, Sound, Exchanging, Issued
<1>11. ExchangesOfSpent'
  <2> SUFFICES ASSUME NEW d \in Calls, Exchanging(d)'
               PROVE  (Spent(call[d].pair) /\ NoHeir(call[d].pair))'
    BY DEF ExchangesOfSpent
  <2>1. PICK q \in Pairs : call[d].pair = q /\ call'[d].pair = q /\ Spent(q) /\ NoHeir(q) /\ d # c /\ Exchanging(d)
    BY <1>9, <1>10
  <2>2. q # parent
    BY <2>1, ZeroIsNoPair DEF IInv, ExchangesDiffer
  <2>3. q # p
    BY <1>2, <2>1 DEF Spent
  <2>4. pair'[q].token \in {"revoked", "deleted"}
    BY <1>2, <2>1, <2>3 DEF Spent
  <2>5. \A r \in Pairs : pair'[r].parent # q
    BY <1>2, <2>1, <2>2 DEF NoHeir
  <2> QED BY <2>1, <2>4, <2>5 DEF Spent, NoHeir
<1>12. ExchangesDiffer'
  BY <1>9 DEF IInv, ExchangesDiffer
<1>13. HeirsOfSpent'
  <2> SUFFICES ASSUME NEW q \in Pairs, pair'[q].parent # 0
               PROVE  pair'[pair'[q].parent].token \in {"revoked", "deleted"}
    BY DEF HeirsOfSpent, Spent
  <2>1. PICK r \in Pairs : pair'[q].parent = r /\ Spent(r)
    <3>1. CASE q = p
      BY <1>2, <1>8, <3>1
    <3>2. CASE q # p
      BY <1>2, <3>2 DEF IInv, HeirsOfSpent, STypeOK, PairDocs, NoPair
    <3> QED BY <3>1, <3>2
  <2>2. r # p
    BY <1>2, <2>1 DEF Spent
  <2> QED BY <1>2, <2>1, <2>2 DEF Spent
<1> QED
  BY <1>4, <1>6, <1>7, <1>11, <1>12, <1>13 DEF IInv

LEMMA StartSessionInv ==
  ASSUME IInv, NEW c \in Calls, StartSession(c)
  PROVE  IInv'
<1>1. call[c].row \in Rows
  BY DEF StartSession, IInv, Sound
<1> QED
  BY <1>1, IssueInv DEF StartSession

LEMMA RotateInv ==
  ASSUME IInv, NEW c \in Calls, Rotate(c)
  PROVE  IInv'
<1>1. Exchanging(c) /\ call[c].pair \in Issued
  BY DEF Rotate, Exchanging, IInv, Sound
<1>2. call[c].pair \in Pairs /\ pair[call[c].pair].row \in Rows
  BY <1>1 DEF Issued, IInv, STypeOK, PairDocs, NoPair
<1> QED
  BY <1>1, <1>2, IssueInv DEF Rotate

-----------------------------------------------------------------------------
(* The steps of the tabs and of the environment                            *)

LEMMA SpendEffect ==
  ASSUME STypeOK, NEW e \in Events \ {"any"}, Spend(e)
  PROVE  left' \in [Events -> Nat]
  BY DEF STypeOK, Spend, Events

LEMMA NewRequest ==
  ASSUME IInv, NEW k \in Kinds, NEW t \in Tabs \cup {NoTab}, NEW p \in Issued \cup {0},
         k = "refresh" => p # 0,
         NEW s, call' = [call EXCEPT ![s] = Request(k, t, p)]
  PROVE  call' \in [Calls -> CallStates] /\ \A d \in Calls : Harmless(d)
<1> DEFINE r == Request(k, t, p)
<1>1. r \in CallStates /\ r.kind = k /\ r.at = "sent" /\ r.pair = p
  BY RequestIs DEF Issued
<1> HIDE DEF r
<1>2. call' = [call EXCEPT ![s] = r] /\ call \in [Calls -> CallStates]
  BY DEF IInv, STypeOK, r
<1>3. \A d \in Calls : call'[d] \in {call[d], r}
  BY <1>2
<1>4. \A d \in Calls : Harmless(d)
  BY <1>1, <1>3 DEF Harmless
<1> QED
  BY <1>1, <1>2, <1>4

LEMMA MovedRequest ==
  ASSUME IInv, NEW c \in Calls, NEW a \in Places \ {"consumed", "opened"},
         call' = [call EXCEPT ![c].at = a] \/ call' = [call EXCEPT ![c] = NoCall]
  PROVE  call' \in [Calls -> CallStates] /\ \A d \in Calls : Harmless(d)
<1> DEFINE moved == [call[c] EXCEPT !.at = a]
<1>1. call \in [Calls -> CallStates] /\ Sound(c)
  BY DEF IInv, STypeOK
<1>2. moved \in CallStates /\ moved.at = a /\ moved.kind = call[c].kind /\ moved.pair = call[c].pair
  BY <1>1 DEF CallStates
<1> HIDE DEF moved
<1>3. call' = [call EXCEPT ![c] = moved] \/ call' = [call EXCEPT ![c] = NoCall]
  BY DEF moved
<1>4. \A d \in Calls : call'[d] = call[d] \/ call'[d] = NoCall \/ (d = c /\ call'[d] = moved)
  BY <1>1, <1>3
<1>5. \A d \in Calls : Harmless(d)
  BY <1>1, <1>2, <1>4, NoCallIs DEF Harmless, Sound
<1> QED
  BY <1>1, <1>2, <1>3, <1>5, NoCallIs

LEMMA SubmitInv ==
  ASSUME IInv, NEW t \in Tabs, Login(t) \/ Register(t)
  PROVE  IInv'
<1>1. PICK k \in SignIns : Submit(t, k)
  BY DEF Login, Register, SignIns
<1>2. /\ call' = [call EXCEPT ![Slot] = Request(k, t, 0)]
      /\ Spend("signIn") /\ UNCHANGED <<server, expired, tab, cut>>
  BY <1>1 DEF Submit
<1>3. k \in Kinds /\ k # "refresh"
  BY DEF SignIns, Kinds
<1>4. call' \in [Calls -> CallStates] /\ \A d \in Calls : Harmless(d)
  BY <1>2, <1>3, NewRequest
<1>5. left' \in [Events -> Nat]
  BY <1>2, SpendEffect DEF IInv, Events
<1>6. STypeOK'
  BY <1>2, <1>4, <1>5 DEF IInv, STypeOK, server
<1>7. TabsHoldIssued'
  BY <1>2 DEF IInv, TabsHoldIssued, Issued, server
<1> QED
  BY <1>2, <1>4, <1>6, <1>7, QuietClient DEF server

LEMMA AskInv ==
  ASSUME IInv, NEW t \in Tabs, Fetch(t) \/ AskDeletion(t)
  PROVE  IInv'
<1>1. PICK k \in {"get", "me", "delete"} : Ask(t, k)
  BY DEF Fetch, AskDeletion
<1>2. /\ call' = [call EXCEPT ![Slot] = Request(k, t, tab[t].access)]
      /\ UNCHANGED <<server, expired, tab, cut>>
  BY <1>1 DEF Ask
<1>3. tab[t].access \in Issued \cup {0}
  BY DEF IInv, TabsHoldIssued
<1>4. call' \in [Calls -> CallStates] /\ \A d \in Calls : Harmless(d)
  BY <1>2, <1>3, NewRequest DEF Kinds
<1>5. left' \in [Events -> Nat]
  BY SpendEffect DEF IInv, STypeOK, Events, Fetch, AskDeletion
<1>6. STypeOK'
  BY <1>2, <1>4, <1>5 DEF IInv, STypeOK, server
<1>7. TabsHoldIssued'
  BY <1>2 DEF IInv, TabsHoldIssued, Issued, server
<1> QED
  BY <1>2, <1>4, <1>6, <1>7, QuietClient DEF server

LEMMA ClearedTab ==
  ASSUME IInv, NEW t \in Tabs, pair' = pair, tab' = ClearSession(t)
  PROVE  tab' \in [Tabs -> TabStates] /\ TabsHoldIssued'
  BY DEF IInv, STypeOK, TabsHoldIssued, ClearSession, SignedOut, TabStates, Issued

\* logout() sends at most one request, with the pair the tab holds.
LEMMA LogoutEffect ==
  ASSUME IInv, NEW t \in Tabs, NEW s \in [Calls -> CallStates],
         \A d \in Calls : s[d] = call[d] \/ s[d] = NoCall,
         LogoutFrom(t, s), pair' = pair
  PROVE  /\ tab' \in [Tabs -> TabStates] /\ TabsHoldIssued'
         /\ call' \in [Calls -> CallStates] /\ \A d \in Calls : Harmless(d)
<1>1. tab' = ClearSession(t)
  BY DEF LogoutFrom
<1> DEFINE r == Request("logout", t, tab[t].access)
<1>2. tab[t].access \in Issued \cup {0}
  BY DEF IInv, TabsHoldIssued
<1>3. r \in CallStates /\ r.kind = "logout" /\ r.at = "sent" /\ r.pair = tab[t].access
  BY <1>2, RequestIs DEF Issued, Kinds
<1>4. PICK c : call' = s \/ call' = [s EXCEPT ![c] = r]
  BY DEF LogoutFrom
<1> HIDE DEF r
<1>5. call' \in [Calls -> CallStates] /\ \A d \in Calls : call'[d] \in {call[d], NoCall, r}
  BY <1>3, <1>4
<1>6. \A d \in Calls : Harmless(d)
  BY <1>2, <1>3, <1>5, NoCallIs DEF Harmless
<1> QED
  BY <1>1, <1>5, <1>6, ClearedTab

LEMMA SignOutInv ==
  ASSUME IInv, NEW t \in Tabs, SignOut(t)
  PROVE  IInv'
<1>1. LogoutFrom(t, call) /\ Spend("signOut") /\ UNCHANGED <<server, expired, cut>>
  BY DEF SignOut
<1>2. /\ tab' \in [Tabs -> TabStates] /\ TabsHoldIssued'
      /\ call' \in [Calls -> CallStates] /\ \A d \in Calls : Harmless(d)
  BY <1>1, LogoutEffect DEF IInv, STypeOK, server
<1>3. left' \in [Events -> Nat]
  BY <1>1, SpendEffect DEF IInv, Events
<1> QED
  BY <1>1, <1>2, <1>3, QuietClient DEF IInv, STypeOK, server

LEMMA LoginAnswerInv ==
  ASSUME IInv, NEW c \in Calls, LoginAnswer(c)
  PROVE  IInv'
<1>1. PICK t \in Tabs, p \in Issued \cup {0} : call[c].tab = t /\ call[c].pair = p
  BY DEF LoginAnswer, Answered, IInv, Sound
<1>2. UNCHANGED <<server, expired, cut, left>>
  BY DEF LoginAnswer
<1>3. CASE call[c].at = "ok"
  <2>1. tab' = Save(t, p) /\ call' = [call EXCEPT ![c] = Request("meLogin", t, p)]
    BY <1>1, <1>3 DEF LoginAnswer
  <2>2. "meLogin" \in Kinds /\ "meLogin" # "refresh"
    BY DEF Kinds
  <2>3. call' \in [Calls -> CallStates] /\ \A d \in Calls : Harmless(d)
    BY <1>1, <2>1, <2>2, NewRequest
  <2>4. p \in Pairs \cup {0} /\ Issued' = Issued
    BY <1>2 DEF Issued, server
  <2>5. /\ tab' \in [Tabs -> TabStates]
        /\ \A u \in Tabs : tab'[u].access \in {tab[u].access, p} /\ tab'[u].refresh \in {tab[u].refresh, p}
    BY <2>1, <2>4 DEF IInv, STypeOK, TabStates, Save
  <2>6. TabsHoldIssued'
    BY <2>4, <2>5 DEF IInv, TabsHoldIssued
  <2> QED BY <1>2, <2>3, <2>5, <2>6, QuietClient DEF IInv, STypeOK, server
<1>4. CASE call[c].at # "ok"
  <2>1. tab' = tab /\ call' = [call EXCEPT ![c] = NoCall]
    BY <1>1, <1>4 DEF LoginAnswer, End
  <2>2. "idle" \in Places \ {"consumed", "opened"}
    BY DEF Places
  <2>3. call' \in [Calls -> CallStates] /\ \A d \in Calls : Harmless(d)
    BY <2>1, <2>2, MovedRequest
  <2>4. TabsHoldIssued'
    BY <1>2, <2>1 DEF IInv, TabsHoldIssued, Issued, server
  <2> QED BY <1>2, <2>1, <2>3, <2>4, QuietClient DEF IInv, STypeOK, server
<1> QED BY <1>3, <1>4

\* Every answer and event that ends a request or lets it wait.
LEMMA EndInv ==
  ASSUME IInv, NEW c \in Calls, NEW a \in Places \ {"consumed", "opened"},
         call' = [call EXCEPT ![c].at = a] \/ call' = [call EXCEPT ![c] = NoCall],
         tab' \in [Tabs -> TabStates], TabsHoldIssued', left' \in [Events -> Nat], cut' \subseteq Tabs,
         UNCHANGED <<server, expired>>
  PROVE  IInv'
<1>1. call' \in [Calls -> CallStates] /\ \A d \in Calls : Harmless(d)
  BY MovedRequest
<1> QED
  BY <1>1, QuietClient DEF IInv, STypeOK, server

LEMMA UnchangedTab ==
  ASSUME IInv, tab' = tab, UNCHANGED server
  PROVE  tab' \in [Tabs -> TabStates] /\ TabsHoldIssued'
  BY DEF IInv, STypeOK, TabsHoldIssued, Issued, server

LEMMA ProfileAnswerInv ==
  ASSUME IInv, NEW c \in Calls, ProfileAnswer(c)
  PROVE  IInv'
<1>1. PICK t \in Tabs : call[c].tab = t
  BY DEF ProfileAnswer, Answered
<1>2. tab' = [tab EXCEPT ![t].status = "authenticated"]
  BY <1>1 DEF ProfileAnswer
<1>3. /\ tab' \in [Tabs -> TabStates]
      /\ \A u \in Tabs : tab'[u].access = tab[u].access /\ tab'[u].refresh = tab[u].refresh
  BY <1>2 DEF IInv, STypeOK, TabStates
<1>4. TabsHoldIssued'
  BY <1>3 DEF ProfileAnswer, IInv, TabsHoldIssued, Issued, server
<1>5. "idle" \in Places \ {"consumed", "opened"}
  BY DEF Places
<1> QED
  BY <1>3, <1>4, <1>5, EndInv DEF ProfileAnswer, End, IInv, STypeOK

LEMMA OtherAnswerInv ==
  ASSUME IInv, NEW c \in Calls, OtherAnswer(c)
  PROVE  IInv'
<1>1. PICK t \in Tabs : call[c].tab = t
  BY DEF OtherAnswer, Answered
<1>2. tab' = tab \/ tab' = ClearSession(t)
  BY <1>1 DEF OtherAnswer
<1>3. tab' \in [Tabs -> TabStates] /\ TabsHoldIssued'
  BY <1>2, ClearedTab, UnchangedTab DEF OtherAnswer, server
<1>4. "idle" \in Places \ {"consumed", "opened"}
  BY DEF Places
<1> QED
  BY <1>3, <1>4, EndInv DEF OtherAnswer, End, IInv, STypeOK

LEMMA DropInv ==
  ASSUME IInv, NEW c \in Calls, Drop(c) \/ Lose(c)
  PROVE  IInv'
<1>1. tab' = tab /\ UNCHANGED <<server, expired>>
  BY DEF Drop, Lose
<1>2. tab' \in [Tabs -> TabStates] /\ TabsHoldIssued'
  BY <1>1, UnchangedTab
<1>3. left' \in [Events -> Nat]
  BY SpendEffect DEF Drop, Lose, IInv, STypeOK, Events
<1>4. cut' \subseteq Tabs
  BY DEF Drop, Lose, IInv, STypeOK
<1>5. "failed" \in Places \ {"consumed", "opened"}
  BY DEF Places, Answers
<1>6. call' = [call EXCEPT ![c].at = "failed"] \/ call' = [call EXCEPT ![c] = NoCall]
  BY DEF Drop, Lose, End, Reply
<1> QED
  BY <1>1, <1>2, <1>3, <1>4, <1>5, <1>6, EndInv

LEMMA DeletionAnswerInv ==
  ASSUME IInv, NEW c \in Calls, DeletionAnswer(c)
  PROVE  IInv'
<1> DEFINE s == [call EXCEPT ![c] = NoCall]
<1>1. PICK t \in Tabs : call[c].tab = t
  BY DEF DeletionAnswer, Answered
<1>2. s \in [Calls -> CallStates] /\ \A d \in Calls : s[d] = call[d] \/ s[d] = NoCall
  BY NoCallIs DEF IInv, STypeOK
<1>3. LogoutFrom(t, s) /\ UNCHANGED <<server, expired, cut, left>>
  BY <1>1 DEF DeletionAnswer
<1> HIDE DEF s
<1>4. /\ tab' \in [Tabs -> TabStates] /\ TabsHoldIssued'
      /\ call' \in [Calls -> CallStates] /\ \A d \in Calls : Harmless(d)
  BY <1>2, <1>3, LogoutEffect DEF server
<1> QED
  BY <1>3, <1>4, QuietClient DEF IInv, STypeOK, server

LEMMA ExpireInv == ASSUME IInv, Expire PROVE IInv'
<1>1. UNCHANGED <<server, tab, call, cut>> /\ expired' \subseteq Pairs
  BY DEF Expire, IInv, STypeOK, Issued
<1>2. left' \in [Events -> Nat]
  BY SpendEffect DEF Expire, IInv, Events
<1>3. \A d \in Calls : Harmless(d)
  BY <1>1 DEF Harmless
<1> QED
  BY <1>1, <1>2, <1>3, UnchangedTab, QuietClient DEF IInv, STypeOK, server

\* A 401: the request waits, for a refresh under way or for a new one.
LEMMA UnauthorizedInv ==
  ASSUME IInv, NEW c \in Calls, Unauthorized(c)
  PROVE  IInv'
<1>1. PICK t \in Tabs : call[c].tab = t
  BY DEF Unauthorized, Answered
<1>2. UNCHANGED <<server, expired, cut, left>>
  BY DEF Unauthorized
<1>3. "waiting" \in Places \ {"consumed", "opened"}
  BY DEF Places
<1>4. PICK p \in Issued \cup {0} : tab[t].refresh = p
  BY DEF IInv, TabsHoldIssued
<1> DEFINE r == Request("refresh", t, p)
<1>5. CASE p # 0 /\ tab' = tab /\ call' = [call EXCEPT ![c].at = "waiting", ![Slot] = r]
  <2> DEFINE moved == [call[c] EXCEPT !.at = "waiting"]
  <2>1. call \in [Calls -> CallStates] /\ Sound(c)
    BY DEF IInv, STypeOK
  <2>2. moved \in CallStates /\ moved.at = "waiting" /\ moved.kind = call[c].kind /\ moved.pair = call[c].pair
    BY <1>3, <2>1 DEF CallStates
  <2>3. r \in CallStates /\ r.kind = "refresh" /\ r.at = "sent" /\ r.pair = p
    BY RequestIs DEF Kinds, Issued
  <2> HIDE DEF r
  <2>4. /\ call' \in [Calls -> CallStates]
        /\ \A d \in Calls : call'[d] \in {call[d], r} \/ (d = c /\ call'[d] = moved)
    BY <1>5, <2>1, <2>2, <2>3
  <2> HIDE DEF moved
  <2>5. \A d \in Calls : Harmless(d)
    BY <1>5, <2>1, <2>2, <2>3, <2>4 DEF Harmless, Sound
  <2> QED BY <1>2, <1>5, <2>4, <2>5, UnchangedTab, QuietClient DEF IInv, STypeOK, server
<1>6. CASE tab' = tab /\ call' = [call EXCEPT ![c].at = "waiting"]
  BY <1>2, <1>3, <1>6, UnchangedTab, EndInv DEF IInv, STypeOK
<1>7. CASE tab' = ClearSession(t) /\ call' = [call EXCEPT ![c] = NoCall]
  BY <1>2, <1>3, <1>7, ClearedTab, EndInv DEF IInv, STypeOK, server
<1> QED
  BY <1>1, <1>4, <1>5, <1>6, <1>7 DEF Unauthorized, End

\* The answer to a refresh: requests that waited are sent again with its pair.
LEMMA RefreshAnswerInv ==
  ASSUME IInv, NEW c \in Calls, RefreshAnswer(c)
  PROVE  IInv'
<1>1. PICK t \in Tabs, p \in Issued \cup {0} : call[c].tab = t /\ call[c].pair = p
  BY DEF RefreshAnswer, Answered, IInv, Sound
<1>2. UNCHANGED <<server, expired, cut, left>>
  BY DEF RefreshAnswer
<1> DEFINE waits(d) == call[d].tab = t /\ call[d].at = "waiting"
<1>3. CASE call[c].at = "ok"
  <2> DEFINE again(d) == [Request(call[d].kind, t, p) EXCEPT !.again = TRUE]
             initial == tab[t].status = "initializing"
             first == Request("meInit", t, p)
  <2>1. /\ tab' = Save(t, p)
        /\ call' = [d \in Calls |-> IF d = c THEN IF initial THEN first ELSE NoCall
                                    ELSE IF waits(d) THEN again(d) ELSE call[d]]
    BY <1>1, <1>3 DEF RefreshAnswer
  <2>2. first \in CallStates /\ first.kind = "meInit" /\ first.at = "sent" /\ first.pair = p
    BY RequestIs DEF Kinds, Issued
  <2>3. ASSUME NEW d \in Calls
        PROVE  /\ again(d) \in CallStates /\ again(d).kind = call[d].kind
               /\ again(d).at = "sent" /\ again(d).pair = p
    <3>1. call[d] \in CallStates
      BY DEF IInv, STypeOK
    <3>2. call[d].kind \in Kinds /\ p \in Pairs \cup {0}
      BY <3>1 DEF CallStates, Issued
    <3> DEFINE r == Request(call[d].kind, t, p)
    <3>3. r \in CallStates /\ r.kind = call[d].kind /\ r.at = "sent" /\ r.pair = p
      BY <3>2, RequestIs
    <3> HIDE DEF r
    <3>4. /\ [r EXCEPT !.again = TRUE] \in CallStates
          /\ [r EXCEPT !.again = TRUE].kind = r.kind
          /\ [r EXCEPT !.again = TRUE].at = r.at
          /\ [r EXCEPT !.again = TRUE].pair = r.pair
      BY <3>3 DEF CallStates
    <3> QED BY <3>3, <3>4 DEF r
  <2>4. call[c].kind = "refresh" => p # 0
    BY <1>1 DEF IInv, Sound
  <2>5. call[c].kind = "refresh"
    BY DEF RefreshAnswer, Answered
  <2> HIDE DEF first, again, initial
  <2>6. call' \in [Calls -> CallStates]
    BY <2>1, <2>2, <2>3, NoCallIs DEF IInv, STypeOK
  <2>7. \A d \in Calls : Harmless(d)
    BY <2>1, <2>2, <2>3, <2>4, <2>5, NoCallIs DEF Harmless
  <2>8. p \in Pairs \cup {0} /\ Issued' = Issued
    BY <1>2 DEF Issued, server
  <2>9. /\ tab' \in [Tabs -> TabStates]
        /\ \A u \in Tabs : tab'[u].access \in {tab[u].access, p} /\ tab'[u].refresh \in {tab[u].refresh, p}
    BY <2>1, <2>8 DEF IInv, STypeOK, TabStates, Save
  <2>10. TabsHoldIssued'
    BY <2>8, <2>9 DEF IInv, TabsHoldIssued
  <2> QED BY <1>2, <2>6, <2>7, <2>9, <2>10, QuietClient DEF IInv, STypeOK, server
<1>4. CASE call[c].at # "ok"
  <2>1. /\ tab' = tab \/ tab' = ClearSession(t)
        /\ call' = [d \in Calls |-> IF d = c \/ waits(d) THEN NoCall ELSE call[d]]
    BY <1>1, <1>4 DEF RefreshAnswer
  <2>2. call' \in [Calls -> CallStates] /\ \A d \in Calls : Harmless(d)
    BY <2>1, NoCallIs DEF IInv, STypeOK, Harmless
  <2>3. tab' \in [Tabs -> TabStates] /\ TabsHoldIssued'
    BY <1>2, <2>1, ClearedTab, UnchangedTab DEF server
  <2> QED BY <1>2, <2>2, <2>3, QuietClient DEF IInv, STypeOK, server
<1> QED BY <1>3, <1>4

\* A reload orphans the requests under way; the API goes on with them.
LEMMA ReloadInv ==
  ASSUME IInv, NEW t \in Tabs, Reload(t)
  PROVE  IInv'
<1> DEFINE kept == [c \in Calls |-> IF call[c].tab # t THEN call[c]
                                   ELSE IF call[c].at \in Answers \cup {"waiting"} THEN NoCall
                                   ELSE [call[c] EXCEPT !.tab = NoTab]]
           r == Request("refresh", t, tab[t].refresh)
<1>1. /\ tab' = [tab EXCEPT ![t].access = 0,
                            ![t].status = IF tab[t].refresh = 0 THEN "anonymous" ELSE "initializing"]
      /\ call' = IF tab[t].refresh = 0 THEN kept ELSE [kept EXCEPT ![Slot] = r]
      /\ cut' = cut \/ cut' = cut \cup {t}
      /\ Spend("reload") /\ UNCHANGED <<server, expired>>
  BY DEF Reload
<1>2. /\ kept \in [Calls -> CallStates]
      /\ \A d \in Calls :
           \/ kept[d] = NoCall
           \/ /\ kept[d].kind = call[d].kind /\ kept[d].at = call[d].at
              /\ kept[d].pair = call[d].pair /\ kept[d].row = call[d].row
  BY NoCallIs DEF IInv, STypeOK, CallStates
<1>3. tab[t].refresh \in Issued \cup {0}
  BY DEF IInv, TabsHoldIssued
<1>4. r \in CallStates /\ r.kind = "refresh" /\ r.at = "sent" /\ r.pair = tab[t].refresh
  BY <1>3, RequestIs DEF Kinds, Issued
<1> HIDE DEF kept, r
<1>5. /\ call' \in [Calls -> CallStates]
      /\ \A d \in Calls : call'[d] = kept[d] \/ (tab[t].refresh # 0 /\ call'[d] = r)
  BY <1>1, <1>2, <1>4
<1>6. \A d \in Calls : Harmless(d)
  BY <1>2, <1>3, <1>4, <1>5, NoCallIs DEF Harmless
<1>7. /\ tab' \in [Tabs -> TabStates]
      /\ \A u \in Tabs : tab'[u].access \in {tab[u].access, 0} /\ tab'[u].refresh = tab[u].refresh
  BY <1>1 DEF IInv, STypeOK, TabStates
<1>8. TabsHoldIssued'
  BY <1>1, <1>7 DEF IInv, TabsHoldIssued, Issued, server
<1>9. left' \in [Events -> Nat]
  BY <1>1, SpendEffect DEF IInv, Events
<1> QED
  BY <1>1, <1>5, <1>6, <1>7, <1>8, <1>9, QuietClient DEF IInv, STypeOK, server

-----------------------------------------------------------------------------
(* The invariant, and the refinement                                       *)

LEMMA StepInv == IInv /\ [Next]_vars => IInv'
<1> SUFFICES ASSUME IInv, [Next]_vars PROVE IInv'
  OBVIOUS
<1>1. ASSUME NEW c \in Calls, ServerStep(c) PROVE IInv'
  BY <1>1, ServerQuiet, SignInQuiet, ConsumeInv, DeleteInv, StartSessionInv, RotateInv DEF ServerStep
<1>2. ASSUME NEW c \in Calls, ClientStep(c) \/ Drop(c) \/ Lose(c) PROVE IInv'
  BY <1>2, LoginAnswerInv, UnauthorizedInv, RefreshAnswerInv, ProfileAnswerInv, OtherAnswerInv,
     DeletionAnswerInv, DropInv DEF ClientStep
<1>3. ASSUME NEW t \in Tabs, Login(t) \/ Register(t) \/ Fetch(t) \/ AskDeletion(t) \/ SignOut(t) \/ Reload(t)
      PROVE  IInv'
  BY <1>3, SubmitInv, AskInv, SignOutInv, ReloadInv
<1>4. CASE UNCHANGED vars
  BY <1>4 DEF vars, IInv, STypeOK, Sound, TabsHoldIssued, ExchangesOfSpent, ExchangesDiffer, HeirsOfSpent,
     Exchanging, Spent, NoHeir, Issued
<1> QED
  BY <1>1, <1>2, <1>3, <1>4, ExpireInv DEF Next

\* Every row, token and request stays one the schemas and the code know, whatever
\* overlaps (models/userSession.ts, models/refreshToken.ts).
THEOREM SessionTypes == Spec => []STypeOK
<1>1. Spec => []IInv
  BY InitInv, StepInv, PTL DEF Spec
<1>2. IInv => STypeOK
  BY DEF IInv
<1> QED
  BY <1>1, <1>2, PTL

LEMMA SameTokens ==
  ASSUME pair' = pair
  PROVE  UNCHANGED <<Issued, Live, Heirs>>
  BY DEF Issued, Live, Heirs

\* A token of the API that is presented or deleted is a token retired.
LEMMA TokenRetires ==
  ASSUME IInv, NEW p \in Issued, NEW v \in {"revoked", "deleted"},
         pair' = [pair EXCEPT ![p].token = v]
  PROVE  /\ UNCHANGED <<Issued, Heirs>>
         /\ Live' = Live \ {p}
<1>1. p \in Pairs /\ pair \in [Pairs -> PairDocs] /\ pair[p].token # "none"
  BY DEF Issued, IInv, STypeOK
<1>2. pair[p] \in [row : Rows, parent : Pairs \cup {0}, token : {"active", "revoked", "deleted"}]
  BY <1>1 DEF PairDocs, NoPair
<1>3. /\ pair'[p].token = v
      /\ \A q \in Pairs : q # p => pair'[q] = pair[q]
      /\ \A q \in Pairs : pair'[q].parent = pair[q].parent
  BY <1>1, <1>2 DEF PairDocs
<1>4. Issued' = Issued
  BY <1>1, <1>3 DEF Issued
<1>5. Live' = Live \ {p}
  BY <1>1, <1>3 DEF Live
<1>6. \A q \in Pairs : {r \in Issued : pair'[r].parent = q} = {r \in Issued : pair[r].parent = q}
  BY <1>3 DEF Issued
<1>7. Heirs' = Heirs
  BY <1>4, <1>6 DEF Heirs
<1> QED
  BY <1>4, <1>5, <1>7

LEMMA TokenIssues ==
  ASSUME IInv, NEW c \in Calls, NEW s \in Rows, NEW parent \in Pairs \cup {0}, IssuePair(c, s, parent)
  PROVE  \E p \in Pairs \ Issued :
           /\ Issued' = Issued \cup {p} /\ Live' = Live \cup {p}
           /\ Heirs' = [q \in Pairs |-> IF q = parent THEN Heirs[q] \cup {p} ELSE Heirs[q]]
<1>1. PICK p \in Pairs \ Issued :
        pair' = [pair EXCEPT ![p] = [row |-> s, parent |-> parent, token |-> "active"]]
  BY DEF IssuePair
<1>2. /\ pair'[p] = [row |-> s, parent |-> parent, token |-> "active"]
      /\ \A q \in Pairs : q # p => pair'[q] = pair[q]
  BY <1>1 DEF IInv, STypeOK
<1>3. Issued' = Issued \cup {p}
  BY <1>1, <1>2 DEF Issued
<1>4. Live' = Live \cup {p}
  BY <1>1, <1>2 DEF Live
<1>5. \A q \in Pairs : {r \in Issued' : pair'[r].parent = q} =
        IF q = parent THEN {r \in Issued : pair[r].parent = q} \cup {p} ELSE {r \in Issued : pair[r].parent = q}
  BY <1>1, <1>2, <1>3 DEF Issued
<1>6. Heirs' = [q \in Pairs |-> IF q = parent THEN Heirs[q] \cup {p} ELSE Heirs[q]]
  BY <1>5 DEF Heirs
<1> QED
  BY <1>1, <1>3, <1>4, <1>6

LEMMA PairSteps ==
  ASSUME [Next]_vars
  PROVE  \/ pair' = pair
         \/ \E c \in Calls : ConsumeRefreshToken(c) \/ DeleteRefreshToken(c) \/ StartSession(c) \/ Rotate(c)
<1>1. ASSUME NEW c \in Calls, ClientStep(c) \/ Drop(c) \/ Lose(c) PROVE pair' = pair
  BY <1>1 DEF ClientStep, LoginAnswer, Unauthorized, RefreshAnswer, ProfileAnswer, OtherAnswer,
     DeletionAnswer, Drop, Lose, server
<1>2. ASSUME NEW t \in Tabs, Login(t) \/ Register(t) \/ Fetch(t) \/ AskDeletion(t) \/ SignOut(t) \/ Reload(t)
      PROVE  pair' = pair
  BY <1>2 DEF Login, Register, Submit, Fetch, AskDeletion, Ask, SignOut, Reload, server
<1>3. ASSUME NEW c \in Calls, ServerStep(c)
      PROVE  pair' = pair \/ ConsumeRefreshToken(c) \/ DeleteRefreshToken(c) \/ StartSession(c) \/ Rotate(c)
  BY <1>3 DEF ServerStep, FindAccount, CheckEmail, CreateAccount, FindRow, TrackSession, CheckSession,
     Authenticate, Serve, StepUp, DeleteAccount, RevokeSession, server
<1>4. Expire => pair' = pair
  BY DEF Expire, server
<1> QED
  BY <1>1, <1>2, <1>3, <1>4 DEF Next, vars

LEMMA StepRotates ==
  ASSUME IInv, [Next]_vars
  PROVE  [Rotation!RNext]_<<Issued, Live, Heirs>>
<1>1. ASSUME NEW c \in Calls, ConsumeRefreshToken(c) PROVE [Rotation!RNext]_<<Issued, Live, Heirs>>
  <2>1. PICK p \in Issued : call[c].pair = p
    BY <1>1 DEF ConsumeRefreshToken, Arrived, IInv, Sound
  <2>2. CASE pair[p].token = "active"
    <3>1. pair' = [pair EXCEPT ![p].token = "revoked"]
      BY <1>1, <2>1, <2>2 DEF ConsumeRefreshToken
    <3>2. p \in Pairs /\ p \in Live
      BY <2>2 DEF Live, Issued
    <3> QED BY <3>1, <3>2, TokenRetires DEF Rotation!RNext, Rotation!Retire
  <2>3. CASE pair[p].token # "active"
    BY <1>1, <2>1, <2>3, SameTokens DEF ConsumeRefreshToken
  <2> QED BY <2>2, <2>3
<1>2. ASSUME NEW c \in Calls, DeleteRefreshToken(c) PROVE [Rotation!RNext]_<<Issued, Live, Heirs>>
  <2>1. PICK p \in Issued \cup {0} : call[c].pair = p
    BY DEF IInv, Sound
  <2>2. pair' = [pair EXCEPT ![p].token = "deleted"]
    BY <1>2, <2>1 DEF DeleteRefreshToken
  <2>3. CASE p = 0
    BY <2>2, <2>3, ZeroIsNoPair, SameTokens DEF IInv, STypeOK
  <2>4. CASE p \in Issued
    <3>1. UNCHANGED <<Issued, Heirs>> /\ Live' = Live \ {p} /\ p \in Pairs
      BY <2>2, <2>4, TokenRetires DEF Issued
    <3>2. CASE p \in Live
      BY <3>1, <3>2 DEF Rotation!RNext, Rotation!Retire
    <3>3. CASE p \notin Live
      BY <3>1, <3>3
    <3> QED BY <3>2, <3>3
  <2> QED BY <2>1, <2>3, <2>4
<1>3. ASSUME NEW c \in Calls, StartSession(c) PROVE [Rotation!RNext]_<<Issued, Live, Heirs>>
  <2>1. call[c].row \in Rows /\ IssuePair(c, call[c].row, 0)
    BY <1>3 DEF StartSession, IInv, Sound
  <2>2. PICK p \in Pairs \ Issued :
          /\ Issued' = Issued \cup {p} /\ Live' = Live \cup {p}
          /\ Heirs' = [q \in Pairs |-> IF q = 0 THEN Heirs[q] \cup {p} ELSE Heirs[q]]
    BY <2>1, TokenIssues
  <2>3. Heirs' = Heirs
    BY <2>2, ZeroIsNoPair DEF Heirs
  <2> QED BY <2>2, <2>3 DEF Rotation!RNext, Rotation!Issue
<1>4. ASSUME NEW c \in Calls, Rotate(c) PROVE [Rotation!RNext]_<<Issued, Live, Heirs>>
  <2>1. PICK old \in Pairs : /\ call[c].pair = old /\ old \in Issued /\ Spent(old) /\ NoHeir(old)
                             /\ pair[old].row \in Rows
    <3>1. Exchanging(c) /\ call[c].pair \in Issued
      BY <1>4 DEF Rotate, Exchanging, IInv, Sound
    <3> QED BY <3>1 DEF Issued, IInv, STypeOK, PairDocs, NoPair, ExchangesOfSpent
  <2>2. IssuePair(c, pair[old].row, old)
    BY <1>4, <2>1 DEF Rotate
  <2>3. PICK p \in Pairs \ Issued :
          /\ Issued' = Issued \cup {p} /\ Live' = Live \cup {p}
          /\ Heirs' = [q \in Pairs |-> IF q = old THEN Heirs[q] \cup {p} ELSE Heirs[q]]
    BY <2>1, <2>2, TokenIssues
  <2>4. Heirs[old] = {}
    BY <2>1 DEF Heirs, NoHeir, Issued
  <2>5. Heirs' = [Heirs EXCEPT ![old] = {p}]
    BY <2>3, <2>4 DEF Heirs
  <2>6. old \in Issued \ Live
    BY <2>1 DEF Live, Spent
  <2> QED BY <2>3, <2>4, <2>5, <2>6 DEF Rotation!RNext, Rotation!Replace
<1>5. CASE pair' = pair
  BY <1>5, SameTokens
<1>6. \/ pair' = pair
      \/ \E c \in Calls : ConsumeRefreshToken(c) \/ DeleteRefreshToken(c) \/ StartSession(c) \/ Rotate(c)
  BY PairSteps
<1> QED
  BY <1>1, <1>2, <1>3, <1>4, <1>5, <1>6

\* Sessions implements TokenRotation: a refresh token is exchanged at most once and
\* never becomes live again, for any number of tabs, requests, rows and pairs
\* (AuthService.ts:128).
THEOREM SessionsImplementRotation == Spec => ImplementsRotation
<1>1. Init => Rotation!RInit
  <2> SUFFICES ASSUME Init PROVE Rotation!RInit
    OBVIOUS
  <2>1. \A p \in Pairs : pair[p] = NoPair
    BY DEF Init
  <2>2. Issued = {} /\ Live = {}
    BY <2>1 DEF Issued, Live, NoPair
  <2>3. Heirs = [p \in Pairs |-> {}]
    BY <2>2 DEF Heirs
  <2> QED BY <2>2, <2>3 DEF Rotation!RInit
<1>2. Spec => []IInv
  BY InitInv, StepInv, PTL DEF Spec
<1>3. IInv /\ [Next]_vars => [Rotation!RNext]_<<Issued, Live, Heirs>>
  BY StepRotates
<1> QED
  BY <1>1, <1>2, <1>3, PTL DEF Spec, ImplementsRotation, Rotation!RSpec

-----------------------------------------------------------------------------
(* Who holds a token that can still be exchanged                           *)
(*                                                                         *)
(* While nobody signs out and no answer to a refresh is missed, a token is *)
(* in one place at a time: in one tab, in the one refresh that tab sent    *)
(* and still to be consumed, or in an answer under way. Two holders of one *)
(* token would be refused one after the other; that they never come about  *)
(* needs the invariant to follow the token through all of them.            *)

Undisturbed == cut = {} /\ left["signOut"] = Budget["signOut"] /\ account # "deleted"

Presents(c) == Arrived(c, "refresh")
Carries(c) == call[c].kind \in SignIns \cup {"refresh"} /\ call[c].at = "ok"
Bearer(c) == Presents(c) \/ Carries(c)
Admitted(c) == call[c].kind \in SignIns /\ call[c].at \in {"admitted", "found", "opened"}

\* Pairs and admitted sign-ins are those of an account.
Registered == account = "none" => Issued = {} /\ \A c \in Calls : ~Admitted(c)

NobodyLeaves ==
    /\ \A c \in Calls : call[c].kind # "logout" /\ ~(call[c].kind = "delete" /\ call[c].at = "ok")
    /\ \A s \in Rows : session[s] # "revoked"

RefreshesGoOn ==
    \A c \in Calls : call[c].kind = "refresh" =>
        call[c].tab \in Tabs /\ call[c].at \in {"sent", "consumed", "opened", "ok"}

TokensAreGood ==
    /\ \A c \in Calls : Bearer(c) => call[c].pair \in Live
    /\ \A t \in Tabs : RefreshesOf(t) = {} /\ tab[t].refresh # 0 => tab[t].refresh \in Live

OneHolderEach ==
    /\ \A c, d \in Calls : Bearer(c) /\ Bearer(d) /\ call[c].pair = call[d].pair => c = d
    /\ \A t, u \in Tabs : tab[t].refresh = tab[u].refresh /\ tab[t].refresh # 0 => t = u
    /\ \A c \in Calls, t \in Tabs :
          Bearer(c) /\ tab[t].refresh = call[c].pair => Presents(c) /\ call[c].tab = t

Served == NobodyLeaves /\ RefreshesGoOn /\ TokensAreGood /\ OneHolderEach

SignedInInv ==
    /\ Registered
    /\ left["signOut"] <= Budget["signOut"]
    /\ Undisturbed => Served

\* The request takes no token, and gives none to anybody.
Tame(d) ==
    /\ call'[d].kind = "logout" => call[d].kind = "logout"
    /\ call'[d].kind = "delete" /\ call'[d].at = "ok" => call[d].kind = "delete" /\ call[d].at = "ok"
    /\ call'[d].kind = "refresh" <=> call[d].kind = "refresh"
    /\ call'[d].kind = "refresh" => call'[d].tab = call[d].tab /\ call'[d].at \in {call[d].at, "opened"}
    /\ Presents(d)' => Presents(d) /\ call'[d].pair = call[d].pair
    /\ Carries(d)' => Carries(d) /\ call'[d].pair = call[d].pair

LEMMA TameStep ==
  ASSUME IInv, Served, pair' = pair, \A d \in Calls : Tame(d),
         \A s \in Rows : session'[s] = "revoked" => session[s] = "revoked",
         \A u \in Tabs : tab'[u].refresh \in {tab[u].refresh, 0}
  PROVE  Served'
<1>1. Live' = Live /\ 0 \notin Live
  BY ZeroIsNoPair DEF Live
<1>2. NobodyLeaves'
  BY DEF Served, NobodyLeaves, Tame
<1>3. RefreshesGoOn'
  BY DEF Served, RefreshesGoOn, Tame
<1>4. \A d \in Calls : Bearer(d)' => Bearer(d) /\ call'[d].pair = call[d].pair /\ call[d].pair \in Live
  BY DEF Served, TokensAreGood, Tame, Bearer
<1>5. \A t \in Tabs : RefreshesOf(t)' = {} => RefreshesOf(t) = {}
  BY DEF Tame, RefreshesOf
<1>6. TokensAreGood'
  BY <1>1, <1>4, <1>5 DEF Served, TokensAreGood
<1>7. \A c, d \in Calls : Bearer(c)' /\ Bearer(d)' /\ call'[c].pair = call'[d].pair => c = d
  BY <1>4 DEF Served, OneHolderEach
<1>8. \A t, u \in Tabs : tab'[t].refresh = tab'[u].refresh /\ tab'[t].refresh # 0 => t = u
  BY DEF Served, OneHolderEach
<1>9. ASSUME NEW c \in Calls, NEW t \in Tabs, Bearer(c)', tab'[t].refresh = call'[c].pair
      PROVE  Presents(c)' /\ call'[c].tab = t
  <2>1. Bearer(c) /\ call'[c].pair = call[c].pair /\ tab'[t].refresh = tab[t].refresh
    BY <1>1, <1>4, <1>9
  <2>2. Presents(c) /\ call[c].tab = t
    BY <1>9, <2>1 DEF Served, OneHolderEach
  <2>3. Tame(c) /\ call[c].kind = "refresh" /\ call[c].at = "sent"
    BY <2>2 DEF Presents, Arrived
  <2>4. ~Carries(c)'
    BY <2>3 DEF Tame, Carries
  <2> QED BY <1>9, <2>2, <2>3, <2>4 DEF Tame, Bearer
<1> QED
  BY <1>2, <1>3, <1>6, <1>7, <1>8, <1>9 DEF Served, OneHolderEach

\* A tab with no refresh under way presents the token it holds.
LEMMA RefreshStarts ==
  ASSUME IInv, Served, UNCHANGED <<pair, session>>, NEW t \in Tabs, NEW n \in Calls,
         RefreshesOf(t) = {}, tab[t].refresh # 0,
         \A d \in Calls \ {n} : Tame(d),
         call[n].kind # "refresh",
         call'[n].kind = "refresh", call'[n].tab = t, call'[n].at = "sent", call'[n].pair = tab[t].refresh,
         \A u \in Tabs : tab'[u].refresh = tab[u].refresh
  PROVE  Served'
<1>1. Live' = Live /\ 0 \notin Live
  BY ZeroIsNoPair DEF Live
<1>2. NobodyLeaves'
  BY DEF Served, NobodyLeaves, Tame
<1>3. RefreshesGoOn'
  BY DEF Served, RefreshesGoOn, Tame
<1>4. \A d \in Calls \ {n} : Bearer(d)' => Bearer(d) /\ call'[d].pair = call[d].pair /\ call[d].pair \in Live
  BY DEF Served, TokensAreGood, Tame, Bearer
<1>5. \A u \in Tabs : RefreshesOf(u)' = {} => RefreshesOf(u) = {}
  BY DEF Tame, RefreshesOf
<1>6. Presents(n)' /\ ~Carries(n)' /\ tab[t].refresh \in Live
  BY DEF Presents, Arrived, Carries, Served, TokensAreGood
<1>7. TokensAreGood'
  BY <1>1, <1>4, <1>5, <1>6 DEF Served, TokensAreGood
<1>8. \A d \in Calls : Bearer(d) => call[d].pair # tab[t].refresh
  BY DEF Served, OneHolderEach, Presents, Arrived, RefreshesOf
<1>9. \A c, d \in Calls : Bearer(c)' /\ Bearer(d)' /\ call'[c].pair = call'[d].pair => c = d
  BY <1>4, <1>8 DEF Served, OneHolderEach
<1>10. \A u, v \in Tabs : tab'[u].refresh = tab'[v].refresh /\ tab'[u].refresh # 0 => u = v
  BY DEF Served, OneHolderEach
<1>11. ASSUME NEW c \in Calls, NEW u \in Tabs, Bearer(c)', tab'[u].refresh = call'[c].pair
       PROVE  Presents(c)' /\ call'[c].tab = u
  <2>1. CASE c = n
    BY <1>6, <1>11, <2>1 DEF Served, OneHolderEach
  <2>2. CASE c # n
    <3>1. Presents(c) /\ call[c].tab = u
      BY <1>4, <1>11, <2>2 DEF Served, OneHolderEach
    <3>2. Tame(c) /\ call[c].kind = "refresh" /\ call[c].at = "sent"
      BY <2>2, <3>1 DEF Presents, Arrived
    <3>3. ~Carries(c)'
      BY <3>2 DEF Tame, Carries
    <3> QED BY <1>11, <3>1, <3>2, <3>3 DEF Tame, Bearer
  <2> QED BY <2>1, <2>2
<1> QED
  BY <1>2, <1>3, <1>7, <1>9, <1>10, <1>11 DEF Served, OneHolderEach

\* A tab saves the pair it is sent.
LEMMA PairSaved ==
  ASSUME IInv, Served, UNCHANGED <<pair, session>>, NEW t \in Tabs, NEW c \in Calls,
         Carries(c), call[c].tab = t,
         \A d \in Calls \ {c} : Tame(d),
         call'[c].kind \in {"none", "meLogin", "meInit"},
         tab'[t].refresh = call[c].pair,
         \A u \in Tabs \ {t} : tab'[u].refresh = tab[u].refresh
  PROVE  Served'
<1> DEFINE p == call[c].pair
<1>1. Live' = Live /\ 0 \notin Live /\ p \in Live
  BY ZeroIsNoPair DEF Live, Served, TokensAreGood, Bearer
<1>2. NobodyLeaves'
  BY DEF Served, NobodyLeaves, Tame
<1>3. RefreshesGoOn'
  BY DEF Served, RefreshesGoOn, Tame
<1>4. \A d \in Calls : Bearer(d)' => d # c /\ Bearer(d) /\ call'[d].pair = call[d].pair /\ call[d].pair \in Live
  BY DEF Served, TokensAreGood, Tame, Bearer, Presents, Arrived, Carries, SignIns
<1>5. \A u \in Tabs \ {t} : RefreshesOf(u)' = {} => RefreshesOf(u) = {}
  BY DEF Tame, RefreshesOf
<1>6. TokensAreGood'
  BY <1>1, <1>4, <1>5 DEF Served, TokensAreGood
<1>7. \A d \in Calls : Bearer(d)' => call[d].pair # p
  BY <1>4 DEF Served, OneHolderEach, Bearer
<1>8. \A u \in Tabs : tab[u].refresh # p
  <2>1. ~Presents(c) /\ Bearer(c)
    BY DEF Presents, Arrived, Carries, Bearer
  <2> QED BY <2>1 DEF Served, OneHolderEach
<1>9. \A d, e \in Calls : Bearer(d)' /\ Bearer(e)' /\ call'[d].pair = call'[e].pair => d = e
  BY <1>4 DEF Served, OneHolderEach
<1>10. \A u, v \in Tabs : tab'[u].refresh = tab'[v].refresh /\ tab'[u].refresh # 0 => u = v
  BY <1>8 DEF Served, OneHolderEach
<1>11. ASSUME NEW d \in Calls, NEW u \in Tabs, Bearer(d)', tab'[u].refresh = call'[d].pair
       PROVE  Presents(d)' /\ call'[d].tab = u
  <2>1. d # c /\ u # t
    BY <1>4, <1>7, <1>11
  <2>2. Presents(d) /\ call[d].tab = u
    BY <1>4, <1>11, <2>1 DEF Served, OneHolderEach
  <2>3. Tame(d) /\ call[d].kind = "refresh" /\ call[d].at = "sent"
    BY <2>1, <2>2 DEF Presents, Arrived
  <2>4. ~Carries(d)'
    BY <2>3 DEF Tame, Carries
  <2> QED BY <1>11, <2>2, <2>3, <2>4 DEF Tame, Bearer
<1> QED
  BY <1>2, <1>3, <1>6, <1>9, <1>10, <1>11 DEF Served, OneHolderEach

\* A new pair is in the one answer that brings it.
LEMMA PairIssued ==
  ASSUME IInv, Served, NEW c \in Calls, NEW s, NEW parent, IssuePair(c, s, parent), UNCHANGED <<session, tab>>,
         call[c].kind \in SignIns \cup {"refresh"}
  PROVE  Served'
<1>1. PICK p \in Pairs \ Issued :
        /\ pair' = [pair EXCEPT ![p] = [row |-> s, parent |-> parent, token |-> "active"]]
        /\ call' = [call EXCEPT ![c].at = "ok", ![c].pair = p]
  BY DEF IssuePair
<1>2. Live' = Live \cup {p} /\ 0 \notin Live' /\ p # 0
  BY <1>1, ZeroIsNoPair DEF Live, IInv, STypeOK
<1>3. /\ \A d \in Calls : d # c => call'[d] = call[d]
      /\ call'[c].at = "ok" /\ call'[c].pair = p
      /\ call'[c].kind = call[c].kind /\ call'[c].tab = call[c].tab
  BY <1>1 DEF IInv, STypeOK, CallStates
<1>4. NobodyLeaves'
  BY <1>3 DEF Served, NobodyLeaves, SignIns
<1>5. RefreshesGoOn'
  BY <1>3 DEF Served, RefreshesGoOn
<1>6. Carries(c)' /\ ~Presents(c)'
  BY <1>3 DEF Carries, Presents, Arrived
<1>7. \A d \in Calls \ {c} : (Bearer(d)' <=> Bearer(d)) /\ (Presents(d)' <=> Presents(d))
  BY <1>3 DEF Bearer, Presents, Carries, Arrived
<1>8. \A t \in Tabs : RefreshesOf(t)' = {} => RefreshesOf(t) = {}
  BY <1>3 DEF RefreshesOf
<1>9. TokensAreGood'
  BY <1>2, <1>3, <1>7, <1>8 DEF Served, TokensAreGood
<1>10. \A d \in Calls \ {c} : Bearer(d) => call[d].pair # p
  BY <1>1 DEF Served, TokensAreGood, Live, Issued
<1>11. \A t \in Tabs : tab[t].refresh # p
  BY <1>1, <1>2 DEF IInv, TabsHoldIssued
<1> QED
  BY <1>3, <1>4, <1>5, <1>6, <1>7, <1>9, <1>10, <1>11 DEF Served, OneHolderEach

\* A token that is presented is good, and nobody else holds it once it is not.
LEMMA TokenConsumed ==
  ASSUME IInv, Served, NEW c \in Calls, ConsumeRefreshToken(c)
  PROVE  Served'
<1> DEFINE p == call[c].pair
<1>1. Presents(c) /\ Bearer(c) /\ ~Carries(c) /\ p \in Live /\ call[c].tab \in Tabs
  BY DEF ConsumeRefreshToken, Presents, Bearer, Carries, Served, TokensAreGood, RefreshesGoOn, Arrived
<1>2. pair' = [pair EXCEPT ![p].token = "revoked"] /\ Reply(c, "consumed") /\ UNCHANGED <<session, tab>>
  BY <1>1 DEF ConsumeRefreshToken, Live
<1>3. /\ call' \in [Calls -> CallStates]
      /\ \A d \in Calls :
           /\ call'[d].kind = call[d].kind
           /\ call'[d].pair = call[d].pair
           /\ call'[d].tab = call[d].tab
           /\ call'[d].row = call[d].row
           /\ call'[d].at = IF d = c THEN "consumed" ELSE call[d].at
  BY <1>2, ReplyEffect DEF IInv, Places
<1>4. Live' = Live \ {p}
  BY <1>1, <1>2, TokenRetires DEF Live, Issued
<1>5. NobodyLeaves'
  BY <1>2, <1>3 DEF Served, NobodyLeaves
<1>6. RefreshesGoOn'
  BY <1>3 DEF Served, RefreshesGoOn
<1>7. \A d \in Calls : Bearer(d)' => d # c /\ Bearer(d) /\ call[d].pair # p
  BY <1>1, <1>3 DEF Bearer, Presents, Carries, Arrived, Served, OneHolderEach
<1>8. \A d \in Calls \ {c} : Presents(d)' <=> Presents(d)
  BY <1>3 DEF Presents, Arrived
<1>9. \A t \in Tabs : RefreshesOf(t)' = RefreshesOf(t)
  BY <1>3 DEF RefreshesOf
<1>10. \A t \in Tabs : RefreshesOf(t) = {} => tab[t].refresh # p
  BY <1>1 DEF Served, OneHolderEach, RefreshesOf, Presents, Arrived
<1>11. TokensAreGood'
  BY <1>2, <1>3, <1>4, <1>7, <1>9, <1>10 DEF Served, TokensAreGood
<1> QED
  BY <1>2, <1>3, <1>5, <1>6, <1>7, <1>8, <1>11 DEF Served, OneHolderEach

-----------------------------------------------------------------------------
(* The steps, while nobody leaves                                          *)

LEMMA ReplyTame ==
  ASSUME IInv, NEW c \in Calls, NEW a \in Places \ {"sent"}, Reply(c, a),
         call[c].kind = "refresh" => a = "opened",
         a = "ok" => call[c].kind \notin SignIns \cup {"delete"}
  PROVE  \A d \in Calls : Tame(d)
<1>1. \A d \in Calls :
        /\ call'[d].kind = call[d].kind
        /\ call'[d].pair = call[d].pair
        /\ call'[d].tab = call[d].tab
        /\ call'[d].at = IF d = c THEN a ELSE call[d].at
  BY ReplyEffect DEF IInv
<1> QED
  BY <1>1 DEF Tame, Presents, Carries, Arrived

LEMMA AccountOfToken ==
  ASSUME IInv, Registered, NEW c \in Calls, call[c].kind = "refresh", account # "deleted"
  PROVE  account = "active"
  BY DEF IInv, STypeOK, Registered, Sound

LEMMA ServerServed ==
  ASSUME IInv, Registered, Undisturbed, Served, NEW c \in Calls, ServerStep(c), account' # "deleted"
  PROVE  Served'
<1> USE DEF server, Places, Answers, SignIns, Guarded
<1>1. CASE FindAccount(c)
  <2>1. PICK a \in {"admitted", "denied"} : Reply(c, a)
    BY <1>1 DEF FindAccount
  <2> QED BY <1>1, <2>1, ReplyTame, TameStep DEF FindAccount, Arrived
<1>2. CASE CheckEmail(c)
  <2>1. PICK a \in {"unregistered", "denied"} : Reply(c, a)
    BY <1>2 DEF CheckEmail
  <2> QED BY <1>2, <2>1, ReplyTame, TameStep DEF CheckEmail, Arrived
<1>3. CASE CreateAccount(c)
  <2>1. PICK a \in {"admitted", "denied"} : Reply(c, a)
    BY <1>3 DEF CreateAccount
  <2>2. call[c].kind # "refresh"
    BY <1>3 DEF CreateAccount, Served, RefreshesGoOn
  <2> QED BY <1>3, <2>1, <2>2, ReplyTame, TameStep DEF CreateAccount
<1>4. CASE FindRow(c) \/ TrackSession(c)
  <2>1. PICK a \in {"found", "opened"}, s \in Rows \cup {0} :
          call' = [call EXCEPT ![c].at = a, ![c].row = s]
    BY <1>4 DEF FindRow, TrackSession
  <2>2. /\ \A d \in Calls : d # c => call'[d] = call[d]
        /\ call'[c].at = a /\ call'[c].kind = call[c].kind
    BY <2>1 DEF IInv, STypeOK, CallStates
  <2>3. \A d \in Calls : Tame(d)
    BY <1>4, <2>2 DEF FindRow, TrackSession, Tame, Presents, Carries, Arrived
  <2>4. \A r \in Rows : session'[r] = "revoked" => session[r] = "revoked"
    BY <1>4 DEF FindRow, TrackSession, IInv, STypeOK
  <2> QED BY <1>4, <2>3, <2>4, TameStep DEF FindRow, TrackSession
<1>5. CASE StartSession(c) \/ Rotate(c)
  BY <1>5, PairIssued DEF StartSession, Rotate
<1>6. CASE ConsumeRefreshToken(c)
  BY <1>6, TokenConsumed
<1>7. CASE CheckSession(c)
  <2>1. account = "active"
    BY <1>7, AccountOfToken DEF CheckSession, Undisturbed
  <2>2. pair[call[c].pair].row \in Rows
    BY <1>7 DEF CheckSession, IInv, Sound, Issued, STypeOK, PairDocs, NoPair
  <2>3. Reply(c, "opened")
    BY <1>7, <2>1, <2>2 DEF CheckSession, Served, NobodyLeaves
  <2> QED BY <1>7, <2>3, ReplyTame, TameStep DEF CheckSession
<1>8. CASE Authenticate(c)
  <2>1. PICK a \in {"admitted", "denied"} : Reply(c, a)
    BY <1>8 DEF Authenticate
  <2> QED BY <1>8, <2>1, ReplyTame, TameStep DEF Authenticate
<1>9. CASE Serve(c)
  BY <1>9, ReplyTame, TameStep DEF Serve
<1>10. CASE StepUp(c)
  <2>1. PICK a \in {"opened", "failed"} : Reply(c, a)
    BY <1>10 DEF StepUp
  <2> QED BY <1>10, <2>1, ReplyTame, TameStep DEF StepUp
<1>11. CASE DeleteAccount(c)
  BY <1>11 DEF DeleteAccount
<1>12. CASE DeleteRefreshToken(c) \/ RevokeSession(c)
  BY <1>12 DEF DeleteRefreshToken, RevokeSession, Served, NobodyLeaves
<1> QED
  BY <1>1, <1>2, <1>3, <1>4, <1>5, <1>6, <1>7, <1>8, <1>9, <1>10, <1>11, <1>12 DEF ServerStep

\* A request that ends, fails or waits, and was no refresh.
LEMMA EndTame ==
  ASSUME IInv, NEW c \in Calls, NEW a \in {"waiting", "failed"}, call[c].kind # "refresh",
         call' = [call EXCEPT ![c].at = a] \/ call' = [call EXCEPT ![c] = NoCall]
  PROVE  \A d \in Calls : Tame(d)
<1>1. /\ \A d \in Calls : d # c => call'[d] = call[d]
      /\ call'[c].kind \in {call[c].kind, "none"} /\ call'[c].at \in {a, "idle"}
  BY DEF IInv, STypeOK, CallStates, NoCall
<1> QED
  BY <1>1 DEF Tame, Presents, Carries, Arrived

\* A new request that is neither a refresh nor a sign-out.
LEMMA RequestTame ==
  ASSUME IInv, NEW n, NEW k \in {"login", "register", "get", "me", "delete"}, NEW t, NEW p,
         n \in Calls => call[n].kind # "refresh",
         call' = [call EXCEPT ![n] = Request(k, t, p)]
  PROVE  \A d \in Calls : Tame(d)
<1>1. /\ \A d \in Calls : d # n => call'[d] = call[d]
      /\ n \in Calls => call'[n].kind = k /\ call'[n].at = "sent"
  BY DEF IInv, STypeOK, Request, NoCall
<1> QED
  BY <1>1 DEF Tame, Presents, Carries, Arrived, SignIns

LEMMA IdleIsNoRefresh ==
  ASSUME Served, NEW c \in Calls, call[c].at = "idle"
  PROVE  call[c].kind # "refresh"
  BY DEF Served, RefreshesGoOn

LEMMA SlotIsIdle == Idle # {} => Slot \in Calls /\ call[Slot].at = "idle"
  BY DEF Slot, Idle

\* The room kept for refreshes is a free slot.
LEMMA RoomIsIdle ==
  ASSUME NEW T \in SUBSET Tabs, Cardinality(Idle) > Cardinality(T)
  PROVE  Idle # {}
<1>1. IsFiniteSet(T)
  BY SessionsAssumption, FS_Subset
<1>2. Cardinality(T) \in Nat
  BY <1>1, FS_CardinalityType
<1>3. Cardinality({}) = 0
  BY FS_EmptySet
<1> QED
  BY <1>2, <1>3

LEMMA ClearedRefresh ==
  ASSUME IInv, NEW t \in Tabs, tab' = tab \/ tab' = ClearSession(t)
  PROVE  \A u \in Tabs : tab'[u].refresh \in {tab[u].refresh, 0}
  BY DEF IInv, STypeOK, ClearSession, SignedOut

LEMMA SavedRefresh ==
  ASSUME IInv, NEW t \in Tabs, NEW p, tab' = Save(t, p)
  PROVE  tab'[t].refresh = p /\ \A u \in Tabs \ {t} : tab'[u].refresh = tab[u].refresh
  BY DEF IInv, STypeOK, Save, TabStates

LEMMA LoginAnswerServed ==
  ASSUME IInv, Served, NEW c \in Calls, LoginAnswer(c)
  PROVE  Served'
<1>1. PICK t \in Tabs : call[c].tab = t
  BY DEF LoginAnswer, Answered
<1>2. call[c].kind \in SignIns /\ call[c].kind # "refresh" /\ UNCHANGED <<server, cut>>
  BY DEF LoginAnswer, Answered, SignIns
<1>3. CASE call[c].at = "ok"
  <2>1. tab' = Save(t, call[c].pair) /\ call' = [call EXCEPT ![c] = Request("meLogin", t, call[c].pair)]
    BY <1>1, <1>3 DEF LoginAnswer
  <2>2. call'[c].kind = "meLogin" /\ \A d \in Calls \ {c} : call'[d] = call[d]
    BY <2>1 DEF IInv, STypeOK, Request, NoCall
  <2>3. \A d \in Calls \ {c} : Tame(d)
    BY <2>2 DEF Tame, Presents, Carries, Arrived
  <2>4. Carries(c)
    BY <1>2, <1>3 DEF Carries
  <2> QED BY <1>1, <1>2, <2>1, <2>2, <2>3, <2>4, SavedRefresh, PairSaved DEF server
<1>4. CASE call[c].at # "ok"
  <2>1. tab' = tab /\ call' = [call EXCEPT ![c] = NoCall]
    BY <1>1, <1>4 DEF LoginAnswer, End
  <2> QED BY <1>2, <2>1, EndTame, TameStep DEF server
<1> QED
  BY <1>3, <1>4

LEMMA UnauthorizedServed ==
  ASSUME IInv, Served, NEW c \in Calls, Unauthorized(c)
  PROVE  Served'
<1>1. PICK t \in Tabs : call[c].tab = t
  BY DEF Unauthorized, Answered
<1>2. call[c].kind # "refresh" /\ call[c].at = "denied" /\ UNCHANGED server
  BY DEF Unauthorized, Answered, Guarded
<1>3. CASE tab' = ClearSession(t) /\ call' = [call EXCEPT ![c] = NoCall]
  BY <1>1, <1>2, <1>3, ClearedRefresh, EndTame, TameStep DEF server
<1>4. CASE tab' = tab /\ call' = [call EXCEPT ![c].at = "waiting"]
  BY <1>1, <1>2, <1>4, EndTame, TameStep DEF server
<1>5. CASE /\ tab' = tab /\ tab[t].refresh # 0 /\ RefreshesOf(t) = {} /\ Idle # {}
           /\ call' = [call EXCEPT ![c].at = "waiting", ![Slot] = Request("refresh", t, tab[t].refresh)]
  <2>1. PICK n \in Calls : n = Slot /\ call[n].at = "idle" /\ call[n].kind # "refresh" /\ n # c
    BY <1>2, <1>5, SlotIsIdle, IdleIsNoRefresh
  <2>2. /\ call'[n].kind = "refresh" /\ call'[n].tab = t /\ call'[n].at = "sent" /\ call'[n].pair = tab[t].refresh
        /\ \A d \in Calls \ {n, c} : call'[d] = call[d]
        /\ call'[c].kind = call[c].kind /\ call'[c].at = "waiting"
    BY <1>5, <2>1 DEF IInv, STypeOK, CallStates, Request, NoCall
  <2>3. \A d \in Calls \ {n} : Tame(d)
    BY <1>2, <2>2 DEF Tame, Presents, Carries, Arrived
  <2> QED BY <1>2, <1>5, <2>1, <2>2, <2>3, RefreshStarts DEF server
<1> QED
  BY <1>1, <1>3, <1>4, <1>5 DEF Unauthorized, End

LEMMA RefreshAnswerServed ==
  ASSUME IInv, Served, NEW c \in Calls, RefreshAnswer(c)
  PROVE  Served'
<1>1. PICK t \in Tabs : call[c].tab = t
  BY DEF RefreshAnswer, Answered
<1>2. call[c].kind = "refresh" /\ call[c].at = "ok" /\ UNCHANGED server
  BY DEF RefreshAnswer, Answered, Answers, Served, RefreshesGoOn
<1> DEFINE p == call[c].pair
           waits(d) == call[d].tab = t /\ call[d].at = "waiting"
           first == IF tab[t].status = "initializing" THEN Request("meInit", t, p) ELSE NoCall
           again(d) == [Request(call[d].kind, t, p) EXCEPT !.again = TRUE]
<1>3. /\ tab' = Save(t, p)
      /\ call' = [d \in Calls |-> IF d = c THEN first ELSE IF waits(d) THEN again(d) ELSE call[d]]
  BY <1>1, <1>2 DEF RefreshAnswer
<1>4. first.kind \in {"meInit", "none"} /\ \A d \in Calls : again(d).kind = call[d].kind /\ again(d).at = "sent"
  BY DEF Request, NoCall
<1> HIDE DEF first, again
<1>5. /\ call'[c].kind \in {"meInit", "none"}
      /\ \A d \in Calls \ {c} : \/ call'[d] = call[d]
                                \/ call[d].at = "waiting" /\ call'[d].kind = call[d].kind /\ call'[d].at = "sent"
  BY <1>3, <1>4
<1>6. \A d \in Calls : call[d].at = "waiting" => call[d].kind # "refresh"
  BY DEF Served, RefreshesGoOn
<1>7. \A d \in Calls \ {c} : Tame(d)
  BY <1>5, <1>6 DEF Tame, Presents, Carries, Arrived
<1>8. Carries(c)
  BY <1>2 DEF Carries
<1> QED
  BY <1>1, <1>2, <1>3, <1>5, <1>7, <1>8, SavedRefresh, PairSaved DEF server

LEMMA ClientServed ==
  ASSUME IInv, Served, NEW c \in Calls, ClientStep(c) \/ Drop(c) \/ Lose(c), cut' = {}
  PROVE  Served'
<1>1. CASE LoginAnswer(c) \/ Unauthorized(c) \/ RefreshAnswer(c)
  BY <1>1, LoginAnswerServed, UnauthorizedServed, RefreshAnswerServed
<1>2. CASE ProfileAnswer(c)
  <2>1. \A u \in Tabs : tab'[u].refresh = tab[u].refresh
    BY <1>2 DEF ProfileAnswer, Answered, IInv, STypeOK, TabStates
  <2>2. call[c].kind # "refresh" /\ call' = [call EXCEPT ![c] = NoCall] /\ UNCHANGED server
    BY <1>2 DEF ProfileAnswer, Answered, End
  <2> QED BY <2>1, <2>2, EndTame, TameStep DEF server
<1>3. CASE OtherAnswer(c)
  <2>1. PICK t \in Tabs : call[c].tab = t
    BY <1>3 DEF OtherAnswer, Answered
  <2>2. tab' = tab \/ tab' = ClearSession(t)
    BY <1>3, <2>1 DEF OtherAnswer
  <2>3. call[c].kind # "refresh" /\ call' = [call EXCEPT ![c] = NoCall] /\ UNCHANGED server
    BY <1>3 DEF OtherAnswer, Answered, Guarded, End
  <2> QED BY <2>2, <2>3, ClearedRefresh, EndTame, TameStep DEF server
<1>4. CASE DeletionAnswer(c)
  BY <1>4 DEF DeletionAnswer, Answered, Served, NobodyLeaves
<1>5. CASE Drop(c)
  <2>1. call[c].kind # "refresh"
    BY <1>5, SessionsAssumption DEF Drop, Served, RefreshesGoOn
  <2> QED BY <1>5, <2>1, EndTame, TameStep DEF Drop, End, server
<1>6. CASE Lose(c)
  <2>1. call[c].kind # "refresh"
    BY <1>6 DEF Lose
  <2> QED BY <1>6, <2>1, EndTame, TameStep DEF Lose, Reply, server
<1> QED
  BY <1>1, <1>2, <1>3, <1>4, <1>5, <1>6 DEF ClientStep

\* A reload that cuts off no refresh: the tab presents the token it kept.
LEMMA ReloadServed ==
  ASSUME IInv, Served, NEW t \in Tabs, Reload(t), cut' = {}
  PROVE  Served'
<1>1. RefreshesOf(t) = {} /\ UNCHANGED server
  BY DEF Reload
<1>2. \A u \in Tabs : tab'[u].refresh = tab[u].refresh
  BY DEF Reload, IInv, STypeOK, TabStates
<1> DEFINE kept == [d \in Calls |-> IF call[d].tab # t THEN call[d]
                                   ELSE IF call[d].at \in Answers \cup {"waiting"} THEN NoCall
                                   ELSE [call[d] EXCEPT !.tab = NoTab]]
           r == Request("refresh", t, tab[t].refresh)
<1>3. call' = IF tab[t].refresh = 0 THEN kept ELSE [kept EXCEPT ![Slot] = r]
  BY DEF Reload
<1>4. \A d \in Calls :
        \/ kept[d] = call[d]
        \/ call[d].kind # "refresh" /\ kept[d] = NoCall
        \/ call[d].kind # "refresh" /\ kept[d].kind = call[d].kind /\ kept[d].at = call[d].at /\ kept[d].pair = call[d].pair
  BY <1>1 DEF IInv, STypeOK, CallStates, RefreshesOf
<1>5. kept = [d \in Calls |-> kept[d]]
  OBVIOUS
<1>6. r.kind = "refresh" /\ r.tab = t /\ r.at = "sent" /\ r.pair = tab[t].refresh
  BY DEF Request, NoCall
<1> HIDE DEF kept, r
<1>7. ASSUME NEW d \in Calls, call'[d] = kept[d] PROVE Tame(d)
  BY <1>4, <1>7, NoCallIs DEF Tame, Presents, Carries, Arrived, SignIns
<1>8. CASE tab[t].refresh = 0
  BY <1>1, <1>2, <1>3, <1>7, <1>8, TameStep DEF server
<1>9. CASE tab[t].refresh # 0
  <2>1. Idle # {}
    <3>1. {u \in Tabs \ {t} : RefreshesOf(u) = {}} \in SUBSET Tabs
      OBVIOUS
    <3> QED BY <3>1, RoomIsIdle DEF Reload
  <2>2. PICK n \in Calls : n = Slot /\ call[n].kind # "refresh"
    BY <2>1, SlotIsIdle, IdleIsNoRefresh
  <2>3. call'[n] = r /\ \A d \in Calls \ {n} : call'[d] = kept[d]
    BY <1>3, <1>5, <1>9, <2>2
  <2> QED BY <1>1, <1>2, <1>6, <1>7, <1>9, <2>2, <2>3, RefreshStarts DEF server
<1> QED
  BY <1>8, <1>9

LEMMA TabServed ==
  ASSUME IInv, Served, NEW t \in Tabs,
         Login(t) \/ Register(t) \/ Fetch(t) \/ AskDeletion(t) \/ Reload(t), cut' = {}
  PROVE  Served'
<1>1. CASE Reload(t)
  BY <1>1, ReloadServed
<1>2. CASE ~Reload(t)
  <2>1. PICK k \in {"login", "register", "get", "me", "delete"}, p \in Pairs \cup {0} :
          call' = [call EXCEPT ![Slot] = Request(k, t, p)]
    BY <1>2 DEF Login, Register, Submit, Fetch, AskDeletion, Ask, IInv, STypeOK, TabStates
  <2>2. Room /\ UNCHANGED <<server, tab>>
    BY <1>2 DEF Login, Register, Submit, Fetch, AskDeletion, Ask
  <2>3. Idle # {}
    BY <2>2, RoomIsIdle DEF Room
  <2>4. call[Slot].kind # "refresh"
    BY <2>3, SlotIsIdle, IdleIsNoRefresh
  <2> QED BY <2>1, <2>2, <2>4, RequestTame, TameStep DEF server
<1> QED
  BY <1>1, <1>2

-----------------------------------------------------------------------------
(* An account, once there, stays; what is over stays over                  *)

LEMMA AccountStays ==
  ASSUME STypeOK, [Next]_vars
  PROVE  /\ account' = "none" => account = "none"
         /\ account = "deleted" => account' = "deleted"
         /\ cut \subseteq cut'
<1>1. ASSUME NEW c \in Calls, ServerStep(c)
      PROVE  (account' = account \/ CreateAccount(c) \/ DeleteAccount(c)) /\ cut' = cut
  BY <1>1 DEF ServerStep, FindAccount, CheckEmail, CreateAccount, FindRow, TrackSession, StartSession,
     ConsumeRefreshToken, CheckSession, Rotate, Authenticate, Serve, StepUp, DeleteAccount,
     DeleteRefreshToken, RevokeSession, server
<1>2. ASSUME NEW c \in Calls, ClientStep(c) \/ Drop(c) \/ Lose(c) PROVE account' = account /\ cut \subseteq cut'
  BY <1>2 DEF ClientStep, LoginAnswer, Unauthorized, RefreshAnswer, ProfileAnswer, OtherAnswer,
     DeletionAnswer, Drop, Lose, server
<1>3. ASSUME NEW t \in Tabs, Login(t) \/ Register(t) \/ Fetch(t) \/ AskDeletion(t) \/ SignOut(t) \/ Reload(t)
      PROVE  account' = account /\ cut \subseteq cut'
  BY <1>3 DEF Login, Register, Submit, Fetch, AskDeletion, Ask, SignOut, Reload, server
<1>4. ASSUME NEW c \in Calls, CreateAccount(c) \/ DeleteAccount(c)
      PROVE  account' # "none" /\ (account = "deleted" => account' = "deleted")
  BY <1>4 DEF CreateAccount, DeleteAccount
<1> QED
  BY <1>1, <1>2, <1>3, <1>4 DEF Next, Expire, server, vars

\* A sign-out is counted, and nothing takes the count back.
LEMMA SignOutsLeft ==
  ASSUME STypeOK, [Next]_vars
  PROVE  /\ left'["signOut"] <= left["signOut"]
         /\ \A t \in Tabs : SignOut(t) => left'["signOut"] < left["signOut"]
<1>1. \A e \in Events \ {"any"} : Spend(e) =>
        /\ left'["signOut"] = IF e = "signOut" THEN left["signOut"] - 1 ELSE left["signOut"]
        /\ left["signOut"] \in Nat
  BY DEF STypeOK, Spend, Events
<1>2. {"signIn", "signOut", "reload", "expire", "lose", "delete"} \subseteq Events \ {"any"} /\ left["signOut"] \in Nat
  BY DEF Events, STypeOK
<1>3. \A t \in Tabs : SignOut(t) => left'["signOut"] < left["signOut"]
  BY <1>1, <1>2 DEF SignOut
<1>4. ASSUME NEW c \in Calls, ServerStep(c) PROVE left' = left
  BY <1>4 DEF ServerStep, FindAccount, CheckEmail, CreateAccount, FindRow, TrackSession, StartSession,
     ConsumeRefreshToken, CheckSession, Rotate, Authenticate, Serve, StepUp, DeleteAccount,
     DeleteRefreshToken, RevokeSession
<1>5. ASSUME NEW c \in Calls, ClientStep(c) \/ Drop(c) \/ Lose(c) PROVE left' = left \/ Spend("lose")
  BY <1>5 DEF ClientStep, LoginAnswer, Unauthorized, RefreshAnswer, ProfileAnswer, OtherAnswer,
     DeletionAnswer, Drop, Lose
<1>6. ASSUME NEW t \in Tabs, Login(t) \/ Register(t) \/ Fetch(t) \/ AskDeletion(t) \/ SignOut(t) \/ Reload(t)
      PROVE  left' = left \/ Spend("signIn") \/ Spend("delete") \/ Spend("signOut") \/ Spend("reload")
  BY <1>6 DEF Login, Register, Submit, Fetch, AskDeletion, SignOut, Reload
<1>7. Expire => Spend("expire")
  BY DEF Expire
<1>8. \/ left' = left
      \/ \E e \in {"signIn", "signOut", "reload", "expire", "lose", "delete"} : Spend(e)
  BY <1>4, <1>5, <1>6, <1>7 DEF Next, vars
<1> QED
  BY <1>1, <1>2, <1>3, <1>8

\* A tab moves no request on in the API.
Outside(d) ==
    \/ call'[d].kind = call[d].kind /\ call'[d].at = call[d].at
    \/ call'[d].at \in {"idle", "sent", "waiting", "failed"}

LEMMA RequestSent == \A k, t, p : Request(k, t, p).at = "sent"
  BY DEF Request, NoCall

LEMMA EndOutside ==
  ASSUME STypeOK, NEW c \in Calls, NEW a \in {"waiting", "failed"},
         call' = [call EXCEPT ![c].at = a] \/ call' = [call EXCEPT ![c] = NoCall]
  PROVE  \A d \in Calls : Outside(d)
<1>1. \A d \in Calls : call'[d] = call[d] \/ call'[d].at \in {a, "idle"}
  BY DEF STypeOK, CallStates, NoCall
<1> QED
  BY <1>1 DEF Outside

LEMMA SendOutside ==
  ASSUME STypeOK, NEW k, NEW t, NEW p, NEW n, call' = [call EXCEPT ![n] = Request(k, t, p)]
  PROVE  \A d \in Calls : Outside(d)
<1>1. \A d \in Calls : call'[d] \in {call[d], Request(k, t, p)}
  BY DEF STypeOK
<1> QED
  BY <1>1, RequestSent DEF Outside

LEMMA LogoutOutside ==
  ASSUME NEW t \in Tabs, NEW s \in [Calls -> CallStates], LogoutFrom(t, s),
         \A d \in Calls : s[d] = call[d] \/ s[d] = NoCall
  PROVE  \A d \in Calls : Outside(d)
<1>1. PICK n : call' = s \/ call' = [s EXCEPT ![n] = Request("logout", t, tab[t].access)]
  BY DEF LogoutFrom
<1>2. \A d \in Calls : call'[d] \in {call[d], NoCall, Request("logout", t, tab[t].access)}
  BY <1>1
<1> QED
  BY <1>2, RequestSent, NoCallIs DEF Outside

LEMMA ClientOutside ==
  ASSUME STypeOK, NEW c \in Calls, ClientStep(c) \/ Drop(c) \/ Lose(c)
  PROVE  \A d \in Calls : Outside(d)
<1>1. CASE ProfileAnswer(c) \/ OtherAnswer(c) \/ Drop(c) \/ Lose(c)
  BY <1>1, EndOutside DEF ProfileAnswer, OtherAnswer, Drop, Lose, End, Reply
<1>2. CASE LoginAnswer(c)
  <2>1. CASE call[c].at = "ok"
    BY <1>2, <2>1, SendOutside DEF LoginAnswer
  <2>2. CASE call[c].at # "ok"
    BY <1>2, <2>2, EndOutside DEF LoginAnswer, End
  <2> QED BY <2>1, <2>2
<1>3. CASE Unauthorized(c)
  <2>1. CASE call' = [call EXCEPT ![c].at = "waiting"] \/ call' = [call EXCEPT ![c] = NoCall]
    BY <2>1, EndOutside
  <2>2. ASSUME NEW r, r.at = "sent", call' = [call EXCEPT ![c].at = "waiting", ![Slot] = r]
        PROVE  \A d \in Calls : Outside(d)
    <3> DEFINE moved == [call[c] EXCEPT !.at = "waiting"]
    <3>1. moved.at = "waiting"
      BY DEF STypeOK, CallStates
    <3>2. call' = [call EXCEPT ![c] = moved, ![Slot] = r]
      BY <2>2
    <3> HIDE DEF moved
    <3>3. \A d \in Calls : call'[d] \in {call[d], moved, r}
      BY <3>2 DEF STypeOK
    <3> QED BY <2>2, <3>1, <3>3 DEF Outside
  <2> QED BY <1>3, <2>1, <2>2, RequestSent DEF Unauthorized, End
<1>4. CASE RefreshAnswer(c)
  <2> DEFINE t == call[c].tab
             p == call[c].pair
             first == IF tab[t].status = "initializing" THEN Request("meInit", t, p) ELSE NoCall
             again(d) == [Request(call[d].kind, t, p) EXCEPT !.again = TRUE]
  <2>1. first.at \in {"sent", "idle"} /\ \A d \in Calls : again(d).at = "sent"
    BY DEF Request, NoCall
  <2>2. \A d \in Calls : call'[d] \in {first, NoCall, again(d), call[d]}
    BY <1>4 DEF RefreshAnswer
  <2> HIDE DEF first, again
  <2> QED BY <2>1, <2>2, NoCallIs DEF Outside
<1>5. CASE DeletionAnswer(c)
  <2> DEFINE s == [call EXCEPT ![c] = NoCall]
  <2>1. LogoutFrom(call[c].tab, s) /\ call[c].tab \in Tabs
    BY <1>5 DEF DeletionAnswer, Answered
  <2>2. s \in [Calls -> CallStates] /\ \A d \in Calls : s[d] = call[d] \/ s[d] = NoCall
    BY NoCallIs DEF STypeOK
  <2> HIDE DEF s
  <2> QED BY <2>1, <2>2, LogoutOutside
<1> QED
  BY <1>1, <1>2, <1>3, <1>4, <1>5 DEF ClientStep

LEMMA TabOutside ==
  ASSUME STypeOK, NEW t \in Tabs,
         Login(t) \/ Register(t) \/ Fetch(t) \/ AskDeletion(t) \/ SignOut(t) \/ Reload(t)
  PROVE  \A d \in Calls : Outside(d)
<1>1. CASE Login(t) \/ Register(t) \/ Fetch(t) \/ AskDeletion(t)
  BY <1>1, SendOutside DEF Login, Register, Submit, Fetch, AskDeletion, Ask
<1>2. CASE SignOut(t)
  BY <1>2, LogoutOutside DEF SignOut, STypeOK
<1>3. CASE Reload(t)
  <2> DEFINE kept == [d \in Calls |-> IF call[d].tab # t THEN call[d]
                                     ELSE IF call[d].at \in Answers \cup {"waiting"} THEN NoCall
                                     ELSE [call[d] EXCEPT !.tab = NoTab]]
             r == Request("refresh", t, tab[t].refresh)
  <2>1. call' = kept \/ call' = [kept EXCEPT ![Slot] = r]
    BY <1>3 DEF Reload
  <2>2. \A d \in Calls : kept[d].at = "idle" \/ (kept[d].kind = call[d].kind /\ kept[d].at = call[d].at)
    BY NoCallIs DEF STypeOK, CallStates
  <2>3. kept = [d \in Calls |-> kept[d]]
    OBVIOUS
  <2>4. r.at = "sent"
    BY RequestSent
  <2> HIDE DEF kept, r
  <2>5. \A d \in Calls : call'[d] \in {kept[d], r}
    BY <2>1, <2>3
  <2> QED BY <2>2, <2>4, <2>5 DEF Outside
<1> QED
  BY <1>1, <1>2, <1>3

\* No pair is issued and no sign-in admitted before there is an account.
LEMMA RegisteredStep ==
  ASSUME IInv, Registered, [Next]_vars
  PROVE  Registered'
<1> SUFFICES ASSUME account' = "none" PROVE Issued' = {} /\ \A d \in Calls : ~Admitted(d)'
  BY DEF Registered
<1>1. account = "none" /\ Issued = {} /\ \A d \in Calls : ~Admitted(d) /\ call[d].kind # "refresh" /\ call[d].pair = 0
  BY AccountStays DEF Registered, IInv, Sound
<1> USE DEF SignIns
<1>2. pair' = pair
  <2>1. ASSUME NEW c \in Calls, DeleteRefreshToken(c) PROVE pair' = pair
    BY <1>1, <2>1, ZeroIsNoPair DEF DeleteRefreshToken, IInv, STypeOK
  <2>2. ASSUME NEW c \in Calls PROVE ~ConsumeRefreshToken(c) /\ ~StartSession(c) /\ ~Rotate(c)
    BY <1>1 DEF ConsumeRefreshToken, Arrived, StartSession, Rotate, Admitted
  <2> QED BY <2>1, <2>2, PairSteps
<1>3. ASSUME NEW c \in Calls, ServerStep(c), NEW d \in Calls PROVE ~Admitted(d)'
  <2>1. ~(ConsumeRefreshToken(c) \/ StartSession(c) \/ Rotate(c) \/ CheckSession(c) \/ FindRow(c) \/ TrackSession(c))
    BY <1>1 DEF ConsumeRefreshToken, Arrived, StartSession, Rotate, CheckSession, FindRow, TrackSession, Admitted
  <2>2. PICK a \in Places : Reply(c, a) /\ (call[c].kind \in SignIns => a \notin {"admitted", "found", "opened"})
    <3> USE <1>1, <1>3, <2>1 DEF Places, Answers
    <3>1. CASE FindAccount(c) \/ CheckEmail(c) \/ CreateAccount(c)
      BY <3>1 DEF FindAccount, CheckEmail, CreateAccount
    <3>2. CASE Authenticate(c) \/ Serve(c) \/ StepUp(c) \/ DeleteAccount(c) \/ DeleteRefreshToken(c) \/ RevokeSession(c)
      BY <3>2 DEF Authenticate, Serve, StepUp, DeleteAccount, DeleteRefreshToken, RevokeSession, Guarded
    <3> QED BY <3>1, <3>2 DEF ServerStep
  <2> QED BY <1>1, <2>2, ReplyEffect DEF IInv, Admitted
<1>4. ASSUME NEW c \in Calls, ClientStep(c) \/ Drop(c) \/ Lose(c), NEW d \in Calls PROVE ~Admitted(d)'
  BY <1>1, <1>4, ClientOutside DEF Outside, Admitted, IInv
<1>5. ASSUME NEW t \in Tabs, Login(t) \/ Register(t) \/ Fetch(t) \/ AskDeletion(t) \/ SignOut(t) \/ Reload(t),
             NEW d \in Calls
      PROVE  ~Admitted(d)'
  BY <1>1, <1>5, TabOutside DEF Outside, Admitted, IInv
<1>6. call' = call => \A d \in Calls : ~Admitted(d)'
  BY <1>1 DEF Admitted
<1>7. \A d \in Calls : ~Admitted(d)'
  BY <1>3, <1>4, <1>5, <1>6 DEF Next, Expire, vars
<1> QED
  BY <1>1, <1>2, <1>7 DEF Issued

LEMMA SignedInStep ==
  ASSUME IInv, SignedInInv, [Next]_vars
  PROVE  SignedInInv'
<1>1. Registered' /\ left'["signOut"] <= Budget["signOut"] /\ left["signOut"] <= Budget["signOut"]
  <2>1. left["signOut"] \in Nat /\ left'["signOut"] \in Nat /\ Budget["signOut"] \in Nat
    BY StepInv, SessionsAssumption DEF IInv, STypeOK, Events
  <2>2. left'["signOut"] <= left["signOut"] /\ left["signOut"] <= Budget["signOut"]
    BY SignOutsLeft DEF SignedInInv, IInv
  <2> QED BY <2>1, <2>2, RegisteredStep DEF SignedInInv
<1>2. ASSUME Undisturbed' PROVE Served'
  <2>1. cut' = {} /\ account' # "deleted" /\ left'["signOut"] = Budget["signOut"]
    BY <1>2 DEF Undisturbed
  <2>2. Undisturbed /\ \A t \in Tabs : ~SignOut(t)
    <3>1. cut = {} /\ account # "deleted"
      BY <2>1, AccountStays DEF IInv
    <3>2. left["signOut"] \in Nat /\ left'["signOut"] \in Nat /\ Budget["signOut"] \in Nat
      BY StepInv, SessionsAssumption DEF IInv, STypeOK, Events
    <3> QED BY <1>1, <2>1, <3>1, <3>2, SignOutsLeft DEF Undisturbed, IInv
  <2>3. Served /\ Registered
    BY <2>2 DEF SignedInInv
  <2>4. CASE UNCHANGED <<server, tab, call>>
    <3>1. \A d \in Calls : Tame(d)
      BY <2>4 DEF Tame, Presents, Carries, Arrived
    <3> QED BY <2>3, <2>4, <3>1, TameStep DEF server
  <2> QED BY <2>1, <2>2, <2>3, <2>4, ServerServed, ClientServed, TabServed DEF Next, Expire, vars, server
<1> QED
  BY <1>1, <1>2 DEF SignedInInv

LEMMA InitSignedIn == Init => SignedInInv
<1> SUFFICES ASSUME Init PROVE SignedInInv
  OBVIOUS
<1>1. \A c \in Calls : call[c] = NoCall
  BY DEF Init
<1>2. /\ Issued = {} /\ \A t \in Tabs : tab[t].refresh = 0
      /\ \A s \in Rows : session[s] = "none"
      /\ left["signOut"] = Budget["signOut"] /\ Budget["signOut"] \in Nat
  BY SessionsAssumption DEF Init, Issued, NoPair, SignedOut, Events
<1>3. \A c \in Calls : ~Bearer(c) /\ ~Admitted(c) /\ call[c].kind = "none"
  BY <1>1 DEF Bearer, Presents, Carries, Admitted, Arrived, NoCall, SignIns
<1> QED
  BY <1>2, <1>3 DEF SignedInInv, Registered, Served, NobodyLeaves, RefreshesGoOn, TokensAreGood, OneHolderEach

\* No refresh of an undisturbed session is refused, whatever number of tabs present
\* their tokens, reload and meet 401s (auth.service.ts:72-75, AuthService.ts:128).
THEOREM NeverSignedOut == Spec => []NeverSignedOutByRefresh
<1>1. Init => IInv /\ SignedInInv
  BY InitInv, InitSignedIn
<1>2. IInv /\ SignedInInv /\ [Next]_vars => (IInv /\ SignedInInv)'
  BY StepInv, SignedInStep
<1>3. IInv /\ SignedInInv => NeverSignedOutByRefresh
  BY DEF SignedInInv, Undisturbed, Served, RefreshesGoOn, NeverSignedOutByRefresh
<1> QED
  BY <1>1, <1>2, <1>3, PTL DEF Spec
=============================================================================
