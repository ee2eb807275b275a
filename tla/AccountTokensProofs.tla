-------------------------- MODULE AccountTokensProofs --------------------------
(***************************************************************************)
(* What the sessions of an account keep for any number of requests, tokens *)
(* and links.                                                              *)
(***************************************************************************)
EXTENDS MCAccountTokens, FiniteSetTheorems, SequenceTheorems, WellFoundedInduction, TLAPS

\* Ids of tokens carry the number of the login they descend from.
LoginsNumbered == \A t \in DOMAIN refresh : refresh[t].login \in 1..t

\* A request that overlapped no other is the only one in flight.
UnracedIsAlone ==
  \A r \in Request : req[r] # Idle /\ ~req[r].raced =>
    \A s \in Request \ {r} : req[s] = Idle

Current(t) ==
  /\ user.active
  /\ refresh[t].password = user.password
  /\ refresh[t].login \notin ended

\* What an unraced request has read still holds.
ReadsCurrent ==
  \A r \in Request : req[r] # Idle /\ ~req[r].raced =>
    /\ req[r].op = "login" => user.active /\ req[r].password = user.password
    /\ req[r].op = "refresh" /\ ~refresh[req[r].token].raced => Current(req[r].token)
    /\ req[r].op = "change_password" => user.active
    /\ Handler(r) = "change_password" => user.active

\* A request that presents a token found the only one of its login, up to races.
PresentsTheOne ==
  \A r \in Request : req[r].op \in {"refresh", "logout"} =>
    /\ req[r].token \in DOMAIN refresh
    /\ \A u \in Live \ {req[r].token} :
         refresh[u].login = refresh[req[r].token].login =>
           /\ refresh[u].raced
           /\ refresh[req[r].token].raced \/ req[r].raced

\* A mass revocation covers every live token but those of races.
RevokeCovers ==
  \A r \in Request : req[r].op = "revoke" =>
    \A t \in Live : t \in req[r].revoke \/ refresh[t].raced

AccountInv ==
  /\ TypeOK
  /\ LoginsNumbered
  /\ UnracedIsAlone
  /\ ReadsCurrent
  /\ PresentsTheOne
  /\ RevokeCovers
  /\ SessionsCurrent
  /\ OneLiveUnlessRaced

\* An account that has just registered satisfies the invariant.
LEMMA AccountInitInv == Init => AccountInv
<1> SUFFICES ASSUME Init PROVE AccountInv
  OBVIOUS
<1> DEFINE row == NewRefresh(1, 0, FALSE)
           link == NewMail("verify_email")
<1>1. row \in RefreshRow /\ row.login = 1 /\ row.password = 0
  BY DEF NewRefresh, RefreshRow
<1>2. link \in MailRow
  BY DEF NewMail, MailRow, Purpose
<1>3. /\ refresh = <<row>>
      /\ mail \in {<<>>, <<link>>}
      /\ user = [active |-> TRUE, verified |-> FALSE, password |-> 0]
      /\ access = TRUE /\ ended = {}
      /\ uses = [i \in DOMAIN mail |-> 0]
      /\ \A r \in Request : req[r] = Idle
      /\ DOMAIN req = Request
  BY DEF Init
<1> HIDE DEF row, link
<1>4. refresh \in Seq(RefreshRow) /\ DOMAIN refresh = {1} /\ refresh[1] = row
  BY <1>1, <1>3
<1>5. mail \in Seq(MailRow)
  BY <1>2, <1>3
<1>6. TypeOK
  BY <1>3, <1>4, <1>5 DEF TypeOK
<1>7. LoginsNumbered /\ OneLiveUnlessRaced
  BY <1>1, <1>4 DEF LoginsNumbered, OneLiveUnlessRaced, Live
<1>8. SessionsCurrent
  BY <1>1, <1>3, <1>4 DEF SessionsCurrent, Live
<1>9. UnracedIsAlone /\ ReadsCurrent /\ PresentsTheOne /\ RevokeCovers
  BY <1>3 DEF UnracedIsAlone, ReadsCurrent, PresentsTheOne, RevokeCovers, Idle
<1> QED
  BY <1>6, <1>7, <1>8, <1>9 DEF AccountInv

-----------------------------------------------------------------------------
(* The rows after a revocation and after an insert. *)

\* Revoking changes nothing but that the rows revoked are no longer live.
LEMMA RevokeRowsFacts ==
  ASSUME TypeOK, NEW S
  PROVE  /\ RevokeRows(S) \in Seq(RefreshRow)
         /\ Len(RevokeRows(S)) = Len(refresh)
         /\ DOMAIN RevokeRows(S) = DOMAIN refresh
         /\ \A t \in DOMAIN refresh :
              /\ RevokeRows(S)[t].login = refresh[t].login
              /\ RevokeRows(S)[t].password = refresh[t].password
              /\ RevokeRows(S)[t].raced <=> refresh[t].raced
              /\ RevokeRows(S)[t].live <=> refresh[t].live /\ t \notin S
<1> DEFINE rows == RevokeRows(S)
           dead(t) == [refresh[t] EXCEPT !.live = FALSE]
<1>1. refresh \in Seq(RefreshRow) /\ Len(refresh) \in Nat /\ DOMAIN refresh = 1..Len(refresh)
  BY DEF TypeOK
<1>2. ASSUME NEW t \in DOMAIN refresh
      PROVE  /\ refresh[t] \in RefreshRow /\ dead(t) \in RefreshRow
             /\ dead(t).login = refresh[t].login
             /\ dead(t).password = refresh[t].password
             /\ dead(t).raced <=> refresh[t].raced
             /\ ~dead(t).live
  <2>1. refresh[t] \in RefreshRow
    BY <1>1
  <2> QED
    BY <2>1 DEF RefreshRow
<1>3. rows = [t \in 1..Len(refresh) |-> IF t \in S THEN dead(t) ELSE refresh[t]]
  BY <1>1 DEF RevokeRows
<1> HIDE DEF dead, rows
<1>4. rows \in Seq(RefreshRow) /\ Len(rows) = Len(refresh) /\ DOMAIN rows = DOMAIN refresh
  BY <1>1, <1>2, <1>3
<1>5. \A t \in DOMAIN refresh :
        /\ rows[t].login = refresh[t].login
        /\ rows[t].password = refresh[t].password
        /\ rows[t].raced <=> refresh[t].raced
        /\ rows[t].live <=> refresh[t].live /\ t \notin S
  <2> TAKE t \in DOMAIN refresh
  <2>1. CASE t \in S
    BY <1>1, <1>2, <1>3, <2>1
  <2>2. CASE t \notin S
    BY <1>1, <1>3, <2>2
  <2> QED
    BY <2>1, <2>2
<1> QED
  BY <1>4, <1>5 DEF rows

\* An insert adds one live row after the others.
LEMMA IssueFacts ==
  ASSUME NEW rows \in Seq(RefreshRow), NEW l \in Nat, NEW p \in Nat,
         NEW b \in BOOLEAN, Issue(rows, l, p, b)
  PROVE  /\ refresh' \in Seq(RefreshRow)
         /\ DOMAIN refresh' = DOMAIN rows \cup {Len(rows) + 1}
         /\ \A t \in DOMAIN rows : refresh'[t] = rows[t]
         /\ refresh'[Len(rows) + 1].login = l
         /\ refresh'[Len(rows) + 1].password = p
         /\ refresh'[Len(rows) + 1].raced <=> b
         /\ access' = TRUE
<1> DEFINE row == NewRefresh(l, p, b)
<1>1. row \in RefreshRow /\ row.login = l /\ row.password = p /\ (row.raced <=> b)
  BY DEF NewRefresh, RefreshRow
<1>2. refresh' = Append(rows, row) /\ access' = TRUE
  BY DEF Issue
<1> HIDE DEF row
<1>3. /\ DOMAIN rows = 1..Len(rows) /\ Len(rows) \in Nat
      /\ refresh' \in Seq(RefreshRow)
      /\ DOMAIN refresh' = 1..(Len(rows) + 1)
      /\ refresh'[Len(rows) + 1] = row
      /\ \A t \in 1..Len(rows) : refresh'[t] = rows[t]
  BY <1>1, <1>2
<1> QED
  BY <1>1, <1>2, <1>3

-----------------------------------------------------------------------------
(* The requests in flight. *)

ReqRow == ReadRequest \cup RevokeRequest

\* Marking a request raced changes nothing else of it.
LEMMA RacedFacts ==
  ASSUME NEW q \in ReqRow, NEW b \in BOOLEAN
  PROVE  LET m == [q EXCEPT !.raced = b]
         IN /\ q \in ReadRequest => m \in ReadRequest
            /\ q \in RevokeRequest => m \in RevokeRequest
            /\ m.raced <=> b
            /\ m.op = q.op
            /\ q.op \in {"refresh", "logout"} => m.token = q.token
            /\ q.op = "login" => m.password = q.password
            /\ q.op \in {"verify", "reset_password"} => m.link = q.link
            /\ q.op = "revoke" => m.handler = q.handler /\ m.revoke = q.revoke
<1>1. CASE q \in [op: {"login"}, password: Nat, raced: BOOLEAN]
  BY <1>1 DEF ReadRequest, RevokeRequest
<1>2. CASE q \in [op: {"refresh", "logout"}, token: Nat, raced: BOOLEAN]
  BY <1>2 DEF ReadRequest, RevokeRequest
<1>3. CASE q \in [op: {"verify", "reset_password"}, link: Nat, raced: BOOLEAN]
  BY <1>3 DEF ReadRequest, RevokeRequest
<1>4. CASE q \in [op: {"change_password", "delete_account"}, raced: BOOLEAN]
  BY <1>4 DEF ReadRequest, RevokeRequest
<1>5. CASE q \in RevokeRequest
  <2>1. PICK h \in ReadRequest, v \in SUBSET Nat, c \in BOOLEAN :
          q = [op |-> "revoke", handler |-> h, revoke |-> v, raced |-> c]
    BY <1>5 DEF RevokeRequest
  <2>2. [q EXCEPT !.raced = b] = [op |-> "revoke", handler |-> h, revoke |-> v, raced |-> b]
    BY <2>1
  <2>3. q \notin ReadRequest
    BY <2>1 DEF ReadRequest
  <2> QED
    BY <2>1, <2>2, <2>3 DEF RevokeRequest
<1> QED
  BY <1>1, <1>2, <1>3, <1>4, <1>5 DEF ReqRow, ReadRequest

LEMMA ReqRows ==
  ASSUME TypeOK, NEW r \in Request
  PROVE  /\ req[r] = Idle \/ req[r] \in ReqRow
         /\ req[r] # Idle => req[r].raced \in BOOLEAN
         /\ Idle.op = "idle" /\ Idle \notin ReqRow
<1>1. req[r] = Idle \/ req[r] \in ReadRequest \/ req[r] \in RevokeRequest
  BY DEF TypeOK
<1>2. \A q \in ReqRow : q.raced \in BOOLEAN /\ q.op # "idle"
  BY DEF ReqRow, ReadRequest, RevokeRequest
<1> QED
  BY <1>1, <1>2 DEF ReqRow, Idle

\* A request that begins is raced if another is in flight, and so is that one.
LEMMA BeginFacts ==
  ASSUME TypeOK, NEW r \in Request, NEW q \in ReadRequest, Begin(r, q)
  PROVE  /\ req[r] = Idle
         /\ DOMAIN req' = Request
         /\ \E b \in BOOLEAN :
              /\ req'[r] = [q EXCEPT !.raced = b]
              /\ ~b => \A s \in Request \ {r} : req[s] = Idle /\ req'[s] = Idle
         /\ \A s \in Request \ {r} :
              IF req[s] = Idle THEN req'[s] = Idle
              ELSE req'[s] = [req[s] EXCEPT !.raced = TRUE]
<1> DEFINE others == {s \in Request \ {r} : req[s] # Idle}
           b == others # {}
<1>1. /\ req[r] = Idle
      /\ req' = [s \in Request |->
           CASE s = r         -> [q EXCEPT !.raced = b]
             [] s \in others  -> [req[s] EXCEPT !.raced = TRUE]
             [] OTHER         -> Idle]
  BY DEF Begin
<1>2. b \in BOOLEAN /\ r \notin others
  OBVIOUS
<1>3. req'[r] = [q EXCEPT !.raced = b] /\ DOMAIN req' = Request
  BY <1>1
<1>4. ASSUME NEW s \in Request \ {r}
      PROVE  IF req[s] = Idle THEN req'[s] = Idle
             ELSE req'[s] = [req[s] EXCEPT !.raced = TRUE]
  <2>1. CASE req[s] = Idle
    BY <1>1, <2>1
  <2>2. CASE req[s] # Idle
    BY <1>1, <2>2
  <2> QED
    BY <2>1, <2>2
<1>5. ~b => \A s \in Request \ {r} : req[s] = Idle /\ req'[s] = Idle
  BY <1>4
<1> HIDE DEF b
<1> QED
  BY <1>1, <1>2, <1>3, <1>4, <1>5

\* Every other request in flight has overlapped one that commits.
LEMMA EndFacts ==
  ASSUME AccountInv, NEW r \in Request, req[r] # Idle, End(r)
  PROVE  /\ DOMAIN req' = Request
         /\ req'[r] = Idle
         /\ \A s \in Request \ {r} :
              /\ req'[s] = req[s]
              /\ req[s] # Idle => req[s].raced /\ req[r].raced
<1>1. DOMAIN req = Request /\ UnracedIsAlone
  BY DEF AccountInv, TypeOK
<1>2. DOMAIN req' = Request /\ req'[r] = Idle /\ \A s \in Request \ {r} : req'[s] = req[s]
  BY <1>1 DEF End
<1>3. \A s \in Request \ {r} : req[s] # Idle => req[s].raced /\ req[r].raced
  BY <1>1 DEF UnracedIsAlone
<1> QED
  BY <1>2, <1>3

-----------------------------------------------------------------------------
(* One lemma per action, or for actions that are alike. *)

\* What a request may take from the state when it begins.
ReadsWhatHolds(q) ==
  /\ q.op = "login" => user.active /\ q.password = user.password
  /\ q.op \in {"refresh", "logout"} => q.token \in Live
  /\ q.op = "change_password" => user.active

LEMMA BeginInv ==
  ASSUME AccountInv, NEW r \in Request, NEW q \in ReadRequest, ReadsWhatHolds(q), Begin(r, q)
  PROVE  AccountInv'
<1>1. TypeOK
  BY DEF AccountInv
<1>2. UNCHANGED <<user, refresh, mail, access, ended, uses>>
  BY DEF Begin
<1>3. PICK b \in BOOLEAN :
        /\ req'[r] = [q EXCEPT !.raced = b]
        /\ ~b => \A s \in Request \ {r} : req[s] = Idle /\ req'[s] = Idle
  BY <1>1, BeginFacts
<1>4. /\ req[r] = Idle /\ DOMAIN req' = Request
      /\ \A s \in Request \ {r} :
           IF req[s] = Idle THEN req'[s] = Idle
           ELSE req'[s] = [req[s] EXCEPT !.raced = TRUE]
  BY <1>1, BeginFacts
<1>5. /\ q \in ReqRow /\ q.op # "revoke" /\ q.op # "idle"
  BY DEF ReqRow, ReadRequest
<1>6. /\ req'[r] \in ReadRequest /\ req'[r].op = q.op
      /\ req'[r].raced <=> b
      /\ q.op \in {"refresh", "logout"} => req'[r].token = q.token
      /\ q.op = "login" => req'[r].password = q.password
  BY <1>3, <1>5, RacedFacts
<1>7. ASSUME NEW s \in Request \ {r}, req[s] # Idle
      PROVE  /\ req'[s] \in ReadRequest \/ req'[s] \in RevokeRequest
             /\ req'[s].raced
             /\ req'[s].op = req[s].op
             /\ req[s].op \in {"refresh", "logout"} => req'[s].token = req[s].token
             /\ req[s].op = "revoke" => req'[s].revoke = req[s].revoke
  <2>1. req[s] \in ReqRow /\ req'[s] = [req[s] EXCEPT !.raced = TRUE]
    BY <1>1, <1>4, <1>7, ReqRows
  <2> QED
    BY ZenonT(60), <2>1, RacedFacts DEF ReqRow
<1>8. TypeOK'
  <2>1. \A s \in Request : \/ req'[s] \in {Idle} \cup ReadRequest
                            \/ req'[s] \in RevokeRequest
    BY <1>4, <1>6, <1>7
  <2> QED
    BY <1>1, <1>2, <1>4, <2>1 DEF TypeOK
<1>9. UnracedIsAlone'
  BY <1>3, <1>4, <1>6, <1>7 DEF UnracedIsAlone
<1>10. SessionsCurrent' /\ OneLiveUnlessRaced' /\ LoginsNumbered'
  BY <1>2 DEF AccountInv, SessionsCurrent, OneLiveUnlessRaced, LoginsNumbered, Live
<1>11. ReadsCurrent'
  <2>1. SUFFICES ASSUME ~b
        PROVE /\ q.op = "login" => user.active /\ q.password = user.password
              /\ q.op = "refresh" /\ ~refresh[q.token].raced => Current(q.token)
              /\ q.op = "change_password" => user.active
    BY <1>2, <1>4, <1>5, <1>6, <1>7 DEF ReadsCurrent, Current, Handler
  <2>2. q.op = "refresh" /\ ~refresh[q.token].raced => Current(q.token)
    BY DEF ReadsWhatHolds, AccountInv, SessionsCurrent, Current
  <2> QED
    BY <2>2 DEF ReadsWhatHolds
<1>12. PresentsTheOne'
  <2> SUFFICES ASSUME NEW s \in Request, req'[s].op \in {"refresh", "logout"}
      PROVE /\ req'[s].token \in DOMAIN refresh
            /\ \A u \in Live \ {req'[s].token} :
                 refresh[u].login = refresh[req'[s].token].login =>
                   /\ refresh[u].raced
                   /\ refresh[req'[s].token].raced \/ req'[s].raced
    BY <1>2 DEF PresentsTheOne, Live
  <2>1. CASE s = r
    <3>1. req'[s].token = q.token /\ q.token \in Live
      BY <1>6, <2>1 DEF ReadsWhatHolds
    <3>2. q.token \in DOMAIN refresh
      BY <3>1 DEF Live
    <3> QED
      BY <3>1, <3>2 DEF AccountInv, OneLiveUnlessRaced
  <2>2. CASE s # r
    <3>1. req[s] # Idle
      BY <1>1, <1>4, <2>2, ReqRows
    <3>2. req[s].op \in {"refresh", "logout"} /\ req'[s].token = req[s].token /\ req'[s].raced
      BY <1>7, <2>2, <3>1
    <3> QED
      BY <3>2 DEF AccountInv, PresentsTheOne
  <2> QED
    BY <2>1, <2>2
<1>13. RevokeCovers'
  <2> SUFFICES ASSUME NEW s \in Request, req'[s].op = "revoke"
      PROVE \A t \in Live : t \in req'[s].revoke \/ refresh[t].raced
    BY <1>2 DEF RevokeCovers, Live
  <2>1. s # r
    BY <1>5, <1>6
  <2>2. req[s] # Idle
    BY <1>1, <1>4, <2>1, ReqRows
  <2>3. req[s].op = "revoke" /\ req'[s].revoke = req[s].revoke
    BY <1>7, <2>1, <2>2
  <2> QED
    BY <2>3 DEF AccountInv, RevokeCovers
<1> QED
  BY <1>8, <1>9, <1>10, <1>11, <1>12, <1>13 DEF AccountInv

LEMMA RequestReadInv ==
  ASSUME AccountInv, NEW r \in Request, RequestRead(r)
  PROVE  AccountInv'
<1>1. TypeOK /\ user.password \in Nat /\ \A t \in DOMAIN refresh : t \in Nat
  BY DEF AccountInv, TypeOK
<1>2. \A i \in DOMAIN mail : i \in Nat
  BY <1>1 DEF TypeOK
<1>3. ASSUME LoginRead(r) \/ OAuthLoginRead(r)
      PROVE  AccountInv'
  <2> DEFINE q == [op |-> "login", password |-> user.password, raced |-> FALSE]
  <2>1. q \in ReadRequest
    BY <1>1 DEF ReadRequest
  <2>2. Begin(r, q) /\ ReadsWhatHolds(q)
    BY <1>3 DEF LoginRead, OAuthLoginRead, ReadsWhatHolds
  <2> QED
    BY <2>1, <2>2, BeginInv
<1>4. ASSUME NEW t \in DOMAIN refresh, RefreshRead(r, t) \/ LogoutRead(r, t)
      PROVE  AccountInv'
  <2>1. PICK name \in {"refresh", "logout"} :
          Begin(r, [op |-> name, token |-> t, raced |-> FALSE])
    BY <1>4 DEF RefreshRead, LogoutRead
  <2> DEFINE q == [op |-> name, token |-> t, raced |-> FALSE]
  <2>2. q \in ReadRequest
    BY <1>1 DEF ReadRequest
  <2>3. ReadsWhatHolds(q)
    BY <1>4 DEF RefreshRead, LogoutRead, ReadsWhatHolds, Live
  <2> QED
    BY <2>1, <2>2, <2>3, BeginInv
<1>5. ASSUME NEW i \in DOMAIN mail, VerifyEmailRead(r, i) \/ ResetPasswordRead(r, i)
      PROVE  AccountInv'
  <2>1. PICK name \in {"verify", "reset_password"} :
          Begin(r, [op |-> name, link |-> i, raced |-> FALSE])
    BY <1>5 DEF VerifyEmailRead, ResetPasswordRead
  <2> DEFINE q == [op |-> name, link |-> i, raced |-> FALSE]
  <2>2. q \in ReadRequest /\ ReadsWhatHolds(q)
    BY <1>2 DEF ReadRequest, ReadsWhatHolds
  <2> QED
    BY <2>1, <2>2, BeginInv
<1>6. ASSUME ChangePasswordRead(r) \/ DeleteAccountRead(r)
      PROVE  AccountInv'
  <2>1. PICK name \in {"change_password", "delete_account"} :
          Begin(r, [op |-> name, raced |-> FALSE])
    BY <1>6 DEF ChangePasswordRead, DeleteAccountRead
  <2> DEFINE q == [op |-> name, raced |-> FALSE]
  <2>2. q \in ReadRequest
    BY DEF ReadRequest
  <2>3. ReadsWhatHolds(q)
    BY <1>6 DEF ReadsWhatHolds, ChangePasswordRead, DeleteAccountRead, CurrentUser
  <2> QED
    BY <2>1, <2>2, <2>3, BeginInv
<1> QED
  BY <1>3, <1>4, <1>5, <1>6 DEF RequestRead

\* Rows only cease to be live.
RowsShrink ==
  /\ refresh' \in Seq(RefreshRow)
  /\ DOMAIN refresh' = DOMAIN refresh
  /\ \A t \in DOMAIN refresh :
       /\ refresh'[t].login = refresh[t].login
       /\ refresh'[t].password = refresh[t].password
       /\ refresh'[t].raced <=> refresh[t].raced
       /\ refresh'[t].live => refresh[t].live

LEMMA RevokeShrinks ==
  ASSUME TypeOK, NEW S, refresh' = RevokeRows(S)
  PROVE  RowsShrink /\ Live' = Live \ S
<1>1. /\ refresh' \in Seq(RefreshRow) /\ DOMAIN refresh' = DOMAIN refresh
      /\ \A t \in DOMAIN refresh :
           /\ refresh'[t].login = refresh[t].login
           /\ refresh'[t].password = refresh[t].password
           /\ refresh'[t].raced <=> refresh[t].raced
           /\ refresh'[t].live <=> refresh[t].live /\ t \notin S
  BY RevokeRowsFacts
<1> QED
  BY <1>1 DEF RowsShrink, Live

\* Revocations keep what is said of rows and of requests that present them.
LEMMA ShrinkInv ==
  ASSUME AccountInv, RowsShrink, \A s \in Request : req'[s] \in {Idle, req[s]}
  PROVE  LoginsNumbered' /\ OneLiveUnlessRaced' /\ PresentsTheOne' /\ RevokeCovers'
<1>1. /\ DOMAIN refresh' = DOMAIN refresh
      /\ \A t \in DOMAIN refresh :
           /\ refresh'[t].login = refresh[t].login
           /\ refresh'[t].raced <=> refresh[t].raced
      /\ Live' \subseteq Live
      /\ Live \subseteq DOMAIN refresh
  BY DEF RowsShrink, Live
<1>2. LoginsNumbered'
  BY <1>1 DEF AccountInv, LoginsNumbered
<1>3. OneLiveUnlessRaced'
  BY <1>1 DEF AccountInv, OneLiveUnlessRaced
<1>4. PresentsTheOne'
  <2> SUFFICES ASSUME NEW s \in Request, req[s].op \in {"refresh", "logout"}, req'[s] = req[s]
      PROVE /\ req[s].token \in DOMAIN refresh'
            /\ \A u \in Live' \ {req[s].token} :
                 refresh'[u].login = refresh'[req[s].token].login =>
                   /\ refresh'[u].raced
                   /\ refresh'[req[s].token].raced \/ req[s].raced
    BY DEF PresentsTheOne, Idle
  <2>1. /\ req[s].token \in DOMAIN refresh
        /\ \A u \in Live \ {req[s].token} :
             refresh[u].login = refresh[req[s].token].login =>
               /\ refresh[u].raced
               /\ refresh[req[s].token].raced \/ req[s].raced
    BY DEF AccountInv, PresentsTheOne
  <2> QED
    BY <1>1, <2>1
<1>5. RevokeCovers'
  BY <1>1 DEF AccountInv, RevokeCovers, Idle
<1> QED
  BY <1>2, <1>3, <1>4, <1>5

\* The end of a request leaves nothing unraced in flight.
LEMMA EndInv ==
  ASSUME AccountInv, NEW r \in Request, req[r] # Idle, End(r)
  PROVE  /\ UnracedIsAlone' /\ ReadsCurrent'
         /\ \A s \in Request : req'[s] \in {Idle, req[s]}
         /\ DOMAIN req' = Request
         /\ \A s \in Request : \/ req'[s] \in {Idle} \cup ReadRequest
                                \/ req'[s] \in RevokeRequest
<1>1. /\ DOMAIN req' = Request
      /\ req'[r] = Idle
      /\ \A s \in Request \ {r} : req'[s] = req[s] /\ (req[s] # Idle => req[s].raced)
  BY EndFacts
<1>2. \A s \in Request : req'[s] # Idle => req'[s].raced
  BY <1>1
<1>3. \A s \in Request : req'[s] \in {Idle, req[s]}
  BY <1>1
<1>4. \A s \in Request : \/ req'[s] \in {Idle} \cup ReadRequest
                          \/ req'[s] \in RevokeRequest
  BY <1>3 DEF AccountInv, TypeOK
<1> QED
  BY <1>1, <1>2, <1>3, <1>4 DEF UnracedIsAlone, ReadsCurrent

\* The row a request may issue, and what is so once it has, some rows being
\* revoked with it.
MayIssue(r, S, l, p, b) ==
  /\ l \in 1..(Len(refresh) + 1) /\ p \in Nat /\ b \in BOOLEAN
  /\ req[r].raced => b
  /\ \A u \in Live \ S : refresh[u].login = l => refresh[u].raced /\ b

Issued(S, n, l, p, b) ==
  /\ refresh' \in Seq(RefreshRow) /\ access' \in BOOLEAN
  /\ DOMAIN refresh' = DOMAIN refresh \cup {n}
  /\ n \notin DOMAIN refresh
  /\ Live' \subseteq (Live \ S) \cup {n}
  /\ \A t \in DOMAIN refresh :
       /\ refresh'[t].login = refresh[t].login
       /\ refresh'[t].password = refresh[t].password
       /\ refresh'[t].raced <=> refresh[t].raced
  /\ refresh'[n].login = l
  /\ refresh'[n].password = p
  /\ refresh'[n].raced <=> b
  /\ LoginsNumbered' /\ OneLiveUnlessRaced' /\ PresentsTheOne' /\ RevokeCovers'

LEMMA IssueInv ==
  ASSUME AccountInv, NEW r \in Request, req[r] # Idle, NEW S, NEW l, NEW p, NEW b,
         MayIssue(r, S, l, p, b), Issue(RevokeRows(S), l, p, b), End(r)
  PROVE  Issued(S, Len(refresh) + 1, l, p, b)
<1> DEFINE rows == RevokeRows(S)
           n == Len(refresh) + 1
<1>1. /\ TypeOK /\ Len(refresh) \in Nat
      /\ DOMAIN refresh = 1..Len(refresh)
      /\ l \in 1..n /\ l \in Nat /\ p \in Nat /\ b \in BOOLEAN
      /\ req[r].raced => b
  BY DEF AccountInv, TypeOK, MayIssue
<1>2. /\ rows \in Seq(RefreshRow) /\ Len(rows) = Len(refresh)
      /\ DOMAIN rows = DOMAIN refresh
      /\ \A t \in DOMAIN refresh :
           /\ rows[t].login = refresh[t].login
           /\ rows[t].password = refresh[t].password
           /\ rows[t].raced <=> refresh[t].raced
           /\ rows[t].live <=> refresh[t].live /\ t \notin S
  BY <1>1, RevokeRowsFacts
<1> HIDE DEF rows
<1>3. /\ refresh' \in Seq(RefreshRow)
      /\ DOMAIN refresh' = DOMAIN refresh \cup {n}
      /\ \A t \in DOMAIN refresh : refresh'[t] = rows[t]
      /\ refresh'[n].login = l
      /\ refresh'[n].password = p
      /\ refresh'[n].raced <=> b
      /\ access' = TRUE
  <2>1. Issue(rows, l, p, b) /\ rows \in Seq(RefreshRow) /\ l \in Nat
    BY <1>1, <1>2 DEF rows
  <2>2. /\ refresh' \in Seq(RefreshRow)
        /\ DOMAIN refresh' = DOMAIN rows \cup {Len(rows) + 1}
        /\ \A t \in DOMAIN rows : refresh'[t] = rows[t]
        /\ refresh'[Len(rows) + 1].login = l
        /\ refresh'[Len(rows) + 1].password = p
        /\ refresh'[Len(rows) + 1].raced <=> b
        /\ access' = TRUE
    BY <1>1, <2>1, IssueFacts
  <2>3. Len(rows) + 1 = n /\ DOMAIN rows = DOMAIN refresh
    BY <1>2
  <2> QED
    BY <2>2, <2>3
<1>4. n \notin DOMAIN refresh /\ n \in Nat
  BY <1>1
<1>5. /\ \A t \in DOMAIN refresh :
           /\ refresh'[t].login = refresh[t].login
           /\ refresh'[t].password = refresh[t].password
           /\ refresh'[t].raced <=> refresh[t].raced
      /\ Live' \subseteq (Live \ S) \cup {n}
      /\ Live \subseteq DOMAIN refresh
  BY <1>2, <1>3 DEF Live
<1>6. LoginsNumbered'
  BY <1>1, <1>3, <1>5 DEF AccountInv, LoginsNumbered
<1>7. OneLiveUnlessRaced'
  BY <1>3, <1>4, <1>5 DEF AccountInv, OneLiveUnlessRaced, MayIssue
<1>8. /\ req'[r] = Idle
      /\ \A s \in Request \ {r} :
           /\ req'[s] = req[s]
           /\ req[s] # Idle => req[s].raced /\ req[r].raced
  BY EndFacts
<1>9. PresentsTheOne'
  <2> SUFFICES ASSUME NEW s \in Request \ {r}, req[s].op \in {"refresh", "logout"}
      PROVE /\ req[s].token \in DOMAIN refresh'
            /\ \A u \in Live' \ {req[s].token} :
                 refresh'[u].login = refresh'[req[s].token].login =>
                   /\ refresh'[u].raced
                   /\ refresh'[req[s].token].raced \/ req[s].raced
    BY <1>8 DEF PresentsTheOne, Idle
  <2>1. req[s] # Idle
    BY DEF Idle
  <2>2. req[s].raced /\ b
    BY <1>1, <1>8, <2>1
  <2>3. /\ req[s].token \in DOMAIN refresh
        /\ \A u \in Live \ {req[s].token} :
             refresh[u].login = refresh[req[s].token].login => refresh[u].raced
    BY DEF AccountInv, PresentsTheOne
  <2> QED
    BY <1>3, <1>5, <2>2, <2>3
<1>10. RevokeCovers'
  <2> SUFFICES ASSUME NEW s \in Request \ {r}, req[s].op = "revoke"
      PROVE \A t \in Live' : t \in req[s].revoke \/ refresh'[t].raced
    BY <1>8 DEF RevokeCovers, Idle
  <2>1. req[s] # Idle
    BY DEF Idle
  <2>2. b
    BY <1>1, <1>8, <2>1
  <2>3. \A t \in Live : t \in req[s].revoke \/ refresh[t].raced
    BY DEF AccountInv, RevokeCovers
  <2> QED
    BY <1>3, <1>5, <2>2, <2>3
<1> QED
  BY <1>3, <1>4, <1>5, <1>6, <1>7, <1>9, <1>10 DEF Issued

\* Links keep their shape.
LEMMA UseLinkFacts ==
  ASSUME TypeOK, NEW r, NEW i, UseLink(r, i)
  PROVE  mail' \in Seq(MailRow) /\ uses' \in [DOMAIN mail' -> Nat]
<1>1. mail \in Seq(MailRow) /\ uses \in [DOMAIN mail -> Nat]
  BY DEF TypeOK
<1>2. \A row \in MailRow : MarkUsed(row) \in MailRow
  BY DEF MarkUsed, MailRow
<1>3. /\ mail' = [mail EXCEPT ![i] = MarkUsed(mail[i])]
      /\ uses' = [uses EXCEPT ![i] = IF req[r].raced THEN uses[i] ELSE uses[i] + 1]
  BY DEF UseLink
<1>4. /\ mail \in [1..Len(mail) -> MailRow] /\ Len(mail) \in Nat
      /\ DOMAIN mail = 1..Len(mail)
  BY <1>1
<1>5. mail' \in [1..Len(mail) -> MailRow]
  <2>1. CASE i \in 1..Len(mail)
    BY <1>2, <1>3, <1>4, <2>1
  <2>2. CASE i \notin 1..Len(mail)
    BY <1>3, <1>4, <2>2
  <2> QED
    BY <2>1, <2>2
<1>6. mail' \in Seq(MailRow) /\ DOMAIN mail' = DOMAIN mail
  BY <1>4, <1>5
<1>7. uses' \in [DOMAIN mail -> Nat]
  <2>1. CASE i \in DOMAIN mail
    BY <1>1, <1>3, <2>1
  <2>2. CASE i \notin DOMAIN mail
    BY <1>1, <1>3, <2>2
  <2> QED
    BY <2>1, <2>2
<1> QED
  BY <1>6, <1>7

\* A login takes a number no row carries.
LEMMA LoginCommitInv ==
  ASSUME AccountInv, NEW r \in Request, LoginCommit(r)
  PROVE  AccountInv'
<1> DEFINE n == Len(refresh) + 1
           q == req[r]
<1>1. /\ q.op = "login" /\ q # Idle /\ Issue(RevokeRows({}), n, q.password, q.raced)
      /\ End(r) /\ UNCHANGED <<user, mail, ended, uses>>
  <2>1. RevokeRows({}) = refresh
    BY DEF RevokeRows, AccountInv, TypeOK
  <2> QED
    BY <2>1 DEF LoginCommit, Idle
<1>2. /\ q.password \in Nat /\ q.raced \in BOOLEAN
      /\ n \in 1..n /\ n \notin ended
      /\ \A u \in Live : refresh[u].login # n
      /\ Live \subseteq DOMAIN refresh
  <2>1. q \in ReadRequest
    BY <1>1 DEF AccountInv, TypeOK, Idle, RevokeRequest
  <2> QED
    BY <1>1, <2>1 DEF AccountInv, TypeOK, LoginsNumbered, Live, ReadRequest
<1>3. Issued({}, n, n, q.password, q.raced)
  <2>1. MayIssue(r, {}, n, q.password, q.raced)
    BY <1>2 DEF MayIssue
  <2> QED
    BY <1>1, <2>1, IssueInv
<1>4. /\ refresh' \in Seq(RefreshRow) /\ access' \in BOOLEAN
      /\ DOMAIN refresh' = DOMAIN refresh \cup {n}
      /\ Live' \subseteq Live \cup {n}
      /\ \A t \in DOMAIN refresh :
           /\ refresh'[t].login = refresh[t].login
           /\ refresh'[t].password = refresh[t].password
           /\ refresh'[t].raced <=> refresh[t].raced
      /\ refresh'[n].login = n
      /\ refresh'[n].password = q.password
      /\ refresh'[n].raced <=> q.raced
      /\ LoginsNumbered' /\ OneLiveUnlessRaced' /\ PresentsTheOne' /\ RevokeCovers'
  BY <1>3 DEF Issued
<1>5. /\ UnracedIsAlone' /\ ReadsCurrent' /\ DOMAIN req' = Request
      /\ \A s \in Request : \/ req'[s] \in {Idle} \cup ReadRequest
                             \/ req'[s] \in RevokeRequest
  BY <1>1, EndInv
<1>6. TypeOK'
  BY <1>1, <1>4, <1>5 DEF AccountInv, TypeOK
<1>7. ~q.raced => user.active /\ q.password = user.password
  BY <1>1 DEF AccountInv, ReadsCurrent
<1>8. SessionsCurrent'
  <2> SUFFICES ASSUME NEW t \in Live', ~refresh'[t].raced
      PROVE /\ user.active
            /\ refresh'[t].password = user.password
            /\ refresh'[t].login \notin ended
    BY <1>1 DEF SessionsCurrent
  <2>1. CASE t = n
    BY <1>2, <1>4, <1>7, <2>1
  <2>2. CASE t \in Live
    BY <1>2, <1>4, <2>2 DEF AccountInv, SessionsCurrent
  <2> QED
    BY <1>4, <2>1, <2>2
<1> QED
  BY <1>4, <1>5, <1>6, <1>8 DEF AccountInv

\* A rotation that no other request overlapped revokes the one live token.
LEMMA RefreshCommitInv ==
  ASSUME AccountInv, NEW r \in Request, RefreshCommit(r)
  PROVE  AccountInv'
<1> DEFINE n == Len(refresh) + 1
           q == req[r]
           k == q.token
           b == refresh[k].raced \/ q.raced
<1>1. /\ q.op = "refresh" /\ q # Idle
      /\ Issue(RevokeRows({k}), refresh[k].login, refresh[k].password, b)
      /\ End(r) /\ UNCHANGED <<user, mail, ended, uses>>
  BY DEF RefreshCommit, Rotated, Idle
<1>2. k \in DOMAIN refresh
  BY <1>1 DEF AccountInv, PresentsTheOne
<1>3. /\ refresh[k].login \in 1..n /\ refresh[k].password \in Nat
      /\ b \in BOOLEAN /\ Live \subseteq DOMAIN refresh
  <2>1. refresh[k] \in RefreshRow /\ refresh[k].login \in 1..k /\ k \in 1..Len(refresh)
    BY <1>2 DEF AccountInv, TypeOK, LoginsNumbered
  <2> QED
    BY <2>1 DEF RefreshRow, Live
<1>4. \A u \in Live \ {k} : refresh[u].login = refresh[k].login => refresh[u].raced /\ b
  BY <1>1 DEF AccountInv, PresentsTheOne
<1>5. Issued({k}, n, refresh[k].login, refresh[k].password, b)
  <2>1. MayIssue(r, {k}, refresh[k].login, refresh[k].password, b)
    BY <1>3, <1>4 DEF MayIssue
  <2> QED
    BY <1>1, <2>1, IssueInv
<1> HIDE DEF b
<1>6. /\ refresh' \in Seq(RefreshRow) /\ access' \in BOOLEAN
      /\ DOMAIN refresh' = DOMAIN refresh \cup {n}
      /\ Live' \subseteq (Live \ {k}) \cup {n}
      /\ \A t \in DOMAIN refresh :
           /\ refresh'[t].login = refresh[t].login
           /\ refresh'[t].password = refresh[t].password
           /\ refresh'[t].raced <=> refresh[t].raced
      /\ refresh'[n].login = refresh[k].login
      /\ refresh'[n].password = refresh[k].password
      /\ refresh'[n].raced <=> b
      /\ LoginsNumbered' /\ OneLiveUnlessRaced' /\ PresentsTheOne' /\ RevokeCovers'
  BY <1>5 DEF Issued
<1>7. /\ UnracedIsAlone' /\ ReadsCurrent' /\ DOMAIN req' = Request
      /\ \A s \in Request : \/ req'[s] \in {Idle} \cup ReadRequest
                             \/ req'[s] \in RevokeRequest
  BY <1>1, EndInv
<1>8. TypeOK'
  BY <1>1, <1>6, <1>7 DEF AccountInv, TypeOK
<1>9. ~b => Current(k)
  BY <1>1 DEF AccountInv, ReadsCurrent, b
<1>10. SessionsCurrent'
  <2> SUFFICES ASSUME NEW t \in Live', ~refresh'[t].raced
      PROVE /\ user.active
            /\ refresh'[t].password = user.password
            /\ refresh'[t].login \notin ended
    BY <1>1 DEF SessionsCurrent
  <2>1. CASE t = n
    BY <1>6, <1>9, <2>1 DEF Current
  <2>2. CASE t \in Live
    BY <1>3, <1>6, <2>2 DEF AccountInv, SessionsCurrent
  <2> QED
    BY <1>6, <2>1, <2>2
<1> QED
  BY <1>6, <1>7, <1>8, <1>10 DEF AccountInv

\* What else is live of a login that is logged out is due to races.
LEMMA LogoutCommitInv ==
  ASSUME AccountInv, NEW r \in Request, LogoutCommit(r)
  PROVE  AccountInv'
<1> DEFINE k == req[r].token
<1>1. /\ req[r].op = "logout" /\ req[r] # Idle
      /\ refresh' = RevokeRows({k}) /\ ended' = ended \cup {refresh[k].login}
      /\ End(r) /\ UNCHANGED <<user, mail, access, uses>>
  BY DEF LogoutCommit, Idle
<1>2. k \in DOMAIN refresh
  BY <1>1 DEF AccountInv, PresentsTheOne
<1>3. TypeOK /\ refresh[k].login \in DOMAIN refresh
  <2>1. refresh[k].login \in 1..k /\ k \in 1..Len(refresh) /\ DOMAIN refresh = 1..Len(refresh)
    BY <1>2 DEF AccountInv, TypeOK, LoginsNumbered
  <2> QED
    BY <2>1 DEF AccountInv, TypeOK
<1>4. RowsShrink /\ Live' = Live \ {k}
  BY <1>1, <1>3, RevokeShrinks
<1>5. /\ UnracedIsAlone' /\ ReadsCurrent' /\ DOMAIN req' = Request
      /\ \A s \in Request : req'[s] \in {Idle, req[s]}
      /\ \A s \in Request : \/ req'[s] \in {Idle} \cup ReadRequest
                             \/ req'[s] \in RevokeRequest
  BY <1>1, EndInv
<1>6. LoginsNumbered' /\ OneLiveUnlessRaced' /\ PresentsTheOne' /\ RevokeCovers'
  BY <1>4, <1>5, ShrinkInv
<1>7. TypeOK'
  BY <1>1, <1>3, <1>4, <1>5 DEF TypeOK, RowsShrink
<1>8. SessionsCurrent'
  <2> SUFFICES ASSUME NEW t \in Live', ~refresh'[t].raced
      PROVE /\ user.active
            /\ refresh'[t].password = user.password
            /\ refresh'[t].login \notin ended'
    BY <1>1 DEF SessionsCurrent
  <2>1. /\ t \in Live \ {k} /\ t \in DOMAIN refresh /\ ~refresh[t].raced
        /\ refresh'[t].password = refresh[t].password
        /\ refresh'[t].login = refresh[t].login
    BY <1>4 DEF Live, RowsShrink
  <2>2. refresh[t].login # refresh[k].login
    BY <1>1, <2>1 DEF AccountInv, PresentsTheOne
  <2> QED
    BY <1>1, <2>1, <2>2 DEF AccountInv, SessionsCurrent
<1> QED
  BY <1>5, <1>6, <1>7, <1>8 DEF AccountInv

LEMMA UserFacts ==
  ASSUME TypeOK
  PROVE  /\ user \in [active: BOOLEAN, verified: BOOLEAN, password: Nat]
         /\ [user EXCEPT !.active = FALSE] \in [active: BOOLEAN, verified: BOOLEAN, password: Nat]
         /\ LET u == [user EXCEPT !.verified = TRUE]
            IN /\ u \in [active: BOOLEAN, verified: BOOLEAN, password: Nat]
               /\ u.active = user.active /\ u.password = user.password
         /\ LET u == [user EXCEPT !.password = user.password + 1]
            IN u \in [active: BOOLEAN, verified: BOOLEAN, password: Nat]
<1>1. user \in [active: BOOLEAN, verified: BOOLEAN, password: Nat]
  BY DEF TypeOK
<1>2. [user EXCEPT !.active = FALSE] \in [active: BOOLEAN, verified: BOOLEAN, password: Nat]
  BY <1>1
<1>3. LET u == [user EXCEPT !.verified = TRUE]
      IN /\ u \in [active: BOOLEAN, verified: BOOLEAN, password: Nat]
         /\ u.active = user.active /\ u.password = user.password
  BY <1>1
<1>4. LET u == [user EXCEPT !.password = user.password + 1]
      IN u \in [active: BOOLEAN, verified: BOOLEAN, password: Nat]
  <2>1. user.password + 1 \in Nat
    BY <1>1
  <2> QED
    BY <1>1, <2>1
<1> QED
  BY <1>1, <1>2, <1>3, <1>4

\* Requests that end and leave the rows as they are.
LEMMA SameRowsInv ==
  ASSUME AccountInv, NEW r \in Request,
         VerifyEmailCommit(r) \/ Abort(r)
  PROVE  AccountInv'
<1>1. /\ req[r] # Idle /\ End(r)
      /\ UNCHANGED <<refresh, access, ended>>
      /\ user'.active = user.active /\ user'.password = user.password
      /\ user' \in [active: BOOLEAN, verified: BOOLEAN, password: Nat]
  <2>1. CASE VerifyEmailCommit(r)
    <3>1. user' = [user EXCEPT !.verified = TRUE]
      BY <2>1 DEF VerifyEmailCommit
    <3> QED
      BY <2>1, <3>1, UserFacts DEF VerifyEmailCommit, Idle, AccountInv
  <2>2. CASE Abort(r)
    BY <2>2, UserFacts DEF Abort, AccountInv
  <2> QED
    BY <2>1, <2>2
<1>2. mail' \in Seq(MailRow) /\ uses' \in [DOMAIN mail' -> Nat]
  <2>1. CASE VerifyEmailCommit(r)
    BY <2>1, UseLinkFacts DEF VerifyEmailCommit, AccountInv
  <2>2. CASE Abort(r)
    BY <2>2 DEF Abort, AccountInv, TypeOK
  <2> QED
    BY <2>1, <2>2
<1>3. /\ UnracedIsAlone' /\ ReadsCurrent' /\ DOMAIN req' = Request
      /\ \A s \in Request : req'[s] \in {Idle, req[s]}
      /\ \A s \in Request : \/ req'[s] \in {Idle} \cup ReadRequest
                             \/ req'[s] \in RevokeRequest
  BY <1>1, EndInv
<1>4. RowsShrink
  BY <1>1 DEF RowsShrink, AccountInv, TypeOK
<1>5. LoginsNumbered' /\ OneLiveUnlessRaced' /\ PresentsTheOne' /\ RevokeCovers'
  BY <1>3, <1>4, ShrinkInv
<1>6. TypeOK'
  BY <1>1, <1>2, <1>3 DEF AccountInv, TypeOK
<1>7. SessionsCurrent'
  BY <1>1 DEF AccountInv, SessionsCurrent, Live
<1> QED
  BY <1>3, <1>5, <1>6, <1>7 DEF AccountInv

\* The revocation of a handler covers what is live when it looks.
LEMMA UserUpdateInv ==
  ASSUME AccountInv, NEW r \in Request, UserUpdate(r)
  PROVE  AccountInv'
<1> DEFINE q == [op |-> "revoke", handler |-> req[r], revoke |-> Live, raced |-> req[r].raced]
<1>1. /\ req[r].op \in {"reset_password", "change_password", "delete_account"}
      /\ req[r] # Idle
      /\ req' = [req EXCEPT ![r] = q]
      /\ UNCHANGED <<user, refresh, mail, access, ended, uses>>
  BY DEF UserUpdate, RevokeAllForUser, Idle
<1>2. req[r] \in ReadRequest /\ req[r].raced \in BOOLEAN
  BY <1>1 DEF AccountInv, TypeOK, RevokeRequest, ReadRequest
<1>3. Live \in SUBSET Nat
  BY DEF AccountInv, TypeOK, Live
<1>4. q \in RevokeRequest
  BY <1>2, <1>3 DEF RevokeRequest
<1>5. /\ q.op = "revoke" /\ q.handler = req[r] /\ q.revoke = Live
      /\ q.raced = req[r].raced /\ q # Idle
  BY DEF Idle
<1> HIDE DEF q
<1>6. /\ DOMAIN req' = Request /\ req'[r] = q
      /\ \A s \in Request \ {r} : req'[s] = req[s]
  BY <1>1 DEF AccountInv, TypeOK
<1>7. TypeOK'
  BY <1>1, <1>4, <1>6 DEF AccountInv, TypeOK
<1>8. UnracedIsAlone'
  BY <1>1, <1>5, <1>6 DEF AccountInv, UnracedIsAlone
<1>9. SessionsCurrent' /\ OneLiveUnlessRaced' /\ LoginsNumbered'
  BY <1>1 DEF AccountInv, SessionsCurrent, OneLiveUnlessRaced, LoginsNumbered, Live
<1>10. ReadsCurrent'
  <2> SUFFICES ASSUME NEW s \in Request, req'[s] # Idle, ~req'[s].raced
      PROVE (/\ req'[s].op = "login" => user.active /\ req'[s].password = user.password
             /\ req'[s].op = "refresh" /\ ~refresh[req'[s].token].raced => Current(req'[s].token)
             /\ req'[s].op = "change_password" => user.active
             /\ Handler(s)' = "change_password" => user.active)
    BY <1>1 DEF ReadsCurrent, Current
  <2>1. s = r
    BY <1>1, <1>5, <1>6 DEF AccountInv, UnracedIsAlone
  <2>2. req[r].op = "change_password" => user.active
    BY <1>1, <1>5, <1>6, <2>1 DEF AccountInv, ReadsCurrent
  <2>3. Handler(s)' = req[r].op
    BY <1>5, <1>6, <2>1 DEF Handler
  <2> QED
    BY <1>5, <1>6, <2>1, <2>2, <2>3
<1>11. PresentsTheOne'
  BY <1>1, <1>5, <1>6 DEF AccountInv, PresentsTheOne, Live
<1>12. RevokeCovers'
  BY <1>1, <1>5, <1>6 DEF AccountInv, RevokeCovers, Live
<1> QED
  BY <1>7, <1>8, <1>9, <1>10, <1>11, <1>12 DEF AccountInv

\* What a mass revocation leaves live is due to races.
LEMMA RevokeCommitInv ==
  ASSUME AccountInv, NEW r \in Request,
         ResetPasswordCommit(r) \/ DeleteAccountCommit(r)
  PROVE  AccountInv'
<1> DEFINE S == req[r].revoke
<1>1. /\ req[r].op = "revoke" /\ req[r] # Idle
      /\ refresh' = RevokeRows(S) /\ End(r) /\ UNCHANGED <<access, ended>>
      /\ user' \in [active: BOOLEAN, verified: BOOLEAN, password: Nat]
  <2>1. CASE ResetPasswordCommit(r)
    <3>1. user' = [user EXCEPT !.password = user.password + 1]
      BY <2>1 DEF ResetPasswordCommit
    <3> QED
      BY <2>1, <3>1, UserFacts DEF ResetPasswordCommit, Handler, Idle, AccountInv
  <2>2. CASE DeleteAccountCommit(r)
    <3>1. user' = [user EXCEPT !.active = FALSE]
      BY <2>2 DEF DeleteAccountCommit
    <3> QED
      BY <2>2, <3>1, UserFacts DEF DeleteAccountCommit, Handler, Idle, AccountInv
  <2> QED
    BY <2>1, <2>2
<1>2. mail' \in Seq(MailRow) /\ uses' \in [DOMAIN mail' -> Nat]
  <2>1. CASE ResetPasswordCommit(r)
    BY <2>1, UseLinkFacts DEF ResetPasswordCommit, AccountInv
  <2>2. CASE DeleteAccountCommit(r)
    BY <2>2 DEF DeleteAccountCommit, AccountInv, TypeOK
  <2> QED
    BY <2>1, <2>2
<1>3. RowsShrink /\ Live' = Live \ S
  BY <1>1, RevokeShrinks DEF AccountInv
<1>4. /\ UnracedIsAlone' /\ ReadsCurrent' /\ DOMAIN req' = Request
      /\ \A s \in Request : req'[s] \in {Idle, req[s]}
      /\ \A s \in Request : \/ req'[s] \in {Idle} \cup ReadRequest
                             \/ req'[s] \in RevokeRequest
  BY <1>1, EndInv
<1>5. LoginsNumbered' /\ OneLiveUnlessRaced' /\ PresentsTheOne' /\ RevokeCovers'
  BY <1>3, <1>4, ShrinkInv
<1>6. TypeOK'
  BY <1>1, <1>2, <1>3, <1>4 DEF AccountInv, TypeOK, RowsShrink
<1>7. \A t \in Live' : refresh'[t].raced
  <2>1. \A t \in Live : t \in S \/ refresh[t].raced
    BY <1>1 DEF AccountInv, RevokeCovers
  <2> QED
    BY <1>3, <2>1 DEF RowsShrink, Live
<1>8. SessionsCurrent'
  BY <1>7 DEF SessionsCurrent
<1> QED
  BY <1>4, <1>5, <1>6, <1>8 DEF AccountInv

\* The pair of the device that changed the password is of the new password.
LEMMA ChangePasswordCommitInv ==
  ASSUME AccountInv, NEW r \in Request, ChangePasswordCommit(r)
  PROVE  AccountInv'
<1> DEFINE n == Len(refresh) + 1
           q == req[r]
           S == q.revoke
           p == user.password + 1
<1>1. /\ q.op = "revoke" /\ q # Idle /\ Handler(r) = "change_password"
      /\ user' = [user EXCEPT !.password = p]
      /\ Issue(RevokeRows(S), n, p, q.raced)
      /\ End(r) /\ UNCHANGED <<mail, ended, uses>>
  BY DEF ChangePasswordCommit, Handler, Idle
<1>2. /\ p \in Nat /\ q.raced \in BOOLEAN
      /\ n \in 1..n /\ n \notin ended
      /\ \A u \in Live : refresh[u].login # n
      /\ Live \subseteq DOMAIN refresh
      /\ user' \in [active: BOOLEAN, verified: BOOLEAN, password: Nat]
      /\ user'.active = user.active /\ user'.password = p
  <2>1. q.raced \in BOOLEAN
    BY <1>1, ReqRows DEF AccountInv
  <2> QED
    BY <1>1, <2>1 DEF AccountInv, TypeOK, LoginsNumbered, Live
<1>3. Issued(S, n, n, p, q.raced)
  <2>1. MayIssue(r, S, n, p, q.raced)
    BY <1>2 DEF MayIssue
  <2> QED
    BY <1>1, <2>1, IssueInv
<1>4. /\ refresh' \in Seq(RefreshRow) /\ access' \in BOOLEAN
      /\ DOMAIN refresh' = DOMAIN refresh \cup {n}
      /\ Live' \subseteq (Live \ S) \cup {n}
      /\ \A t \in DOMAIN refresh : refresh'[t].raced <=> refresh[t].raced
      /\ refresh'[n].login = n
      /\ refresh'[n].password = p
      /\ refresh'[n].raced <=> q.raced
      /\ LoginsNumbered' /\ OneLiveUnlessRaced' /\ PresentsTheOne' /\ RevokeCovers'
  BY <1>3 DEF Issued
<1>5. /\ UnracedIsAlone' /\ ReadsCurrent' /\ DOMAIN req' = Request
      /\ \A s \in Request : \/ req'[s] \in {Idle} \cup ReadRequest
                             \/ req'[s] \in RevokeRequest
  BY <1>1, EndInv
<1>6. TypeOK'
  BY <1>1, <1>2, <1>4, <1>5 DEF AccountInv, TypeOK
<1>7. ~q.raced => user.active
  BY <1>1 DEF AccountInv, ReadsCurrent
<1>8. \A t \in Live \ S : refresh[t].raced
  BY <1>1 DEF AccountInv, RevokeCovers
<1>9. SessionsCurrent'
  <2> SUFFICES ASSUME NEW t \in Live', ~refresh'[t].raced
      PROVE /\ user'.active
            /\ refresh'[t].password = user'.password
            /\ refresh'[t].login \notin ended'
    BY DEF SessionsCurrent
  <2>1. t = n
    BY <1>2, <1>4, <1>8
  <2> QED
    BY <1>1, <1>2, <1>4, <1>7, <2>1
<1> QED
  BY <1>4, <1>5, <1>6, <1>9 DEF AccountInv

LEMMA SendLinkInv ==
  ASSUME AccountInv, NEW purpose \in Purpose, SendLink(purpose)
  PROVE  AccountInv'
<1> DEFINE row == NewMail(purpose)
<1>1. row \in MailRow
  BY DEF NewMail, MailRow
<1>2. /\ mail' = Append(mail, row) /\ uses' = Append(uses, 0)
      /\ UNCHANGED <<user, refresh, access, req, ended>>
  BY DEF SendLink
<1> HIDE DEF row
<1>3. mail \in Seq(MailRow) /\ uses \in [DOMAIN mail -> Nat]
  BY DEF AccountInv, TypeOK
<1>4. /\ mail' \in Seq(MailRow) /\ Len(mail) \in Nat
      /\ DOMAIN mail' = 1..(Len(mail) + 1)
  BY <1>1, <1>2, <1>3
<1>5. uses \in Seq(Nat) /\ Len(uses) = Len(mail)
  BY <1>3
<1>6. uses' \in [DOMAIN mail' -> Nat]
  <2>1. uses' \in Seq(Nat) /\ Len(uses') = Len(mail) + 1
    BY <1>2, <1>5
  <2>2. uses' \in [1..Len(uses') -> Nat]
    BY <2>1
  <2> QED
    BY <1>4, <2>1, <2>2
<1>7. TypeOK'
  BY <1>2, <1>4, <1>6 DEF AccountInv, TypeOK
<1>8. UnracedIsAlone' /\ PresentsTheOne' /\ RevokeCovers'
  BY <1>2 DEF AccountInv, UnracedIsAlone, PresentsTheOne, RevokeCovers, Live
<1>9. ReadsCurrent'
  BY <1>2 DEF AccountInv, ReadsCurrent, Current, Handler
<1>10. SessionsCurrent' /\ OneLiveUnlessRaced' /\ LoginsNumbered'
  BY <1>2 DEF AccountInv, SessionsCurrent, OneLiveUnlessRaced, LoginsNumbered, Live
<1> QED
  BY <1>7, <1>8, <1>9, <1>10 DEF AccountInv

LEMMA ExpireInv ==
  ASSUME AccountInv, Expire
  PROVE  AccountInv'
<1>1. UNCHANGED <<user, req, ended, uses>>
  BY DEF Expire
<1>2. RowsShrink
  <2>1. CASE \E t \in Live : refresh' = RevokeRows({t})
    BY <2>1, RevokeShrinks DEF AccountInv
  <2>2. CASE refresh' = refresh
    BY <2>2 DEF RowsShrink, AccountInv, TypeOK
  <2> QED
    BY <2>1, <2>2 DEF Expire
<1>3. mail' \in Seq(MailRow) /\ DOMAIN mail' = DOMAIN mail /\ access' \in BOOLEAN
  <2>1. CASE \E i \in DOMAIN mail : mail' = [mail EXCEPT ![i].usable = FALSE]
    <3>1. PICK i \in DOMAIN mail : mail' = [mail EXCEPT ![i].usable = FALSE]
      BY <2>1
    <3>2. mail \in Seq(MailRow) /\ [mail[i] EXCEPT !.usable = FALSE] \in MailRow
      <4>1. mail \in Seq(MailRow) /\ mail[i] \in MailRow
        BY DEF AccountInv, TypeOK
      <4> QED
        BY <4>1 DEF MailRow
    <3>3. access' \in BOOLEAN
      BY DEF Expire, AccountInv, TypeOK
    <3> QED
      BY <3>1, <3>2, <3>3
  <2>2. CASE mail' = mail
    BY <2>2 DEF Expire, AccountInv, TypeOK
  <2> QED
    BY <2>1, <2>2 DEF Expire
<1>4. LoginsNumbered' /\ OneLiveUnlessRaced' /\ PresentsTheOne' /\ RevokeCovers'
  BY <1>1, <1>2, ShrinkInv
<1>5. TypeOK'
  BY <1>1, <1>2, <1>3 DEF AccountInv, TypeOK, RowsShrink
<1>6. UnracedIsAlone'
  BY <1>1 DEF AccountInv, UnracedIsAlone
<1>7. SessionsCurrent'
  BY <1>1, <1>2 DEF AccountInv, SessionsCurrent, RowsShrink, Live
<1>8. ReadsCurrent'
  <2>1. \A t \in DOMAIN refresh :
          /\ refresh'[t].login = refresh[t].login
          /\ refresh'[t].password = refresh[t].password
          /\ refresh'[t].raced <=> refresh[t].raced
    BY <1>2 DEF RowsShrink
  <2>2. \A r \in Request : req[r].op = "refresh" => req[r].token \in DOMAIN refresh
    BY DEF AccountInv, PresentsTheOne
  <2> QED
    BY <1>1, <2>1, <2>2 DEF AccountInv, ReadsCurrent, Current, Handler
<1> QED
  BY <1>4, <1>5, <1>6, <1>7, <1>8 DEF AccountInv

-----------------------------------------------------------------------------
(* The theorems. *)

\* Every step keeps the invariant.
LEMMA AccountNextInv == AccountInv /\ [Next]_vars => AccountInv'
<1> SUFFICES ASSUME AccountInv, [Next]_vars
    PROVE  AccountInv'
  OBVIOUS
<1>1. ASSUME NEW r \in Request, RequestRead(r) PROVE AccountInv'
  BY <1>1, RequestReadInv
<1>2. ASSUME NEW r \in Request, UserUpdate(r) PROVE AccountInv'
  BY <1>2, UserUpdateInv
<1>3. ASSUME NEW r \in Request, RequestCommit(r) PROVE AccountInv'
  BY <1>3, LoginCommitInv, RefreshCommitInv, LogoutCommitInv, SameRowsInv,
     RevokeCommitInv, ChangePasswordCommitInv DEF RequestCommit
<1>4. ASSUME NEW r \in Request, Abort(r) PROVE AccountInv'
  BY <1>4, SameRowsInv
<1>5. ASSUME NEW purpose \in Purpose, SendLink(purpose) PROVE AccountInv'
  BY <1>5, SendLinkInv
<1>6. CASE Expire
  BY <1>6, ExpireInv
<1>7. CASE UNCHANGED vars
  <2>1. UNCHANGED <<user, refresh, mail, access, req, ended, uses>>
    BY <1>7 DEF vars
  <2>2. TypeOK' /\ LoginsNumbered' /\ UnracedIsAlone' /\ SessionsCurrent' /\ OneLiveUnlessRaced'
    BY <2>1 DEF AccountInv, TypeOK, LoginsNumbered, UnracedIsAlone, SessionsCurrent,
                OneLiveUnlessRaced, Live
  <2>3. ReadsCurrent' /\ PresentsTheOne' /\ RevokeCovers'
    BY <2>1 DEF AccountInv, ReadsCurrent, PresentsTheOne, RevokeCovers, Live, Current, Handler
  <2> QED
    BY <2>2, <2>3 DEF AccountInv
<1> QED
  BY <1>1, <1>2, <1>3, <1>4, <1>5, <1>6, <1>7 DEF Next

\* The tokens, the links and the requests keep their shape.
THEOREM AccountTypeCorrect == Spec => []TypeOK
<1>1. AccountInv => TypeOK
  BY DEF AccountInv
<1> QED
  BY AccountInitInv, AccountNextInv, <1>1, PTL DEF Spec

\* A refresh token that works, unless a request it comes from overlapped
\* another one, is of the current password, of an account that exists and of a
\* login that was not logged out.
THEOREM SessionsStayCurrent == Spec => []SessionsCurrent
<1>1. AccountInv => SessionsCurrent
  BY DEF AccountInv
<1> QED
  BY AccountInitInv, AccountNextInv, <1>1, PTL DEF Spec

\* Two working refresh tokens of one login both come from requests that
\* overlapped.
THEOREM RotationLeavesOne == Spec => []OneLiveUnlessRaced
<1>1. AccountInv => OneLiveUnlessRaced
  BY DEF AccountInv
<1> QED
  BY AccountInitInv, AccountNextInv, <1>1, PTL DEF Spec

-----------------------------------------------------------------------------
(* Links. *)

\* The link a request is about to use.
LinkOf(r) ==
  CASE req[r].op \in {"verify", "reset_password"} -> {req[r].link}
    [] Handler(r) = "reset_password"              -> {req[r].handler.link}
    [] OTHER                                      -> {}

LinkInv ==
  /\ LinksSingleUse
  /\ \A i \in DOMAIN mail : mail[i].usable => uses[i] = 0
  /\ \A r \in Request : req[r] # Idle /\ ~req[r].raced =>
       \A i \in LinkOf(r) : i \in DOMAIN mail /\ uses[i] = 0

\* A request that begins takes a link that nobody has used.
LEMMA BeginLinkInv ==
  ASSUME AccountInv, LinkInv, NEW r \in Request, NEW q \in ReadRequest, Begin(r, q),
         q.op \in {"verify", "reset_password"} => q.link \in DOMAIN mail /\ mail[q.link].usable
  PROVE  LinkInv'
<1>1. TypeOK /\ q \in ReqRow /\ q.op # "revoke"
  BY DEF AccountInv, ReqRow, ReadRequest
<1>2. UNCHANGED <<mail, uses>>
  BY DEF Begin
<1>3. PICK b \in BOOLEAN :
        /\ req'[r] = [q EXCEPT !.raced = b]
        /\ ~b => \A s \in Request \ {r} : req[s] = Idle /\ req'[s] = Idle
  BY <1>1, BeginFacts
<1>4. /\ req'[r].op = q.op /\ (req'[r].raced <=> b)
      /\ q.op \in {"verify", "reset_password"} => req'[r].link = q.link
  BY <1>1, <1>3, RacedFacts
<1>5. ASSUME NEW s \in Request \ {r}, req'[s] # Idle
      PROVE  req'[s].raced
  <2>1. req[s] # Idle /\ req'[s] = [req[s] EXCEPT !.raced = TRUE]
    BY <1>1, <1>5, BeginFacts
  <2>2. req[s] \in ReqRow
    BY <1>1, <2>1, ReqRows
  <2> QED
    BY <2>1, <2>2, RacedFacts
<1>6. \A i \in LinkOf(r)' : i \in DOMAIN mail /\ uses[i] = 0
  BY <1>1, <1>4 DEF LinkOf, Handler, LinkInv
<1> QED
  BY <1>2, <1>5, <1>6 DEF LinkInv, LinksSingleUse

LEMMA ReadLinkInv ==
  ASSUME AccountInv, LinkInv, NEW r \in Request, RequestRead(r)
  PROVE  LinkInv'
<1>1. user.password \in Nat /\ \A t \in DOMAIN refresh : t \in Nat
  BY DEF AccountInv, TypeOK
<1>2. \A i \in DOMAIN mail : i \in Nat
  BY DEF AccountInv, TypeOK
<1>3. ASSUME LoginRead(r) \/ OAuthLoginRead(r)
      PROVE  LinkInv'
  <2> DEFINE q == [op |-> "login", password |-> user.password, raced |-> FALSE]
  <2>1. q \in ReadRequest /\ q.op = "login" /\ Begin(r, q)
    BY <1>1, <1>3 DEF ReadRequest, LoginRead, OAuthLoginRead
  <2> QED
    BY <2>1, BeginLinkInv
<1>4. ASSUME NEW t \in DOMAIN refresh, RefreshRead(r, t) \/ LogoutRead(r, t)
      PROVE  LinkInv'
  <2>1. PICK name \in {"refresh", "logout"} :
          Begin(r, [op |-> name, token |-> t, raced |-> FALSE])
    BY <1>4 DEF RefreshRead, LogoutRead
  <2>2. [op |-> name, token |-> t, raced |-> FALSE] \in ReadRequest
    BY <1>1 DEF ReadRequest
  <2> QED
    BY <2>1, <2>2, BeginLinkInv
<1>5. ASSUME NEW i \in DOMAIN mail, VerifyEmailRead(r, i) \/ ResetPasswordRead(r, i)
      PROVE  LinkInv'
  <2>1. PICK name \in {"verify", "reset_password"} :
          Begin(r, [op |-> name, link |-> i, raced |-> FALSE])
    BY <1>5 DEF VerifyEmailRead, ResetPasswordRead
  <2>2. [op |-> name, link |-> i, raced |-> FALSE] \in ReadRequest
    BY <1>2 DEF ReadRequest
  <2>3. mail[i].usable
    BY <1>5 DEF VerifyEmailRead, ResetPasswordRead, Usable
  <2> QED
    BY <2>1, <2>2, <2>3, BeginLinkInv
<1>6. ASSUME ChangePasswordRead(r) \/ DeleteAccountRead(r)
      PROVE  LinkInv'
  <2>1. PICK name \in {"change_password", "delete_account"} :
          Begin(r, [op |-> name, raced |-> FALSE])
    BY <1>6 DEF ChangePasswordRead, DeleteAccountRead
  <2>2. [op |-> name, raced |-> FALSE] \in ReadRequest
    BY DEF ReadRequest
  <2> QED
    BY <2>1, <2>2, BeginLinkInv
<1> QED
  BY <1>3, <1>4, <1>5, <1>6 DEF RequestRead

\* The request that uses a link unraced is the first to do so, and the last.
LEMMA UseLinkInv ==
  ASSUME AccountInv, LinkInv, NEW r \in Request, req[r] # Idle, End(r),
         NEW i \in LinkOf(r), UseLink(r, i)
  PROVE  LinkInv'
<1>1. /\ mail \in Seq(MailRow) /\ uses \in [DOMAIN mail -> Nat]
      /\ mail' = [mail EXCEPT ![i] = MarkUsed(mail[i])]
      /\ uses' = [uses EXCEPT ![i] = IF req[r].raced THEN uses[i] ELSE uses[i] + 1]
  BY DEF AccountInv, TypeOK, UseLink
<1>2. \A row \in MailRow : ~MarkUsed(row).usable
  BY DEF MarkUsed, MailRow
<1>3. DOMAIN mail' = DOMAIN mail /\ \A j \in DOMAIN mail \ {i} : mail'[j] = mail[j]
  BY <1>1
<1>4. i \in DOMAIN mail => ~mail'[i].usable
  BY <1>1, <1>2
<1>5. /\ \A j \in DOMAIN mail \ {i} : uses'[j] = uses[j]
      /\ i \in DOMAIN mail => uses'[i] <= 1
  <2>1. ~req[r].raced => uses[i] = 0
    BY DEF LinkInv
  <2>2. i \in DOMAIN mail => uses[i] <= 1
    BY DEF LinkInv, LinksSingleUse
  <2> QED
    BY <1>1, <2>1, <2>2
<1>6. \A s \in Request : req'[s] # Idle => req'[s].raced
  BY EndFacts
<1> QED
  BY <1>3, <1>4, <1>5, <1>6 DEF LinkInv, LinksSingleUse

LEMMA LinkNextInv == AccountInv /\ LinkInv /\ [Next]_vars => LinkInv'
<1> SUFFICES ASSUME AccountInv, LinkInv, [Next]_vars
    PROVE  LinkInv'
  OBVIOUS
<1>1. ASSUME NEW r \in Request, RequestRead(r) PROVE LinkInv'
  BY <1>1, ReadLinkInv
<1>2. ASSUME NEW r \in Request, UserUpdate(r) PROVE LinkInv'
  <2>1. /\ req[r].op \in {"reset_password", "change_password", "delete_account"}
        /\ req[r] # Idle /\ UNCHANGED <<mail, uses>>
        /\ req' = [req EXCEPT ![r] =
             [op |-> "revoke", handler |-> req[r], revoke |-> Live, raced |-> req[r].raced]]
    BY <1>2 DEF UserUpdate, RevokeAllForUser, Idle
  <2>2. /\ req'[r].op = "revoke" /\ req'[r].handler = req[r] /\ req'[r].raced = req[r].raced
        /\ \A s \in Request \ {r} : req'[s] = req[s]
    BY <2>1 DEF AccountInv, TypeOK
  <2>3. LinkOf(r)' \subseteq LinkOf(r)
    BY <2>1, <2>2 DEF LinkOf, Handler
  <2>4. \A s \in Request \ {r} : LinkOf(s)' = LinkOf(s)
    BY <2>2 DEF LinkOf, Handler
  <2> QED
    BY <2>1, <2>2, <2>3, <2>4 DEF LinkInv, LinksSingleUse
<1>3. ASSUME NEW r \in Request, VerifyEmailCommit(r) PROVE LinkInv'
  <2>1. req[r].op = "verify" /\ End(r) /\ UseLink(r, req[r].link)
    BY <1>3 DEF VerifyEmailCommit
  <2>2. LinkOf(r) = {req[r].link}
    BY <2>1 DEF LinkOf, Handler
  <2>3. req[r] # Idle
    BY <2>1 DEF Idle
  <2> QED
    BY <2>1, <2>2, <2>3, UseLinkInv
<1>4. ASSUME NEW r \in Request, ResetPasswordCommit(r) PROVE LinkInv'
  <2>1. /\ req[r] # Idle /\ End(r) /\ UseLink(r, req[r].handler.link)
        /\ req[r].handler.link \in LinkOf(r)
    BY <1>4 DEF ResetPasswordCommit, LinkOf, Handler, Idle
  <2> QED
    BY <2>1, UseLinkInv
<1>5. ASSUME NEW r \in Request, req[r] # Idle, End(r), UNCHANGED <<mail, uses>> PROVE LinkInv'
  <2>1. \A s \in Request : req'[s] # Idle => req'[s].raced
    BY <1>5, EndFacts
  <2> QED
    BY <1>5, <2>1 DEF LinkInv, LinksSingleUse
<1>6. ASSUME NEW r \in Request, RequestCommit(r) \/ Abort(r) PROVE LinkInv'
  <2>1. ASSUME \/ LoginCommit(r) \/ RefreshCommit(r) \/ LogoutCommit(r)
               \/ ChangePasswordCommit(r) \/ DeleteAccountCommit(r) \/ Abort(r)
        PROVE  req[r] # Idle /\ End(r) /\ UNCHANGED <<mail, uses>>
    BY <2>1 DEF LoginCommit, RefreshCommit, LogoutCommit, ChangePasswordCommit,
                DeleteAccountCommit, Abort, Handler, Idle
  <2> QED
    BY <1>3, <1>4, <1>5, <1>6, <2>1 DEF RequestCommit
<1>7. ASSUME NEW purpose \in Purpose, SendLink(purpose) PROVE LinkInv'
  <2> DEFINE row == NewMail(purpose)
             n == Len(mail) + 1
  <2>1. /\ mail' = Append(mail, row) /\ uses' = Append(uses, 0) /\ req' = req
    BY <1>7 DEF SendLink
  <2> HIDE DEF row
  <2>2. mail \in Seq(MailRow) /\ uses \in [DOMAIN mail -> Nat]
    BY DEF AccountInv, TypeOK
  <2>3. /\ DOMAIN mail = 1..Len(mail) /\ Len(mail) \in Nat
        /\ DOMAIN mail' = 1..n /\ \A i \in 1..Len(mail) : mail'[i] = mail[i]
    BY <2>1, <2>2
  <2>4. uses \in Seq(Nat) /\ Len(uses) = Len(mail)
    BY <2>2
  <2>5. uses'[n] = 0 /\ \A i \in 1..Len(mail) : uses'[i] = uses[i]
    BY <2>1, <2>4
  <2>6. \A r \in Request : LinkOf(r)' = LinkOf(r)
    BY <2>1 DEF LinkOf, Handler
  <2>7. LinksSingleUse' /\ \A i \in DOMAIN mail' : mail'[i].usable => uses'[i] = 0
    BY <2>3, <2>5 DEF LinkInv, LinksSingleUse
  <2>8. \A r \in Request : req'[r] # Idle /\ ~req'[r].raced =>
          \A i \in LinkOf(r)' : i \in DOMAIN mail' /\ uses'[i] = 0
    <3> TAKE r \in Request
    <3> HAVE req'[r] # Idle /\ ~req'[r].raced
    <3>1. \A i \in LinkOf(r) : i \in DOMAIN mail /\ uses[i] = 0
      BY <2>1 DEF LinkInv
    <3>2. LinkOf(r)' = LinkOf(r)
      BY <2>6
    <3> QED
      BY <2>3, <2>5, <3>1, <3>2
  <2> QED
    BY <2>7, <2>8 DEF LinkInv
<1>8. ASSUME UNCHANGED <<req, uses>>, DOMAIN mail' = DOMAIN mail,
             \A i \in DOMAIN mail : mail'[i].usable => mail[i].usable
      PROVE  LinkInv'
  <2>1. \A r \in Request : LinkOf(r)' = LinkOf(r)
    BY <1>8 DEF LinkOf, Handler
  <2> QED
    BY <1>8, <2>1 DEF LinkInv, LinksSingleUse
<1>9. CASE Expire
  <2>1. UNCHANGED <<req, uses>>
    BY <1>9 DEF Expire
  <2>2. CASE mail' = mail
    BY <1>8, <2>1, <2>2
  <2>3. CASE \E i \in DOMAIN mail : mail' = [mail EXCEPT ![i].usable = FALSE]
    <3>1. PICK i \in DOMAIN mail : mail' = [mail EXCEPT ![i].usable = FALSE]
      BY <2>3
    <3>2. mail \in Seq(MailRow) /\ mail[i] \in MailRow
      BY DEF AccountInv, TypeOK
    <3>3. ~[mail[i] EXCEPT !.usable = FALSE].usable
      BY <3>2 DEF MailRow
    <3>4. DOMAIN mail' = DOMAIN mail /\ \A j \in DOMAIN mail : mail'[j].usable => mail[j].usable
      BY <3>1, <3>2, <3>3
    <3> QED
      BY <1>8, <2>1, <3>4
  <2> QED
    BY <1>9, <2>2, <2>3 DEF Expire
<1>10. CASE UNCHANGED vars
  BY <1>8, <1>10 DEF vars
<1> QED
  BY <1>1, <1>2, <1>6, <1>7, <1>9, <1>10 DEF Next

LEMMA LinkInitInv == Init => LinkInv
<1> SUFFICES ASSUME Init PROVE LinkInv
  OBVIOUS
<1>1. /\ uses = [i \in DOMAIN mail |-> 0] /\ \A r \in Request : req[r] = Idle
  BY DEF Init
<1> QED
  BY <1>1 DEF LinkInv, LinksSingleUse

\* A link is used at most once by requests that overlapped no other.
THEOREM LinksAreSingleUse == Spec => []LinksSingleUse
<1>1. LinkInv => LinksSingleUse
  BY DEF LinkInv
<1> QED
  BY AccountInitInv, AccountNextInv, LinkInitInv, LinkNextInv, <1>1, PTL DEF Spec

-----------------------------------------------------------------------------
(* Signing in with a provider.  What a callback has found of the link of its *)
(* identity tells what it may do with it: a link it follows is the one it    *)
(* read, and one it replaces led nowhere, or to a user who is deleted for    *)
(* good.                                                                     *)

CallbackIsSound(q) ==
  /\ q.identity \in Identity
  /\ q.user \in Address
  /\ q.link \in Address \cup {Unlinked}
  /\ q.op = "enter" => q.link = q.user
  /\ q.op \in {"enter", "link"} => userAt[q.user] # "none"
  /\ q.op \in {"link", "make"} => q.link = Unlinked \/ userAt[q.link] = "deleted"

SocialInv ==
  /\ SocialTypeOK
  /\ \A r \in SignIn : callback[r].op # "none" => CallbackIsSound(callback[r])
  /\ DOMAIN callback = SignIn /\ DOMAIN entered = Identity

LEMMA SocialInitInv == SocialInit => SocialInv
  BY DEF SocialInit, SocialInv, SocialTypeOK, NoCallback

\* What the lookup finds, for an identity whose link leads to a row.
LEMMA FoundFacts ==
  ASSUME SocialTypeOK, NEW i \in Identity, NEW a \in Address
  PROVE  /\ Found(i, a).op \in {"enter", "link", "make"}
         /\ Found(i, a).user \in Address
         /\ Found(i, a).op = "enter" => linkOf[i] = Found(i, a).user
         /\ Found(i, a).op \in {"enter", "link"} => userAt[Found(i, a).user] # "none"
         /\ Found(i, a).op \in {"link", "make"} =>
              linkOf[i] = Unlinked \/ userAt[linkOf[i]] = "deleted"
<1>1. /\ linkOf[i] \in Address \cup {Unlinked} /\ userAt[a] \in {"none", "live", "deleted"}
      /\ linkOf[i] # Unlinked => userAt[linkOf[i]] \in {"live", "deleted"}
  BY SocialAssumption DEF SocialTypeOK
<1>2. CASE linkOf[i] \in LiveUsers
  <2>1. Found(i, a) = [op |-> "enter", user |-> linkOf[i]]
    BY <1>2 DEF Found
  <2> QED
    BY <1>2, <2>1 DEF LiveUsers
<1>3. CASE linkOf[i] \notin LiveUsers /\ a \in LiveUsers
  <2>1. Found(i, a) = [op |-> "link", user |-> a]
    BY <1>3 DEF Found
  <2> QED
    BY <1>1, <1>3, <2>1 DEF LiveUsers
<1>4. CASE linkOf[i] \notin LiveUsers /\ a \notin LiveUsers
  <2>1. Found(i, a) = [op |-> "make", user |-> a]
    BY <1>4 DEF Found
  <2> QED
    BY <1>1, <1>4, <2>1 DEF LiveUsers
<1> QED
  BY <1>2, <1>3, <1>4

\* Rows of users are never taken away, and a deleted one stays deleted.
LEMMA CallbackStaysSound ==
  ASSUME SocialInv, NEW s \in SignIn, callback'[s] = callback[s], callback'[s].op # "none",
         \A a \in Address : userAt'[a] = userAt[a] \/ (userAt'[a] = "live" /\ userAt[a] = "none")
                            \/ userAt'[a] = "deleted"
  PROVE  CallbackIsSound(callback[s])'
  BY SocialAssumption DEF CallbackIsSound, SocialInv, SocialTypeOK

LEMMA SocialNextInv ==
  ASSUME SocialInv, [SocialNext]_socialVars
  PROVE  SocialInv' /\ [IdentityKept]_socialVars
<1>1. ASSUME NEW r \in SignIn, NEW i \in Identity, NEW a \in Address, CallbackRead(r, i, a)
      PROVE  SocialInv' /\ IdentityKept
  <2>1. CallbackIsSound(callback[r])' /\ callback'[r].op \in {"enter", "link", "make"}
    <3>1. PICK f : f = Found(i, a)
      OBVIOUS
    <3>2. callback'[r] = [op |-> f.op, user |-> f.user, identity |-> i, link |-> linkOf[i]]
      BY <1>1, <3>1 DEF CallbackRead, SocialInv
    <3>3. linkOf[i] \in Address \cup {Unlinked} /\ UNCHANGED userAt
      BY <1>1 DEF CallbackRead, SocialInv, SocialTypeOK
    <3>4. SocialTypeOK
      BY DEF SocialInv
    <3> QED
      BY <3>1, <3>2, <3>3, <3>4, FoundFacts DEF CallbackIsSound
  <2>2. \A s \in SignIn : callback'[s] = callback[s] /\ callback'[s].op # "none" =>
          CallbackIsSound(callback[s])'
    BY <1>1, CallbackStaysSound DEF CallbackRead
  <2> QED
    BY <1>1, <2>1, <2>2, FoundFacts DEF CallbackRead, IdentityKept, SocialInv, SocialTypeOK
<1>2. ASSUME NEW r \in SignIn, EnterCommit(r)
      PROVE  SocialInv' /\ IdentityKept
  <2>1. \A s \in SignIn : callback'[s] = callback[s] /\ callback'[s].op # "none" =>
          CallbackIsSound(callback[s])'
    BY <1>2, CallbackStaysSound DEF EnterCommit
  <2> QED
    BY <1>2, <2>1 DEF EnterCommit, CallbackOver, Enters, NoCallback, IdentityKept, CallbackIsSound, SocialInv, SocialTypeOK
<1>3. ASSUME NEW r \in SignIn, LinkCommit(r)
      PROVE  SocialInv' /\ IdentityKept
  <2>1. CallbackIsSound(callback[r]) /\ callback[r].op \in {"link", "make"}
    BY <1>3 DEF LinkCommit, SocialInv, SocialTypeOK
  <2>2. \A a \in Address : userAt'[a] = userAt[a] \/ (userAt'[a] = "live" /\ userAt[a] = "none")
    BY <1>3, <2>1 DEF LinkCommit, CallbackIsSound, SocialInv, SocialTypeOK
  <2>3. \A s \in SignIn : callback'[s] = callback[s] /\ callback'[s].op # "none" =>
          CallbackIsSound(callback[s])'
    BY <2>2, CallbackStaysSound
  <2>4. userAt' \in [Address -> {"none", "live", "deleted"}] /\ userAt'[callback[r].user] # "none"
    BY <1>3, <2>1 DEF LinkCommit, CallbackIsSound, SocialInv, SocialTypeOK
  <2>5. linkOf' = [linkOf EXCEPT ![callback[r].identity] = callback[r].user]
    BY <1>3 DEF LinkCommit, SocialInv, SocialTypeOK
  <2>6. SocialInv'
    BY <1>3, <2>1, <2>2, <2>3, <2>4, <2>5, SocialAssumption
       DEF SocialInv, SocialTypeOK, LinkCommit, CallbackOver, Enters, NoCallback, CallbackIsSound
  <2>7. IdentityKept
    BY <1>3, <2>1, <2>5 DEF LinkCommit, Enters, CallbackIsSound, IdentityKept, SocialInv, SocialTypeOK
  <2> QED
    BY <2>6, <2>7
<1>4. ASSUME NEW r \in SignIn, CallbackFails(r)
      PROVE  SocialInv' /\ IdentityKept
  <2>1. \A s \in SignIn : callback'[s] = callback[s] /\ callback'[s].op # "none" =>
          CallbackIsSound(callback[s])'
    BY <1>4, CallbackStaysSound DEF CallbackFails
  <2> QED
    BY <1>4, <2>1 DEF CallbackFails, CallbackOver, NoCallback, IdentityKept, SocialInv, SocialTypeOK
<1>5. ASSUME NEW a \in Address, UserComes(a) \/ UserGoes(a)
      PROVE  SocialInv' /\ IdentityKept
  <2>1. \A b \in Address : userAt'[b] = userAt[b] \/ (userAt'[b] = "live" /\ userAt[b] = "none")
                           \/ userAt'[b] = "deleted"
    BY <1>5 DEF UserComes, UserGoes, SocialInv, SocialTypeOK
  <2>2. \A s \in SignIn : callback'[s] = callback[s] /\ callback'[s].op # "none" =>
          CallbackIsSound(callback[s])'
    BY <2>1, CallbackStaysSound
  <2> QED
    BY <1>5, <2>1, <2>2 DEF UserComes, UserGoes, IdentityKept, SocialInv, SocialTypeOK
<1>6. CASE UNCHANGED socialVars
  <2>1. \A s \in SignIn : callback'[s] = callback[s] /\ callback'[s].op # "none" =>
          CallbackIsSound(callback[s])'
    BY <1>6, CallbackStaysSound DEF socialVars
  <2> QED
    BY <1>6, <2>1 DEF socialVars, IdentityKept, SocialInv, SocialTypeOK
<1> QED
  BY <1>1, <1>2, <1>3, <1>4, <1>5, <1>6 DEF SocialNext, SocialInv, SocialTypeOK

-----------------------------------------------------------------------------
(* E-mail.  A letter is in the hands of one errand, or has been logged, or   *)
(* was lost; an invite is in its request alone until that commits.           *)

\* Letters are numbered as they are written.
LettersNumbered ==
  /\ written \in 0..MaxLetter
  /\ \A r \in Poster : posting[r] # NotPosting =>
       /\ posting[r].id <= written
       /\ \A s \in Poster \ {r} : posting[s] # posting[r]
  /\ \A e \in errands : e.letter.id <= written
  /\ \A l \in mailLog : l.letter.id <= written
  /\ \A letter \in mailbox : letter.id <= written

\* An invite that is not committed is in no errand, no mailbox and no log.
InvitesWait ==
  \A r \in Poster : posting[r].kind = "invite" =>
    /\ posting[r] \notin mailbox
    /\ \A e \in errands : e.letter # posting[r]
    /\ \A l \in mailLog : l.letter # posting[r]

\* A letter has one errand at a time, and none once it is logged; the errand
\* knows whether it has arrived.
OneErrand ==
  /\ \A e, f \in errands : e.letter = f.letter => e = f
  /\ \A e \in errands : \A l \in mailLog : l.letter # e.letter
  /\ \A e \in errands : IF e.step = "log" THEN e.sent <=> e.letter \in mailbox
                        ELSE e.letter \notin mailbox

\* Who writes to an account has found it, and it stays.
Reader(letter) == letter.user /\ letter.kind \notin NewAccount => letter.to \in known
ReadersKnown ==
  /\ \A r \in Poster : posting[r] # NotPosting => Reader(posting[r])
  /\ \A e \in errands : Reader(e.letter)

MailInv ==
  /\ MailTypeOK /\ LettersNumbered /\ InvitesWait /\ OneErrand /\ ReadersKnown
  /\ MailIsAccountedFor

LEMMA MailInitInv == MailInit => MailInv
  BY MailAssumption
     DEF MailInit, MailInv, MailTypeOK, LettersNumbered, InvitesWait, OneErrand, ReadersKnown,
         MailIsAccountedFor, NotPosting

\* A letter in a request, an errand or the log, by its fields.
LEMMA LetterShape ==
  ASSUME MailTypeOK
  PROVE  /\ \A r \in Poster : posting[r] # NotPosting => posting[r] \in Letter
         /\ \A r \in Poster : posting[r].kind = "invite" => posting[r] # NotPosting
         /\ \A e \in errands : e.letter \in Letter /\ e.step \in {"send", "log"} /\ e.sent \in BOOLEAN
         /\ \A l \in mailLog : l.letter \in Letter
         /\ \A x \in Letter : x.id \in 1..MaxLetter /\ x.kind \in LetterKind /\ x.to \in Addressee
         /\ NotPosting \notin Letter
  BY DEF MailTypeOK, Letter, NotPosting, LetterKind, NewAccount, OfAccount

\* A letter that is written has a number no other has.
LEMMA WriteInv ==
  ASSUME MailInv, NEW r \in Poster, NEW kind \in LetterKind, NEW a \in Addressee, Write(r, kind, a)
  PROVE  MailInv'
<1> DEFINE letter == [id |-> written + 1, kind |-> kind, to |-> a,
                      user |-> kind # "invite" \/ a \in known]
<1>1. /\ posting' = [posting EXCEPT ![r] = letter]
      /\ errands' = errands \cup (IF AtOnce(kind) THEN {ToSend(letter)} ELSE {})
      /\ written < MaxLetter /\ written' = written + 1
      /\ posting[r] = NotPosting
      /\ kind \in OfAccount => a \in known
      /\ UNCHANGED <<known, tokens, mailbox, mailLog, dropped>>
  BY DEF Write
<1>2. PICK u \in BOOLEAN : u = (kind # "invite" \/ a \in known)
  OBVIOUS
<1>3. PICK x : x = letter
  OBVIOUS
<1>4. /\ x \in Letter /\ x.id = written + 1 /\ x.kind = kind /\ x.to = a /\ x.user = u
      /\ written \in Nat /\ written' \in 0..MaxLetter
  BY <1>1, <1>2, <1>3, MailAssumption DEF Letter, MailInv, LettersNumbered
<1>5. /\ posting'[r] = x /\ \A s \in Poster \ {r} : posting'[s] = posting[s]
      /\ posting' \in [Poster -> Letter \cup {NotPosting}]
  BY <1>1, <1>3, <1>4 DEF MailInv, MailTypeOK
<1>6. /\ x # NotPosting /\ (\A s \in Poster \ {r} : posting[s] # x)
      /\ (\A e \in errands : e.letter # x) /\ (\A l \in mailLog : l.letter # x)
      /\ x \notin mailbox
  <2>1. \A y \in Letter : y.id <= written => y # x
    BY <1>4, LetterShape DEF MailInv
  <2> QED
    BY <1>4, <2>1, LetterShape DEF MailInv, LettersNumbered, MailTypeOK
<1> HIDE DEF letter
<1>7. \A e \in errands' : e \in errands \/ (e = ToSend(x) /\ kind # "invite")
  BY <1>1, <1>3 DEF AtOnce
<1>8. /\ ToSend(x).letter = x /\ ToSend(x).step = "send" /\ ToSend(x).sent = FALSE
      /\ ToSend(x) \in [letter : Letter, step : {"send", "log"}, sent : BOOLEAN]
  BY <1>4 DEF ToSend
<1>9. MailTypeOK'
  BY <1>1, <1>5, <1>7, <1>8 DEF MailInv, MailTypeOK
<1>10. LettersNumbered'
  <2>1. \A y \in Letter : y.id <= written => y.id <= written'
    BY <1>1, <1>4, LetterShape DEF MailInv
  <2>2. x.id <= written'
    BY <1>1, <1>4
  <2>3. \A e \in errands' : e.letter.id <= written'
    BY <1>7, <1>8, <2>1, <2>2, LetterShape DEF MailInv, LettersNumbered
  <2>4. \A s \in Poster : posting'[s] # NotPosting =>
          posting'[s].id <= written' /\ \A q \in Poster \ {s} : posting'[q] # posting'[s]
    BY <1>5, <1>6, <2>1, <2>2, LetterShape DEF MailInv, LettersNumbered
  <2>5. /\ \A l \in mailLog' : l.letter.id <= written'
        /\ \A y \in mailbox' : y.id <= written'
    BY <1>1, <2>1, LetterShape DEF MailInv, LettersNumbered, MailTypeOK
  <2> QED
    BY <1>4, <2>3, <2>4, <2>5 DEF LettersNumbered
<1>11. InvitesWait'
  BY <1>1, <1>4, <1>5, <1>6, <1>7, <1>8 DEF MailInv, InvitesWait
<1>12. OneErrand'
  BY <1>1, <1>6, <1>7, <1>8 DEF MailInv, OneErrand
<1>13. ReadersKnown'
  <2>1. Reader(x)
    BY <1>1, <1>2, <1>4 DEF Reader, NewAccount, OfAccount, LetterKind
  <2> QED
    BY <1>1, <1>5, <1>7, <1>8, <2>1 DEF MailInv, ReadersKnown, Reader
<1>14. MailIsAccountedFor'
  <2>1. errands \subseteq errands'
    BY <1>1
  <2>2. \A s \in Poster : posting'[s].kind = "invite" =>
          posting'[s] \notin mailbox' /\ \A e \in errands' : e.letter # posting'[s]
    BY <1>11 DEF InvitesWait
  <2> QED
    BY <1>1, <2>1, <2>2 DEF MailInv, MailIsAccountedFor
<1> QED
  BY <1>9, <1>10, <1>11, <1>12, <1>13, <1>14 DEF MailInv

\* The letter of a committed request that was not on its way gets its errand.
LEMMA CommitPostInv ==
  ASSUME MailInv, NEW r \in Poster, CommitPost(r)
  PROVE  MailInv'
<1>1. PICK x : x = posting[r]
  OBVIOUS
<1>2. /\ x # NotPosting /\ x \in Letter /\ x.kind \in LetterKind /\ x.to \in Addressee
      /\ x.id \in 1..MaxLetter /\ Reader(x)
  BY <1>1, LetterShape DEF CommitPost, MailInv, ReadersKnown
<1>3. /\ known \subseteq known' /\ known' \subseteq Addressee /\ tokens' \subseteq 1..MaxLetter
      /\ errands' = errands \cup (IF AtOnce(x.kind) THEN {} ELSE {ToSend(x)})
      /\ posting' = [posting EXCEPT ![r] = NotPosting]
      /\ UNCHANGED <<mailbox, mailLog, written, dropped>>
  BY <1>1, <1>2 DEF CommitPost, MailInv, MailTypeOK
<1>4. /\ \A s \in Poster : posting'[s] # NotPosting =>
           s # r /\ posting'[s] = posting[s] /\ posting[s] # x
      /\ posting' \in [Poster -> Letter \cup {NotPosting}]
  BY <1>1, <1>2, <1>3 DEF MailInv, MailTypeOK, LettersNumbered
<1>5. \A e \in errands' : e \in errands \/ (e = ToSend(x) /\ x.kind = "invite")
  BY <1>3 DEF AtOnce
<1>6. /\ ToSend(x).letter = x /\ ToSend(x).step = "send" /\ ToSend(x).sent = FALSE
      /\ ToSend(x) \in [letter : Letter, step : {"send", "log"}, sent : BOOLEAN]
  BY <1>2 DEF ToSend
<1>7. x.kind = "invite" =>
        /\ x \notin mailbox
        /\ \A e \in errands : e.letter # x
        /\ \A l \in mailLog : l.letter # x
  BY <1>1 DEF MailInv, InvitesWait
<1>8. MailTypeOK'
  BY <1>3, <1>4, <1>5, <1>6 DEF MailInv, MailTypeOK
<1>9. LettersNumbered'
  <2>1. x.id <= written
    BY <1>1, <1>2 DEF MailInv, LettersNumbered
  <2>2. \A e \in errands' : e.letter.id <= written'
    BY <1>3, <1>5, <1>6, <2>1 DEF MailInv, LettersNumbered
  <2>3. \A s \in Poster : posting'[s] # NotPosting =>
          posting'[s].id <= written' /\ \A q \in Poster \ {s} : posting'[q] # posting'[s]
    BY <1>3, <1>4 DEF MailInv, LettersNumbered, MailTypeOK
  <2> QED
    BY <1>3, <2>2, <2>3 DEF MailInv, LettersNumbered
<1>10. InvitesWait'
  <2>1. \A s \in Poster : posting'[s].kind = "invite" => posting'[s] # NotPosting
    BY DEF NotPosting
  <2> QED
    BY <1>3, <1>4, <1>5, <1>6, <2>1 DEF MailInv, InvitesWait
<1>11. OneErrand'
  BY <1>3, <1>5, <1>6, <1>7 DEF MailInv, OneErrand
<1>12. ReadersKnown'
  BY <1>2, <1>3, <1>4, <1>5, <1>6 DEF MailInv, ReadersKnown, Reader
<1>13. MailIsAccountedFor'
  <2>1. errands \subseteq errands'
    BY <1>3
  <2>2. \A s \in Poster : posting'[s].kind = "invite" =>
          posting'[s] \notin mailbox' /\ \A e \in errands' : e.letter # posting'[s]
    BY <1>10 DEF InvitesWait
  <2> QED
    BY <1>3, <2>1, <2>2 DEF MailInv, MailIsAccountedFor
<1> QED
  BY <1>8, <1>9, <1>10, <1>11, <1>12, <1>13 DEF MailInv

\* A request that is undone, a process that stops, and a link that is followed
\* take away.
LEMMA TakeAwayInv ==
  ASSUME MailInv, UNCHANGED <<known, mailbox, mailLog, written>>,
         tokens' \subseteq tokens, errands' \subseteq errands,
         posting' \in [Poster -> Letter \cup {NotPosting}],
         \A s \in Poster : posting'[s] = posting[s] \/ posting'[s] = NotPosting,
         dropped' \subseteq Letter, dropped \subseteq dropped',
         \A e \in errands \ errands' : e.letter \in dropped'
  PROVE  MailInv'
<1>1. \A s \in Poster : posting'[s].kind = "invite" => posting'[s] = posting[s]
  BY DEF NotPosting
<1>2. MailTypeOK'
  BY DEF MailInv, MailTypeOK
<1>3. LettersNumbered'
  BY DEF MailInv, LettersNumbered
<1>4. InvitesWait' /\ OneErrand' /\ ReadersKnown'
  BY <1>1 DEF MailInv, InvitesWait, OneErrand, ReadersKnown, Reader
<1>5. MailIsAccountedFor'
  <2>1. \A s \in Poster : posting'[s].kind = "invite" =>
          posting'[s] \notin mailbox' /\ \A e \in errands' : e.letter # posting'[s]
    BY <1>4 DEF InvitesWait
  <2>2. \A letter \in mailbox' :
          \/ \E l \in mailLog' : l.letter = letter
          \/ \E e \in errands' : e.letter = letter
          \/ letter \in dropped'
          \/ letter.kind \in NewAccount
    BY DEF MailInv, MailIsAccountedFor
  <2> QED
    BY <2>1, <2>2 DEF MailInv, MailIsAccountedFor
<1> QED
  BY <1>2, <1>3, <1>4, <1>5 DEF MailInv

\* A letter that is sent has one errand left, which knows whether it arrived.
LEMMA SendLetterInv ==
  ASSUME MailInv, NEW e \in errands, NEW ok \in BOOLEAN, SendLetter(e, ok)
  PROVE  MailInv'
<1>1. PICK f : f = [e EXCEPT !.step = "log", !.sent = ok]
  OBVIOUS
<1>2. PICK x : x = e.letter
  OBVIOUS
<1>3. e \in [letter : Letter, step : {"send", "log"}, sent : BOOLEAN]
  BY DEF MailInv, MailTypeOK
<1>4. /\ f.letter = x /\ f.step = "log" /\ f.sent = ok /\ x \in Letter
      /\ f \in [letter : Letter, step : {"send", "log"}, sent : BOOLEAN]
  BY <1>1, <1>2, <1>3
<1>5. /\ e.step = "send"
      /\ mailbox' = IF ok THEN mailbox \cup {x} ELSE mailbox
      /\ errands' = (errands \ {e}) \cup {f}
      /\ UNCHANGED <<known, tokens, posting, mailLog, written, dropped>>
  BY <1>1, <1>2 DEF SendLetter
<1>6. /\ x \notin mailbox /\ \A l \in mailLog : l.letter # x
      /\ x.id <= written /\ Reader(x)
      /\ \A g \in errands \ {e} : g.letter # x
      /\ \A r \in Poster : posting[r].kind = "invite" => posting[r] # x
  BY <1>2, <1>5 DEF MailInv, OneErrand, LettersNumbered, ReadersKnown, InvitesWait
<1>7. \A g \in errands' : (g \in errands /\ g # e) \/ g = f
  BY <1>5
<1>8. MailTypeOK'
  BY <1>4, <1>5 DEF MailInv, MailTypeOK
<1>9. LettersNumbered'
  BY <1>4, <1>5, <1>6, <1>7 DEF MailInv, LettersNumbered
<1>10. InvitesWait'
  BY <1>4, <1>5, <1>6, <1>7 DEF MailInv, InvitesWait
<1>11. OneErrand'
  BY <1>4, <1>5, <1>6, <1>7 DEF MailInv, OneErrand
<1>12. ReadersKnown'
  BY <1>4, <1>5, <1>6, <1>7 DEF MailInv, ReadersKnown, Reader
<1>13. MailIsAccountedFor'
  <2>1. \A s \in Poster : posting'[s].kind = "invite" =>
          posting'[s] \notin mailbox' /\ \A g \in errands' : g.letter # posting'[s]
    BY <1>10 DEF InvitesWait
  <2>2. \A l \in mailLog' : l.sent <=> l.letter \in mailbox'
    BY <1>5, <1>6 DEF MailInv, MailIsAccountedFor
  <2>3. \A letter \in mailbox' :
          \/ \E l \in mailLog' : l.letter = letter
          \/ \E g \in errands' : g.letter = letter
          \/ letter \in dropped'
          \/ letter.kind \in NewAccount
    BY <1>2, <1>4, <1>5 DEF MailInv, MailIsAccountedFor
  <2> QED
    BY <1>5, <2>1, <2>2, <2>3 DEF MailInv, MailIsAccountedFor
<1> QED
  BY <1>8, <1>9, <1>10, <1>11, <1>12, <1>13 DEF MailInv

\* A letter is logged once; who is written to without an account is a new user.
LEMMA LogLetterInv ==
  ASSUME MailInv, NEW e \in errands, LogLetter(e)
  PROVE  MailInv'
<1>1. PICK x : x = e.letter
  OBVIOUS
<1>2. PICK row : row = [letter |-> x, sent |-> e.sent]
  OBVIOUS
<1>3. e \in [letter : Letter, step : {"send", "log"}, sent : BOOLEAN]
  BY DEF MailInv, MailTypeOK
<1>4. /\ row.letter = x /\ row.sent = e.sent /\ x \in Letter /\ x.user \in BOOLEAN
      /\ row \in [letter : Letter, sent : BOOLEAN]
  BY <1>1, <1>2, <1>3 DEF Letter
<1>5. /\ e.step = "log"
      /\ mailLog' = IF x.user => x.to \in known THEN mailLog \cup {row} ELSE mailLog
      /\ errands' = errands \ {e}
      /\ UNCHANGED <<known, tokens, posting, mailbox, written, dropped>>
  BY <1>1, <1>2 DEF LogLetter
<1>6. /\ e.sent <=> x \in mailbox
      /\ \A l \in mailLog : l.letter # x
      /\ x.id <= written /\ Reader(x)
      /\ \A g \in errands \ {e} : g.letter # x
      /\ \A r \in Poster : posting[r].kind = "invite" => posting[r] # x
  BY <1>1, <1>5 DEF MailInv, OneErrand, LettersNumbered, ReadersKnown, InvitesWait
<1>7. \A l \in mailLog' : l \in mailLog \/ l = row
  BY <1>5
<1>8. MailTypeOK'
  BY <1>4, <1>5, <1>7 DEF MailInv, MailTypeOK
<1>9. LettersNumbered'
  BY <1>4, <1>5, <1>6, <1>7 DEF MailInv, LettersNumbered
<1>10. InvitesWait'
  BY <1>4, <1>5, <1>6, <1>7 DEF MailInv, InvitesWait
<1>11. OneErrand'
  BY <1>4, <1>5, <1>6, <1>7 DEF MailInv, OneErrand
<1>12. ReadersKnown'
  BY <1>5 DEF MailInv, ReadersKnown, Reader
<1>13. MailIsAccountedFor'
  <2>1. \A s \in Poster : posting'[s].kind = "invite" =>
          posting'[s] \notin mailbox' /\ \A g \in errands' : g.letter # posting'[s]
    BY <1>10 DEF InvitesWait
  <2>2. \A l, k \in mailLog' : l.letter = k.letter => l = k
    BY <1>4, <1>6, <1>7 DEF MailInv, MailIsAccountedFor
  <2>3. \A l \in mailLog' : l.sent <=> l.letter \in mailbox'
    BY <1>4, <1>5, <1>6, <1>7 DEF MailInv, MailIsAccountedFor
  <2>4. (x.user => x.to \in known) \/ x.kind \in NewAccount
    BY <1>6 DEF Reader
  <2>5. \A letter \in mailbox' :
          \/ \E l \in mailLog' : l.letter = letter
          \/ \E g \in errands' : g.letter = letter
          \/ letter \in dropped'
          \/ letter.kind \in NewAccount
    BY <1>1, <1>4, <1>5, <2>4 DEF MailInv, MailIsAccountedFor
  <2> QED
    BY <2>1, <2>2, <2>3, <2>5 DEF MailIsAccountedFor
<1> QED
  BY <1>8, <1>9, <1>10, <1>11, <1>12, <1>13 DEF MailInv

LEMMA MailNextInv == MailInv /\ [MailNext]_mailVars => MailInv'
<1> SUFFICES ASSUME MailInv, [MailNext]_mailVars PROVE MailInv'
  OBVIOUS
<1>0. dropped \subseteq Letter /\ posting \in [Poster -> Letter \cup {NotPosting}]
      /\ \A e \in errands : e.letter \in Letter
  BY DEF MailInv, MailTypeOK
<1>1. ASSUME NEW r \in Poster, UndoPost(r) PROVE MailInv'
  BY <1>0, <1>1, TakeAwayInv DEF UndoPost
<1>2. CASE StopPosting
  <2>1. \A e \in errands : e.letter \in dropped'
    BY <1>2 DEF StopPosting
  <2>2. dropped' \subseteq Letter /\ dropped \subseteq dropped'
    BY <1>0, <1>2 DEF StopPosting
  <2> QED
    BY <1>0, <1>2, <2>1, <2>2, TakeAwayInv DEF StopPosting
<1>3. ASSUME NEW letter \in mailbox, FollowLink(letter) PROVE MailInv'
  BY <1>0, <1>3, TakeAwayInv DEF FollowLink
<1>4. CASE UNCHANGED mailVars
  BY <1>0, <1>4, TakeAwayInv DEF mailVars
<1> QED
  BY <1>1, <1>2, <1>3, <1>4, WriteInv, CommitPostInv, SendLetterInv, LogLetterInv DEF MailNext

-----------------------------------------------------------------------------
(* The limit of requests.  What a process keeps of a client is the end of    *)
(* what it has let through, and all that it has forgotten is older than the  *)
(* window: a request that finds room therefore lies a window after the one   *)
(* that is the cap before it.                                                *)

Ascending(p) == \A i, j \in DOMAIN p : i <= j => p[i] <= p[j]

Spaced(p) == \A n \in DOMAIN p : n > Cap => p[n] - p[n - Cap] >= Window

\* h is what is kept of p, the requests let through.
Keeps(h, p, now) ==
  /\ \A i \in DOMAIN p : p[i] <= now
  /\ Ascending(p)
  /\ Len(h) <= Len(p) /\ Len(h) <= Cap
  /\ \A i \in 1..Len(h) : h[i] = p[Len(p) - Len(h) + i]
  /\ \A i \in 1..(Len(p) - Len(h)) : now - p[i] >= Window
  /\ Spaced(p)

RateInv ==
  /\ second \in 0..LastTick
  /\ hits \in [Process -> [Client -> Seq(Nat)]]
  /\ passed \in [Process -> [Client -> Seq(Nat)]]
  /\ \A w \in Process, c \in Client : Keeps(hits[w][c], passed[w][c], second)

LEMMA RateInitInv == RateInit => RateInv
<1> SUFFICES ASSUME RateInit PROVE RateInv
  OBVIOUS
<1>1. second \in 0..LastTick
  BY RateLimitAssumption DEF RateInit
<1>2. <<>> \in Seq(Nat) /\ Keeps(<<>>, <<>>, second)
  BY RateLimitAssumption DEF Keeps, Ascending, Spaced
<1> QED
  BY <1>1, <1>2 DEF RateInit, RateInv

\* The least number in a set.
LEMMA LeastOf ==
  ASSUME NEW N \in SUBSET Nat, N # {}
  PROVE  \E n \in N : \A m \in N : n <= m
<1> DEFINE R == {p \in Nat \X Nat : p[1] < p[2]}
<1>1. IsWellFoundedOn(R, Nat)
  BY NatLessThanWellFounded DEF OpToRel
<1>2. \A n, m \in Nat : <<m, n>> \in R <=> m < n
  OBVIOUS
<1> HIDE DEF R
<1>3. PICK n \in N : \A m \in N : ~(<<m, n>> \in R)
  BY <1>1, WFMin
<1>4. \A m \in N : n \in Nat /\ m \in Nat /\ ~(m < n)
  BY <1>2, <1>3
<1> QED
  BY <1>4

\* The first places of a list are as many as the last of them.
LEMMA FirstPlaces ==
  ASSUME NEW n \in Nat, NEW D \in SUBSET (1..n), \A i \in D : \A j \in 1..i : j \in D
  PROVE  Cardinality(D) \in 0..n /\ D = 1..Cardinality(D)
<1>1. \E k \in 0..n : D = 1..k
  <2>1. CASE \A i \in 1..n : i \in D
    <3>1. D = 1..n
      BY <2>1
    <3> QED
      BY <3>1
  <2>2. CASE ~ \A i \in 1..n : i \in D
    <3>1. (1..n) \ D \in SUBSET Nat /\ (1..n) \ D # {}
      BY <2>2
    <3>2. PICK m \in (1..n) \ D : \A i \in (1..n) \ D : m <= i
      BY <3>1, LeastOf
    <3>3. \A i \in 1..n : i \in D <=> i <= m - 1
      <4>1. ASSUME NEW i \in D, m <= i PROVE FALSE
        BY <3>2, <4>1
      <4> QED
        BY <3>2, <4>1
    <3>4. m - 1 \in 0..n /\ \A i \in D : i \in 1..n
      BY <3>2
    <3>5. D = 1..(m - 1)
      <4>1. \A i \in D : i \in 1..(m - 1)
        BY <3>2, <3>3, <3>4
      <4>2. \A i \in 1..(m - 1) : i \in D
        BY <3>2, <3>3, <3>4
      <4> QED
        BY <4>1, <4>2
    <3> QED
      BY <3>4, <3>5
  <2> QED
    BY <2>1, <2>2
<1>2. PICK k \in 0..n : D = 1..k
  BY <1>1
<1>3. Cardinality(1..k) = k
  BY FS_Interval
<1> QED
  BY <1>2, <1>3

\* A second later what is forgotten is still out of the window.
LEMMA LaterKeeps ==
  ASSUME NEW now \in Nat, NEW h \in Seq(Nat), NEW p \in Seq(Nat), Keeps(h, p, now)
  PROVE  Keeps(h, p, now + 1)
<1>1. \A i \in 1..Len(p) : p[i] \in Nat
  OBVIOUS
<1>2. \A i \in 1..(Len(p) - Len(h)) : i \in 1..Len(p)
  BY DEF Keeps
<1>3. Window \in Nat /\ \A x \in Nat : (x <= now => x <= now + 1)
                   /\ (now - x >= Window => (now + 1) - x >= Window)
  BY RateLimitAssumption
<1>4. \A i \in DOMAIN p : p[i] <= now + 1
  BY <1>1, <1>3 DEF Keeps
<1>5. \A i \in 1..(Len(p) - Len(h)) : (now + 1) - p[i] >= Window
  BY <1>1, <1>2, <1>3 DEF Keeps
<1> QED
  BY <1>4, <1>5 DEF Keeps

\* An address that is forgotten has nothing left in the window.
LEMMA StaleKeeps ==
  ASSUME NEW h \in Seq(Nat), NEW p \in Seq(Nat), second \in Nat,
         Keeps(h, p, second), Stale(h)
  PROVE  Keeps(<<>>, p, second)
<1>1. CASE h = <<>>
  BY <1>1
<1>2. CASE h # <<>>
  <2>1. /\ Len(h) \in Nat \ {0} /\ Len(p) \in Nat /\ Len(h) <= Len(p)
        /\ Last(h) = h[Len(h)] /\ h[Len(h)] = p[Len(p)]
    BY <1>2 DEF Keeps, Last
  <2>2. second - p[Len(p)] > StaleAfter
    BY <1>2, <2>1 DEF Stale
  <2>3. \A i \in 1..Len(p) : p[i] \in Nat /\ p[i] <= p[Len(p)]
    BY <2>1 DEF Keeps, Ascending
  <2>4. \A i \in 1..Len(p) : second - p[i] >= Window
    BY SMTT(30), <2>1, <2>2, <2>3, RateLimitAssumption
  <2>5. Len(<<>>) = 0 /\ Len(p) - 0 = Len(p)
    BY <2>1
  <2> QED
    BY <2>1, <2>4, <2>5, RateLimitAssumption DEF Keeps
<1> QED
  BY <1>1, <1>2

\* What is dropped from the list is out of the window, and comes first.
LEMMA WindowKeeps ==
  ASSUME NEW h \in Seq(Nat), NEW p \in Seq(Nat), second \in Nat, Keeps(h, p, second)
  PROVE  InWindow(h) \in Seq(Nat) /\ Keeps(InWindow(h), p, second)
<1> DEFINE old == {i \in DOMAIN h : second - h[i] >= Window}
           k == Cardinality(old)
<1>1. /\ Len(h) \in Nat /\ Len(p) \in Nat /\ Len(h) <= Len(p)
      /\ \A i \in 1..Len(h) : h[i] \in Nat
      /\ \A i \in 1..Len(p) : p[i] \in Nat
      /\ Window \in Nat
  BY RateLimitAssumption DEF Keeps
<1>0. ASSUME NEW a \in 1..Len(h), NEW b \in 1..a PROVE b \in 1..Len(h) /\ h[b] <= h[a]
  <2>1. b \in 1..Len(h) /\ b <= a
    BY <1>1
  <2>2. h[a] = p[Len(p) - Len(h) + a] /\ h[b] = p[Len(p) - Len(h) + b]
    BY <2>1 DEF Keeps
  <2>3. /\ Len(p) - Len(h) + a \in 1..Len(p) /\ Len(p) - Len(h) + b \in 1..Len(p)
        /\ Len(p) - Len(h) + b <= Len(p) - Len(h) + a
    <3>1. PICK n \in Nat, m \in Nat : n = Len(h) /\ m = Len(p) /\ n <= m
      BY <1>1
    <3> QED
      BY <2>1, <3>1
  <2>4. DOMAIN p = 1..Len(p) /\ Ascending(p)
    BY DEF Keeps
  <2>5. p[Len(p) - Len(h) + b] <= p[Len(p) - Len(h) + a]
    BY <2>3, <2>4 DEF Ascending
  <2> QED
    BY <2>1, <2>2, <2>5
<1>2. ASSUME NEW i \in old, NEW j \in 1..i PROVE j \in old
  <2>1. i \in 1..Len(h) /\ j \in 1..Len(h) /\ second - h[i] >= Window
    OBVIOUS
  <2>2. h[j] <= h[i] /\ h[j] \in Nat /\ h[i] \in Nat
    BY <1>0, <1>1, <2>1
  <2>3. \A x, y \in Nat : x <= y /\ second - y >= Window => second - x >= Window
    BY <1>1
  <2>4. second - h[j] >= Window
    BY <2>1, <2>2, <2>3
  <2> QED
    BY <2>1, <2>4
<1>3. k \in 0..Len(h) /\ old = 1..k
  <2>1. old \in SUBSET (1..Len(h))
    OBVIOUS
  <2> HIDE DEF old
  <2> QED
    BY <1>1, <1>2, <2>1, FirstPlaces
<1>4. \A i \in 1..k : second - h[i] >= Window
  <2>1. \A i \in old : second - h[i] >= Window
    OBVIOUS
  <2> QED
    BY <1>3, <2>1
<1>5. InWindow(h) = SubSeq(h, k + 1, Len(h))
  BY DEF InWindow
<1> HIDE DEF old, k
<1>6. PICK g : g = InWindow(h)
  OBVIOUS
<1>7. /\ g \in Seq(Nat) /\ Len(g) = Len(h) - k
      /\ \A i \in 1..Len(g) : g[i] = h[k + i]
  BY <1>1, <1>3, <1>5, <1>6
<1>8. \A i \in 1..Len(g) : g[i] = p[Len(p) - Len(g) + i]
  <2>1. ASSUME NEW i \in 1..Len(g) PROVE g[i] = p[Len(p) - Len(g) + i]
    <3>1. k + i \in 1..Len(h) /\ Len(p) - Len(g) + i = Len(p) - Len(h) + (k + i)
      BY <1>1, <1>3, <1>7
    <3>2. h[k + i] = p[Len(p) - Len(h) + (k + i)]
      BY <3>1 DEF Keeps
    <3> QED
      BY <1>7, <3>1, <3>2
  <2> QED
    BY <2>1
<1>9. \A i \in 1..(Len(p) - Len(g)) : second - p[i] >= Window
  <2>1. ASSUME NEW i \in 1..(Len(p) - Len(g)) PROVE second - p[i] >= Window
    <3>1. CASE i <= Len(p) - Len(h)
      BY <1>1, <3>1 DEF Keeps
    <3>2. CASE i > Len(p) - Len(h)
      <4>1. PICK m \in 1..k : i = Len(p) - Len(h) + m
        <5>1. i - (Len(p) - Len(h)) \in 1..k
          BY <1>1, <1>3, <1>7, <3>2
        <5> QED
          BY <1>1, <5>1
      <4>2. h[m] = p[i]
        BY <1>3, <4>1 DEF Keeps
      <4> QED
        BY <1>4, <4>1, <4>2
    <3> QED
      BY <1>1, <3>1, <3>2
  <2> QED
    BY <2>1
<1>10. Len(g) <= Len(p) /\ Len(g) <= Cap
  BY <1>1, <1>3, <1>7, RateLimitAssumption DEF Keeps
<1>11. Keeps(g, p, second)
  BY <1>8, <1>9, <1>10 DEF Keeps
<1> QED
  BY <1>6, <1>7, <1>11

\* A request that is let through.
LEMMA PassKeeps ==
  ASSUME NEW now \in Nat, NEW h \in Seq(Nat), NEW p \in Seq(Nat), Keeps(h, p, now), Len(h) < Cap
  PROVE  Keeps(Append(h, now), Append(p, now), now)
<1>1. /\ Len(h) \in Nat /\ Len(p) \in Nat /\ Len(h) <= Len(p) /\ Cap \in Nat \ {0} /\ Window \in Nat
      /\ \A i \in 1..Len(p) : p[i] \in Nat /\ p[i] <= now
  BY RateLimitAssumption DEF Keeps
<1>2. PICK g \in Seq(Nat) : g = Append(h, now)
  BY AppendProperties
<1>3. PICK q \in Seq(Nat) : q = Append(p, now)
  BY AppendProperties
<1>4. /\ Len(g) = Len(h) + 1 /\ g[Len(h) + 1] = now
      /\ \A i \in 1..Len(h) : g[i] = h[i]
  BY <1>2, AppendProperties
<1>5. /\ Len(q) = Len(p) + 1 /\ q[Len(p) + 1] = now
      /\ \A i \in 1..Len(p) : q[i] = p[i]
  BY <1>3, AppendProperties
<1>6. DOMAIN q = 1..(Len(p) + 1) /\ DOMAIN p = 1..Len(p)
  BY <1>5
<1>7. (\A i \in DOMAIN q : q[i] <= now) /\ Ascending(q)
  <2>1. \A i \in DOMAIN q : i \in 1..Len(p) \/ i = Len(p) + 1
    BY <1>1, <1>6
  <2>2. \A i \in DOMAIN q : q[i] <= now
    <3>1. ASSUME NEW i \in 1..Len(p) PROVE q[i] <= now
      <4>1. q[i] = p[i] /\ p[i] <= now
        BY <1>1, <1>5
      <4> QED
        BY <4>1
    <3>2. q[Len(p) + 1] <= now
      BY <1>5
    <3> QED
      BY <2>1, <3>1, <3>2
  <2>3. \A i, j \in 1..Len(p) : i <= j => p[i] <= p[j]
    BY <1>6 DEF Keeps, Ascending
  <2>4. ASSUME NEW i \in DOMAIN q, NEW j \in DOMAIN q, i <= j PROVE q[i] <= q[j]
    <3>1. CASE j = Len(p) + 1
      BY <1>5, <2>2, <3>1
    <3>2. CASE j \in 1..Len(p)
      <4>1. i \in 1..Len(p)
        BY <1>1, <1>6, <2>4, <3>2
      <4> QED
        BY <1>5, <2>3, <2>4, <3>2, <4>1
    <3> QED
      BY <2>1, <3>1, <3>2
  <2> QED
    BY <2>2, <2>4 DEF Ascending
<1>8. \A i \in 1..Len(g) : g[i] = q[Len(q) - Len(g) + i]
  <2>1. ASSUME NEW i \in 1..Len(g) PROVE g[i] = q[Len(q) - Len(g) + i]
    <3>1. CASE i = Len(h) + 1
      BY <1>1, <1>4, <1>5, <3>1
    <3>2. CASE i \in 1..Len(h)
      <4>1. Len(q) - Len(g) + i = Len(p) - Len(h) + i /\ Len(p) - Len(h) + i \in 1..Len(p)
        BY <1>1, <1>4, <1>5, <3>2
      <4>2. h[i] = p[Len(p) - Len(h) + i]
        BY <3>2 DEF Keeps
      <4> QED
        BY <1>4, <1>5, <3>2, <4>1, <4>2
    <3> QED
      BY <1>1, <1>4, <3>1, <3>2
  <2> QED
    BY <2>1
<1>9. \A i \in 1..(Len(q) - Len(g)) : now - q[i] >= Window
  <2>1. Len(q) - Len(g) = Len(p) - Len(h)
    BY <1>1, <1>4, <1>5
  <2>2. \A i \in 1..(Len(p) - Len(h)) : i \in 1..Len(p) /\ now - p[i] >= Window
    BY <1>1 DEF Keeps
  <2> QED
    BY <1>5, <2>1, <2>2
<1>10. Spaced(q)
  <2>1. ASSUME NEW n \in DOMAIN q, n > Cap PROVE q[n] - q[n - Cap] >= Window
    <3>1. CASE n = Len(p) + 1
      <4>1. n - Cap \in 1..(Len(p) - Len(h)) /\ n - Cap \in 1..Len(p)
        BY SMTT(30), <1>1, <2>1, <3>1
      <4>2. now - p[n - Cap] >= Window
        BY <4>1 DEF Keeps
      <4> QED
        BY SMTT(30), <1>5, <3>1, <4>1, <4>2
    <3>2. CASE n \in 1..Len(p)
      <4>1. n - Cap \in 1..Len(p)
        BY SMTT(30), <1>1, <2>1, <3>2
      <4>2. p[n] - p[n - Cap] >= Window
        BY <1>6, <2>1, <3>2 DEF Keeps, Spaced
      <4> QED
        BY SMTT(30), <1>5, <3>2, <4>1, <4>2
    <3> QED
      BY <1>1, <1>6, <3>1, <3>2
  <2> QED
    BY <2>1 DEF Spaced
<1>11. Keeps(g, q, now)
  BY <1>1, <1>4, <1>5, <1>7, <1>8, <1>9, <1>10 DEF Keeps
<1> QED
  BY <1>2, <1>3, <1>11

\* The sweep forgets only what is out of the window.
LEMMA SweptKeeps ==
  ASSUME RateInv, NEW w \in Process
  PROVE  /\ Swept(w) \in [Client -> Seq(Nat)]
         /\ \A c \in Client : Keeps(Swept(w)[c], passed[w][c], second)
<1>1. /\ second \in Nat /\ hits[w] \in [Client -> Seq(Nat)] /\ <<>> \in Seq(Nat)
      /\ \A c \in Client : hits[w][c] \in Seq(Nat) /\ passed[w][c] \in Seq(Nat)
      /\ \A c \in Client : Keeps(hits[w][c], passed[w][c], second)
  BY DEF RateInv
<1>2. Swept(w) \in [Client -> Seq(Nat)]
  BY <1>1 DEF Swept
<1>3. ASSUME NEW c \in Client PROVE Keeps(Swept(w)[c], passed[w][c], second)
  <2>1. Swept(w)[c] = hits[w][c] \/ (Swept(w)[c] = <<>> /\ Stale(hits[w][c]))
    BY <1>1 DEF Swept
  <2> QED
    BY <1>1, <2>1, StaleKeeps
<1> QED
  BY <1>2, <1>3

LEMMA RateNextInv ==
  ASSUME RateInv, [RateNext]_rateVars
  PROVE  RateInv'
<1>1. /\ second \in Nat
      /\ \A w \in Process, c \in Client : hits[w][c] \in Seq(Nat) /\ passed[w][c] \in Seq(Nat)
      /\ \A w \in Process, c \in Client : Keeps(hits[w][c], passed[w][c], second)
  BY DEF RateInv
<1>2. CASE TickSecond
  <2>1. \A w \in Process, c \in Client : Keeps(hits[w][c], passed[w][c], second + 1)
    BY <1>1, LaterKeeps
  <2>2. second + 1 \in 0..LastTick
    BY <1>1, <1>2, RateLimitAssumption DEF TickSecond
  <2> QED
    BY <1>2, <2>1, <2>2 DEF TickSecond, RateInv
<1>3. ASSUME NEW w \in Process, NEW c \in Client, LetThrough(w, c) PROVE RateInv'
  <2>1. PICK h : h = Swept(w)
    OBVIOUS
  <2>2. PICK recent : recent = InWindow(h[c])
    OBVIOUS
  <2>3. /\ h \in [Client -> Seq(Nat)] /\ h[c] \in Seq(Nat)
        /\ \A d \in Client : Keeps(h[d], passed[w][d], second)
    BY <2>1, SweptKeeps
  <2>4. recent \in Seq(Nat) /\ Keeps(recent, passed[w][c], second)
    BY <1>1, <2>2, <2>3, WindowKeeps
  <2>5. /\ Len(recent) < Cap
        /\ hits' = [hits EXCEPT ![w] = [h EXCEPT ![c] = Append(recent, second)]]
        /\ passed' = [passed EXCEPT ![w][c] = Append(@, second)]
        /\ second' = second
    BY <1>3, <2>1, <2>2 DEF LetThrough
  <2>6. /\ Append(recent, second) \in Seq(Nat) /\ Append(passed[w][c], second) \in Seq(Nat)
        /\ Keeps(Append(recent, second), Append(passed[w][c], second), second)
    BY <1>1, <2>4, <2>5, PassKeeps
  <2>7. /\ hits' \in [Process -> [Client -> Seq(Nat)]]
        /\ passed' \in [Process -> [Client -> Seq(Nat)]]
    BY <2>3, <2>5, <2>6 DEF RateInv
  <2>8. ASSUME NEW v \in Process, NEW d \in Client PROVE Keeps(hits'[v][d], passed'[v][d], second')
    <3>1. CASE v = w /\ d = c
      <4>1. hits'[v][d] = Append(recent, second) /\ passed'[v][d] = Append(passed[w][c], second)
        BY <2>3, <2>5, <3>1 DEF RateInv
      <4> QED
        BY <2>5, <2>6, <4>1
    <3>2. CASE v = w /\ d # c
      <4>1. hits'[v][d] = h[d] /\ passed'[v][d] = passed[w][d]
        BY <2>3, <2>5, <3>2 DEF RateInv
      <4> QED
        BY <2>3, <2>5, <4>1
    <3>3. CASE v # w
      <4>1. hits'[v][d] = hits[v][d] /\ passed'[v][d] = passed[v][d]
        BY <2>5, <3>3 DEF RateInv
      <4> QED
        BY <1>1, <2>5, <4>1
    <3> QED
      BY <3>1, <3>2, <3>3
  <2> QED
    BY <2>5, <2>7, <2>8 DEF RateInv
<1>4. ASSUME NEW w \in Process, NEW c \in Client, TurnAway(w, c) PROVE RateInv'
  <2>1. PICK h : h = Swept(w)
    OBVIOUS
  <2>2. h \in [Client -> Seq(Nat)] /\ \A d \in Client : Keeps(h[d], passed[w][d], second)
    BY <2>1, SweptKeeps
  <2>3. hits' = [hits EXCEPT ![w] = h] /\ UNCHANGED <<second, passed>>
    BY <1>4, <2>1 DEF TurnAway
  <2>4. ASSUME NEW v \in Process, NEW d \in Client PROVE Keeps(hits'[v][d], passed'[v][d], second')
    BY <1>1, <2>2, <2>3 DEF RateInv
  <2>5. hits' \in [Process -> [Client -> Seq(Nat)]]
    BY <2>2, <2>3 DEF RateInv
  <2> QED
    BY <2>3, <2>4, <2>5 DEF RateInv
<1>5. ASSUME NEW w \in Process, RestartWorker(w) PROVE RateInv'
  <2>1. <<>> \in Seq(Nat) /\ Keeps(<<>>, <<>>, second)
    BY RateLimitAssumption DEF Keeps, Ascending, Spaced
  <2>2. /\ hits' \in [Process -> [Client -> Seq(Nat)]]
        /\ passed' \in [Process -> [Client -> Seq(Nat)]]
    BY <1>5, <2>1 DEF RestartWorker, RateInv
  <2>3. ASSUME NEW v \in Process, NEW d \in Client PROVE Keeps(hits'[v][d], passed'[v][d], second')
    <3>1. CASE v = w
      <4>1. hits'[v][d] = <<>> /\ passed'[v][d] = <<>> /\ second' = second
        BY <1>5, <3>1 DEF RestartWorker, RateInv
      <4> QED
        BY <2>1, <4>1
    <3>2. CASE v # w
      <4>1. hits'[v][d] = hits[v][d] /\ passed'[v][d] = passed[v][d] /\ second' = second
        BY <1>5, <3>2 DEF RestartWorker, RateInv
      <4> QED
        BY <1>1, <4>1
    <3> QED
      BY <3>1, <3>2
  <2> QED
    BY <1>5, <2>2, <2>3 DEF RestartWorker, RateInv
<1>6. CASE UNCHANGED rateVars
  BY <1>6 DEF rateVars, RateInv
<1> QED
  BY <1>2, <1>3, <1>4, <1>5, <1>6 DEF RateNext

-----------------------------------------------------------------------------
(* The entrance.  Each part keeps its invariant whether it moves or stands   *)
(* still.                                                                    *)

EntranceInv ==
  /\ part \in Part
  /\ AccountInv
  /\ MailInv
  /\ SocialInv
  /\ RateInv

entranceVars == <<part, vars, mailVars, socialVars, rateVars>>

\* What a step of the entrance is to each of its parts.
LEMMA PartsStep ==
  ASSUME [EntranceNext]_entranceVars
  PROVE  /\ [Next]_vars /\ [MailNext]_mailVars
         /\ [SocialNext]_socialVars /\ [RateNext]_rateVars
         /\ UNCHANGED part
<1>1. CASE EntranceNext
  BY <1>1 DEF EntranceNext
<1>2. CASE UNCHANGED entranceVars
  BY <1>2 DEF entranceVars
<1> QED
  BY <1>1, <1>2

LEMMA EntranceInitInv == EntranceInit => EntranceInv
  BY AccountInitInv, MailInitInv, SocialInitInv, RateInitInv DEF EntranceInit, EntranceInv

LEMMA EntranceNextInv == EntranceInv /\ [EntranceNext]_entranceVars => EntranceInv'
<1> SUFFICES ASSUME EntranceInv, [EntranceNext]_entranceVars PROVE EntranceInv'
  OBVIOUS
<1>1. AccountInv'
  BY PartsStep, AccountNextInv DEF EntranceInv
<1>2. MailInv'
  BY PartsStep, MailNextInv DEF EntranceInv
<1>3. SocialInv'
  BY PartsStep, SocialNextInv DEF EntranceInv
<1>4. RateInv'
  BY PartsStep, RateNextInv DEF EntranceInv
<1> QED
  BY PartsStep, <1>1, <1>2, <1>3, <1>4 DEF EntranceInv

\* Beside the other parts of the entrance the sessions and links behave as they
\* do alone, so that what is proved of them above holds there.
THEOREM SessionsInTheEntrance == EntranceSpec => Spec
<1>1. EntranceInit => Init
  BY DEF EntranceInit
<1>2. [EntranceNext]_entranceVars => [Next]_vars
  BY PartsStep
<1> QED
  BY <1>1, <1>2, PTL DEF EntranceSpec, Spec, entranceVars

\* The state of whichever part moves has its type.
THEOREM EntranceTyped == EntranceSpec => []EntranceTypeOK
<1>1. EntranceInv => EntranceTypeOK
  <2>1. EntranceInv => TypeOK /\ MailTypeOK /\ SocialTypeOK
    BY DEF EntranceInv, AccountInv, MailInv, SocialInv
  <2>2. EntranceInv => RateTypeOK
    BY DEF EntranceInv, RateInv, RateTypeOK, Keeps
  <2> QED
    BY <2>1, <2>2 DEF EntranceTypeOK, EntranceInv, Part
<1> QED
  BY EntranceInitInv, EntranceNextInv, <1>1, PTL DEF EntranceSpec, entranceVars

\* Letters are accounted for however requests, errands and stops of the process
\* interleave, and no client is let in beyond the cap.
THEOREM EntranceSafe == EntranceSpec => []EntranceHolds
<1>1. EntranceInv => WithinCap
  BY DEF EntranceInv, RateInv, Keeps, Spaced, WithinCap
<1>2. EntranceInv => EntranceHolds
  BY <1>1 DEF EntranceInv, MailInv, EntranceHolds
<1> QED
  BY EntranceInitInv, EntranceNextInv, <1>2, PTL DEF EntranceSpec, entranceVars

\* A callback moves an identity away from a user who lives only where another
\* has moved it since it was read.
THEOREM IdentitiesStay == EntranceSpec => IdentitiesKept
<1>1. EntranceInv /\ [EntranceNext]_entranceVars => [IdentityKept]_socialVars
  BY PartsStep, SocialNextInv DEF EntranceInv
<1> QED
  BY EntranceInitInv, EntranceNextInv, <1>1, PTL DEF EntranceSpec, IdentitiesKept, entranceVars
=============================================================================
